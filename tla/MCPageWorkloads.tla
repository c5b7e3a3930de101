-------------------------- MODULE MCPageWorkloads --------------------------
(* PageWorkloads on small instances: the sizes are in the configurations. *)
EXTENDS PageWorkloads
=============================================================================
