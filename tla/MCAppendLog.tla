---------------------------- MODULE MCAppendLog ----------------------------
(* AppendLog on small instances: the sizes are in the configurations. *)
EXTENDS AppendLog
=============================================================================
