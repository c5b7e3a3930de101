--------------------------- MODULE MCTPCHDriver ----------------------------
(* TPCHDriver on small instances: the sizes are in the configurations. *)
EXTENDS TPCHDriver
=============================================================================
