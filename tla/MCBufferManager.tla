-------------------------- MODULE MCBufferManager --------------------------
(* BufferManager on small instances: the sizes are in the configurations. *)
EXTENDS BufferManager
=============================================================================
