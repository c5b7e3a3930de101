------------------------- MODULE MCLoggingWorkload -------------------------
(* LoggingWorkload on small instances: the sizes are in the configurations. *)
EXTENDS LoggingWorkload
=============================================================================
