----------------------------- MODULE DurableLog -----------------------------
(***************************************************************************)
(* What a logging workload promises about its log: the entries it counts   *)
(* as logged are on the medium, in the order they were made, and none of   *)
(* them ever changes or disappears again.  Pages, files, buffers, engines  *)
(* and power failures do not appear here.                                  *)
(***************************************************************************)
EXTENDS Sequences

CONSTANTS
  Entry,    \* possible log entries
  NoEntry   \* not an entry

VARIABLES
  log,      \* the logged entries, as they stand on the medium
  request   \* the entry being logged, or NoEntry

vars == <<log, request>>

Init == log = <<>> /\ request = NoEntry

Request ==
  /\ request = NoEntry
  /\ request' \in Entry
  /\ UNCHANGED log

Acknowledge ==
  /\ request # NoEntry
  /\ log' = Append(log, request)
  /\ request' = NoEntry

\* the process ends or the power fails: the entry is not counted as logged
Abandon ==
  /\ request' = NoEntry
  /\ UNCHANGED log

Next == Request \/ Acknowledge \/ Abandon

Spec == Init /\ [][Next]_vars

=============================================================================
