-------------------------- MODULE PostgresServer ---------------------------
(***************************************************************************)
(* The PostgreSQL server under tpc_postgres/postgres.sh and defaults.sh:   *)
(* instances of one container that share a data directory and a port.      *)
(* enroot, pg_ctl and the server itself are external; the scripts see of   *)
(* them only which instances are listed and what a client is answered.     *)
(***************************************************************************)
EXTENDS Integers, FiniteSets, Sequences

CONSTANTS
  Slots,      \* bound: instances of the container that can exist at a time
  Faults,     \* the failures of the environment that the model allows
  MaxFaults   \* bound on their number

FaultNames == {"slow", "stop_fails", "boot_fails", "server_dies", "client_fails"}

ASSUME FaultsAssumption ==
  IsFiniteSet(Slots) /\ Faults \subseteq FaultNames /\ MaxFaults \in Nat

VARIABLES
  server,     \* status of each instance
  detached,   \* the instances whose data directory has been deleted under them
  dir,        \* POSTGRES_DATA_DIR: "absent", "empty", or "cluster"
  db,         \* the database tpch in it: "none", "created", "schema", "loaded"
  faults,     \* history: the kinds of failures there have been
  numFaults   \* history: their number

serverVars == <<server, detached, dir, db, faults, numFaults>>

Statuses ==
  {"none",       \* there is no such instance
   "booting",    \* the container has been started, the server is not ready
   "serving",
   "stopping",   \* pg_ctl has given up waiting for it
   "exiting"}    \* the server is gone, its container is still listed

With(status) == {s \in Slots : server[s] = status}
Alive == With("booting") \cup With("serving") \cup With("stopping")
Listed == Alive \cup With("exiting")

\* a failure of the given kind is possible now, and is counted
Failing(kind) ==
  /\ kind \in Faults /\ numFaults < MaxFaults
  /\ faults' = faults \cup {kind}
  /\ numFaults' = numFaults + 1

NoFailure == UNCHANGED <<faults, numFaults>>

\* a client finds a server, and its directory is where it should be
Answers == With("serving") # {}
Works == With("serving") \ detached # {}

-----------------------------------------------------------------------------
(* The environment.                                                         *)

\* another instance holds the port and the lock of the data directory
Excluded(s) == (With("serving") \cup With("stopping")) \ {s} # {}

\* a server that finds an empty directory makes a cluster of it
BootEnds(s) ==
  /\ server[s] = "booting"
  /\ IF dir = "absent" \/ s \in detached \/ Excluded(s)
     THEN /\ server' = [server EXCEPT ![s] = "none"]
          /\ detached' = detached \ {s}
          /\ UNCHANGED dir
     ELSE /\ server' = [server EXCEPT ![s] = "serving"]
          /\ dir' = "cluster"
          /\ UNCHANGED detached
  /\ UNCHANGED <<db, faults, numFaults>>

Gone(s) ==
  /\ server' = [server EXCEPT ![s] = "none"]
  /\ detached' = detached \ {s}
  /\ UNCHANGED <<dir, db>>

BootFails(s) == server[s] = "booting" /\ Failing("boot_fails") /\ Gone(s)
StopEnds(s) == server[s] \in {"stopping", "exiting"} /\ NoFailure /\ Gone(s)
ServerDies(s) == server[s] = "serving" /\ Failing("server_dies") /\ Gone(s)

\* a server gives up when it notices that its directory is gone
DetachedEnds(s) ==
  server[s] = "serving" /\ s \in detached /\ NoFailure /\ Gone(s)

Settles(s) == BootEnds(s) \/ StopEnds(s)
Environment ==
  \E s \in Slots : Settles(s) \/ BootFails(s) \/ ServerDies(s) \/ DetachedEnds(s)

-----------------------------------------------------------------------------
(* The functions of defaults.sh and postgres.sh.                            *)

\* is_postgres_running: the process id is looked up and then looked for; the ids
\* of two instances run together into a number that is hardly a process, and an
\* instance that is just exiting is there or not
SeesRunning == Cardinality(Listed) = 1

SeesNothing ==
  \/ Alive = {}
  \/ Cardinality(Listed) > 1

\* stop_postgres: "enroot exec $(get_postgres_pid) pg_ctl stop" waits for the
\* server, for a minute; it does nothing if there is no process, or two, or if
\* the server is not that far yet
PgCtlStop ==
  \/ /\ \/ Cardinality(Listed) # 1
        \/ With("booting") \cup With("exiting") # {}
     /\ UNCHANGED serverVars
  \/ /\ Cardinality(Listed) = 1
     /\ \E s \in Alive :
          \/ NoFailure /\ Gone(s)
          \/ /\ Failing("slow")
             /\ server' = [server EXCEPT ![s] = "exiting"]
             /\ UNCHANGED <<detached, dir, db>>
          \/ /\ Failing("stop_fails")
             /\ \E how \in {server[s], "stopping"} :
                  server' = [server EXCEPT ![s] = how]
             /\ UNCHANGED <<detached, dir, db>>

\* the container is started in the background
Launch ==
  /\ \E s \in With("none") : server' = [server EXCEPT ![s] = "booting"]
  /\ UNCHANGED <<detached, dir, db, faults, numFaults>>

\* the time a sleep gives is enough, or it is not
Sleep ==
  /\ UNCHANGED <<server, detached, dir, db>>
  /\ IF Listed \ With("serving") = {} THEN NoFailure ELSE Failing("slow")

\* rm -rf $POSTGRES_DATA_DIR
RemoveDir ==
  /\ dir' = "absent" /\ db' = "none"
  /\ detached' = detached \cup Alive
  /\ UNCHANGED <<server, faults, numFaults>>

\* prepare_directories
PrepareDirectories ==
  /\ dir' = "empty" /\ db' = "none"
  /\ detached' = detached \cup Alive
  /\ UNCHANGED <<server, faults, numFaults>>

=============================================================================
