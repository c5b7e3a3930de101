---------------------------- MODULE TPCHDriver -----------------------------
(***************************************************************************)
(* tpc_postgres/tpch.sh, which runs TPC-H through postgres.sh.  A command  *)
(* is a list of steps that are taken one after the other whatever becomes  *)
(* of them: the shell does not stop at a step that fails.  A step that     *)
(* calls postgres.sh leaves a list of steps of that script to be done      *)
(* before the next one.                                                    *)
(***************************************************************************)
EXTENDS PostgresServer

CONSTANTS
  NumQueries,   \* 22
  Commands,     \* commands of tpch.sh
  MaxCommands   \* bound on the number of commands that follow each other

CommandNames == {"prepare", "run-quick", "prepare-from-cache", "run-from-cache", "run"}

ASSUME CommandsAssumption ==
  NumQueries \in Nat /\ Commands \subseteq CommandNames /\ MaxCommands \in Nat

VARIABLES
  command,   \* the command that runs, or ran last
  line,      \* the number of its next step
  todo,      \* what postgres.sh has still to do before that
  rows,      \* TPCH_OUTPUT: of each row, whether a loaded database was measured
  prepared,  \* history: the rows are those of a benchmark on a loaded database
  settled,   \* history: the command began with one server at most, and that served
  commands   \* history: the number of commands

driverVars == <<command, line, todo, rows, prepared, settled, commands>>
vars == <<serverVars, driverVars>>

-----------------------------------------------------------------------------
(* The functions of tpch.sh, as lists of steps.                             *)

prepare_benchmark == <<"stop", "reset", "start", "drop", "create", "schema", "load">>

stop_postgres == <<"stop", "sleep">>
start_postgres == <<"start", "sleep">>
restart_postgres == <<"restart", "sleep">>

\* mutant: the directory is cleared before the server is stopped
prepare_from_data_wiped ==
  <<"rm">> \o stop_postgres \o <<"unzip">> \o start_postgres
    \o <<"sleep", "check", "check">> \o restart_postgres \o <<"check", "check">>
    \o restart_postgres \o <<"check">>

\* mutant: nobody waits for the end of recovery after the last restart
prepare_from_data_unchecked ==
  stop_postgres \o <<"rm", "unzip">> \o start_postgres
    \o <<"sleep", "check", "check">> \o restart_postgres \o <<"check", "check">>
    \o restart_postgres

prepare_from_data ==
  stop_postgres \o <<"rm", "unzip">> \o start_postgres
    \o <<"sleep", "check", "check">> \o restart_postgres \o <<"check", "check">>
    \o restart_postgres \o <<"check">>

\* two rows for each query, and a restart
Queries ==
  [k \in 1 .. 4 * NumQueries |-> (<<"query", "query">> \o restart_postgres)[((k - 1) % 4) + 1]]

run_benchmark == restart_postgres \o <<"header">> \o Queries

StepsOf(c) ==
  CASE c = "prepare"            -> prepare_benchmark
    [] c = "run-quick"          -> run_benchmark
    [] c = "prepare-from-cache" -> prepare_from_data
    [] c = "run-from-cache"     -> prepare_from_data \o run_benchmark
    [] c = "run"                -> prepare_benchmark \o run_benchmark
    [] OTHER                    -> <<>>

Init ==
  /\ server \in [Slots -> {"none", "serving"}]
  /\ Cardinality(Listed) <= 1
  /\ detached = {}
  /\ dir = "cluster" /\ db \in {"none", "loaded"}
  /\ faults = {} /\ numFaults = 0
  /\ command = "none" /\ line = 1 /\ todo = <<>>
  /\ rows = <<>> /\ prepared = FALSE /\ settled = FALSE
  /\ commands = 0

\* the command has come to its end
Over == todo = <<>> /\ line > Len(StepsOf(command))

\* no server is on its way up or down, and none has lost its directory
Settled == Listed = With("serving") /\ Cardinality(Listed) <= 1 /\ detached = {}

Begin(c) ==
  /\ Over /\ commands < MaxCommands
  /\ command' = c /\ line' = 1
  /\ commands' = commands + 1
  /\ settled' = Settled
  /\ UNCHANGED <<serverVars, todo, rows, prepared>>

-----------------------------------------------------------------------------
(* The steps.                                                               *)

\* the next step of the command, if postgres.sh is not at work
At(step) ==
  /\ todo = <<>>
  /\ line <= Len(StepsOf(command)) /\ StepsOf(command)[line] = step

Done == line' = line + 1 /\ UNCHANGED todo
DoneBy(steps) == line' = line + 1 /\ todo' = steps

\* the same for postgres.sh
AtServer(step) == todo # <<>> /\ Head(todo) = step
ServerDone == todo' = Tail(todo) /\ UNCHANGED line

OwnUnchanged == UNCHANGED <<command, rows, prepared, settled, commands>>

\* mutant: the new server is started before the old one is stopped
restart_reversed == <<"launch", "pg_ctl stop", "wait">>

\* mutant: restart only stops
restart_stopped == <<"pg_ctl stop">>

\* restart of postgres.sh, if it sees a server
restart_running == <<"pg_ctl stop", "launch", "wait">>

\* the commands of postgres.sh: guards that end it, or what it does
PostgresSh ==
  /\ \/ At("stop") /\ SeesRunning /\ DoneBy(<<"pg_ctl stop">>)
     \/ At("stop") /\ SeesNothing /\ Done
     \/ At("start") /\ SeesNothing /\ DoneBy(<<"launch", "wait">>)
     \/ At("start") /\ SeesRunning /\ Done
     \/ At("reset") /\ SeesNothing /\ DoneBy(<<"mkdir", "launch", "wait">>)
     \/ At("reset") /\ SeesRunning /\ Done
     \/ At("restart") /\ SeesRunning /\ DoneBy(restart_running)
     \/ At("restart") /\ SeesNothing /\ DoneBy(<<"launch", "wait">>)
  /\ UNCHANGED serverVars /\ OwnUnchanged

\* the steps of postgres.sh
ServerStep ==
  /\ \/ AtServer("pg_ctl stop") /\ PgCtlStop
     \/ AtServer("launch") /\ Launch
     \/ AtServer("mkdir") /\ PrepareDirectories
     \/ AtServer("wait") /\ Sleep
  /\ ServerDone /\ OwnUnchanged

ShellStep ==
  /\ \/ At("rm") /\ RemoveDir
     \/ At("sleep") /\ Sleep
  /\ Done /\ OwnUnchanged

\* unzip -d $POSTGRES_DATA_DIR
Unzip ==
  /\ At("unzip") /\ Done /\ OwnUnchanged
  /\ dir' = "cluster" /\ db' = "loaded"
  /\ UNCHANGED <<server, detached, faults, numFaults>>

\* a statement that changes the database, if a server executes it
Statement(step, before, after) ==
  /\ At(step) /\ Done /\ OwnUnchanged
  /\ \/ NoFailure /\ db' = IF Works /\ db \in before THEN after ELSE db
     \/ Failing("client_fails") /\ UNCHANGED db
  /\ UNCHANGED <<server, detached, dir>>

\* dropdb, createdb, the schema, the tables
Sql ==
  \/ Statement("drop", {"created", "schema", "loaded"}, "none")
  \/ Statement("create", {"none"}, "created")
  \/ Statement("schema", {"created"}, "schema")
  \/ Statement("load", {"schema"}, "loaded")

\* the loop of check_for_recovery ends with the answer "f", which only a server
\* gives that is ready; it polls for ever otherwise
CheckForRecovery ==
  /\ At("check") /\ Answers
  /\ Done /\ UNCHANGED serverVars /\ OwnUnchanged

\* mutant: the results of an earlier run are kept
HeaderAppended ==
  At("header") /\ Done /\ UNCHANGED serverVars /\ OwnUnchanged

\* the header overwrites the file
Header ==
  /\ At("header") /\ Done
  /\ rows' = <<>>
  /\ prepared' = (command # "run-quick" \/ db = "loaded")
  /\ UNCHANGED <<serverVars, command, settled, commands>>

\* time is taken of a psql that may as well have failed
Query ==
  /\ At("query") /\ Done
  /\ \/ rows' = Append(rows, Works /\ db = "loaded") /\ NoFailure
     \/ rows' = Append(rows, FALSE) /\ Failing("client_fails")
  /\ UNCHANGED <<server, detached, dir, db, command, prepared, settled, commands>>

Step ==
  PostgresSh \/ ServerStep \/ ShellStep \/ Unzip \/ Sql \/ CheckForRecovery \/ Header \/ Query

Next ==
  \/ \E c \in Commands : Begin(c)
  \/ Step
  \/ Environment /\ UNCHANGED driverVars

\* the shell goes on, and servers that boot or stop come to an end with it
Spec ==
  /\ Init /\ [][Next]_vars
  /\ WF_vars(Step)
  /\ \A s \in Slots : WF_vars(Settles(s) /\ UNCHANGED driverVars)

-----------------------------------------------------------------------------
(* Properties.                                                              *)

\* Every variable has its type; a file of results holds two rows for a query.
TypeOK ==
  /\ server \in [Slots -> Statuses]
  /\ detached \subseteq Slots
  /\ dir \in {"absent", "empty", "cluster"}
  /\ db \in {"none", "created", "schema", "loaded"}
  /\ faults \subseteq Faults /\ numFaults \in 0 .. MaxFaults
  /\ command \in Commands \cup {"none"}
  /\ line \in 1 .. Len(StepsOf(command)) + 1
  /\ todo \in Seq({"pg_ctl stop", "launch", "mkdir", "wait"})
  /\ rows \in Seq(BOOLEAN) /\ Len(rows) <= 2 * NumQueries
  /\ prepared \in BOOLEAN /\ settled \in BOOLEAN
  /\ commands \in 0 .. MaxCommands

\* If no step has failed, every row of a benchmark on a loaded database times a
\* query that a server has executed on it.
RowsAreReal ==
  faults = {} /\ prepared => \A r \in 1 .. Len(rows) : rows[r]

\* A data directory is deleted under a living server only if stopping a server has
\* failed before, or a server has been slower, to stop or to boot, than the script
\* waits.
DirNotPulledAway ==
  [][~(detached' \subseteq detached) => faults \cap {"stop_fails", "slow"} # {}]_vars

\* When the preparation from a copy of the data ends, a server works on it, however
\* long servers have taken to boot and to stop, and whichever of them did not boot;
\* unless a server was on its way when the command began: a slow one may come up
\* before its directory is deleted, and go on answering without it.
PreparedIsServing ==
  /\ command = "prepare-from-cache" /\ Over
  /\ settled /\ faults \subseteq {"slow", "boot_fails"}
  => Works /\ db = "loaded"

\* the script polls a server that will never answer
Hung == At("check") /\ Alive = {}

Busy == ~Over
EndsOrHangs == Over \/ (Hung /\ faults # {})

\* A command ends, or a failure has left check_for_recovery without a server, and
\* then it waits for ever.
ScriptEnds == Busy ~> EndsOrHangs

=============================================================================
