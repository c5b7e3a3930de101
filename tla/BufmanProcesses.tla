-------------------------- MODULE BufmanProcesses --------------------------
(***************************************************************************)
(* The bufman processes that a benchmark script starts (src/bin/bufman.cpp) *)
(* and the buffer files they share.  --initialize forks a dd per directory, *)
(* --scramble forks a copy of itself per directory, and in both cases the  *)
(* parent waits for all of them and looks at no status.  Without the two   *)
(* flags the process runs a workload on its files.  What a workload does   *)
(* with the contents is in the other modules: here a file is only missing, *)
(* too short, prepared for a measurement, or left over by one.             *)
(***************************************************************************)
EXTENDS Integers, Sequences, Functions

CONSTANTS
  Mounts,      \* directories of the buffer files
  MaxThreads,  \* one buffer file per suffix 0 .. MaxThreads-1 and directory
  Faults,      \* kinds of calls that may fail, a subset of FaultKinds
  MaxFaults    \* bound: calls that fail in a behaviour

FaultKinds == {"popen", "fork", "child", "workload", "remove"}

ASSUME ProcessAssumption ==
  /\ MaxThreads \in Nat \ {0}
  /\ Faults \subseteq FaultKinds
  /\ MaxFaults \in Nat

VARIABLES
  file,      \* contents of the buffer file of a directory and a suffix
  live,      \* commands started by the script that have not ended
  children,  \* processes forked by --initialize and --scramble, still running
  failing,   \* modes of which a command has ended with a return code # 0
  faults     \* number of calls that failed so far

processVars == <<file, live, children, failing, faults>>

Modes == {"initialize", "scramble", "create", "measure", "rm"}
Engines == {"PAGES", "LINUX", "LINUX_PREFAULT", "LIBPMEM2", "LIBPMEM2_PF"}
Contents == {"none", "short", "prepared", "used"}
Suffixes == 0 .. MaxThreads - 1
Files == Mounts \X Suffixes

\* A command line: "initialize" and "scramble" are the flags of bufman, "create"
\* and "measure" run a workload on the engine, "rm" is rm -f on a pattern.
\* left: the directories main() has still to fork for.
Command(mode, engine, suffix, dirs) ==
  [mode |-> mode, engine |-> engine, suffix |-> suffix, dirs |-> dirs,
   left |-> IF mode \in {"initialize", "scramble"} THEN dirs ELSE <<>>]

FilesOf(p) == Range(p.dirs) \X {p.suffix}
ChildrenOf(p) == {c \in children : c.mode = p.mode /\ c.suffix = p.suffix}

MayFail(kind) == kind \in Faults /\ faults < MaxFaults
Fault == faults' = faults + 1

ProcessInit ==
  /\ file = [f \in Files |-> "none"]
  /\ live = {}
  /\ children = {}
  /\ failing = {}
  /\ faults = 0

Exit(p, code) ==
  /\ live' = live \ {p}
  /\ failing' = IF code = 0 THEN failing ELSE failing \cup {p.mode}

(***************************************************************************)
(* --initialize and --scramble                                             *)
(***************************************************************************)
ForkChild(p) ==
  /\ p.left # <<>>
  /\ live' = (live \ {p}) \cup {[p EXCEPT !.left = Tail(@)]}
  /\ children' = children \cup {[mode |-> p.mode, suffix |-> p.suffix, dir |-> Head(p.left)]}
  /\ UNCHANGED <<file, failing, faults>>

\* --initialize crashes and leaves the children it has to themselves;
\* --scramble takes the -1 for the id of a child and goes on.
ForkFails(p) ==
  /\ MayFail("fork") /\ Fault
  /\ p.left # <<>>
  /\ IF p.mode = "initialize"
     THEN Exit(p, 1)
     ELSE live' = (live \ {p}) \cup {[p EXCEPT !.left = Tail(@)]} /\ UNCHANGED failing
  /\ UNCHANGED <<file, children>>

\* Mutant: the parent does not wait.
ReapEarly(p) ==
  /\ p.mode \in {"initialize", "scramble"}
  /\ p.left = <<>>
  /\ Exit(p, 0)
  /\ UNCHANGED <<file, children, faults>>

\* while (wait(&status) > -1): all children have ended, however they did
Reap(p) ==
  /\ p.mode \in {"initialize", "scramble"}
  /\ p.left = <<>>
  /\ ChildrenOf(p) = {}
  /\ Exit(p, 0)
  /\ UNCHANGED <<file, children, faults>>

\* dd writes the whole file.  The scrambling child opens the file without
\* creating it, and touches every cache line of the size it expects.
ChildEnds(c) ==
  LET f == <<c.dir, c.suffix>> IN
  /\ children' = children \ {c}
  /\ file' = [file EXCEPT ![f] =
                IF c.mode = "initialize" \/ @ \in {"prepared", "used"} THEN "prepared" ELSE @]
  /\ UNCHANGED <<live, failing, faults>>

\* dd stops early, or is not there to be executed; a call of the scrambling
\* child fails before it has changed anything.
ChildFails(c) ==
  LET f == <<c.dir, c.suffix>> IN
  /\ MayFail("child") /\ Fault
  /\ children' = children \ {c}
  /\ \E left \in IF c.mode = "initialize" THEN {file[f], "short"} ELSE {file[f]} :
        file' = [file EXCEPT ![f] = left]
  /\ UNCHANGED <<live, failing>>

(***************************************************************************)
(* A workload on the files of a process                                    *)
(***************************************************************************)

\* The buffer manager needs whole files.  Of the log files, LIBPMEM2_PF opens a
\* pool that is there, and the others make a file of their own or take any.
Opens(engine, content) ==
  \/ engine \in {"LINUX", "LINUX_PREFAULT", "LIBPMEM2"}
  \/ content \in {"prepared", "used"}

\* contents of a file behind a workload that ran to its end
Outcome(mode) == IF mode = "create" THEN "prepared" ELSE "used"

WorkloadEnds(p) ==
  /\ p.mode \in {"create", "measure"}
  /\ \A f \in FilesOf(p) : Opens(p.engine, file[f])
  /\ file' = [f \in Files |-> IF f \in FilesOf(p) THEN Outcome(p.mode) ELSE file[f]]
  /\ Exit(p, 0)
  /\ UNCHANGED <<children, faults>>

\* The buffer manager opens the directories in order and crashes at the first
\* file that is too short, which open() may just have created.
CannotOpen(p) ==
  /\ p.mode \in {"create", "measure"}
  /\ \E i \in DOMAIN p.dirs :
       LET f == <<p.dirs[i], p.suffix>> IN
       /\ ~Opens(p.engine, file[f])
       /\ \A j \in 1 .. i - 1 : Opens(p.engine, file[<<p.dirs[j], p.suffix>>])
       /\ \E left \in IF p.engine = "PAGES" /\ file[f] = "none" THEN {"none", "short"} ELSE {file[f]} :
             file' = [file EXCEPT ![f] = left]
  /\ Exit(p, 1)
  /\ UNCHANGED <<children, faults>>

\* A call inside the workload fails: pages stay where they are, a log is left
\* incomplete, in a pool that can be opened or not.
WorkloadFails(p) ==
  /\ MayFail("workload") /\ Fault
  /\ p.mode \in {"create", "measure"}
  /\ \A f \in FilesOf(p) : Opens(p.engine, file[f])
  /\ \E left \in IF p.engine = "LIBPMEM2" THEN {"none", "short", "prepared"} ELSE {"used"} :
       file' = [f \in Files |-> IF f \in FilesOf(p) THEN left ELSE file[f]]
  /\ Exit(p, 1)
  /\ UNCHANGED children

\* Without a shell nobody expands the pattern: rm looks for a file of that name,
\* and -f finds nothing wrong with its absence.
RmEnds(p) ==
  /\ p.mode = "rm"
  /\ Exit(p, 0)
  /\ UNCHANGED <<file, children, faults>>

CommandStep ==
  \E p \in live :
    \/ ForkChild(p)
    \/ Reap(p)
    \/ WorkloadEnds(p)
    \/ CannotOpen(p)
    \/ RmEnds(p)
ChildStep == \E c \in children : ChildEnds(c)
ProcessFault ==
  \/ \E p \in live : ForkFails(p) \/ WorkloadFails(p)
  \/ \E c \in children : ChildFails(c)
=============================================================================
