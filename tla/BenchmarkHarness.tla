-------------------------- MODULE BenchmarkHarness -------------------------
(***************************************************************************)
(* The scripts of src/bench: prepare(), execute() and finalize() of a       *)
(* benchmark and Test.run(), which starts the commands of a test at once,  *)
(* waits for all of them, and takes the time.  The processes they start    *)
(* are in BufmanProcesses.  Of the parameters that the scripts combine      *)
(* only the directories and the number of threads matter here.             *)
(***************************************************************************)
EXTENDS BufmanProcesses, FiniteSets

CONSTANTS
  Scripts,       \* scripts to choose from, a subset of AllScripts
  MountLists,    \* self.mount_combinations, a sequence of sequences
  ThreadCounts,  \* self.thread_counts
  NumRuns        \* self.num_runs_per_configuration

AllScripts == {"buffermanagement", "tablescan", "logging_linux",
               "logging_linux_prefault", "logging_libpmem"}

ASSUME HarnessAssumption ==
  /\ Scripts \subseteq AllScripts
  /\ IsFiniteSet(Mounts)
  /\ MountLists \in Seq(Seq(Mounts) \ {<<>>}) /\ IsInjective(MountLists)
  /\ ThreadCounts \in Seq(1 .. MaxThreads) /\ IsInjective(ThreadCounts)
  /\ MaxThreads \in Range(ThreadCounts)
  /\ NumRuns \in Nat \ {0}

VARIABLES
  script,    \* the script that runs
  stage,     \* "prepare", "execute", "finalize", "finished", "dead"
  phase,     \* mode of the commands that Test.run() is at, "idle" between tests
  todo,      \* commands of the phase still to start
  initResult,\* result of the test of prepare(): "None", "failed"
  point,     \* number of the test of execute() that runs, or may be next
  rows,      \* self.results
  opened     \* history: contents of the files when the measured commands started

harnessVars == <<script, stage, phase, todo, initResult, point, rows, opened>>
vars == <<processVars, harnessVars>>

(***************************************************************************)
(* What the scripts differ in                                              *)
(***************************************************************************)
OnPages == {"buffermanagement", "tablescan"}
Initializing == OnPages \cup {"logging_linux_prefault"}

\* The try of Test.run() is commented out in the scripts on logging.
Swallows == script \in OnPages

Engine == CASE script \in OnPages -> "PAGES"
            [] script = "logging_linux" -> "LINUX"
            [] script = "logging_linux_prefault" -> "LINUX_PREFAULT"
            [] script = "logging_libpmem" -> "LIBPMEM2_PF"

\* Mutant: only the pools are removed.
CleansUpPools == script = "logging_libpmem"

\* cleanup_buffers() behind every test
CleansUp == script \in {"logging_linux", "logging_libpmem"}

\* Single directories are left out for LINUX, though not for the other logs.
IsValidComb(mounts) == script = "logging_linux" => Len(mounts) # 1

\* In buffermanagement a combination has 8 parameters and comb[8] is looked at.
IsValidCombRaises == script = "buffermanagement"

\* Mutant: the number of threads changes one run late.
ThreadsOfLate(n) == ThreadCounts[((n \div (NumRuns + 1)) % Len(ThreadCounts)) + 1]

\* The tests of execute(), numbered in the order of its three loops.
TestsPerComb == Len(ThreadCounts) * NumRuns
NumTests == Len(MountLists) * TestsPerComb
CombOf(n) == MountLists[((n - 1) \div TestsPerComb) + 1]
ThreadsOf(n) == ThreadCounts[(((n - 1) \div NumRuns) % Len(ThreadCounts)) + 1]

\* filter(isvalidcomb, combinations), and what is left of it
ValidTests == {n \in 1 .. NumTests : IsValidComb(CombOf(n))}
ToRun == {n \in ValidTests : n >= point}

\* A log goes to one of the directories, in turn; pages are spread over all.
DirsOf(n, t) ==
  LET mounts == CombOf(n) IN
  IF script \in OnPages THEN mounts ELSE <<mounts[(t % Len(mounts)) + 1]>>

Commands(mode, engine, n) ==
  [i \in 1 .. ThreadsOf(n) |-> Command(mode, engine, i - 1, DirsOf(n, i - 1))]
PreparationCmds(n) ==
  CASE script \in OnPages -> Commands("scramble", "PAGES", n)
    [] script = "logging_libpmem" -> Commands("create", "LIBPMEM2", n)
    [] OTHER -> <<>>
MeasuredCmds(n) == Commands("measure", Engine, n)

AllMounts == UNION {Range(MountLists[i]) : i \in DOMAIN MountLists}

InitializeDirs ==
  CHOOSE s \in [1 .. Cardinality(AllMounts) -> AllMounts] : Range(s) = AllMounts

\* Mutant: suffixes count from 1.
InitializeCmdsFromOne ==
  [i \in 1 .. MaxThreads |-> Command("initialize", Engine, i, InitializeDirs)]

\* all the directories, for as many suffixes as there may be
InitializeCmds ==
  [i \in 1 .. MaxThreads |-> Command("initialize", Engine, i - 1, InitializeDirs)]

\* an rm for every directory
RmCmds ==
  [i \in DOMAIN InitializeDirs |-> Command("rm", Engine, 0, <<InitializeDirs[i]>>)]

(***************************************************************************)
(* cleanup_buffers() and purge()                                           *)
(***************************************************************************)
\* Mutant: the pattern matches the first suffix only.
PurgedFirst(mounts) ==
  [f \in Files |-> IF f[1] \in mounts /\ f[2] = 0 THEN "none" ELSE file[f]]

\* the files of all suffixes in some directories are removed
Purged(mounts) == [f \in Files |-> IF f[1] \in mounts THEN "none" ELSE file[f]]

\* os.remove() raises, perhaps in the middle, and the script ends.
CleanupBuffers(then) ==
  \/ /\ file' = Purged(AllMounts)
     /\ stage' = then
     /\ UNCHANGED faults
  \/ /\ MayFail("remove") /\ Fault
     /\ \E some \in SUBSET AllMounts : file' = Purged(some)
     /\ stage' = "dead"

(***************************************************************************)
(* Test.run()                                                              *)
(***************************************************************************)
HarnessInit ==
  /\ script \in Scripts
  /\ stage = "prepare"
  /\ phase = "idle"
  /\ todo = <<>>
  /\ initResult = "None"
  /\ point = 1
  /\ rows = <<>>
  /\ opened = {}

StartPhase(mode, cmds) ==
  /\ phase' = mode
  /\ todo' = cmds
  /\ failing' = failing \ {mode}

\* subprocess.Popen(cmd.split()) for the next command
Popen ==
  /\ todo # <<>>
  /\ live' = live \cup {Head(todo)}
  /\ todo' = Tail(todo)
  /\ opened' = IF phase = "measure"
               THEN opened \cup {file[f] : f \in FilesOf(Head(todo))} ELSE opened
  /\ UNCHANGED <<file, children, failing, faults, script, stage, phase,
                 initResult, point, rows>>

\* Mutants: nobody waits; the wait goes on until all commands have succeeded.
AllStarted == todo = <<>>
AllEndedWell == todo = <<>> /\ (\A p \in live : p.mode # phase) /\ phase \notin failing

\* [pid.wait() for pid in pids]
AllEnded == todo = <<>> /\ \A p \in live : p.mode # phase

\* The return codes of the preparation are dropped.
PreparationEnds ==
  /\ phase \in {"scramble", "create"}
  /\ AllEnded
  /\ StartPhase("measure", MeasuredCmds(point))
  /\ UNCHANGED <<file, live, children, faults, script, stage, initResult, point,
                 rows, opened>>

\* The row of a test; a script that cleans up does so before the next one.
Record ==
  /\ rows' = Append(rows,
       [test |-> point, mounts |-> CombOf(point), threads |-> ThreadsOf(point),
        failed |-> "measure" \in failing, opened |-> opened, faults |-> faults])
  /\ point' = point + 1
  /\ IF CleansUp THEN CleanupBuffers(stage) ELSE UNCHANGED <<file, faults, stage>>
  /\ UNCHANGED initResult

\* What the callers of Test.run() do when it returns.
TestReturns(result) ==
  \/ /\ stage = "prepare"
     /\ stage' = "execute"
     /\ initResult' = result
     /\ UNCHANGED <<file, faults, point, rows>>
  \/ /\ stage = "execute"
     /\ Record
  \/ /\ stage = "finalize"
     /\ stage' = "finished"
     /\ UNCHANGED <<file, faults, initResult, point, rows>>

\* An exception behind the last command: printed and forgotten, or the end of
\* the script.
TestRaises ==
  IF Swallows
  THEN TestReturns("failed")
  ELSE stage' = "dead" /\ UNCHANGED <<file, faults, initResult, point, rows>>

CommandsEnd ==
  /\ phase \in {"initialize", "measure", "rm"}
  /\ AllEnded
  /\ phase' = "idle"
  /\ IF phase \in failing THEN TestRaises ELSE TestReturns("None")
  /\ UNCHANGED <<live, children, failing, script, todo, opened>>

\* The commands started before this one go on, and nobody waits for them.  A test
\* of execute() is left with the runtime 0.0, by which its caller divides.
PopenFails ==
  /\ MayFail("popen")
  /\ todo # <<>>
  /\ todo' = <<>>
  /\ phase' = "idle"
  /\ faults' = faults + 1
  /\ IF Swallows /\ stage # "execute"
     THEN /\ stage' = IF stage = "prepare" THEN "execute" ELSE "finished"
          /\ initResult' = IF stage = "prepare" THEN "failed" ELSE initResult
     ELSE stage' = "dead" /\ UNCHANGED initResult
  /\ UNCHANGED <<file, live, children, failing, script, point, rows, opened>>

(***************************************************************************)
(* prepare(), execute() and finalize()                                     *)
(***************************************************************************)
Prepare ==
  /\ stage = "prepare" /\ phase = "idle"
  /\ IF script \in Initializing
     THEN StartPhase("initialize", InitializeCmds) /\ UNCHANGED <<file, stage, faults>>
     ELSE CleanupBuffers("execute") /\ UNCHANGED <<phase, todo, failing>>
  /\ UNCHANGED <<live, children, script, initResult, point, rows, opened>>

NextTest ==
  /\ stage = "execute" /\ phase = "idle"
  /\ ~IsValidCombRaises
  /\ \E n \in ToRun :
       /\ \A m \in ToRun : n <= m
       /\ point' = n
       /\ IF PreparationCmds(n) # <<>>
          THEN StartPhase(PreparationCmds(n)[1].mode, PreparationCmds(n))
          ELSE StartPhase("measure", MeasuredCmds(n))
  /\ opened' = {}
  /\ UNCHANGED <<file, live, children, faults, script, stage, initResult, rows>>

\* The first combination that is looked at is one too many for its index.
CombinationRaises ==
  /\ stage = "execute" /\ phase = "idle"
  /\ IsValidCombRaises
  /\ stage' = "dead"
  /\ UNCHANGED <<processVars, script, phase, todo, initResult, point, rows, opened>>

Finalize ==
  /\ stage = "execute" /\ phase = "idle"
  /\ ~IsValidCombRaises
  /\ ToRun = {}
  /\ IF script \in OnPages
     THEN /\ StartPhase("rm", RmCmds)
          /\ stage' = "finalize"
          /\ UNCHANGED <<file, faults>>
     ELSE CleanupBuffers("finished") /\ UNCHANGED <<phase, todo, failing>>
  /\ UNCHANGED <<live, children, script, initResult, point, rows, opened>>

HarnessStep ==
  \/ Prepare \/ Popen \/ PreparationEnds \/ CommandsEnd
  \/ NextTest \/ CombinationRaises \/ Finalize
ProcessStep == (CommandStep \/ ChildStep) /\ UNCHANGED harnessVars
Failure == PopenFails \/ (ProcessFault /\ UNCHANGED harnessVars)

Init == ProcessInit /\ HarnessInit
Next == HarnessStep \/ ProcessStep \/ Failure

\* The script goes on while it can, and a started process comes to its end: the
\* loops of bufman and dd are over a fixed number of bytes.
Fairness == WF_vars(HarnessStep) /\ WF_vars(ProcessStep)
Spec == Init /\ [][Next]_vars /\ Fairness

(***************************************************************************)
(* Properties                                                              *)
(***************************************************************************)
TypeOK ==
  /\ file \in [Files -> Contents]
  /\ \A p \in live : p.mode \in Modes /\ p.engine \in Engines /\ p.suffix \in Suffixes
                     /\ Range(p.left) \subseteq Range(p.dirs) /\ Range(p.dirs) \subseteq Mounts
  /\ children \subseteq [mode : {"initialize", "scramble"}, suffix : Suffixes, dir : Mounts]
  /\ failing \subseteq Modes
  /\ faults \in 0 .. MaxFaults
  /\ script \in Scripts
  /\ stage \in {"prepare", "execute", "finalize", "finished", "dead"}
  /\ phase \in Modes \cup {"idle"}
  /\ phase = "idle" => todo = <<>>
  /\ initResult \in {"None", "failed"}
  /\ point \in 1 .. NumTests + 1
  /\ Len(rows) <= NumTests
  /\ opened \subseteq Contents

\* While a command is measured, no other process is at work on any of its files:
\* neither a dd of the initialization nor a scrambling child nor the run that
\* creates the pools.  It takes an initialization that failed and was forgotten
\* to break this (bufman exits without waiting when fork() fails, and Test.run()
\* swallows the return code).
MeasuredAlone ==
  initResult = "None" =>
    \A p \in {q \in live : q.mode = "measure"} :
      /\ \A c \in children : <<c.dir, c.suffix>> \notin FilesOf(p)
      /\ \A q \in live \ {p} : q.mode # "rm" => FilesOf(p) \cap FilesOf(q) = {}

\* The time is taken, and the row recorded, when everything that was started for
\* the test has ended.
RecordedWhenEnded ==
  [][rows' # rows /\ initResult = "None" => live' = {} /\ children' = {}]_vars

\* What a row was measured on: a LINUX log always starts with no file, whatever
\* failed before; as long as nothing fails, pages were scrambled since they were
\* last measured, a pool is the one that the preparation of the test has made, and
\* a prefaulted log finds a whole file.
RowsOnPreparedFiles ==
  \A i \in DOMAIN rows :
    CASE script = "logging_linux" -> rows[i].opened = {"none"}
      [] script = "logging_linux_prefault" ->
           rows[i].faults = 0 => rows[i].opened \subseteq {"prepared", "used"}
      [] OTHER -> rows[i].faults = 0 => rows[i].opened = {"prepared"}

\* A script dies only of a call that failed (or of its own combinations, see
\* CombinationRaises), and one that comes to its end has as many rows as it was
\* told for every combination of directories and number of threads.
EveryTestRecorded ==
  /\ stage = "dead" => faults > 0 \/ IsValidCombRaises
  /\ stage = "finished" =>
       \A mounts \in {m \in Range(MountLists) : IsValidComb(m)}, threads \in Range(ThreadCounts) :
         Cardinality({i \in DOMAIN rows : rows[i].mounts = mounts /\ rows[i].threads = threads}) = NumRuns

\* A script on logging that comes to its end leaves no file and no process.
NothingLeft ==
  stage = "finished" /\ script \notin OnPages =>
    /\ \A f \in Files : file[f] = "none"
    /\ live = {} /\ children = {}

\* The script comes to its end or dies, and so does all that it has started.
AllOver == stage \in {"finished", "dead"} /\ live = {} /\ children = {}
Completes == <>AllOver

\* Test.run() raises "Test failed!" when a command has: no row should come from
\* such a test.
RowsOfSuccess == \A i \in DOMAIN rows : ~rows[i].failed
=============================================================================
