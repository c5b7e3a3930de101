----------------------- MODULE BenchmarkHarnessProofs ----------------------
(***************************************************************************)
(* The benchmark scripts, for any number of threads, directories, tests    *)
(* and failing calls.  HarnessInv says in which order commands run: a       *)
(* measured one has its files to itself, and a row is recorded when all     *)
(* that was started for it has ended.  TypeInv adds what the commands and  *)
(* the rows are, CleanInv that nothing is left of a log behind a test,     *)
(* FilesInv what the phases of a test have made of its files when it is     *)
(* measured, and RowsInv that the rows are the tests so far, each once.     *)
(***************************************************************************)
EXTENDS BenchmarkHarness, SequenceTheorems, FunctionTheorems, FiniteSetTheorems, TLAPS

-----------------------------------------------------------------------------
(* The invariant.                                                           *)

Forking == {"initialize", "scramble"}

\* a command line; only those that fork have directories left
IsCommand(p) ==
  /\ p \in [mode : {p.mode}, engine : {p.engine}, suffix : Int,
            dirs : {p.dirs}, left : {p.left}]
  /\ p.mode \notin Forking => p.left = <<>>

\* The modes that Test.run() goes through in every stage, and the commands it has
\* still to start.
StageInv ==
  /\ point \in Nat \ {0}
  /\ phase = "idle" => todo = <<>>
  /\ stage \in {"prepare", "execute", "finalize", "finished", "dead"}
  /\ stage = "prepare" => phase \in {"idle", "initialize"} /\ initResult = "None"
  /\ stage = "execute" => phase \in {"idle", "scramble", "create", "measure"}
  /\ stage = "finalize" => phase = "rm"
  /\ stage \in {"finished", "dead"} => phase = "idle"
  /\ \A p \in live : IsCommand(p)
  /\ \A c \in children : c.mode \in Forking
  /\ todo \in Seq(Range(todo))
  /\ \A i \in DOMAIN todo : IsCommand(todo[i]) /\ todo[i].mode = phase

\* The commands are started in the order of their suffixes.
SuffixInv ==
  /\ \A p, q \in live : p.mode = "measure" /\ p.suffix = q.suffix => p = q
  /\ phase = "measure" =>
       /\ \A i, j \in DOMAIN todo : i < j => todo[i].suffix < todo[j].suffix
       /\ \A p \in live, i \in DOMAIN todo : p.suffix < todo[i].suffix

\* All that runs belongs to the phase that Test.run() is at, and nothing runs between
\* two tests.  Every forked child has its parent, which waits for it, unless the parent
\* is an initialization that has failed.
OrderInv ==
  /\ \A p, q \in live : p.mode = q.mode
  /\ phase # "idle" => \A p \in live : p.mode = phase
  /\ phase = "idle" /\ stage \in {"prepare", "execute"} => live = {} /\ children = {}
  /\ phase = "measure" => children = {}
  /\ (\E p \in live : p.mode = "measure") => children = {}
  /\ stage \in {"prepare", "execute"} =>
       \A c \in children :
         \/ \E p \in live : p.mode = c.mode /\ p.suffix = c.suffix
         \/ phase = "initialize" /\ "initialize" \in failing

HarnessInv ==
  /\ StageInv
  /\ initResult = "None" => SuffixInv /\ OrderInv

-----------------------------------------------------------------------------
(* The commands of a phase.                                                 *)

\* A list of commands of one mode with rising suffixes.
GoodCommands(cmds, mode) ==
  /\ cmds \in Seq(Range(cmds))
  /\ \A i \in DOMAIN cmds : IsCommand(cmds[i]) /\ cmds[i].mode = mode
  /\ mode = "measure" =>
       \A i, j \in DOMAIN cmds : i < j => cmds[i].suffix < cmds[j].suffix

\* What an n-tuple is.
LEMMA TupleIsSeq ==
  ASSUME NEW n \in Nat, NEW f, f = [i \in 1 .. n |-> f[i]]
  PROVE  f \in Seq(Range(f)) /\ DOMAIN f = 1 .. n /\ Len(f) = n
<1>1. DOMAIN f = 1 .. n
  BY Zenon
<1>2. \A i \in 1 .. n : f[i] \in Range(f)
  BY <1>1 DEF Range
<1>3. f \in [1 .. n -> Range(f)]
  BY <1>2
<1> QED BY <1>1, <1>3

\* Command lines are commands.
LEMMA CommandIsCommand ==
  ASSUME NEW mode, NEW engine, NEW suffix \in Int, NEW dirs
  PROVE  /\ IsCommand(Command(mode, engine, suffix, dirs))
         /\ Command(mode, engine, suffix, dirs).mode = mode
         /\ Command(mode, engine, suffix, dirs).suffix = suffix
BY DEF Command, IsCommand, Forking

\* Every test has a number of threads.
LEMMA ThreadsNat ==
  ASSUME NEW n \in Nat \ {0}
  PROVE  ThreadsOf(n) \in 1 .. MaxThreads
<1>1. /\ ThreadCounts \in Seq(1 .. MaxThreads) /\ ThreadCounts # <<>> /\ NumRuns \in Nat \ {0}
      /\ MaxThreads \in Nat
  <2>1. ThreadCounts # <<>>
    BY HarnessAssumption DEF Range
  <2> QED BY HarnessAssumption, ProcessAssumption, <2>1
<1>2. Len(ThreadCounts) \in Nat \ {0} /\ DOMAIN ThreadCounts = 1 .. Len(ThreadCounts)
  BY <1>1, EmptySeq
<1> DEFINE q == (n - 1) \div NumRuns
           k == q % Len(ThreadCounts)
<1>3. q \in Int
  BY <1>1
<1> HIDE DEF q
<1>4. k \in 0 .. Len(ThreadCounts) - 1
  BY <1>2, <1>3
<1> HIDE DEF k
<1>5. k + 1 \in DOMAIN ThreadCounts
  BY <1>2, <1>4
<1>6. ThreadCounts[k + 1] \in 1 .. MaxThreads
  BY <1>1, <1>5
<1>7. ThreadsOf(n) = ThreadCounts[k + 1]
  BY DEF ThreadsOf, k, q
<1> QED BY <1>6, <1>7

\* The lists that the scripts go through.
LEMMA LengthsNat ==
  /\ Len(MountLists) \in Nat /\ Len(ThreadCounts) \in Nat \ {0}
  /\ NumRuns \in Nat \ {0}
<1>1. ThreadCounts \in Seq(1 .. MaxThreads) /\ ThreadCounts # <<>>
  BY HarnessAssumption DEF Range
<1> QED BY HarnessAssumption, <1>1, EmptySeq

\* The tests are numbered.
LEMMA NumTestsNat == TestsPerComb \in Nat \ {0} /\ NumTests \in Nat
<1>1. Len(MountLists) \in Nat /\ Len(ThreadCounts) \in Nat \ {0} /\ NumRuns \in Nat \ {0}
  BY LengthsNat
<1>2. ASSUME NEW a \in Nat, NEW b \in Nat, a # 0, b # 0 PROVE a * b \in Nat /\ a * b # 0
  BY <1>2
<1>3. TestsPerComb \in Nat \ {0}
  BY <1>1, <1>2 DEF TestsPerComb
<1> QED BY <1>1, <1>3 DEF NumTests

\* The commands of a test.
LEMMA TestCommands ==
  ASSUME NEW n \in Nat \ {0}, NEW mode, NEW engine
  PROVE  /\ GoodCommands(Commands(mode, engine, n), mode)
         /\ Commands(mode, engine, n)[1].mode = mode
<1> DEFINE cmds == Commands(mode, engine, n)
           t == ThreadsOf(n)
<1>1. t \in Nat \ {0}
  BY ProcessAssumption, ThreadsNat
<1>2. cmds = [i \in 1 .. t |-> Command(mode, engine, i - 1, DirsOf(n, i - 1))]
  BY DEF Commands
<1> HIDE DEF cmds, t
<1>3. \A i \in 1 .. t : cmds[i] = Command(mode, engine, i - 1, DirsOf(n, i - 1))
  BY <1>2
<1>4. ASSUME NEW i \in 1 .. t
      PROVE  IsCommand(cmds[i]) /\ cmds[i].mode = mode /\ cmds[i].suffix = i - 1
  <2>1. i - 1 \in Int
    BY <1>1
  <2> QED BY <2>1, <1>3, CommandIsCommand
<1>5. cmds = [i \in 1 .. t |-> cmds[i]]
  BY <1>2
<1>6. cmds \in Seq(Range(cmds)) /\ DOMAIN cmds = 1 .. t
  BY <1>1, <1>5, TupleIsSeq
<1>7. \A i, j \in 1 .. t : i < j => cmds[i].suffix < cmds[j].suffix
  BY <1>1, <1>4
<1>8. 1 \in 1 .. t
  BY <1>1
<1> QED BY <1>4, <1>6, <1>7, <1>8 DEF GoodCommands, cmds

\* The scripts use directories that there are.
LEMMA MountsThere == AllMounts \subseteq Mounts
<1>1. ASSUME NEW i \in DOMAIN MountLists PROVE Range(MountLists[i]) \subseteq Mounts
  <2>1. MountLists[i] \in Seq(Mounts)
    BY HarnessAssumption
  <2> QED BY <2>1 DEF Range
<1> QED BY <1>1 DEF AllMounts

\* The directories that are initialized are a list of all.
LEMMA DirsAreListed ==
  \E n \in Nat : /\ InitializeDirs \in [1 .. n -> AllMounts]
                 /\ Range(InitializeDirs) = AllMounts
<1> DEFINE n == Cardinality(AllMounts)
<1>1. IsFiniteSet(AllMounts)
  BY HarnessAssumption, MountsThere, FS_Subset
<1>2. n \in Nat /\ ExistsBijection(1 .. n, AllMounts)
  BY <1>1, FS_CardinalityType
<1>3. \E s \in [1 .. n -> AllMounts] : Range(s) = AllMounts
  <2>1. PICK s \in [1 .. n -> AllMounts] : \A b \in AllMounts : \E a \in 1 .. n : s[a] = b
    BY <1>2, Zenon DEF ExistsBijection, Bijection, Surjection
  <2>2. Range(s) = AllMounts
    BY <2>1 DEF Range
  <2> QED BY <2>2
<1>4. InitializeDirs \in [1 .. n -> AllMounts] /\ Range(InitializeDirs) = AllMounts
  BY <1>3 DEF InitializeDirs
<1> QED BY <1>2, <1>4

\* The commands of prepare() and finalize().
LEMMA OtherCommands ==
  GoodCommands(InitializeCmds, "initialize") /\ GoodCommands(RmCmds, "rm")
<1>1. GoodCommands(InitializeCmds, "initialize")
  <2> DEFINE cmds == InitializeCmds
  <2>1. MaxThreads \in Nat
    BY ProcessAssumption
  <2>2. cmds = [i \in 1 .. MaxThreads |-> Command("initialize", Engine, i - 1, InitializeDirs)]
    BY DEF InitializeCmds
  <2> HIDE DEF cmds
  <2>3. ASSUME NEW i \in 1 .. MaxThreads
        PROVE  IsCommand(cmds[i]) /\ cmds[i].mode = "initialize"
    <3>1. i - 1 \in Int /\ cmds[i] = Command("initialize", Engine, i - 1, InitializeDirs)
      BY <2>1, <2>2
    <3> QED BY <3>1, CommandIsCommand
  <2>4. cmds = [i \in 1 .. MaxThreads |-> cmds[i]]
    BY <2>2
  <2>5. cmds \in Seq(Range(cmds)) /\ DOMAIN cmds = 1 .. MaxThreads
    BY <2>1, <2>4, TupleIsSeq
  <2> QED BY <2>3, <2>5 DEF GoodCommands, cmds
<1>2. GoodCommands(RmCmds, "rm")
  <2> DEFINE cmds == RmCmds
  <2>1. PICK n \in Nat : DOMAIN InitializeDirs = 1 .. n
    BY DirsAreListed
  <2>2. cmds = [i \in 1 .. n |-> Command("rm", Engine, 0, <<InitializeDirs[i]>>)]
    BY <2>1 DEF RmCmds
  <2> HIDE DEF cmds
  <2>3. ASSUME NEW i \in 1 .. n
        PROVE  IsCommand(cmds[i]) /\ cmds[i].mode = "rm"
    <3>1. cmds[i] = Command("rm", Engine, 0, <<InitializeDirs[i]>>)
      BY <2>2
    <3> QED BY <3>1, CommandIsCommand
  <2>4. cmds = [i \in 1 .. n |-> cmds[i]]
    BY <2>2
  <2>5. cmds \in Seq(Range(cmds)) /\ DOMAIN cmds = 1 .. n
    BY <2>4, TupleIsSeq
  <2> QED BY <2>3, <2>5 DEF GoodCommands, cmds
<1> QED BY <1>1, <1>2

-----------------------------------------------------------------------------
(* The steps of the processes.                                              *)

\* A command ends; a child whose parent it was is left only by an initialization.
LEMMA CommandGone ==
  ASSUME HarnessInv, UNCHANGED harnessVars, NEW p \in live, live' = live \ {p},
         children' = children, failing \subseteq failing',
         \/ ChildrenOf(p) = {}
         \/ p.mode = "initialize" /\ "initialize" \in failing'
         \/ p.mode \notin Forking
  PROVE  HarnessInv'
<1>1. UNCHANGED <<script, stage, phase, todo, initResult, point, rows, opened>>
  BY DEF harnessVars
<1>2. live' \subseteq live
  OBVIOUS
<1>3. StageInv'
  BY <1>1, <1>2 DEF HarnessInv, StageInv
<1>4. ASSUME initResult = "None" PROVE SuffixInv' /\ OrderInv'
  <2>1. SuffixInv /\ OrderInv /\ StageInv
    BY <1>4 DEF HarnessInv
  <2>2. SuffixInv'
    BY <1>1, <1>2, <2>1 DEF SuffixInv
  <2>3. ASSUME stage \in {"prepare", "execute"}, NEW c \in children
        PROVE  \/ \E q \in live' : q.mode = c.mode /\ q.suffix = c.suffix
               \/ phase = "initialize" /\ "initialize" \in failing'
    <3>1. \/ \E q \in live : q.mode = c.mode /\ q.suffix = c.suffix
          \/ phase = "initialize" /\ "initialize" \in failing
      BY <2>1, <2>3 DEF OrderInv
    <3>2. CASE p.mode = c.mode /\ p.suffix = c.suffix
      <4>1. c \in ChildrenOf(p) /\ c.mode \in Forking
        BY <2>1, <3>2 DEF ChildrenOf, StageInv
      <4>2. p.mode = "initialize" /\ "initialize" \in failing'
        BY <4>1, <3>2
      <4>3. phase # "idle"
        BY <2>1, <2>3 DEF OrderInv
      <4>4. phase = "initialize"
        BY <2>1, <4>2, <4>3 DEF OrderInv
      <4> QED BY <4>2, <4>4
    <3>3. CASE ~(p.mode = c.mode /\ p.suffix = c.suffix)
      BY <3>1, <3>3
    <3> QED BY <3>2, <3>3
  <2>4. OrderInv'
    BY <1>1, <1>2, <2>1, <2>3 DEF OrderInv
  <2> QED BY <2>2, <2>4
<1> QED BY <1>1, <1>3, <1>4 DEF HarnessInv

\* A command forks for one more of its directories, or fails to.
LEMMA CommandForks ==
  ASSUME HarnessInv, UNCHANGED harnessVars, NEW p \in live, p.left # <<>>,
         live' = (live \ {p}) \cup {[p EXCEPT !.left = Tail(@)]},
         \A c \in children' \ children : c.mode = p.mode /\ c.suffix = p.suffix,
         failing' = failing
  PROVE  HarnessInv'
<1> DEFINE r == [p EXCEPT !.left = Tail(@)]
<1>1. UNCHANGED <<script, stage, phase, todo, initResult, point, rows, opened>>
  BY DEF harnessVars
<1>2. StageInv /\ IsCommand(p)
  BY DEF HarnessInv, StageInv
<1>3. p.mode \in Forking
  BY <1>2 DEF IsCommand
<1>4. /\ r \in [mode : {p.mode}, engine : {p.engine}, suffix : Int,
                 dirs : {p.dirs}, left : {Tail(p.left)}]
      /\ r.suffix = p.suffix
  BY <1>2 DEF IsCommand
<1>5. r.mode = p.mode /\ r.suffix = p.suffix /\ IsCommand(r)
  <2>1. r.mode = p.mode /\ r.engine = p.engine /\ r.dirs = p.dirs /\ r.left = Tail(p.left)
    BY <1>4
  <2> HIDE DEF r
  <2> QED BY <1>3, <1>4, <2>1 DEF IsCommand
<1>7. live' = (live \ {p}) \cup {r}
  OBVIOUS
<1> HIDE DEF r
<1>8. StageInv'
  BY <1>1, <1>2, <1>3, <1>5, <1>7 DEF StageInv
<1>9. ASSUME initResult = "None" PROVE SuffixInv' /\ OrderInv'
  <2>1. SuffixInv /\ OrderInv
    BY <1>9 DEF HarnessInv
  <2>2. p.mode # "measure"
    BY <1>3 DEF Forking
  <2>3. phase # "measure" /\ \A q \in live : q.mode # "measure"
    BY <2>1, <2>2 DEF OrderInv
  <2>4. SuffixInv'
    BY <1>1, <1>5, <1>7, <2>2, <2>3 DEF SuffixInv
  <2>5. phase = "idle" => stage \notin {"prepare", "execute"}
    BY <2>1 DEF OrderInv
  <2>6. \A q \in live : \E s \in live' : s.mode = q.mode /\ s.suffix = q.suffix
    BY <1>5, <1>7
  <2>7. ASSUME stage \in {"prepare", "execute"}, NEW c \in children'
        PROVE  \/ \E q \in live' : q.mode = c.mode /\ q.suffix = c.suffix
               \/ phase = "initialize" /\ "initialize" \in failing'
    <3>1. CASE c \notin children
      BY <3>1, <1>5, <1>7
    <3>2. CASE c \in children
      <4>1. \/ \E q \in live : q.mode = c.mode /\ q.suffix = c.suffix
            \/ phase = "initialize" /\ "initialize" \in failing
        BY <2>1, <2>7, <3>2 DEF OrderInv
      <4> QED BY <4>1, <2>6
    <3> QED BY <3>1, <3>2
  <2>8. \A q \in live' : q.mode = p.mode
    BY <1>5, <1>7, <2>1 DEF OrderInv
  <2>9. phase # "idle" => p.mode = phase
    BY <2>1 DEF OrderInv
  <2>10. OrderInv'
    BY <1>1, <2>2, <2>3, <2>5, <2>7, <2>8, <2>9 DEF OrderInv
  <2> QED BY <2>4, <2>10
<1> QED BY <1>1, <1>8, <1>9 DEF HarnessInv

\* A child ends.
LEMMA ChildGone ==
  ASSUME HarnessInv, UNCHANGED harnessVars, live' = live, children' \subseteq children,
         failing' = failing
  PROVE  HarnessInv'
<1>1. UNCHANGED <<script, stage, phase, todo, initResult, point, rows, opened>>
  BY DEF harnessVars
<1>2. StageInv'
  BY <1>1 DEF HarnessInv, StageInv
<1>3. ASSUME initResult = "None" PROVE SuffixInv' /\ OrderInv'
  BY <1>1, <1>3 DEF HarnessInv, SuffixInv, OrderInv
<1> QED BY <1>1, <1>2, <1>3 DEF HarnessInv

\* The processes keep the order, and those that fail do too.
LEMMA ProcessOrder ==
  ASSUME HarnessInv, ProcessStep \/ (ProcessFault /\ UNCHANGED harnessVars)
  PROVE  HarnessInv' /\ rows' = rows
<1>0. UNCHANGED harnessVars
  BY DEF ProcessStep
<1>1. ASSUME NEW p \in live, ForkChild(p) PROVE HarnessInv'
  <2>1. /\ p.left # <<>> /\ failing' = failing
        /\ live' = (live \ {p}) \cup {[p EXCEPT !.left = Tail(@)]}
    BY <1>1 DEF ForkChild
  <2>2. \A c \in children' \ children : c.mode = p.mode /\ c.suffix = p.suffix
    BY <1>1 DEF ForkChild
  <2> QED BY <1>0, <2>1, <2>2, CommandForks
<1>2. ASSUME NEW p \in live, Reap(p) PROVE HarnessInv'
  <2>1. live' = live \ {p} /\ children' = children /\ failing' = failing
        /\ ChildrenOf(p) = {}
    BY <1>2 DEF Reap, Exit
  <2> QED BY <1>0, <2>1, CommandGone
<1>3. ASSUME NEW p \in live,
             WorkloadEnds(p) \/ CannotOpen(p) \/ RmEnds(p) \/ WorkloadFails(p)
      PROVE  HarnessInv'
  <2>1. /\ live' = live \ {p} /\ children' = children
        /\ p.mode \in {"create", "measure", "rm"}
    BY <1>3 DEF WorkloadEnds, CannotOpen, RmEnds, WorkloadFails, Exit
  <2>2. failing \subseteq failing'
    BY <1>3 DEF WorkloadEnds, CannotOpen, RmEnds, WorkloadFails, Exit
  <2>3. p.mode \notin Forking
    BY <2>1 DEF Forking
  <2> QED BY <1>0, <2>1, <2>2, <2>3, CommandGone
<1>4. ASSUME NEW p \in live, ForkFails(p) PROVE HarnessInv'
  <2>1. CASE p.mode = "initialize"
    <3>1. /\ live' = live \ {p} /\ children' = children
          /\ failing' = failing \cup {p.mode}
      BY <1>4, <2>1 DEF ForkFails, Exit
    <3> QED BY <1>0, <2>1, <3>1, CommandGone
  <2>2. CASE p.mode # "initialize"
    <3>1. /\ p.left # <<>> /\ failing' = failing /\ children' = children
          /\ live' = (live \ {p}) \cup {[p EXCEPT !.left = Tail(@)]}
      BY <1>4, <2>2 DEF ForkFails
    <3> QED BY <1>0, <3>1, CommandForks
  <2> QED BY <2>1, <2>2
<1>5. ASSUME NEW c \in children, ChildEnds(c) \/ ChildFails(c) PROVE HarnessInv'
  <2>1. live' = live /\ children' \subseteq children /\ failing' = failing
    BY <1>5 DEF ChildEnds, ChildFails
  <2> QED BY <1>0, <2>1, ChildGone
<1>6. HarnessInv'
  BY <1>1, <1>2, <1>3, <1>4, <1>5
     DEF ProcessStep, CommandStep, ChildStep, ProcessFault
<1> QED BY <1>0, <1>6 DEF harnessVars

-----------------------------------------------------------------------------
(* The steps of the script.                                                 *)

\* Nothing of a phase that has ended still runs.
LEMMA NothingRuns ==
  ASSUME HarnessInv, initResult = "None", phase # "idle", AllEnded
  PROVE  /\ live = {}
         /\ phase # "initialize" \/ "initialize" \notin failing =>
              (stage \in {"prepare", "execute"} => children = {})
<1>1. live = {}
  BY DEF HarnessInv, OrderInv, AllEnded
<1> QED BY <1>1 DEF HarnessInv, OrderInv

\* A phase is started, with nothing running.
LEMMA PhaseStarts ==
  ASSUME HarnessInv, NEW mode, NEW cmds, GoodCommands(cmds, mode),
         StartPhase(mode, cmds), mode # "idle",
         initResult = "None" => live = {} /\ children = {},
         UNCHANGED <<live, children, initResult>>, point' \in Nat \ {0},
         stage \in {"prepare", "execute"},
         \/ stage = "prepare" /\ stage' = "prepare" /\ mode = "initialize"
         \/ stage' = "execute" /\ mode \in {"scramble", "create", "measure"}
              /\ stage = "execute"
         \/ stage' = "finalize" /\ mode = "rm"
  PROVE  HarnessInv'
<1>1. phase' = mode /\ todo' = cmds
  BY DEF StartPhase
<1>2. /\ todo' \in Seq(Range(todo'))
      /\ \A i \in DOMAIN todo' : IsCommand(todo'[i]) /\ todo'[i].mode = phase'
  BY <1>1 DEF GoodCommands
<1>3. StageInv'
  BY <1>1, <1>2 DEF HarnessInv, StageInv
<1>4. ASSUME initResult' = "None" PROVE SuffixInv' /\ OrderInv'
  <2>1. live' = {} /\ children' = {}
    BY <1>4
  <2>2. SuffixInv'
    BY <1>1, <2>1 DEF SuffixInv, GoodCommands
  <2>3. OrderInv'
    BY <2>1 DEF OrderInv
  <2> QED BY <2>2, <2>3
<1> QED BY <1>3, <1>4 DEF HarnessInv

\* The script stays between two phases: it goes on, ends, or dies.
LEMMA StaysIdle ==
  ASSUME HarnessInv, phase = "idle", stage \in {"prepare", "execute"},
         UNCHANGED <<live, children, phase, todo, initResult, point>>,
         stage' \in {"execute", "finished", "dead"}
  PROVE  HarnessInv'
<1>1. StageInv'
  BY DEF HarnessInv, StageInv
<1>2. ASSUME initResult' = "None" PROVE SuffixInv' /\ OrderInv'
  <2>1. live' = {} /\ children' = {}
    BY <1>2 DEF HarnessInv, OrderInv
  <2> QED BY <2>1 DEF SuffixInv, OrderInv
<1> QED BY <1>1, <1>2 DEF HarnessInv

\* Where a test that has ended leaves the script.
LEMMA AfterTheTest ==
  ASSUME HarnessInv, CommandsEnd
  PROVE  /\ phase' = "idle" /\ UNCHANGED <<live, children, failing, todo>> /\ AllEnded
         /\ point' \in {point, point + 1}
         /\ rows' # rows => stage = "execute"
         /\ \/ stage' = "dead" /\ UNCHANGED initResult
            \/ /\ stage = "prepare" /\ stage' = "execute" /\ phase = "initialize"
               /\ initResult' = (IF "initialize" \in failing THEN "failed" ELSE "None")
            \/ stage = "execute" /\ stage' = "execute" /\ UNCHANGED initResult
            \/ stage = "finalize" /\ stage' = "finished" /\ UNCHANGED initResult
<1>1. phase' = "idle" /\ UNCHANGED <<live, children, failing, todo>> /\ AllEnded
  BY DEF CommandsEnd
<1>2. CASE phase \in failing /\ ~Swallows
  BY <1>1, <1>2 DEF CommandsEnd, TestRaises
<1>3. CASE ~(phase \in failing /\ ~Swallows)
  <2> DEFINE result == IF phase \in failing THEN "failed" ELSE "None"
  <2>1. TestReturns(result)
    BY <1>3 DEF CommandsEnd, TestRaises
  <2> HIDE DEF result
  <2>2. CASE stage = "prepare"
    <3>1. phase = "initialize"
      BY <2>2 DEF HarnessInv, StageInv, CommandsEnd
    <3>2. stage' = "execute" /\ initResult' = result /\ UNCHANGED <<point, rows>>
      BY <2>1, <2>2 DEF TestReturns
    <3> QED BY <1>1, <2>2, <3>1, <3>2 DEF result
  <2>3. CASE stage = "execute"
    <3>1. Record
      BY <2>1, <2>3 DEF TestReturns
    <3>2. point' = point + 1 /\ UNCHANGED initResult
      BY <3>1 DEF Record
    <3>3. stage' \in {stage, "dead"}
      BY <3>1 DEF Record, CleanupBuffers
    <3> QED BY <1>1, <2>3, <3>2, <3>3
  <2>4. CASE stage \notin {"prepare", "execute"}
    <3>1. stage = "finalize" /\ stage' = "finished" /\ UNCHANGED <<initResult, point, rows>>
      BY <2>1, <2>4 DEF TestReturns
    <3> QED BY <1>1, <3>1
  <2> QED BY <2>2, <2>3, <2>4
<1> QED BY <1>2, <1>3

\* The test has ended: the order is kept, and what is recorded has ended.
LEMMA CommandsEndOrder ==
  ASSUME HarnessInv, CommandsEnd
  PROVE  /\ HarnessInv'
         /\ rows' # rows /\ initResult = "None" => live' = {} /\ children' = {}
<1>1. /\ phase' = "idle" /\ UNCHANGED <<live, children, failing, todo>> /\ AllEnded
      /\ point' \in {point, point + 1}
      /\ rows' # rows => stage = "execute"
      /\ \/ stage' = "dead" /\ UNCHANGED initResult
         \/ /\ stage = "prepare" /\ stage' = "execute" /\ phase = "initialize"
            /\ initResult' = (IF "initialize" \in failing THEN "failed" ELSE "None")
         \/ stage = "execute" /\ stage' = "execute" /\ UNCHANGED initResult
         \/ stage = "finalize" /\ stage' = "finished" /\ UNCHANGED initResult
  BY AfterTheTest
<1>2. phase \in {"initialize", "measure", "rm"} /\ todo = <<>> /\ StageInv
  BY <1>1 DEF CommandsEnd, AllEnded, HarnessInv
<1>3. DOMAIN todo' = {} /\ todo' = <<>>
  BY <1>1, <1>2
<1>4. StageInv'
  <2>1. point' \in Nat \ {0}
    BY <1>1, <1>2 DEF StageInv
  <2>2. todo' \in Seq(Range(todo'))
    BY <1>1, <1>2 DEF StageInv
  <2> QED BY <1>1, <1>2, <1>3, <2>1, <2>2 DEF StageInv
<1>5. ASSUME initResult' = "None"
      PROVE  initResult = "None" /\ live = {} /\ (stage' = "execute" => children = {})
  <2>1. initResult = "None"
    BY <1>1, <1>2, <1>5 DEF StageInv
  <2>2. /\ live = {}
        /\ phase # "initialize" \/ "initialize" \notin failing =>
             (stage \in {"prepare", "execute"} => children = {})
    BY <1>1, <1>2, <2>1, NothingRuns
  <2>3. stage' = "execute" => children = {}
    <3>1. CASE stage = "prepare"
      BY <3>1, <1>1, <1>5, <2>2
    <3>2. CASE stage = "execute"
      BY <3>2, <1>2, <2>2 DEF StageInv
    <3> QED BY <1>1, <3>1, <3>2
  <2> QED BY <2>1, <2>2, <2>3
<1>6. ASSUME initResult' = "None" PROVE SuffixInv' /\ OrderInv'
  <2>1. live' = {} /\ phase' = "idle" /\ stage' # "prepare"
        /\ (stage' = "execute" => children' = {})
    BY <1>1, <1>5, <1>6
  <2> QED BY <2>1 DEF SuffixInv, OrderInv
<1>7. ASSUME rows' # rows, initResult = "None" PROVE live' = {} /\ children' = {}
  <2>1. stage = "execute" /\ phase = "measure"
    BY <1>1, <1>2, <1>7 DEF StageInv
  <2> QED BY <1>1, <1>7, <2>1, NothingRuns
<1> QED BY <1>4, <1>6, <1>7 DEF HarnessInv

\* One more command of the phase is started.
LEMMA PopenOrder ==
  ASSUME HarnessInv, Popen
  PROVE  HarnessInv'
<1> DEFINE p == Head(todo)
<1>1. /\ todo # <<>> /\ live' = live \cup {p} /\ todo' = Tail(todo)
      /\ UNCHANGED <<children, failing, stage, phase, initResult, point>>
  BY DEF Popen
<1>2. StageInv /\ todo \in Seq(Range(todo)) /\ phase # "idle"
  BY <1>1 DEF HarnessInv, StageInv
<1>3. /\ Len(todo) \in Nat /\ Len(todo) # 0 /\ DOMAIN todo = 1 .. Len(todo)
  BY <1>1, <1>2, EmptySeq
<1>4. p = todo[1] /\ 1 \in DOMAIN todo
  BY <1>1, <1>2, <1>3
<1>5. /\ todo' \in Seq(Range(todo)) /\ Len(todo') = Len(todo) - 1
      /\ \A i \in 1 .. Len(todo') : todo'[i] = todo[i + 1]
  BY <1>1, <1>2, HeadTailProperties
<1>6. DOMAIN todo' = 1 .. Len(todo) - 1
  BY <1>5
<1>7. \A i \in DOMAIN todo' : i \in Nat /\ i + 1 \in DOMAIN todo /\ todo'[i] = todo[i + 1]
  BY <1>3, <1>5, <1>6
<1>8. todo' \in Seq(Range(todo'))
  <2>1. \A i \in 1 .. Len(todo) - 1 : todo'[i] \in Range(todo')
    BY <1>6 DEF Range
  <2>2. todo' = [i \in 1 .. Len(todo') |-> todo'[i]]
    BY <1>5, SeqDef
  <2>3. Len(todo') \in Nat
    BY <1>3, <1>5
  <2> HIDE DEF p
  <2> QED BY <2>2, <2>3, TupleIsSeq
<1>9. IsCommand(p) /\ p.mode = phase
  BY <1>2, <1>4 DEF StageInv
<1> HIDE DEF p
<1>10. StageInv'
  BY <1>1, <1>2, <1>7, <1>8, <1>9 DEF StageInv
<1>11. ASSUME initResult = "None" PROVE SuffixInv' /\ OrderInv'
  <2>1. SuffixInv /\ OrderInv
    BY <1>11 DEF HarnessInv
  <2>2. OrderInv'
    BY <1>1, <1>2, <1>9, <2>1 DEF OrderInv
  <2>3. CASE phase = "measure"
    <3>1. \A i \in DOMAIN todo : IsCommand(todo[i])
      BY <1>2 DEF StageInv
    <3>2. \A i \in DOMAIN todo : todo[i].suffix \in Int
      BY <3>1 DEF IsCommand
    <3>3. \A q \in live : q.suffix < p.suffix
      BY <1>4, <2>1, <2>3 DEF SuffixInv
    <3>4. \A i \in DOMAIN todo' : p.suffix < todo'[i].suffix
      <4>1. ASSUME NEW i \in DOMAIN todo' PROVE p.suffix < todo'[i].suffix
        <5>1. i + 1 \in DOMAIN todo /\ 1 < i + 1 /\ todo'[i] = todo[i + 1]
          BY <1>6, <1>7, <1>3
        <5> QED BY <5>1, <1>4, <2>1, <2>3 DEF SuffixInv
      <4> QED BY <4>1
    <3>5. \A i, j \in DOMAIN todo' : i < j => todo'[i].suffix < todo'[j].suffix
      <4>1. ASSUME NEW i \in DOMAIN todo', NEW j \in DOMAIN todo', i < j
            PROVE  todo'[i].suffix < todo'[j].suffix
        <5>1. /\ i + 1 \in DOMAIN todo /\ todo'[i] = todo[i + 1]
              /\ j + 1 \in DOMAIN todo /\ todo'[j] = todo[j + 1]
              /\ i + 1 < j + 1
          BY <1>7, <4>1
        <5> QED BY <5>1, <2>1, <2>3 DEF SuffixInv
      <4> QED BY <4>1
    <3>6. \A q \in live, i \in DOMAIN todo' : q.suffix < todo'[i].suffix
      BY <1>7, <2>1, <2>3 DEF SuffixInv
    <3>7. \A q \in live : q.suffix \in Int /\ q.suffix # p.suffix
      <4>1. \A q \in live : q.suffix \in Int
        BY <1>2 DEF StageInv, IsCommand
      <4>2. p.suffix \in Int
        BY <1>9 DEF IsCommand
      <4> QED BY <4>1, <4>2, <3>3
    <3> QED BY <1>1, <2>1, <2>2, <3>4, <3>5, <3>6, <3>7 DEF SuffixInv
  <2>4. CASE phase # "measure"
    <3>1. \A q \in live' : q.mode # "measure"
      BY <1>1, <1>2, <1>9, <2>1, <2>4 DEF OrderInv
    <3> QED BY <1>1, <2>2, <2>4, <3>1 DEF SuffixInv
  <2> QED BY <2>3, <2>4
<1> QED BY <1>1, <1>10, <1>11 DEF HarnessInv

\* The invariant holds in the first state, where nothing runs.
LEMMA InitOrder == ASSUME Init PROVE HarnessInv
<1>1. /\ live = {} /\ children = {} /\ stage = "prepare" /\ phase = "idle"
      /\ todo = <<>> /\ initResult = "None" /\ point = 1
  BY DEF Init, ProcessInit, HarnessInit
<1>2. DOMAIN todo = {} /\ todo \in Seq(Range(todo))
  BY <1>1
<1> QED BY <1>1, <1>2 DEF HarnessInv, StageInv, SuffixInv, OrderInv

\* Every step keeps the order, and records a row only when all has ended.
LEMMA StepOrder ==
  ASSUME HarnessInv, [Next]_vars
  PROVE  /\ HarnessInv'
         /\ rows' # rows /\ initResult = "None" => live' = {} /\ children' = {}
<1> USE DEF Forking
<1>0. StageInv
  BY DEF HarnessInv
<1>1. CASE Prepare
  <2>1. /\ stage = "prepare" /\ phase = "idle"
        /\ UNCHANGED <<live, children, initResult, point, rows>>
    BY <1>1 DEF Prepare
  <2>2. initResult = "None" => live = {} /\ children = {}
    BY <2>1 DEF HarnessInv, OrderInv
  <2>3. CASE script \in Initializing
    <3>1. StartPhase("initialize", InitializeCmds) /\ stage' = stage
      BY <1>1, <2>3 DEF Prepare
    <3>2. GoodCommands(InitializeCmds, "initialize")
      BY OtherCommands
    <3>3. point' \in Nat \ {0}
      BY <1>0, <2>1 DEF StageInv
    <3> QED BY <2>1, <2>2, <3>1, <3>2, <3>3, PhaseStarts
  <2>4. CASE script \notin Initializing
    <3>1. stage' \in {"execute", "dead"} /\ UNCHANGED <<phase, todo>>
      BY <1>1, <2>4 DEF Prepare, CleanupBuffers
    <3> QED BY <2>1, <3>1, StaysIdle
  <2> QED BY <2>3, <2>4
<1>2. CASE Popen
  BY <1>2, PopenOrder DEF Popen
<1>3. CASE PreparationEnds
  <2>1. /\ phase \in {"scramble", "create"} /\ AllEnded
        /\ StartPhase("measure", MeasuredCmds(point))
        /\ UNCHANGED <<live, children, initResult, point, rows, stage>>
    BY <1>3 DEF PreparationEnds
  <2>2. stage = "execute"
    BY <1>0, <2>1 DEF StageInv
  <2>3. initResult = "None" => live = {} /\ children = {}
    BY <2>1, <2>2, NothingRuns
  <2>4. GoodCommands(MeasuredCmds(point), "measure")
    BY <1>0, TestCommands DEF StageInv, MeasuredCmds
  <2>5. point' \in Nat \ {0}
    BY <1>0, <2>1 DEF StageInv
  <2> QED BY <2>1, <2>2, <2>3, <2>4, <2>5, PhaseStarts
<1>4. CASE CommandsEnd
  BY <1>4, CommandsEndOrder
<1>5. CASE NextTest
  <2>1. /\ stage = "execute" /\ phase = "idle"
        /\ UNCHANGED <<live, children, initResult, rows, stage>>
    BY <1>5 DEF NextTest
  <2>2. initResult = "None" => live = {} /\ children = {}
    BY <2>1 DEF HarnessInv, OrderInv
  <2>3. PICK n \in ToRun :
          /\ point' = n
          /\ IF PreparationCmds(n) # <<>>
             THEN StartPhase(PreparationCmds(n)[1].mode, PreparationCmds(n))
             ELSE StartPhase("measure", MeasuredCmds(n))
    BY <1>5 DEF NextTest
  <2>4. n \in Nat \ {0}
    <3>1. n \in 1 .. NumTests
      BY <2>3 DEF ToRun, ValidTests
    <3> QED BY <3>1, NumTestsNat
  <2>5. CASE PreparationCmds(n) # <<>>
    <3>1. StartPhase(PreparationCmds(n)[1].mode, PreparationCmds(n))
      BY <2>3, <2>5
    <3>2. PICK mode \in {"scramble", "create"} :
            \E engine : PreparationCmds(n) = Commands(mode, engine, n)
      BY <2>5 DEF PreparationCmds
    <3>3. PICK engine : PreparationCmds(n) = Commands(mode, engine, n)
      BY <3>2
    <3>4. /\ GoodCommands(PreparationCmds(n), mode)
          /\ PreparationCmds(n)[1].mode = mode
      BY <2>4, <3>3, TestCommands
    <3> QED BY <2>1, <2>2, <2>3, <2>4, <3>1, <3>4, PhaseStarts
  <2>6. CASE PreparationCmds(n) = <<>>
    <3>1. StartPhase("measure", MeasuredCmds(n))
      BY <2>3, <2>6
    <3>2. GoodCommands(MeasuredCmds(n), "measure")
      BY <2>4, TestCommands DEF MeasuredCmds
    <3> QED BY <2>1, <2>2, <2>3, <2>4, <3>1, <3>2, PhaseStarts
  <2> QED BY <2>5, <2>6
<1>6. CASE CombinationRaises
  <2>1. /\ stage = "execute" /\ phase = "idle" /\ stage' = "dead"
        /\ UNCHANGED <<live, children, phase, todo, initResult, point, rows>>
    BY <1>6 DEF CombinationRaises, processVars
  <2> QED BY <2>1, StaysIdle
<1>7. CASE Finalize
  <2>1. /\ stage = "execute" /\ phase = "idle"
        /\ UNCHANGED <<live, children, initResult, point, rows>>
    BY <1>7 DEF Finalize
  <2>2. initResult = "None" => live = {} /\ children = {}
    BY <2>1 DEF HarnessInv, OrderInv
  <2>3. CASE script \in OnPages
    <3>1. StartPhase("rm", RmCmds) /\ stage' = "finalize"
      BY <1>7, <2>3 DEF Finalize
    <3>2. GoodCommands(RmCmds, "rm")
      BY OtherCommands
    <3>3. point' \in Nat \ {0}
      BY <1>0, <2>1 DEF StageInv
    <3> QED BY <2>1, <2>2, <3>1, <3>2, <3>3, PhaseStarts
  <2>4. CASE script \notin OnPages
    <3>1. stage' \in {"finished", "dead"} /\ UNCHANGED <<phase, todo>>
      BY <1>7, <2>4 DEF Finalize, CleanupBuffers
    <3> QED BY <2>1, <3>1, StaysIdle
  <2> QED BY <2>3, <2>4
<1>8. CASE PopenFails
  <2>1. /\ phase' = "idle" /\ todo' = <<>>
        /\ UNCHANGED <<live, children, failing, point, rows>>
        /\ \/ stage' = "dead" /\ UNCHANGED initResult
           \/ stage = "prepare" /\ stage' = "execute" /\ initResult' = "failed"
           \/ stage \notin {"prepare", "execute"} /\ stage' = "finished" /\ UNCHANGED initResult
    BY <1>8 DEF PopenFails
  <2>2. DOMAIN todo' = {} /\ todo' \in Seq(Range(todo'))
    BY <2>1
  <2>3. StageInv'
    BY <1>0, <2>1, <2>2 DEF StageInv
  <2>4. ASSUME initResult' = "None" PROVE SuffixInv' /\ OrderInv'
    <3>1. initResult = "None" /\ stage' \in {"dead", "finished"}
      BY <2>1, <2>4
    <3>2. SuffixInv /\ OrderInv
      BY <3>1 DEF HarnessInv
    <3> QED BY <2>1, <3>1, <3>2 DEF SuffixInv, OrderInv
  <2> QED BY <2>1, <2>3, <2>4 DEF HarnessInv
<1>9. CASE ProcessStep \/ (ProcessFault /\ UNCHANGED harnessVars)
  BY <1>9, ProcessOrder
<1>10. CASE UNCHANGED vars
  BY <1>0, <1>10
     DEF vars, processVars, harnessVars, HarnessInv, StageInv, SuffixInv, OrderInv
<1> QED BY <1>1, <1>2, <1>3, <1>4, <1>5, <1>6, <1>7, <1>8, <1>9, <1>10
        DEF Next, HarnessStep, Failure

\* The invariant holds throughout.
LEMMA HarnessHolds == Spec => []HarnessInv
<1>1. Init => HarnessInv
  BY InitOrder
<1>2. HarnessInv /\ [Next]_vars => HarnessInv'
  BY StepOrder
<1> QED BY <1>1, <1>2, PTL DEF Spec

\* Commands with different suffixes have different files.
LEMMA OtherFiles ==
  ASSUME NEW p, NEW q, p.suffix # q.suffix
  PROVE  FilesOf(p) \cap FilesOf(q) = {}
<1>1. ASSUME NEW f \in FilesOf(p) \cap FilesOf(q) PROVE FALSE
  BY <1>1 DEF FilesOf
<1> QED BY <1>1

\* Unless the initialization has failed and was forgotten, a measured command has its
\* files to itself under each script: the phases of Test.run() do not overlap, bufman
\* waits for its children, and the commands of a test have different suffixes.
THEOREM MeasuredHasItsFiles == Spec => []MeasuredAlone
<1>1. HarnessInv => MeasuredAlone
  <2> SUFFICES ASSUME HarnessInv, initResult = "None",
                      NEW p \in live, p.mode = "measure"
               PROVE  /\ \A c \in children : <<c.dir, c.suffix>> \notin FilesOf(p)
                      /\ \A q \in live \ {p} :
                           q.mode # "rm" => FilesOf(p) \cap FilesOf(q) = {}
    BY DEF MeasuredAlone
  <2>1. SuffixInv /\ OrderInv
    BY DEF HarnessInv
  <2>2. children = {}
    BY <2>1 DEF OrderInv
  <2>3. ASSUME NEW q \in live \ {p} PROVE FilesOf(p) \cap FilesOf(q) = {}
    <3>1. p.suffix # q.suffix
      BY <2>1, <2>3 DEF SuffixInv
    <3> QED BY <3>1, OtherFiles
  <2> QED BY <2>2, <2>3
<1> QED BY <1>1, HarnessHolds, PTL

\* Test.run() takes the time, and the caller records its row, only after every command
\* of the test and every child of one has ended.
THEOREM RowsOfEndedTests == Spec => RecordedWhenEnded
<1>1. HarnessInv /\ [Next]_vars =>
        [rows' # rows /\ initResult = "None" => live' = {} /\ children' = {}]_vars
  BY StepOrder
<1> QED BY <1>1, HarnessHolds, PTL DEF Spec, RecordedWhenEnded

-----------------------------------------------------------------------------
(* The numbers of the tests.                                                *)

\* Quotient and remainder of a natural number.
LEMMA QuotientAndRest ==
  ASSUME NEW n \in Nat, NEW m \in Nat \ {0}
  PROVE  /\ n \div m \in Nat /\ n % m \in 0 .. m - 1
         /\ m * (n \div m) \in Nat
         /\ n = m * (n \div m) + (n % m)
<1> DEFINE q == n \div m
           r == n % m
<1>1. q \in Int /\ r \in 0 .. m - 1
  OBVIOUS
<1>2. r = n - m * q
  BY SMTT(60)
<1> HIDE DEF q, r
<1>3. m * q \in Int
  BY <1>1
<1>4. q \in Nat
  <2> SUFFICES ASSUME q <= -1 PROVE FALSE
    BY <1>1
  <2>1. m * q <= m * (-1)
    BY <1>1
  <2> QED BY <2>1, <1>1, <1>2, <1>3
<1>5. m * q \in Nat
  BY <1>4
<1>6. q \in Nat /\ r \in 0 .. m - 1 /\ m * q \in Nat /\ n = m * q + r
  BY <1>1, <1>2, <1>3, <1>4, <1>5
<1> QED BY <1>6 DEF q, r

\* There is no other.
LEMMA QuotientIs ==
  ASSUME NEW m \in Nat \ {0}, NEW q \in Nat, NEW r \in 0 .. m - 1, NEW n \in Nat,
         n = m * q + r
  PROVE  n \div m = q /\ n % m = r
<1> DEFINE p == n \div m
           s == n % m
<1>1. /\ p \in Nat /\ s \in 0 .. m - 1 /\ m * p \in Nat /\ n = m * p + s
  BY QuotientAndRest
<1> HIDE DEF p, s
<1>2. m * (p - q) = m * p - m * q /\ m * q \in Nat
  BY <1>1
<1>3. m * (p - q) = r - s
  BY <1>1, <1>2
<1>4. ~(p - q >= 1)
  <2> SUFFICES ASSUME p - q >= 1 PROVE FALSE
    OBVIOUS
  <2>1. m * (p - q) >= m * 1
    BY <1>1
  <2> QED BY <2>1, <1>1, <1>3
<1>5. ~(p - q <= -1)
  <2> SUFFICES ASSUME p - q <= -1 PROVE FALSE
    OBVIOUS
  <2>1. m * (p - q) <= m * (-1)
    BY <1>1
  <2> QED BY <2>1, <1>1, <1>3
<1>6. p = q /\ s = r
  BY <1>1, <1>2, <1>3, <1>4, <1>5
<1> QED BY <1>6 DEF p, s

\* A number below a product is a row and a place in it.
LEMMA RowAndPlace ==
  ASSUME NEW A \in Nat, NEW m \in Nat \ {0}, NEW n \in Nat, n < A * m
  PROVE  \E q \in 0 .. A - 1, r \in 0 .. m - 1 : n = m * q + r
<1> DEFINE q == n \div m
           r == n % m
<1>1. /\ q \in Nat /\ r \in 0 .. m - 1 /\ m * q \in Nat /\ n = m * q + r
  BY QuotientAndRest
<1> HIDE DEF q, r
<1>2. ~(q >= A)
  <2> SUFFICES ASSUME q >= A PROVE FALSE
    OBVIOUS
  <2>1. m * q >= m * A /\ A * m = m * A /\ m * A \in Nat
    BY <1>1
  <2> QED BY <2>1, <1>1
<1> QED BY <1>1, <1>2

\* A row and a place in it are a number below the product.
LEMMA PlaceInRow ==
  ASSUME NEW A \in Nat, NEW m \in Nat \ {0}, NEW q \in 0 .. A - 1, NEW r \in 0 .. m - 1
  PROVE  m * q + r \in 0 .. A * m - 1
<1>1. m * q \in Nat /\ A * m \in Nat /\ A * m = m * A
  OBVIOUS
<1>2. m * (q + 1) <= m * A /\ m * (q + 1) = m * q + m
  OBVIOUS
<1> QED BY <1>1, <1>2

\* The number of the r-th run with the b-th number of threads on the a-th
\* combination, all from 0.
Numbered(a, b, r) == TestsPerComb * a + (NumRuns * b + r) + 1

\* The lengths of the three loops, and of the inner two together.
LoopLengths(A, L, R, T) ==
  /\ A \in Nat /\ L \in Nat \ {0} /\ R \in Nat \ {0} /\ T \in Nat \ {0}
  /\ T = L * R

\* A number in three loops.
LEMMA ThreeLoops ==
  ASSUME NEW A, NEW L, NEW R, NEW T, LoopLengths(A, L, R, T), NEW k \in 0 .. A * T - 1
  PROVE  \E a \in 0 .. A - 1, b \in 0 .. L - 1, r \in 0 .. R - 1 : k = T * a + (R * b + r)
<1>1. A \in Nat /\ T \in Nat \ {0}
  BY DEF LoopLengths
<1>2. k \in Nat /\ k < A * T
  BY <1>1
<1>3. PICK a \in 0 .. A - 1, x \in 0 .. T - 1 : k = T * a + x
  BY <1>1, <1>2, RowAndPlace, Zenon
<1>4. L \in Nat /\ R \in Nat \ {0}
  BY DEF LoopLengths
<1>5. x \in Nat /\ x < L * R
  BY <1>1 DEF LoopLengths
<1>6. \E b \in 0 .. L - 1, r \in 0 .. R - 1 : x = R * b + r
  BY <1>4, <1>5, RowAndPlace, Zenon
<1> QED BY <1>3, <1>6, Zenon

\* Its place in the loops is found by division.
LEMMA LoopPlaces ==
  ASSUME NEW A, NEW L, NEW R, NEW T, LoopLengths(A, L, R, T),
         NEW a \in 0 .. A - 1, NEW b \in 0 .. L - 1, NEW r \in 0 .. R - 1,
         NEW k \in Int, k = T * a + (R * b + r)
  PROVE  k \in 0 .. A * T - 1 /\ k \div T = a /\ (k \div R) % L = b
<1> DEFINE x == R * b + r
           q == L * a + b
<1>0. /\ A \in Nat /\ L \in Nat \ {0} /\ R \in Nat \ {0} /\ T \in Nat \ {0}
      /\ T = L * R
  BY DEF LoopLengths
<1>1. a \in Nat /\ b \in Nat /\ r \in Nat /\ A * T \in Nat
  BY <1>0
<1>2. x \in 0 .. L * R - 1
  BY <1>0, PlaceInRow
<1>3. x \in 0 .. T - 1
  BY <1>0, <1>2
<1>4. k = T * a + x
  OBVIOUS
<1>5. q \in Nat /\ q = L * a + b
  BY <1>0, <1>1
<1>6. k = R * q + r
  <2>1. T * a = R * (L * a)
    BY <1>0, <1>1
  <2>2. L * a \in Nat /\ R * (L * a + b) = R * (L * a) + R * b
    BY <1>0, <1>1
  <2>3. R * (L * a) \in Nat /\ R * b \in Nat
    BY <1>0, <1>1, <2>2
  <2>4. k = R * (L * a) + (R * b + r)
    BY <2>1
  <2>5. k = (R * (L * a) + R * b) + r
    BY <1>1, <2>3, <2>4
  <2> QED BY <2>2, <2>5
<1> HIDE DEF x, q
<1>7. k \in 0 .. A * T - 1
  BY <1>0, <1>3, <1>4, PlaceInRow
<1>8. k \in Nat
  BY <1>1, <1>7
<1>9. k \div T = a
  <2>1. T \in Nat \ {0} /\ a \in Nat
    BY <1>0, <1>1
  <2> QED BY <2>1, <1>3, <1>4, <1>8, QuotientIs, Zenon
<1>10. k \div R = q
  <2>1. R \in Nat \ {0} /\ q \in Nat
    BY <1>0, <1>5
  <2> QED BY <2>1, <1>6, <1>8, QuotientIs, Zenon
<1>11. q % L = b
  <2>1. L \in Nat \ {0} /\ a \in Nat /\ q \in Nat /\ q = L * a + b
    BY <1>0, <1>1, <1>5
  <2> QED BY <2>1, QuotientIs, Zenon
<1> QED BY <1>7, <1>9, <1>10, <1>11, Zenon

\* The loops of execute().
LEMMA LoopsOfExecute ==
  LoopLengths(Len(MountLists), Len(ThreadCounts), NumRuns, TestsPerComb)
BY NumTestsNat, LengthsNat DEF LoopLengths, TestsPerComb

\* Every test has its place in the three loops.
LEMMA TestHasPlace ==
  ASSUME NEW n \in 1 .. NumTests
  PROVE  \E a \in 0 .. Len(MountLists) - 1, b \in 0 .. Len(ThreadCounts) - 1,
            r \in 0 .. NumRuns - 1 : n = Numbered(a, b, r)
<1>1. NumTests \in Nat /\ NumTests = Len(MountLists) * TestsPerComb
  BY NumTestsNat DEF NumTests
<1> DEFINE k == n - 1
<1>2. k \in 0 .. NumTests - 1 /\ n = k + 1
  BY <1>1
<1> HIDE DEF k
<1>3. k \in 0 .. Len(MountLists) * TestsPerComb - 1
  BY <1>1, <1>2, Zenon
<1>4. PICK a \in 0 .. Len(MountLists) - 1, b \in 0 .. Len(ThreadCounts) - 1,
           r \in 0 .. NumRuns - 1 : k = TestsPerComb * a + (NumRuns * b + r)
  <2>1. LoopLengths(Len(MountLists), Len(ThreadCounts), NumRuns, TestsPerComb)
    BY LoopsOfExecute
  <2> QED BY <2>1, <1>3, ThreeLoops
<1>5. n = TestsPerComb * a + (NumRuns * b + r) + 1
  BY <1>2, <1>4, Zenon
<1> QED BY <1>5, Zenon DEF Numbered

\* What stands at that place.
LEMMA TestAtPlace ==
  ASSUME NEW a \in 0 .. Len(MountLists) - 1,
         NEW b \in 0 .. Len(ThreadCounts) - 1, NEW r \in 0 .. NumRuns - 1
  PROVE  /\ Numbered(a, b, r) \in 1 .. NumTests
         /\ CombOf(Numbered(a, b, r)) = MountLists[a + 1]
         /\ ThreadsOf(Numbered(a, b, r)) = ThreadCounts[b + 1]
<1> DEFINE k == TestsPerComb * a + (NumRuns * b + r)
           n == Numbered(a, b, r)
<1>1. NumTests \in Nat /\ NumTests = Len(MountLists) * TestsPerComb
  BY NumTestsNat DEF NumTests
<1>2. n = k + 1
  BY DEF Numbered
<1>6. k \in Int
  BY LengthsNat, NumTestsNat
<1>7. k = TestsPerComb * a + (NumRuns * b + r)
  OBVIOUS
<1> HIDE DEF k, n
<1>3. /\ k \in 0 .. Len(MountLists) * TestsPerComb - 1
      /\ k \div TestsPerComb = a
      /\ (k \div NumRuns) % Len(ThreadCounts) = b
  <2>1. LoopLengths(Len(MountLists), Len(ThreadCounts), NumRuns, TestsPerComb)
    BY LoopsOfExecute
  <2> QED BY <2>1, <1>6, <1>7, LoopPlaces
<1>4. k \in 0 .. NumTests - 1
  BY <1>1, <1>3, Zenon
<1>5. n \in 1 .. NumTests /\ n - 1 = k
  BY <1>1, <1>2, <1>4
<1> QED BY <1>3, <1>5, Zenon DEF n, CombOf, ThreadsOf

-----------------------------------------------------------------------------
(* The command lines of a script and their files.                           *)

\* A command of a script: what it runs, and on which of the script's directories.
CommandLine(p) ==
  /\ IsCommand(p)
  /\ p.mode \in Modes /\ p.engine \in Engines /\ p.suffix \in Suffixes
  /\ p.dirs \in Seq(AllMounts) /\ p.left \in Seq(Range(p.dirs))
  /\ p.mode = "measure" => p.dirs # <<>> /\ p.engine = Engine
  /\ p.mode = "create" => p.engine = "LIBPMEM2"

\* It has not been started.
NewCommand(p) == CommandLine(p) /\ (p.mode \in Forking => p.left = p.dirs)

\* A sequence is one over any set of its members.
LEMMA SeqOfMembers ==
  ASSUME NEW S, NEW s \in Seq(S), NEW D, Range(s) \subseteq D
  PROVE  s \in Seq(D)
<1>1. Len(s) \in Nat /\ s \in [1 .. Len(s) -> S] /\ DOMAIN s = 1 .. Len(s)
  OBVIOUS
<1>2. \A i \in 1 .. Len(s) : s[i] \in Range(s)
  BY <1>1 DEF Range
<1>3. \A i \in 1 .. Len(s) : s[i] \in D
  BY <1>2
<1>4. s = [i \in 1 .. Len(s) |-> s[i]]
  BY <1>1
<1>5. s \in [1 .. Len(s) -> D]
  BY <1>1, <1>3
<1> QED BY <1>1, <1>5

\* A combination of directories is a list of some.
LEMMA CombIsList ==
  ASSUME NEW n \in 1 .. NumTests
  PROVE  CombOf(n) \in Seq(AllMounts) /\ CombOf(n) # <<>>
<1>1. PICK a \in 0 .. Len(MountLists) - 1 : CombOf(n) = MountLists[a + 1]
  BY TestHasPlace, TestAtPlace
<1>2. MountLists \in Seq(Seq(Mounts) \ {<<>>})
  BY HarnessAssumption
<1>3. a + 1 \in DOMAIN MountLists
  BY <1>2
<1>4. MountLists[a + 1] \in Seq(Mounts) /\ MountLists[a + 1] # <<>>
  <2>1. MountLists[a + 1] \in Seq(Mounts) \ {<<>>}
    BY <1>2, <1>3
  <2> QED BY <2>1
<1>5. Range(MountLists[a + 1]) \subseteq AllMounts
  BY <1>3 DEF AllMounts
<1> QED BY <1>1, <1>4, <1>5, SeqOfMembers

\* Every process of a test has directories.
LEMMA DirsOfTest ==
  ASSUME NEW n \in 1 .. NumTests, NEW t \in Nat
  PROVE  DirsOf(n, t) \in Seq(AllMounts) /\ DirsOf(n, t) # <<>>
<1> DEFINE mounts == CombOf(n)
<1>1. mounts \in Seq(AllMounts) /\ mounts # <<>>
  BY CombIsList
<1>2. Len(mounts) \in Nat \ {0} /\ DOMAIN mounts = 1 .. Len(mounts)
  BY <1>1, EmptySeq
<1>3. t % Len(mounts) \in 0 .. Len(mounts) - 1
  BY <1>2, QuotientAndRest
<1>4. DirsOf(n, t) = IF script \in OnPages THEN mounts ELSE <<mounts[(t % Len(mounts)) + 1]>>
  BY DEF DirsOf
<1> DEFINE k == t % Len(mounts)
<1> HIDE DEF mounts, k
<1>5. k + 1 \in DOMAIN mounts
  BY <1>2, <1>3 DEF k
<1>6. mounts[k + 1] \in AllMounts
  BY <1>1, <1>5
<1>7. <<mounts[k + 1]>> \in Seq(AllMounts) /\ <<mounts[k + 1]>> # <<>>
  BY <1>6
<1> QED BY <1>1, <1>4, <1>7 DEF k

\* A list of directories is one of members.
LEMMA ListOfItself ==
  ASSUME NEW S, NEW s \in Seq(S)
  PROVE  s \in Seq(Range(s)) /\ Range(s) \subseteq S
<1>1. Range(s) \subseteq S
  BY DEF Range
<1> QED BY <1>1, SeqOfMembers

\* A command line is new.
LEMMA LineIsNew ==
  ASSUME NEW mode \in Modes, NEW engine \in Engines, NEW suffix \in Suffixes,
         NEW dirs \in Seq(AllMounts),
         mode = "measure" => dirs # <<>> /\ engine = Engine,
         mode = "create" => engine = "LIBPMEM2"
  PROVE  /\ NewCommand(Command(mode, engine, suffix, dirs))
         /\ FilesOf(Command(mode, engine, suffix, dirs)) = Range(dirs) \X {suffix}
<1> DEFINE p == Command(mode, engine, suffix, dirs)
<1>1. suffix \in Int
  BY ProcessAssumption DEF Suffixes
<1>2. /\ p.mode = mode /\ p.engine = engine /\ p.suffix = suffix /\ p.dirs = dirs
      /\ p.left = IF mode \in Forking THEN dirs ELSE <<>>
  BY DEF Command, Forking
<1>3. IsCommand(p)
  BY <1>1, CommandIsCommand
<1>4. dirs \in Seq(Range(dirs)) /\ <<>> \in Seq(Range(dirs))
  BY ListOfItself
<1> HIDE DEF p
<1>5. FilesOf(p) = Range(dirs) \X {suffix}
  BY <1>2 DEF FilesOf
<1>6. NewCommand(p)
  BY <1>2, <1>3, <1>4 DEF NewCommand, CommandLine
<1> QED BY <1>5, <1>6 DEF p

\* The commands of a test are new, and the i-th works on the i-th suffix.
LEMMA TestLines ==
  ASSUME NEW n \in 1 .. NumTests, NEW mode \in Modes, NEW engine \in Engines,
         mode = "measure" => engine = Engine,
         mode = "create" => engine = "LIBPMEM2"
  PROVE  /\ DOMAIN Commands(mode, engine, n) = 1 .. ThreadsOf(n)
         /\ ThreadsOf(n) \in Nat \ {0}
         /\ Commands(mode, engine, n) # <<>>
         /\ \A i \in 1 .. ThreadsOf(n) :
              /\ i - 1 \in Suffixes
              /\ NewCommand(Commands(mode, engine, n)[i])
              /\ FilesOf(Commands(mode, engine, n)[i]) = Range(DirsOf(n, i - 1)) \X {i - 1}
<1> DEFINE cmds == Commands(mode, engine, n)
           t == ThreadsOf(n)
<1>1. t \in 1 .. MaxThreads /\ MaxThreads \in Nat
  <2>1. n \in Nat \ {0}
    BY NumTestsNat
  <2> QED BY <2>1, ThreadsNat, ProcessAssumption
<1>2. cmds = [i \in 1 .. t |-> Command(mode, engine, i - 1, DirsOf(n, i - 1))]
  BY DEF Commands
<1> HIDE DEF cmds, t
<1>3. DOMAIN cmds = 1 .. t /\ 1 \in 1 .. t /\ t \in Nat \ {0}
  BY <1>1, <1>2
<1>4. cmds # <<>>
  <2>1. DOMAIN <<>> # 1 .. t
    BY <1>3
  <2> QED BY <1>3, <2>1
<1>5. ASSUME NEW i \in 1 .. t
      PROVE  /\ i - 1 \in Suffixes /\ NewCommand(cmds[i])
             /\ FilesOf(cmds[i]) = Range(DirsOf(n, i - 1)) \X {i - 1}
  <2>1. i - 1 \in Suffixes /\ i - 1 \in Nat
    BY <1>1 DEF Suffixes
  <2>2. cmds[i] = Command(mode, engine, i - 1, DirsOf(n, i - 1))
    BY <1>2
  <2>3. DirsOf(n, i - 1) \in Seq(AllMounts) /\ DirsOf(n, i - 1) # <<>>
    BY <2>1, DirsOfTest
  <2> QED BY <2>1, <2>2, <2>3, LineIsNew
<1> QED BY <1>3, <1>4, <1>5, Zenon DEF cmds, t

\* Every script has its engine.
LEMMA EngineThere ==
  ASSUME script \in Scripts
  PROVE  Engine \in Engines
<1>1. script \in AllScripts
  BY HarnessAssumption
<1> QED BY <1>1 DEF AllScripts, Engine, Engines, OnPages

\* The commands that initialize are new, and are on all files.
LEMMA InitializeLines ==
  ASSUME script \in Scripts
  PROVE  /\ DOMAIN InitializeCmds = 1 .. MaxThreads
         /\ \A i \in 1 .. MaxThreads :
              /\ i - 1 \in Suffixes
              /\ NewCommand(InitializeCmds[i])
              /\ FilesOf(InitializeCmds[i]) = AllMounts \X {i - 1}
<1>1. MaxThreads \in Nat \ {0}
  BY ProcessAssumption
<1>2. PICK n \in Nat : InitializeDirs \in [1 .. n -> AllMounts] /\ Range(InitializeDirs) = AllMounts
  BY DirsAreListed
<1>3. InitializeDirs \in Seq(AllMounts)
  BY <1>2
<1>4. InitializeCmds = [i \in 1 .. MaxThreads |-> Command("initialize", Engine, i - 1, InitializeDirs)]
  BY DEF InitializeCmds
<1>5. ASSUME NEW i \in 1 .. MaxThreads
      PROVE  /\ i - 1 \in Suffixes /\ NewCommand(InitializeCmds[i])
             /\ FilesOf(InitializeCmds[i]) = AllMounts \X {i - 1}
  <2>1. i - 1 \in Suffixes
    BY <1>1 DEF Suffixes
  <2>2. InitializeCmds[i] = Command("initialize", Engine, i - 1, InitializeDirs)
    BY <1>4
  <2>3. "initialize" \in Modes
    BY DEF Modes
  <2> QED BY <1>2, <1>3, <2>1, <2>2, <2>3, EngineThere, LineIsNew
<1> QED BY <1>4, <1>5

\* So are those that remove.
LEMMA RmLines ==
  ASSUME script \in Scripts
  PROVE  \A i \in DOMAIN RmCmds : NewCommand(RmCmds[i])
<1>1. PICK n \in Nat : InitializeDirs \in [1 .. n -> AllMounts]
  BY DirsAreListed
<1>2. RmCmds = [i \in 1 .. n |-> Command("rm", Engine, 0, <<InitializeDirs[i]>>)]
  BY <1>1 DEF RmCmds
<1>3. ASSUME NEW i \in DOMAIN RmCmds PROVE NewCommand(RmCmds[i])
  <2>1. i \in 1 .. n /\ RmCmds[i] = Command("rm", Engine, 0, <<InitializeDirs[i]>>)
    BY <1>2
  <2>2. <<InitializeDirs[i]>> \in Seq(AllMounts)
    BY <1>1, <2>1
  <2>3. 0 \in Suffixes /\ "rm" \in Modes
    BY ProcessAssumption DEF Suffixes, Modes
  <2> QED BY <2>1, <2>2, <2>3, EngineThere, LineIsNew
<1> QED BY <1>3

\* The files of a command are files.
LEMMA FilesThere ==
  ASSUME NEW p, CommandLine(p)
  PROVE  FilesOf(p) \subseteq AllMounts \X Suffixes /\ FilesOf(p) \subseteq Files
<1>1. Range(p.dirs) \subseteq AllMounts /\ p.suffix \in Suffixes
  BY ListOfItself DEF CommandLine
<1>2. FilesOf(p) \subseteq AllMounts \X Suffixes
  BY <1>1 DEF FilesOf
<1> QED BY <1>2, MountsThere DEF Files

\* A measured command has a file.
LEMMA MeasuredFile ==
  ASSUME NEW p, CommandLine(p), p.mode = "measure"
  PROVE  FilesOf(p) # {}
<1>1. p.dirs \in Seq(AllMounts) /\ p.dirs # <<>>
  BY DEF CommandLine
<1>2. 1 \in DOMAIN p.dirs
  BY <1>1, EmptySeq
<1>3. <<p.dirs[1], p.suffix>> \in FilesOf(p)
  BY <1>2 DEF FilesOf, Range
<1> QED BY <1>3

-----------------------------------------------------------------------------
(* Types.                                                                   *)

Testing == {"scramble", "create", "measure"}

Row == [test : ValidTests, mounts : Seq(AllMounts), threads : 1 .. MaxThreads,
        failed : BOOLEAN, opened : SUBSET Contents, faults : 0 .. MaxFaults]

\* The processes and the files: those outside the script's directories stay missing.
ProcessInv ==
  /\ file \in [Files -> Contents]
  /\ \A f \in Files : f[1] \notin AllMounts => file[f] = "none"
  /\ \A p \in live : CommandLine(p)
  /\ children \subseteq [mode : Forking, suffix : Suffixes, dir : AllMounts]
  /\ failing \subseteq Modes
  /\ faults \in 0 .. MaxFaults

\* The script: which phases it has, and what it has recorded.
ScriptInv ==
  /\ script \in Scripts
  /\ \A i \in DOMAIN todo : NewCommand(todo[i])
  /\ initResult \in {"None", "failed"}
  /\ initResult = "failed" => script \in OnPages
  /\ phase = "initialize" => script \in Initializing
  /\ phase = "scramble" => script \in OnPages
  /\ phase = "create" => script = "logging_libpmem"
  /\ phase = "rm" => script \in OnPages
  /\ phase \in Testing => point \in ValidTests /\ ~IsValidCombRaises
  /\ stage = "finalize" => ~IsValidCombRaises
  /\ point \in 1 .. NumTests + 1
  /\ rows \in Seq(Row) /\ Len(rows) < point
  /\ opened \subseteq Contents

TypeInv == HarnessInv /\ ProcessInv /\ ScriptInv

\* What a script does stays the same.
LEMMA SameScript ==
  ASSUME script' = script
  PROVE  /\ Engine' = Engine
         /\ \A p : (CommandLine(p)' <=> CommandLine(p)) /\ (NewCommand(p)' <=> NewCommand(p))
         /\ ValidTests' = ValidTests /\ Row' = Row
         /\ (CleansUp' <=> CleansUp) /\ (IsValidCombRaises' <=> IsValidCombRaises)
         /\ \A n, t : DirsOf(n, t)' = DirsOf(n, t)
<1>1. Engine' = Engine
  BY DEF Engine
<1>2. \A p : CommandLine(p)' <=> CommandLine(p)
  BY <1>1 DEF CommandLine
<1>3. \A p : NewCommand(p)' <=> NewCommand(p)
  BY <1>2 DEF NewCommand
<1>4. ValidTests' = ValidTests
  BY DEF ValidTests, IsValidComb
<1>5. Row' = Row
  BY <1>4 DEF Row
<1>6. (CleansUp' <=> CleansUp) /\ (IsValidCombRaises' <=> IsValidCombRaises)
  BY DEF CleansUp, IsValidCombRaises
<1>7. \A n, t : DirsOf(n, t)' = DirsOf(n, t)
  BY DEF DirsOf
<1> QED BY <1>1, <1>2, <1>3, <1>4, <1>5, <1>6, <1>7

\* The script never changes.
LEMMA ScriptStays ==
  ASSUME [Next]_vars
  PROVE  script' = script
BY DEF Next, HarnessStep, Prepare, Popen, PreparationEnds, CommandsEnd, NextTest,
       CombinationRaises, Finalize, ProcessStep, Failure, PopenFails, harnessVars, vars

\* The types are those of TypeOK.
LEMMA TypeParts ==
  ASSUME TypeInv
  PROVE  TypeOK
<1>1. ASSUME NEW p \in live
      PROVE  /\ p.mode \in Modes /\ p.engine \in Engines /\ p.suffix \in Suffixes
             /\ Range(p.left) \subseteq Range(p.dirs) /\ Range(p.dirs) \subseteq Mounts
  <2>1. CommandLine(p)
    BY DEF TypeInv, ProcessInv
  <2> QED BY <2>1, ListOfItself, MountsThere DEF CommandLine
<1>2. children \subseteq [mode : {"initialize", "scramble"}, suffix : Suffixes, dir : Mounts]
  BY MountsThere DEF TypeInv, ProcessInv, Forking
<1>3. stage \in {"prepare", "execute", "finalize", "finished", "dead"}
      /\ phase \in Modes \cup {"idle"} /\ (phase = "idle" => todo = <<>>)
  BY DEF TypeInv, HarnessInv, StageInv, Modes
<1>4. Len(rows) <= NumTests
  <2>1. Len(rows) \in Nat /\ Len(rows) < point /\ point \in 1 .. NumTests + 1
    BY DEF TypeInv, ScriptInv
  <2> QED BY <2>1, NumTestsNat
<1> QED BY <1>1, <1>2, <1>3, <1>4 DEF TypeInv, ProcessInv, ScriptInv, TypeOK

\* They hold at first.
LEMMA InitTypes ==
  ASSUME Init
  PROVE  TypeInv
<1>1. HarnessInv
  BY InitOrder
<1>2. ProcessInv
  BY ProcessAssumption DEF Init, ProcessInit, ProcessInv, Contents
<1>3. ScriptInv
  <2>1. script \in Scripts /\ phase = "idle" /\ todo = <<>> /\ initResult = "None"
        /\ point = 1 /\ rows = <<>> /\ opened = {} /\ stage = "prepare"
    BY DEF Init, HarnessInit
  <2>2. DOMAIN todo = {} /\ rows \in Seq(Row) /\ Len(rows) = 0
    BY <2>1
  <2> QED BY <2>1, <2>2, NumTestsNat DEF ScriptInv, Testing
<1> QED BY <1>1, <1>2, <1>3 DEF TypeInv

-----------------------------------------------------------------------------
(* The processes keep to types.                                             *)

\* A command with one directory less is one.
LEMMA CommandWithLess ==
  ASSUME NEW p, CommandLine(p), p.left # <<>>
  PROVE  /\ p.mode \in Forking /\ Head(p.left) \in Range(p.dirs)
         /\ Head(p.left) \in AllMounts
         /\ CommandLine([p EXCEPT !.left = Tail(@)])
         /\ [p EXCEPT !.left = Tail(@)].mode = p.mode
         /\ [p EXCEPT !.left = Tail(@)].suffix = p.suffix
         /\ [p EXCEPT !.left = Tail(@)].dirs = p.dirs
         /\ [p EXCEPT !.left = Tail(@)].left = Tail(p.left)
<1> DEFINE r == [p EXCEPT !.left = Tail(@)]
<1>1. /\ p \in [mode : {p.mode}, engine : {p.engine}, suffix : Int,
                dirs : {p.dirs}, left : {p.left}]
      /\ p.mode \notin Forking => p.left = <<>>
  BY DEF CommandLine, IsCommand
<1>2. p.mode \in Forking
  BY <1>1
<1>3. /\ r \in [mode : {p.mode}, engine : {p.engine}, suffix : Int,
                dirs : {p.dirs}, left : {Tail(p.left)}]
      /\ r.suffix = p.suffix
  BY <1>1
<1>4. r.mode = p.mode /\ r.engine = p.engine /\ r.dirs = p.dirs /\ r.left = Tail(p.left)
  BY <1>3
<1>5. p.left \in Seq(Range(p.dirs)) /\ Range(p.dirs) \subseteq AllMounts
  BY ListOfItself DEF CommandLine
<1>6. Head(p.left) \in Range(p.dirs) /\ Tail(p.left) \in Seq(Range(p.dirs))
  BY <1>5, HeadTailProperties
<1> HIDE DEF r
<1>7. IsCommand(r)
  BY <1>2, <1>3, <1>4 DEF IsCommand
<1>8. CommandLine(r)
  BY <1>3, <1>4, <1>6, <1>7 DEF CommandLine
<1> QED BY <1>2, <1>3, <1>4, <1>5, <1>6, <1>8 DEF r

\* The processes keep to types, and so do those that fail.
LEMMA ProcessTypes ==
  ASSUME TypeInv, ProcessStep \/ (ProcessFault /\ UNCHANGED harnessVars)
  PROVE  TypeInv'
<1>0. UNCHANGED harnessVars /\ UNCHANGED script
  BY DEF ProcessStep, harnessVars
<1>1. HarnessInv'
  BY ProcessOrder DEF TypeInv
<1>2. ScriptInv'
  BY <1>0, SameScript DEF TypeInv, ScriptInv, harnessVars
<1>3. \A p : CommandLine(p)' <=> CommandLine(p)
  BY <1>0, SameScript
<1>4. ProcessInv
  BY DEF TypeInv
<1>5. AllMounts \X Suffixes \subseteq Files
  BY MountsThere DEF Files
<1>6. ASSUME NEW p \in live, live' = live \ {p}, children' = children, p.mode \in Modes,
             failing' \in {failing, failing \cup {p.mode}}, faults' \in {faults, faults + 1},
             faults' # faults => faults < MaxFaults,
             file' \in [Files -> Contents],
             \A f \in Files : f \notin FilesOf(p) => file'[f] = file[f]
      PROVE  ProcessInv'
  <2>1. CommandLine(p)
    BY <1>4 DEF ProcessInv
  <2>2. \A f \in FilesOf(p) : f[1] \in AllMounts
    BY <2>1, FilesThere
  <2>3. \A f \in Files : f[1] \notin AllMounts => file'[f] = "none"
    BY <1>4, <1>6, <2>2 DEF ProcessInv
  <2>4. faults' \in 0 .. MaxFaults
    BY <1>4, <1>6, ProcessAssumption DEF ProcessInv
  <2> QED BY <1>3, <1>4, <1>6, <2>3, <2>4 DEF ProcessInv
<1>7. ASSUME NEW p \in live, ForkChild(p) \/ (ForkFails(p) /\ p.mode # "initialize")
      PROVE  ProcessInv'
  <2> DEFINE r == [p EXCEPT !.left = Tail(@)]
             c == [mode |-> p.mode, suffix |-> p.suffix, dir |-> Head(p.left)]
  <2>1. /\ p.left # <<>> /\ live' = (live \ {p}) \cup {r}
        /\ children' \subseteq children \cup {c}
        /\ failing' = failing /\ file' = file
        /\ faults' \in {faults, faults + 1} /\ (faults' # faults => faults < MaxFaults)
    BY <1>7 DEF ForkChild, ForkFails, MayFail, Fault
  <2>2. CommandLine(p)
    BY <1>4 DEF ProcessInv
  <2>3. p.mode \in Forking /\ Head(p.left) \in AllMounts /\ CommandLine(r)
    BY <2>1, <2>2, CommandWithLess
  <2>4. c \in [mode : Forking, suffix : Suffixes, dir : AllMounts]
    BY <2>2, <2>3 DEF CommandLine
  <2>5. faults' \in 0 .. MaxFaults
    BY <1>4, <2>1, ProcessAssumption DEF ProcessInv
  <2> HIDE DEF r, c
  <2> QED BY <1>3, <1>4, <2>1, <2>3, <2>4, <2>5 DEF ProcessInv
<1>8. ASSUME NEW p \in live, Reap(p) \/ RmEnds(p) \/ (ForkFails(p) /\ p.mode = "initialize")
      PROVE  ProcessInv'
  <2>1. /\ live' = live \ {p} /\ children' = children /\ file' = file
        /\ failing' \in {failing, failing \cup {p.mode}}
        /\ faults' \in {faults, faults + 1} /\ (faults' # faults => faults < MaxFaults)
    BY <1>8 DEF Reap, RmEnds, ForkFails, Exit, MayFail, Fault
  <2>2. p.mode \in Modes
    BY <1>4 DEF ProcessInv, CommandLine
  <2>3. file' \in [Files -> Contents] /\ \A f \in Files : file'[f] = file[f]
    BY <1>4, <2>1 DEF ProcessInv
  <2> QED BY <2>1, <2>2, <2>3, <1>6
<1>9. ASSUME NEW p \in live, WorkloadEnds(p) \/ WorkloadFails(p) PROVE ProcessInv'
  <2>1. /\ live' = live \ {p} /\ children' = children
        /\ failing' \in {failing, failing \cup {p.mode}}
        /\ faults' \in {faults, faults + 1} /\ (faults' # faults => faults < MaxFaults)
    BY <1>9 DEF WorkloadEnds, WorkloadFails, Exit, MayFail, Fault
  <2>2. p.mode \in Modes
    BY <1>4 DEF ProcessInv, CommandLine
  <2>3. PICK left \in Contents :
          file' = [f \in Files |-> IF f \in FilesOf(p) THEN left ELSE file[f]]
    BY <1>9 DEF WorkloadEnds, WorkloadFails, Outcome, Contents
  <2>4. file' \in [Files -> Contents] /\ \A f \in Files : f \notin FilesOf(p) => file'[f] = file[f]
    BY <1>4, <2>3 DEF ProcessInv
  <2> QED BY <2>1, <2>2, <2>4, <1>6
<1>10. ASSUME NEW p \in live, CannotOpen(p) PROVE ProcessInv'
  <2>1. /\ live' = live \ {p} /\ children' = children /\ faults' = faults
        /\ failing' \in {failing, failing \cup {p.mode}}
    BY <1>10 DEF CannotOpen, Exit
  <2>2. p.mode \in Modes /\ CommandLine(p)
    BY <1>4 DEF ProcessInv, CommandLine
  <2>3. PICK i \in DOMAIN p.dirs :
          \E left \in {"none", "short", file[<<p.dirs[i], p.suffix>>]} :
            file' = [file EXCEPT ![<<p.dirs[i], p.suffix>>] = left]
    BY <1>10, Zenon DEF CannotOpen
  <2> DEFINE g == <<p.dirs[i], p.suffix>>
  <2>4. g \in FilesOf(p)
    BY DEF FilesOf, Range
  <2>5. g \in Files
    BY <2>2, <2>4, FilesThere
  <2>6. PICK left \in {"none", "short", file[g]} : file' = [file EXCEPT ![g] = left]
    BY <2>3
  <2> HIDE DEF g
  <2>7. left \in Contents
    BY <1>4, <2>5, <2>6 DEF ProcessInv, Contents
  <2>8. file' \in [Files -> Contents] /\ \A f \in Files : f \notin FilesOf(p) => file'[f] = file[f]
    BY <1>4, <2>4, <2>6, <2>7 DEF ProcessInv
  <2> QED BY <2>1, <2>2, <2>8, <1>6
<1>11. ASSUME NEW c \in children, ChildEnds(c) \/ ChildFails(c) PROVE ProcessInv'
  <2> DEFINE g == <<c.dir, c.suffix>>
  <2>1. /\ live' = live /\ children' = children \ {c} /\ failing' = failing
        /\ faults' \in {faults, faults + 1} /\ (faults' # faults => faults < MaxFaults)
    BY <1>11 DEF ChildEnds, ChildFails, MayFail, Fault
  <2>2. c \in [mode : Forking, suffix : Suffixes, dir : AllMounts]
    BY <1>4 DEF ProcessInv
  <2>3. g \in Files /\ g[1] \in AllMounts
    BY <2>2, <1>5
  <2>4. PICK left \in {"prepared", "short", file[g]} : file' = [file EXCEPT ![g] = left]
    BY <1>11 DEF ChildEnds, ChildFails
  <2> HIDE DEF g
  <2>5. left \in Contents
    BY <1>4, <2>3, <2>4 DEF ProcessInv, Contents
  <2>6. file' \in [Files -> Contents]
    BY <1>4, <2>4, <2>5 DEF ProcessInv
  <2>7. \A f \in Files : f[1] \notin AllMounts => file'[f] = "none"
    BY <1>4, <2>3, <2>4 DEF ProcessInv
  <2>8. faults' \in 0 .. MaxFaults
    BY <1>4, <2>1, ProcessAssumption DEF ProcessInv
  <2> QED BY <1>3, <1>4, <2>1, <2>6, <2>7, <2>8 DEF ProcessInv
<1>12. ProcessInv'
  BY <1>7, <1>8, <1>9, <1>10, <1>11
     DEF ProcessStep, CommandStep, ChildStep, ProcessFault
<1> QED BY <1>1, <1>2, <1>12 DEF TypeInv

-----------------------------------------------------------------------------
(* What the steps of the script do.                                         *)

\* The next command is the first, the others come after it.
LEMMA NextCommand ==
  ASSUME HarnessInv, todo # <<>>
  PROVE  /\ 1 \in DOMAIN todo /\ Head(todo) = todo[1]
         /\ \A i \in DOMAIN Tail(todo) : i + 1 \in DOMAIN todo /\ Tail(todo)[i] = todo[i + 1]
         /\ \A i \in DOMAIN todo : i = 1 \/ (i - 1 \in DOMAIN Tail(todo) /\ Tail(todo)[i - 1] = todo[i])
<1>1. todo \in Seq(Range(todo)) /\ todo # <<>>
  BY DEF HarnessInv, StageInv
<1>2. Len(todo) \in Nat /\ Len(todo) # 0 /\ DOMAIN todo = 1 .. Len(todo)
  BY <1>1, EmptySeq
<1>3. /\ Tail(todo) \in Seq(Range(todo)) /\ Len(Tail(todo)) = Len(todo) - 1
      /\ \A i \in 1 .. Len(Tail(todo)) : Tail(todo)[i] = todo[i + 1]
  BY <1>1, HeadTailProperties
<1>4. DOMAIN Tail(todo) = 1 .. Len(todo) - 1
  BY <1>3
<1>5. Head(todo) = todo[1]
  BY <1>1
<1> HIDE <1>1
<1>6. \A i \in DOMAIN Tail(todo) : i + 1 \in DOMAIN todo /\ Tail(todo)[i] = todo[i + 1]
  BY <1>2, <1>3, <1>4
<1>7. ASSUME NEW i \in DOMAIN todo, i # 1
      PROVE  i - 1 \in DOMAIN Tail(todo) /\ Tail(todo)[i - 1] = todo[i]
  <2>1. i - 1 \in 1 .. Len(todo) - 1 /\ (i - 1) + 1 = i
    BY <1>2, <1>7
  <2> QED BY <2>1, <1>3, <1>4
<1> QED BY <1>2, <1>5, <1>6, <1>7

\* cleanup_buffers() removes the files of all directories, or fails behind some.
LEMMA CleanupDone ==
  ASSUME NEW then, CleanupBuffers(then)
  PROVE  \E some \in SUBSET AllMounts :
           /\ file' = Purged(some)
           /\ \/ some = AllMounts /\ stage' = then /\ faults' = faults
              \/ stage' = "dead" /\ faults' = faults + 1 /\ faults < MaxFaults
BY DEF CleanupBuffers, MayFail, Fault

\* Where a test leaves the script, and what with: a row is recorded of a test of
\* execute(), and nothing else changes behind one of the others.
LEMMA TestOver ==
  ASSUME HarnessInv, CommandsEnd
  PROVE  /\ AllEnded /\ phase' = "idle"
         /\ UNCHANGED <<live, children, failing, script, todo, opened>>
         /\ \/ stage = "execute" /\ phase = "measure" /\ Record
            \/ /\ UNCHANGED <<file, faults, point, rows>>
               /\ \/ /\ stage = "prepare" /\ stage' = "execute" /\ phase = "initialize"
                     /\ \/ initResult' = "None" /\ "initialize" \notin failing
                        \/ initResult' = "failed" /\ "initialize" \in failing /\ script \in OnPages
                  \/ stage = "finalize" /\ stage' = "finished" /\ UNCHANGED initResult
                  \/ stage' = "dead" /\ phase \in failing /\ UNCHANGED initResult
<1>1. AllEnded /\ phase' = "idle" /\ UNCHANGED <<live, children, failing, script, todo, opened>>
  BY DEF CommandsEnd
<1>2. StageInv /\ phase \in {"initialize", "measure", "rm"}
  BY DEF HarnessInv, CommandsEnd
<1>3. CASE phase \in failing /\ ~Swallows
  <2>1. stage' = "dead" /\ UNCHANGED <<file, faults, initResult, point, rows>>
    BY <1>3 DEF CommandsEnd, TestRaises
  <2> QED BY <1>1, <1>3, <2>1
<1>4. CASE ~(phase \in failing /\ ~Swallows)
  <2> DEFINE result == IF phase \in failing THEN "failed" ELSE "None"
  <2>1. TestReturns(result)
    BY <1>4 DEF CommandsEnd, TestRaises
  <2>2. \/ result = "None" /\ phase \notin failing
        \/ result = "failed" /\ phase \in failing /\ script \in OnPages
    BY <1>4 DEF Swallows
  <2> HIDE DEF result
  <2>3. CASE stage = "prepare"
    <3>1. phase = "initialize"
      BY <1>2, <2>3 DEF StageInv
    <3>2. stage' = "execute" /\ initResult' = result /\ UNCHANGED <<file, faults, point, rows>>
      BY <2>1, <2>3 DEF TestReturns
    <3> QED BY <1>1, <2>2, <2>3, <3>1, <3>2
  <2>4. CASE stage = "execute"
    <3>1. phase = "measure"
      BY <1>2, <2>4 DEF StageInv
    <3>2. Record
      BY <2>1, <2>4 DEF TestReturns
    <3> QED BY <1>1, <2>4, <3>1, <3>2
  <2>5. CASE stage \notin {"prepare", "execute"}
    <3>1. stage = "finalize" /\ stage' = "finished"
          /\ UNCHANGED <<file, faults, initResult, point, rows>>
      BY <2>1, <2>5 DEF TestReturns
    <3> QED BY <1>1, <3>1
  <2> QED BY <2>3, <2>4, <2>5
<1> QED BY <1>3, <1>4

\* What Record does.
LEMMA RecordDone ==
  ASSUME Record
  PROVE  /\ rows' = Append(rows,
              [test |-> point, mounts |-> CombOf(point), threads |-> ThreadsOf(point),
               failed |-> "measure" \in failing, opened |-> opened, faults |-> faults])
         /\ point' = point + 1 /\ UNCHANGED initResult
         /\ \/ CleansUp /\ CleanupBuffers(stage)
            \/ ~CleansUp /\ UNCHANGED <<file, faults, stage>>
BY DEF Record

\* The commands that the test n starts with.
StartsWith(mode, engine) ==
  \/ script \in OnPages /\ mode = "scramble" /\ engine = "PAGES"
  \/ script = "logging_libpmem" /\ mode = "create" /\ engine = "LIBPMEM2"
  \/ script \notin OnPages \cup {"logging_libpmem"} /\ mode = "measure" /\ engine = Engine

\* The test that is next is the first that is left.
LEMMA NextTestIs ==
  ASSUME script \in Scripts, NextTest
  PROVE  \E n \in ToRun, mode \in Modes, engine \in Engines :
           /\ \A m \in ToRun : n <= m
           /\ StartsWith(mode, engine)
           /\ point' = n /\ phase' = mode /\ todo' = Commands(mode, engine, n)
           /\ failing' = failing \ {mode}
<1>1. PICK n \in ToRun :
        /\ \A m \in ToRun : n <= m
        /\ point' = n
        /\ IF PreparationCmds(n) # <<>>
           THEN StartPhase(PreparationCmds(n)[1].mode, PreparationCmds(n))
           ELSE StartPhase("measure", MeasuredCmds(n))
  BY DEF NextTest
<1>2. n \in 1 .. NumTests /\ n \in Nat \ {0}
  BY <1>1, NumTestsNat DEF ToRun, ValidTests
<1>3. "PAGES" \in Engines /\ "LIBPMEM2" \in Engines /\ Engine \in Engines
      /\ {"scramble", "create", "measure"} \subseteq Modes
  BY EngineThere DEF Engines, Modes
<1>4. CASE script \in OnPages
  <2>1. PreparationCmds(n) = Commands("scramble", "PAGES", n)
    BY <1>4 DEF PreparationCmds, OnPages
  <2>2. PreparationCmds(n) # <<>> /\ PreparationCmds(n)[1].mode = "scramble"
    BY <2>1, <1>2, <1>3, TestLines, TestCommands
  <2>3. phase' = "scramble" /\ todo' = Commands("scramble", "PAGES", n)
        /\ failing' = failing \ {"scramble"}
    BY <1>1, <2>1, <2>2 DEF StartPhase
  <2> QED BY <1>1, <1>3, <1>4, <2>3 DEF StartsWith
<1>5. CASE script = "logging_libpmem"
  <2>1. PreparationCmds(n) = Commands("create", "LIBPMEM2", n)
    BY <1>5 DEF PreparationCmds, OnPages
  <2>2. PreparationCmds(n) # <<>> /\ PreparationCmds(n)[1].mode = "create"
    BY <2>1, <1>2, <1>3, TestLines, TestCommands
  <2>3. phase' = "create" /\ todo' = Commands("create", "LIBPMEM2", n)
        /\ failing' = failing \ {"create"}
    BY <1>1, <2>1, <2>2 DEF StartPhase
  <2> QED BY <1>1, <1>3, <1>5, <2>3 DEF StartsWith
<1>6. CASE script \notin OnPages \cup {"logging_libpmem"}
  <2>1. PreparationCmds(n) = <<>>
    BY <1>6 DEF PreparationCmds
  <2>2. phase' = "measure" /\ todo' = Commands("measure", Engine, n)
        /\ failing' = failing \ {"measure"}
    BY <1>1, <2>1 DEF StartPhase, MeasuredCmds
  <2> QED BY <1>1, <1>3, <1>6, <2>2 DEF StartsWith
<1> QED BY <1>4, <1>5, <1>6

-----------------------------------------------------------------------------
(* The steps of the script keep to types.                                   *)

\* Files are only removed, and commands ended.
LEMMA ScriptLeaves ==
  ASSUME ProcessInv, UNCHANGED script, live' = live, children' = children,
         failing' \subseteq failing,
         UNCHANGED <<file, faults>> \/ \E then : CleanupBuffers(then)
  PROVE  ProcessInv'
<1>1. \A p : CommandLine(p)' <=> CommandLine(p)
  BY SameScript
<1>2. CASE UNCHANGED <<file, faults>>
  BY <1>1, <1>2 DEF ProcessInv
<1>3. ASSUME NEW then, CleanupBuffers(then) PROVE ProcessInv'
  <2>1. PICK some \in SUBSET AllMounts :
           /\ file' = Purged(some)
           /\ faults' = faults \/ (faults' = faults + 1 /\ faults < MaxFaults)
    BY <1>3, CleanupDone
  <2>2. file' \in [Files -> Contents]
    BY <2>1 DEF Purged, ProcessInv, Contents
  <2>3. \A f \in Files : f[1] \notin AllMounts => file'[f] = "none"
    BY <2>1 DEF Purged, ProcessInv
  <2>4. faults' \in 0 .. MaxFaults
    BY <2>1, ProcessAssumption DEF ProcessInv
  <2> QED BY <1>1, <2>2, <2>3, <2>4 DEF ProcessInv
<1> QED BY <1>2, <1>3

\* A phase is started.
LEMMA StartTypes ==
  ASSUME ScriptInv, UNCHANGED <<script, initResult, rows>>, opened' \in {opened, {}},
         NEW mode \in Modes, phase' = mode,
         \A i \in DOMAIN todo' : NewCommand(todo'[i]),
         mode = "initialize" => script \in Initializing,
         mode \in {"scramble", "rm"} => script \in OnPages,
         mode = "create" => script = "logging_libpmem",
         mode \in Testing => point' \in ValidTests /\ ~IsValidCombRaises,
         stage' = "finalize" => ~IsValidCombRaises,
         point' \in 1 .. NumTests + 1, point' >= point
  PROVE  ScriptInv'
<1>1. /\ \A p : NewCommand(p)' <=> NewCommand(p)
      /\ ValidTests' = ValidTests /\ Row' = Row /\ (IsValidCombRaises' <=> IsValidCombRaises)
  BY SameScript
<1>2. Len(rows') < point'
  <2>1. Len(rows) \in Nat /\ Len(rows) < point /\ point \in Nat /\ point' \in Nat
    BY NumTestsNat DEF ScriptInv
  <2> QED BY <2>1
<1>3. \A i \in DOMAIN todo' : NewCommand(todo[i])'
  BY <1>1
<1> QED BY <1>1, <1>2, <1>3 DEF ScriptInv

\* No phase is started.
LEMMA IdleTypes ==
  ASSUME ScriptInv, UNCHANGED script, phase' = "idle", todo' = <<>>, opened' = opened,
         initResult' \in {"None", "failed"}, initResult' = "failed" => script \in OnPages,
         stage' # "finalize",
         point' \in 1 .. NumTests + 1, rows' \in Seq(Row), Len(rows') < point'
  PROVE  ScriptInv'
<1>1. Row' = Row
  BY SameScript
<1>2. DOMAIN todo' = {}
  OBVIOUS
<1> QED BY <1>1, <1>2 DEF ScriptInv, Testing

\* The recorded row.
LEMMA RecordTypes ==
  ASSUME ProcessInv, ScriptInv, phase = "measure", Record
  PROVE  rows' \in Seq(Row) /\ point' \in 1 .. NumTests + 1 /\ Len(rows') < point'
         /\ Len(rows') = Len(rows) + 1
<1> DEFINE r == [test |-> point, mounts |-> CombOf(point), threads |-> ThreadsOf(point),
                 failed |-> "measure" \in failing, opened |-> opened, faults |-> faults]
<1>1. rows' = Append(rows, r) /\ point' = point + 1
  BY RecordDone
<1>2. point \in ValidTests /\ point \in 1 .. NumTests /\ NumTests \in Nat
  BY NumTestsNat DEF ScriptInv, Testing, ValidTests
<1>3. point \in Nat \ {0}
  BY <1>2
<1>4. CombOf(point) \in Seq(AllMounts) /\ ThreadsOf(point) \in 1 .. MaxThreads
  BY <1>2, <1>3, CombIsList, ThreadsNat
<1>5. opened \in SUBSET Contents /\ faults \in 0 .. MaxFaults /\ ("measure" \in failing) \in BOOLEAN
  BY DEF ProcessInv, ScriptInv
<1>6. r \in Row
  BY <1>2, <1>4, <1>5 DEF Row
<1> HIDE DEF r
<1>7. rows \in Seq(Row) /\ Len(rows) \in Nat /\ Len(rows) < point
  BY DEF ScriptInv
<1>8. rows' \in Seq(Row) /\ Len(rows') = Len(rows) + 1
  BY <1>1, <1>6, <1>7
<1> QED BY <1>1, <1>2, <1>3, <1>7, <1>8

\* The script keeps to types.
LEMMA ScriptTypes ==
  ASSUME TypeInv, HarnessStep \/ PopenFails
  PROVE  TypeInv'
<1>0. ProcessInv /\ ScriptInv /\ HarnessInv /\ StageInv /\ UNCHANGED script
  BY ScriptStays DEF TypeInv, HarnessInv, Next, Failure
<1>1. HarnessInv'
  BY <1>0, StepOrder DEF Next, Failure
<1>2. point \in 1 .. NumTests + 1 /\ NumTests \in Nat /\ rows \in Seq(Row) /\ Len(rows) < point
      /\ script \in Scripts /\ initResult \in {"None", "failed"}
      /\ (initResult = "failed" => script \in OnPages)
  BY <1>0, NumTestsNat DEF ScriptInv
<1>3. point >= point
  BY <1>2
<1>4. CASE Prepare
  <2>1. stage = "prepare" /\ phase = "idle"
        /\ UNCHANGED <<live, children, initResult, point, rows, opened>>
    BY <1>4 DEF Prepare
  <2>2. CASE script \in Initializing
    <3>1. StartPhase("initialize", InitializeCmds) /\ UNCHANGED <<file, stage, faults>>
      BY <1>4, <2>2 DEF Prepare
    <3>2. phase' = "initialize" /\ todo' = InitializeCmds /\ failing' \subseteq failing
      BY <3>1 DEF StartPhase
    <3>3. \A i \in DOMAIN todo' : NewCommand(todo'[i])
      BY <1>2, <3>2, InitializeLines
    <3>4. ProcessInv'
      BY <1>0, <2>1, <3>1, <3>2, ScriptLeaves
    <3>5. "initialize" \in Modes
      BY DEF Modes
    <3>6. ScriptInv'
      BY <1>0, <1>2, <1>3, <2>1, <2>2, <3>1, <3>2, <3>3, <3>5, StartTypes DEF Testing
    <3> QED BY <1>1, <3>4, <3>6 DEF TypeInv
  <2>3. CASE script \notin Initializing
    <3>1. CleanupBuffers("execute") /\ UNCHANGED <<phase, todo, failing>>
      BY <1>4, <2>3 DEF Prepare
    <3>2. ProcessInv'
      BY <1>0, <2>1, <3>1, ScriptLeaves
    <3>3. phase' = "idle" /\ todo' = <<>> /\ stage' # "finalize"
      BY <1>0, <2>1, <3>1 DEF CleanupBuffers, StageInv
    <3>4. ScriptInv'
      BY <1>0, <1>2, <2>1, <3>3, IdleTypes
    <3> QED BY <1>1, <3>2, <3>4 DEF TypeInv
  <2> QED BY <2>2, <2>3
<1>5. CASE Popen
  <2>1. /\ todo # <<>> /\ live' = live \cup {Head(todo)} /\ todo' = Tail(todo)
        /\ opened' = (IF phase = "measure"
                      THEN opened \cup {file[f] : f \in FilesOf(Head(todo))} ELSE opened)
        /\ UNCHANGED <<file, children, failing, faults, stage, phase, initResult, point, rows>>
    BY <1>5 DEF Popen
  <2>2. /\ 1 \in DOMAIN todo /\ Head(todo) = todo[1]
        /\ \A i \in DOMAIN Tail(todo) : i + 1 \in DOMAIN todo /\ Tail(todo)[i] = todo[i + 1]
    BY <1>0, <2>1, NextCommand
  <2>3. CommandLine(Head(todo))
    BY <1>0, <2>2 DEF ScriptInv, NewCommand
  <2>4. \A p : (CommandLine(p)' <=> CommandLine(p)) /\ (NewCommand(p)' <=> NewCommand(p))
    BY <1>0, SameScript
  <2>5. ProcessInv'
    BY <1>0, <2>1, <2>3, <2>4 DEF ProcessInv
  <2>6. \A i \in DOMAIN todo' : NewCommand(todo[i])'
    BY <1>0, <2>1, <2>2, <2>4 DEF ScriptInv
  <2>7. opened' \subseteq Contents
    <3>1. FilesOf(Head(todo)) \subseteq Files
      BY <2>3, FilesThere
    <3>2. \A f \in FilesOf(Head(todo)) : file[f] \in Contents
      BY <1>0, <3>1 DEF ProcessInv
    <3> QED BY <1>0, <2>1, <3>2 DEF ScriptInv
  <2>8. ValidTests' = ValidTests /\ Row' = Row /\ (IsValidCombRaises' <=> IsValidCombRaises)
    BY <1>0, SameScript
  <2>9. ScriptInv'
    BY <1>0, <2>1, <2>6, <2>7, <2>8 DEF ScriptInv
  <2> QED BY <1>1, <2>5, <2>9 DEF TypeInv
<1>6. CASE PreparationEnds
  <2>1. /\ phase \in {"scramble", "create"}
        /\ StartPhase("measure", MeasuredCmds(point))
        /\ UNCHANGED <<file, live, children, faults, stage, initResult, point, rows, opened>>
    BY <1>6 DEF PreparationEnds
  <2>2. phase' = "measure" /\ todo' = Commands("measure", Engine, point) /\ failing' \subseteq failing
    BY <2>1 DEF StartPhase, MeasuredCmds
  <2>3. point \in ValidTests /\ ~IsValidCombRaises
    BY <1>0, <2>1 DEF ScriptInv, Testing
  <2>4. "measure" \in Modes /\ Engine \in Engines /\ point \in 1 .. NumTests
    BY <1>2, <2>3, EngineThere DEF Modes, ValidTests
  <2>5. \A i \in DOMAIN todo' : NewCommand(todo'[i])
    BY <2>2, <2>4, TestLines
  <2>6. stage' # "finalize"
    BY <1>0, <2>1 DEF StageInv
  <2>7. ProcessInv'
    BY <1>0, <2>1, <2>2, ScriptLeaves
  <2>8. ScriptInv'
    BY <1>0, <1>2, <1>3, <2>1, <2>2, <2>3, <2>4, <2>5, <2>6, StartTypes DEF Testing
  <2> QED BY <1>1, <2>7, <2>8 DEF TypeInv
<1>7. CASE CommandsEnd
  <2>1. /\ AllEnded /\ phase' = "idle"
        /\ UNCHANGED <<live, children, failing, script, todo, opened>>
        /\ \/ stage = "execute" /\ phase = "measure" /\ Record
           \/ /\ UNCHANGED <<file, faults, point, rows>>
              /\ \/ /\ stage = "prepare" /\ stage' = "execute" /\ phase = "initialize"
                    /\ \/ initResult' = "None" /\ "initialize" \notin failing
                       \/ initResult' = "failed" /\ "initialize" \in failing /\ script \in OnPages
                 \/ stage = "finalize" /\ stage' = "finished" /\ UNCHANGED initResult
                 \/ stage' = "dead" /\ phase \in failing /\ UNCHANGED initResult
    BY <1>0, <1>7, TestOver
  <2>2. todo' = <<>>
    BY <2>1 DEF AllEnded
  <2>3. CASE stage = "execute" /\ phase = "measure" /\ Record
    <3>1. rows' \in Seq(Row) /\ point' \in 1 .. NumTests + 1 /\ Len(rows') < point'
      BY <1>0, <2>3, RecordTypes
    <3>2. /\ UNCHANGED initResult
          /\ \/ CleansUp /\ CleanupBuffers(stage)
             \/ ~CleansUp /\ UNCHANGED <<file, faults, stage>>
      BY <2>3, RecordDone
    <3>3. ProcessInv'
      BY <1>0, <2>1, <3>2, ScriptLeaves
    <3>4. stage' # "finalize"
      BY <2>3, <3>2 DEF CleanupBuffers
    <3>5. ScriptInv'
      BY <1>0, <1>2, <2>1, <2>2, <3>1, <3>2, <3>4, IdleTypes
    <3> QED BY <1>1, <3>3, <3>5 DEF TypeInv
  <2>4. CASE ~(stage = "execute" /\ phase = "measure" /\ Record)
    <3>1. /\ UNCHANGED <<file, faults, point, rows>> /\ stage' # "finalize"
          /\ initResult' \in {"None", "failed"}
          /\ (initResult' = "failed" => script \in OnPages)
      BY <1>2, <2>1, <2>4
    <3>2. ProcessInv'
      BY <1>0, <2>1, <3>1, ScriptLeaves
    <3>3. ScriptInv'
      BY <1>0, <1>2, <2>1, <2>2, <3>1, IdleTypes
    <3> QED BY <1>1, <3>2, <3>3 DEF TypeInv
  <2> QED BY <2>3, <2>4
<1>8. CASE NextTest
  <2>1. /\ stage = "execute" /\ ~IsValidCombRaises /\ opened' = {}
        /\ UNCHANGED <<file, live, children, faults, stage, initResult, rows>>
    BY <1>8 DEF NextTest
  <2>2. PICK n \in ToRun, mode \in Modes, engine \in Engines :
          /\ StartsWith(mode, engine)
          /\ point' = n /\ phase' = mode /\ todo' = Commands(mode, engine, n)
          /\ failing' = failing \ {mode}
    BY <1>2, <1>8, NextTestIs
  <2>3. n \in ValidTests /\ n \in 1 .. NumTests /\ n >= point
    BY <2>2 DEF ToRun, ValidTests
  <2>4. /\ mode \in Testing
        /\ mode = "measure" => engine = Engine
        /\ mode = "create" => engine = "LIBPMEM2" /\ script = "logging_libpmem"
        /\ mode = "scramble" => script \in OnPages
    BY <2>2 DEF StartsWith, Testing
  <2>5. \A i \in DOMAIN todo' : NewCommand(todo'[i])
    BY <2>2, <2>3, <2>4, TestLines
  <2>6. ProcessInv'
    BY <1>0, <2>1, <2>2, ScriptLeaves
  <2>7. n \in 1 .. NumTests + 1
    BY <2>3, <1>2
  <2>8. ScriptInv'
    BY <1>0, <2>1, <2>2, <2>3, <2>4, <2>5, <2>7, StartTypes DEF Testing
  <2> QED BY <1>1, <2>6, <2>8 DEF TypeInv
<1>9. CASE CombinationRaises
  <2>1. /\ phase = "idle" /\ stage' = "dead"
        /\ UNCHANGED <<file, live, children, failing, faults, phase, todo, initResult,
                       point, rows, opened>>
    BY <1>9 DEF CombinationRaises, processVars
  <2>2. todo = <<>>
    BY <1>0, <2>1 DEF StageInv
  <2>3. ProcessInv'
    BY <1>0, <2>1, ScriptLeaves
  <2>4. ScriptInv'
    BY <1>0, <1>2, <2>1, <2>2, IdleTypes
  <2> QED BY <1>1, <2>3, <2>4 DEF TypeInv
<1>10. CASE Finalize
  <2>1. /\ stage = "execute" /\ phase = "idle" /\ ~IsValidCombRaises
        /\ UNCHANGED <<live, children, initResult, point, rows, opened>>
    BY <1>10 DEF Finalize
  <2>2. CASE script \in OnPages
    <3>1. StartPhase("rm", RmCmds) /\ stage' = "finalize" /\ UNCHANGED <<file, faults>>
      BY <1>10, <2>2 DEF Finalize
    <3>2. phase' = "rm" /\ todo' = RmCmds /\ failing' \subseteq failing /\ "rm" \in Modes
      BY <3>1 DEF StartPhase, Modes
    <3>3. \A i \in DOMAIN todo' : NewCommand(todo'[i])
      BY <1>2, <3>2, RmLines
    <3>4. ProcessInv'
      BY <1>0, <2>1, <3>1, <3>2, ScriptLeaves
    <3>5. ScriptInv'
      BY <1>0, <1>2, <1>3, <2>1, <2>2, <3>1, <3>2, <3>3, StartTypes DEF Testing
    <3> QED BY <1>1, <3>4, <3>5 DEF TypeInv
  <2>3. CASE script \notin OnPages
    <3>1. CleanupBuffers("finished") /\ UNCHANGED <<phase, todo, failing>>
      BY <1>10, <2>3 DEF Finalize
    <3>2. ProcessInv'
      BY <1>0, <2>1, <3>1, ScriptLeaves
    <3>3. phase' = "idle" /\ todo' = <<>> /\ stage' # "finalize"
      BY <1>0, <2>1, <3>1 DEF CleanupBuffers, StageInv
    <3>4. ScriptInv'
      BY <1>0, <1>2, <2>1, <3>3, IdleTypes
    <3> QED BY <1>1, <3>2, <3>4 DEF TypeInv
  <2> QED BY <2>2, <2>3
<1>11. CASE PopenFails
  <2>1. /\ phase' = "idle" /\ todo' = <<>> /\ faults < MaxFaults /\ faults' = faults + 1
        /\ UNCHANGED <<file, live, children, failing, point, rows, opened>>
    BY <1>11 DEF PopenFails, MayFail
  <2>2. /\ stage' # "finalize" /\ initResult' \in {"None", "failed"}
        /\ (initResult' = "failed" => script \in OnPages)
    BY <1>2, <1>11 DEF PopenFails, Swallows
  <2>3. ScriptInv'
    BY <1>0, <1>2, <2>1, <2>2, IdleTypes
  <2>4. faults' \in 0 .. MaxFaults
    BY <1>0, <2>1, ProcessAssumption DEF ProcessInv
  <2>5. \A p : CommandLine(p)' <=> CommandLine(p)
    BY <1>0, SameScript
  <2>6. ProcessInv'
    BY <1>0, <2>1, <2>4, <2>5 DEF ProcessInv
  <2> QED BY <1>1, <2>3, <2>6 DEF TypeInv
<1> QED BY <1>4, <1>5, <1>6, <1>7, <1>8, <1>9, <1>10, <1>11 DEF HarnessStep

\* Every step keeps to types.
LEMMA StepTypes ==
  ASSUME TypeInv, [Next]_vars
  PROVE  TypeInv'
<1>1. CASE ProcessStep \/ (ProcessFault /\ UNCHANGED harnessVars)
  BY <1>1, ProcessTypes
<1>2. CASE HarnessStep \/ PopenFails
  BY <1>2, ScriptTypes
<1>3. CASE UNCHANGED vars
  <2>1. HarnessInv'
    BY <1>3, StepOrder DEF TypeInv
  <2>2. script' = script
    BY <1>3 DEF vars, harnessVars
  <2>3. ProcessInv' /\ ScriptInv'
    BY <1>3, <2>2, SameScript DEF TypeInv, ProcessInv, ScriptInv, vars, processVars, harnessVars
  <2> QED BY <2>1, <2>3 DEF TypeInv
<1> QED BY <1>1, <1>2, <1>3 DEF Next, Failure

\* Types hold throughout.
LEMMA TypesHold == Spec => []TypeInv
<1>1. Init => TypeInv
  BY InitTypes
<1>2. TypeInv /\ [Next]_vars => TypeInv'
  BY StepTypes
<1> QED BY <1>1, <1>2, PTL DEF Spec

\* Commands, files and rows are what they should be for any number of directories, threads
\* and failing calls: no command has a directory or a suffix outside of the lists, and no
\* more rows are recorded than there are tests.
THEOREM TypeCorrect == Spec => []TypeOK
<1>1. TypeInv => TypeOK
  BY TypeParts
<1> QED BY <1>1, TypesHold, PTL

-----------------------------------------------------------------------------
(* What is left of the files of a log.                                      *)

NoFiles == \A f \in Files : file[f] = "none"

\* A script that cleans up behind every test starts the next without a file, and a
\* script on logging ends without a file or a process.
CleanInv ==
  /\ stage = "execute" /\ phase = "idle" /\ CleansUp => NoFiles
  /\ stage = "finished" /\ script \notin OnPages => NoFiles /\ live = {} /\ children = {}

\* cleanup_buffers() leaves nothing when it succeeds.
LEMMA CleanedUp ==
  ASSUME ProcessInv, NEW then, CleanupBuffers(then)
  PROVE  \/ stage' = then /\ faults' = faults /\ NoFiles'
         \/ stage' = "dead" /\ faults' = faults + 1
<1>1. PICK some \in SUBSET AllMounts :
           /\ file' = Purged(some)
           /\ \/ some = AllMounts /\ stage' = then /\ faults' = faults
              \/ stage' = "dead" /\ faults' = faults + 1 /\ faults < MaxFaults
  BY CleanupDone
<1>2. CASE some = AllMounts /\ stage' = then /\ faults' = faults
  <2>1. \A f \in Files : file'[f] = "none"
    BY <1>1, <1>2 DEF Purged, ProcessInv
  <2> QED BY <1>2, <2>1 DEF NoFiles
<1> QED BY <1>1, <1>2

\* Between two tests nothing runs.
LEMMA IdleAlone ==
  ASSUME TypeInv, initResult = "None", phase = "idle", stage \in {"prepare", "execute"}
  PROVE  live = {} /\ children = {}
BY DEF TypeInv, HarnessInv, OrderInv

\* A script on logging has no preparation that could be forgotten.
LEMMA LogsRemember ==
  ASSUME TypeInv, script \notin OnPages
  PROVE  initResult = "None"
BY DEF TypeInv, ScriptInv

\* Without processes there is no step of one.
LEMMA NoProcess ==
  ASSUME live = {}, children = {}
  PROVE  ~(ProcessStep \/ ProcessFault)
BY DEF ProcessStep, CommandStep, ChildStep, ProcessFault

\* Every step keeps that.
LEMMA StepCleans ==
  ASSUME TypeInv, CleanInv, [Next]_vars
  PROVE  CleanInv'
<1>0. /\ UNCHANGED script /\ (CleansUp' <=> CleansUp)
      /\ ProcessInv /\ StageInv /\ ScriptInv /\ HarnessInv
  BY ScriptStays, SameScript DEF TypeInv, HarnessInv
<1>1. CleansUp => script \notin OnPages /\ script \notin Initializing
  BY DEF CleansUp, OnPages, Initializing
<1>2. CASE ProcessStep \/ (ProcessFault /\ UNCHANGED harnessVars)
  <2>1. UNCHANGED <<stage, phase>>
    BY <1>2 DEF ProcessStep, harnessVars
  <2>2. ~(live = {} /\ children = {})
    BY <1>2, NoProcess
  <2>3. ~(stage = "execute" /\ phase = "idle" /\ CleansUp)
    BY <1>1, <2>2, IdleAlone, LogsRemember
  <2>4. ~(stage = "finished" /\ script \notin OnPages)
    BY <2>2 DEF CleanInv
  <2> QED BY <1>0, <2>1, <2>3, <2>4 DEF CleanInv
<1>3. CASE Prepare
  <2>1. stage = "prepare"
    BY <1>3 DEF Prepare
  <2>2. CASE script \in Initializing
    <3>1. stage' = "prepare"
      BY <1>3, <2>1, <2>2 DEF Prepare
    <3> QED BY <3>1 DEF CleanInv
  <2>3. CASE script \notin Initializing
    <3>1. CleanupBuffers("execute")
      BY <1>3, <2>3 DEF Prepare
    <3>2. (stage' = "execute" /\ NoFiles') \/ stage' = "dead"
      BY <1>0, <3>1, CleanedUp
    <3> QED BY <3>2 DEF CleanInv
  <2> QED BY <2>2, <2>3
<1>4. CASE Popen \/ PreparationEnds
  <2>1. stage' = stage /\ (phase' = "idle" => phase = "idle") /\ phase # "idle"
    BY <1>0, <1>4 DEF Popen, PreparationEnds, StartPhase, StageInv
  <2>2. stage \notin {"finished", "dead"}
    BY <1>0, <2>1 DEF StageInv
  <2> QED BY <2>1, <2>2 DEF CleanInv
<1>5. CASE CommandsEnd
  <2>1. \/ stage = "execute" /\ phase = "measure" /\ Record
        \/ stage = "prepare" /\ phase = "initialize" /\ stage' = "execute"
        \/ stage = "finalize" /\ stage' = "finished"
        \/ stage' = "dead"
    BY <1>0, <1>5, TestOver
  <2>2. CASE stage = "execute" /\ phase = "measure" /\ Record
    <3>1. \/ CleansUp /\ CleanupBuffers("execute")
          \/ ~CleansUp /\ stage' = "execute"
      BY <2>2, RecordDone
    <3>2. CASE CleansUp /\ CleanupBuffers("execute")
      <4>1. (stage' = "execute" /\ NoFiles') \/ stage' = "dead"
        BY <1>0, <3>2, CleanedUp
      <4> QED BY <4>1 DEF CleanInv
    <3>3. CASE ~CleansUp /\ stage' = "execute"
      BY <1>0, <3>3 DEF CleanInv
    <3> QED BY <3>1, <3>2, <3>3
  <2>3. CASE stage = "prepare" /\ phase = "initialize" /\ stage' = "execute"
    <3>1. script \in Initializing
      BY <1>0, <2>3 DEF ScriptInv
    <3> QED BY <1>0, <1>1, <2>3, <3>1 DEF CleanInv
  <2>4. CASE stage = "finalize" /\ stage' = "finished"
    <3>1. script \in OnPages
      BY <1>0, <2>4 DEF StageInv, ScriptInv
    <3> QED BY <1>0, <2>4, <3>1 DEF CleanInv
  <2>5. CASE stage' = "dead"
    BY <2>5 DEF CleanInv
  <2> QED BY <2>1, <2>2, <2>3, <2>4, <2>5
<1>6. CASE NextTest
  <2>1. stage' = "execute"
    BY <1>6 DEF NextTest
  <2>2. phase' \in Modes
    BY <1>0, <1>6, NextTestIs DEF ScriptInv
  <2>3. phase' # "idle"
    BY <2>2 DEF Modes
  <2> QED BY <2>1, <2>3 DEF CleanInv
<1>7. CASE CombinationRaises
  <2>1. stage' = "dead"
    BY <1>7 DEF CombinationRaises
  <2> QED BY <2>1 DEF CleanInv
<1>8. CASE Finalize
  <2>1. stage = "execute" /\ phase = "idle" /\ UNCHANGED <<live, children>>
    BY <1>8 DEF Finalize
  <2>2. CASE script \in OnPages
    <3>1. stage' = "finalize"
      BY <1>8, <2>2 DEF Finalize
    <3> QED BY <3>1 DEF CleanInv
  <2>3. CASE script \notin OnPages
    <3>1. CleanupBuffers("finished")
      BY <1>8, <2>3 DEF Finalize
    <3>2. (stage' = "finished" /\ NoFiles') \/ stage' = "dead"
      BY <1>0, <3>1, CleanedUp
    <3>3. live' = {} /\ children' = {}
      BY <2>1, <2>3, IdleAlone, LogsRemember
    <3> QED BY <3>2, <3>3 DEF CleanInv
  <2> QED BY <2>2, <2>3
<1>9. CASE PopenFails
  <2>1. stage' = "dead" \/ script \in OnPages
    BY <1>9 DEF PopenFails, Swallows
  <2> QED BY <1>0, <1>1, <2>1 DEF CleanInv
<1>10. CASE UNCHANGED vars
  BY <1>0, <1>10 DEF CleanInv, NoFiles, vars, processVars, harnessVars, Files
<1> QED BY <1>2, <1>3, <1>4, <1>5, <1>6, <1>7, <1>8, <1>9, <1>10
        DEF Next, HarnessStep, Failure

\* It holds throughout.
LEMMA CleansHold == Spec => []CleanInv
<1>1. Init => CleanInv
  BY DEF Init, HarnessInit, CleanInv
<1>2. TypeInv /\ CleanInv /\ [Next]_vars => CleanInv'
  BY StepCleans
<1> QED BY <1>1, <1>2, TypesHold, PTL DEF Spec

\* A script on logging that comes to its end leaves no file of a log, whatever failed on
\* the way, and nothing that it has started still runs.
THEOREM NothingIsLeft == Spec => []NothingLeft
<1>1. CleanInv => NothingLeft
  BY DEF CleanInv, NothingLeft, NoFiles
<1> QED BY <1>1, CleansHold, PTL

-----------------------------------------------------------------------------
(* What the measured files contain.                                         *)

ScriptFiles == AllMounts \X Suffixes
TestFiles(n) == UNION {Range(DirsOf(n, i - 1)) \X {i - 1} : i \in 1 .. ThreadsOf(n)}

\* A command, or a child of one, has still to work on the file f.
Pending(f) ==
  \/ \E i \in DOMAIN todo : f \in FilesOf(todo[i])
  \/ \E p \in live : f \in FilesOf(p) /\ (p.mode \in Forking => f[1] \in Range(p.left))
  \/ \E c \in children : f = <<c.dir, c.suffix>>

\* the files that are prepared when the phase has ended
ToPrepare == CASE phase = "initialize" -> ScriptFiles
               [] phase \in {"scramble", "create"} -> TestFiles(point)
               [] OTHER -> {}

Prepares == \A f \in ToPrepare : file[f] = "prepared" \/ Pending(f)
Whole == \A f \in ScriptFiles : file[f] \in {"prepared", "used"}

\* How a script goes in which no call fails.
PrepInv ==
  /\ initResult = "None"
  /\ stage = "dead" => IsValidCombRaises
  /\ stage \notin {"finished", "dead"} => failing = {}
  /\ Prepares
  /\ stage = "execute" /\ script \in Initializing => Whole

\* what a measured command is to find, and scripts that never find anything else
Clean == CASE script = "logging_linux" -> {"none"}
           [] script = "logging_linux_prefault" -> {"prepared", "used"}
           [] OTHER -> {"prepared"}
Reliable == faults = 0 \/ script = "logging_linux"

CleanFiles ==
  /\ opened \subseteq Clean
  /\ \A i \in DOMAIN todo : \A f \in FilesOf(todo[i]) : file[f] \in Clean
  /\ \A p \in live : \A f \in FilesOf(p) : file[f] \in Clean

MeasInv ==
  /\ phase \in {"scramble", "create"} => opened = {}
  /\ phase = "measure" => todo # <<>> \/ opened # {}
  /\ Reliable /\ phase = "measure" => CleanFiles

RowsClean ==
  \A i \in DOMAIN rows :
    rows[i].faults = 0 \/ script = "logging_linux" =>
      rows[i].opened \subseteq Clean /\ rows[i].opened # {}

FilesInv ==
  /\ faults = 0 => PrepInv
  /\ MeasInv
  /\ RowsClean

\* The files of a test are those of its commands.
LEMMA TestCovered ==
  ASSUME NEW n \in 1 .. NumTests, NEW mode \in Modes, NEW engine \in Engines,
         mode = "measure" => engine = Engine,
         mode = "create" => engine = "LIBPMEM2"
  PROVE  /\ TestFiles(n) \subseteq ScriptFiles
         /\ \A f \in TestFiles(n) : \E i \in DOMAIN Commands(mode, engine, n) :
              f \in FilesOf(Commands(mode, engine, n)[i])
         /\ \A i \in DOMAIN Commands(mode, engine, n) :
              FilesOf(Commands(mode, engine, n)[i]) \subseteq TestFiles(n)
<1> DEFINE cmds == Commands(mode, engine, n)
           t == ThreadsOf(n)
<1>1. /\ DOMAIN cmds = 1 .. t
      /\ \A i \in 1 .. t : /\ i - 1 \in Suffixes /\ NewCommand(cmds[i])
                           /\ FilesOf(cmds[i]) = Range(DirsOf(n, i - 1)) \X {i - 1}
  BY TestLines
<1>2. TestFiles(n) = UNION {Range(DirsOf(n, i - 1)) \X {i - 1} : i \in 1 .. t}
  BY DEF TestFiles
<1> HIDE DEF cmds, t
<1>3. TestFiles(n) = UNION {FilesOf(cmds[i]) : i \in 1 .. t}
  BY <1>1, <1>2
<1>4. \A i \in 1 .. t : FilesOf(cmds[i]) \subseteq ScriptFiles
  BY <1>1, FilesThere DEF NewCommand, ScriptFiles
<1> QED BY <1>1, <1>3, <1>4 DEF cmds

\* The files of the script are files.
LEMMA ScriptFilesThere == ScriptFiles \subseteq Files
BY MountsThere DEF ScriptFiles, Files

\* Commands that are measured at the same time have different files.
LEMMA MeasuredApart ==
  ASSUME TypeInv, initResult = "None", phase = "measure", NEW p \in live
  PROVE  /\ p.mode = "measure" /\ children = {}
         /\ \A q \in live \ {p} : FilesOf(p) \cap FilesOf(q) = {}
         /\ \A i \in DOMAIN todo : FilesOf(p) \cap FilesOf(todo[i]) = {}
<1>1. SuffixInv /\ OrderInv /\ StageInv
  BY DEF TypeInv, HarnessInv
<1>2. p.mode = "measure" /\ children = {}
  BY <1>1 DEF OrderInv
<1>3. ASSUME NEW q \in live \ {p} PROVE FilesOf(p) \cap FilesOf(q) = {}
  <2>1. p.suffix # q.suffix
    BY <1>1, <1>2, <1>3 DEF SuffixInv
  <2> QED BY <2>1, OtherFiles
<1>4. ASSUME NEW i \in DOMAIN todo PROVE FilesOf(p) \cap FilesOf(todo[i]) = {}
  <2>1. p.suffix < todo[i].suffix
    BY <1>1, <1>4 DEF SuffixInv
  <2>2. p.suffix \in Int /\ todo[i].suffix \in Int
    BY <1>1, <1>4 DEF StageInv, IsCommand
  <2>3. p.suffix # todo[i].suffix
    BY <2>1, <2>2
  <2> QED BY <2>3, OtherFiles
<1> QED BY <1>2, <1>3, <1>4

-----------------------------------------------------------------------------
(* The processes prepare files, and measure clean ones.                     *)

\* What is live between the beginning and the end of execute() belongs to the phase.
LEMMA LiveOfPhase ==
  ASSUME TypeInv, PrepInv
  PROVE  /\ stage \in {"prepare", "execute"} => \A p \in live : p.mode = phase
         /\ stage \in {"prepare", "execute"} => \A c \in children : c.mode = phase
         /\ stage = "finalize" => \A p \in live : p.mode = "rm"
         /\ ToPrepare # {} => stage \in {"prepare", "execute"}
<1>2. OrderInv /\ StageInv
  BY DEF TypeInv, HarnessInv, PrepInv
<1>3. ASSUME stage \in {"prepare", "execute"}, NEW p \in live PROVE p.mode = phase
  BY <1>2, <1>3 DEF OrderInv
<1>4. ASSUME stage \in {"prepare", "execute"}, NEW c \in children PROVE c.mode = phase
  <2>1. failing = {}
    BY <1>4 DEF PrepInv
  <2>2. \E p \in live : p.mode = c.mode
    BY <1>2, <1>4, <2>1 DEF OrderInv
  <2> QED BY <1>3, <1>4, <2>2
<1>5. ASSUME stage = "finalize", NEW p \in live PROVE p.mode = "rm"
  BY <1>2, <1>5 DEF OrderInv, StageInv
<1>6. ToPrepare # {} => phase \in {"initialize", "scramble", "create"}
  BY DEF ToPrepare
<1>7. ToPrepare # {} => stage \in {"prepare", "execute"}
  BY <1>2, <1>6 DEF StageInv
<1> QED BY <1>3, <1>4, <1>5, <1>7

\* What a step of a process leaves to be shown.
LEMMA PrepKept ==
  ASSUME PrepInv, UNCHANGED harnessVars, Prepares',
         stage \notin {"finished", "dead"} => failing' = failing,
         Whole /\ stage = "execute" /\ script \in Initializing => Whole'
  PROVE  PrepInv'
BY SameScript DEF PrepInv, harnessVars

\* Nothing but the processes changes.
LEMMA SameHarness ==
  ASSUME UNCHANGED harnessVars
  PROVE  /\ ToPrepare' = ToPrepare /\ Clean' = Clean
         /\ UNCHANGED <<script, stage, phase, todo, initResult, point, rows, opened>>
<1>1. UNCHANGED <<script, stage, phase, todo, initResult, point, rows, opened>>
  BY DEF harnessVars
<1>2. TestFiles(point)' = TestFiles(point)
  BY <1>1, SameScript DEF TestFiles
<1> QED BY <1>1, <1>2 DEF ToPrepare, Clean

\* What is in a sequence is its first element, or behind it.
LEMMA HeadAndRest ==
  ASSUME NEW S, NEW s \in Seq(S), s # <<>>
  PROVE  Range(s) = {Head(s)} \cup Range(Tail(s))
<1>1. /\ Len(s) \in Nat /\ DOMAIN s = 1 .. Len(s) /\ Len(s) # 0
      /\ Head(s) = s[1]
  BY EmptySeq
<1>2. /\ Len(Tail(s)) = Len(s) - 1 /\ Tail(s) \in Seq(S)
      /\ \A i \in 1 .. Len(Tail(s)) : Tail(s)[i] = s[i + 1]
  BY HeadTailProperties
<1>3. DOMAIN Tail(s) = 1 .. Len(s) - 1
  BY <1>2
<1>4. ASSUME NEW i \in DOMAIN s PROVE s[i] \in {Head(s)} \cup Range(Tail(s))
  <2>1. CASE i = 1
    BY <1>1, <2>1
  <2>2. CASE i # 1
    <3>1. i - 1 \in 1 .. Len(s) - 1 /\ (i - 1) + 1 = i
      BY <1>1, <2>2
    <3>2. Tail(s)[i - 1] = s[i] /\ i - 1 \in DOMAIN Tail(s)
      BY <1>2, <1>3, <3>1
    <3> QED BY <3>2 DEF Range
  <2> QED BY <2>1, <2>2
<1>5. ASSUME NEW i \in DOMAIN Tail(s) PROVE Tail(s)[i] \in Range(s)
  <2>1. i + 1 \in DOMAIN s /\ Tail(s)[i] = s[i + 1]
    BY <1>1, <1>2, <1>3
  <2> QED BY <2>1 DEF Range
<1>6. Head(s) \in Range(s)
  BY <1>1 DEF Range
<1> QED BY <1>4, <1>5, <1>6 DEF Range

\* A command forks.
LEMMA ForkPrepares ==
  ASSUME TypeInv, PrepInv, UNCHANGED harnessVars, NEW p \in live, ForkChild(p)
  PROVE  PrepInv'
<1> DEFINE r == [p EXCEPT !.left = Tail(@)]
           c == [mode |-> p.mode, suffix |-> p.suffix, dir |-> Head(p.left)]
<1>1. /\ p.left # <<>> /\ live' = (live \ {p}) \cup {r} /\ children' = children \cup {c}
      /\ UNCHANGED <<file, failing, faults>>
  BY DEF ForkChild
<1>2. CommandLine(p)
  BY DEF TypeInv, ProcessInv
<1>3. /\ p.mode \in Forking /\ r.mode = p.mode /\ r.suffix = p.suffix
      /\ r.dirs = p.dirs /\ r.left = Tail(p.left)
  BY <1>1, <1>2, CommandWithLess
<1>4. Range(p.left) = {Head(p.left)} \cup Range(Tail(p.left))
  <2>1. p.left \in Seq(Range(p.dirs))
    BY <1>2 DEF CommandLine
  <2> QED BY <1>1, <2>1, HeadAndRest
<1>5. c.dir = Head(p.left) /\ c.suffix = p.suffix
  OBVIOUS
<1> HIDE DEF r, c
<1>6. FilesOf(r) = FilesOf(p)
  BY <1>3 DEF FilesOf
<1>7. ASSUME NEW f, Pending(f) PROVE Pending(f)'
  <2>1. CASE \E i \in DOMAIN todo : f \in FilesOf(todo[i])
    BY <2>1, SameHarness DEF Pending
  <2>2. ASSUME NEW q \in live, f \in FilesOf(q), q.mode \in Forking => f[1] \in Range(q.left)
        PROVE  Pending(f)'
    <3>1. CASE q # p
      BY <1>1, <2>2, <3>1 DEF Pending
    <3>2. CASE q = p /\ f[1] \in Range(Tail(p.left))
      <4>1. r \in live' /\ f \in FilesOf(r) /\ f[1] \in Range(r.left)
        BY <1>1, <1>3, <1>6, <2>2, <3>2
      <4> QED BY <4>1 DEF Pending
    <3>3. CASE q = p /\ f[1] = Head(p.left)
      <4>1. f = <<f[1], f[2]>> /\ f[2] = p.suffix
        BY <2>2, <3>3 DEF FilesOf
      <4>2. f = <<c.dir, c.suffix>>
        BY <1>5, <3>3, <4>1
      <4> QED BY <1>1, <4>2 DEF Pending
    <3> QED BY <1>3, <1>4, <2>2, <3>1, <3>2, <3>3
  <2>3. CASE \E d \in children : f = <<d.dir, d.suffix>>
    BY <1>1, <2>3 DEF Pending
  <2> QED BY <1>7, <2>1, <2>2, <2>3 DEF Pending
<1>8. Prepares'
  BY <1>1, <1>7, SameHarness DEF PrepInv, Prepares
<1>9. Whole => Whole'
  BY <1>1 DEF Whole
<1> QED BY <1>1, <1>8, <1>9, PrepKept

\* A command that has forked for all its directories, or has none to fork for, leaves no
\* file to others.
LEMMA EndPrepares ==
  ASSUME TypeInv, PrepInv, UNCHANGED harnessVars, NEW p \in live, live' = live \ {p},
         children' = children, failing' = failing, file' \in [Files -> Contents],
         \A f \in Files : f \notin FilesOf(p) => file'[f] = file[f],
         \A f \in FilesOf(p) : \/ file'[f] = "prepared"
                               \/ file'[f] = "used" /\ p.mode = "measure"
                               \/ file'[f] = file[f] /\ p.mode \in Forking /\ p.left = <<>>
                               \/ file'[f] = file[f] /\ p.mode = "rm"
  PROVE  PrepInv'
<1>1. /\ stage \in {"prepare", "execute"} => \A q \in live : q.mode = phase
      /\ ToPrepare # {} => stage \in {"prepare", "execute"}
  BY LiveOfPhase
<1>2. ASSUME NEW f \in ToPrepare PROVE file'[f] = "prepared" \/ Pending(f)'
  <2>1. phase \in {"initialize", "scramble", "create"} /\ p.mode = phase
    BY <1>1, <1>2 DEF ToPrepare
  <2>2. f \in Files
    <3>1. CASE phase = "initialize"
      BY <1>2, <3>1, ScriptFilesThere DEF ToPrepare
    <3>2. CASE phase # "initialize"
      <4>1. point \in 1 .. NumTests
        BY <2>1, <3>2 DEF TypeInv, ScriptInv, Testing, ValidTests
      <4>2. "scramble" \in Modes /\ "PAGES" \in Engines
        BY DEF Modes, Engines
      <4>3. TestFiles(point) \subseteq ScriptFiles
        BY <4>1, <4>2, TestCovered
      <4> QED BY <1>2, <2>1, <3>2, <4>3, ScriptFilesThere DEF ToPrepare
    <3> QED BY <3>1, <3>2
  <2>3. CASE f \in FilesOf(p) /\ file'[f] = "prepared"
    BY <2>3
  <2>4. CASE f \notin FilesOf(p) \/ (p.mode \in Forking /\ p.left = <<>>)
    <3>1. ~(f \in FilesOf(p) /\ (p.mode \in Forking => f[1] \in Range(p.left)))
      BY <2>4 DEF Range
    <3>2. Pending(f) => Pending(f)'
      <4>1. UNCHANGED todo
        BY SameHarness
      <4> QED BY <3>1, <4>1 DEF Pending
    <3>3. file'[f] = file[f] \/ file'[f] = "prepared"
      BY <2>1, <2>2, <2>4
    <3> QED BY <1>2, <3>2, <3>3 DEF PrepInv, Prepares
  <2> QED BY <2>1, <2>3, <2>4
<1>3. Prepares'
  BY <1>2, SameHarness DEF Prepares
<1>4. Whole => Whole'
  BY ScriptFilesThere DEF Whole
<1> QED BY <1>3, <1>4, PrepKept

\* A measured command opens what it is to find.
LEMMA CleanOpens ==
  ASSUME script \in Scripts, NEW content \in Clean
  PROVE  Opens(Engine, content)
<1>1. script \in AllScripts
  BY HarnessAssumption
<1>2. CASE script \in OnPages
  <2>1. content = "prepared"
    BY <1>2 DEF Clean, OnPages
  <2> QED BY <2>1 DEF Opens
<1>3. CASE script = "logging_linux"
  BY <1>3 DEF Opens, Engine, OnPages
<1>4. CASE script = "logging_linux_prefault"
  BY <1>4 DEF Opens, Engine, OnPages
<1>5. CASE script = "logging_libpmem"
  <2>1. content = "prepared"
    BY <1>5 DEF Clean
  <2> QED BY <2>1 DEF Opens
<1> QED BY <1>1, <1>2, <1>3, <1>4, <1>5 DEF AllScripts, OnPages

\* A child ends.
LEMMA ChildPrepares ==
  ASSUME TypeInv, PrepInv, UNCHANGED harnessVars, NEW c \in children, ChildEnds(c)
  PROVE  PrepInv'
<1> DEFINE g == <<c.dir, c.suffix>>
           left == IF c.mode = "initialize" \/ file[g] \in {"prepared", "used"}
                   THEN "prepared" ELSE file[g]
<1>1. /\ children' = children \ {c} /\ file' = [file EXCEPT ![g] = left]
      /\ UNCHANGED <<live, failing, faults>>
  BY DEF ChildEnds
<1>2. c \in [mode : Forking, suffix : Suffixes, dir : AllMounts]
      /\ file \in [Files -> Contents]
  BY DEF TypeInv, ProcessInv
<1>3. g \in ScriptFiles /\ g \in Files
  BY <1>2, ScriptFilesThere DEF ScriptFiles
<1>4. /\ stage \in {"prepare", "execute"} => \A d \in children : d.mode = phase
      /\ ToPrepare # {} => stage \in {"prepare", "execute"}
  BY LiveOfPhase
<1>5. ASSUME ToPrepare # {} PROVE left = "prepared"
  <2>1. phase \in {"initialize", "scramble", "create"} /\ stage \in {"prepare", "execute"}
    BY <1>4, <1>5 DEF ToPrepare
  <2>2. c.mode = phase
    BY <1>4, <2>1
  <2>3. CASE phase = "initialize"
    BY <2>2, <2>3
  <2>4. CASE phase # "initialize"
    <3>1. phase = "scramble" /\ stage = "execute"
      BY <1>2, <2>1, <2>2, <2>4 DEF Forking, TypeInv, HarnessInv, StageInv
    <3>2. script \in Initializing
      BY <3>1 DEF TypeInv, ScriptInv, Initializing
    <3>3. file[g] \in {"prepared", "used"}
      BY <1>3, <3>1, <3>2 DEF PrepInv, Whole
    <3> QED BY <3>3
  <2> QED BY <2>3, <2>4
<1>6. left \in {"prepared", file[g]}
  OBVIOUS
<1>7. ASSUME NEW f, Pending(f), f # g PROVE Pending(f)'
  <2>1. UNCHANGED todo
    BY SameHarness
  <2>2. \A d \in children : f = <<d.dir, d.suffix>> => d # c
    BY <1>7
  <2> QED BY <1>1, <1>7, <2>1, <2>2 DEF Pending
<1> HIDE DEF g, left
<1>8. ASSUME NEW f \in ToPrepare PROVE file'[f] = "prepared" \/ Pending(f)'
  <2>1. CASE f = g
    BY <1>1, <1>2, <1>3, <1>5, <1>8, <2>1
  <2>2. CASE f # g
    <3>1. file'[f] = file[f]
      BY <1>1, <1>2, <2>2
    <3> QED BY <1>7, <1>8, <2>2, <3>1 DEF PrepInv, Prepares
  <2> QED BY <2>1, <2>2
<1>9. Prepares'
  BY <1>8, SameHarness DEF Prepares
<1>10. Whole => Whole'
  BY <1>1, <1>2, <1>6, ScriptFilesThere DEF Whole
<1> QED BY <1>1, <1>9, <1>10, PrepKept

\* As long as no call fails, every command opens its files.
LEMMA AllOpen ==
  ASSUME TypeInv, PrepInv, MeasInv, faults = 0, stage \notin {"finished", "dead"},
         NEW p \in live
  PROVE  ~CannotOpen(p)
<1> SUFFICES ASSUME CannotOpen(p) PROVE FALSE
  OBVIOUS
<1>1. PICK i \in DOMAIN p.dirs : ~Opens(p.engine, file[<<p.dirs[i], p.suffix>>])
  BY DEF CannotOpen
<1>2. p.mode \in {"create", "measure"} /\ CommandLine(p)
  BY DEF CannotOpen, TypeInv, ProcessInv
<1>3. p.mode = phase
  BY <1>2, LiveOfPhase DEF TypeInv, HarnessInv, StageInv
<1>4. CASE p.mode = "create"
  BY <1>1, <1>2, <1>4 DEF CommandLine, Opens
<1>5. CASE p.mode = "measure"
  <2>1. CleanFiles
    BY <1>3, <1>5 DEF MeasInv, Reliable
  <2>2. <<p.dirs[i], p.suffix>> \in FilesOf(p)
    BY DEF FilesOf, Range
  <2>3. file[<<p.dirs[i], p.suffix>>] \in Clean
    BY <2>1, <2>2 DEF CleanFiles
  <2>4. p.engine = Engine /\ script \in Scripts
    BY <1>2, <1>5 DEF CommandLine, TypeInv, ScriptInv
  <2> QED BY <1>1, <2>3, <2>4, CleanOpens
<1> QED BY <1>2, <1>4, <1>5

\* Every step of a process keeps what is prepared, or still to be.
LEMMA ProcessPrepares ==
  ASSUME TypeInv, PrepInv, MeasInv, faults = 0, ProcessStep
  PROVE  PrepInv'
<1>0. UNCHANGED harnessVars
  BY DEF ProcessStep
<1>1. file \in [Files -> Contents]
  BY DEF TypeInv, ProcessInv
<1>2. ASSUME NEW p \in live, Reap(p) \/ RmEnds(p) PROVE PrepInv'
  <2>1. /\ live' = live \ {p} /\ children' = children /\ failing' = failing /\ file' = file
        /\ (p.mode \in Forking /\ p.left = <<>>) \/ p.mode = "rm"
    BY <1>2 DEF Reap, RmEnds, Exit, Forking
  <2> QED BY <1>0, <1>1, <2>1, EndPrepares
<1>3. ASSUME NEW p \in live, WorkloadEnds(p) PROVE PrepInv'
  <2>1. /\ live' = live \ {p} /\ children' = children /\ failing' = failing
        /\ p.mode \in {"create", "measure"}
        /\ file' = [f \in Files |-> IF f \in FilesOf(p) THEN Outcome(p.mode) ELSE file[f]]
    BY <1>3 DEF WorkloadEnds, Exit
  <2>2. Outcome(p.mode) = "prepared" \/ (Outcome(p.mode) = "used" /\ p.mode = "measure")
    BY <2>1 DEF Outcome
  <2>3. FilesOf(p) \subseteq Files
    BY FilesThere DEF TypeInv, ProcessInv
  <2>4. file' \in [Files -> Contents]
    BY <1>1, <2>1, <2>2 DEF Contents
  <2>5. /\ \A f \in Files : f \notin FilesOf(p) => file'[f] = file[f]
        /\ \A f \in FilesOf(p) : file'[f] = Outcome(p.mode)
    BY <2>1, <2>3
  <2> HIDE <2>1
  <2> QED BY <1>0, <2>1, <2>2, <2>4, <2>5, EndPrepares
<1>4. ASSUME NEW p \in live, CannotOpen(p) PROVE PrepInv'
  <2>1. stage \in {"finished", "dead"}
    BY <1>4, AllOpen
  <2>2. ToPrepare = {}
    BY <2>1, LiveOfPhase
  <2>3. Prepares' /\ stage # "execute"
    BY <1>0, <2>1, <2>2, SameHarness DEF Prepares
  <2> QED BY <1>0, <2>1, <2>3, PrepKept
<1>5. ASSUME NEW p \in live, ForkChild(p) PROVE PrepInv'
  BY <1>0, <1>5, ForkPrepares
<1>6. ASSUME NEW c \in children, ChildEnds(c) PROVE PrepInv'
  BY <1>0, <1>6, ChildPrepares
<1> QED BY <1>2, <1>3, <1>4, <1>5, <1>6 DEF ProcessStep, CommandStep, ChildStep

\* No process changes a file that is still to be measured.
LEMMA ProcessKeepsClean ==
  ASSUME TypeInv, CleanFiles, initResult = "None", phase = "measure",
         ProcessStep \/ (ProcessFault /\ UNCHANGED harnessVars)
  PROVE  CleanFiles'
<1>0. /\ UNCHANGED <<script, todo, opened>> /\ Clean' = Clean
  BY SameHarness DEF ProcessStep
<1>2. children = {}
  BY DEF TypeInv, HarnessInv, OrderInv
<1>3. \A p \in live : p.mode = "measure" /\ p.left = <<>> /\ CommandLine(p)
  BY MeasuredApart DEF TypeInv, ProcessInv, CommandLine, IsCommand, Forking
<1>4. ASSUME NEW p \in live, WorkloadEnds(p) \/ CannotOpen(p) \/ WorkloadFails(p)
      PROVE  CleanFiles'
  <2>1. live' = live \ {p}
    BY <1>4 DEF WorkloadEnds, CannotOpen, WorkloadFails, Exit
  <2>2. FilesOf(p) \subseteq Files /\ file \in [Files -> Contents]
    BY <1>3, FilesThere DEF TypeInv, ProcessInv
  <2>3. \A f \in Files : f \notin FilesOf(p) => file'[f] = file[f]
    <3>1. CASE WorkloadEnds(p)
      BY <3>1 DEF WorkloadEnds
    <3>2. CASE WorkloadFails(p)
      BY <3>2 DEF WorkloadFails
    <3>3. CASE CannotOpen(p)
      <4>1. PICK i \in DOMAIN p.dirs :
              \E left : file' = [file EXCEPT ![<<p.dirs[i], p.suffix>>] = left]
        BY <3>3, Zenon DEF CannotOpen
      <4>2. <<p.dirs[i], p.suffix>> \in FilesOf(p)
        BY DEF FilesOf, Range
      <4> QED BY <2>2, <4>1, <4>2
    <3> QED BY <1>4, <3>1, <3>2, <3>3
  <2>4. /\ \A q \in live \ {p} : FilesOf(p) \cap FilesOf(q) = {} /\ FilesOf(q) \subseteq Files
        /\ \A i \in DOMAIN todo :
             FilesOf(p) \cap FilesOf(todo[i]) = {} /\ FilesOf(todo[i]) \subseteq Files
    BY <1>3, MeasuredApart, FilesThere DEF TypeInv, ScriptInv, NewCommand
  <2>5. \A q \in live' : \A f \in FilesOf(q) : file'[f] \in Clean
    BY <2>1, <2>3, <2>4 DEF CleanFiles
  <2>6. \A i \in DOMAIN todo : \A f \in FilesOf(todo[i]) : file'[f] \in Clean
    BY <2>3, <2>4 DEF CleanFiles
  <2> QED BY <1>0, <2>5, <2>6 DEF CleanFiles
<1>5. ASSUME NEW p \in live
      PROVE  ~(ForkChild(p) \/ Reap(p) \/ RmEnds(p) \/ ForkFails(p))
  BY <1>3 DEF ForkChild, Reap, RmEnds, ForkFails
<1> QED BY <1>2, <1>4, <1>5
        DEF ProcessStep, CommandStep, ChildStep, ProcessFault

-----------------------------------------------------------------------------
(* The script goes on when files are prepared.                              *)

\* What is clean, and the files of a test, depend on the script alone.
LEMMA SameClean ==
  ASSUME script' = script
  PROVE  /\ Clean' = Clean /\ (RowsClean /\ rows' = rows => RowsClean')
         /\ \A n : TestFiles(n)' = TestFiles(n)
<1>1. Clean' = Clean
  BY DEF Clean
<1>2. RowsClean /\ rows' = rows => RowsClean'
  BY <1>1 DEF RowsClean
<1>3. \A n : TestFiles(n)' = TestFiles(n)
  BY SameScript DEF TestFiles
<1> QED BY <1>1, <1>2, <1>3

\* A script between two phases, or at an end, has nothing to prepare or to measure.
LEMMA IdleFiles ==
  ASSUME FilesInv, RowsClean', UNCHANGED script,
         phase' \notin {"initialize", "scramble", "create", "measure"},
         faults' = 0 => /\ faults = 0 /\ initResult' = "None"
                        /\ stage' = "dead" => IsValidCombRaises
                        /\ stage' \notin {"finished", "dead"} => failing' = {}
                        /\ stage' = "execute" /\ script \in Initializing => Whole'
  PROVE  FilesInv'
<1>1. ToPrepare' = {}
  BY DEF ToPrepare
<1>2. Prepares'
  BY <1>1 DEF Prepares
<1>3. IsValidCombRaises' <=> IsValidCombRaises
  BY SameScript
<1>4. faults' = 0 => PrepInv'
  BY <1>2, <1>3 DEF PrepInv
<1>5. MeasInv'
  BY DEF MeasInv
<1> QED BY <1>4, <1>5 DEF FilesInv

\* What cleanup_buffers() leaves, unless it fails.
LEMMA CleanupFaults ==
  ASSUME TypeInv, NEW then, CleanupBuffers(then), faults' = 0
  PROVE  faults = 0 /\ stage' = then
<1>1. \/ stage' = then /\ faults' = faults
      \/ stage' = "dead" /\ faults' = faults + 1
  BY CleanedUp DEF TypeInv
<1>2. faults \in Nat
  BY ProcessAssumption DEF TypeInv, ProcessInv
<1> QED BY <1>1, <1>2

\* The initialization is to prepare all files.
LEMMA PrepareFiles ==
  ASSUME TypeInv, FilesInv, Prepare
  PROVE  FilesInv'
<1>1. /\ stage = "prepare" /\ phase = "idle" /\ UNCHANGED <<script, initResult, rows, opened>>
  BY DEF Prepare
<1>2. RowsClean'
  BY <1>1, SameClean DEF FilesInv
<1>3. CASE script \in Initializing
  <2>1. /\ phase' = "initialize" /\ todo' = InitializeCmds /\ failing' = failing \ {"initialize"}
        /\ UNCHANGED <<file, stage, faults>>
    BY <1>3 DEF Prepare, StartPhase
  <2>2. ToPrepare' = ScriptFiles
    BY <2>1 DEF ToPrepare
  <2>3. ASSUME NEW f \in ScriptFiles PROVE Pending(f)'
    <3>1. f[1] \in AllMounts /\ f[2] \in Suffixes /\ f = <<f[1], f[2]>>
      BY DEF ScriptFiles
    <3> DEFINE i == f[2] + 1
    <3>2. i \in 1 .. MaxThreads /\ i - 1 = f[2]
      BY <3>1, ProcessAssumption DEF Suffixes
    <3> HIDE DEF i
    <3>3. FilesOf(InitializeCmds[i]) = AllMounts \X {f[2]} /\ i \in DOMAIN InitializeCmds
      BY <3>2, InitializeLines DEF TypeInv, ScriptInv
    <3>4. f \in FilesOf(InitializeCmds[i])
      BY <3>1, <3>3
    <3> QED BY <2>1, <3>3, <3>4 DEF Pending
  <2>4. Prepares'
    BY <2>2, <2>3 DEF Prepares
  <2>5. faults' = 0 => PrepInv'
    BY <1>1, <2>1, <2>4 DEF FilesInv, PrepInv
  <2>6. MeasInv'
    BY <2>1 DEF MeasInv
  <2> QED BY <1>2, <2>5, <2>6 DEF FilesInv
<1>4. CASE script \notin Initializing
  <2>1. CleanupBuffers("execute") /\ UNCHANGED <<phase, failing>>
    BY <1>4 DEF Prepare
  <2>2. faults' = 0 => faults = 0 /\ stage' = "execute"
    BY <2>1, CleanupFaults
  <2> QED BY <1>1, <1>2, <1>4, <2>1, <2>2, IdleFiles DEF FilesInv, PrepInv
<1> QED BY <1>3, <1>4

\* A started command is still to work on its files, and has been looked at what it finds.
LEMMA PopenFiles ==
  ASSUME TypeInv, FilesInv, Popen
  PROVE  FilesInv'
<1> DEFINE p == Head(todo)
<1>1. /\ todo # <<>> /\ live' = live \cup {p} /\ todo' = Tail(todo)
      /\ opened' = (IF phase = "measure"
                    THEN opened \cup {file[f] : f \in FilesOf(p)} ELSE opened)
      /\ UNCHANGED <<file, children, failing, faults, script, stage, phase,
                     initResult, point, rows>>
  BY DEF Popen
<1>2. /\ 1 \in DOMAIN todo /\ p = todo[1]
      /\ \A i \in DOMAIN Tail(todo) : i + 1 \in DOMAIN todo /\ Tail(todo)[i] = todo[i + 1]
      /\ \A i \in DOMAIN todo : i = 1 \/ (i - 1 \in DOMAIN Tail(todo) /\ Tail(todo)[i - 1] = todo[i])
  BY <1>1, NextCommand DEF TypeInv
<1>3. NewCommand(p) /\ p.mode = phase
  BY <1>2 DEF TypeInv, ScriptInv, HarnessInv, StageInv
<1> HIDE DEF p
<1>4. Clean' = Clean /\ RowsClean' /\ TestFiles(point)' = TestFiles(point)
      /\ (IsValidCombRaises' <=> IsValidCombRaises)
  BY <1>1, SameClean, SameScript DEF FilesInv
<1>5. ASSUME NEW f, Pending(f) PROVE Pending(f)'
  <2>1. ASSUME NEW i \in DOMAIN todo, f \in FilesOf(todo[i]) PROVE Pending(f)'
    <3>1. CASE i = 1
      <4>1. f \in FilesOf(p)
        BY <1>2, <2>1, <3>1
      <4>2. p.mode \in Forking => f[1] \in Range(p.left)
        BY <1>3, <4>1 DEF NewCommand, FilesOf
      <4> QED BY <1>1, <4>1, <4>2 DEF Pending
    <3>2. CASE i # 1
      BY <1>1, <1>2, <2>1, <3>2 DEF Pending
    <3> QED BY <3>1, <3>2
  <2> QED BY <1>1, <1>5, <2>1 DEF Pending
<1>6. ToPrepare' = ToPrepare
  BY <1>1, <1>4 DEF ToPrepare
<1>7. PrepInv => PrepInv'
  BY <1>1, <1>4, <1>5, <1>6 DEF PrepInv, Prepares, Whole
<1>8. phase = "measure" => opened' # {}
  <2>1. phase = "measure" => FilesOf(p) # {}
    BY <1>3, MeasuredFile DEF NewCommand
  <2> QED BY <1>1, <2>1
<1>9. CleanFiles /\ phase = "measure" => CleanFiles'
  <2> SUFFICES ASSUME CleanFiles, phase = "measure" PROVE CleanFiles'
    OBVIOUS
  <2>1. \A f \in FilesOf(p) : file[f] \in Clean
    BY <1>2 DEF CleanFiles
  <2>2. opened' \subseteq Clean
    BY <1>1, <2>1 DEF CleanFiles
  <2>3. \A i \in DOMAIN todo' : \A f \in FilesOf(todo'[i]) : file[f] \in Clean
    BY <1>1, <1>2 DEF CleanFiles
  <2>4. \A q \in live' : \A f \in FilesOf(q) : file[f] \in Clean
    BY <1>1, <2>1 DEF CleanFiles
  <2> QED BY <1>1, <1>4, <2>2, <2>3, <2>4 DEF CleanFiles
<1>10. MeasInv'
  BY <1>1, <1>8, <1>9 DEF FilesInv, MeasInv, Reliable
<1> QED BY <1>1, <1>4, <1>7, <1>10 DEF FilesInv

\* The commands of a test are started when nothing runs.
LEMMA MeasureStarts ==
  ASSUME TypeInv, MeasInv, UNCHANGED <<script, file, faults>>, live' = {}, opened' = {},
         NEW n \in 1 .. NumTests, phase' = "measure", todo' = MeasuredCmds(n),
         Reliable => \A f \in TestFiles(n) : file[f] \in Clean
  PROVE  MeasInv'
<1>1. "measure" \in Modes /\ Engine \in Engines
  BY EngineThere DEF Modes, TypeInv, ScriptInv
<1>2. todo' = Commands("measure", Engine, n)
  BY DEF MeasuredCmds
<1>3. todo' # <<>> /\ \A i \in DOMAIN todo' : FilesOf(todo'[i]) \subseteq TestFiles(n)
  BY <1>1, <1>2, TestCovered, TestLines
<1>4. Reliable' <=> Reliable
  BY DEF Reliable
<1>5. Reliable => CleanFiles'
  BY <1>3, SameClean DEF CleanFiles
<1> QED BY <1>3, <1>4, <1>5 DEF MeasInv

\* The preparation has ended: all files of the test are prepared.
LEMMA PreparationFiles ==
  ASSUME TypeInv, FilesInv, PreparationEnds
  PROVE  FilesInv'
<1>1. /\ phase \in {"scramble", "create"} /\ AllEnded
      /\ phase' = "measure" /\ todo' = MeasuredCmds(point) /\ failing' = failing \ {"measure"}
      /\ UNCHANGED <<file, live, children, faults, script, stage, initResult, point, rows, opened>>
  BY DEF PreparationEnds, StartPhase
<1>2. stage = "execute" /\ phase # "idle"
  BY <1>1 DEF TypeInv, HarnessInv, StageInv
<1>3. /\ point \in 1 .. NumTests
      /\ script \in OnPages \cup {"logging_libpmem"}
  BY <1>1 DEF TypeInv, ScriptInv, Testing, ValidTests
<1>4. Clean = {"prepared"}
  BY <1>3 DEF Clean, OnPages
<1>5. RowsClean' /\ opened' = {}
  BY <1>1, SameClean DEF FilesInv, MeasInv
<1>6. Reliable => faults = 0
  BY <1>3 DEF Reliable, OnPages
<1>7. ASSUME faults = 0
      PROVE  live = {} /\ \A f \in TestFiles(point) : file[f] = "prepared"
  <2>1. PrepInv
    BY <1>7 DEF FilesInv
  <2>2. live = {} /\ children = {}
    BY <1>1, <1>2, <2>1, NothingRuns DEF TypeInv, PrepInv
  <2>3. todo = <<>> /\ DOMAIN todo = {}
    BY <1>1 DEF AllEnded
  <2>4. \A f : ~Pending(f)
    BY <2>2, <2>3 DEF Pending
  <2>5. ToPrepare = TestFiles(point)
    BY <1>1 DEF ToPrepare
  <2> QED BY <2>1, <2>2, <2>4, <2>5 DEF PrepInv, Prepares
<1>8. MeasInv'
  <2>1. CASE faults = 0
    <3>1. live' = {} /\ \A f \in TestFiles(point) : file[f] \in Clean
      BY <1>1, <1>4, <1>7, <2>1
    <3>2. MeasInv
      BY DEF FilesInv
    <3> QED BY <1>1, <1>3, <1>5, <3>1, <3>2, MeasureStarts
  <2>2. CASE faults # 0
    <3>1. ~Reliable'
      BY <1>1, <1>6, <2>2 DEF Reliable
    <3>2. todo' # <<>>
      <4>1. "measure" \in Modes /\ Engine \in Engines
        BY EngineThere DEF Modes, TypeInv, ScriptInv
      <4> QED BY <1>1, <1>3, <4>1, TestLines DEF MeasuredCmds
    <3> QED BY <1>1, <3>1, <3>2 DEF MeasInv
  <2> QED BY <2>1, <2>2
<1>9. faults' = 0 => PrepInv'
  <2>1. ToPrepare' = {}
    BY <1>1 DEF ToPrepare
  <2>2. Prepares'
    BY <2>1 DEF Prepares
  <2>3. PrepInv => PrepInv'
    BY <1>1, <2>2, SameScript DEF PrepInv, Whole
  <2> QED BY <1>1, <2>3 DEF FilesInv
<1> QED BY <1>5, <1>8, <1>9 DEF FilesInv

\* A test is started on files that are to be prepared, or that are as they should be.
LEMMA NextTestFiles ==
  ASSUME TypeInv, CleanInv, FilesInv, NextTest
  PROVE  FilesInv'
<1>1. /\ stage = "execute" /\ phase = "idle" /\ ~IsValidCombRaises /\ opened' = {}
      /\ UNCHANGED <<file, live, children, faults, script, stage, initResult, rows>>
  BY DEF NextTest
<1>2. script \in Scripts /\ script \in AllScripts
  BY HarnessAssumption DEF TypeInv, ScriptInv
<1>3. PICK n \in ToRun, mode \in Modes, engine \in Engines :
        /\ StartsWith(mode, engine)
        /\ point' = n /\ phase' = mode /\ todo' = Commands(mode, engine, n)
        /\ failing' = failing \ {mode}
  BY <1>2, NextTestIs
<1>4. n \in 1 .. NumTests
  BY DEF ToRun, ValidTests
<1>5. /\ mode \in Testing
      /\ mode = "measure" => engine = Engine
      /\ mode = "create" => engine = "LIBPMEM2"
      /\ mode = "measure" => script \in {"logging_linux", "logging_linux_prefault"}
  BY <1>2, <1>3 DEF StartsWith, Testing, AllScripts, OnPages
<1>6. /\ TestFiles(n) \subseteq ScriptFiles /\ ScriptFiles \subseteq Files
      /\ \A f \in TestFiles(n) : \E i \in DOMAIN todo' : f \in FilesOf(todo'[i])
  BY <1>3, <1>4, <1>5, TestCovered, ScriptFilesThere
<1>7. RowsClean'
  BY <1>1, SameClean DEF FilesInv
<1>8. faults = 0 => initResult = "None"
  BY DEF FilesInv, PrepInv
<1>9. faults' = 0 => PrepInv'
  <2>1. ToPrepare' \subseteq TestFiles(n)
    <3>1. ToPrepare' \in {{}, TestFiles(point)'}
      BY <1>3, <1>5 DEF ToPrepare, Testing
    <3>2. TestFiles(point)' = TestFiles(n)
      BY <1>1, <1>3, SameScript DEF TestFiles
    <3> QED BY <3>1, <3>2
  <2>2. Prepares'
    BY <1>6, <2>1 DEF Prepares, Pending
  <2>3. PrepInv => PrepInv'
    BY <1>1, <1>3, <2>2 DEF PrepInv, Whole
  <2> QED BY <1>1, <2>3 DEF FilesInv
<1>10. MeasInv'
  <2>1. CASE mode # "measure"
    BY <1>1, <1>3, <2>1 DEF MeasInv
  <2>2. CASE mode = "measure"
    <3>1. todo' = MeasuredCmds(n) /\ phase' = "measure"
      BY <1>3, <1>5, <2>2 DEF MeasuredCmds
    <3>2. CASE Reliable
      <4>1. live' = {}
        <5>1. initResult = "None"
          BY <1>8, <3>2, LogsRemember DEF Reliable, OnPages
        <5> QED BY <1>1, <5>1, IdleAlone
      <4>2. \A f \in TestFiles(n) : file[f] \in Clean
        <5>1. CASE script = "logging_linux"
          <6>1. NoFiles
            BY <1>1, <5>1 DEF CleanInv, CleansUp
          <6> QED BY <1>6, <5>1, <6>1 DEF NoFiles, Clean
        <5>2. CASE script = "logging_linux_prefault"
          <6>1. faults = 0
            BY <3>2, <5>2 DEF Reliable
          <6>2. Whole
            BY <1>1, <5>2, <6>1 DEF FilesInv, PrepInv, Initializing
          <6> QED BY <1>6, <5>2, <6>2 DEF Whole, Clean
        <5> QED BY <1>5, <2>2, <5>1, <5>2
      <4>3. MeasInv
        BY DEF FilesInv
      <4> QED BY <1>1, <1>4, <3>1, <4>1, <4>2, <4>3, MeasureStarts
    <3>3. CASE ~Reliable
      <4>1. ~Reliable'
        BY <1>1, <3>3 DEF Reliable
      <4>2. todo' # <<>>
        BY <1>3, <1>4, <1>5, TestLines
      <4> QED BY <3>1, <4>1, <4>2 DEF MeasInv
    <3> QED BY <3>2, <3>3
  <2> QED BY <2>1, <2>2
<1> QED BY <1>7, <1>9, <1>10 DEF FilesInv

\* A row is recorded with what its commands found.
LEMMA RecordFiles ==
  ASSUME TypeInv, FilesInv, phase = "measure", todo = <<>>, UNCHANGED script, Record
  PROVE  RowsClean'
<1> DEFINE r == [test |-> point, mounts |-> CombOf(point), threads |-> ThreadsOf(point),
                 failed |-> "measure" \in failing, opened |-> opened, faults |-> faults]
<1>1. rows' = Append(rows, r)
  BY RecordDone
<1>2. r.opened = opened /\ r.faults = faults
  OBVIOUS
<1> HIDE DEF r
<1>3. rows \in Seq(Row)
  BY DEF TypeInv, ScriptInv
<1>4. /\ DOMAIN rows' = 1 .. Len(rows) + 1 /\ Len(rows) \in Nat /\ DOMAIN rows = 1 .. Len(rows)
      /\ \A i \in 1 .. Len(rows) : rows'[i] = rows[i]
      /\ rows'[Len(rows) + 1] = r
  BY <1>1, <1>3
<1>5. Reliable => opened \subseteq Clean /\ opened # {}
  BY DEF FilesInv, MeasInv, CleanFiles
<1>6. ASSUME NEW i \in DOMAIN rows', rows'[i].faults = 0 \/ script = "logging_linux"
      PROVE  rows'[i].opened \subseteq Clean /\ rows'[i].opened # {}
  <2>1. CASE i \in DOMAIN rows
    BY <1>4, <1>6, <2>1 DEF FilesInv, RowsClean
  <2>2. CASE i = Len(rows) + 1
    BY <1>2, <1>4, <1>5, <1>6, <2>2 DEF Reliable
  <2> QED BY <1>4, <2>1, <2>2
<1> QED BY <1>6, SameClean DEF RowsClean

\* A test has ended: the initialization leaves whole files, and a row is clean.
LEMMA CommandsEndFiles ==
  ASSUME TypeInv, FilesInv, CommandsEnd
  PROVE  FilesInv'
<1>1. /\ AllEnded /\ phase' = "idle"
      /\ UNCHANGED <<live, children, failing, script, todo, opened>>
      /\ \/ stage = "execute" /\ phase = "measure" /\ Record
         \/ /\ UNCHANGED <<file, faults, point, rows>>
            /\ \/ /\ stage = "prepare" /\ stage' = "execute" /\ phase = "initialize"
                  /\ \/ initResult' = "None" /\ "initialize" \notin failing
                     \/ initResult' = "failed" /\ "initialize" \in failing /\ script \in OnPages
               \/ stage = "finalize" /\ stage' = "finished" /\ UNCHANGED initResult
               \/ stage' = "dead" /\ phase \in failing /\ UNCHANGED initResult
  BY TestOver DEF TypeInv
<1>2. StageInv /\ phase # "idle" /\ todo = <<>>
  BY <1>1 DEF TypeInv, HarnessInv, StageInv, CommandsEnd, AllEnded
<1>3. phase \in failing => stage \notin {"finished", "dead"}
  BY <1>2 DEF StageInv
<1>4. CASE stage = "execute" /\ phase = "measure" /\ Record
  <2>1. /\ UNCHANGED initResult
        /\ \/ CleansUp /\ CleanupBuffers(stage)
           \/ ~CleansUp /\ UNCHANGED <<file, faults, stage>>
    BY <1>4, RecordDone
  <2>2. RowsClean'
    BY <1>1, <1>2, <1>4, RecordFiles
  <2>3. faults' = 0 => faults = 0 /\ stage' = "execute"
    BY <1>4, <2>1, CleanupFaults
  <2>4. CleansUp => script \notin Initializing
    BY DEF CleansUp, Initializing, OnPages
  <2>5. faults' = 0 /\ script \in Initializing => file' = file
    BY <2>1, <2>4
  <2>6. faults' = 0 /\ script \in Initializing => Whole'
    BY <1>4, <2>3, <2>5 DEF FilesInv, PrepInv, Whole
  <2> QED BY <1>1, <1>4, <2>1, <2>2, <2>3, <2>6, IdleFiles DEF FilesInv, PrepInv
<1>5. CASE ~(stage = "execute" /\ phase = "measure" /\ Record)
  <2>1. UNCHANGED <<file, faults, point, rows>>
    BY <1>1, <1>5
  <2>2. RowsClean'
    BY <1>1, <2>1, SameClean DEF FilesInv
  <2>3. ASSUME faults' = 0
        PROVE  /\ faults = 0 /\ initResult' = "None"
               /\ stage' = "dead" => IsValidCombRaises
               /\ stage' \notin {"finished", "dead"} => failing' = {}
               /\ stage' = "execute" /\ script \in Initializing => Whole'
    <3>1. faults = 0 /\ PrepInv
      BY <2>1, <2>3 DEF FilesInv
    <3>2. phase \notin failing
      BY <1>3, <3>1 DEF PrepInv
    <3>3. \/ stage = "prepare" /\ stage' = "execute" /\ phase = "initialize" /\ initResult' = "None"
          \/ stage = "finalize" /\ stage' = "finished" /\ UNCHANGED initResult
      BY <1>1, <1>5, <3>2
    <3>4. stage' = "execute" => Whole'
      <4> SUFFICES ASSUME stage' = "execute" PROVE Whole'
        OBVIOUS
      <4>1. stage = "prepare" /\ phase = "initialize" /\ failing = {}
        BY <3>1, <3>3 DEF PrepInv
      <4>2. live = {} /\ children = {}
        BY <1>1, <1>2, <3>1, <4>1, NothingRuns DEF TypeInv, PrepInv
      <4>3. \A f : ~Pending(f)
        BY <1>2, <4>2 DEF Pending
      <4>4. \A f \in ScriptFiles : file[f] = "prepared"
        BY <3>1, <4>1, <4>3 DEF PrepInv, Prepares, ToPrepare
      <4> QED BY <2>1, <4>4 DEF Whole
    <3>5. stage' \notin {"finished", "dead"} => failing' = {}
      BY <1>1, <3>1, <3>3 DEF PrepInv
    <3> QED BY <3>1, <3>3, <3>4, <3>5 DEF PrepInv
  <2> QED BY <1>1, <2>2, <2>3, IdleFiles
<1> QED BY <1>4, <1>5

\* The script ends, dies of its own combinations, or of a command it cannot start.
LEMMA EndFiles ==
  ASSUME TypeInv, FilesInv, Finalize \/ CombinationRaises \/ PopenFails
  PROVE  FilesInv'
<1>1. UNCHANGED <<script, rows>> /\ phase' \in {"idle", "rm"}
  <2>1. CASE Finalize
    BY <2>1 DEF Finalize, StartPhase
  <2>2. CASE CombinationRaises
    BY <2>2 DEF CombinationRaises
  <2>3. CASE PopenFails
    BY <2>3 DEF PopenFails
  <2> QED BY <2>1, <2>2, <2>3
<1>2. RowsClean'
  BY <1>1, SameClean DEF FilesInv
<1>3. faults \in Nat
  BY ProcessAssumption DEF TypeInv, ProcessInv
<1>4. ASSUME faults' = 0
      PROVE  /\ faults = 0 /\ initResult' = "None"
             /\ stage' = "dead" => IsValidCombRaises
             /\ stage' \notin {"finished", "dead"} => failing' = {}
             /\ stage' = "execute" /\ script \in Initializing => Whole'
  <2>1. CASE Finalize
    <3>1. stage = "execute" /\ UNCHANGED initResult
      BY <2>1 DEF Finalize
    <3>2. CASE script \in OnPages
      <4>1. stage' = "finalize" /\ failing' = failing \ {"rm"} /\ faults' = faults
        BY <2>1, <3>2 DEF Finalize, StartPhase
      <4> QED BY <1>4, <3>1, <4>1 DEF FilesInv, PrepInv
    <3>3. CASE script \notin OnPages
      <4>1. CleanupBuffers("finished")
        BY <2>1, <3>3 DEF Finalize
      <4>2. faults = 0 /\ stage' = "finished"
        BY <1>4, <4>1, CleanupFaults
      <4> QED BY <3>1, <4>2 DEF FilesInv, PrepInv
    <3> QED BY <3>2, <3>3
  <2>2. CASE CombinationRaises
    <3>1. stage' = "dead" /\ IsValidCombRaises /\ UNCHANGED <<initResult, faults>>
      BY <2>2 DEF CombinationRaises, processVars
    <3> QED BY <1>4, <3>1 DEF FilesInv, PrepInv
  <2>3. CASE PopenFails
    BY <1>3, <1>4, <2>3 DEF PopenFails
  <2> QED BY <2>1, <2>2, <2>3
<1> QED BY <1>1, <1>2, <1>4, IdleFiles

-----------------------------------------------------------------------------
(* What the rows were measured on.                                          *)

\* The processes keep the files, and so do those that fail.
LEMMA ProcessFiles ==
  ASSUME TypeInv, FilesInv, ProcessStep \/ (ProcessFault /\ UNCHANGED harnessVars)
  PROVE  FilesInv'
<1>1. UNCHANGED <<script, stage, phase, todo, initResult, point, rows, opened>>
  BY DEF ProcessStep, harnessVars
<1>2. RowsClean'
  BY <1>1, SameClean DEF FilesInv
<1>3. /\ ProcessStep => faults' = faults
      /\ ~ProcessStep => faults' # 0
  <2>1. faults \in Nat
    BY ProcessAssumption DEF TypeInv, ProcessInv
  <2>2. ProcessStep => faults' = faults
    BY DEF ProcessStep, CommandStep, ChildStep, ForkChild, Reap, WorkloadEnds, CannotOpen,
           RmEnds, ChildEnds
  <2>3. ProcessFault => faults' = faults + 1
    BY DEF ProcessFault, ForkFails, WorkloadFails, ChildFails, Fault
  <2> QED BY <2>1, <2>2, <2>3
<1>4. faults' = 0 => PrepInv'
  BY <1>3, ProcessPrepares DEF FilesInv
<1>5. Reliable' => Reliable
  BY <1>1, <1>3 DEF Reliable
<1>6. Reliable => initResult = "None"
  BY LogsRemember DEF Reliable, FilesInv, PrepInv, OnPages
<1>7. Reliable' /\ phase = "measure" => CleanFiles'
  BY <1>5, <1>6, ProcessKeepsClean DEF FilesInv, MeasInv
<1>8. MeasInv'
  BY <1>1, <1>7 DEF FilesInv, MeasInv
<1> QED BY <1>2, <1>4, <1>8 DEF FilesInv

\* Every step keeps them.
LEMMA StepFiles ==
  ASSUME TypeInv, CleanInv, FilesInv, [Next]_vars
  PROVE  FilesInv'
<1>1. CASE UNCHANGED vars
  <2>1. /\ UNCHANGED harnessVars
        /\ UNCHANGED <<file, live, children, failing, faults, script, stage, phase, todo,
                       initResult, point, rows, opened>>
    BY <1>1 DEF vars, processVars, harnessVars
  <2>2. RowsClean' /\ Clean' = Clean /\ ToPrepare' = ToPrepare
        /\ (IsValidCombRaises' <=> IsValidCombRaises)
    BY <2>1, SameClean, SameHarness, SameScript DEF FilesInv
  <2>3. Prepares => Prepares'
    BY <2>1, <2>2 DEF Prepares, Pending
  <2>4. PrepInv => PrepInv'
    BY <2>1, <2>2, <2>3 DEF PrepInv, Whole
  <2>5. MeasInv => MeasInv'
    BY <2>1, <2>2 DEF MeasInv, CleanFiles, Reliable
  <2> QED BY <2>1, <2>2, <2>4, <2>5 DEF FilesInv
<1>2. CASE ProcessStep \/ (ProcessFault /\ UNCHANGED harnessVars)
  BY <1>2, ProcessFiles
<1> QED BY <1>1, <1>2, PrepareFiles, PopenFiles, PreparationFiles, CommandsEndFiles,
           NextTestFiles, EndFiles
        DEF Next, HarnessStep, Failure

\* They are as they should be throughout.
LEMMA FilesHold == Spec => []FilesInv
<1>1. Init => FilesInv
  <2> SUFFICES ASSUME Init PROVE FilesInv
    OBVIOUS
  <2>1. /\ phase = "idle" /\ stage = "prepare" /\ initResult = "None" /\ failing = {}
        /\ rows = <<>>
    BY DEF Init, ProcessInit, HarnessInit
  <2>2. ToPrepare = {} /\ DOMAIN rows = {}
    BY <2>1 DEF ToPrepare
  <2> QED BY <2>1, <2>2 DEF FilesInv, PrepInv, Prepares, MeasInv, RowsClean
<1>2. TypeInv /\ CleanInv /\ FilesInv /\ [Next]_vars => FilesInv'
  BY StepFiles
<1> QED BY <1>1, <1>2, TypesHold, CleansHold, PTL DEF Spec

\* A row of LINUX was always measured on missing files, whatever failed before it; as long
\* as nothing fails, scrambled pages and new pools were found as the preparation of the
\* test has left them, and prefaulted logs as a whole file.
THEOREM RowsFoundPrepared == Spec => []RowsOnPreparedFiles
<1>1. RowsClean => RowsOnPreparedFiles
  <2> SUFFICES ASSUME RowsClean, NEW i \in DOMAIN rows
               PROVE  CASE script = "logging_linux" -> rows[i].opened = {"none"}
                        [] script = "logging_linux_prefault" ->
                             rows[i].faults = 0 => rows[i].opened \subseteq {"prepared", "used"}
                        [] OTHER -> rows[i].faults = 0 => rows[i].opened = {"prepared"}
    BY DEF RowsOnPreparedFiles
  <2>1. rows[i].faults = 0 \/ script = "logging_linux" =>
          rows[i].opened \subseteq Clean /\ rows[i].opened # {}
    BY DEF RowsClean
  <2>2. CASE script = "logging_linux"
    BY <2>1, <2>2 DEF Clean
  <2>3. CASE script = "logging_linux_prefault"
    BY <2>1, <2>3 DEF Clean
  <2>4. CASE script \notin {"logging_linux", "logging_linux_prefault"}
    BY <2>1, <2>4 DEF Clean
  <2> QED BY <2>2, <2>3, <2>4
<1>2. FilesInv => RowsClean
  BY DEF FilesInv
<1> QED BY <1>1, <1>2, FilesHold, PTL

-----------------------------------------------------------------------------
(* The recorded tests.                                                      *)

\* The rows are those of the tests so far, each once; when the tests are over, none is left.
RowsInv ==
  /\ \A i \in DOMAIN rows :
       /\ rows[i].test < point
       /\ rows[i].mounts = CombOf(rows[i].test)
       /\ rows[i].threads = ThreadsOf(rows[i].test)
  /\ \A i, j \in DOMAIN rows : rows[i].test = rows[j].test => i = j
  /\ \A n \in ValidTests : n < point => \E i \in DOMAIN rows : rows[i].test = n
  /\ stage \in {"finalize", "finished"} => ToRun = {} /\ ~IsValidCombRaises

\* Tests are natural numbers.
LEMMA TestsNat ==
  ASSUME TypeInv
  PROVE  /\ ValidTests \subseteq Nat /\ point \in Nat
         /\ \A i \in DOMAIN rows : rows[i].test \in ValidTests
<1>1. ValidTests \subseteq Nat
  BY NumTestsNat DEF ValidTests
<1>2. point \in Nat
  BY NumTestsNat DEF TypeInv, ScriptInv
<1>3. \A i \in DOMAIN rows : rows[i] \in Row
  BY DEF TypeInv, ScriptInv
<1> QED BY <1>1, <1>2, <1>3 DEF Row

\* Nothing is recorded, and no test passed over.
LEMMA SameRows ==
  ASSUME RowsInv, UNCHANGED <<script, rows, point>>,
         stage' \in {"finalize", "finished"} =>
           stage \in {"finalize", "finished"} \/ (ToRun = {} /\ ~IsValidCombRaises)
  PROVE  RowsInv'
<1>1. ValidTests' = ValidTests /\ (IsValidCombRaises' <=> IsValidCombRaises)
  BY SameScript
<1>2. ToRun' = ToRun
  BY <1>1 DEF ToRun
<1>3. \A n : CombOf(n)' = CombOf(n) /\ ThreadsOf(n)' = ThreadsOf(n)
  BY DEF CombOf, ThreadsOf
<1> QED BY <1>1, <1>2, <1>3 DEF RowsInv

\* The test that has ended is recorded.
LEMMA RecordRows ==
  ASSUME TypeInv, RowsInv, phase = "measure", stage = "execute", UNCHANGED script, Record
  PROVE  RowsInv'
<1> DEFINE r == [test |-> point, mounts |-> CombOf(point), threads |-> ThreadsOf(point),
                 failed |-> "measure" \in failing, opened |-> opened, faults |-> faults]
<1>1. rows' = Append(rows, r) /\ point' = point + 1
  BY RecordDone
<1>2. stage' \in {"execute", "dead"}
  BY RecordDone DEF CleanupBuffers
<1>3. r.test = point /\ r.mounts = CombOf(point) /\ r.threads = ThreadsOf(point)
  OBVIOUS
<1> HIDE DEF r
<1>4. rows \in Seq(Row)
  BY DEF TypeInv, ScriptInv
<1>5. /\ DOMAIN rows' = 1 .. Len(rows) + 1 /\ Len(rows) \in Nat /\ DOMAIN rows = 1 .. Len(rows)
      /\ \A i \in 1 .. Len(rows) : rows'[i] = rows[i]
      /\ rows'[Len(rows) + 1] = r
  BY <1>1, <1>4
<1>6. /\ ValidTests \subseteq Nat /\ point \in Nat
      /\ \A i \in DOMAIN rows : rows[i].test \in Nat /\ rows[i].test < point
  BY TestsNat DEF RowsInv
<1>7. ASSUME NEW i \in DOMAIN rows'
      PROVE  \/ i \in DOMAIN rows /\ rows'[i] = rows[i]
             \/ i = Len(rows) + 1 /\ i \notin DOMAIN rows /\ rows'[i] = r
  BY <1>5
<1>8. ASSUME NEW i \in DOMAIN rows'
      PROVE  /\ rows'[i].test < point'
             /\ rows'[i].mounts = CombOf(rows'[i].test)
             /\ rows'[i].threads = ThreadsOf(rows'[i].test)
  <2>1. CASE i \in DOMAIN rows /\ rows'[i] = rows[i]
    BY <1>1, <1>6, <2>1 DEF RowsInv
  <2>2. CASE rows'[i] = r
    BY <1>1, <1>3, <1>6, <2>2
  <2> QED BY <1>7, <2>1, <2>2
<1>9. ASSUME NEW i \in DOMAIN rows', NEW j \in DOMAIN rows', rows'[i].test = rows'[j].test
      PROVE  i = j
  <2>1. CASE i \in DOMAIN rows /\ j \in DOMAIN rows
    BY <1>5, <1>9, <2>1 DEF RowsInv
  <2>2. CASE i \in DOMAIN rows /\ j \notin DOMAIN rows
    <3>1. rows'[i].test < point /\ rows'[j].test = point /\ rows'[i].test \in Nat
      BY <1>3, <1>5, <1>6, <1>7, <2>2
    <3> QED BY <1>6, <1>9, <3>1
  <2>3. CASE i \notin DOMAIN rows /\ j \in DOMAIN rows
    <3>1. rows'[j].test < point /\ rows'[i].test = point /\ rows'[j].test \in Nat
      BY <1>3, <1>5, <1>6, <1>7, <2>3
    <3> QED BY <1>6, <1>9, <3>1
  <2>4. CASE i \notin DOMAIN rows /\ j \notin DOMAIN rows
    BY <1>7, <2>4
  <2> QED BY <2>1, <2>2, <2>3, <2>4
<1>10. ASSUME NEW n \in ValidTests, n < point' PROVE \E i \in DOMAIN rows' : rows'[i].test = n
  <2>1. n < point \/ n = point
    BY <1>1, <1>6, <1>10
  <2>2. CASE n < point
    BY <1>5, <2>2 DEF RowsInv
  <2>3. CASE n = point
    <3>1. Len(rows) + 1 \in DOMAIN rows'
      BY <1>5
    <3> QED BY <1>3, <1>5, <2>3, <3>1
  <2> QED BY <2>1, <2>2, <2>3
<1>11. ValidTests' = ValidTests
  BY SameScript
<1>12. \A n : CombOf(n)' = CombOf(n) /\ ThreadsOf(n)' = ThreadsOf(n)
  BY DEF CombOf, ThreadsOf
<1> QED BY <1>2, <1>8, <1>9, <1>10, <1>11, <1>12 DEF RowsInv

\* The tests that are passed over are none of the script's.
LEMMA NextTestRows ==
  ASSUME TypeInv, RowsInv, NextTest
  PROVE  RowsInv'
<1>1. stage' = "execute" /\ UNCHANGED <<script, rows>>
  BY DEF NextTest
<1>2. PICK n \in ToRun : point' = n /\ \A m \in ToRun : n <= m
  BY DEF NextTest
<1>3. n \in ValidTests /\ n >= point
  BY DEF ToRun
<1>4. /\ ValidTests \subseteq Nat /\ point \in Nat
      /\ \A i \in DOMAIN rows : rows[i].test \in Nat
  BY TestsNat
<1>5. ASSUME NEW m \in ValidTests, m < n PROVE m < point
  <2>1. m \notin ToRun
    BY <1>2, <1>3, <1>4, <1>5
  <2> QED BY <1>4, <2>1 DEF ToRun
<1>6. \A i \in DOMAIN rows : rows[i].test < n
  BY <1>3, <1>4 DEF RowsInv
<1>7. ValidTests' = ValidTests
  BY <1>1, SameScript
<1>8. \A m : CombOf(m)' = CombOf(m) /\ ThreadsOf(m)' = ThreadsOf(m)
  BY DEF CombOf, ThreadsOf
<1> QED BY <1>1, <1>2, <1>5, <1>6, <1>7, <1>8 DEF RowsInv

\* Every step keeps the rows.
LEMMA StepRows ==
  ASSUME TypeInv, RowsInv, [Next]_vars
  PROVE  RowsInv'
<1>0. UNCHANGED script /\ HarnessInv /\ StageInv
  BY ScriptStays DEF TypeInv, HarnessInv
<1>1. CASE ProcessStep \/ (ProcessFault /\ UNCHANGED harnessVars) \/ UNCHANGED vars
  <2>1. UNCHANGED <<stage, point, rows>>
    BY <1>1 DEF ProcessStep, harnessVars, vars
  <2> QED BY <1>0, <2>1, SameRows
<1>2. CASE Prepare \/ Popen \/ PreparationEnds \/ CombinationRaises \/ PopenFails
  <2>1. /\ UNCHANGED <<point, rows>>
        /\ stage' \in {stage, "execute", "dead"} \/ (stage = "finalize" /\ stage' = "finished")
    <3>1. CASE Prepare
      BY <3>1 DEF Prepare, CleanupBuffers
    <3>2. CASE Popen \/ PreparationEnds \/ CombinationRaises
      BY <3>2 DEF Popen, PreparationEnds, CombinationRaises
    <3>3. CASE PopenFails
      <4>1. phase # "idle"
        BY <1>0, <3>3 DEF PopenFails, StageInv
      <4> QED BY <1>0, <3>3, <4>1 DEF PopenFails, StageInv
    <3> QED BY <1>2, <3>1, <3>2, <3>3
  <2> QED BY <1>0, <2>1, SameRows
<1>3. CASE CommandsEnd
  <2>1. \/ stage = "execute" /\ phase = "measure" /\ Record
        \/ /\ UNCHANGED <<point, rows>>
           /\ stage' \in {"execute", "dead"} \/ (stage = "finalize" /\ stage' = "finished")
    BY <1>0, <1>3, TestOver
  <2>2. CASE stage = "execute" /\ phase = "measure" /\ Record
    BY <1>0, <2>2, RecordRows
  <2> QED BY <1>0, <2>1, <2>2, SameRows
<1>4. CASE Finalize
  <2>1. UNCHANGED <<point, rows>> /\ ToRun = {} /\ ~IsValidCombRaises
    BY <1>4 DEF Finalize
  <2> QED BY <1>0, <2>1, SameRows
<1>5. CASE NextTest
  BY <1>5, NextTestRows
<1> QED BY <1>1, <1>2, <1>3, <1>4, <1>5 DEF Next, HarnessStep, Failure

\* Rows are those of the tests throughout.
LEMMA RowsHold == Spec => []RowsInv
<1>1. Init => RowsInv
  <2> SUFFICES ASSUME Init PROVE RowsInv
    OBVIOUS
  <2>1. rows = <<>> /\ point = 1 /\ stage = "prepare"
    BY DEF Init, HarnessInit
  <2>2. DOMAIN rows = {}
    BY <2>1
  <2>3. \A n \in ValidTests : ~(n < point)
    BY <2>1, NumTestsNat DEF ValidTests
  <2> QED BY <2>1, <2>2, <2>3 DEF RowsInv
<1>2. TypeInv /\ RowsInv /\ [Next]_vars => RowsInv'
  BY StepRows
<1> QED BY <1>1, <1>2, TypesHold, PTL DEF Spec

\* Runs with the same place in the outer loops have different numbers.
LEMMA OtherRuns ==
  ASSUME NEW a \in Nat, NEW b \in Nat, NEW r \in Int, NEW s \in Int,
         Numbered(a, b, r) = Numbered(a, b, s)
  PROVE  r = s
<1> DEFINE x == TestsPerComb * a
           y == NumRuns * b
<1>1. x \in Int /\ y \in Int
  BY NumTestsNat, LengthsNat
<1>2. x + (y + r) + 1 = x + (y + s) + 1
  BY DEF Numbered
<1> HIDE DEF x, y
<1> QED BY <1>1, <1>2

\* A combination with a number of threads has one row for each of its runs.
LEMMA RowsOfPoint ==
  ASSUME TypeInv, RowsInv, stage = "finished",
         NEW mounts \in Range(MountLists), IsValidComb(mounts),
         NEW threads \in Range(ThreadCounts)
  PROVE  Cardinality({i \in DOMAIN rows : rows[i].mounts = mounts
                                          /\ rows[i].threads = threads}) = NumRuns
<1> DEFINE S == {i \in DOMAIN rows : rows[i].mounts = mounts /\ rows[i].threads = threads}
<1>1. NumRuns \in Nat \ {0} /\ Len(MountLists) \in Nat /\ Len(ThreadCounts) \in Nat \ {0}
  BY LengthsNat
<1>2. /\ DOMAIN MountLists = 1 .. Len(MountLists) /\ DOMAIN ThreadCounts = 1 .. Len(ThreadCounts)
      /\ IsInjective(MountLists) /\ IsInjective(ThreadCounts)
  BY HarnessAssumption
<1>3. PICK a \in 0 .. Len(MountLists) - 1 : mounts = MountLists[a + 1]
  <2>1. PICK k \in DOMAIN MountLists : mounts = MountLists[k]
    BY DEF Range
  <2>2. k - 1 \in 0 .. Len(MountLists) - 1 /\ (k - 1) + 1 = k
    BY <1>1, <1>2
  <2> QED BY <2>1, <2>2
<1>4. PICK b \in 0 .. Len(ThreadCounts) - 1 : threads = ThreadCounts[b + 1]
  <2>1. PICK k \in DOMAIN ThreadCounts : threads = ThreadCounts[k]
    BY DEF Range
  <2>2. k - 1 \in 0 .. Len(ThreadCounts) - 1 /\ (k - 1) + 1 = k
    BY <1>1, <1>2
  <2> QED BY <2>1, <2>2
<1>5. /\ ValidTests \subseteq Nat /\ point \in Nat
      /\ \A i \in DOMAIN rows : rows[i].test \in ValidTests
  BY TestsNat
<1>6. \A n \in ValidTests : \E i \in DOMAIN rows : rows[i].test = n
  <2>1. ToRun = {}
    BY DEF RowsInv
  <2>2. \A n \in ValidTests : n < point
    BY <1>5, <2>1 DEF ToRun
  <2> QED BY <2>2 DEF RowsInv
<1>7. ASSUME NEW r \in 0 .. NumRuns - 1
      PROVE  /\ Numbered(a, b, r) \in ValidTests
             /\ CombOf(Numbered(a, b, r)) = mounts /\ ThreadsOf(Numbered(a, b, r)) = threads
  <2>1. /\ Numbered(a, b, r) \in 1 .. NumTests
        /\ CombOf(Numbered(a, b, r)) = mounts /\ ThreadsOf(Numbered(a, b, r)) = threads
    BY <1>3, <1>4, TestAtPlace
  <2> QED BY <2>1 DEF ValidTests
<1> DEFINE f == [r \in 1 .. NumRuns |->
                   CHOOSE i \in DOMAIN rows : rows[i].test = Numbered(a, b, r - 1)]
<1>8. ASSUME NEW r \in 1 .. NumRuns
      PROVE  f[r] \in DOMAIN rows /\ rows[f[r]].test = Numbered(a, b, r - 1) /\ f[r] \in S
  <2>1. r - 1 \in 0 .. NumRuns - 1
    BY <1>1
  <2>2. \E i \in DOMAIN rows : rows[i].test = Numbered(a, b, r - 1)
    BY <1>6, <1>7, <2>1
  <2>3. f[r] \in DOMAIN rows /\ rows[f[r]].test = Numbered(a, b, r - 1)
    BY <2>2
  <2> HIDE DEF f
  <2>4. rows[f[r]].mounts = mounts /\ rows[f[r]].threads = threads
    BY <1>7, <2>1, <2>3 DEF RowsInv
  <2> QED BY <2>3, <2>4
<1>9. f \in [1 .. NumRuns -> S]
  BY <1>8
<1> HIDE DEF f, S
<1>10. ASSUME NEW r \in 1 .. NumRuns, NEW s \in 1 .. NumRuns, f[r] = f[s] PROVE r = s
  <2>1. Numbered(a, b, r - 1) = Numbered(a, b, s - 1)
    BY <1>8, <1>10
  <2>2. a \in Nat /\ b \in Nat /\ r - 1 \in Int /\ s - 1 \in Int /\ r \in Int /\ s \in Int
    BY <1>1
  <2>3. r - 1 = s - 1
    BY <2>1, <2>2, OtherRuns
  <2> QED BY <2>2, <2>3
<1>11. ASSUME NEW i \in S PROVE \E r \in 1 .. NumRuns : f[r] = i
  <2>1. i \in DOMAIN rows /\ rows[i].mounts = mounts /\ rows[i].threads = threads
    BY DEF S
  <2> DEFINE n == rows[i].test
  <2>2. n \in 1 .. NumTests /\ CombOf(n) = mounts /\ ThreadsOf(n) = threads
    BY <1>5, <2>1 DEF RowsInv, ValidTests
  <2>3. PICK c \in 0 .. Len(MountLists) - 1, d \in 0 .. Len(ThreadCounts) - 1,
             r \in 0 .. NumRuns - 1 : n = Numbered(c, d, r)
    BY <2>2, TestHasPlace
  <2>4. MountLists[c + 1] = mounts /\ ThreadCounts[d + 1] = threads
    BY <2>2, <2>3, TestAtPlace
  <2>5. c = a
    <3>1. c + 1 \in DOMAIN MountLists /\ a + 1 \in DOMAIN MountLists /\ c \in Int /\ a \in Int
      BY <1>1, <1>2
    <3>2. c + 1 = a + 1
      BY <1>2, <1>3, <2>4, <3>1 DEF IsInjective
    <3> QED BY <3>1, <3>2
  <2>6. d = b
    <3>1. d + 1 \in DOMAIN ThreadCounts /\ b + 1 \in DOMAIN ThreadCounts /\ d \in Int /\ b \in Int
      BY <1>1, <1>2
    <3>2. d + 1 = b + 1
      BY <1>2, <1>4, <2>4, <3>1 DEF IsInjective
    <3> QED BY <3>1, <3>2
  <2>7. r + 1 \in 1 .. NumRuns /\ (r + 1) - 1 = r
    BY <1>1
  <2>8. f[r + 1] \in DOMAIN rows /\ rows[f[r + 1]].test = n
    BY <1>8, <2>3, <2>5, <2>6, <2>7
  <2>9. f[r + 1] = i
    BY <2>1, <2>8 DEF RowsInv
  <2> QED BY <2>7, <2>9
<1>12. ExistsBijection(1 .. NumRuns, S)
  <2>1. f \in Bijection(1 .. NumRuns, S)
    BY <1>9, <1>10, <1>11, Fun_IsBij
  <2> QED BY <2>1 DEF ExistsBijection
<1>13. IsFiniteSet(1 .. NumRuns) /\ Cardinality(1 .. NumRuns) = NumRuns
  <2>1. IsFiniteSet(1 .. NumRuns)
        /\ Cardinality(1 .. NumRuns) = IF 1 > NumRuns THEN 0 ELSE NumRuns - 1 + 1
    <3>1. 1 \in Int /\ NumRuns \in Int
      BY <1>1
    <3> QED BY <3>1, FS_Interval, Zenon
  <2> QED BY <1>1, <2>1
<1>14. Cardinality(S) = NumRuns
  BY <1>12, <1>13, FS_Bijection
<1> QED BY <1>14 DEF S

\* A script dies only of a call that failed, or of its own combinations; and one that comes
\* to its end has told its runs of every combination of directories that is valid and of
\* every number of threads: no test is left out, or recorded twice.
THEOREM RecordsComplete == Spec => []EveryTestRecorded
<1>1. TypeInv /\ FilesInv /\ RowsInv => EveryTestRecorded
  <2> SUFFICES ASSUME TypeInv, FilesInv, RowsInv PROVE EveryTestRecorded
    OBVIOUS
  <2>1. stage = "dead" => faults > 0 \/ IsValidCombRaises
    <3>1. faults \in Nat
      BY ProcessAssumption DEF TypeInv, ProcessInv
    <3>2. faults = 0 => (stage = "dead" => IsValidCombRaises)
      BY DEF FilesInv, PrepInv
    <3> QED BY <3>1, <3>2
  <2> QED BY <2>1, RowsOfPoint DEF EveryTestRecorded
<1> QED BY <1>1, TypesHold, FilesHold, RowsHold, PTL
=============================================================================
