---------------------------- MODULE BufmanMain -----------------------------
(***************************************************************************)
(* The command line of bufman: the parser of include/argh.h in the mode    *)
(* that main() uses (PREFER_FLAG_FOR_UNREG_OPTION), and what main() (in    *)
(* src/bin/bufman.cpp) makes of it: it initialises the buffer files, or    *)
(* scrambles them, or opens them for a workload.  Commands follow each     *)
(* other and find the files that earlier ones left.                        *)
(*                                                                         *)
(* An argument is a record: does it start with a dash, does it read as a   *)
(* number, does it contain "=" behind the name, the name without dashes,   *)
(* and the text (of an argument with "=", the part behind it).             *)
(***************************************************************************)
EXTENDS Integers, Sequences

CONSTANTS
  Texts,      \* the texts that occur in arguments
  Commands,   \* the command lines, each a sequence of arguments
  NumberOf,   \* what operator>> extracts from a text: 0 if it is no number
  Dirs,       \* texts that name a directory
  SizeT,      \* 2^64, the modulus of std::size_t
  GiB,        \* 1 << 30
  MiB,        \* 1 << 20
  KiB4,       \* 4096: the default page size, and the size of a memory page
  Incs,       \* 64: incs of the scrambling loop
  LogEntry    \* 128: the default size of a log entry

Arguments ==
  [dash : BOOLEAN, number : BOOLEAN, assigns : BOOLEAN, name : STRING, text : Texts]

ASSUME CommandsAssumption == Commands \subseteq Seq(Arguments)

ASSUME TextsAssumption == NumberOf \in [Texts -> Int] /\ Dirs \subseteq Texts

ASSUME UnitsAssumption ==
  /\ Incs \in Nat \ {0} /\ KiB4 \in Nat \ {0} /\ MiB \in Nat \ {0}
  /\ GiB \in Nat \ {0} /\ SizeT \in Nat \ {0} /\ LogEntry \in Nat
  /\ KiB4 % Incs = 0 /\ MiB % KiB4 = 0 /\ GiB % MiB = 0 /\ SizeT % GiB = 0

Missing == -1   \* the size of a file that does not exist

\* the options that are registered to take a value
Registered ==
  {"l", "workload", "i", "ioengine", "b", "buffersize", "s", "suffix", "p",
   "pagesize", "w", "write", "t", "total", "randompages", "le", "rtbs",
   "read-target-buffer-size"}

VARIABLES
  pc,           \* "idle", "parse", "initialize", "scramble", "workload", and the
                \* ways a command ends: see Ended
  args,         \* args_
  i,            \* position of the parser in args_
  pos,          \* pos_args_, as positions in args_
  params,       \* params_, from names to texts
  flags,        \* flags_
  size,         \* size of the buffer file in each directory
  initialised,  \* history: the buffer size a file was initialised for, or 0
  touched       \* history: the last byte of each mapping that scramble writes, or
                \* would if the file were long enough; or -1

vars == <<pc, args, i, pos, params, flags, size, initialised, touched>>
files == <<size, initialised, touched>>

Ended == {"done", "measured", "hung", "divided", "crashed", "too_small"}

Init ==
  /\ pc = "idle"
  /\ args = <<>> /\ i = 1
  /\ pos = <<>> /\ params = <<>> /\ flags = {}
  /\ size = [d \in Dirs |-> Missing]
  /\ initialised = [d \in Dirs |-> 0]
  /\ touched = [d \in Dirs |-> -1]

Start ==
  /\ pc = "idle"
  /\ args' \in Commands
  /\ pc' = "parse"
  /\ i' = 1
  /\ pos' = <<>> /\ params' = <<>> /\ flags' = {}
  /\ touched' = [d \in Dirs |-> -1]
  /\ UNCHANGED <<size, initialised>>

-----------------------------------------------------------------------------
(* parser::parse().                                                         *)

\* a negative number is not an option
IsOption(a) == a.dash /\ ~a.number

\* mutant: PREFER_PARAM_FOR_UNREG_OPTION
TakesValueAlways(a) == IsOption(a) /\ ~a.assigns

\* an option that is registered, so that the next argument may be its value
TakesValue(a) == IsOption(a) /\ ~a.assigns /\ a.name \in Registered

\* the option at k is followed by an argument that is not an option itself
IsFollowed(k) == k < Len(args) /\ ~IsOption(args[k + 1])

\* mutant: the last value counts
InsertOver(name, text) ==
  [n \in DOMAIN params \cup {name} |-> IF n = name THEN text ELSE params[n]]

\* params_.insert(): a name that is there keeps its value
Insert(name, text) ==
  [n \in DOMAIN params \cup {name} |->
     IF n \in DOMAIN params THEN params[n] ELSE text]

\* mutant: the loop is not thought of, which advances as well
AfterValueTwice(k) == k + 3

\* mutant: the value is not skipped
AfterValueUnskipped(k) == k + 1

\* the value of an option is skipped: it is not a free parameter
AfterValue(k) == k + 2

Parsing == pc = "parse" /\ i <= Len(args)

ParsePositional ==
  /\ Parsing
  /\ ~IsOption(args[i])
  /\ pos' = Append(pos, i)
  /\ i' = i + 1
  /\ UNCHANGED <<pc, args, params, flags, files>>

\* --name=text
ParseAssignment ==
  /\ Parsing
  /\ IsOption(args[i]) /\ args[i].assigns
  /\ params' = Insert(args[i].name, args[i].text)
  /\ i' = i + 1
  /\ UNCHANGED <<pc, args, pos, flags, files>>

ParseParam ==
  /\ Parsing
  /\ TakesValue(args[i]) /\ IsFollowed(i)
  /\ params' = Insert(args[i].name, args[i + 1].text)
  /\ i' = AfterValue(i)
  /\ UNCHANGED <<pc, args, pos, flags, files>>

\* an option that is not registered, or is left without a value
ParseFlag ==
  /\ Parsing
  /\ IsOption(args[i]) /\ ~args[i].assigns
  /\ ~(TakesValue(args[i]) /\ IsFollowed(i))
  /\ flags' = flags \cup {args[i].name}
  /\ i' = i + 1
  /\ UNCHANGED <<pc, args, pos, params, files>>

-----------------------------------------------------------------------------
(* main(): the values of the options.                                       *)

\* the accessor with two names and a default
TextOf(short, long, default) ==
  IF short \in DOMAIN params THEN params[short]
  ELSE IF long \in DOMAIN params THEN params[long] ELSE default

\* only what stands without a value is a flag
GotFlag(name) == name \in flags

NumberGiven(short, long, default) ==
  IF {short, long} \cap DOMAIN params = {} THEN default
  ELSE NumberOf[TextOf(short, long, "")]

\* the positional arguments behind the name of the program
Mounts == [k \in 1 .. Len(pos) - 1 |-> args[pos[k + 1]].text]
MountDirs == {Mounts[k] : k \in 1 .. Len(pos) - 1} \cap Dirs

PageSize == NumberGiven("p", "pagesize", KiB4) % SizeT

\* full_buffer_size_argument
FullBufferSize == (NumberGiven("b", "buffersize", 1) * GiB) % SizeT

BufferSize == FullBufferSize \div Len(Mounts)
PagesPerBuffer == BufferSize \div PageSize
TotalWorkload == (NumberGiven("t", "total", 8) * GiB) % SizeT
LogEntrySize == NumberGiven("le", "le", LogEntry) % SizeT
Workload == TextOf("l", "workload", "bufman")
Engine == TextOf("i", "ioengine", "LINUX")

Mapping == {"MMAP", "LIBPMEM2", "LIBPMEM", "LIBPMEM2_PF", "LIBPMEM_PF", "ASM"}
Engines ==
  Mapping \cup {"LINUX", "LINUX_DIRECT", "LINUX_PREALLOC", "LINUX_PREFAULT", "STD"}

\* the buffer size is divided by the number of mounts, and by the page size,
\* before anybody looks at either
Divides == Len(Mounts) > 0 /\ PageSize > 0

\* what main() does in the end; with both flags it announces the other
Mode ==
  IF GotFlag("scramble") THEN "scramble"
  ELSE IF GotFlag("initialize") THEN "initialize" ELSE "workload"

Configure ==
  /\ pc = "parse" /\ i > Len(args)
  /\ pc' = IF ~Divides THEN "divided"
           ELSE IF NumberGiven("w", "write", 50) \notin 0 .. 100 \/ Engine \notin Engines
           THEN "crashed"
           ELSE Mode
  /\ UNCHANGED <<args, i, pos, params, flags, files>>

-----------------------------------------------------------------------------
(* main(): the three modes.                                                 *)

\* mutant: the files get the share of the size that this command would use
InitializedSizeShared == (BufferSize \div MiB) * MiB

\* dd writes blocks of 1M over a truncated file
InitializedSize == (FullBufferSize \div MiB) * MiB

\* one dd for each directory, of which nobody hears whether it failed: that is the
\* subject of BufmanProcesses, here they succeed
Initialize ==
  /\ pc = "initialize"
  /\ size' = [d \in Dirs |-> IF d \in MountDirs THEN InitializedSize ELSE size[d]]
  /\ initialised' =
       [d \in Dirs |-> IF d \in MountDirs THEN FullBufferSize ELSE initialised[d]]
  /\ pc' = "done"
  /\ UNCHANGED <<args, i, pos, params, flags, touched>>

\* mutant: the loop runs up to buffer_size and not below it
LastBlockUpTo(n) == (n \div Incs) * Incs

\* the last i of "for (i = 0; i < buffer_size; i += incs)"
LastBlock(n) == ((n - 1) \div Incs) * Incs

\* the files a child of scramble can open and map; mmap() does not look at their
\* size, and behind the end of a shorter file the child dies of SIGBUS
Scrambled == {d \in MountDirs : size[d] # Missing /\ BufferSize > 0}

\* one child for each directory; the other children crash, and the parent returns
\* all the same
Scramble ==
  /\ pc = "scramble"
  /\ \E p \in 0 .. Incs - 1 :
       touched' = [d \in Dirs |-> IF d \in Scrambled THEN LastBlock(BufferSize) + p
                                                    ELSE -1]
  /\ pc' = "done"
  /\ UNCHANGED <<args, i, pos, params, flags, size, initialised>>

\* the size get_filesize() reports: most engines create a missing file
Created(d) == IF size[d] = Missing THEN 0 ELSE size[d]

Opens(d) ==
  /\ d \in Dirs
  /\ Engine = "STD" => size[d] # Missing
  /\ Engine \in Mapping => Created(d) > 0

\* the check of the BufferManager constructor
FileSuffices(d) == PagesPerBuffer * PageSize <= Created(d)

\* the mounts that the BufferManager opens, in their order, up to the first that
\* it cannot use
Attempted ==
  {k \in 1 .. Len(Mounts) :
     \A j \in 1 .. k - 1 : Opens(Mounts[j]) /\ FileSuffices(Mounts[j])}

\* the workload is constructed when all files are open
Constructs ==
  \/ Workload \in {"bufman", "tablescan"}
  \/ Workload = "logging" /\ TotalWorkload >= LogEntrySize

\* the flag committing: it is set by --committing=text only, since main() asks for
\* a parameter of that name
Committing == "committing" \in DOMAIN params

\* How run() of a workload that has been constructed goes.  Entries of size 0, of
\* which nobody looks at the size, keep the logging workload in its loop for ever,
\* unless it commits: then the status of the first commit is taken for a failure.
RunEnds ==
  IF Workload = "logging" /\ LogEntrySize = 0
  THEN IF Committing THEN "crashed" ELSE "hung"
  ELSE "measured"

OpenBuffers ==
  /\ pc = "workload" /\ Workload # "logging2"
  /\ size' = [d \in Dirs |->
                IF Engine # "STD" /\ \E k \in Attempted : Mounts[k] = d
                THEN Created(d) ELSE size[d]]
  /\ \/ /\ \A k \in Attempted : Opens(Mounts[k]) /\ FileSuffices(Mounts[k])
        /\ pc' = IF Constructs THEN RunEnds ELSE "crashed"
     \/ \E k \in Attempted : ~Opens(Mounts[k]) /\ pc' = "crashed"
     \/ \E k \in Attempted : /\ Opens(Mounts[k]) /\ ~FileSuffices(Mounts[k])
                             /\ pc' = "too_small"
  /\ UNCHANGED <<args, i, pos, params, flags, initialised, touched>>

\* what run() of logging2 appends; with entries of size 0 it appends nothing, for ever
Logged ==
  IF LogEntrySize = 0 THEN 0 ELSE (TotalWorkload \div LogEntrySize) * LogEntrySize

\* the size of the log file that a run of logging2 leaves
LogFileSize(d) ==
  CASE Engine \in {"LINUX_PREALLOC", "LIBPMEM2", "LIBPMEM"} -> TotalWorkload + 200 * MiB
    [] Engine \in {"LIBPMEM2_PF", "LIBPMEM_PF"}             -> Created(d)
    [] Engine = "LINUX_PREFAULT" -> IF Created(d) > Logged THEN Created(d) ELSE Logged
    [] OTHER -> Logged + (IF GotFlag("logging-fallocate") THEN TotalWorkload ELSE 0)

\* logging2 works on the first directory only, whose file it replaces or
\* overwrites: no initialised buffer is left there.  With entries of size 0 its loop
\* does not end, or it dies of the byte that it alters behind the entry.
AppendToLog ==
  /\ pc = "workload" /\ Workload = "logging2"
  /\ Mounts[1] \in Dirs
  /\ size' = [size EXCEPT ![Mounts[1]] = LogFileSize(Mounts[1])]
  /\ initialised' = [initialised EXCEPT ![Mounts[1]] = 0]
  /\ pc' \in IF LogEntrySize = 0 THEN {"hung", "crashed"} ELSE {"measured"}
  /\ UNCHANGED <<args, i, pos, params, flags, touched>>

\* the file cannot be opened or created; the old one may be gone by then
AppendFails ==
  /\ pc = "workload" /\ Workload = "logging2"
  /\ \/ UNCHANGED <<size, initialised>>
     \/ /\ Mounts[1] \in Dirs
        /\ size' = [size EXCEPT ![Mounts[1]] = Missing]
        /\ initialised' = [initialised EXCEPT ![Mounts[1]] = 0]
  /\ pc' = "crashed"
  /\ UNCHANGED <<args, i, pos, params, flags, touched>>

\* the process is gone; one that hangs has been killed
Return ==
  /\ pc \in Ended
  /\ pc' = "idle"
  /\ args' = <<>> /\ i' = 1
  /\ pos' = <<>> /\ params' = <<>> /\ flags' = {}
  /\ touched' = [d \in Dirs |-> -1]
  /\ UNCHANGED <<size, initialised>>

Next ==
  \/ Start
  \/ ParsePositional \/ ParseAssignment \/ ParseParam \/ ParseFlag
  \/ Configure
  \/ Initialize \/ Scramble \/ OpenBuffers \/ AppendToLog \/ AppendFails
  \/ Return

Spec == Init /\ [][Next]_vars

-----------------------------------------------------------------------------
(* Properties.                                                              *)

\* Every variable has its type.
TypeOK ==
  /\ pc \in {"idle", "parse", "initialize", "scramble", "workload"} \cup Ended
  /\ args \in Seq(Arguments)
  /\ i \in 1 .. Len(args) + 1
  /\ pos \in Seq(1 .. Len(args))
  /\ params \in [DOMAIN params -> Texts] /\ DOMAIN params \subseteq STRING
  /\ flags \subseteq STRING
  /\ size \in [Dirs -> Nat \cup {Missing}]
  /\ initialised \in [Dirs -> Nat]
  /\ touched \in [Dirs -> Nat \cup {-1}]

\* the argument at k is the value of the option before it
IsValue(k) ==
  k > 1 /\ ~IsOption(args[k]) /\ IsOption(args[k - 1]) /\ ~args[k - 1].assigns
        /\ args[k - 1].name \in Registered

FreeWords == {k \in 1 .. i - 1 : ~IsOption(args[k]) /\ ~IsValue(k)}

\* The parser takes for positional arguments, and main() for mounts, exactly the
\* words that do not follow a registered option, in their order: an option
\* without a value, a flag or an assignment before a mount does not swallow it.
MountsAreFreeWords ==
  /\ {pos[k] : k \in 1 .. Len(pos)} = FreeWords
  /\ \A j, k \in 1 .. Len(pos) : j < k => pos[j] < pos[k]

\* the argument at k gives the option its value
Gives(k, name) ==
  \/ IsOption(args[k]) /\ args[k].assigns /\ args[k].name = name
  \/ k > 1 /\ IsValue(k) /\ args[k - 1].name = name

\* Of an option that is given several times, by whichever syntax, the first value
\* counts.
FirstValueCounts ==
  \A name \in DOMAIN params :
    \E k \in 1 .. i - 1 :
      /\ Gives(k, name)
      /\ params[name] = args[k].text
      /\ \A j \in 1 .. k - 1 : ~Gives(j, name)

\* Every option that has been given a value is in params_.
ValuesKnown ==
  \A k \in 1 .. i - 1 :
    /\ IsOption(args[k]) /\ args[k].assigns => args[k].name \in DOMAIN params
    /\ IsValue(k) => args[k - 1].name \in DOMAIN params

IsBare(k) == IsOption(args[k]) /\ ~args[k].assigns

\* the option at k is left without a value
IsFlag(k) == IsBare(k) /\ ~(k < Len(args) /\ IsValue(k + 1))

\* What has no value is a flag, and nothing else is.
FlagsAsWritten == flags = {args[k].name : k \in {j \in 1 .. i - 1 : IsFlag(j)}}

\* What main() is given is what stands on the command line: its mounts are the free
\* words, its values those that the options are given, the first of each, and its
\* flags the options that are given none.
ParsedAsWritten ==
  MountsAreFreeWords /\ FirstValueCounts /\ ValuesKnown /\ FlagsAsWritten

\* the flag stands on the command line, wherever it stands
Given(name) == \E k \in 1 .. Len(args) : IsBare(k) /\ args[k].name = name

\* Only a command that says so writes over the buffer files: main() initialises
\* them with --initialize and scrambles them with --scramble, which wins, and
\* starts a workload with neither.
ModeAsGiven ==
  /\ pc = "initialize" => Given("initialize") /\ ~Given("scramble")
  /\ pc = "scramble"   => Given("scramble")
  /\ pc = "workload"   => ~Given("initialize") /\ ~Given("scramble")

\* A workload finds a file too small only if it asks for larger buffers than that
\* very file was last initialised for: how many mounts either command had, and how
\* the pages divide the buffers, does not matter.
FilesFit ==
  pc = "too_small" =>
    LET TooSmall == {d \in MountDirs : ~FileSuffices(d)}
    IN  TooSmall # {} /\ \A d \in TooSmall : initialised[d] < FullBufferSize

\* Scrambling stays inside the mapping, also when the number of mounts does not
\* divide the buffer size, and inside a file that was initialised for as much.  A
\* file that was initialised for less may well be overrun.
ScrambleInside ==
  \A d \in Dirs :
    touched[d] >= 0 =>
      /\ touched[d] < ((BufferSize + KiB4 - 1) \div KiB4) * KiB4
      /\ initialised[d] >= FullBufferSize => touched[d] < size[d]

=============================================================================
