--------------------------- MODULE MCBufmanMain ----------------------------
(* BufmanMain with command lines put together from pieces.  "dir_x" is the name *)
(* of a directory that does not exist.                                          *)
EXTENDS BufmanMain

Word(text) ==
  [dash |-> FALSE, number |-> text \in {"0", "2", "3"}, assigns |-> FALSE,
   name |-> text, text |-> text]
Negative ==
  [dash |-> TRUE, number |-> TRUE, assigns |-> FALSE, name |-> "5", text |-> "-5"]
Option(name) ==
  [dash |-> TRUE, number |-> FALSE, assigns |-> FALSE, name |-> name, text |-> ""]
Assign(name, text) ==
  [dash |-> TRUE, number |-> FALSE, assigns |-> TRUE, name |-> name, text |-> text]

MCDirs == {"dir_a", "dir_b"}

MCTexts ==
  {"", "bufman", "dir_a", "dir_b", "dir_x", "0", "2", "3", "-5", "STD", "MMAP",
   "FOO", "logging", "logging2", "LINUX_PREALLOC"}

MCNumberOf ==
  [t \in MCTexts |-> CASE t = "2" -> 2 [] t = "3" -> 3 [] t = "-5" -> -5 [] OTHER -> 0]

\* what is combined freely
Common ==
  {<<Word("dir_a")>>, <<Word("dir_b")>>, <<Word("dir_x")>>,
   <<Option("b"), Word("2")>>, <<Option("b")>>, <<Assign("buffersize", "3")>>,
   <<Option("initialize")>>, <<Option("scramble")>>}

\* what is tried in front of the combinations
Special ==
  {<<>>, <<Option("p"), Word("3")>>, <<Option("pagesize"), Word("0")>>,
   <<Option("i"), Word("STD")>>, <<Option("ioengine"), Word("MMAP")>>,
   <<Option("i"), Word("FOO")>>, <<Option("w"), Negative>>, <<Negative>>,
   <<Option("l"), Word("logging")>>, <<Assign("initialize", "2")>>,
   <<Option("l"), Word("logging"), Option("t"), Word("0")>>,
   <<Option("l"), Word("logging"), Option("le"), Word("0")>>,
   <<Option("l"), Word("logging"), Option("le"), Word("0"), Assign("committing", "2")>>,
   <<Option("workload"), Word("logging2"), Option("le"), Word("0")>>,
   <<Option("workload"), Word("logging2")>>,
   <<Option("workload"), Word("logging2"), Option("i"), Word("LINUX_PREALLOC")>>}

Joined(S, T) == {s \o t : s \in S, t \in T}
UpTo1 == {<<>>} \cup Common
UpTo2 == Joined(UpTo1, UpTo1)
UpTo4 == Joined(UpTo2, UpTo2)

MCCommands == Joined({<<Word("bufman")>>}, UpTo4 \cup Joined(Special, UpTo2))
=============================================================================
