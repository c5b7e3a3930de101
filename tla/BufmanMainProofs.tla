------------------------- MODULE BufmanMainProofs --------------------------
(***************************************************************************)
(* For every set of command lines, every reading of numbers and all units  *)
(* that divide each other as UnitsAssumption says: the parser of bufman    *)
(* takes for mounts what it should, and the commands that follow each      *)
(* other find files of the size they need and scramble inside of them.     *)
(***************************************************************************)
EXTENDS BufmanMain, TLAPS

parser == <<args, i, pos, params, flags>>

ParseStep == ParsePositional \/ ParseAssignment \/ ParseParam \/ ParseFlag

\* a command begins or has ended
Resets ==
  i' = 1 /\ pos' = <<>> /\ params' = <<>> /\ flags' = {} /\ args' \in Seq(Arguments)

-----------------------------------------------------------------------------
(* Arithmetic.                                                              *)

\* Quotient and remainder of an integer.
LEMMA DivMod == 
  ASSUME NEW n \in Int, NEW m \in Nat \ {0} 
  PROVE  /\ n \div m \in Int /\ n % m \in 0 .. m - 1
         /\ n = m * (n \div m) + (n % m)
<1>1. /\ n \div m \in Int /\ n % m \in 0 .. m - 1
  OBVIOUS
<1>2. n % m = n - m * (n \div m)
  BY SMTT(60)
<1>3. m * (n \div m) \in Int
  BY <1>1
<1> QED BY <1>1, <1>2, <1>3

\* What is reduced modulo a positive number is a natural number.
LEMMA Reduced ==
  ASSUME NEW n \in Int, NEW m \in Nat \ {0}
  PROVE  n % m \in Nat
OBVIOUS

\* Division is exact for multiples.
LEMMA MultMod ==
  ASSUME NEW k \in Int, NEW m \in Nat \ {0}, NEW n \in Int, n = m * k
  PROVE  n % m = 0 /\ n \div m = k
<1> DEFINE q == n \div m
           r == n % m
<1>1. q \in Int /\ r \in 0 .. m - 1 /\ n = m * q + r
  BY DivMod
<1> HIDE DEF q, r
<1>2. r = m * (k - q)
  BY <1>1
<1>3. ~(k - q >= 1)
  <2> SUFFICES ASSUME k - q >= 1 PROVE FALSE
    OBVIOUS
  <2>1. m * (k - q) >= m * 1
    BY <1>1
  <2> QED BY <2>1, <1>1, <1>2
<1>4. ~(k - q <= -1)
  <2> SUFFICES ASSUME k - q <= -1 PROVE FALSE
    OBVIOUS
  <2>1. m * (k - q) <= m * (-1)
    BY <1>1
  <2> QED BY <2>1, <1>1, <1>2
<1>5. k = q
  BY <1>1, <1>3, <1>4
<1>6. r = 0
  BY <1>1, <1>2, <1>5
<1> QED BY <1>5, <1>6 DEF q, r

\* A multiple of b that is reduced modulo a multiple of b remains a multiple of b.
LEMMA MultipleModulo ==
  ASSUME NEW b \in Nat \ {0}, NEW m \in Nat \ {0}, m % b = 0, NEW k \in Int
  PROVE  ((k * b) % m) % b = 0
<1> DEFINE n == k * b
           q == n \div m
           j == m \div b
<1>1. j \in Int /\ m = b * j
  BY DivMod
<1>2. q \in Int /\ n % m \in Int /\ n = m * q + (n % m)
  BY DivMod
<1> HIDE DEF q, j
<1>3. n % m = b * (k - j * q)
  <2>1. m * q = b * (j * q)
    BY <1>1, <1>2
  <2>2. n = b * k
    OBVIOUS
  <2>3. b * (k - j * q) = b * k - b * (j * q)
    BY <1>1, <1>2
  <2>4. b * k \in Int /\ b * (j * q) \in Int
    BY <1>1, <1>2
  <2> HIDE DEF n
  <2> QED BY <2>1, <2>2, <2>3, <2>4, <1>2
<1>4. k - j * q \in Int
  BY <1>1, <1>2
<1> QED BY <1>2, <1>3, <1>4, MultMod

\* Divisibility is transitive.
LEMMA DividesAll ==
  ASSUME NEW a \in Nat \ {0}, NEW b \in Nat \ {0}, NEW n \in Int, n % b = 0, b % a = 0
  PROVE  n % a = 0
<1> DEFINE q == n \div b
           j == b \div a
<1>1. j \in Int /\ b = a * j
  BY DivMod
<1>2. q \in Int /\ n = b * q
  BY DivMod
<1> HIDE DEF q, j
<1>3. n = a * (j * q) /\ j * q \in Int
  BY <1>1, <1>2
<1> QED BY <1>3, MultMod

-----------------------------------------------------------------------------
(* Types.                                                                   *)

\* No parameter is set at first.
LEMMA EmptyParams ==
  <<>> \in [DOMAIN <<>> -> Texts] /\ DOMAIN <<>> \subseteq STRING
OBVIOUS

\* What is extracted from an option is an integer.
LEMMA NumbersGiven ==
  ASSUME TypeOK, NEW short, NEW long, NEW default \in Int
  PROVE  NumberGiven(short, long, default) \in Int
<1>1. CASE {short, long} \cap DOMAIN params = {}
  BY <1>1 DEF NumberGiven
<1>2. CASE {short, long} \cap DOMAIN params # {}
  <2>1. TextOf(short, long, "") \in Texts
    BY <1>2 DEF TextOf, TypeOK
  <2> QED
    BY <1>2, <2>1, TextsAssumption DEF NumberGiven
<1> QED
  BY <1>1, <1>2

\* The numbers main() computes are natural numbers: they are taken modulo 2^64.
LEMMA Numbers ==
  ASSUME TypeOK
  PROVE  /\ PageSize \in Nat /\ FullBufferSize \in Nat
         /\ TotalWorkload \in Nat /\ LogEntrySize \in Nat
         /\ Mounts \in Seq(Texts)
<1>2. SizeT \in Nat \ {0} /\ GiB \in Int /\ KiB4 \in Int /\ LogEntry \in Int
  BY UnitsAssumption
<1>3. PageSize \in Nat
  <2>1. NumberGiven("p", "pagesize", KiB4) \in Int
    BY <1>2, NumbersGiven
  <2> QED
    BY <2>1, <1>2, Reduced, Zenon DEF PageSize
<1>4. FullBufferSize \in Nat
  <2>1. NumberGiven("b", "buffersize", 1) \in Int
    BY NumbersGiven
  <2>2. NumberGiven("b", "buffersize", 1) * GiB \in Int
    BY <2>1, <1>2
  <2> QED
    BY <2>2, <1>2, Reduced, Zenon DEF FullBufferSize
<1>5. TotalWorkload \in Nat
  <2>1. NumberGiven("t", "total", 8) \in Int
    BY NumbersGiven
  <2>2. NumberGiven("t", "total", 8) * GiB \in Int
    BY <2>1, <1>2
  <2> QED
    BY <2>2, <1>2, Reduced, Zenon DEF TotalWorkload
<1>7. LogEntrySize \in Nat
  <2>1. NumberGiven("le", "le", LogEntry) \in Int
    BY <1>2, NumbersGiven
  <2> QED
    BY <2>1, <1>2, Reduced, Zenon DEF LogEntrySize
<1>6. Mounts \in Seq(Texts)
  <2>1. ASSUME NEW k \in 1 .. Len(pos) - 1
        PROVE  args[pos[k + 1]].text \in Texts
    <3>1. pos \in Seq(1 .. Len(args)) /\ args \in Seq(Arguments)
      BY DEF TypeOK
    <3>2. k + 1 \in 1 .. Len(pos)
      BY <3>1
    <3>3. pos[k + 1] \in 1 .. Len(args)
      BY <3>1, <3>2
    <3>4. args[pos[k + 1]] \in Arguments
      BY <3>1, <3>3
    <3> QED
      BY <3>4 DEF Arguments
  <2>2. CASE Len(pos) = 0
    BY <2>2, <2>1 DEF Mounts
  <2>3. CASE Len(pos) > 0
    BY <2>3, <2>1 DEF Mounts, TypeOK
  <2> QED
    BY <2>2, <2>3 DEF TypeOK
<1> QED
  BY <1>3, <1>4, <1>5, <1>6, <1>7

\* Dividing by a positive number makes a natural number no larger.
LEMMA Quotient ==
  ASSUME NEW n \in Nat, NEW m \in Nat \ {0}
  PROVE  n \div m \in Nat /\ (n \div m) * m <= n /\ n \div m <= n
OBVIOUS

\* The size of a log file is a natural number.
LEMMA LogFileSizes ==
  ASSUME TypeOK, NEW d \in Dirs
  PROVE  LogFileSize(d) \in Nat
<1>1. Created(d) \in Nat
  BY DEF Created, TypeOK, Missing
<1>2. TotalWorkload \in Nat /\ LogEntrySize \in Nat
  BY Numbers
<1>3. Logged \in Nat
  <2>1. CASE LogEntrySize = 0
    BY <2>1 DEF Logged
  <2>2. CASE LogEntrySize # 0
    <3>1. TotalWorkload \div LogEntrySize \in Nat
      BY <1>2, <2>2, Quotient
    <3> QED
      BY <3>1, <1>2, <2>2 DEF Logged
  <2> QED
    BY <2>1, <2>2
<1>4. MiB \in Nat
  BY UnitsAssumption
<1>5. CASE Engine \in {"LINUX_PREALLOC", "LIBPMEM2", "LIBPMEM"}
  BY <1>5, <1>2, <1>4 DEF LogFileSize
<1>6. CASE Engine \in {"LIBPMEM2_PF", "LIBPMEM_PF"}
  BY <1>6, <1>1 DEF LogFileSize
<1>7. CASE Engine = "LINUX_PREFAULT"
  BY <1>7, <1>1, <1>3 DEF LogFileSize
<1>8. CASE Engine \notin {"LINUX_PREALLOC", "LIBPMEM2", "LIBPMEM", "LIBPMEM2_PF",
                          "LIBPMEM_PF", "LINUX_PREFAULT"}
  BY <1>8, <1>2, <1>3 DEF LogFileSize
<1> QED
  BY <1>5, <1>6, <1>7, <1>8

\* The full size of the buffers is a number of whole GiB.
LEMMA FullSizeDivides ==
  ASSUME TypeOK
  PROVE  /\ FullBufferSize % GiB = 0 /\ FullBufferSize % MiB = 0
         /\ FullBufferSize % KiB4 = 0 /\ FullBufferSize % Incs = 0
         /\ InitializedSize = FullBufferSize
<1>1. FullBufferSize \in Nat
  BY Numbers
<1>2. FullBufferSize % GiB = 0
  <2>1. NumberGiven("b", "buffersize", 1) \in Int
    BY NumbersGiven
  <2> QED
    BY <2>1, UnitsAssumption, MultipleModulo DEF FullBufferSize
<1>3. FullBufferSize % MiB = 0
  <2>1. FullBufferSize \in Int /\ MiB \in Nat \ {0} /\ GiB \in Nat \ {0} /\ GiB % MiB = 0
    BY <1>1, UnitsAssumption
  <2> QED
    BY <2>1, <1>2, DividesAll, Zenon
<1>4. FullBufferSize % KiB4 = 0
  <2>1. FullBufferSize \in Int /\ KiB4 \in Nat \ {0} /\ MiB \in Nat \ {0} /\ MiB % KiB4 = 0
    BY <1>1, UnitsAssumption
  <2> QED
    BY <2>1, <1>3, DividesAll, Zenon
<1>5. FullBufferSize % Incs = 0
  <2>1. FullBufferSize \in Int /\ Incs \in Nat \ {0} /\ KiB4 \in Nat \ {0} /\ KiB4 % Incs = 0
    BY <1>1, UnitsAssumption
  <2> QED
    BY <2>1, <1>4, DividesAll, Zenon
<1>6. InitializedSize = FullBufferSize
  <2>1. FullBufferSize \div MiB \in Int
        /\ FullBufferSize = MiB * (FullBufferSize \div MiB) + (FullBufferSize % MiB)
    BY <1>1, UnitsAssumption, DivMod
  <2> QED
    BY <2>1, <1>1, <1>3, UnitsAssumption DEF InitializedSize
<1> QED
  BY <1>2, <1>3, <1>4, <1>5, <1>6

\* The share of a mount, in bytes and in pages, is within the full size.
LEMMA Shares ==
  ASSUME TypeOK, Divides
  PROVE  /\ BufferSize \in Nat /\ BufferSize <= FullBufferSize
         /\ PagesPerBuffer * PageSize \in Nat
         /\ PagesPerBuffer * PageSize <= BufferSize
<1>1. /\ FullBufferSize \in Nat /\ Len(Mounts) \in Nat \ {0}
      /\ PageSize \in Nat \ {0}
  BY Numbers DEF Divides
<1>2. BufferSize \in Nat /\ BufferSize <= FullBufferSize
  BY <1>1, Quotient DEF BufferSize
<1>3. PagesPerBuffer \in Nat /\ PagesPerBuffer * PageSize <= BufferSize
  BY <1>1, <1>2, Quotient DEF PagesPerBuffer
<1> QED
  BY <1>1, <1>2, <1>3

\* A byte in a block of length b that begins below a multiple of b is below it.
LEMMA BelowMultiple ==
  ASSUME NEW b \in Nat \ {0}, NEW q \in Int, NEW n \in Int,
         n % b = 0, q * b < n, NEW p \in 0 .. b - 1
  PROVE  q * b + p < n
<1> DEFINE u == n \div b
<1>1. u \in Int /\ n = b * u
  BY DivMod
<1> HIDE DEF u
<1>2. ~(u - q <= 0)
  <2> SUFFICES ASSUME u - q <= 0 PROVE FALSE
    OBVIOUS
  <2>1. b * (u - q) <= b * 0
    BY <1>1
  <2>2. b * (u - q) = b * u - q * b
    BY <1>1
  <2> QED
    BY <2>1, <2>2, <1>1
<1>3. b * (u - q) >= b * 1
  BY <1>1, <1>2
<1>4. b * (u - q) = b * u - q * b
  BY <1>1
<1> QED
  BY <1>1, <1>3, <1>4

-----------------------------------------------------------------------------
(* Type correctness.                                                        *)

\* Types hold at first.
LEMMA InitType == Init => TypeOK
<1> SUFFICES ASSUME Init PROVE TypeOK
  OBVIOUS
<1>1. params \in [DOMAIN params -> Texts] /\ DOMAIN params \subseteq STRING
  BY EmptyParams DEF Init
<1> QED
  BY <1>1 DEF Init, TypeOK, Missing

\* A parameter that is inserted keeps the types.
LEMMA InsertType ==
  ASSUME TypeOK, NEW name \in STRING, NEW text \in Texts
  PROVE  /\ Insert(name, text) \in [DOMAIN Insert(name, text) -> Texts]
         /\ DOMAIN Insert(name, text) \subseteq STRING
BY DEF TypeOK, Insert

\* Every step keeps to types.
LEMMA TypeStep == TypeOK /\ [Next]_vars => TypeOK'
<1> SUFFICES ASSUME TypeOK, [Next]_vars PROVE TypeOK'
  OBVIOUS
<1>1. i \in 1 .. Len(args) + 1 /\ Len(args) \in Nat /\ args \in Seq(Arguments)
  BY DEF TypeOK
<1>2. CASE Start
  <2>1. args' \in Seq(Arguments)
    BY <1>2, CommandsAssumption DEF Start
  <2>2. params' \in [DOMAIN params' -> Texts] /\ DOMAIN params' \subseteq STRING
    BY <1>2, EmptyParams DEF Start
  <2> QED
    BY <1>2, <2>1, <2>2 DEF Start, TypeOK
<1>3. CASE ParsePositional
  BY <1>1, <1>3 DEF ParsePositional, Parsing, TypeOK, files
<1>4. CASE ParseAssignment
  <2>1. args[i] \in Arguments
    BY <1>1, <1>4 DEF ParseAssignment, Parsing
  <2>2. args[i].name \in STRING /\ args[i].text \in Texts
    BY <2>1 DEF Arguments
  <2>3. params' \in [DOMAIN params' -> Texts] /\ DOMAIN params' \subseteq STRING
    BY <1>4, <2>2, InsertType DEF ParseAssignment
  <2> QED
    BY <1>1, <1>4, <2>3 DEF ParseAssignment, Parsing, TypeOK, files
<1>5. CASE ParseParam
  <2>1. i + 1 <= Len(args)
    BY <1>1, <1>5 DEF ParseParam, IsFollowed
  <2>2. args[i] \in Arguments /\ args[i + 1] \in Arguments
    BY <1>1, <2>1
  <2>3. args[i].name \in STRING /\ args[i + 1].text \in Texts
    BY <2>2 DEF Arguments
  <2>4. params' \in [DOMAIN params' -> Texts] /\ DOMAIN params' \subseteq STRING
    BY <1>5, <2>3, InsertType DEF ParseParam
  <2> QED
    BY <1>1, <1>5, <2>1, <2>4 DEF ParseParam, AfterValue, TypeOK, files
<1>6. CASE ParseFlag
  <2>1. args[i] \in Arguments
    BY <1>1, <1>6 DEF ParseFlag, Parsing
  <2>2. args[i].name \in STRING
    BY <2>1 DEF Arguments
  <2> QED
    BY <1>1, <1>6, <2>2 DEF ParseFlag, Parsing, TypeOK, files
<1>7. CASE Configure
  BY <1>7 DEF Configure, Mode, TypeOK, files, Ended
<1>8. CASE Initialize
  <2>1. FullBufferSize \in Nat /\ InitializedSize \in Nat
    BY Numbers, FullSizeDivides
  <2> QED
    BY <1>8, <2>1 DEF Initialize, TypeOK, Ended
<1>9. CASE Scramble
  <2>1. PICK p \in 0 .. Incs - 1 :
          touched' = [d \in Dirs |-> IF d \in Scrambled THEN LastBlock(BufferSize) + p
                                                        ELSE -1]
    BY <1>9 DEF Scramble
  <2>2. ASSUME NEW d \in Scrambled
        PROVE  LastBlock(BufferSize) + p \in Nat
    <3>1. Len(Mounts) \in Nat \ {0}
      <4>1. Len(pos) - 1 >= 1
        BY <2>2 DEF Scrambled, MountDirs, TypeOK
      <4>2. 1 \in DOMAIN Mounts
        BY <4>1, Numbers DEF Mounts, TypeOK
      <4>3. Mounts \in Seq(Texts)
        BY Numbers
      <4> QED
        BY <4>2, <4>3
    <3>2. BufferSize \in Nat \ {0}
      BY <2>2, <3>1, Numbers, Quotient DEF Scrambled, BufferSize
    <3>3. Incs \in Nat \ {0} /\ BufferSize - 1 \in Nat
      BY <3>2, UnitsAssumption
    <3>4. (BufferSize - 1) \div Incs \in Nat
      BY <3>3, Quotient
    <3> QED
      BY <3>3, <3>4 DEF LastBlock
  <2> QED
    BY <1>9, <2>1, <2>2 DEF Scramble, TypeOK, Ended
<1>10. CASE OpenBuffers
  <2>1. size' \in [Dirs -> Nat \cup {Missing}]
    BY <1>10 DEF OpenBuffers, Created, TypeOK
  <2>2. pc' \in Ended
    BY <1>10 DEF OpenBuffers, RunEnds, Ended
  <2> QED
    BY <1>10, <2>1, <2>2 DEF OpenBuffers, TypeOK
<1>11. CASE AppendToLog
  <2>1. LogFileSize(Mounts[1]) \in Nat
    BY <1>11, LogFileSizes, Numbers DEF AppendToLog
  <2> QED
    BY <1>11, <2>1 DEF AppendToLog, TypeOK, Ended
<1>12. CASE AppendFails
  <2>1. size' \in [Dirs -> Nat \cup {Missing}] /\ initialised' \in [Dirs -> Nat]
    <3>1. CASE UNCHANGED <<size, initialised>>
      BY <3>1 DEF TypeOK
    <3>2. CASE /\ size' = [size EXCEPT ![Mounts[1]] = Missing]
               /\ initialised' = [initialised EXCEPT ![Mounts[1]] = 0]
      BY <3>2 DEF TypeOK
    <3> QED
      BY <1>12, <3>1, <3>2 DEF AppendFails
  <2> QED
    BY <1>12, <2>1 DEF AppendFails, TypeOK, Ended
<1>13. CASE Return
  <2>1. params' \in [DOMAIN params' -> Texts] /\ DOMAIN params' \subseteq STRING
    BY <1>13, EmptyParams DEF Return
  <2> QED
    BY <1>13, <2>1 DEF Return, TypeOK
<1>14. CASE UNCHANGED vars
  BY <1>14 DEF vars, files, TypeOK
<1> QED
  BY <1>2, <1>3, <1>4, <1>5, <1>6, <1>7, <1>8, <1>9, <1>10, <1>11, <1>12, <1>13, <1>14
     DEF Next

\* The command line of bufman, the files and everything in between always have
\* their types, whatever command lines follow each other.
THEOREM TypeCorrect == Spec => []TypeOK
<1>1. Init => TypeOK
  BY InitType
<1>2. TypeOK /\ [Next]_vars => TypeOK'
  BY TypeStep
<1> QED
  BY <1>1, <1>2, PTL DEF Spec

-----------------------------------------------------------------------------
(* The parser.                                                              *)

\* the loop is not at the value of an option
AtHead == i <= Len(args) => ~IsValue(i)

\* main() looks at the options when all arguments have been parsed
ParsedAll == pc \notin {"idle", "parse"} => i > Len(args)

ParserInv ==
  TypeOK /\ AtHead /\ ParsedAsWritten /\ ParsedAll

\* A step parses an argument, begins or ends a command, or is none of the parser's.
LEMMA StepKinds == TypeOK /\ [Next]_vars => ParseStep \/ Resets \/ UNCHANGED parser
<1> SUFFICES ASSUME TypeOK, [Next]_vars PROVE ParseStep \/ Resets \/ UNCHANGED parser
  OBVIOUS
<1>1. CASE Start
  BY <1>1, CommandsAssumption DEF Start, Resets
<1>2. CASE Return
  <2>1. <<>> \in Seq(Arguments)
    OBVIOUS
  <2> QED
    BY <1>2, <2>1 DEF Return, Resets
<1>3. CASE ParseStep
  BY <1>3
<1>4. CASE Configure \/ Initialize \/ Scramble
  BY <1>4 DEF Configure, Initialize, Scramble, parser
<1>5. CASE OpenBuffers \/ AppendToLog \/ AppendFails
  BY <1>5 DEF OpenBuffers, AppendToLog, AppendFails, parser
<1>6. CASE UNCHANGED vars
  BY <1>6 DEF vars, parser
<1> QED
  BY <1>1, <1>2, <1>3, <1>4, <1>5, <1>6 DEF Next, ParseStep

\* The loop never stands at the value of an option.
LEMMA AtHeadStep == TypeOK /\ AtHead /\ [Next]_vars => AtHead'
<1> SUFFICES ASSUME TypeOK, AtHead, [Next]_vars PROVE AtHead'
  OBVIOUS
<1>1. i \in 1 .. Len(args) + 1 /\ Len(args) \in Nat
  BY DEF TypeOK
<1>2. CASE ParsePositional
  BY <1>1, <1>2 DEF ParsePositional, AtHead, IsValue
<1>3. CASE ParseAssignment
  BY <1>1, <1>3 DEF ParseAssignment, AtHead, IsValue
<1>4. CASE ParseParam
  BY <1>1, <1>4 DEF ParseParam, AfterValue, IsFollowed, AtHead, IsValue
<1>5. CASE ParseFlag
  BY <1>1, <1>5 DEF ParseFlag, TakesValue, IsFollowed, AtHead, IsValue
<1>6. CASE Resets
  BY <1>6 DEF Resets, AtHead, IsValue
<1>7. CASE UNCHANGED parser
  BY <1>7 DEF parser, AtHead, IsValue
<1> QED
  BY <1>2, <1>3, <1>4, <1>5, <1>6, <1>7, StepKinds DEF ParseStep

\* The free words before the place of the loop are the mounts.
LEMMA MountsStep ==
  TypeOK /\ AtHead /\ MountsAreFreeWords /\ [Next]_vars => MountsAreFreeWords'
<1> SUFFICES ASSUME TypeOK, AtHead, MountsAreFreeWords, [Next]_vars
             PROVE  MountsAreFreeWords'
  OBVIOUS
<1> DEFINE Words == {pos[k] : k \in 1 .. Len(pos)}
<1>1. /\ i \in 1 .. Len(args) + 1 /\ Len(args) \in Nat
      /\ pos \in Seq(1 .. Len(args)) /\ Len(pos) \in Nat
  BY DEF TypeOK
<1>2. CASE ParsePositional
  <2>1. /\ i <= Len(args) /\ ~IsOption(args[i]) /\ i' = i + 1 /\ args' = args
        /\ pos' = Append(pos, i)
    BY <1>2 DEF ParsePositional, Parsing
  <2>2. FreeWords' = FreeWords \cup {i}
    <3>1. ~IsValue(i)
      BY <2>1 DEF AtHead
    <3>2. \A k : IsValue(k)' = IsValue(k)
      BY <2>1 DEF IsValue
    <3> QED
      BY <1>1, <2>1, <3>1, <3>2 DEF FreeWords
  <2>3. /\ Len(pos') = Len(pos) + 1 /\ pos'[Len(pos) + 1] = i
        /\ \A k \in 1 .. Len(pos) : pos'[k] = pos[k]
    BY <1>1, <2>1
  <2>4. {pos'[k] : k \in 1 .. Len(pos')} = Words \cup {i}
    BY <1>1, <2>3
  <2>5. \A k \in 1 .. Len(pos) : pos[k] \in Nat /\ pos[k] < i
    BY <1>1 DEF MountsAreFreeWords, FreeWords
  <2>6. \A j, k \in 1 .. Len(pos') : j < k => pos'[j] < pos'[k]
    <3> SUFFICES ASSUME NEW j \in 1 .. Len(pos'), NEW k \in 1 .. Len(pos'), j < k
                 PROVE  pos'[j] < pos'[k]
      OBVIOUS
    <3>1. j \in 1 .. Len(pos)
      BY <1>1, <2>3
    <3>2. CASE k = Len(pos) + 1
      BY <2>3, <2>5, <3>1, <3>2
    <3>3. CASE k \in 1 .. Len(pos)
      BY <2>3, <3>1, <3>3 DEF MountsAreFreeWords
    <3> QED
      BY <1>1, <2>3, <3>2, <3>3
  <2> QED
    BY <2>2, <2>4, <2>6 DEF MountsAreFreeWords
<1>3. ASSUME FreeWords' = FreeWords, pos' = pos
      PROVE  MountsAreFreeWords'
  BY <1>3 DEF MountsAreFreeWords
<1>4. CASE ParseAssignment \/ ParseFlag
  <2>1. /\ i <= Len(args) /\ IsOption(args[i]) /\ i' = i + 1 /\ args' = args
        /\ pos' = pos
    BY <1>4 DEF ParseAssignment, ParseFlag, Parsing
  <2>2. \A k : IsValue(k)' = IsValue(k)
    BY <2>1 DEF IsValue
  <2>3. FreeWords' = FreeWords
    BY <1>1, <2>1, <2>2 DEF FreeWords
  <2> QED
    BY <1>3, <2>1, <2>3
<1>5. CASE ParseParam
  <2>1. /\ i < Len(args) /\ IsOption(args[i]) /\ ~args[i].assigns
        /\ args[i].name \in Registered /\ ~IsOption(args[i + 1])
        /\ i' = i + 2 /\ args' = args /\ pos' = pos
    BY <1>5 DEF ParseParam, TakesValue, IsFollowed, AfterValue
  <2>2. \A k : IsValue(k)' = IsValue(k)
    BY <2>1 DEF IsValue
  <2>3. IsValue(i + 1)
    BY <1>1, <2>1 DEF IsValue
  <2>4. FreeWords' = FreeWords
    BY <1>1, <2>1, <2>2, <2>3 DEF FreeWords
  <2> QED
    BY <1>3, <2>1, <2>4
<1>6. CASE Resets
  <2>1. FreeWords' = {} /\ {pos'[k] : k \in 1 .. Len(pos')} = {} /\ Len(pos') = 0
    BY <1>6 DEF Resets, FreeWords
  <2> QED
    BY <2>1 DEF MountsAreFreeWords
<1>7. CASE UNCHANGED parser
  <2>1. args' = args /\ i' = i /\ pos' = pos
    BY <1>7 DEF parser
  <2>2. FreeWords' = FreeWords
    BY <2>1 DEF FreeWords, IsValue
  <2> QED
    BY <1>3, <2>1, <2>2
<1> QED
  BY <1>2, <1>4, <1>5, <1>6, <1>7, StepKinds DEF ParseStep

\* the argument at k gives some option its value
GivesAny(k) == (IsOption(args[k]) /\ args[k].assigns) \/ IsValue(k)

\* A step over arguments that give no value.
LEMMA ValuesKept ==
  ASSUME TypeOK, FirstValueCounts, ValuesKnown, args' = args, params' = params,
         NEW m \in Nat, i' = m, i <= m, \A k \in i .. m - 1 : ~GivesAny(k)
  PROVE  FirstValueCounts' /\ ValuesKnown'
<1>1. i \in Nat \ {0}
  BY DEF TypeOK
<1>2. /\ \A k : IsValue(k)' = IsValue(k)
      /\ \A k, name : Gives(k, name)' = Gives(k, name)
  BY DEF IsValue, Gives
<1>3. FirstValueCounts'
  <2> SUFFICES ASSUME NEW name \in DOMAIN params
               PROVE  \E k \in 1 .. m - 1 :
                        /\ Gives(k, name)
                        /\ params[name] = args[k].text
                        /\ \A j \in 1 .. k - 1 : ~Gives(j, name)
    BY <1>2 DEF FirstValueCounts
  <2>1. PICK k \in 1 .. i - 1 :
          /\ Gives(k, name)
          /\ params[name] = args[k].text
          /\ \A j \in 1 .. k - 1 : ~Gives(j, name)
    BY DEF FirstValueCounts
  <2>2. k \in 1 .. m - 1
    BY <1>1, <2>1
  <2> QED
    BY <2>1, <2>2
<1>4. ValuesKnown'
  <2> SUFFICES ASSUME NEW j \in 1 .. m - 1
               PROVE  /\ IsOption(args[j]) /\ args[j].assigns
                           => args[j].name \in DOMAIN params
                      /\ IsValue(j) => args[j - 1].name \in DOMAIN params
    BY <1>2 DEF ValuesKnown
  <2>1. CASE j \in 1 .. i - 1
    BY <2>1 DEF ValuesKnown
  <2>2. CASE j \in i .. m - 1
    BY <2>2 DEF GivesAny
  <2>3. j \in 1 .. i - 1 \/ j \in i .. m - 1
    BY <1>1
  <2> QED
    BY <2>1, <2>2, <2>3
<1> QED
  BY <1>3, <1>4

\* A step over arguments of which that at k gives the option n its value.
LEMMA ValueInserted ==
  ASSUME TypeOK, FirstValueCounts, ValuesKnown, args' = args,
         NEW m \in Nat, i' = m, NEW k \in i .. m - 1, NEW n,
         \A j \in i .. m - 1 : j # k => ~GivesAny(j),
         \/ IsOption(args[k]) /\ args[k].assigns /\ args[k].name = n
         \/ IsValue(k) /\ args[k - 1].name = n,
         params' = Insert(n, args[k].text)
  PROVE  FirstValueCounts' /\ ValuesKnown'
<1>1. i \in Nat \ {0} /\ k \in Nat /\ i <= k /\ k <= m - 1
  BY DEF TypeOK
<1>2. /\ \A j : IsValue(j)' = IsValue(j)
      /\ \A j, name : Gives(j, name)' = Gives(j, name)
  BY DEF IsValue, Gives
<1>3. /\ DOMAIN params' = DOMAIN params \cup {n}
      /\ \A name \in DOMAIN params : params'[name] = params[name]
      /\ n \notin DOMAIN params => params'[n] = args[k].text
  BY DEF Insert
<1>4. Gives(k, n)
  BY <1>1 DEF Gives, IsValue
<1>5. ASSUME NEW j \in 1 .. k - 1, n \notin DOMAIN params
      PROVE  ~Gives(j, n)
  <2>1. CASE j \in i .. m - 1
    <3>1. j # k
      BY <1>1
    <3> QED
      BY <2>1, <3>1 DEF GivesAny, Gives
  <2>2. CASE j \in 1 .. i - 1
    BY <1>5, <2>2 DEF ValuesKnown, Gives
  <2>3. j \in 1 .. i - 1 \/ j \in i .. m - 1
    BY <1>1
  <2> QED
    BY <2>1, <2>2, <2>3
<1>6. FirstValueCounts'
  <2> SUFFICES ASSUME NEW name \in DOMAIN params \cup {n}
               PROVE  \E l \in 1 .. m - 1 :
                        /\ Gives(l, name)
                        /\ params'[name] = args[l].text
                        /\ \A j \in 1 .. l - 1 : ~Gives(j, name)
    BY <1>2, <1>3 DEF FirstValueCounts
  <2>1. CASE name \in DOMAIN params
    <3>1. PICK l \in 1 .. i - 1 :
            /\ Gives(l, name)
            /\ params[name] = args[l].text
            /\ \A j \in 1 .. l - 1 : ~Gives(j, name)
      BY <2>1 DEF FirstValueCounts
    <3>2. l \in 1 .. m - 1
      BY <1>1, <3>1
    <3> QED
      BY <1>3, <2>1, <3>1, <3>2
  <2>2. CASE name = n /\ n \notin DOMAIN params
    <3>1. k \in 1 .. m - 1
      BY <1>1
    <3> QED
      BY <1>3, <1>4, <1>5, <2>2, <3>1
  <2> QED
    BY <2>1, <2>2
<1>7. ValuesKnown'
  <2> SUFFICES ASSUME NEW j \in 1 .. m - 1
               PROVE  /\ IsOption(args[j]) /\ args[j].assigns
                           => args[j].name \in DOMAIN params'
                      /\ IsValue(j) => args[j - 1].name \in DOMAIN params'
    BY <1>2 DEF ValuesKnown
  <2>1. CASE j \in 1 .. i - 1
    BY <1>3, <2>1 DEF ValuesKnown
  <2>2. CASE j \in i .. m - 1 /\ j # k
    BY <2>2 DEF GivesAny
  <2>3. CASE j = k
    BY <1>3, <2>3 DEF IsValue
  <2>4. j \in 1 .. i - 1 \/ (j \in i .. m - 1 /\ j # k) \/ j = k
    BY <1>1
  <2> QED
    BY <2>1, <2>2, <2>3, <2>4
<1> QED
  BY <1>6, <1>7

\* The first value that is given to an option stays in params.
LEMMA ValuesStep ==
  TypeOK /\ AtHead /\ FirstValueCounts /\ ValuesKnown /\ [Next]_vars
    => FirstValueCounts' /\ ValuesKnown'
<1> SUFFICES ASSUME TypeOK, AtHead, FirstValueCounts, ValuesKnown, [Next]_vars
             PROVE  FirstValueCounts' /\ ValuesKnown'
  OBVIOUS
<1>1. i \in 1 .. Len(args) + 1 /\ Len(args) \in Nat
  BY DEF TypeOK
<1>2. CASE ParsePositional
  <2>1. /\ i <= Len(args) /\ ~IsOption(args[i]) /\ i' = i + 1
        /\ args' = args /\ params' = params
    BY <1>2 DEF ParsePositional, Parsing
  <2>2. \A k \in i .. i' - 1 : ~GivesAny(k)
    BY <1>1, <2>1 DEF GivesAny, AtHead
  <2> QED
    BY <1>1, <2>1, <2>2, ValuesKept
<1>3. CASE ParseFlag
  <2>1. /\ IsOption(args[i]) /\ ~args[i].assigns /\ i' = i + 1
        /\ args' = args /\ params' = params
    BY <1>3 DEF ParseFlag
  <2>2. \A k \in i .. i' - 1 : ~GivesAny(k)
    BY <1>1, <2>1 DEF GivesAny, IsValue
  <2> QED
    BY <1>1, <2>1, <2>2, ValuesKept
<1>4. CASE ParseAssignment
  <2>1. /\ IsOption(args[i]) /\ args[i].assigns /\ i' = i + 1
        /\ args' = args /\ params' = Insert(args[i].name, args[i].text)
    BY <1>4 DEF ParseAssignment
  <2>2. i \in i .. i' - 1 /\ i' \in Nat
    BY <1>1, <2>1
  <2>3. \A j \in i .. i' - 1 : j # i => ~GivesAny(j)
    BY <1>1, <2>1
  <2> QED
    BY <2>1, <2>2, <2>3, ValueInserted
<1>5. CASE ParseParam
  <2>1. /\ i < Len(args) /\ IsOption(args[i]) /\ ~args[i].assigns
        /\ args[i].name \in Registered /\ ~IsOption(args[i + 1])
        /\ i' = i + 2 /\ args' = args
        /\ params' = Insert(args[i].name, args[i + 1].text)
    BY <1>5 DEF ParseParam, TakesValue, IsFollowed, AfterValue
  <2>2. i + 1 \in i .. i' - 1 /\ i' \in Nat
    BY <1>1, <2>1
  <2>3. IsValue(i + 1) /\ args[(i + 1) - 1].name = args[i].name
    BY <1>1, <2>1 DEF IsValue
  <2>4. \A j \in i .. i' - 1 : j # i + 1 => ~GivesAny(j)
    BY <1>1, <2>1 DEF GivesAny, IsValue
  <2> QED
    BY <2>1, <2>2, <2>3, <2>4, ValueInserted
<1>6. CASE Resets
  BY <1>6 DEF Resets, FirstValueCounts, ValuesKnown
<1>7. CASE UNCHANGED parser
  <2>1. args' = args /\ i' = i /\ params' = params
    BY <1>7 DEF parser
  <2> QED
    BY <1>1, <2>1, ValuesKept
<1> QED
  BY <1>2, <1>3, <1>4, <1>5, <1>6, <1>7, StepKinds DEF ParseStep

\* The options without a value are in flags, and nothing else.
LEMMA FlagsStep ==
  TypeOK /\ AtHead /\ FlagsAsWritten /\ [Next]_vars => FlagsAsWritten'
<1> SUFFICES ASSUME TypeOK, AtHead, FlagsAsWritten, [Next]_vars PROVE FlagsAsWritten'
  OBVIOUS
<1>1. i \in 1 .. Len(args) + 1 /\ Len(args) \in Nat
  BY DEF TypeOK
<1> DEFINE Before(n) == {j \in 1 .. n - 1 : IsFlag(j)}
           Names(n) == {args[k].name : k \in Before(n)}
<1>2. flags = Names(i)
  BY DEF FlagsAsWritten
<1>3. ASSUME args' = args PROVE Names(i)' = Names(i')
  <2>1. \A k : IsFlag(k)' = IsFlag(k)
    BY <1>3 DEF IsFlag, IsBare, IsValue
  <2> QED
    BY <1>3, <2>1
<1>4. ASSUME args' = args, flags' = flags, Before(i') = Before(i)
      PROVE  FlagsAsWritten'
  BY <1>2, <1>3, <1>4 DEF FlagsAsWritten
<1>5. CASE ParsePositional
  <2>1. /\ ~IsOption(args[i]) /\ i' = i + 1 /\ args' = args /\ flags' = flags
    BY <1>5 DEF ParsePositional
  <2>2. Before(i') = Before(i)
    BY <1>1, <2>1 DEF IsFlag, IsBare
  <2> QED
    BY <1>4, <2>1, <2>2
<1>6. CASE ParseAssignment
  <2>1. /\ args[i].assigns /\ i' = i + 1 /\ args' = args /\ flags' = flags
    BY <1>6 DEF ParseAssignment
  <2>2. Before(i') = Before(i)
    BY <1>1, <2>1 DEF IsFlag, IsBare
  <2> QED
    BY <1>4, <2>1, <2>2
<1>7. CASE ParseParam
  <2>1. /\ i < Len(args) /\ IsOption(args[i]) /\ ~args[i].assigns
        /\ args[i].name \in Registered /\ ~IsOption(args[i + 1])
        /\ i' = i + 2 /\ args' = args /\ flags' = flags
    BY <1>7 DEF ParseParam, TakesValue, IsFollowed, AfterValue
  <2>2. ~IsFlag(i) /\ ~IsFlag(i + 1)
    BY <1>1, <2>1 DEF IsFlag, IsBare, IsValue
  <2>3. Before(i') = Before(i)
    BY <1>1, <2>1, <2>2
  <2> QED
    BY <1>4, <2>1, <2>3
<1>8. CASE ParseFlag
  <2>1. /\ i <= Len(args) /\ IsBare(i) /\ i' = i + 1 /\ args' = args
        /\ flags' = flags \cup {args[i].name}
    BY <1>8 DEF ParseFlag, Parsing, IsBare
  <2>2. IsFlag(i)
    BY <1>1, <1>8, <2>1 DEF ParseFlag, TakesValue, IsFollowed, IsFlag, IsBare, IsValue
  <2>3. Before(i + 1) = Before(i) \cup {i}
    BY <1>1, <2>2
  <2>4. Names(i + 1) = Names(i) \cup {args[i].name}
    BY <2>3
  <2>5. flags' = Names(i)'
    BY <1>2, <1>3, <2>1, <2>4
  <2> QED
    BY <2>5 DEF FlagsAsWritten
<1>9. CASE Resets
  <2>1. flags' = {} /\ i' = 1
    BY <1>9 DEF Resets
  <2> QED
    BY <2>1 DEF FlagsAsWritten
<1>10. CASE UNCHANGED parser
  <2>1. args' = args /\ i' = i /\ flags' = flags
    BY <1>10 DEF parser
  <2> QED
    BY <1>4, <2>1
<1> QED
  BY <1>5, <1>6, <1>7, <1>8, <1>9, <1>10, StepKinds DEF ParseStep

\* main() looks at the options only behind the last argument.
LEMMA ParsedAllStep == TypeOK /\ ParsedAll /\ [Next]_vars => ParsedAll'
<1> SUFFICES ASSUME TypeOK, ParsedAll, [Next]_vars PROVE ParsedAll'
  OBVIOUS
<1>1. CASE Start \/ ParsePositional \/ ParseAssignment \/ ParseParam \/ ParseFlag
  BY <1>1 DEF Start, ParsePositional, ParseAssignment, ParseParam, ParseFlag, Parsing,
              TakesValue, ParsedAll
<1>2. CASE Configure
  BY <1>2 DEF Configure, ParsedAll
<1>3. CASE Initialize \/ Scramble
  BY <1>3 DEF Initialize, Scramble, ParsedAll
<1>4. CASE OpenBuffers \/ AppendToLog \/ AppendFails
  BY <1>4 DEF OpenBuffers, RunEnds, AppendToLog, AppendFails, ParsedAll
<1>5. CASE Return
  BY <1>5 DEF Return, ParsedAll
<1>6. CASE UNCHANGED vars
  BY <1>6 DEF vars, ParsedAll
<1> QED
  BY <1>1, <1>2, <1>3, <1>4, <1>5, <1>6 DEF Next

\* The parser has read nothing at first.
LEMMA ParserInit == Init => ParserInv
<1> SUFFICES ASSUME Init PROVE ParserInv
  OBVIOUS
<1>1. i = 1 /\ pos = <<>> /\ params = <<>> /\ flags = {} /\ pc = "idle"
  BY DEF Init
<1>2. AtHead /\ ValuesKnown /\ FlagsAsWritten /\ ParsedAll
  BY <1>1 DEF AtHead, IsValue, ValuesKnown, FlagsAsWritten, ParsedAll
<1>3. MountsAreFreeWords
  BY <1>1 DEF MountsAreFreeWords, FreeWords
<1>4. FirstValueCounts
  BY <1>1 DEF FirstValueCounts
<1> QED
  BY <1>2, <1>3, <1>4, InitType DEF ParserInv, ParsedAsWritten

\* Every step keeps what the parser has read.
LEMMA ParserStep == ParserInv /\ [Next]_vars => ParserInv'
BY TypeStep, AtHeadStep, MountsStep, ValuesStep, FlagsStep, ParsedAllStep
   DEF ParserInv, ParsedAsWritten

\* It has read what was written throughout.
LEMMA ParserInvariant == Spec => []ParserInv
BY ParserInit, ParserStep, PTL DEF Spec

\* Whatever stands on the command line, main() takes the free words for mounts, for
\* the value of an option the first one that it is given, and for flags the options
\* that are given none; it misses none of them and makes none up.
THEOREM ArgumentsParsed == Spec => []ParsedAsWritten
<1>1. ParserInv => ParsedAsWritten
  BY DEF ParserInv
<1> QED
  BY <1>1, ParserInvariant, PTL

\* What --initialize and --scramble put into flags_ is what stands on the line.
LEMMA FlagsGiven ==
  ASSUME ParserInv, i > Len(args), NEW name, name \notin Registered
  PROVE  GotFlag(name) <=> Given(name)
<1>1. i \in 1 .. Len(args) + 1 /\ Len(args) \in Nat
  BY DEF ParserInv, TypeOK
<1>2. 1 .. i - 1 = 1 .. Len(args)
  BY <1>1
<1>3. flags = {args[k].name : k \in {j \in 1 .. Len(args) : IsFlag(j)}}
  BY <1>2 DEF ParserInv, ParsedAsWritten, FlagsAsWritten
<1>4. ASSUME NEW k \in 1 .. Len(args), IsBare(k), args[k].name = name
      PROVE  IsFlag(k)
  BY <1>4, <1>1 DEF IsFlag, IsValue
<1>5. ASSUME NEW k \in 1 .. Len(args), IsFlag(k)
      PROVE  IsBare(k)
  BY <1>5 DEF IsFlag
<1> QED
  BY <1>3, <1>4, <1>5 DEF GotFlag, Given

\* Every step keeps the mode to what the flags say.
LEMMA ModeStep == ParserInv /\ ModeAsGiven /\ [Next]_vars => ModeAsGiven'
<1> SUFFICES ASSUME ParserInv, ModeAsGiven, [Next]_vars PROVE ModeAsGiven'
  OBVIOUS
<1>1. CASE Configure
  <2>1. i > Len(args) /\ args' = args
    BY <1>1 DEF Configure
  <2>2. /\ GotFlag("scramble") <=> Given("scramble")
        /\ GotFlag("initialize") <=> Given("initialize")
    BY <2>1, FlagsGiven DEF Registered
  <2>3. pc' \in {"divided", "crashed"} \/ pc' = Mode
    BY <1>1 DEF Configure
  <2>4. \A name : Given(name)' = Given(name)
    BY <2>1 DEF Given, IsBare
  <2> QED
    BY <2>2, <2>3, <2>4 DEF Mode, ModeAsGiven
<1>2. CASE UNCHANGED vars
  BY <1>2 DEF vars, ModeAsGiven, Given, IsBare
<1>3. CASE pc' \notin {"initialize", "scramble", "workload"}
  BY <1>3 DEF ModeAsGiven
<1>4. CASE Next /\ ~Configure
  <2>1. pc' \notin {"initialize", "scramble", "workload"}
    BY <1>4 DEF Next, Start, ParsePositional, ParseAssignment, ParseParam, ParseFlag,
                Parsing, TakesValue, Initialize, Scramble, OpenBuffers, RunEnds,
                AppendToLog, AppendFails, Return
  <2> QED
    BY <1>3, <2>1
<1> QED
  BY <1>1, <1>2, <1>4

\* Buffers are initialised or scrambled only by a command line that says so, and
\* a workload is started only by one that says neither.
THEOREM ModesAsGiven == Spec => []ModeAsGiven
<1>1. Init => ModeAsGiven
  BY DEF Init, ModeAsGiven
<1> QED
  BY <1>1, ModeStep, ParserInvariant, PTL DEF Spec

-----------------------------------------------------------------------------
(* The files.                                                               *)

\* A file is at least as large as the buffer it was initialised for.
Covered == \A d \in Dirs : initialised[d] > 0 => initialised[d] <= size[d]

\* The modes are reached with mounts and a page size that can be divided by.
Divided == pc \in {"initialize", "scramble", "workload"} => Divides

\* Nothing has been scrambled before the end of --scramble.
Untouched == pc # "done" => \A d \in Dirs : touched[d] = -1

FilesInv == TypeOK /\ Covered /\ Divided /\ Untouched

\* No file has been touched at first.
LEMMA FilesInit == Init => FilesInv
<1> SUFFICES ASSUME Init PROVE FilesInv
  OBVIOUS
<1>1. Covered /\ Divided /\ Untouched
  BY DEF Init, Covered, Divided, Untouched
<1> QED
  BY <1>1, InitType DEF FilesInv

\* A file stays as large as it was initialised for.
LEMMA CoveredStep == FilesInv /\ [Next]_vars => Covered'
<1> SUFFICES ASSUME FilesInv, [Next]_vars PROVE Covered'
  OBVIOUS
<1>1. /\ TypeOK /\ Covered
      /\ size \in [Dirs -> Nat \cup {Missing}] /\ initialised \in [Dirs -> Nat]
  BY DEF FilesInv, TypeOK
<1>2. CASE UNCHANGED <<size, initialised>>
  BY <1>1, <1>2 DEF Covered
<1>3. CASE Initialize
  <2>1. InitializedSize = FullBufferSize /\ FullBufferSize \in Nat
    BY <1>1, FullSizeDivides, Numbers
  <2> QED
    BY <1>1, <1>3, <2>1 DEF Initialize, Covered
<1>4. CASE OpenBuffers
  <2>1. \A d \in Dirs : size'[d] = size[d] \/ (size[d] = Missing /\ size'[d] = 0)
    BY <1>1, <1>4 DEF OpenBuffers, Created
  <2>2. initialised' = initialised
    BY <1>4 DEF OpenBuffers
  <2> QED
    BY <1>1, <2>1, <2>2 DEF Covered, Missing
<1>5. CASE AppendToLog
  BY <1>1, <1>5 DEF AppendToLog, Covered
<1>6. CASE AppendFails
  <2>1. CASE UNCHANGED <<size, initialised>>
    BY <1>2, <2>1
  <2>2. CASE /\ size' = [size EXCEPT ![Mounts[1]] = Missing]
             /\ initialised' = [initialised EXCEPT ![Mounts[1]] = 0]
    BY <1>1, <2>2 DEF Covered
  <2> QED
    BY <1>6, <2>1, <2>2 DEF AppendFails
<1>7. CASE Start \/ Configure \/ Scramble \/ Return
  BY <1>2, <1>7 DEF Start, Configure, Scramble, Return, files
<1>8. CASE ParseStep
  BY <1>2, <1>8 DEF ParseStep, ParsePositional, ParseAssignment, ParseParam, ParseFlag,
                    files
<1>9. CASE UNCHANGED vars
  BY <1>2, <1>9 DEF vars, files
<1> QED
  BY <1>3, <1>4, <1>5, <1>6, <1>7, <1>8, <1>9 DEF Next, ParseStep

\* The modes are reached with mounts and with a page size to divide by.
LEMMA DividedStep == FilesInv /\ [Next]_vars => Divided'
<1> SUFFICES ASSUME FilesInv, [Next]_vars PROVE Divided'
  OBVIOUS
<1>1. CASE Configure
  <2>1. Divides' = Divides
    BY <1>1 DEF Configure, Divides, Mounts, PageSize, NumberGiven, TextOf
  <2> QED
    BY <1>1, <2>1 DEF Configure, Divided
<1>2. CASE UNCHANGED vars
  BY <1>2 DEF vars, FilesInv, Divided, Divides, Mounts, PageSize, NumberGiven, TextOf
<1>3. CASE Next /\ ~Configure
  BY <1>3 DEF Next, Start, ParsePositional, ParseAssignment, ParseParam, ParseFlag,
              Parsing, TakesValue, Initialize, Scramble, OpenBuffers, RunEnds,
              AppendToLog, AppendFails, Return, Divided
<1> QED
  BY <1>1, <1>2, <1>3

\* Nothing counts as scrambled before --scramble is done.
LEMMA UntouchedStep == FilesInv /\ [Next]_vars => Untouched'
<1> SUFFICES ASSUME FilesInv, [Next]_vars PROVE Untouched'
  OBVIOUS
<1>1. CASE Start \/ Return
  BY <1>1 DEF Start, Return, Untouched
<1>2. CASE Initialize \/ Scramble
  BY <1>2 DEF Initialize, Scramble, Untouched
<1>3. CASE ParseStep \/ Configure
  BY <1>3 DEF ParseStep, ParsePositional, ParseAssignment, ParseParam, ParseFlag, Parsing,
              TakesValue, Configure, files, FilesInv, Untouched
<1>4. CASE OpenBuffers \/ AppendToLog \/ AppendFails
  BY <1>4 DEF OpenBuffers, RunEnds, AppendToLog, AppendFails, FilesInv, Untouched
<1>5. CASE UNCHANGED vars
  BY <1>5 DEF vars, files, FilesInv, Untouched
<1> QED
  BY <1>1, <1>2, <1>3, <1>4, <1>5 DEF Next, ParseStep

\* Every step keeps the three together.
LEMMA FilesStep == FilesInv /\ [Next]_vars => FilesInv'
BY TypeStep, CoveredStep, DividedStep, UntouchedStep DEF FilesInv

\* They hold throughout.
LEMMA FilesInvariant == Spec => []FilesInv
BY FilesInit, FilesStep, PTL DEF Spec

\* What is asked of the files, in terms of what a step leaves alone.
LEMMA FitKept ==
  ASSUME UNCHANGED parser, UNCHANGED initialised,
         \A d \in Dirs : Created(d)' = Created(d)
  PROVE  /\ MountDirs' = MountDirs /\ FullBufferSize' = FullBufferSize
         /\ \A d \in MountDirs : FileSuffices(d)' = FileSuffices(d)
<1>1. MountDirs' = MountDirs /\ MountDirs \subseteq Dirs
  BY DEF parser, MountDirs, Mounts
<1>2. /\ FullBufferSize' = FullBufferSize /\ PageSize' = PageSize
      /\ PagesPerBuffer' = PagesPerBuffer
  BY DEF parser, FullBufferSize, PageSize, PagesPerBuffer, BufferSize, Mounts,
         NumberGiven, TextOf
<1> QED
  BY <1>1, <1>2 DEF FileSuffices

\* A file that is too small for the buffer was not initialised for all of it.
LEMMA SmallFile ==
  ASSUME FilesInv, Divides, NEW d \in Dirs, ~FileSuffices(d)
  PROVE  initialised[d] < FullBufferSize
<1>1. /\ PagesPerBuffer * PageSize \in Nat /\ BufferSize \in Nat
      /\ PagesPerBuffer * PageSize <= BufferSize /\ BufferSize <= FullBufferSize
      /\ FullBufferSize \in Nat
  BY Shares, Numbers DEF FilesInv
<1>2. Created(d) \in Nat /\ Created(d) < PagesPerBuffer * PageSize
  BY <1>1 DEF FileSuffices, Created, FilesInv, TypeOK, Missing
<1>3. initialised[d] \in Nat /\ initialised[d] <= Created(d)
  BY DEF FilesInv, Covered, TypeOK, Created, Missing
<1> QED
  BY <1>1, <1>2, <1>3

\* A file that is found too small was not initialised for the whole buffer.
LEMMA FitStep == FilesInv /\ FilesFit /\ [Next]_vars => FilesFit'
<1> DEFINE TooSmall == {d \in MountDirs : ~FileSuffices(d)}
           Fit == TooSmall # {} /\ \A d \in TooSmall : initialised[d] < FullBufferSize
<1> SUFFICES ASSUME FilesInv, FilesFit, [Next]_vars, pc' = "too_small"
             PROVE  Fit'
  BY DEF FilesFit
<1>1. ASSUME UNCHANGED parser, UNCHANGED initialised,
             \A d \in Dirs : Created(d)' = Created(d), Fit
      PROVE  Fit'
  BY <1>1, FitKept
<1>2. CASE OpenBuffers
  <2>1. PICK k \in Attempted : Opens(Mounts[k]) /\ ~FileSuffices(Mounts[k])
    BY <1>2 DEF OpenBuffers, RunEnds
  <2>2. Mounts[k] \in MountDirs
    <3>1. Mounts[k] \in Dirs /\ k \in 1 .. Len(Mounts)
      BY <2>1 DEF Opens, Attempted
    <3>2. Mounts \in Seq(Texts)
      BY Numbers DEF FilesInv
    <3>3. k \in DOMAIN Mounts
      BY <3>1, <3>2
    <3>4. k \in 1 .. Len(pos) - 1
      BY <3>3 DEF Mounts
    <3> QED
      BY <3>1, <3>4 DEF MountDirs
  <2>3. TooSmall # {}
    BY <2>1, <2>2
  <2>4. ASSUME NEW d \in TooSmall PROVE initialised[d] < FullBufferSize
    <3>1. d \in Dirs /\ ~FileSuffices(d)
      BY DEF MountDirs
    <3>2. Divides
      BY <1>2 DEF OpenBuffers, FilesInv, Divided
    <3> QED
      BY <3>1, <3>2, SmallFile
  <2>5. UNCHANGED parser /\ UNCHANGED initialised
    BY <1>2 DEF OpenBuffers, parser
  <2>6. ASSUME NEW d \in Dirs PROVE Created(d)' = Created(d)
    <3>1. size'[d] = size[d] \/ size'[d] = Created(d)
      BY <1>2 DEF OpenBuffers
    <3>2. size[d] \in Nat \cup {Missing}
      BY DEF FilesInv, TypeOK
    <3> QED
      BY <3>1, <3>2 DEF Created, Missing
  <2> QED
    BY <1>1, <2>3, <2>4, <2>5, <2>6
<1>3. CASE UNCHANGED vars
  <2>1. UNCHANGED parser /\ UNCHANGED initialised /\ UNCHANGED size /\ UNCHANGED pc
    BY <1>3 DEF vars, files, parser
  <2>2. Fit
    BY <2>1 DEF FilesFit
  <2> QED
    BY <1>1, <2>1, <2>2 DEF Created
<1>4. CASE Next /\ ~OpenBuffers
  BY <1>4 DEF Next, Start, ParsePositional, ParseAssignment, ParseParam, ParseFlag,
              Parsing, TakesValue, Configure, Mode, Initialize, Scramble, AppendToLog,
              AppendFails, Return
<1> QED
  BY <1>2, <1>3, <1>4

\* However the mounts of the commands differ and whatever the pages are, a command
\* that finds files too small asks for more than each of them was initialised for.
THEOREM InitialisedFilesFit == Spec => []FilesFit
<1>1. Init => FilesFit
  BY DEF Init, FilesFit
<1> QED
  BY <1>1, FitStep, FilesInvariant, PTL DEF Spec

\* The blocks of the loop in scramble end inside every multiple of their length
\* that is not below the buffer size.
LEMMA BlocksEnd ==
  ASSUME NEW b \in Nat \ {0}, NEW p \in 0 .. Incs - 1,
         NEW n \in Nat, n % Incs = 0, b <= n
  PROVE  LastBlock(b) + p < n
<1> DEFINE q == (b - 1) \div Incs
<1>1. Incs \in Nat \ {0} /\ b - 1 \in Nat
  BY UnitsAssumption
<1>2. q \in Nat /\ q * Incs <= b - 1
  BY <1>1, Quotient
<1> HIDE DEF q
<1>3. q * Incs < n
  <2>1. q * Incs \in Int
    BY <1>1, <1>2
  <2> QED
    BY <1>2, <2>1
<1>4. q * Incs + p < n
  <2>1. q \in Int /\ n \in Int
    BY <1>2
  <2> QED
    BY <2>1, <1>1, <1>3, BelowMultiple, Zenon
<1> QED
  BY <1>4 DEF LastBlock, q

\* A mapping of b bytes, in whole memory pages.
LEMMA MappingCovers ==
  ASSUME NEW b \in Nat
  PROVE  LET n == ((b + KiB4 - 1) \div KiB4) * KiB4
         IN  n \in Nat /\ b <= n /\ n % Incs = 0
<1> DEFINE q == (b + KiB4 - 1) \div KiB4
           n == q * KiB4
<1>1. KiB4 \in Nat \ {0} /\ Incs \in Nat \ {0} /\ KiB4 % Incs = 0
  BY UnitsAssumption
<1>2. b + KiB4 - 1 \in Nat
  BY <1>1
<1>3. /\ q \in Nat /\ (b + KiB4 - 1) % KiB4 \in 0 .. KiB4 - 1
      /\ b + KiB4 - 1 = KiB4 * q + ((b + KiB4 - 1) % KiB4)
  <2>1. q \in Nat
    BY <1>1, <1>2, Quotient, Zenon
  <2>2. b + KiB4 - 1 \in Int
    BY <1>2
  <2> QED
    BY <2>1, <2>2, <1>1, DivMod, Zenon
<1> HIDE DEF q
<1>4. n \in Nat /\ KiB4 * q = n
  BY <1>1, <1>3
<1>5. b <= n
  BY <1>1, <1>3, <1>4
<1>6. n % KiB4 = 0
  <2>1. n = KiB4 * q /\ q \in Int /\ n \in Int
    BY <1>3, <1>4
  <2> QED
    BY <2>1, <1>1, MultMod
<1>7. n % Incs = 0
  <2>1. n \in Int
    BY <1>4
  <2> QED
    BY <2>1, <1>1, <1>6, DividesAll, Zenon
<1> QED
  BY <1>4, <1>5, <1>7 DEF q

\* Scrambling stays inside of the mapping.
LEMMA ScrambleStep == FilesInv /\ ScrambleInside /\ [Next]_vars => ScrambleInside'
<1> SUFFICES ASSUME FilesInv, ScrambleInside, [Next]_vars PROVE ScrambleInside'
  OBVIOUS
<1>1. CASE Scramble
  <2>1. PICK p \in 0 .. Incs - 1 :
          touched' = [d \in Dirs |-> IF d \in Scrambled THEN LastBlock(BufferSize) + p
                                                        ELSE -1]
    BY <1>1 DEF Scramble
  <2>2. /\ BufferSize' = BufferSize /\ FullBufferSize' = FullBufferSize
        /\ size' = size /\ initialised' = initialised
    BY <1>1 DEF Scramble, BufferSize, Mounts, FullBufferSize, NumberGiven, TextOf
  <2>3. /\ BufferSize \in Nat /\ BufferSize <= FullBufferSize /\ FullBufferSize \in Nat
        /\ FullBufferSize % Incs = 0
    BY <1>1, Shares, Numbers, FullSizeDivides DEF FilesInv, Divided, Scramble
  <2> DEFINE mapped == ((BufferSize + KiB4 - 1) \div KiB4) * KiB4
  <2>4. mapped \in Nat /\ BufferSize <= mapped /\ mapped % Incs = 0
    BY <2>3, MappingCovers
  <2>5. mapped' = mapped
    BY <2>2
  <2> HIDE DEF mapped
  <2>6. SUFFICES ASSUME NEW d \in Dirs, touched'[d] >= 0
                 PROVE  /\ touched'[d] < mapped
                        /\ initialised[d] >= FullBufferSize => touched'[d] < size[d]
    BY <2>2, <2>5 DEF ScrambleInside, mapped
  <2>7. d \in Scrambled /\ touched'[d] = LastBlock(BufferSize) + p
    BY <2>1, <2>6
  <2>8. BufferSize \in Nat \ {0}
    BY <2>3, <2>7 DEF Scrambled
  <2>9. touched'[d] < mapped
    BY <2>4, <2>7, <2>8, BlocksEnd
  <2>10. ASSUME initialised[d] >= FullBufferSize PROVE touched'[d] < size[d]
    <3>1. touched'[d] < FullBufferSize
      BY <2>3, <2>7, <2>8, BlocksEnd
    <3>2. initialised[d] \in Nat /\ size[d] \in Nat \cup {-1}
      BY DEF FilesInv, TypeOK, Missing
    <3>3. initialised[d] <= size[d]
      BY <2>3, <2>8, <2>10, <3>2 DEF FilesInv, Covered
    <3>4. touched'[d] \in Nat
      <4>1. TypeOK'
        BY TypeStep DEF FilesInv
      <4> QED
        BY <4>1, <2>6 DEF TypeOK
    <3> QED
      BY <2>3, <2>10, <3>1, <3>2, <3>3, <3>4
  <2> QED
    BY <2>9, <2>10
<1>2. CASE UNCHANGED vars
  BY <1>2 DEF vars, files, ScrambleInside, BufferSize, Mounts, FullBufferSize,
              NumberGiven, TextOf
<1>3. CASE Next /\ ~Scramble
  <2>1. \A d \in Dirs : touched'[d] = -1
    <3>1. CASE Start \/ Return
      BY <3>1 DEF Start, Return
    <3>2. CASE ParseStep \/ Configure \/ Initialize
      BY <3>2 DEF ParseStep, ParsePositional, ParseAssignment, ParseParam, ParseFlag,
                  Parsing, TakesValue, Configure, Initialize, files, FilesInv, Untouched
    <3>3. CASE OpenBuffers \/ AppendToLog \/ AppendFails
      BY <3>3 DEF OpenBuffers, RunEnds, AppendToLog, AppendFails, FilesInv, Untouched
    <3> QED
      BY <1>3, <3>1, <3>2, <3>3 DEF Next, ParseStep
  <2> QED
    BY <2>1 DEF ScrambleInside
<1> QED
  BY <1>1, <1>2, <1>3

\* Whatever the number of mounts, scrambling ends inside the mapping, and inside
\* every file that was initialised for the buffer size of the command.  Of a file
\* that was initialised for less, which scramble does not notice, nothing is said.
THEOREM ScramblesInside == Spec => []ScrambleInside
<1>1. Init => ScrambleInside
  BY DEF Init, ScrambleInside
<1> QED
  BY <1>1, ScrambleStep, FilesInvariant, PTL DEF Spec

=============================================================================
