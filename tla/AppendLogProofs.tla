-------------------------- MODULE AppendLogProofs ---------------------------
(***************************************************************************)
(* The simple logging workload over the five kinds of append files, for    *)
(* every size of the entries, of the workload, of the pool and of the file *)
(* that an earlier run has left: the log file is a durable append-only     *)
(* log as long as write(2) stores all that it is given, and the pool that  *)
(* is created has room for the workload.                                   *)
(***************************************************************************)
EXTENDS AppendLog, SequenceTheorems, TLAPS

Cell == Nat \X Nat

USE DEF config

\* a workload that writes whole entries
NoShortWrites == "short_write" \notin Faults

-----------------------------------------------------------------------------
(* Arithmetic.                                                              *)

\* Quotient and remainder of a natural number are the only ones.
LEMMA QuotientIs ==
  ASSUME NEW m \in Nat \ {0}, NEW q \in Nat, NEW r \in 0 .. m - 1, NEW n \in Nat,
         n = q * m + r
  PROVE  n \div m = q /\ n % m = r
<1> DEFINE p == n \div m
           s == n % m
<1>1. p \in Int /\ s \in 0 .. m - 1
  OBVIOUS
<1>2. n = m * p + s
  <2>1. n % m = n - m * (n \div m)
    BY SMTT(60)
  <2>2. m * p \in Int
    BY <1>1
  <2> QED BY <1>1, <2>1, <2>2
<1>3. q * m = m * q /\ m * q \in Nat
  OBVIOUS
<1> HIDE DEF p, s
<1>4. m * (p - q) = m * p - m * q /\ m * p \in Int
  BY <1>1
<1>5. m * (p - q) = r - s
  BY <1>1, <1>2, <1>3, <1>4
<1>6. ~(p - q >= 1)
  <2> SUFFICES ASSUME p - q >= 1 PROVE FALSE
    OBVIOUS
  <2>1. m * (p - q) >= m * 1
    BY <1>1
  <2> QED BY <2>1, <1>1, <1>5
<1>7. ~(p - q <= -1)
  <2> SUFFICES ASSUME p - q <= -1 PROVE FALSE
    OBVIOUS
  <2>1. m * (p - q) <= m * (-1)
    BY <1>1
  <2> QED BY <2>1, <1>1, <1>5
<1>8. p = q
  BY <1>1, <1>6, <1>7
<1>9. s = r
  BY <1>1, <1>2, <1>3, <1>8
<1> QED BY <1>8, <1>9 DEF p, s

-----------------------------------------------------------------------------
(* Files as sequences of cells.                                             *)

\* A function on an initial segment of the numbers is a sequence of that length.
LEMMA SegmentSeq ==
  ASSUME NEW S, NEW n \in Nat, NEW f \in [1 .. n -> S]
  PROVE  f \in Seq(S) /\ Len(f) = n /\ DOMAIN f = 1 .. n
<1>1. f \in Seq(S)
  BY SeqDef
<1>2. Len(f) \in Nat /\ DOMAIN f = 1 .. Len(f) /\ DOMAIN f = 1 .. n
  BY <1>1, LenProperties
<1> QED BY <1>1, <1>2

\* The cells of an entry.
LEMMA CellsSeq ==
  ASSUME NEW z \in Nat, NEW k \in Nat
  PROVE  /\ Cells(z, k) \in Seq(Cell) /\ Len(Cells(z, k)) = z
         /\ \A j \in 1 .. z : Cells(z, k)[j] = <<k, j>>
         /\ Cells(z, k) = <<>> <=> z = 0
<1>1. Cells(z, k) \in [1 .. z -> Cell]
  BY DEF Cells, Cell
<1>2. Cells(z, k) \in Seq(Cell) /\ Len(Cells(z, k)) = z
  BY <1>1, SegmentSeq
<1>3. Cells(z, k) = <<>> <=> z = 0
  BY <1>2, EmptySeq
<1> QED BY <1>2, <1>3 DEF Cells

\* A filled file.
LEMMA FilledSeq ==
  ASSUME NEW n \in Int, NEW cell \in Cell
  PROVE  Filled(n, cell) \in Seq(Cell) /\ Len(Filled(n, cell)) = IF n > 0 THEN n ELSE 0
<1> DEFINE m == IF n > 0 THEN n ELSE 0
<1>1. m \in Nat /\ 1 .. n = 1 .. m
  OBVIOUS
<1>2. Filled(n, cell) \in [1 .. m -> Cell]
  BY <1>1 DEF Filled
<1> QED BY <1>1, <1>2, SegmentSeq

\* posix_fallocate() keeps what is there.
LEMMA ExtendedSeq ==
  ASSUME NEW file \in Seq(Cell), NEW n \in Int
  PROVE  /\ Extended(file, n) \in Seq(Cell)
         /\ Len(Extended(file, n)) = IF n > Len(file) THEN n ELSE Len(file)
         /\ \A i \in 1 .. Len(file) : Extended(file, n)[i] = file[i]
<1> DEFINE hole == Filled(n - Len(file), Zero)
<1>1. Len(file) \in Nat /\ Zero \in Cell
  BY LenProperties DEF Zero, Cell
<1>2. hole \in Seq(Cell) /\ Len(hole) = IF n - Len(file) > 0 THEN n - Len(file) ELSE 0
  BY <1>1, FilledSeq
<1> HIDE DEF hole
<1>3. /\ file \o hole \in Seq(Cell) /\ Len(file \o hole) = Len(file) + Len(hole)
      /\ \A i \in 1 .. Len(file) + Len(hole) :
           (file \o hole)[i] = IF i <= Len(file) THEN file[i] ELSE hole[i - Len(file)]
  BY <1>2, ConcatProperties
<1>4. Extended(file, n) = file \o hole
  BY DEF Extended, hole
<1> QED BY <1>1, <1>2, <1>3, <1>4

\* Writing at a position inside the file or at its end.
LEMMA WrittenSeq ==
  ASSUME NEW file \in Seq(Cell), NEW data \in Seq(Cell), NEW pos \in 0 .. Len(file)
  PROVE  /\ Written(file, pos, data) \in Seq(Cell)
         /\ Len(Written(file, pos, data)) =
              IF pos + Len(data) > Len(file) THEN pos + Len(data) ELSE Len(file)
         /\ \A i \in 1 .. Len(Written(file, pos, data)) :
              Written(file, pos, data)[i] =
                IF i \in pos + 1 .. pos + Len(data) THEN data[i - pos] ELSE file[i]
<1> DEFINE n == IF pos + Len(data) > Len(file) THEN pos + Len(data) ELSE Len(file)
<1>1. Len(file) \in Nat /\ Len(data) \in Nat /\ pos \in Nat /\ n \in Nat
  BY LenProperties
<1>2. ASSUME NEW i \in 1 .. n
      PROVE  (IF i \in pos + 1 .. pos + Len(data) THEN data[i - pos] ELSE file[i]) \in Cell
  <2>1. CASE i \in pos + 1 .. pos + Len(data)
    <3>1. i - pos \in 1 .. Len(data)
      BY <1>1, <2>1
    <3> QED BY <2>1, <3>1, ElementOfSeq
  <2>2. CASE i \notin pos + 1 .. pos + Len(data)
    <3>1. i \in 1 .. Len(file)
      BY <1>1, <2>2
    <3> QED BY <2>2, <3>1, ElementOfSeq
  <2> QED BY <2>1, <2>2
<1>3. Written(file, pos, data) =
        [i \in 1 .. n |-> IF i \in pos + 1 .. pos + Len(data) THEN data[i - pos] ELSE file[i]]
  BY DEF Written
<1> HIDE DEF n
<1>4. Written(file, pos, data) \in [1 .. n -> Cell]
  BY <1>2, <1>3
<1>5. Written(file, pos, data) \in Seq(Cell) /\ Len(Written(file, pos, data)) = n
  BY <1>1, <1>4, SegmentSeq
<1> QED BY <1>3, <1>5 DEF n

\* The beginning of an entry, for write(2) may store only that.
LEMMA PartOfCells ==
  ASSUME NEW z \in Nat, NEW k \in Nat, NEW n \in 0 .. z
  PROVE  /\ SubSeq(Cells(z, k), 1, n) \in Seq(Cell)
         /\ Len(SubSeq(Cells(z, k), 1, n)) = n
         /\ \A j \in 1 .. n : SubSeq(Cells(z, k), 1, n)[j] = <<k, j>>
<1>1. Cells(z, k) \in Seq(Cell) /\ Len(Cells(z, k)) = z
  BY CellsSeq
<1>2. \A j \in 1 .. n : Cells(z, k)[j] = <<k, j>> /\ Cells(z, k)[j] \in Cell
  <2> SUFFICES ASSUME NEW j \in 1 .. n
               PROVE  Cells(z, k)[j] = <<k, j>> /\ Cells(z, k)[j] \in Cell
    OBVIOUS
  <2>1. j \in 1 .. z /\ j \in Nat
    OBVIOUS
  <2>2. Cells(z, k)[j] = <<k, j>>
    BY <2>1, CellsSeq
  <2> QED BY <2>1, <2>2 DEF Cell
<1>3. /\ SubSeq(Cells(z, k), 1, n) \in Seq(Cell)
      /\ Len(SubSeq(Cells(z, k), 1, n)) = n - 1 + 1
      /\ \A j \in 1 .. n - 1 + 1 : SubSeq(Cells(z, k), 1, n)[j] = Cells(z, k)[1 + j - 1]
  BY <1>1, <1>2, SubSeqProperties
<1> QED BY <1>2, <1>3

-----------------------------------------------------------------------------
(* Types.                                                                   *)

\* What the types need: an entry is only appended if it fits the workload, files
\* and pools go through steps of their own, and the offset is inside the file.
TypeInv ==
  /\ TypeOK
  /\ pc \in {"remove", "create", "allocate"} => processed = 0
  /\ pc \in {"sync", "commit"} => MoreToLog
  /\ pc \in {"allocate", "sync"} => engine \notin Pools
  /\ pc = "commit" => engine \in Pools
  /\ pc \in {"allocate", "ready", "sync"} => offset <= Len(cache)
  /\ pc = "commit" => offset + log_entry_size <= Len(cache)

\* What the steps do to the sequences they write is well-typed.
LEMMA AppendedTypes ==
  ASSUME AppendAssumption, TypeInv
  PROVE  /\ Len(cache) \in Nat /\ Len(media) \in Nat
         /\ log_entry_size \in Nat /\ TotalWorkload \in Nat
         /\ Logged \in Nat /\ Current = Logged + 1
         /\ Current \in Nat \ {0} /\ processed \in Nat
         /\ pc \in {"ready", "sync", "commit"} => WritePosition \in 0 .. Len(cache)
<1>1. cache \in Seq(Cell) /\ media \in Seq(Cell) /\ processed \in Nat /\ offset \in Nat
  BY DEF TypeInv, TypeOK, AppendAssumption, Cell
<1>2. Len(cache) \in Nat /\ Len(media) \in Nat
  BY <1>1, LenProperties
<1>3. log_entry_size \in Nat /\ TotalWorkload \in Nat
  BY DEF AppendAssumption, TypeInv, TypeOK
<1>4. Logged \in Nat
  <2>1. CASE log_entry_size = 0
    BY <2>1 DEF Logged, InEntries
  <2>2. CASE log_entry_size # 0
    BY <2>2, <1>1, <1>3 DEF Logged, InEntries
  <2> QED BY <2>1, <2>2
<1>5. pc = "commit" => offset <= Len(cache)
  BY <1>1, <1>2, <1>3 DEF TypeInv
<1>6. pc \in {"ready", "sync", "commit"} => WritePosition \in 0 .. Len(cache)
  BY <1>1, <1>2, <1>5 DEF WritePosition, TypeInv
<1> QED BY <1>1, <1>2, <1>3, <1>4, <1>6 DEF Current

\* The size of the entries never changes.
LEMMA SizeStays == ASSUME [Next]_vars PROVE UNCHANGED log_entry_size
BY DEF Next, Step, Remove, CreateFile, CreatePool, OpenPool, CreateFails, Allocate,
       AllocateFails, Crash, DrawFails, WriteEntry, SyncEntry, PoolCopy, PoolCommit,
       AppendFails, Finish, WriteBack, PowerFailure, vars

\* The initial states have their types.
LEMMA InitTyped == AppendAssumption /\ Init => TypeInv
<1> SUFFICES ASSUME AppendAssumption, Init PROVE TypeInv
  OBVIOUS
<1>1. PICK n \in OldSizes :
        /\ kind \in {"missing", "plain", "pool"}
        /\ cache = IF kind = "missing" THEN <<>> ELSE Filled(n, Old)
        /\ capacity = IF kind = "pool" THEN n ELSE 0
  BY DEF Init
<1>2. n \in Nat /\ TotalWorkload \in Nat
  BY DEF AppendAssumption
<1>3. cache \in Seq(Cell)
  <2>1. Old \in Cell
    BY DEF Old, Cell
  <2>2. Filled(n, Old) \in Seq(Cell)
    BY <1>2, <2>1, FilledSeq
  <2> QED BY <1>1, <2>2, EmptySeq
<1> QED BY <1>1, <1>2, <1>3 DEF Init, TypeInv, TypeOK, Cell

\* Every step keeps the types.
LEMMA StepTyped == AppendAssumption /\ TypeInv /\ [Next]_vars => TypeInv'
<1> SUFFICES ASSUME AppendAssumption, TypeInv, [Next]_vars PROVE TypeInv'
  OBVIOUS
<1>0. /\ cache \in Seq(Cell) /\ media \in Seq(Cell)
      /\ Len(cache) \in Nat /\ Len(media) \in Nat /\ offset \in Nat
      /\ log_entry_size \in Nat /\ TotalWorkload \in Nat
      /\ Current \in Nat /\ processed \in 0 .. TotalWorkload
  BY AppendedTypes DEF TypeInv, TypeOK, Cell
<1> USE DEF Cell
<1>1. CASE Remove
  <2>1. kind' \in {"missing", "plain", "pool"} /\ cache' \in Seq(Cell) /\ media' \in Seq(Cell)
    BY <1>1, EmptySeq DEF Remove, TypeInv, TypeOK
  <2> QED BY <1>1, <2>1 DEF Remove, TypeInv, TypeOK
<1>2. CASE CreateFile
  BY <1>0, <1>2 DEF CreateFile, TypeInv, TypeOK
<1>3. CASE CreatePool
  <2>1. capacity' \in Nat
    BY <1>3 DEF CreatePool, LogpoolSize, AppendAssumption
  <2>2. cache' \in Seq(Cell)
    <3>1. Zero \in Cell
      BY DEF Zero
    <3> QED BY <1>3, <2>1, <3>1, FilledSeq DEF CreatePool
  <2>3. media' \in Seq(Cell) /\ Len(cache') \in Nat
    BY <1>3, <2>2, LenProperties DEF CreatePool
  <2> QED BY <1>3, <2>1, <2>2, <2>3 DEF CreatePool, TypeInv, TypeOK
<1>4. CASE OpenPool
  BY <1>0, <1>4 DEF OpenPool, TypeInv, TypeOK
<1>5. CASE Allocate
  <2>1. AllocatedLength \in Nat
    BY DEF AllocatedLength, LogpoolSize, AppendAssumption
  <2>2. /\ cache' \in Seq(Cell) /\ media' \in Seq(Cell)
        /\ Len(cache') \in Nat /\ Len(cache') >= Len(cache)
    BY <1>0, <1>5, <2>1, ExtendedSeq DEF Allocate
  <2>3. start' \in Nat
    BY <1>5, <2>2 DEF Allocate
  <2> QED BY <1>0, <1>5, <2>2, <2>3 DEF Allocate, TypeInv, TypeOK
<1>6. CASE WriteEntry
  <2> DEFINE part(n) == SubSeq(Cells(log_entry_size, Current), 1, n)
  <2>1. PICK n \in 0 .. log_entry_size :
          /\ cache' = Written(cache, WritePosition, part(n))
          /\ offset' = WritePosition + n
    BY <1>6 DEF WriteEntry
  <2>2. part(n) \in Seq(Cell) /\ Len(part(n)) = n
    BY <1>0, PartOfCells
  <2>3. WritePosition \in 0 .. Len(cache)
    BY <1>6, AppendedTypes DEF WriteEntry
  <2>4. cache' \in Seq(Cell) /\ Len(cache') >= WritePosition + n
    <3> DEFINE data == part(n)
               file == Written(cache, WritePosition, data)
    <3>1. data \in Seq(Cell) /\ Len(data) = n
      BY <2>2
    <3> HIDE DEF data
    <3>2. /\ file \in Seq(Cell)
          /\ Len(file) = IF WritePosition + Len(data) > Len(cache)
                         THEN WritePosition + Len(data) ELSE Len(cache)
      BY <1>0, <2>3, <3>1, WrittenSeq
    <3>3. cache' = file
      BY <2>1 DEF data
    <3> HIDE DEF file
    <3> QED BY <1>0, <2>3, <3>1, <3>2, <3>3
  <2>5. offset' \in Nat /\ offset' <= Len(cache')
    BY <1>0, <2>1, <2>3, <2>4
  <2> QED BY <1>6, <2>4, <2>5 DEF WriteEntry, TypeInv, TypeOK, MoreToLog
<1>7. CASE SyncEntry
  <2>1. processed' \in 0 .. TotalWorkload
    BY <1>0, <1>7 DEF SyncEntry, TypeInv, MoreToLog
  <2> QED BY <1>0, <1>7, <2>1 DEF SyncEntry, TypeInv, TypeOK
<1>8. CASE PoolCopy
  <2>1. offset \in 0 .. Len(cache)
    BY <1>0, <1>8 DEF PoolCopy, TypeInv
  <2>2. cache' \in Seq(Cell) /\ Len(cache') >= offset + log_entry_size
    <3> DEFINE data == Cells(log_entry_size, Current)
               file == Written(cache, offset, data)
    <3>1. data \in Seq(Cell) /\ Len(data) = log_entry_size
      BY <1>0, CellsSeq
    <3> HIDE DEF data
    <3>2. /\ file \in Seq(Cell)
          /\ Len(file) = IF offset + Len(data) > Len(cache)
                         THEN offset + Len(data) ELSE Len(cache)
      BY <1>0, <2>1, <3>1, WrittenSeq
    <3>3. cache' = file
      BY <1>8 DEF PoolCopy, data
    <3> HIDE DEF file
    <3> QED BY <1>0, <2>1, <3>1, <3>2, <3>3
  <2> QED BY <1>8, <2>2 DEF PoolCopy, TypeInv, TypeOK, MoreToLog
<1>9. CASE PoolCommit
  <2>1. processed' \in 0 .. TotalWorkload
    BY <1>0, <1>9 DEF PoolCommit, TypeInv, MoreToLog
  <2>2. offset' \in Nat /\ offset' <= Len(cache')
    BY <1>0, <1>9 DEF PoolCommit, TypeInv
  <2> QED BY <1>0, <1>9, <2>1, <2>2 DEF PoolCommit, TypeInv, TypeOK
<1>10. CASE Finish
  BY <1>10 DEF Finish, TypeInv, TypeOK
<1>11. CASE CreateFails \/ AllocateFails \/ DrawFails \/ AppendFails
  <2>1. Crash
    BY <1>11 DEF CreateFails, AllocateFails, DrawFails, AppendFails
  <2> QED BY <2>1 DEF Crash, TypeInv, TypeOK
<1>12. CASE WriteBack
  <2>1. PICK i \in 1 .. Len(cache) :
          media' = Written(Extended(media, i - 1), i - 1, <<cache[i]>>)
    BY <1>12 DEF WriteBack
  <2>2. cache[i] \in Cell
    BY <1>0, ElementOfSeq
  <2>3. <<cache[i]>> \in Seq(Cell) /\ Len(<<cache[i]>>) = 1
    BY <2>2
  <2> DEFINE long == Extended(media, i - 1)
  <2>4. long \in Seq(Cell) /\ i - 1 \in 0 .. Len(long)
    <3>1. i - 1 \in Int /\ i - 1 >= 0
      BY <1>0
    <3>2. /\ long \in Seq(Cell)
          /\ Len(long) = IF i - 1 > Len(media) THEN i - 1 ELSE Len(media)
      BY <1>0, <3>1, ExtendedSeq
    <3> HIDE DEF long
    <3> QED BY <1>0, <3>1, <3>2
  <2>5. media' \in Seq(Cell)
    BY <2>1, <2>3, <2>4, WrittenSeq
  <2> QED BY <1>12, <2>5 DEF WriteBack, TypeInv, TypeOK, MoreToLog
<1>13. CASE PowerFailure
  BY <1>13 DEF PowerFailure, TypeInv, TypeOK
<1>14. CASE UNCHANGED vars
  BY <1>14 DEF vars, TypeInv, TypeOK, MoreToLog
<1> QED
  BY <1>1, <1>2, <1>3, <1>4, <1>5, <1>6, <1>7, <1>8, <1>9, <1>10, <1>11, <1>12, <1>13,
     <1>14 DEF Next, Step

\* Every reachable state has its type: with short counts, too, the offset is never
\* behind the end of the file.
THEOREM TypeCorrect == Spec => []TypeOK
<1>1. Init => TypeInv
  BY AppendAssumption, InitTyped
<1>2. TypeInv /\ [Next]_vars => TypeInv'
  BY AppendAssumption, StepTyped
<1>3. TypeInv => TypeOK
  BY DEF TypeInv
<1> QED BY <1>1, <1>2, <1>3, PTL DEF Spec

\* The stronger invariant holds, too.
LEMMA TypesHold == Spec => []TypeInv
<1>1. Init => TypeInv
  BY AppendAssumption, InitTyped
<1>2. TypeInv /\ [Next]_vars => TypeInv'
  BY AppendAssumption, StepTyped
<1> QED BY <1>1, <1>2, PTL DEF Spec

-----------------------------------------------------------------------------
(* The pool.                                                                *)

\* The write offset of a pool is what has been logged; a pool just created has the
\* size asked for.
PoolInv ==
  /\ engine \in Pools /\ pc \in {"ready", "commit"} => offset = processed
  /\ engine = "LIBPMEM" /\ pc \in {"ready", "commit"} => capacity = LogpoolSize - PoolHeader

\* Whatever the sizes, as long as the metadata of libpmemlog fits what is added for
\* it, the pool is not full before the workload is over.
THEOREM PoolIsLargeEnough == Spec => []PoolSuffices
<1> USE AppendAssumption
<1>1. Init => PoolInv
  BY DEF Init, PoolInv
<1>2. TypeInv /\ PoolInv /\ [Next]_vars => PoolInv'
  <2> SUFFICES ASSUME TypeInv, PoolInv, [Next]_vars PROVE PoolInv'
    OBVIOUS
  <2>1. CASE CreatePool \/ OpenPool
    BY <2>1 DEF CreatePool, OpenPool, PoolInv, TypeInv
  <2>2. CASE PoolCopy
    BY <2>2 DEF PoolCopy, PoolInv
  <2>3. CASE PoolCommit
    BY <2>3 DEF PoolCommit, PoolInv
  <2>4. CASE SyncEntry \/ Allocate
    <3>1. engine \notin Pools /\ engine' = engine
      BY <2>4 DEF SyncEntry, Allocate, TypeInv
    <3> QED BY <3>1 DEF PoolInv, Pools
  <2>5. CASE Remove \/ CreateFile \/ WriteEntry \/ Finish \/ PowerFailure
    BY <2>5 DEF Remove, CreateFile, WriteEntry, Finish, PowerFailure, PoolInv
  <2>6. CASE CreateFails \/ AllocateFails \/ DrawFails \/ AppendFails
    BY <2>6 DEF CreateFails, AllocateFails, DrawFails, AppendFails, Crash, PoolInv
  <2>7. CASE WriteBack \/ UNCHANGED vars
    BY <2>7 DEF WriteBack, vars, PoolInv
  <2> QED BY <2>1, <2>2, <2>3, <2>4, <2>5, <2>6, <2>7 DEF Next, Step
<1>3. TypeInv /\ PoolInv => PoolSuffices
  <2> SUFFICES ASSUME TypeInv, PoolInv, engine = "LIBPMEM", pc = "ready", MoreToLog
               PROVE  offset + log_entry_size <= capacity
    BY DEF PoolSuffices
  <2>1. offset = processed /\ capacity = LogpoolSize - PoolHeader
    BY DEF PoolInv, Pools
  <2> QED BY <2>1, AppendedTypes DEF MoreToLog, LogpoolSize, AppendAssumption
<1> QED BY <1>1, <1>2, <1>3, TypesHold, PTL DEF Spec

-----------------------------------------------------------------------------
(* The log.                                                                 *)

\* the i-th cell of a log of entries of size z
LogCell(z, i) == <<((i - 1) \div z) + 1, ((i - 1) % z) + 1>>

\* file holds the first n cells of a log that starts behind s
Holds(z, file, s, n) ==
  \A i \in 1 .. n : s + i \in 1 .. Len(file) /\ file[s + i] = LogCell(z, i)

\* The medium holds what has been logged.  The cache does, and the entry that is
\* being flushed, too; the next entry is written right behind that.
LogInv ==
  /\ engine # "LINUX" => start = 0
  /\ pc = "allocate" => offset = 0
  /\ processed = Logged * log_entry_size
  /\ Holds(log_entry_size, media, start, processed)
  /\ pc = "ready" =>
       /\ Holds(log_entry_size, cache, start, processed)
       /\ WritePosition = start + processed
  /\ pc = "sync" =>
       /\ Holds(log_entry_size, cache, start, processed + log_entry_size)
       /\ WritePosition = start + processed + log_entry_size
  /\ pc = "commit" =>
       /\ Holds(log_entry_size, cache, start, processed + log_entry_size)
       /\ offset = start + processed

\* The cells of the log are those of its entries.
LEMMA CellOfEntry ==
  ASSUME NEW z \in Nat, NEW q \in Nat, NEW j \in 1 .. z
  PROVE  q * z + j \in Nat \ {0} /\ LogCell(z, q * z + j) = <<q + 1, j>>
<1> DEFINE r == q * z
           n == r + j - 1
<1>1. z \in Nat \ {0} /\ j - 1 \in 0 .. z - 1 /\ r \in Nat
  OBVIOUS
<1>2. n \in Nat /\ n = q * z + (j - 1)
  BY <1>1
<1>3. n \div z = q /\ n % z = j - 1
  <2> HIDE DEF n
  <2> QED BY <1>1, <1>2, QuotientIs
<1> HIDE DEF r
<1>4. LogCell(z, r + j) = <<(n \div z) + 1, (n % z) + 1>>
  BY <1>1, <1>2 DEF LogCell
<1>5. LogCell(z, r + j) = <<q + 1, j>>
  <2> HIDE DEF n
  <2> QED BY <1>1, <1>3, <1>4
<1> QED BY <1>1, <1>5 DEF r

\* Counting one more entry.
LEMMA OneMoreLogged ==
  ASSUME NEW z \in Nat \ {0}, NEW q \in Nat
  PROVE  q * z \in Nat /\ (q * z) \div z = q /\ (q + 1) * z = q * z + z
<1>1. q * z \in Nat /\ q * z = q * z + 0 /\ 0 \in 0 .. z - 1
  OBVIOUS
<1>2. (q * z) \div z = q
  <2> DEFINE n == q * z
  <2>1. n \in Nat /\ n = q * z + 0
    BY <1>1
  <2> HIDE DEF n
  <2>2. n \div z = q
    BY <1>1, <2>1, QuotientIs
  <2> QED BY <2>2 DEF n
<1> QED BY <1>1, <1>2

\* A file that holds the log up to the position where the next entry is written
\* then holds that entry, too.
LEMMA HoldsNext ==
  ASSUME NEW z \in Nat, NEW file \in Seq(Cell), NEW s \in Nat, NEW q \in Nat,
         s + q * z \in 0 .. Len(file), Holds(z, file, s, q * z)
  PROVE  LET new == Written(file, s + q * z, Cells(z, q + 1))
         IN  /\ Holds(z, new, s, q * z + z)
             /\ s + q * z = Len(file) => Len(new) = s + q * z + z
<1> DEFINE n == q * z
           data == Cells(z, q + 1)
           new == Written(file, s + n, data)
<1>1. n \in Nat /\ Len(file) \in Nat
  BY LenProperties
<1>2. /\ data \in Seq(Cell) /\ Len(data) = z
      /\ \A j \in 1 .. z : data[j] = <<q + 1, j>>
  BY CellsSeq
<1>3. \A j \in 1 .. z : LogCell(z, n + j) = <<q + 1, j>>
  BY CellOfEntry
<1>4. s + n \in 0 .. Len(file) /\ Holds(z, file, s, n)
  OBVIOUS
<1> SUFFICES /\ Holds(z, new, s, n + z)
             /\ s + n = Len(file) => Len(new) = s + n + z
  OBVIOUS
<1> HIDE DEF n, data
<1>5. /\ Len(new) = IF s + n + Len(data) > Len(file) THEN s + n + Len(data) ELSE Len(file)
      /\ \A i \in 1 .. Len(new) :
           new[i] = IF i \in s + n + 1 .. s + n + Len(data)
                    THEN data[i - (s + n)] ELSE file[i]
  BY <1>2, <1>4, WrittenSeq
<1> HIDE DEF new
<1>6. Len(new) \in Nat /\ s + n + z <= Len(new)
  BY <1>1, <1>2, <1>5
<1>7. ASSUME NEW i \in 1 .. n + z
      PROVE  s + i \in 1 .. Len(new) /\ new[s + i] = LogCell(z, i)
  <2>1. s + i \in 1 .. Len(new)
    BY <1>1, <1>6
  <2>2. CASE i <= n
    <3>1. i \in 1 .. n /\ s + i \notin s + n + 1 .. s + n + Len(data)
      BY <1>1, <1>2, <2>2
    <3>2. new[s + i] = file[s + i]
      BY <1>5, <2>1, <3>1
    <3> QED BY <1>4, <2>1, <3>1, <3>2 DEF Holds
  <2>3. CASE i > n
    <3> DEFINE j == i - n
    <3>1. j \in 1 .. z /\ i = n + j /\ (s + i) - (s + n) = j
          /\ s + i \in s + n + 1 .. s + n + Len(data)
      BY <1>1, <1>2, <2>3
    <3> HIDE DEF j
    <3>2. new[s + i] = data[j]
      BY <1>5, <2>1, <3>1
    <3> QED BY <1>2, <1>3, <2>1, <3>1, <3>2
  <2> QED BY <1>1, <2>2, <2>3
<1> QED BY <1>1, <1>2, <1>5, <1>7 DEF Holds

\* A cell that the kernel writes back early does no harm to the log.
LEMMA WriteBackHolds ==
  ASSUME NEW z, NEW file \in Seq(Cell), NEW medium \in Seq(Cell),
         NEW s \in Nat, NEW n \in Nat,
         Holds(z, file, s, n), Holds(z, medium, s, n), NEW i \in 1 .. Len(file)
  PROVE  Holds(z, Written(Extended(medium, i - 1), i - 1, <<file[i]>>), s, n)
<1> DEFINE long == Extended(medium, i - 1)
           data == <<file[i]>>
           new == Written(long, i - 1, data)
<1>1. Len(file) \in Nat /\ Len(medium) \in Nat /\ i \in Nat \ {0}
  BY LenProperties
<1>2. /\ long \in Seq(Cell)
      /\ Len(long) = IF i - 1 > Len(medium) THEN i - 1 ELSE Len(medium)
      /\ \A x \in 1 .. Len(medium) : long[x] = medium[x]
  BY <1>1, ExtendedSeq
<1>3. file[i] \in Cell
  BY ElementOfSeq
<1>4. data \in Seq(Cell) /\ Len(data) = 1 /\ data[1] = file[i]
  BY <1>3
<1> HIDE DEF long, data
<1>5. i - 1 \in 0 .. Len(long)
  BY <1>1, <1>2
<1>6. /\ Len(new) = IF i - 1 + Len(data) > Len(long) THEN i - 1 + Len(data) ELSE Len(long)
      /\ \A x \in 1 .. Len(new) :
           new[x] = IF x \in i - 1 + 1 .. i - 1 + Len(data) THEN data[x - (i - 1)] ELSE long[x]
  BY <1>2, <1>4, <1>5, WrittenSeq
<1> HIDE DEF new
<1>7. ASSUME NEW k \in 1 .. n
      PROVE  s + k \in 1 .. Len(new) /\ new[s + k] = LogCell(z, k)
  <2>1. /\ s + k \in 1 .. Len(medium) /\ medium[s + k] = LogCell(z, k)
        /\ file[s + k] = LogCell(z, k)
    BY DEF Holds
  <2>2. s + k \in 1 .. Len(new)
    BY <1>1, <1>2, <1>4, <1>6, <2>1
  <2>3. CASE s + k = i
    <3>1. s + k \in i - 1 + 1 .. i - 1 + Len(data) /\ (s + k) - (i - 1) = 1
      BY <1>1, <1>4, <2>3
    <3>2. new[s + k] = data[1]
      BY <1>6, <2>2, <3>1
    <3> QED BY <1>4, <2>1, <2>2, <2>3, <3>2
  <2>4. CASE s + k # i
    <3>1. s + k \notin i - 1 + 1 .. i - 1 + Len(data)
      BY <1>1, <1>4, <2>1, <2>4
    <3>2. new[s + k] = long[s + k]
      BY <1>6, <2>2, <3>1
    <3> QED BY <1>2, <2>1, <2>2, <3>2
  <2> QED BY <2>3, <2>4
<1> QED BY <1>7 DEF Holds, new, long, data

\* Nothing has been logged yet.
LEMMA HoldsNothing ==
  ASSUME NEW z, NEW file, NEW s
  PROVE  Holds(z, file, s, 0)
BY DEF Holds

\* Nothing processed are no entries.
LEMMA NothingLogged ==
  ASSUME log_entry_size \in Nat, processed = 0
  PROVE  Logged = 0
<1>1. CASE log_entry_size = 0
  BY <1>1 DEF Logged, InEntries
<1>2. CASE log_entry_size # 0
  <2>1. 0 * log_entry_size = 0 /\ (0 * log_entry_size) \div log_entry_size = 0
    BY <1>2, OneMoreLogged
  <2> QED BY <1>2, <2>1 DEF Logged, InEntries
<1> QED BY <1>1, <1>2

\* The log invariant holds initially.
LEMMA InitLogged == AppendAssumption /\ Init => LogInv
<1> SUFFICES ASSUME AppendAssumption, Init PROVE LogInv
  OBVIOUS
<1>1. processed = 0 /\ start = 0 /\ pc = "remove" /\ log_entry_size \in Nat
  BY DEF Init, AppendAssumption
<1>2. Logged = 0 /\ Logged * log_entry_size = 0
  BY <1>1, NothingLogged
<1> QED BY <1>1, <1>2, HoldsNothing DEF LogInv

\* What the invariant says of a state in which an entry is counted, which an empty
\* one never is.
LEMMA CountedEntry ==
  ASSUME AppendAssumption, TypeInv, LogInv, processed' = processed + log_entry_size,
         UNCHANGED log_entry_size
  PROVE  /\ Logged' = IF log_entry_size = 0 THEN 0 ELSE Logged + 1
         /\ processed' = Logged' * log_entry_size
<1>1. /\ Logged \in Nat /\ log_entry_size \in Nat /\ processed \in Nat
      /\ processed = Logged * log_entry_size
  BY AppendedTypes DEF LogInv
<1>2. CASE log_entry_size = 0
  BY <1>1, <1>2 DEF Logged, InEntries
<1>3. CASE log_entry_size # 0
  <2>1. processed' = (Logged + 1) * log_entry_size
    BY <1>1, <1>3, OneMoreLogged
  <2>2. ((Logged + 1) * log_entry_size) \div log_entry_size = Logged + 1
    BY <1>1, <1>3, OneMoreLogged
  <2>3. Logged' = Logged + 1
    BY <1>3, <2>1, <2>2 DEF Logged, InEntries
  <2> QED BY <1>3, <2>1, <2>3
<1> QED BY <1>2, <1>3

\* Every step of a workload that writes whole entries keeps the log.
LEMMA StepLogged ==
  AppendAssumption /\ NoShortWrites /\ TypeInv /\ LogInv /\ [Next]_vars => LogInv'
<1> SUFFICES ASSUME AppendAssumption, NoShortWrites, TypeInv, LogInv, [Next]_vars
             PROVE  LogInv'
  OBVIOUS
<1>0. /\ cache \in Seq(Cell) /\ media \in Seq(Cell) /\ start \in Nat /\ offset \in Nat
      /\ Len(cache) \in Nat /\ log_entry_size \in Nat
      /\ Logged \in Nat /\ Current = Logged + 1
      /\ processed \in Nat /\ processed = Logged * log_entry_size
      /\ Holds(log_entry_size, media, start, processed)
      /\ pc \in {"ready", "sync", "commit"} => WritePosition \in 0 .. Len(cache)
  BY AppendedTypes DEF TypeInv, TypeOK, Cell, LogInv, Logged, Current
<1> USE SizeStays
<1>1. CASE Remove \/ CreateFile \/ CreatePool \/ OpenPool
  <2>1. processed = 0 /\ UNCHANGED <<processed, engine, start>>
    BY <1>1 DEF Remove, CreateFile, CreatePool, OpenPool, TypeInv
  <2>2. Logged' = Logged
    BY <2>1 DEF Logged, InEntries
  <2>3. \/ engine # "LINUX" /\ offset' = 0 /\ start = 0
        \/ pc' \in {"create", "allocate"}
    BY <1>1 DEF Remove, CreateFile, CreatePool, OpenPool, LogInv, Pools
  <2>4. pc' = "allocate" => offset' = 0
    BY <1>1 DEF Remove, CreateFile, CreatePool, OpenPool
  <2>5. pc' \in {"create", "allocate", "ready"}
    BY <1>1 DEF Remove, CreateFile, CreatePool, OpenPool
  <2>6. pc' = "ready" => WritePosition' = start' + processed'
    BY <2>1, <2>3 DEF WritePosition
  <2> QED BY <1>0, <2>1, <2>2, <2>4, <2>5, <2>6, HoldsNothing DEF LogInv
<1>2. CASE Allocate
  <2>1. /\ processed = 0 /\ offset = 0 /\ pc' = "ready"
        /\ UNCHANGED <<processed, engine, offset>>
        /\ start' = IF engine = "LINUX" THEN Len(cache') ELSE 0
    BY <1>2 DEF Allocate, TypeInv, LogInv
  <2>2. start' \in Nat
    BY <1>2, StepTyped DEF TypeInv, TypeOK
  <2>3. WritePosition' = start' + processed'
    BY <2>1, <2>2 DEF WritePosition
  <2>4. Logged' = Logged
    BY <2>1 DEF Logged, InEntries
  <2> QED BY <1>0, <2>1, <2>3, <2>4, HoldsNothing DEF LogInv
<1>3. CASE WriteEntry
  <2>1. /\ pc = "ready" /\ pc' = "sync" /\ engine \notin Pools
        /\ UNCHANGED <<engine, start, processed, media>>
    BY <1>3 DEF WriteEntry
  <2>2. cache' = Written(cache, WritePosition, Cells(log_entry_size, Current))
        /\ offset' = WritePosition + log_entry_size
    <3>1. PICK n \in 0 .. log_entry_size :
            /\ n < log_entry_size => n > 0 /\ Failing("short_write")
            /\ cache' = Written(cache, WritePosition,
                                SubSeq(Cells(log_entry_size, Current), 1, n))
            /\ offset' = WritePosition + n
      BY <1>3 DEF WriteEntry
    <3>2. n = log_entry_size
      BY <1>0, <3>1 DEF NoShortWrites, Failing
    <3>3. Current \in Nat
      BY <1>0
    <3>4. SubSeq(Cells(log_entry_size, Current), 1, log_entry_size) =
            Cells(log_entry_size, Current)
      <4> DEFINE data == Cells(log_entry_size, Current)
      <4>1. data \in Seq(Cell) /\ Len(data) = log_entry_size
        BY <1>0, <3>3, CellsSeq
      <4> HIDE DEF data
      <4>2. SubSeq(data, 1, log_entry_size) = data
        BY <4>1, SubSeqFull
      <4> QED BY <4>2 DEF data
    <3> QED BY <3>1, <3>2, <3>4
  <2>3. WritePosition = start + processed /\ Holds(log_entry_size, cache, start, processed)
    BY <2>1 DEF LogInv
  <2>4. /\ Holds(log_entry_size, cache', start, processed + log_entry_size)
        /\ start + processed = Len(cache) =>
             Len(cache') = start + processed + log_entry_size
    BY <1>0, <2>1, <2>2, <2>3, HoldsNext
  <2>5. WritePosition' = start' + processed' + log_entry_size
    BY <2>1, <2>2, <2>3, <2>4 DEF WritePosition
  <2>6. Logged' = Logged
    BY <2>1 DEF Logged, InEntries
  <2> QED BY <1>0, <2>1, <2>4, <2>5, <2>6 DEF LogInv
<1>4. CASE SyncEntry
  <2>1. /\ pc = "sync" /\ pc' = "ready" /\ UNCHANGED <<engine, cache, offset, start>>
        /\ processed' = processed + log_entry_size /\ media' = cache
    BY <1>4 DEF SyncEntry
  <2>2. Holds(log_entry_size, cache, start, processed + log_entry_size)
        /\ WritePosition = start + processed + log_entry_size
    BY <2>1 DEF LogInv
  <2>3. WritePosition' = WritePosition
    BY <2>1 DEF WritePosition
  <2>4. processed' = Logged' * log_entry_size
    BY <2>1, CountedEntry
  <2>5. WritePosition' = start' + processed'
    BY <1>0, <2>1, <2>2, <2>3
  <2> QED BY <2>1, <2>2, <2>4, <2>5 DEF LogInv
<1>5. CASE PoolCopy
  <2>1. /\ pc = "ready" /\ pc' = "commit" /\ engine \in Pools
        /\ cache' = Written(cache, offset, Cells(log_entry_size, Current))
        /\ UNCHANGED <<engine, start, processed, media, offset>>
    BY <1>5 DEF PoolCopy
  <2>2. WritePosition = offset
    BY <2>1 DEF WritePosition, Pools
  <2>3. offset = start + processed /\ Holds(log_entry_size, cache, start, processed)
    BY <2>1, <2>2 DEF LogInv
  <2>4. Holds(log_entry_size, cache', start, processed + log_entry_size)
    BY <1>0, <2>1, <2>2, <2>3, HoldsNext
  <2>5. Logged' = Logged
    BY <2>1 DEF Logged, InEntries
  <2> QED BY <1>0, <2>1, <2>3, <2>4, <2>5 DEF LogInv
<1>6. CASE PoolCommit
  <2>1. /\ pc = "commit" /\ pc' = "ready" /\ UNCHANGED <<engine, cache, start>>
        /\ processed' = processed + log_entry_size /\ media' = cache
        /\ offset' = offset + log_entry_size
    BY <1>6 DEF PoolCommit
  <2>2. /\ Holds(log_entry_size, cache, start, processed + log_entry_size)
        /\ offset = start + processed
    BY <2>1 DEF LogInv
  <2>3. engine # "LINUX"
    BY <2>1 DEF TypeInv, Pools
  <2>4. processed' = Logged' * log_entry_size
    BY <2>1, CountedEntry
  <2>5. WritePosition' = start' + processed'
    BY <1>0, <2>1, <2>2, <2>3 DEF WritePosition
  <2> QED BY <2>1, <2>2, <2>3, <2>4, <2>5 DEF LogInv
<1>7. CASE \/ Finish \/ CreateFails \/ AllocateFails \/ DrawFails \/ AppendFails
           \/ PowerFailure
  <2>1. pc' \in {"finished", "crashed", "down"}
        /\ UNCHANGED <<engine, start, processed, media>>
    BY <1>7 DEF Finish, CreateFails, AllocateFails, DrawFails, AppendFails,
                PowerFailure, Crash
  <2>2. Logged' = Logged
    BY <2>1 DEF Logged, InEntries
  <2> QED BY <1>0, <2>1, <2>2 DEF LogInv
<1>8. CASE WriteBack
  <2>1. PICK i \in 1 .. Len(cache) :
          media' = Written(Extended(media, i - 1), i - 1, <<cache[i]>>)
    BY <1>8 DEF WriteBack
  <2>2. /\ pc \in {"sync", "commit"}
        /\ UNCHANGED <<engine, start, processed, cache, offset, pc>>
    BY <1>8 DEF WriteBack
  <2>3. Holds(log_entry_size, cache, start, processed)
    <3>1. Holds(log_entry_size, cache, start, processed + log_entry_size)
      BY <2>2 DEF LogInv
    <3>2. 1 .. processed \subseteq 1 .. processed + log_entry_size
      BY <1>0
    <3> QED BY <3>1, <3>2 DEF Holds
  <2>4. Holds(log_entry_size, media', start, processed)
    BY <1>0, <2>1, <2>3, WriteBackHolds
  <2>5. Logged' = Logged /\ WritePosition' = WritePosition
    BY <2>2 DEF Logged, InEntries, WritePosition
  <2> QED BY <2>2, <2>4, <2>5 DEF LogInv
<1>9. CASE UNCHANGED vars
  <2>1. Logged' = Logged /\ WritePosition' = WritePosition
    BY <1>9 DEF vars, Logged, InEntries, WritePosition
  <2> QED BY <1>9, <2>1 DEF vars, LogInv
<1> QED
  BY <1>1, <1>2, <1>3, <1>4, <1>5, <1>6, <1>7, <1>8, <1>9 DEF Next, Step

\* A file that holds the log holds each of its entries.
LEMMA EntriesHeld ==
  ASSUME AppendAssumption, TypeInv, LogInv, NEW k \in 1 .. Logged
  PROVE  EntryAt(k) = Cells(log_entry_size, k)
<1> DEFINE z == log_entry_size
<1>1. /\ z \in Nat /\ Logged \in Nat /\ k - 1 \in Nat
      /\ start \in Nat /\ Len(media) \in Nat /\ DOMAIN media = 1 .. Len(media)
  <2>1. media \in Seq(Cell) /\ start \in Nat
    BY DEF TypeInv, TypeOK, Cell
  <2> QED BY <2>1, AppendedTypes, LenProperties
<1>2. ASSUME NEW j \in 1 .. z
      PROVE  LET i == start + ((k - 1) * z) + j
             IN  i \in DOMAIN media /\ media[i] = <<k, j>>
  <2> DEFINE n == ((k - 1) * z) + j
  <2>1. n \in 1 .. processed
    <3>1. (k - 1) * z + z = k * z
      BY <1>1
    <3>2. k * z <= Logged * z
      BY <1>1
    <3>3. (k - 1) * z \in Nat /\ Logged * z \in Nat
      BY <1>1
    <3> QED BY <1>1, <3>1, <3>2, <3>3 DEF LogInv
  <2>2. LogCell(z, n) = <<k, j>>
    <3> DEFINE q == k - 1
    <3>1. z \in Nat /\ q \in Nat /\ j \in 1 .. z /\ q + 1 = k
      BY <1>1
    <3> HIDE DEF z, q
    <3>2. \A x \in Nat : \A b \in Nat : \A c \in 1 .. x :
            LogCell(x, b * x + c) = <<b + 1, c>>
      BY CellOfEntry
    <3>3. \A b \in Nat : \A c \in 1 .. z : LogCell(z, b * z + c) = <<b + 1, c>>
      BY <3>1, <3>2
    <3>4. \A c \in 1 .. z : LogCell(z, q * z + c) = <<q + 1, c>>
      BY <3>1, <3>3
    <3>5. LogCell(z, q * z + j) = <<q + 1, j>>
      BY <3>1, <3>4
    <3> QED BY <3>1, <3>5 DEF z, q
  <2>3. start + ((k - 1) * z) + j = start + n
    BY <1>1, <2>1
  <2> HIDE DEF n
  <2>4. start + n \in 1 .. Len(media) /\ media[start + n] = LogCell(z, n)
    BY <2>1 DEF LogInv, Holds
  <2> QED BY <1>1, <2>2, <2>3, <2>4
<1>3. \A j \in 1 .. z : EntryAt(k)[j] = <<k, j>>
  BY <1>2 DEF EntryAt
<1> QED BY <1>3 DEF EntryAt, Cells

\* The invariants of a workload that writes whole entries.
LEMMA LogHolds == NoShortWrites => (Spec => [](TypeInv /\ LogInv))
<1> SUFFICES ASSUME NoShortWrites PROVE Spec => [](TypeInv /\ LogInv)
  OBVIOUS
<1>1. Init => TypeInv /\ LogInv
  BY AppendAssumption, InitTyped, InitLogged
<1>2. (TypeInv /\ LogInv) /\ [Next]_vars => (TypeInv /\ LogInv)'
  BY AppendAssumption, StepTyped, StepLogged
<1> QED BY <1>1, <1>2, PTL DEF Spec

\* Whatever lies in the directory, whatever fails and when the power fails: as long
\* as write(2) stores all that it is given, every counted entry is on the medium.
THEOREM AppendedIsDurable == NoShortWrites => (Spec => []EntriesOnMedia)
<1> SUFFICES ASSUME NoShortWrites PROVE Spec => []EntriesOnMedia
  OBVIOUS
<1>1. TypeInv /\ LogInv => EntriesOnMedia
  BY AppendAssumption, EntriesHeld DEF EntriesOnMedia
<1> QED BY <1>1, LogHolds, PTL

-----------------------------------------------------------------------------
(* The refinement.                                                          *)

\* the log as an abstract log sees it, and the entry being appended
AbstractLog == [k \in 1 .. Logged |-> EntryAt(k)]
Pending == IF pc \in {"sync", "commit"} THEN Cells(log_entry_size, Current) ELSE <<>>

\* The log of the first n entries of size z.
LogOf(z, n) == [k \in 1 .. n |-> Cells(z, k)]

\* The abstract log consists of the entries that have been counted.
LEMMA LogOfEntries ==
  AppendAssumption /\ TypeInv /\ LogInv => AbstractLog = LogOf(log_entry_size, Logged)
BY EntriesHeld DEF AbstractLog, LogOf

\* An entry that is not empty and fits the workload is one of its entries.
LEMMA CurrentIsEntry ==
  ASSUME AppendAssumption, TypeInv, LogInv, MoreToLog, log_entry_size # 0
  PROVE  Cells(log_entry_size, Current) \in AnyEntry
<1>1. /\ log_entry_size \in Nat \ {0} /\ log_entry_size \in EntrySizes
      /\ TotalWorkload \in Nat /\ Logged \in Nat /\ Current = Logged + 1
  BY AppendedTypes DEF TypeInv, TypeOK
<1>2. Current * log_entry_size <= TotalWorkload
  <2>1. (Logged + 1) * log_entry_size = Logged * log_entry_size + log_entry_size
    BY <1>1
  <2> QED BY <1>1, <2>1 DEF MoreToLog, LogInv
<1>3. Current * 1 <= Current * log_entry_size /\ Current * log_entry_size \in Nat
  BY <1>1
<1>4. Current \in 1 .. TotalWorkload
  BY <1>1, <1>2, <1>3
<1> QED BY <1>1, <1>4 DEF AnyEntry

\* Counting an entry appends it to the abstract log.
LEMMA CountingAppends ==
  ASSUME NEW z \in Nat, NEW q \in Nat
  PROVE  LogOf(z, q + 1) = Append(LogOf(z, q), Cells(z, q + 1))
<1> DEFINE short == [k \in 1 .. q |-> Cells(z, k)]
           long == [k \in 1 .. q + 1 |-> Cells(z, k)]
<1>1. \A k \in Nat : Cells(z, k) \in Seq(Cell)
  BY CellsSeq
<1>2. short \in [1 .. q -> Seq(Cell)] /\ long \in [1 .. q + 1 -> Seq(Cell)]
  BY <1>1
<1>3. /\ short \in Seq(Seq(Cell)) /\ Len(short) = q
      /\ long \in Seq(Seq(Cell)) /\ Len(long) = q + 1
  BY <1>2, SegmentSeq
<1>4. \A k \in 1 .. q : short[k] = Cells(z, k)
  OBVIOUS
<1>5. \A k \in 1 .. q + 1 : long[k] = Cells(z, k)
  OBVIOUS
<1> HIDE DEF short, long
<1> DEFINE e == Cells(z, q + 1)
           new == Append(short, e)
<1>9. e \in Seq(Cell)
  BY <1>1
<1> HIDE DEF e
<1>6. /\ new \in Seq(Seq(Cell)) /\ Len(new) = q + 1
      /\ \A k \in 1 .. q : new[k] = short[k]
      /\ new[q + 1] = e
  BY <1>3, <1>9, AppendProperties
<1> HIDE DEF new
<1>7. \A k \in 1 .. q + 1 : long[k] = new[k]
  BY <1>4, <1>5, <1>6 DEF e
<1>8. long = new
  BY <1>3, <1>6, <1>7, SeqEqual
<1> QED BY <1>8 DEF long, new, short, e, LogOf

\* Every step of the detailed log is a step of the abstract one, or none.
LEMMA StepRefines ==
  ASSUME AppendAssumption, TypeInv, LogInv, Next,
         AbstractLog = LogOf(log_entry_size, Logged),
         AbstractLog' = LogOf(log_entry_size', Logged')
  PROVE  \/ /\ Pending = <<>> /\ Pending' \in AnyEntry
            /\ AbstractLog' = AbstractLog
         \/ /\ Pending # <<>> /\ Pending' = <<>>
            /\ AbstractLog' = Append(AbstractLog, Pending)
         \/ Pending' = <<>> /\ AbstractLog' = AbstractLog
         \/ Pending' = Pending /\ AbstractLog' = AbstractLog
<1>0. /\ UNCHANGED log_entry_size /\ log_entry_size \in Nat
      /\ Logged \in Nat /\ Current = Logged + 1
  BY SizeStays, AppendedTypes
<1>1. ASSUME processed' = processed PROVE AbstractLog' = AbstractLog /\ Current' = Current
  BY <1>0, <1>1 DEF Logged, InEntries, Current
<1>2. CASE WriteEntry \/ PoolCopy
  <2>1. /\ pc = "ready" /\ pc' \in {"sync", "commit"} /\ processed' = processed
        /\ MoreToLog
    BY <1>2 DEF WriteEntry, PoolCopy
  <2>2. Pending = <<>> /\ Pending' = Cells(log_entry_size, Current)
    BY <1>0, <1>1, <2>1 DEF Pending
  <2>3. CASE log_entry_size = 0
    <3>1. Cells(log_entry_size, Current) = <<>>
      BY <1>0, <2>3, CellsSeq
    <3> QED BY <1>1, <2>1, <2>2, <3>1
  <2>4. CASE log_entry_size # 0
    BY <1>1, <2>1, <2>2, <2>4, CurrentIsEntry
  <2> QED BY <2>3, <2>4
<1>3. CASE SyncEntry \/ PoolCommit
  <2>1. /\ pc \in {"sync", "commit"} /\ pc' = "ready"
        /\ processed' = processed + log_entry_size
    BY <1>3 DEF SyncEntry, PoolCommit
  <2>2. Pending = Cells(log_entry_size, Logged + 1) /\ Pending' = <<>>
    BY <1>0, <2>1 DEF Pending
  <2>3. CASE log_entry_size = 0
    <3>1. processed' = processed
      BY <2>1, <2>3 DEF TypeInv, TypeOK
    <3> QED BY <1>1, <2>2, <3>1
  <2>4. CASE log_entry_size # 0
    <3>1. Logged' = Logged + 1
      BY <1>0, <2>1, <2>4, CountedEntry
    <3>2. Pending # <<>>
      BY <1>0, <2>2, <2>4, CellsSeq
    <3>3. AbstractLog' = Append(AbstractLog, Pending)
      BY <1>0, <2>2, <3>1, CountingAppends
    <3> QED BY <2>2, <3>2, <3>3
  <2> QED BY <2>3, <2>4
<1>4. CASE WriteBack
  <2>1. UNCHANGED <<pc, processed>>
    BY <1>4 DEF WriteBack
  <2> QED BY <1>0, <1>1, <2>1 DEF Pending
<1>5. CASE \/ Remove \/ CreateFile \/ CreatePool \/ OpenPool \/ Allocate \/ Finish
           \/ CreateFails \/ AllocateFails \/ DrawFails \/ AppendFails \/ PowerFailure
  <2>1. pc' \notin {"sync", "commit"} /\ processed' = processed
    BY <1>5 DEF Remove, CreateFile, CreatePool, OpenPool, Allocate, Finish, CreateFails,
                AllocateFails, DrawFails, AppendFails, PowerFailure, Crash
  <2> QED BY <1>1, <2>1 DEF Pending
<1> QED BY <1>2, <1>3, <1>4, <1>5 DEF Next, Step

\* As long as write(2) stores all that it is given, the file, with whatever lies in
\* the directory, whatever fails and when the power fails, is an append-only log.
THEOREM AppendLogIsDurableLog == NoShortWrites => (Spec => ImplementsDurableLog)
<1> SUFFICES ASSUME NoShortWrites PROVE Spec => ImplementsDurableLog
  OBVIOUS
<1> USE AppendAssumption
<1>1. TypeInv /\ LogInv => AbstractLog = LogOf(log_entry_size, Logged)
  BY LogOfEntries
<1>2. (TypeInv /\ LogInv => AbstractLog = LogOf(log_entry_size, Logged))'
  BY <1>1, PTL
<1>3. Init => Log!Init
  <2> SUFFICES ASSUME Init PROVE Log!Init
    OBVIOUS
  <2>1. AbstractLog = LogOf(log_entry_size, Logged)
    BY <1>1, InitTyped, InitLogged
  <2>2. pc = "remove" /\ processed = 0 /\ log_entry_size \in Nat
    BY DEF Init
  <2>3. Logged = 0
    BY <2>2, NothingLogged
  <2>4. AbstractLog = <<>>
    <3>1. 1 .. 0 = {}
      OBVIOUS
    <3>2. AbstractLog \in [1 .. 0 -> Seq(Cell)]
      BY <2>1, <2>3, <3>1 DEF LogOf
    <3>3. AbstractLog \in Seq(Seq(Cell)) /\ Len(AbstractLog) = 0
      BY <3>2, SegmentSeq
    <3> QED BY <3>3, EmptySeq
  <2> QED BY <2>2, <2>4 DEF Log!Init, AbstractLog, Pending
<1>4. TypeInv /\ LogInv /\ (TypeInv /\ LogInv)' /\ [Next]_vars => [Log!Next]_(Log!vars)
  <2> SUFFICES ASSUME TypeInv, LogInv, (TypeInv /\ LogInv)', [Next]_vars
               PROVE  [Log!Next]_(Log!vars)
    OBVIOUS
  <2>1. /\ AbstractLog = LogOf(log_entry_size, Logged)
        /\ AbstractLog' = LogOf(log_entry_size', Logged')
    BY <1>1, <1>2
  <2>2. CASE UNCHANGED vars
    <3>1. AbstractLog' = AbstractLog /\ Pending' = Pending
      BY <2>1, <2>2 DEF vars, Logged, InEntries, Pending, Current
    <3> QED BY <3>1 DEF Log!vars, AbstractLog, Pending
  <2>3. CASE Next
    <3>1. \/ /\ Pending = <<>> /\ Pending' \in AnyEntry
             /\ AbstractLog' = AbstractLog
          \/ /\ Pending # <<>> /\ Pending' = <<>>
             /\ AbstractLog' = Append(AbstractLog, Pending)
          \/ Pending' = <<>> /\ AbstractLog' = AbstractLog
          \/ Pending' = Pending /\ AbstractLog' = AbstractLog
      BY <2>1, <2>3, StepRefines
    <3>2. /\ Log!Request <=> /\ Pending = <<>> /\ Pending' \in AnyEntry
                             /\ AbstractLog' = AbstractLog
          /\ Log!Acknowledge <=> /\ Pending # <<>> /\ Pending' = <<>>
                                 /\ AbstractLog' = Append(AbstractLog, Pending)
          /\ Log!Abandon <=> Pending' = <<>> /\ AbstractLog' = AbstractLog
      BY DEF Log!Request, Log!Acknowledge, Log!Abandon, AbstractLog, Pending
    <3>3. CASE Pending' = Pending /\ AbstractLog' = AbstractLog
      BY <3>3 DEF Log!vars, AbstractLog, Pending
    <3> QED BY <3>1, <3>2, <3>3 DEF Log!Next
  <2> QED BY <2>2, <2>3
<1> QED BY <1>3, <1>4, LogHolds, PTL DEF Spec, ImplementsDurableLog, Log!Spec
=============================================================================
