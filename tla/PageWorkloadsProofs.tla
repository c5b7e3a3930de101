----------------------- MODULE PageWorkloadsProofs -------------------------
(***************************************************************************)
(* The workloads on random pages and the table scan, for every number and  *)
(* size of pages, every target buffer, every alignment and every width of  *)
(* the integers: reads stay inside their block, scans are even, and what   *)
(* is counted has been moved.                                              *)
(***************************************************************************)
EXTENDS PageWorkloads, FiniteSetTheorems, TLAPS

-----------------------------------------------------------------------------
(* Arithmetic.                                                              *)

\* Quotient and remainder of an integer.
LEMMA QuotientAndRest ==
  ASSUME NEW n \in Int, NEW m \in Nat \ {0}
  PROVE  /\ n \div m \in Int /\ n % m \in 0 .. m - 1
         /\ n = m * (n \div m) + (n % m)
<1>1. /\ n \div m \in Int /\ n % m \in 0 .. m - 1
  OBVIOUS
<1>2. n % m = n - m * (n \div m)
  BY SMTT(60)
<1>3. m * (n \div m) \in Int
  BY <1>1
<1> QED BY <1>1, <1>2, <1>3

\* A natural number is not smaller than what is left of it modulo m, and below m
\* nothing changes.
LEMMA RestOfNat ==
  ASSUME NEW n \in Nat, NEW m \in Nat \ {0}
  PROVE  n % m \in 0 .. n /\ (n < m => n % m = n)
<1> DEFINE q == n \div m
           r == n % m
<1>1. q \in Int /\ r \in 0 .. m - 1 /\ n = m * q + r
  BY QuotientAndRest
<1> HIDE DEF q, r
<1>2. q >= 0
  <2> SUFFICES ASSUME q <= -1 PROVE FALSE
    BY <1>1
  <2>1. m * q <= m * (-1)
    BY <1>1
  <2> QED BY <2>1, <1>1
<1>3. m * q >= 0
  BY <1>1, <1>2
<1>4. ASSUME n < m PROVE q = 0
  <2> SUFFICES ASSUME q >= 1 PROVE FALSE
    BY <1>1, <1>2
  <2>1. m * q >= m * 1
    BY <1>1
  <2> QED BY <2>1, <1>1, <1>4
<1>5. r \in 0 .. n
  BY <1>1, <1>3
<1>6. ASSUME n < m PROVE r = n
  BY <1>1, <1>4, <1>6
<1> QED BY <1>5, <1>6 DEF r

\* Division is exact for multiples.
LEMMA ExactQuotient ==
  ASSUME NEW k \in Int, NEW m \in Nat \ {0}
  PROVE  (k * m) \div m = k
<1> DEFINE n == k * m
           q == n \div m
           r == n % m
<1>1. n \in Int
  OBVIOUS
<1>2. q \in Int /\ r \in 0 .. m - 1 /\ n = m * q + r
  BY <1>1, QuotientAndRest
<1>3. n = m * k
  OBVIOUS
<1> HIDE DEF n, q, r
<1>4. r = m * (k - q)
  BY <1>2, <1>3
<1>5. ~(k - q >= 1)
  <2> SUFFICES ASSUME k - q >= 1 PROVE FALSE
    OBVIOUS
  <2>1. m * (k - q) >= m * 1
    BY <1>2
  <2> QED BY <2>1, <1>2, <1>4
<1>6. ~(k - q <= -1)
  <2> SUFFICES ASSUME k - q <= -1 PROVE FALSE
    OBVIOUS
  <2>1. m * (k - q) <= m * (-1)
    BY <1>2
  <2> QED BY <2>1, <1>2, <1>4
<1>7. k = q
  BY <1>2, <1>5, <1>6
<1> QED BY <1>7 DEF q, n

\* The end of the last slot bounds the end of every slot.
LEMMA SlotBelowEnd ==
  ASSUME NEW n \in Nat, NEW size \in Nat, NEW s \in 0 .. n - 1
  PROVE  s * size \in Nat /\ s * size + size <= n * size
<1>1. (s + 1) * size <= n * size
  OBVIOUS
<1>2. (s + 1) * size = s * size + size
  OBVIOUS
<1>3. s * size \in Nat /\ n * size \in Nat
  OBVIOUS
<1> QED BY <1>1, <1>2, <1>3

-----------------------------------------------------------------------------
(* The loads of ASMIOWrapper::read.                                         *)

\* n sequences of loads with the address advanced between them cover the lines
\* from the first to the last.
LEMMA AdvancingCovers ==
  ASSUME NEW n \in Nat
  PROVE  Advancing(n) = 0 .. n * 128 - 1
<1>1. ASSUME NEW x \in Advancing(n) PROVE x \in 0 .. n * 128 - 1
  <2>1. PICK k \in 0 .. n - 1, line \in 0 .. 127 : x = k * 128 + line
    BY DEF Advancing, READ_NT_8192
  <2> QED BY <2>1
<1>2. ASSUME NEW x \in 0 .. n * 128 - 1 PROVE x \in Advancing(n)
  <2> DEFINE k == x \div 128
             line == x % 128
  <2>1. k \in 0 .. n - 1 /\ line \in 0 .. 127 /\ x = k * 128 + line
    OBVIOUS
  <2> HIDE DEF k, line
  <2> QED BY <2>1 DEF Advancing, READ_NT_8192
<1> QED BY <1>1, <1>2

\* For the page sizes up to 64 KiB that have a sequence of loads, every line of
\* the page is loaded once and nothing behind it.
LEMMA LoadsWholePage ==
  ASSUME NEW len \in {4096, 8192, 16384, 32768, 65536}
  PROVE  LoadedLines(len) = 0 .. len \div LineBytes - 1
<1>1. CASE len \in {4096, 8192}
  <2>1. CASE len = 4096
    <3>1. LoadedLines(len) = 0 .. 63
      BY <2>1 DEF LoadedLines, READ_NT_4096
    <3>2. len \div LineBytes - 1 = 63
      BY <2>1 DEF LineBytes
    <3> QED BY <3>1, <3>2
  <2>2. CASE len = 8192
    <3>1. LoadedLines(len) = 0 .. 127
      BY <2>2 DEF LoadedLines, READ_NT_8192
    <3>2. len \div LineBytes - 1 = 127
      BY <2>2 DEF LineBytes
    <3> QED BY <3>1, <3>2
  <2> QED BY <1>1, <2>1, <2>2
<1>2. CASE len \in {16384, 32768, 65536}
  <2>1. LoadedLines(len) = Advancing(len \div 8192)
    BY <1>2 DEF LoadedLines
  <2>2. len \div 8192 \in Nat /\ (len \div 8192) * 128 = len \div LineBytes
    BY <1>2 DEF LineBytes
  <2> QED BY <2>1, <2>2, AdvancingCovers
<1> QED BY <1>1, <1>2

\* The number of lines of a page of at most 64 KiB.
LEMMA LinesOfPage ==
  ASSUME NEW len \in {4096, 8192, 16384, 32768, 65536}
  PROVE  Cardinality(LoadedLines(len)) * LineBytes = len
<1>1. len \div LineBytes \in Nat \ {0} /\ (len \div LineBytes) * LineBytes = len
  BY DEF LineBytes
<1>2. Cardinality(0 .. len \div LineBytes - 1) = len \div LineBytes
  BY <1>1, FS_Interval
<1> QED BY <1>1, <1>2, LoadsWholePage

\* Whatever the length, a number of lines is loaded.
LEMMA LinesAreFinite ==
  ASSUME NEW len \in Nat
  PROVE  Cardinality(LoadedLines(len)) \in Nat
<1>1. CASE len \in {4096, 8192, 16384, 32768, 65536}
  <2>1. IsFiniteSet(0 .. len \div LineBytes - 1)
    BY <1>1, FS_Interval DEF LineBytes
  <2> QED BY <1>1, <2>1, LoadsWholePage, FS_CardinalityType
<1>2. CASE len \notin {4096, 8192, 16384, 32768, 65536}
  <2>1. LoadedLines(len) \in {READ_NT_8192, {}}
    BY <1>2 DEF LoadedLines, NotAdvancing
  <2>2. IsFiniteSet(0 .. 127) /\ IsFiniteSet({})
    <3>1. \A n \in Nat : IsFiniteSet(0 .. n)
      BY FS_Interval
    <3>2. 127 \in Nat
      OBVIOUS
    <3>3. IsFiniteSet(0 .. 127)
      BY <3>1, <3>2, Zenon
    <3> QED BY <3>3, FS_EmptySet
  <2>3. IsFiniteSet(READ_NT_8192)
    BY <2>2 DEF READ_NT_8192
  <2> QED BY <2>1, <2>2, <2>3, FS_CardinalityType
<1> QED BY <1>1, <1>2

-----------------------------------------------------------------------------
(* Types.                                                                   *)

\* What a read moves is a number of units.
LEMMA ReadMovesNat ==
  ASSUME WorkloadAssumption, TypeOK
  PROVE  ReadMoves \in Nat
<1>1. pageSize \in Nat /\ UnitBytes \in Nat \ {0} /\ pageSize * UnitBytes \in Nat
  BY DEF WorkloadAssumption, TypeOK
<1> DEFINE bytes == Cardinality(LoadedLines(pageSize * UnitBytes)) * LineBytes
<1>2. bytes \in Nat
  BY <1>1, LinesAreFinite DEF LineBytes
<1>3. bytes \div UnitBytes \in Nat
  <2> HIDE DEF bytes
  <2> QED BY <1>1, <1>2
<1> QED BY <1>1, <1>3 DEF ReadMoves

\* A page paged in keeps the types of what pagein() changes.
LEMMA PageinTypes ==
  ASSUME WorkloadAssumption, TypeOK, pc = "run",
         NEW p, NEW offset \in Nat, Pagein(p, offset)
  PROVE  /\ pc' \in {"run", "aborted", "crashed"}
         /\ target' \subseteq Nat /\ moved' \in Nat /\ processed' \in Nat
<1>1. pageSize \in Nat /\ shift \in Nat /\ ReadMoves \in Nat
  BY ReadMovesNat DEF WorkloadAssumption, TypeOK
<1>2. ReadInto(offset) \subseteq Nat
  BY <1>1 DEF ReadInto
<1>3. CASE Valid(p) /\ ReadReturns
  <2>1. target' = ReadInto(offset) /\ moved' = moved + ReadMoves
        /\ processed' = processed + pageSize /\ pc' = pc
    BY <1>3 DEF Pagein
  <2>2. moved \in Nat /\ processed \in Nat
    BY DEF TypeOK
  <2> QED BY <1>1, <1>2, <2>1, <2>2
<1>4. CASE ~(Valid(p) /\ ReadReturns)
  BY <1>4 DEF Pagein, TypeOK
<1> QED BY <1>3, <1>4

\* Every reachable state has its type, whatever the sizes and widths.
THEOREM TypeCorrect == Spec => []TypeOK
<1> USE WorkloadAssumption
<1>1. Init => TypeOK
  BY DEF Init, TypeOK, WorkloadAssumption
<1>2. TypeOK /\ [Next]_vars => TypeOK'
  <2> SUFFICES ASSUME TypeOK, [Next]_vars PROVE TypeOK'
    OBVIOUS
  <2>1. CASE AllocateBuf
    <3>1. pc' = "run" => block' \in Nat /\ shift' \in 0 .. Alignment - 1
      <4>1. BufLength \in BlockLengths
        BY DEF BlockLengths
      <4>2. ASSUME pc' = "run"
            PROVE  /\ ~(ToInt(BlockSize(BufLength)) < 0)
                   /\ block' = ToInt(BlockSize(BufLength))
                   /\ shift' \in 0 .. Alignment - 1
        BY <2>1, <4>1, <4>2 DEF AllocateBuf
      <4>3. ToInt(BlockSize(BufLength)) \in Int
        <5>1. BufLength \in Nat
          BY DEF TypeOK, WorkloadAssumption, BufLength
        <5>2. BlockSize(BufLength) \in Int /\ IntRange \in Nat \ {0}
          BY <5>1 DEF BlockSize, WorkloadAssumption
        <5>3. BlockSize(BufLength) % IntRange \in Int
          BY <5>2, QuotientAndRest
        <5> QED BY <5>2, <5>3 DEF ToInt
      <4> QED BY <4>2, <4>3
    <3>2. pc' # "run" => pc' = "crashed" /\ UNCHANGED <<block, shift>>
      BY <2>1 DEF AllocateBuf
    <3>3. pc' \in {"run", "crashed"} /\ block' \in Nat /\ shift' \in 0 .. Alignment - 1
      BY <3>1, <3>2 DEF TypeOK
    <3> QED BY <2>1, <3>3 DEF AllocateBuf, TypeOK, params
  <2>2. CASE RandomRead
    <3>1. slot * pageSize \in Nat
      BY SlotBelowEnd DEF TypeOK, WorkloadAssumption
    <3>2. PICK p : Pagein(p, slot * pageSize)
      BY <2>2 DEF RandomRead
    <3>3. /\ pc' \in {"run", "aborted", "crashed"}
          /\ target' \subseteq Nat /\ moved' \in Nat /\ processed' \in Nat
      BY <2>2, <3>1, <3>2, PageinTypes DEF RandomRead
    <3>4. slot' \in 0 .. targetPages - 1
      <4>1. slot + 1 \in Int /\ targetPages \in Nat \ {0}
        BY DEF TypeOK, WorkloadAssumption
      <4>2. (slot + 1) % targetPages \in 0 .. targetPages - 1
        BY <4>1, QuotientAndRest
      <4> QED BY <2>2, <4>2 DEF RandomRead, NextSlot
    <3> QED BY <2>2, <3>3, <3>4 DEF RandomRead, TypeOK, params
  <2>3. CASE RandomWrite
    <3>1. WriteMoves \in Nat /\ pageSize \in Nat
      BY DEF WriteMoves, TypeOK, WorkloadAssumption
    <3>2. pc' \in {"run", "undefined"} /\ moved' \in Nat /\ processed' \in Nat
      BY <2>3, <3>1 DEF RandomWrite, TypeOK
    <3> QED BY <2>3, <3>2 DEF RandomWrite, TypeOK, params
  <2>4. CASE ScanPage
    <3>1. /\ pc' \in {"run", "aborted", "crashed"}
          /\ target' \subseteq Nat /\ moved' \in Nat /\ processed' \in Nat
      BY <2>4, PageinTypes DEF ScanPage
    <3>2. /\ totalPages \in Nat /\ pageId \in Nat
          /\ reads \in [0 .. totalPages - 1 -> Nat]
      BY DEF TypeOK, WorkloadAssumption
    <3>3. CASE Valid(pageId) /\ ReadReturns
      <4>1. pageId \in 0 .. totalPages - 1
        BY <3>2, <3>3 DEF Valid
      <4>2. reads' \in [0 .. totalPages - 1 -> Nat]
        BY <2>4, <3>2, <3>3, <4>1 DEF ScanPage
      <4>3. pageId' \in Nat
        <5>1. (pageId + 1) % totalPages \in 0 .. totalPages - 1
          BY <3>2, <4>1, QuotientAndRest
        <5> QED BY <2>4, <3>3, <5>1 DEF ScanPage, NextScanId
      <4> QED BY <2>4, <3>1, <4>2, <4>3 DEF ScanPage, TypeOK, params
    <3>4. CASE ~(Valid(pageId) /\ ReadReturns)
      <4>1. UNCHANGED <<reads, pageId>>
        BY <2>4, <3>4 DEF ScanPage
      <4> QED BY <2>4, <3>1, <4>1 DEF ScanPage, TypeOK, params
    <3> QED BY <3>3, <3>4
  <2>5. CASE Finish
    BY <2>5 DEF Finish, TypeOK, params
  <2>6. CASE UNCHANGED vars
    BY <2>6 DEF vars, TypeOK, params
  <2> QED BY <2>1, <2>2, <2>3, <2>4, <2>5, <2>6 DEF Next
<1> QED BY <1>1, <1>2, PTL DEF Spec

-----------------------------------------------------------------------------
(* Reads stay inside the block.                                             *)

\* The block has room for the buffer behind every shift, if an int can count it;
\* what the last read was given is a part of it.
BlockInv ==
  BlockSize(BufLength) < IntRange =>
    /\ pc \notin {"alloc", "crashed"} => block = BlockSize(BufLength)
    /\ pc = "alloc" => target = {}
    /\ target \subseteq 0 .. block - 1

\* A read at any slot of the buffer lies in the block.
LEMMA SlotInsideBlock ==
  ASSUME WorkloadAssumption, TypeOK, block = BlockSize(BufLength),
         NEW s \in 0 .. targetPages - 1,
         workload = "bufman" \/ s = 0
  PROVE  ReadInto(s * pageSize) \subseteq 0 .. block - 1
<1> DEFINE n == IF workload = "bufman" THEN targetPages ELSE 1
<1>1. /\ n \in Nat /\ s \in 0 .. n - 1 /\ pageSize \in Nat /\ pageSize * n \in Nat
      /\ Alignment \in Nat /\ shift \in 0 .. Alignment - 1
  BY DEF WorkloadAssumption, TypeOK
<1>2. block = n * pageSize + Alignment - 1
  BY DEF BlockSize, BufLength
<1> HIDE DEF n
<1>3. s * pageSize \in Nat /\ s * pageSize + pageSize <= n * pageSize
  BY <1>1, SlotBelowEnd
<1>4. n * pageSize \in Nat
  BY <1>1
<1>5. ASSUME NEW x \in ReadInto(s * pageSize) PROVE x \in 0 .. block - 1
  BY <1>1, <1>2, <1>3, <1>4 DEF ReadInto
<1> QED BY <1>5

\* As long as 32 bits hold the size of the block, no read leaves it: for every
\* alignment, every address malloc() may return and every slot.
THEOREM ReadsStayInside == Spec => []ReadsInsideBlock
<1> USE WorkloadAssumption
<1>1. Init => BlockInv
  BY DEF Init, BlockInv
<1>2. TypeOK /\ BlockInv /\ [Next]_vars => BlockInv'
  <2> SUFFICES ASSUME TypeOK, BlockInv, [Next]_vars,
                      (BlockSize(BufLength) < IntRange)'
               PROVE  BlockInv'
    BY DEF BlockInv
  <2>0. CASE UNCHANGED vars
    BY <2>0 DEF vars, params, BlockInv, BlockSize, BufLength
  <2> SUFFICES ASSUME Next PROVE BlockInv'
    BY <2>0
  <2>1. UNCHANGED params
    BY DEF Next, AllocateBuf, RandomRead, RandomWrite, ScanPage, Finish
  <2>2. BlockSize(BufLength)' = BlockSize(BufLength)
    BY <2>1 DEF params, BlockSize, BufLength
  <2>3. BlockSize(BufLength) < IntRange
    BY <2>2
  <2>4. CASE AllocateBuf
    <3>1. target' = {}
      BY <2>3, <2>4 DEF AllocateBuf, BlockInv
    <3>2. ASSUME pc' = "run" PROVE block' = BlockSize(BufLength)
      <4>1. BufLength \in Nat
        BY DEF TypeOK, WorkloadAssumption, BufLength
      <4>2. BlockSize(BufLength) \in Nat /\ IntRange \in Nat \ {0}
        BY <4>1 DEF BlockSize, WorkloadAssumption
      <4>3. BlockSize(BufLength) % IntRange = BlockSize(BufLength)
        BY <2>3, <4>2, RestOfNat
      <4>4. block' = ToInt(BlockSize(BufLength)) /\ ~(ToInt(BlockSize(BufLength)) < 0)
        BY <2>4, <3>2 DEF AllocateBuf, BlockLengths
      <4> QED BY <2>3, <4>2, <4>3, <4>4 DEF ToInt
    <3>3. pc' \in {"run", "crashed"}
      BY <2>4 DEF AllocateBuf
    <3> QED BY <2>2, <3>1, <3>2, <3>3 DEF BlockInv
  <2>5. ASSUME pc = "run", UNCHANGED block, NEW offset, NEW p, Pagein(p, offset),
               ReadInto(offset) \subseteq 0 .. block - 1
        PROVE  BlockInv'
    <3>1. target' \subseteq 0 .. block - 1
      BY <2>3, <2>5 DEF Pagein, BlockInv
    <3>2. block = BlockSize(BufLength)
      BY <2>3, <2>5 DEF BlockInv
    <3>3. pc' # "alloc"
      BY <2>5 DEF Pagein
    <3> QED BY <2>2, <2>5, <3>1, <3>2, <3>3 DEF BlockInv
  <2>6. CASE RandomRead
    <3>1. block = BlockSize(BufLength)
      BY <2>3, <2>6 DEF BlockInv, RandomRead
    <3>2. ReadInto(slot * pageSize) \subseteq 0 .. block - 1
      BY <2>6, <3>1, SlotInsideBlock DEF RandomRead, TypeOK
    <3> QED BY <2>5, <2>6, <3>2 DEF RandomRead
  <2>7. CASE ScanPage
    <3>1. block = BlockSize(BufLength)
      BY <2>3, <2>7 DEF BlockInv, ScanPage
    <3>2. 0 \in 0 .. targetPages - 1 /\ 0 * pageSize = 0
      BY DEF TypeOK, WorkloadAssumption
    <3>3. ReadInto(0) \subseteq 0 .. block - 1
      BY <3>1, <3>2, SlotInsideBlock
    <3> QED BY <2>5, <2>7, <3>3 DEF ScanPage
  <2>8. CASE RandomWrite
    <3>1. pc = "run" /\ pc' \in {"run", "undefined"} /\ UNCHANGED <<block, target>>
      BY <2>8 DEF RandomWrite
    <3> QED BY <2>2, <2>3, <3>1 DEF BlockInv
  <2>9. CASE Finish
    <3>1. pc = "run" /\ pc' = "finished" /\ UNCHANGED <<block, target>>
      BY <2>9 DEF Finish
    <3> QED BY <2>2, <2>3, <3>1 DEF BlockInv
  <2> QED BY <2>4, <2>6, <2>7, <2>8, <2>9 DEF Next
<1>3. BlockInv => ReadsInsideBlock
  BY DEF BlockInv, ReadsInsideBlock
<1> QED BY <1>1, <1>2, <1>3, TypeCorrect, PTL DEF Spec

-----------------------------------------------------------------------------
(* Scans are even.                                                          *)

\* The pages before the position of the scan have been read once more than those
\* from there on.
EvenInv ==
  workload = "tablescan" =>
    /\ totalPages > 0 => pageId < totalPages
    /\ \A p, q \in 0 .. totalPages - 1 :
         p < q => reads[p] - reads[q] = IF p < pageId /\ q >= pageId THEN 1 ELSE 0

\* However many pages there are and however often the scan has gone round: no two
\* pages differ by more than the round that is under way.
THEOREM ScansAreEven == Spec => []ScanIsEven
<1> USE WorkloadAssumption
<1>1. Init => EvenInv
  BY DEF Init, EvenInv, WorkloadAssumption
<1>2. TypeOK /\ EvenInv /\ [Next]_vars => EvenInv'
  <2> SUFFICES ASSUME TypeOK, EvenInv, [Next]_vars PROVE EvenInv'
    OBVIOUS
  <2>1. ASSUME UNCHANGED <<workload, totalPages, pageId, reads>> PROVE EvenInv'
    BY <2>1 DEF EvenInv
  <2>2. CASE ScanPage /\ Valid(pageId) /\ ReadReturns
    <3>1. /\ workload = "tablescan" /\ UNCHANGED <<workload, totalPages>>
          /\ totalPages \in Nat /\ pageId \in 0 .. totalPages - 1
          /\ reads \in [0 .. totalPages - 1 -> Nat]
      BY <2>2 DEF ScanPage, params, Valid, TypeOK, WorkloadAssumption
    <3>2. /\ reads' = [reads EXCEPT ![pageId] = @ + 1]
          /\ pageId' = (pageId + 1) % totalPages
      BY <2>2 DEF ScanPage, NextScanId
    <3>3. \A p, q \in 0 .. totalPages - 1 :
            p < q => reads[p] - reads[q] = IF p < pageId /\ q >= pageId THEN 1 ELSE 0
      BY <3>1 DEF EvenInv
    <3>4. CASE pageId + 1 < totalPages
      <4>1. pageId' = pageId + 1
        <5>1. pageId + 1 \in Nat /\ totalPages \in Nat \ {0}
          BY <3>1
        <5>2. (pageId + 1) % totalPages = pageId + 1
          BY <3>4, <5>1, RestOfNat
        <5> QED BY <3>2, <5>2
      <4>2. ASSUME NEW p \in 0 .. totalPages - 1, NEW q \in 0 .. totalPages - 1, p < q
            PROVE  reads'[p] - reads'[q] =
                     IF p < pageId + 1 /\ q >= pageId + 1 THEN 1 ELSE 0
        <5>1. /\ reads'[p] = reads[p] + (IF p = pageId THEN 1 ELSE 0)
              /\ reads'[q] = reads[q] + (IF q = pageId THEN 1 ELSE 0)
              /\ reads[p] \in Nat /\ reads[q] \in Nat
          BY <3>1, <3>2
        <5>2. reads[p] - reads[q] = IF p < pageId /\ q >= pageId THEN 1 ELSE 0
          BY <3>3, <4>2
        <5> QED BY <3>1, <4>2, <5>1, <5>2
      <4> QED BY <3>1, <3>4, <4>1, <4>2 DEF EvenInv
    <3>5. CASE pageId + 1 = totalPages
      <4>1. pageId' = 0
        BY <3>1, <3>2, <3>5
      <4>2. ASSUME NEW p \in 0 .. totalPages - 1, NEW q \in 0 .. totalPages - 1, p < q
            PROVE  reads'[p] - reads'[q] = 0
        <5>1. /\ reads'[p] = reads[p]
              /\ reads'[q] = reads[q] + (IF q = pageId THEN 1 ELSE 0)
              /\ reads[p] \in Nat /\ reads[q] \in Nat
          BY <3>1, <3>2, <3>5, <4>2
        <5>2. reads[p] - reads[q] = IF p < pageId /\ q >= pageId THEN 1 ELSE 0
          BY <3>3, <4>2
        <5> QED BY <3>1, <3>5, <4>2, <5>1, <5>2
      <4>3. \A p \in 0 .. totalPages - 1 : ~(p < 0)
        OBVIOUS
      <4> QED BY <3>1, <4>1, <4>2, <4>3 DEF EvenInv
    <3> QED BY <3>1, <3>4, <3>5
  <2>3. CASE ScanPage /\ ~(Valid(pageId) /\ ReadReturns)
    BY <2>1, <2>3 DEF ScanPage, params
  <2>4. CASE AllocateBuf \/ RandomRead \/ RandomWrite \/ Finish
    BY <2>1, <2>4 DEF AllocateBuf, RandomRead, RandomWrite, Finish, params
  <2>5. CASE UNCHANGED vars
    BY <2>1, <2>5 DEF vars, params
  <2> QED BY <2>2, <2>3, <2>4, <2>5 DEF Next
<1>3. TypeOK /\ EvenInv => ScanIsEven
  <2> SUFFICES ASSUME TypeOK, EvenInv, workload = "tablescan",
                      NEW p \in DOMAIN reads, NEW q \in DOMAIN reads, p < q
               PROVE  reads[p] - reads[q] \in {0, 1}
    BY DEF ScanIsEven
  <2>1. DOMAIN reads = 0 .. totalPages - 1
    BY DEF TypeOK
  <2> QED BY <2>1 DEF EvenInv
<1> QED BY <1>1, <1>2, <1>3, TypeCorrect, PTL DEF Spec

-----------------------------------------------------------------------------
(* What is counted has been moved.                                          *)

\* An engine that reads pages moves all of each.
LEMMA ReadsMovePages ==
  ASSUME WorkloadAssumption, TypeOK, EngineMovesPages, ReadReturns
  PROVE  ReadMoves = pageSize
<1>1. pageSize \in Nat /\ UnitBytes \in Nat \ {0} /\ pageSize * UnitBytes \in Nat
  BY DEF WorkloadAssumption, TypeOK
<1>2. CASE engine = "ASM"
  <2>1. pageSize * UnitBytes \in {4096, 8192, 16384, 32768, 65536}
    BY <1>1, <1>2 DEF EngineMovesPages, ReadReturns, ASMReads
  <2>2. Cardinality(LoadedLines(pageSize * UnitBytes)) * LineBytes = pageSize * UnitBytes
    BY <2>1, LinesOfPage
  <2>3. (pageSize * UnitBytes) \div UnitBytes = pageSize
    BY <1>1, ExactQuotient
  <2> QED BY <1>2, <2>2, <2>3 DEF ReadMoves
<1>3. CASE engine # "ASM"
  BY <1>3 DEF ReadMoves
<1> QED BY <1>2, <1>3

\* For every number and size of pages and every target: over a buffer manager with
\* pages, what a workload has counted is what the engine has moved; without pages
\* nothing has been moved.
THEOREM CountsWhatMoved == Spec => []ProcessedIsTransferred
<1> USE WorkloadAssumption
<1>1. Init => ProcessedIsTransferred
  BY DEF Init, ProcessedIsTransferred
<1>2. TypeOK /\ ProcessedIsTransferred /\ [Next]_vars => ProcessedIsTransferred'
  <2> SUFFICES ASSUME TypeOK, ProcessedIsTransferred, [Next]_vars
               PROVE  ProcessedIsTransferred'
    OBVIOUS
  <2>1. UNCHANGED params
    BY DEF Next, AllocateBuf, RandomRead, RandomWrite, ScanPage, Finish, vars
  <2>2. EngineMovesPages' = EngineMovesPages
    BY <2>1 DEF params, EngineMovesPages, MayWrite
  <2>3. ASSUME UNCHANGED <<processed, moved, target>> PROVE ProcessedIsTransferred'
    BY <2>1, <2>2, <2>3 DEF ProcessedIsTransferred, params
  <2>4. totalPages \in Nat
    BY DEF TypeOK, WorkloadAssumption
  <2>5. ASSUME NEW p \in Nat, NEW offset, Pagein(p, offset) PROVE ProcessedIsTransferred'
    <3>1. CASE Valid(p) /\ ReadReturns
      <4>1. totalPages > 0
        BY <2>4, <2>5, <3>1 DEF Valid
      <4>2. ASSUME EngineMovesPages PROVE processed' = moved'
        BY <2>5, <3>1, <4>1, <4>2, ReadsMovePages DEF Pagein, ProcessedIsTransferred
      <4> QED BY <2>1, <2>2, <4>1, <4>2 DEF ProcessedIsTransferred, params
    <3>2. CASE ~(Valid(p) /\ ReadReturns)
      BY <2>3, <2>5, <3>2 DEF Pagein
    <3> QED BY <3>1, <3>2
  <2>6. ASSUME totalPages > 0
        PROVE  MaxPageId \in 0 .. totalPages - 1
    <3>1. totalPages - 1 \in Nat /\ IdRange \in Nat \ {0}
      BY <2>4, <2>6 DEF WorkloadAssumption
    <3> QED BY <3>1, RestOfNat DEF MaxPageId
  <2>7. CASE RandomRead
    <3>1. PICK p \in 0 .. MaxPageId : Pagein(p, slot * pageSize)
      BY <2>7 DEF RandomRead
    <3> QED BY <2>5, <3>1
  <2>8. CASE ScanPage
    <3>1. pageId \in Nat
      BY DEF TypeOK
    <3> QED BY <2>5, <2>8, <3>1 DEF ScanPage
  <2>9. CASE RandomWrite
    <3>1. PICK p \in 0 .. MaxPageId, i \in PoolIds :
            \/ /\ moved' = IF Valid(p) THEN moved + WriteMoves ELSE moved
               /\ processed' = processed + pageSize
            \/ UNCHANGED <<moved, processed>>
      BY <2>9 DEF RandomWrite
    <3>2. workload = "bufman" /\ MayWrite /\ UNCHANGED target
      BY <2>9 DEF RandomWrite
    <3>3. CASE UNCHANGED <<moved, processed>>
      BY <2>3, <3>2, <3>3
    <3>4. CASE /\ moved' = IF Valid(p) THEN moved + WriteMoves ELSE moved
               /\ processed' = processed + pageSize
      <4>1. CASE totalPages > 0
        <5>1. Valid(p)
          BY <2>4, <2>6, <4>1 DEF Valid
        <5>2. ASSUME EngineMovesPages PROVE processed' = moved'
          <6>1. WriteMoves = pageSize
            BY <3>2, <5>2 DEF EngineMovesPages, WriteMoves
          <6>2. processed = moved
            BY <4>1, <5>2 DEF ProcessedIsTransferred
          <6> QED BY <3>4, <5>1, <6>1, <6>2
        <5> QED BY <2>1, <2>2, <4>1, <5>2 DEF ProcessedIsTransferred, params
      <4>2. CASE totalPages = 0
        <5>1. ~Valid(p)
          BY <4>2 DEF Valid
        <5> QED BY <2>1, <3>2, <3>4, <4>2, <5>1 DEF ProcessedIsTransferred, params
      <4> QED BY <2>4, <4>1, <4>2
    <3> QED BY <3>1, <3>3, <3>4
  <2>10. CASE AllocateBuf \/ Finish \/ UNCHANGED vars
    BY <2>3, <2>10 DEF AllocateBuf, Finish, vars
  <2> QED BY <2>7, <2>8, <2>9, <2>10 DEF Next
<1> QED BY <1>1, <1>2, TypeCorrect, PTL DEF Spec

-----------------------------------------------------------------------------
(* Pages are written from the pool.                                         *)

\* The indices drawn for a pool with pages are indices of the pool.
LEMMA DrawnFromPool ==
  ASSUME WorkloadAssumption, TypeOK, randomPages > 0
  PROVE  PoolIds \subseteq 0 .. randomPages - 1
<1>1. /\ randomPages \in Nat /\ randomPages - 1 \in Nat
      /\ IntRange \in Nat \ {0} /\ IdRange \in Nat \ {0}
      /\ randomPages <= (IntRange \div 2) - 1
  BY DEF WorkloadAssumption, TypeOK
<1>2. ASSUME NEW i \in 0 .. (randomPages - 1) % IdRange
      PROVE  ToInt(i) \in 0 .. randomPages - 1
  <2>1. i \in 0 .. randomPages - 1
    <3>1. (randomPages - 1) % IdRange \in 0 .. randomPages - 1
      BY <1>1, RestOfNat
    <3> QED BY <1>1, <3>1
  <2>2. i < IntRange \div 2 /\ i < IntRange
    BY <1>1, <2>1
  <2>3. i % IntRange = i
    BY <1>1, <2>1, <2>2, RestOfNat
  <2> QED BY <2>1, <2>2, <2>3 DEF ToInt
<1> QED BY <1>2 DEF PoolIds

\* Whatever the length of a pool that an int can index, only an empty pool is left
\* by an index.
THEOREM WritesStayInPool == Spec => []WritesFromPool
<1> USE WorkloadAssumption
<1>1. Init => WritesFromPool
  BY DEF Init, WritesFromPool
<1>2. TypeOK /\ WritesFromPool /\ [Next]_vars => WritesFromPool'
  <2> SUFFICES ASSUME TypeOK, WritesFromPool, [Next]_vars, pc' = "undefined"
               PROVE  randomPages' = 0
    BY DEF WritesFromPool
  <2>1. CASE RandomWrite
    <3>1. PICK i \in PoolIds : i \notin 0 .. randomPages - 1
      BY <2>1 DEF RandomWrite
    <3>2. randomPages \in Nat /\ UNCHANGED randomPages
      BY <2>1 DEF RandomWrite, params, TypeOK, WorkloadAssumption
    <3> QED BY <3>1, <3>2, DrawnFromPool
  <2>2. CASE AllocateBuf \/ RandomRead \/ ScanPage \/ Finish
    BY <2>2 DEF AllocateBuf, RandomRead, ScanPage, Finish, Pagein
  <2>3. CASE UNCHANGED vars
    BY <2>3 DEF vars, params, WritesFromPool
  <2> QED BY <2>1, <2>2, <2>3 DEF Next
<1> QED BY <1>1, <1>2, TypeCorrect, PTL DEF Spec
=============================================================================
