------------------------ MODULE BufferManagerProofs ------------------------
(***************************************************************************)
(* Proofs about BufferManager, for any number of directories, any page     *)
(* size and any number of failures.                                        *)
(***************************************************************************)
EXTENDS BufferManager, TLAPS

-----------------------------------------------------------------------------
(* Arithmetic of the striping.                                              *)

\* Products are monotonic in their first factor.
LEMMA TimesMonotonic ==
  ASSUME NEW a \in Nat, NEW b \in Nat, NEW c \in Nat, a <= b
  PROVE  a * c <= b * c
<1>1. b * c = a * c + (b - a) * c /\ b - a \in Nat  OBVIOUS
<1>2. (b - a) * c >= 0  BY <1>1
<1> QED  BY <1>1, <1>2

\* Quotient and remainder of an id by the number of directories.
LEMMA QuotientRemainder ==
  ASSUME NEW p \in Nat, NEW n \in Nat \ {0}
  PROVE  /\ p \div n \in Nat
         /\ p % n \in 0 .. n - 1
         /\ p = n * (p \div n) + (p % n)
OBVIOUS

\* lookup() of BufferManager: a valid id selects an existing directory and a
\* page inside that directory's share.
LEMMA LookupInRange ==
  ASSUME NEW p \in PageIds
  PROVE  /\ p \in Nat
         /\ BufferOf(p) \in Buffers
         /\ p \div NumBuffers \in Nat
         /\ p \div NumBuffers < PagesPerBuffer
<1> USE SizesAssumption, ManagerAssumption
<1>1. p \in Nat /\ p < NumBuffers * PagesPerBuffer
  <2>1. NumBuffers * PagesPerBuffer \in Nat  OBVIOUS
  <2> QED  BY <2>1 DEF PageIds, TotalPages
<1>2. /\ p \div NumBuffers \in Nat
      /\ p % NumBuffers \in 0 .. NumBuffers - 1
      /\ p = NumBuffers * (p \div NumBuffers) + (p % NumBuffers)
  BY <1>1, QuotientRemainder
<1>3. ASSUME PagesPerBuffer <= p \div NumBuffers
      PROVE  FALSE
  <2>1. PagesPerBuffer * NumBuffers <= (p \div NumBuffers) * NumBuffers
    BY <1>2, <1>3, TimesMonotonic
  <2> DEFINE q == p \div NumBuffers
  <2>2. q * NumBuffers = NumBuffers * q /\ PagesPerBuffer * NumBuffers = NumBuffers * PagesPerBuffer
    BY <1>2
  <2>3. NumBuffers * q \in Nat /\ NumBuffers * PagesPerBuffer \in Nat
    BY <1>2
  <2> QED  BY <1>1, <1>2, <2>1, <2>2, <2>3
<1> QED  BY <1>1, <1>2, <1>3 DEF BufferOf, Buffers

\* An id that lookup() does not refuse is the id of a page.
LEMMA LookupAccepts ==
  ASSUME NEW p \in RequestedIds, ~LookupFails(p)
  PROVE  p \in PageIds
<1>1. TotalPages \in Nat
  BY SizesAssumption, ManagerAssumption DEF TotalPages
<1> HIDE DEF TotalPages
<1> QED  BY <1>1 DEF RequestedIds, LookupFails, PageIds

\* So are the ids of the pages that are read or written.
LEMMA ServedIds ==
  /\ \A p \in RequestedIds : Pagein(p) => p \in PageIds
  /\ \A p \in RequestedIds, d \in Data : Pageout(p, d) => p \in PageIds
BY LookupAccepts DEF Pagein, Pageout

\* The position of a page: a natural number, and the page ends at or before
\* the end of its directory's share.
LEMMA PositionInRange ==
  ASSUME NEW p \in PageIds
  PROVE  /\ PositionOf(p) \in Nat
         /\ PositionOf(p) + PageSize <= PagesPerBuffer * PageSize
         /\ PageUnits(PositionOf(p)) \subseteq 0 .. PagesPerBuffer * PageSize - 1
         /\ PageUnits(PositionOf(p)) \subseteq Units
<1> USE SizesAssumption, ManagerAssumption
<1> DEFINE q == p \div NumBuffers
<1>1. q \in Nat /\ q + 1 <= PagesPerBuffer  BY LookupInRange
<1> HIDE DEF q
<1>2. (q + 1) * PageSize <= PagesPerBuffer * PageSize
  BY <1>1, TimesMonotonic
<1>3. (q + 1) * PageSize = q * PageSize + PageSize  BY <1>1
<1>4. q * PageSize \in Nat /\ PagesPerBuffer * PageSize \in Nat  BY <1>1
<1>5. PositionOf(p) = q * PageSize  BY DEF PositionOf, q
<1> QED  BY <1>2, <1>3, <1>4, <1>5 DEF PageUnits, Units

\* Two pages of one directory do not share a unit.
LEMMA PagesDisjoint ==
  ASSUME NEW p \in PageIds, NEW r \in PageIds, p # r,
         BufferOf(p) = BufferOf(r)
  PROVE  PageUnits(PositionOf(p)) \cap PageUnits(PositionOf(r)) = {}
<1> USE SizesAssumption, ManagerAssumption
<1> DEFINE a == p \div NumBuffers
           b == r \div NumBuffers
<1>1. /\ a \in Nat /\ b \in Nat
      /\ p = NumBuffers * a + (p % NumBuffers)
      /\ r = NumBuffers * b + (r % NumBuffers)
  BY LookupInRange, QuotientRemainder
<1>2. a # b  BY <1>1 DEF BufferOf
<1> HIDE DEF a, b
<1>3. ASSUME NEW x \in Nat, NEW y \in Nat, x < y
      PROVE  x * PageSize + PageSize <= y * PageSize
  <2>1. (x + 1) * PageSize <= y * PageSize  BY <1>3, TimesMonotonic
  <2>2. (x + 1) * PageSize = x * PageSize + PageSize  OBVIOUS
  <2> QED  BY <2>1, <2>2
<1>4. a * PageSize \in Nat /\ b * PageSize \in Nat  BY <1>1
<1>5. \/ a * PageSize + PageSize <= b * PageSize
      \/ b * PageSize + PageSize <= a * PageSize
  BY <1>1, <1>2, <1>3
<1>6. PositionOf(p) = a * PageSize /\ PositionOf(r) = b * PageSize
  BY DEF PositionOf, a, b
<1> QED  BY <1>4, <1>5, <1>6 DEF PageUnits

\* msync() in MmapIOWrapper::write is given a range that covers the page.
LEMMA SyncCoversPage ==
  ASSUME NEW pos \in Nat, PageUnits(pos) \subseteq Units
  PROVE  PageUnits(pos) \subseteq SyncedUnits(pos)
<1> USE SizesAssumption
<1> SUFFICES ASSUME NEW i \in PageUnits(pos)
             PROVE  i \in SyncedUnits(pos)
  OBVIOUS
<1>1. i \in Nat /\ pos <= i /\ i < pos + PageSize /\ i \in Units
  BY DEF PageUnits
<1>2. /\ pos % MemPageSize \in 0 .. MemPageSize - 1
      /\ i % MemPageSize \in 0 .. MemPageSize - 1
  BY <1>1, QuotientRemainder
<1> QED  BY <1>1, <1>2 DEF SyncedUnits, SyncAddr, SyncLen

-----------------------------------------------------------------------------
(* Type correctness.                                                        *)

Writing == call.pc \in {"transfer", "sync", "done"}

\* A write in progress is the write of one valid page, and a constructor that
\* has not finished has a directory left to open.
CallOK ==
  /\ call.pc = "opening" => opened < NumBuffers
  /\ Writing => /\ page \in PageIds
                /\ call.buf = BufferOf(page)
                /\ call.pos = PositionOf(page)
                /\ call.data \in Data
                /\ acked[page] = Unknown

TypeInv == TypeOK /\ CallOK

\* An update keeps the type of a function.
LEMMA UpdateType ==
  ASSUME NEW S, NEW V, NEW f \in [S -> V], NEW x, NEW v \in V
  PROVE  [f EXCEPT ![x] = v] \in [S -> V]
OBVIOUS

\* A file overlaid with data, or with pending stdio data, is a file again.
LEMMA OverlayType ==
  ASSUME NEW V, NEW file \in [Units -> V], NEW area, NEW d \in V
  PROVE  Overlay(file, area, d) \in [Units -> V]
BY DEF Overlay

\* A flush leaves units of data.
LEMMA FlushedType ==
  ASSUME NEW file \in [Units -> Data],
         NEW pending \in [Units -> Data \cup {NoData}]
  PROVE  Flushed(file, pending) \in [Units -> Data]
BY DEF Flushed

\* An empty buffer of stdio has its type.
LEMMA EmptyStdioType == EmptyStdio \in [Units -> Data \cup {NoData}]
BY DEF EmptyStdio

\* Types hold at first.
LEMMA InitTypeInv == Init => TypeInv
<1> SUFFICES ASSUME Init PROVE TypeInv  OBVIOUS
<1> USE SizesAssumption, EnginesAssumption, ManagerAssumption
<1>1. PICK d \in Data : /\ media = [b \in Buffers |-> [i \in Units |-> d]]
                        /\ acked = [p \in PageIds |-> d]
  BY DEF Init
<1>2. /\ media \in [Buffers -> [Units -> Data]]
      /\ cache \in [Buffers -> [Units -> Data]]
      /\ acked \in [PageIds -> Data \cup {Unknown}]
  BY <1>1 DEF Init
<1>3. stdio \in [Buffers -> [Units -> Data \cup {NoData}]]
  BY EmptyStdioType DEF Init
<1>4. size \in [Buffers -> Int]
  <2>1. /\ Missing \in Int /\ MaxFileSize \in Int
        /\ PagesPerBuffer * PageSize - 1 \in Int
    BY DEF Missing
  <2> QED  BY <2>1 DEF Init
<1>5. /\ call \in [pc : {"opening", "idle", "transfer", "sync", "done", "exited", "down"},
                   buf : Buffers, pos : Nat, data : Data \cup {NoData}]
      /\ call.pc = "opening"
  BY DEF Init, Stopped, Idle, Buffers
<1>6. dest \in [0 .. PageSize - 1 -> Data \cup {NoData}]
  BY DEF Init, FreshDest
<1>7. /\ engine \in Engines /\ opened \in 0 .. NumBuffers /\ page = 0
      /\ unstored = {}
      /\ status \in BMStatus \cup {"none"} /\ failures \in 0 .. MaxFailures
      /\ opened < NumBuffers
  BY DEF Init
<1> QED  BY <1>2, <1>3, <1>4, <1>5, <1>6, <1>7 DEF TypeInv, TypeOK, CallOK, Writing

\* The kernel and stdio steps keep the types of the three stores.
LEMMA PersistedType ==
  ASSUME TypeOK, NEW b \in Buffers, NEW area
  PROVE  Persisted(b, area) \in [Buffers -> [Units -> Data]]
<1>1. [i \in Units |-> IF i \in area THEN cache[b][i] ELSE media[b][i]]
        \in [Units -> Data]
  BY DEF TypeOK
<1> QED  BY <1>1 DEF TypeOK, Persisted

\* What is read has its type.
LEMMA ReadType ==
  ASSUME TypeOK, NEW b \in Buffers, NEW pos \in Nat
  PROVE  ReadResult(b, pos, dest) \in [0 .. PageSize - 1 -> Data \cup {NoData}]
<1>1. Flushed(cache[b], stdio[b]) \in [Units -> Data]
  BY FlushedType DEF TypeOK
<1> QED  BY <1>1 DEF ReadResult, TypeOK

\* So has what an exit leaves.
LEMMA ExitType ==
  ASSUME TypeOK, ExitProcess
  PROVE  /\ cache' \in [Buffers -> [Units -> Data]]
         /\ stdio' \in [Buffers -> [Units -> Data \cup {NoData}]]
         /\ call' = [pc |-> "exited", buf |-> 0, pos |-> 0, data |-> NoData]
         /\ UNCHANGED <<engine, size, media>>
<1>1. \A b \in Buffers : Flushed(cache[b], stdio[b]) \in [Units -> Data]
  BY FlushedType DEF TypeOK
<1>2. call' = [pc |-> "exited", buf |-> 0, pos |-> 0, data |-> NoData]
  BY DEF ExitProcess, Stopped, Idle
<1> QED  BY <1>1, <1>2, EmptyStdioType DEF ExitProcess, TypeOK

\* Every step keeps to types.
LEMMA NextTypeInv == TypeInv /\ [Next]_vars => TypeInv'
<1> SUFFICES ASSUME TypeInv, [Next]_vars PROVE TypeInv'  OBVIOUS
<1> USE SizesAssumption, EnginesAssumption, ManagerAssumption
<1> USE DEF TypeInv, CallOK, Writing
<1>0. 0 \in Buffers  BY DEF Buffers
<1>1. CASE OpenBuffer
  <2>1. PICK outcome \in OpenOutcomes(opened) :
           /\ size' = [size EXCEPT ![opened] = outcome.size]
           /\ IF outcome.ok /\ ~FileTooSmall(outcome.size)
              THEN /\ opened' = opened + 1
                   /\ call' = IF opened + 1 = NumBuffers THEN Idle ELSE call
              ELSE /\ call' = Stopped("exited")
                   /\ UNCHANGED opened
    BY <1>1 DEF OpenBuffer
  <2>2. opened \in Buffers  BY <1>1 DEF TypeOK, OpenBuffer, Buffers
  <2>3. size' \in [Buffers -> Int]
    <3>1. outcome.size \in Int
      BY <2>1, <2>2 DEF TypeOK, OpenOutcomes, OpenError, LinuxOpen,
         DirectLinuxOpen, StdOpen, MmapOpen, ASMOpen, LibPMOpen, CreatedSize, EngineNames
    <3> QED  BY <2>1, <3>1 DEF TypeOK
  <2>4. CASE call' = Idle /\ opened' = opened + 1
    <3>1. opened' \in 0 .. NumBuffers  BY <2>2, <2>4 DEF Buffers
    <3> QED  BY <1>0, <1>1, <2>3, <2>4, <3>1 DEF TypeOK, OpenBuffer, Idle
  <2>5. CASE call' = call /\ opened' = opened + 1 /\ opened + 1 # NumBuffers
    BY <1>1, <2>2, <2>3, <2>5 DEF TypeOK, OpenBuffer, Buffers
  <2>6. CASE call' = Stopped("exited") /\ opened' = opened
    <3>1. call' = [pc |-> "exited", buf |-> 0, pos |-> 0, data |-> NoData]
      BY <2>6 DEF Stopped, Idle
    <3> QED  BY <1>0, <1>1, <2>3, <2>6, <3>1 DEF TypeOK, OpenBuffer
  <2> QED  BY <2>1, <2>4, <2>5, <2>6 DEF Idle
<1>2. ASSUME NEW p \in PageIds, Pagein(p) PROVE TypeInv'
  <2>1. BufferOf(p) \in Buffers /\ PositionOf(p) \in Nat
    BY LookupInRange, PositionInRange
  <2>2. dest' \in [0 .. PageSize - 1 -> Data \cup {NoData}]
    BY <1>2, <2>1, ReadType DEF Pagein
  <2>3. cache' \in [Buffers -> [Units -> Data]]
    <3>1. Flushed(cache[BufferOf(p)], stdio[BufferOf(p)]) \in [Units -> Data]
      BY <2>1, FlushedType DEF TypeOK
    <3> QED  BY <1>2, <3>1 DEF TypeOK, Pagein, ReadEffect
  <2>4. stdio' \in [Buffers -> [Units -> Data \cup {NoData}]]
    BY <1>2, EmptyStdioType DEF TypeOK, Pagein, ReadEffect
  <2> QED  BY <1>2, <2>2, <2>3, <2>4 DEF TypeOK, Pagein, BMStatus
<1>3. ASSUME NEW p \in PageIds, NEW d \in Data, Pageout(p, d) PROVE TypeInv'
  <2>1. /\ p \in Nat /\ BufferOf(p) \in Buffers /\ PositionOf(p) \in Nat
    BY LookupInRange, PositionInRange
  <2>2. /\ call' = [pc |-> "transfer", buf |-> BufferOf(p),
                    pos |-> PositionOf(p), data |-> d]
        /\ page' = p /\ engine' = engine
        /\ acked' = [acked EXCEPT ![p] = Unknown]
    BY <1>3 DEF Pageout, StartWrite
  <2>3. /\ acked' \in [PageIds -> Data \cup {Unknown}]
        /\ acked'[p] = Unknown
    BY <2>2 DEF TypeOK
  <2>4. BufferOf(p)' = BufferOf(p) /\ PositionOf(p)' = PositionOf(p)
    BY DEF BufferOf, PositionOf
  <2> HIDE DEF TypeInv, CallOK, Writing
  <2>5. TypeOK'
    BY <1>3, <2>1, <2>2, <2>3 DEF TypeInv, TypeOK, Pageout
  <2>6. CallOK'
    BY <2>1, <2>2, <2>3, <2>4 DEF CallOK, Writing, BufferOf, PositionOf
  <2> QED  BY <2>5, <2>6 DEF TypeInv
<1>4. ASSUME NEW p \in RequestedIds, Rejected(p) PROVE TypeInv'
  BY <1>4 DEF TypeOK, Rejected, ioVars, BMStatus
<1>5. CASE WriteStep
  <2>1. CASE Transfer
    <3>1. call.pc = "transfer" /\ call.buf \in Buffers /\ call.data \in Data
      BY <2>1 DEF Transfer, TypeOK, LinuxTransfer, StdTransfer, MmapTransfer,
         LibPMTransfer, ASMTransfer
    <3>2. \A n : \A file \in [Units -> Data] : TransferTo(file, n) \in [Units -> Data]
      BY <3>1, OverlayType DEF TransferTo
    <3>3. call' \in [pc : {"sync", "done"}, buf : Buffers, pos : Nat,
                     data : Data \cup {NoData}]
          /\ call'.buf = call.buf /\ call'.pos = call.pos /\ call'.data = call.data
      BY <2>1 DEF Transfer, TypeOK, LinuxTransfer, StdTransfer, MmapTransfer,
         LibPMTransfer, ASMTransfer
    <3>4. cache' \in [Buffers -> [Units -> Data]]
      <4>1. CASE StdTransfer
        <5>1. Flushed(cache[call.buf], stdio[call.buf]) \in [Units -> Data]
          BY <3>1, FlushedType DEF TypeOK
        <5>2. PICK n \in 0 .. PageSize :
                 cache' = [cache EXCEPT ![call.buf] =
                             TransferTo(Flushed(@, stdio[call.buf]), n)]
          BY <4>1 DEF StdTransfer
        <5>3. TransferTo(Flushed(cache[call.buf], stdio[call.buf]), n)
                \in [Units -> Data]
          BY <3>2, <5>1
        <5> QED  BY <5>2, <5>3, UpdateType DEF TypeOK
      <4>2. CASE LinuxTransfer \/ MmapTransfer \/ LibPMTransfer \/ ASMTransfer
        <5>1. \/ \E n \in Nat : cache' = [cache EXCEPT ![call.buf] = TransferTo(@, n)]
              \/ cache' = cache
          BY <4>2 DEF LinuxTransfer, MmapTransfer, LibPMTransfer, ASMTransfer,
             AcceptedCounts
        <5>2. \A n : TransferTo(cache[call.buf], n) \in [Units -> Data]
          BY <3>1, <3>2 DEF TypeOK
        <5>3. CASE cache' = cache  BY <5>3 DEF TypeOK
        <5>4. ASSUME NEW n \in Nat,
                     cache' = [cache EXCEPT ![call.buf] =
                                 TransferTo(cache[call.buf], n)]
              PROVE  cache' \in [Buffers -> [Units -> Data]]
          BY <5>2, <5>4, UpdateType DEF TypeOK
        <5> QED  BY <5>1, <5>3, <5>4
      <4> QED  BY <2>1, <4>1, <4>2 DEF Transfer
    <3>5. stdio' \in [Buffers -> [Units -> Data \cup {NoData}]]
      <4>1. \A n : Overlay(EmptyStdio, RestUnits(n), call.data)
                     \in [Units -> Data \cup {NoData}]
        BY <3>1, EmptyStdioType, OverlayType
      <4>2. \/ \E n \in 0 .. PageSize :
                 stdio' = [stdio EXCEPT ![call.buf] =
                             Overlay(EmptyStdio, RestUnits(n), call.data)]
            \/ stdio' = stdio
        BY <2>1 DEF Transfer, LinuxTransfer, StdTransfer, MmapTransfer,
           LibPMTransfer, ASMTransfer
      <4>3. CASE stdio' = stdio  BY <4>3 DEF TypeOK
      <4>4. ASSUME NEW n \in 0 .. PageSize,
                   stdio' = [stdio EXCEPT ![call.buf] =
                               Overlay(EmptyStdio, RestUnits(n), call.data)]
            PROVE  stdio' \in [Buffers -> [Units -> Data \cup {NoData}]]
        BY <4>1, <4>4, UpdateType DEF TypeOK
      <4> QED  BY <4>2, <4>3, <4>4
    <3>6. UNCHANGED <<engine, size, media>>
      BY <2>1 DEF Transfer, LinuxTransfer, StdTransfer, MmapTransfer,
         LibPMTransfer, ASMTransfer
    <3> QED  BY <1>5, <3>1, <3>3, <3>4, <3>5, <3>6 DEF TypeOK, WriteStep, bmVars,
             BufferOf, PositionOf
  <2>2. CASE Flush
    <3>1. call.pc = "sync" /\ call.buf \in Buffers
      BY <2>2 DEF Flush, TypeOK, Fdatasync, Msync, LibPMPersist
    <3>2. \A area : Persisted(call.buf, area) \in [Buffers -> [Units -> Data]]
      BY <3>1, PersistedType
    <3>3. media' \in [Buffers -> [Units -> Data]]
      BY <2>2, <3>2 DEF Flush, Fdatasync, Msync, LibPMPersist
    <3>4. call' = [call EXCEPT !.pc = "done"] /\ UNCHANGED <<engine, size, cache, stdio>>
      BY <2>2 DEF Flush, Fdatasync, Msync, LibPMPersist
    <3> QED  BY <1>5, <3>1, <3>3, <3>4 DEF TypeOK, WriteStep, bmVars,
             BufferOf, PositionOf
  <2> QED  BY <1>5, <2>1, <2>2 DEF WriteStep
<1>6. CASE PageoutReturn
  BY <1>0, <1>6 DEF TypeOK, PageoutReturn, Idle, PageoutStatus, BMStatus
<1>7. CASE Crash
  <2>1. ExitProcess  BY <1>7 DEF Crash, WriteFails
  <2>2. failures' \in 0 .. MaxFailures  BY <1>7 DEF Crash, TypeOK
  <2> QED  BY <1>0, <1>7, <2>1, <2>2, ExitType DEF TypeOK, Crash
<1>8. CASE Close
  BY <1>0, <1>8, ExitType DEF TypeOK, Close, bmVars
<1>9. CASE LosePower
  <2>1. call' = [pc |-> "down", buf |-> 0, pos |-> 0, data |-> NoData]
    BY <1>9 DEF LosePower, PowerFailure, Stopped, Idle
  <2>2. failures' \in 0 .. MaxFailures  BY <1>9 DEF LosePower, TypeOK
  <2> QED  BY <1>0, <1>9, <2>1, <2>2, EmptyStdioType DEF TypeOK, LosePower, PowerFailure
<1>10. CASE Restart
  <2>1. call' = [pc |-> "opening", buf |-> 0, pos |-> 0, data |-> NoData]
    BY <1>10 DEF Restart, Stopped, Idle
  <2>2. dest' \in [0 .. PageSize - 1 -> Data \cup {NoData}]
    BY <1>10 DEF Restart, FreshDest
  <2> QED  BY <1>0, <1>10, <2>1, <2>2 DEF TypeOK, Restart
<1>11. CASE KernelWriteBack
  <2>1. PICK b \in Buffers, i \in Units : WriteBack(b, i)
    BY <1>11 DEF KernelWriteBack
  <2>2. media' \in [Buffers -> [Units -> Data]]
    BY <2>1 DEF TypeOK, WriteBack
  <2> QED  BY <1>11, <2>1, <2>2 DEF TypeOK, KernelWriteBack, WriteBack, bmVars,
           BufferOf, PositionOf
<1>12. CASE UNCHANGED vars
  BY <1>12 DEF TypeOK, vars, ioVars, bmVars, BufferOf, PositionOf
<1> QED  BY <1>1, <1>2, <1>3, <1>4, <1>5, <1>6, <1>7, <1>8, <1>9, <1>10,
         <1>11, <1>12, ServedIds DEF Next

\* Every variable of the buffer manager, the io wrappers and the process keeps
\* its type, whichever engines are used and whatever fails.
THEOREM TypeCorrect == Spec => []TypeOK
<1>1. TypeInv => TypeOK  BY DEF TypeInv
<1> QED  BY <1>1, InitTypeInv, NextTypeInv, PTL DEF Spec

-----------------------------------------------------------------------------
(* Pages lie inside their files.                                            *)

\* The directories opened so far have files that are large enough, and a
\* process that serves pages has opened them all.
FilesInv ==
  /\ Alive => \A b \in Buffers : b < opened => ~FileTooSmall(size[b])
  /\ Serving => opened = NumBuffers

\* Every step keeps pages inside of their files.
LEMMA NextFilesInv == TypeInv /\ FilesInv /\ [Next]_vars => FilesInv'
<1> SUFFICES ASSUME TypeInv, FilesInv, [Next]_vars PROVE FilesInv'  OBVIOUS
<1> USE SizesAssumption, ManagerAssumption
<1> USE DEF FilesInv, Alive, Serving, TypeInv, CallOK, TypeOK
<1>1. CASE OpenBuffer
  <2>1. PICK outcome \in OpenOutcomes(opened) :
           /\ size' = [size EXCEPT ![opened] = outcome.size]
           /\ IF outcome.ok /\ ~FileTooSmall(outcome.size)
              THEN /\ opened' = opened + 1
                   /\ call' = IF opened + 1 = NumBuffers THEN Idle ELSE call
              ELSE /\ call' = Stopped("exited")
                   /\ UNCHANGED opened
    BY <1>1 DEF OpenBuffer
  <2>2. call.pc = "opening" /\ opened \in Buffers
    BY <1>1 DEF OpenBuffer, Buffers
  <2>3. CASE outcome.ok /\ ~FileTooSmall(outcome.size)
    <3>1. \A b \in Buffers : b < opened' => ~FileTooSmall(size'[b])
      BY <2>1, <2>2, <2>3 DEF Buffers
    <3>2. \A b \in Buffers : ~FileTooSmall(size'[b]) => ~FileTooSmall(size[b])'
      BY DEF FileTooSmall
    <3> QED  BY <2>1, <2>2, <2>3, <3>1, <3>2 DEF Idle
  <2>4. CASE call' = Stopped("exited")
    <3>1. call'.pc = "exited"  BY <2>4 DEF Stopped, Idle
    <3> QED  BY <3>1
  <2> QED  BY <2>1, <2>3, <2>4
<1>2. ASSUME NEW p \in PageIds, Pagein(p) PROVE FilesInv'
  BY <1>2 DEF Pagein, FileTooSmall
<1>3. ASSUME NEW p \in PageIds, NEW d \in Data, Pageout(p, d) PROVE FilesInv'
  BY <1>3 DEF Pageout, StartWrite, FileTooSmall
<1>4. ASSUME NEW p \in RequestedIds, Rejected(p) PROVE FilesInv'
  BY <1>4 DEF Rejected, ioVars, FileTooSmall
<1>5. CASE WriteStep
  <2>1. /\ call.pc \in {"transfer", "sync"} /\ call'.pc \in {"sync", "done"}
        /\ size' = size /\ opened' = opened
    BY <1>5 DEF WriteStep, bmVars, Transfer, LinuxTransfer, StdTransfer,
       MmapTransfer, LibPMTransfer, ASMTransfer, Flush, Fdatasync, Msync,
       LibPMPersist
  <2> QED  BY <2>1 DEF FileTooSmall
<1>6. CASE PageoutReturn
  BY <1>6 DEF PageoutReturn, Idle, FileTooSmall
<1>7. CASE Crash \/ Close
  <2>1. call'.pc = "exited"
    BY <1>7 DEF Crash, Close, WriteFails, ExitProcess, Stopped, Idle
  <2> QED  BY <2>1
<1>8. CASE LosePower
  <2>1. call'.pc = "down"  BY <1>8 DEF LosePower, PowerFailure, Stopped, Idle
  <2> QED  BY <2>1
<1>9. CASE Restart
  <2>1. call'.pc = "opening" /\ opened' = 0
    BY <1>9 DEF Restart, Stopped, Idle
  <2> QED  BY <2>1 DEF Buffers
<1>10. CASE KernelWriteBack
  BY <1>10 DEF KernelWriteBack, WriteBack, bmVars, FileTooSmall
<1>11. CASE UNCHANGED vars
  BY <1>11 DEF vars, ioVars, bmVars, FileTooSmall
<1> QED  BY <1>1, <1>2, <1>3, <1>4, <1>5, <1>6, <1>7, <1>8, <1>9, <1>10,
         <1>11, ServedIds DEF Next

\* No page the buffer manager serves reaches past the end of its file.
THEOREM PagesStayInside == Spec => []PagesInsideFiles
<1>1. Init => FilesInv
  BY DEF Init, FilesInv, Alive, Serving, Stopped, Idle, Buffers
<1>2. TypeInv /\ FilesInv => PagesInsideFiles
  <2> SUFFICES ASSUME TypeInv, FilesInv, Serving, NEW p \in PageIds
               PROVE  PageUnits(PositionOf(p)) \subseteq 0 .. size[BufferOf(p)] - 1
    BY DEF PagesInsideFiles
  <2> USE SizesAssumption, ManagerAssumption
  <2>1. BufferOf(p) \in Buffers  BY LookupInRange
  <2>2. size[BufferOf(p)] \in Int /\ PagesPerBuffer * PageSize <= size[BufferOf(p)]
    BY <2>1 DEF FilesInv, Serving, Alive, TypeInv, TypeOK, Buffers, FileTooSmall
  <2>3. PagesPerBuffer * PageSize \in Nat  OBVIOUS
  <2> QED  BY <2>2, <2>3, PositionInRange
<1> QED  BY <1>1, <1>2, InitTypeInv, NextTypeInv, NextFilesInv, PTL DEF Spec
=============================================================================
