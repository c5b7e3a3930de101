-------------------------- MODULE DurabilityProofs --------------------------
(***************************************************************************)
(* An answered write is on the medium and stays there.  The theorems hold  *)
(* for LINUX, LINUX_DIRECT, MMAP and LIBPMEM2, when write(2) writes the    *)
(* whole page or fails: not for STD, whose flush does not reach its stdio  *)
(* buffer, and not for ASM, which answers a write and does not do it.      *)
(* With all six engines what remains, as long as nothing fails, is that a  *)
(* write answered by an engine other than ASM is not lost.                 *)
(***************************************************************************)
EXTENDS BufferManagerProofs

\* What the theorems about durability assume: the engines of the processes are
\* among the four that write and flush, and write(2) is never short.
FlushingEngines ==
  /\ "STD" \notin Engines
  /\ "ASM" \notin Engines
  /\ "short_write" \notin Faults

\* the page p of files holds d
Holds(files, p, d) ==
  \A i \in PageUnits(PositionOf(p)) : files[BufferOf(p)][i] = d

\* Acknowledged pages agree in the kernel and on the medium, nothing is left in
\* stdio, and the write in progress has come as far as its pc says.
DurableInv ==
  /\ stdio = [b \in Buffers |-> EmptyStdio]
  /\ \A p \in PageIds : acked[p] # Unknown => /\ Holds(cache, p, acked[p])
                                              /\ Holds(media, p, acked[p])
  /\ call.pc \in {"sync", "done"} => Holds(cache, page, call.data)
  /\ call.pc = "done" => Holds(media, page, call.data)

\* It holds at first.
LEMMA InitDurable == Init => DurableInv
<1> SUFFICES ASSUME Init PROVE DurableInv  OBVIOUS
<1>1. PICK d \in Data : /\ media = [b \in Buffers |-> [i \in Units |-> d]]
                        /\ acked = [p \in PageIds |-> d]
  BY DEF Init
<1>2. ASSUME NEW p \in PageIds PROVE Holds(media, p, acked[p])
  BY <1>1, LookupInRange, PositionInRange DEF Holds
<1> QED  BY <1>2 DEF Init, DurableInv, Stopped, Idle

\* A flushed stdio buffer that was empty changes nothing.
LEMMA NothingToFlush ==
  ASSUME NEW file \in [Units -> Data]
  PROVE  Flushed(file, EmptyStdio) = file
BY DEF Flushed, EmptyStdio

\* An engine that writes transfers the whole page: the page holds the new data
\* and no other page of the directory has changed.
LEMMA TransferWritesPage ==
  ASSUME FlushingEngines, TypeInv, DurableInv, WriteStep, Transfer
  PROVE  /\ call.pc = "transfer" /\ call' = [call EXCEPT !.pc = "sync"]
         /\ cache' = [cache EXCEPT ![call.buf] =
                        Overlay(cache[call.buf], PageUnits(call.pos), call.data)]
         /\ UNCHANGED <<media, stdio, bmVars>>
<1>1. engine \notin {"STD", "ASM"}
  BY DEF FlushingEngines, TypeInv, TypeOK
<1>2. TransferTo(cache[call.buf], PageSize)
        = Overlay(cache[call.buf], PageUnits(call.pos), call.data)
  BY DEF TransferTo, PageUnits
<1>3. LinuxTransfer \/ MmapTransfer \/ LibPMTransfer
  BY <1>1 DEF Transfer, StdTransfer, ASMTransfer
<1> QED
  BY <1>2, <1>3 DEF WriteStep, FlushingEngines, LinuxTransfer, MmapTransfer,
     LibPMTransfer, AcceptedCounts

\* The flush of each engine brings the written page to the medium, and what
\* else it writes back comes from the kernel's copy.
LEMMA FlushPersistsPage ==
  ASSUME TypeInv, WriteStep, Flush
  PROVE  /\ engine' = engine
         /\ call.pc = "sync" /\ call' = [call EXCEPT !.pc = "done"]
         /\ \E area : /\ PageUnits(call.pos) \subseteq area
                      /\ media' = Persisted(call.buf, area)
         /\ UNCHANGED <<cache, stdio, bmVars>>
<1>1. call.pc = "sync" /\ call' = [call EXCEPT !.pc = "done"]
      /\ UNCHANGED <<engine, cache, stdio, bmVars>>
  BY DEF WriteStep, Flush, Fdatasync, Msync, LibPMPersist
<1>2. page \in PageIds /\ call.pos = PositionOf(page)
  BY <1>1 DEF TypeInv, CallOK, Writing
<1>3. /\ call.pos \in Nat
      /\ PageUnits(call.pos) \subseteq Units
      /\ PageUnits(call.pos) \subseteq SyncedUnits(call.pos)
  BY <1>2, PositionInRange, SyncCoversPage
<1>4. \E area : /\ PageUnits(call.pos) \subseteq area
               /\ media' = Persisted(call.buf, area)
  BY <1>3 DEF Flush, Fdatasync, Msync, LibPMPersist
<1> QED  BY <1>1, <1>4

\* A step that leaves cache, media, stdio and acked alone, and enters no write,
\* keeps the invariant.
LEMMA IdleStep ==
  ASSUME DurableInv, UNCHANGED <<media, stdio, acked>>,
         \A p \in PageIds : acked[p] # Unknown => Holds(cache', p, acked[p]),
         call'.pc \notin {"sync", "done"}
  PROVE  DurableInv'
BY DEF DurableInv, Holds, PageUnits, PositionOf, BufferOf

\* Changing the units of one page disturbs no other page.
LEMMA OtherPagesKept ==
  ASSUME TypeInv, NEW p \in PageIds, NEW r \in PageIds, p # r, NEW d, NEW e,
         Holds(cache, r, e),
         cache' = [cache EXCEPT ![BufferOf(p)] =
                     Overlay(cache[BufferOf(p)], PageUnits(PositionOf(p)), d)]
  PROVE  Holds(cache', r, e)
<1> SUFFICES ASSUME NEW i \in PageUnits(PositionOf(r))
             PROVE  cache'[BufferOf(r)][i] = e
  BY DEF Holds
<1>1. i \in Units /\ BufferOf(r) \in Buffers /\ cache[BufferOf(r)][i] = e
  BY PositionInRange, LookupInRange DEF Holds
<1>2. CASE BufferOf(p) # BufferOf(r)
  BY <1>1, <1>2 DEF TypeInv, TypeOK
<1>3. CASE BufferOf(p) = BufferOf(r)
  <2>1. i \notin PageUnits(PositionOf(p))  BY <1>3, PagesDisjoint
  <2> QED  BY <1>1, <1>3, <2>1 DEF TypeInv, TypeOK, Overlay
<1> QED  BY <1>2, <1>3

\* Every step of engines that flush keeps it.
LEMMA NextDurable ==
  ASSUME FlushingEngines, TypeInv, DurableInv, [Next]_vars
  PROVE  DurableInv'
<1> USE SizesAssumption, ManagerAssumption
<1>a. /\ stdio = [b \in Buffers |-> EmptyStdio]
      /\ \A p \in PageIds : acked[p] # Unknown => /\ Holds(cache, p, acked[p])
                                                  /\ Holds(media, p, acked[p])
  BY DEF DurableInv
<1>b. \A b \in Buffers : Flushed(cache[b], stdio[b]) = cache[b]
  BY <1>a, NothingToFlush DEF TypeInv, TypeOK
<1>c. cache \in [Buffers -> [Units -> Data]] /\ media \in [Buffers -> [Units -> Data]]
  BY DEF TypeInv, TypeOK
<1>d. ASSUME ExitProcess PROVE UNCHANGED <<cache, media, stdio>> /\ call'.pc = "exited"
  BY <1>a, <1>b, <1>c, <1>d DEF ExitProcess, Stopped, Idle
<1>1. CASE OpenBuffer
  <2>1. UNCHANGED <<cache, media, stdio, acked>>  BY <1>1 DEF OpenBuffer
  <2>2. call'.pc \notin {"sync", "done"}
    BY <1>1 DEF OpenBuffer, Idle, Stopped
  <2> QED  BY <1>a, <2>1, <2>2, IdleStep
<1>2. ASSUME NEW p \in PageIds, Pagein(p) PROVE DurableInv'
  <2>1. BufferOf(p) \in Buffers  BY LookupInRange
  <2>2. UNCHANGED <<cache, media, stdio, acked, call>> /\ call.pc = "idle"
    BY <1>2, <1>a, <1>b, <1>c, <2>1 DEF Pagein, ReadEffect
  <2> QED  BY <1>a, <2>2, IdleStep
<1>3. ASSUME NEW p \in PageIds, NEW d \in Data, Pageout(p, d) PROVE DurableInv'
  <2>1. /\ UNCHANGED <<cache, media, stdio>>
        /\ acked' = [acked EXCEPT ![p] = Unknown]
        /\ call'.pc = "transfer"
    BY <1>3 DEF Pageout, StartWrite
  <2>2. \A r \in PageIds : acked'[r] # Unknown => acked'[r] = acked[r]
    BY <2>1 DEF TypeInv, TypeOK
  <2> QED  BY <1>a, <2>1, <2>2 DEF DurableInv, Holds, PageUnits, PositionOf, BufferOf
<1>4. ASSUME NEW p \in RequestedIds, Rejected(p) PROVE DurableInv'
  BY <1>4, <1>a, IdleStep DEF Rejected, ioVars
<1>5. CASE WriteStep /\ Transfer
  <2>1. /\ call.pc = "transfer" /\ call' = [call EXCEPT !.pc = "sync"]
        /\ cache' = [cache EXCEPT ![call.buf] =
                       Overlay(cache[call.buf], PageUnits(call.pos), call.data)]
        /\ UNCHANGED <<media, stdio, acked, page>>
    BY <1>5, TransferWritesPage DEF bmVars
  <2>2. /\ page \in PageIds /\ acked[page] = Unknown
        /\ call.buf = BufferOf(page) /\ call.pos = PositionOf(page)
    BY <1>5, <2>1 DEF TypeInv, CallOK, Writing
  <2>3. ASSUME NEW r \in PageIds, acked[r] # Unknown
        PROVE  Holds(cache', r, acked[r])
    BY <1>a, <2>1, <2>2, <2>3, OtherPagesKept
  <2>4. Holds(cache', page, call.data)
    <3>1. BufferOf(page) \in Buffers /\ PageUnits(PositionOf(page)) \subseteq Units
      BY <2>2, LookupInRange, PositionInRange
    <3> QED  BY <1>c, <2>1, <2>2, <3>1 DEF Holds, Overlay
  <2>5. call'.pc = "sync" /\ call'.data = call.data
    BY <2>1 DEF TypeInv, TypeOK
  <2> QED  BY <1>a, <2>1, <2>3, <2>4, <2>5 DEF DurableInv, Holds, PageUnits,
           PositionOf, BufferOf
<1>6. CASE WriteStep /\ Flush
  <2>1. /\ call.pc = "sync" /\ call' = [call EXCEPT !.pc = "done"]
        /\ UNCHANGED <<engine, cache, stdio, acked, page>>
    BY <1>6, FlushPersistsPage DEF bmVars
  <2>2. PICK area : /\ PageUnits(call.pos) \subseteq area
                    /\ media' = Persisted(call.buf, area)
    BY <1>6, FlushPersistsPage
  <2>3. /\ page \in PageIds
        /\ call.buf = BufferOf(page) /\ call.pos = PositionOf(page)
    BY <2>1 DEF TypeInv, CallOK, Writing
  <2>4. \A b \in Buffers, i \in Units : \/ media'[b][i] = media[b][i]
                                       \/ media'[b][i] = cache[b][i]
    BY <1>c, <2>2 DEF Persisted
  <2>5. ASSUME NEW r \in PageIds, acked[r] # Unknown
        PROVE  Holds(media', r, acked[r])
    <3>1. BufferOf(r) \in Buffers /\ PageUnits(PositionOf(r)) \subseteq Units
      BY LookupInRange, PositionInRange
    <3> QED  BY <1>a, <2>4, <2>5, <3>1 DEF Holds
  <2>6. Holds(media', page, call.data)
    <3>1. BufferOf(page) \in Buffers /\ PageUnits(PositionOf(page)) \subseteq Units
      BY <2>3, LookupInRange, PositionInRange
    <3>2. Holds(cache, page, call.data)  BY <2>1 DEF DurableInv
    <3> QED  BY <1>c, <2>2, <2>3, <3>1, <3>2 DEF Holds, Persisted
  <2>7. call'.pc = "done" /\ call'.data = call.data
    BY <2>1 DEF TypeInv, TypeOK
  <2> QED  BY <1>a, <2>1, <2>5, <2>6, <2>7 DEF DurableInv, Holds, PageUnits,
           PositionOf, BufferOf
<1>7. CASE PageoutReturn
  <2>1. /\ call.pc = "done" /\ call'.pc = "idle"
        /\ acked' = [acked EXCEPT ![page] = call.data]
        /\ UNCHANGED <<cache, media, stdio>>
    BY <1>7 DEF PageoutReturn, Idle
  <2>2. Holds(cache, page, call.data) /\ Holds(media, page, call.data)
    BY <2>1 DEF DurableInv
  <2>3. page \in PageIds  BY <2>1 DEF TypeInv, CallOK, Writing
  <2>4. ASSUME NEW r \in PageIds, acked'[r] # Unknown
        PROVE  Holds(cache, r, acked'[r]) /\ Holds(media, r, acked'[r])
    <3>1. CASE r = page
      <4>1. acked'[r] = call.data
        BY <2>1, <2>3, <2>4, <3>1 DEF TypeInv, TypeOK
      <4> QED  BY <2>2, <3>1, <4>1
    <3>2. CASE r # page
      <4>1. acked'[r] = acked[r]  BY <2>1, <3>2 DEF TypeInv, TypeOK
      <4> QED  BY <1>a, <2>4, <4>1
    <3> QED  BY <3>1, <3>2
  <2> QED  BY <1>a, <2>1, <2>4 DEF DurableInv, Holds, PageUnits, PositionOf, BufferOf
<1>8. CASE Crash \/ Close
  <2>1. UNCHANGED <<cache, media, stdio, acked>> /\ call'.pc = "exited"
    BY <1>8, <1>d DEF Crash, Close, WriteFails, bmVars
  <2> QED  BY <1>a, <2>1, IdleStep
<1>9. CASE LosePower
  <2>1. /\ cache' = media /\ stdio' = stdio /\ call'.pc = "down"
        /\ UNCHANGED <<media, acked>>
    BY <1>9, <1>a DEF LosePower, PowerFailure, Stopped, Idle
  <2> QED  BY <1>a, <2>1, IdleStep
<1>10. CASE Restart
  <2>1. UNCHANGED <<cache, media, stdio, acked>> /\ call'.pc = "opening"
    BY <1>10 DEF Restart, Stopped, Idle
  <2> QED  BY <1>a, <2>1, IdleStep
<1>11. CASE KernelWriteBack
  <2>1. PICK b \in Buffers, i \in Units : WriteBack(b, i)
    BY <1>11 DEF KernelWriteBack
  <2>2. \A c \in Buffers, j \in Units : \/ media'[c][j] = media[c][j]
                                       \/ media'[c][j] = cache[c][j]
    BY <1>c, <2>1 DEF WriteBack
  <2>3. ASSUME NEW r \in PageIds, NEW d, Holds(cache, r, d), Holds(media, r, d)
        PROVE  Holds(media', r, d)
    <3>1. BufferOf(r) \in Buffers /\ PageUnits(PositionOf(r)) \subseteq Units
      BY LookupInRange, PositionInRange
    <3> QED  BY <2>2, <2>3, <3>1 DEF Holds
  <2>4. UNCHANGED <<engine, cache, stdio, acked, page, call>>
    BY <1>11, <2>1 DEF KernelWriteBack, WriteBack, bmVars
  <2>5. call.pc \in {"sync", "done"} => page \in PageIds
    BY DEF TypeInv, CallOK, Writing
  <2> QED  BY <2>3, <2>4, <2>5 DEF DurableInv, Holds, PageUnits, PositionOf, BufferOf
<1>12. CASE UNCHANGED vars
  BY <1>12 DEF vars, ioVars, bmVars, DurableInv, Holds, PageUnits, PositionOf, BufferOf
<1> QED  BY <1>1, <1>2, <1>3, <1>4, <1>5, <1>6, <1>7, <1>8, <1>9, <1>10,
         <1>11, <1>12, ServedIds DEF Next, WriteStep

\* With LINUX, LINUX_DIRECT, MMAP and LIBPMEM2, in any order over the restarts, a
\* page whose last write was answered is on the medium, whatever happens to the
\* process and the machine afterwards.
THEOREM Durable ==
  ASSUME FlushingEngines
  PROVE  Spec => []AckedDurable
<1>1. DurableInv => AckedDurable  BY DEF DurableInv, AckedDurable, Holds
<1>2. TypeInv /\ DurableInv /\ [Next]_vars => DurableInv'  BY NextDurable
<1> QED  BY <1>1, <1>2, InitTypeInv, NextTypeInv, InitDurable, PTL DEF Spec

\* With the same engines, pagein() of a page whose last write was answered
\* delivers what was written.
THEOREM ReadsAreLatest ==
  ASSUME FlushingEngines
  PROVE  Spec => ReadLatest
<1>1. ASSUME TypeInv, DurableInv, NEW p \in PageIds, Pagein(p),
             acked[p] # Unknown, p \notin unstored, engine # "ASM"
      PROVE  dest' = [i \in 0 .. PageSize - 1 |-> acked[p]]
  <2> USE SizesAssumption, ManagerAssumption
  <2>1. /\ BufferOf(p) \in Buffers /\ PositionOf(p) \in Nat
        /\ PageUnits(PositionOf(p)) \subseteq Units
    BY LookupInRange, PositionInRange
  <2>2. Flushed(cache[BufferOf(p)], stdio[BufferOf(p)]) = cache[BufferOf(p)]
    BY <1>1, <2>1, NothingToFlush DEF DurableInv, TypeInv, TypeOK
  <2>3. \A i \in 0 .. PageSize - 1 : PositionOf(p) + i \in PageUnits(PositionOf(p))
    BY <2>1 DEF PageUnits
  <2>4. \A i \in 0 .. PageSize - 1 :
          cache[BufferOf(p)][PositionOf(p) + i] = acked[p]
    BY <1>1, <2>3 DEF DurableInv, Holds
  <2> QED  BY <1>1, <2>1, <2>2, <2>3, <2>4 DEF Pagein, ReadResult
<1> DEFINE Delivers == \A p \in PageIds :
                         /\ Pagein(p) /\ engine # "ASM"
                         /\ acked[p] # Unknown /\ p \notin unstored
                         => dest' = [i \in 0 .. PageSize - 1 |-> acked[p]]
<1>2. TypeInv /\ DurableInv => Delivers  BY <1>1
<1>3. TypeInv /\ DurableInv /\ [Next]_vars => DurableInv'  BY NextDurable
<1>4. ReadLatest <=> [][Delivers]_vars  BY DEF ReadLatest
<1> HIDE DEF Delivers
<1> QED  BY <1>2, <1>3, <1>4, InitTypeInv, NextTypeInv, InitDurable, PTL DEF Spec

-----------------------------------------------------------------------------
(* What all engines together promise while nothing fails.                   *)

\* No call fails, the process is not killed and the power stays on.
QuietEnvironment == Faults = {} /\ MaxFailures = 0

\* what a read of directory b sees
SeenIn(b) == Flushed(cache[b], stdio[b])

\* a read of page p sees d
Shows(p, d) ==
  \A i \in PageUnits(PositionOf(p)) : SeenIn(BufferOf(p))[i] = d

\* Reads see the pages whose last answered write was not one of ASM, and the page
\* that has been transferred; only the STD engine has anything in stdio, and only
\* while it runs.
VisibleInv ==
  /\ (engine # "STD" \/ call.pc \in {"opening", "exited", "down"}) =>
       stdio = [b \in Buffers |-> EmptyStdio]
  /\ \A p \in PageIds \ unstored : acked[p] # Unknown => Shows(p, acked[p])
  /\ engine # "ASM" /\ call.pc \in {"sync", "done"} => Shows(page, call.data)

\* Reads see the whole of the initial files.
LEMMA InitVisible == Init => VisibleInv
<1> SUFFICES ASSUME Init PROVE VisibleInv
  OBVIOUS
<1>1. PICK d \in Data : /\ media = [b \in Buffers |-> [i \in Units |-> d]]
                        /\ acked = [p \in PageIds |-> d]
  BY DEF Init
<1>2. cache = media /\ stdio = [b \in Buffers |-> EmptyStdio] /\ call.pc = "opening"
  BY DEF Init, Stopped, Idle
<1>3. ASSUME NEW p \in PageIds PROVE Shows(p, acked[p])
  <2>1. BufferOf(p) \in Buffers /\ PageUnits(PositionOf(p)) \subseteq Units
    BY LookupInRange, PositionInRange
  <2>2. SeenIn(BufferOf(p)) = [i \in Units |-> d]
    BY <1>1, <1>2, <2>1, NothingToFlush DEF SeenIn
  <2> QED BY <1>1, <2>1, <2>2 DEF Shows
<1> QED BY <1>2, <1>3 DEF VisibleInv

\* What all reads see stays the same.
LEMMA SeenKept ==
  ASSUME \A b \in Buffers : SeenIn(b)' = SeenIn(b),
         NEW p \in PageIds, NEW d, Shows(p, d)
  PROVE  Shows(p, d)'
<1>1. BufferOf(p) \in Buffers
  BY LookupInRange
<1> QED BY <1>1 DEF Shows, SeenIn, PageUnits, PositionOf, BufferOf

\* Each engine that writes shows the new page to reads and leaves the rest alone,
\* wherever stdio keeps the data.
LEMMA TransferShowsPage ==
  ASSUME QuietEnvironment, TypeInv, VisibleInv, Transfer, engine # "ASM"
  PROVE  /\ call.pc = "transfer" /\ call' = [call EXCEPT !.pc = "sync"]
         /\ engine' = engine
         /\ engine # "STD" => stdio' = stdio
         /\ \A b \in Buffers :
              SeenIn(b)' = IF b = call.buf
                           THEN Overlay(SeenIn(b), PageUnits(call.pos), call.data)
                           ELSE SeenIn(b)
<1> USE SizesAssumption, DataAssumption
<1>1. call.pc = "transfer" /\ call' = [call EXCEPT !.pc = "sync"] /\ engine' = engine
      /\ (engine # "STD" => stdio' = stdio)
  BY DEF Transfer, LinuxTransfer, StdTransfer, MmapTransfer, LibPMTransfer, ASMTransfer
<1>2. /\ call.buf \in Buffers /\ call.pos \in Nat /\ call.data \in Data
      /\ cache \in [Buffers -> [Units -> Data]]
      /\ stdio \in [Buffers -> [Units -> Data \cup {NoData}]]
  BY <1>1 DEF TypeInv, TypeOK, CallOK, Writing
<1>3. CASE engine # "STD"
  <2>1. stdio = [b \in Buffers |-> EmptyStdio] /\ stdio' = stdio
    BY <1>1, <1>3 DEF VisibleInv
  <2>2. cache' = [cache EXCEPT ![call.buf] =
                    Overlay(cache[call.buf], PageUnits(call.pos), call.data)]
    <3>1. LinuxTransfer \/ MmapTransfer \/ LibPMTransfer
      BY <1>3 DEF Transfer, StdTransfer, ASMTransfer
    <3>2. cache' = [cache EXCEPT ![call.buf] = TransferTo(cache[call.buf], PageSize)]
      BY <3>1 DEF LinuxTransfer, MmapTransfer, LibPMTransfer, AcceptedCounts,
         QuietEnvironment
    <3> QED BY <3>2 DEF TransferTo, PageUnits
  <2>3. Overlay(cache[call.buf], PageUnits(call.pos), call.data) \in [Units -> Data]
    BY <1>2, OverlayType
  <2>4. ASSUME NEW b \in Buffers
        PROVE  SeenIn(b) = cache[b] /\ SeenIn(b)' = cache'[b]
    BY <1>2, <2>1, <2>2, <2>3, NothingToFlush DEF SeenIn
  <2>5. ASSUME NEW b \in Buffers
        PROVE  cache'[b] = IF b = call.buf
                           THEN Overlay(cache[b], PageUnits(call.pos), call.data)
                           ELSE cache[b]
    BY <1>2, <2>2
  <2> QED BY <1>1, <2>4, <2>5
<1>4. CASE engine = "STD"
  <2>1. PICK n \in 0 .. PageSize :
          /\ cache' = [cache EXCEPT ![call.buf] =
               TransferTo(Flushed(cache[call.buf], stdio[call.buf]), n)]
          /\ stdio' = [stdio EXCEPT ![call.buf] =
               Overlay(EmptyStdio, RestUnits(n), call.data)]
    BY <1>4 DEF Transfer, LinuxTransfer, StdTransfer, MmapTransfer, LibPMTransfer,
       ASMTransfer
  <2>2. ASSUME NEW b \in Buffers, b # call.buf PROVE SeenIn(b)' = SeenIn(b)
    <3>1. cache'[b] = cache[b] /\ stdio'[b] = stdio[b]
      BY <1>2, <2>1, <2>2
    <3> QED BY <3>1 DEF SeenIn, Flushed, Units
  <2>3. SeenIn(call.buf) \in [Units -> Data]
    BY <1>2, FlushedType DEF SeenIn
  <2> DEFINE b == call.buf
             f == TransferTo(SeenIn(b), n)
             g == Overlay(EmptyStdio, RestUnits(n), call.data)
  <2>4. cache'[b] = f /\ stdio'[b] = g
    BY <1>2, <2>1 DEF SeenIn
  <2>5. ASSUME NEW i \in Units
        PROVE  /\ f[i] = IF i \in call.pos .. call.pos + n - 1
                         THEN call.data ELSE SeenIn(b)[i]
               /\ g[i] = IF i \in call.pos + n .. call.pos + PageSize - 1
                         THEN call.data ELSE NoData
    BY DEF TransferTo, Overlay, RestUnits, EmptyStdio
  <2> HIDE DEF f, g
  <2>6. ASSUME NEW i \in Units
        PROVE  (IF g[i] # NoData THEN g[i] ELSE f[i])
                 = IF i \in PageUnits(call.pos) THEN call.data ELSE SeenIn(b)[i]
    <3>1. i \in PageUnits(call.pos) <=>
            \/ i \in call.pos .. call.pos + n - 1
            \/ i \in call.pos + n .. call.pos + PageSize - 1
      BY <1>2 DEF PageUnits, Units
    <3>2. call.data # NoData
      BY <1>2
    <3> QED BY <2>5, <3>1, <3>2
  <2>7. Flushed(f, g) = Overlay(SeenIn(b), PageUnits(call.pos), call.data)
    BY <2>6 DEF Flushed, Overlay
  <2>8. ASSUME NEW c \in Buffers, c = b
        PROVE  SeenIn(c)' = Overlay(SeenIn(c), PageUnits(call.pos), call.data)
    <3>1. SeenIn(c)' = Flushed(cache'[c], stdio'[c])
      BY DEF SeenIn, Flushed, Units
    <3> QED BY <2>4, <2>7, <2>8, <3>1
  <2> QED BY <1>1, <2>2, <2>8
<1> QED BY <1>3, <1>4

\* A step after which reads see the same and which enters no write.
LEMMA VisibleStep ==
  ASSUME TypeInv, VisibleInv, \A b \in Buffers : SeenIn(b)' = SeenIn(b),
         acked' = acked, unstored' = unstored,
         call'.pc \notin {"sync", "done"},
         (engine' # "STD" \/ call'.pc \in {"opening", "exited", "down"}) =>
           stdio' = [b \in Buffers |-> EmptyStdio]
  PROVE  VisibleInv'
<1>1. ASSUME NEW p \in PageIds \ unstored, acked'[p] # Unknown
      PROVE  Shows(p, acked[p])'
  <2>1. Shows(p, acked[p])
    BY <1>1 DEF VisibleInv
  <2>2. BufferOf(p) \in Buffers
    BY LookupInRange
  <2>3. SeenIn(BufferOf(p))' = SeenIn(BufferOf(p))
    BY <2>2 DEF SeenIn, BufferOf
  <2> QED BY <2>1, <2>3 DEF Shows, PageUnits, PositionOf, BufferOf
<1> QED BY <1>1 DEF VisibleInv, EmptyStdio, Buffers, Units, PageIds, TotalPages

\* Every step keeps the acknowledged pages visible.
LEMMA NextVisible ==
  ASSUME QuietEnvironment, TypeInv, VisibleInv, [Next]_vars
  PROVE  VisibleInv'
<1> USE SizesAssumption, ManagerAssumption
<1>a. /\ cache \in [Buffers -> [Units -> Data]]
      /\ stdio \in [Buffers -> [Units -> Data \cup {NoData}]]
      /\ \A b \in Buffers : SeenIn(b) \in [Units -> Data]
  BY FlushedType DEF TypeInv, TypeOK, SeenIn
<1>b. \A p \in PageIds \ unstored : acked[p] # Unknown => Shows(p, acked[p])
  BY DEF VisibleInv
<1>c. ~(failures < MaxFailures)
  BY DEF QuietEnvironment, TypeInv, TypeOK
<1>d. \A b \in Buffers : Flushed(SeenIn(b), EmptyStdio) = SeenIn(b)
  BY <1>a, NothingToFlush
<1>1. CASE OpenBuffer
  <2>1. UNCHANGED <<engine, cache, stdio, acked, unstored>> /\ call.pc = "opening"
    BY <1>1 DEF OpenBuffer
  <2>2. call'.pc \notin {"sync", "done"}
    BY <1>1 DEF OpenBuffer, Idle, Stopped
  <2>3. \A b \in Buffers : SeenIn(b)' = SeenIn(b)
    BY <2>1 DEF SeenIn, Flushed, Units
  <2>4. stdio' = [b \in Buffers |-> EmptyStdio]
    BY <2>1 DEF VisibleInv
  <2> QED BY <2>1, <2>2, <2>3, <2>4, VisibleStep
<1>2. ASSUME NEW p \in PageIds, Pagein(p) PROVE VisibleInv'
  <2>1. BufferOf(p) \in Buffers
    BY LookupInRange
  <2>2. /\ UNCHANGED <<engine, acked, unstored, call>> /\ call.pc = "idle"
        /\ cache' = [cache EXCEPT ![BufferOf(p)] = SeenIn(BufferOf(p))]
        /\ stdio' = [stdio EXCEPT ![BufferOf(p)] = EmptyStdio]
    BY <1>2, <1>a, <2>1 DEF Pagein, ReadEffect, SeenIn
  <2>3. ASSUME NEW b \in Buffers PROVE SeenIn(b)' = SeenIn(b)
    <3>1. SeenIn(b)' = Flushed(cache'[b], stdio'[b])
      BY DEF SeenIn, Flushed, Units
    <3>2. CASE b = BufferOf(p)
      BY <1>a, <1>d, <2>1, <2>2, <3>1, <3>2
    <3>3. CASE b # BufferOf(p)
      BY <1>a, <2>1, <2>2, <3>1, <3>3 DEF SeenIn
    <3> QED BY <3>2, <3>3
  <2>4. engine # "STD" => stdio' = [b \in Buffers |-> EmptyStdio]
    BY <2>1, <2>2 DEF VisibleInv
  <2> QED BY <2>2, <2>3, <2>4, VisibleStep
<1>3. ASSUME NEW p \in PageIds, NEW d \in Data, Pageout(p, d) PROVE VisibleInv'
  <2>1. /\ UNCHANGED <<engine, cache, stdio, unstored>> /\ call.pc = "idle"
        /\ acked' = [acked EXCEPT ![p] = Unknown]
        /\ call'.pc = "transfer"
    BY <1>3 DEF Pageout, StartWrite
  <2>2. \A r \in PageIds : acked'[r] # Unknown => acked'[r] = acked[r]
    BY <2>1 DEF TypeInv, TypeOK
  <2>3. \A b \in Buffers : SeenIn(b)' = SeenIn(b)
    BY <2>1 DEF SeenIn, Flushed, Units
  <2>4. ASSUME NEW r \in PageIds \ unstored, acked'[r] # Unknown
        PROVE  Shows(r, acked[r])'
    <3>1. Shows(r, acked[r]) /\ acked'[r] = acked[r]
      BY <1>b, <2>2, <2>4
    <3>2. SeenIn(BufferOf(r))' = SeenIn(BufferOf(r))
      BY <2>3, LookupInRange DEF SeenIn, BufferOf
    <3> QED BY <3>1, <3>2 DEF Shows, PageUnits, PositionOf, BufferOf
  <2>5. engine' # "STD" => stdio' = [b \in Buffers |-> EmptyStdio]
    BY <2>1 DEF VisibleInv
  <2> QED BY <2>1, <2>4, <2>5 DEF VisibleInv, EmptyStdio, Buffers, Units, PageIds, TotalPages
<1>4. ASSUME NEW p \in RequestedIds, Rejected(p) PROVE VisibleInv'
  <2>1. UNCHANGED <<engine, cache, stdio, acked, unstored, call>> /\ call.pc = "idle"
    BY <1>4 DEF Rejected, ioVars
  <2>2. \A b \in Buffers : SeenIn(b)' = SeenIn(b)
    BY <2>1 DEF SeenIn, Flushed, Units
  <2>3. engine # "STD" => stdio' = [b \in Buffers |-> EmptyStdio]
    BY <2>1 DEF VisibleInv
  <2> QED BY <2>1, <2>2, <2>3, VisibleStep
<1>5. CASE WriteStep /\ Transfer /\ engine # "ASM"
  <2>1. /\ call.pc = "transfer" /\ call' = [call EXCEPT !.pc = "sync"]
        /\ engine' = engine /\ (engine # "STD" => stdio' = stdio)
        /\ \A b \in Buffers :
             SeenIn(b)' = IF b = call.buf
                          THEN Overlay(SeenIn(b), PageUnits(call.pos), call.data)
                          ELSE SeenIn(b)
        /\ UNCHANGED <<acked, unstored, page>>
    BY <1>5, TransferShowsPage DEF WriteStep, bmVars
  <2>2. /\ page \in PageIds /\ acked[page] = Unknown
        /\ call.buf = BufferOf(page) /\ call.pos = PositionOf(page)
        /\ call'.pc = "sync" /\ call'.data = call.data
    BY <1>5, <2>1 DEF TypeInv, TypeOK, CallOK, Writing
  <2>3. ASSUME NEW r \in PageIds \ unstored, acked[r] # Unknown,
               NEW i \in PageUnits(PositionOf(r))
        PROVE  SeenIn(BufferOf(r))'[i] = acked[r]
    <3>1. /\ BufferOf(r) \in Buffers /\ i \in Units
          /\ SeenIn(BufferOf(r))[i] = acked[r] /\ r # page
      BY <1>b, <2>2, <2>3, LookupInRange, PositionInRange DEF Shows
    <3>2. BufferOf(r) = call.buf => i \notin PageUnits(call.pos)
      BY <2>2, <2>3, <3>1, PagesDisjoint
    <3> QED BY <2>1, <3>1, <3>2 DEF Overlay
  <2>4. ASSUME NEW i \in PageUnits(PositionOf(page))
        PROVE  SeenIn(BufferOf(page))'[i] = call.data
    <3>1. BufferOf(page) \in Buffers /\ i \in Units
      BY <2>2, LookupInRange, PositionInRange
    <3> QED BY <2>1, <2>2, <3>1 DEF Overlay
  <2>5. \A r \in PageIds \ unstored : acked'[r] # Unknown => Shows(r, acked[r])'
    BY <2>1, <2>3 DEF Shows, SeenIn, PageUnits, PositionOf, BufferOf
  <2>6. Shows(page, call.data)'
    BY <2>1, <2>2, <2>4 DEF Shows, SeenIn, PageUnits, PositionOf, BufferOf
  <2>7. engine' # "STD" => stdio' = [b \in Buffers |-> EmptyStdio]
    BY <2>1 DEF VisibleInv
  <2>8. unstored' = unstored
    BY <2>1
  <2> QED BY <2>2, <2>5, <2>6, <2>7, <2>8
          DEF VisibleInv, EmptyStdio, Buffers, Units, PageIds, TotalPages
<1>6. CASE \/ WriteStep /\ (Flush \/ (Transfer /\ engine = "ASM"))
           \/ KernelWriteBack \/ UNCHANGED vars
  <2>1. /\ UNCHANGED <<engine, cache, stdio, acked, unstored, page>>
        /\ \/ call' = call
           \/ engine = "ASM" /\ call.pc = "transfer" /\ call'.pc = "done"
           \/ call.pc = "sync" /\ call' = [call EXCEPT !.pc = "done"]
    BY <1>6 DEF WriteStep, Flush, Fdatasync, Msync, LibPMPersist, Transfer, LinuxTransfer,
       StdTransfer, MmapTransfer, LibPMTransfer, ASMTransfer, KernelWriteBack, WriteBack,
       vars, ioVars, bmVars, TypeInv, TypeOK
  <2>2. \A b \in Buffers : SeenIn(b)' = SeenIn(b)
    BY <2>1 DEF SeenIn, Flushed, Units
  <2>3. ASSUME NEW r \in PageIds, NEW d, Shows(r, d)
        PROVE  \A i \in PageUnits(PositionOf(r)) : SeenIn(BufferOf(r))'[i] = d
    BY <2>2, <2>3, LookupInRange DEF Shows
  <2>4. \A r \in PageIds \ unstored : acked'[r] # Unknown => Shows(r, acked[r])'
    BY <1>b, <2>1, <2>3 DEF Shows, SeenIn, PageUnits, PositionOf, BufferOf
  <2>5. ASSUME engine # "ASM", call'.pc \in {"sync", "done"} PROVE Shows(page, call.data)'
    <3>1. call.pc \in {"sync", "done"} /\ call'.data = call.data
      BY <2>1, <2>5 DEF TypeInv, TypeOK
    <3>2. page \in PageIds /\ Shows(page, call.data)
      BY <2>5, <3>1 DEF VisibleInv, TypeInv, CallOK, Writing
    <3> QED BY <2>1, <2>3, <3>1, <3>2 DEF Shows, SeenIn, PageUnits, PositionOf, BufferOf
  <2>6. (engine' # "STD" \/ call'.pc \in {"opening", "exited", "down"}) =>
          stdio' = [b \in Buffers |-> EmptyStdio]
    BY <2>1 DEF VisibleInv, TypeInv, TypeOK
  <2> QED BY <2>1, <2>4, <2>5, <2>6
          DEF VisibleInv, EmptyStdio, Buffers, Units, PageIds, TotalPages
<1>7. CASE PageoutReturn
  <2>1. /\ call.pc = "done" /\ call'.pc = "idle"
        /\ acked' = [acked EXCEPT ![page] = call.data]
        /\ unstored' = IF engine = "ASM" THEN unstored \cup {page}
                                         ELSE unstored \ {page}
        /\ UNCHANGED <<engine, cache, stdio>>
    BY <1>7 DEF PageoutReturn, Idle
  <2>2. page \in PageIds /\ (engine # "ASM" => Shows(page, call.data))
    BY <2>1 DEF VisibleInv, TypeInv, CallOK, Writing
  <2>3. ASSUME NEW r \in PageIds \ unstored', acked'[r] # Unknown
        PROVE  Shows(r, acked'[r])
    <3>1. CASE r = page
      <4>1. acked'[r] = call.data /\ engine # "ASM"
        BY <2>1, <2>2, <2>3, <3>1 DEF TypeInv, TypeOK
      <4> QED BY <2>2, <3>1, <4>1
    <3>2. CASE r # page
      <4>1. acked'[r] = acked[r] /\ r \notin unstored
        BY <2>1, <2>3, <3>2 DEF TypeInv, TypeOK
      <4> QED BY <1>b, <2>3, <4>1
    <3> QED BY <3>1, <3>2
  <2>4. \A r \in PageIds \ unstored' : acked'[r] # Unknown => Shows(r, acked[r])'
    BY <2>1, <2>3 DEF Shows, SeenIn, Flushed, Units, PageUnits, PositionOf, BufferOf
  <2>5. engine' # "STD" => stdio' = [b \in Buffers |-> EmptyStdio]
    BY <2>1 DEF VisibleInv
  <2> QED BY <2>1, <2>4, <2>5 DEF VisibleInv, EmptyStdio, Buffers, Units, PageIds, TotalPages
<1>8. CASE Close
  <2>1. /\ cache' = [b \in Buffers |-> SeenIn(b)]
        /\ stdio' = [b \in Buffers |-> EmptyStdio]
        /\ call'.pc = "exited" /\ UNCHANGED <<engine, acked, unstored>>
    BY <1>8 DEF Close, ExitProcess, QuietEnvironment, Stopped, Idle, bmVars, SeenIn
  <2>2. \A b \in Buffers : SeenIn(b)' = SeenIn(b)
    <3> SUFFICES ASSUME NEW b \in Buffers PROVE SeenIn(b)' = SeenIn(b)
      OBVIOUS
    <3>1. SeenIn(b)' = Flushed(cache'[b], stdio'[b])
      BY DEF SeenIn, Flushed, Units
    <3> QED BY <1>d, <2>1, <3>1
  <2> QED BY <2>1, <2>2, VisibleStep
<1>9. CASE Crash \/ LosePower
  BY <1>9, <1>c DEF Crash, LosePower
<1>10. CASE Restart
  <2>1. /\ UNCHANGED <<cache, stdio, acked, unstored>> /\ call'.pc = "opening"
        /\ call.pc \in {"exited", "down"}
    BY <1>10 DEF Restart, Stopped, Idle, Alive
  <2>2. \A b \in Buffers : SeenIn(b)' = SeenIn(b)
    BY <2>1 DEF SeenIn, Flushed, Units
  <2>3. stdio' = [b \in Buffers |-> EmptyStdio]
    BY <2>1 DEF VisibleInv
  <2> QED BY <2>1, <2>2, <2>3, VisibleStep
<1>11. CASE WriteStep
  <2>1. Transfer \/ Flush
    BY <1>11 DEF WriteStep
  <2> QED BY <1>5, <1>6, <1>11, <2>1
<1> QED BY <1>1, <1>2, <1>3, <1>4, <1>6, <1>7, <1>8, <1>9, <1>10, <1>11,
       ServedIds DEF Next

\* With any of the six engines, STD with its stdio buffer among them: while nothing
\* fails, the last answered write of a page is not lost, across orderly ends,
\* restarts and changes of engine, unless it was the ASM engine that answered it,
\* which stores nothing.
THEOREM Visible ==
  ASSUME QuietEnvironment
  PROVE  Spec => []AckedVisible
<1>1. VisibleInv => AckedVisible
  BY DEF VisibleInv, AckedVisible, Shows, SeenIn
<1>2. TypeInv /\ VisibleInv /\ [Next]_vars => VisibleInv'
  BY NextVisible
<1> QED BY <1>1, <1>2, InitTypeInv, NextTypeInv, InitVisible, PTL DEF Spec

\* And pagein() delivers it, by any engine but ASM, whose reads deliver nothing.
THEOREM ReadsSeeWrites ==
  ASSUME QuietEnvironment
  PROVE  Spec => ReadLatest
<1> DEFINE Delivers == \A p \in PageIds :
                         /\ Pagein(p) /\ engine # "ASM"
                         /\ acked[p] # Unknown /\ p \notin unstored
                         => dest' = [i \in 0 .. PageSize - 1 |-> acked[p]]
<1>1. ASSUME TypeInv, VisibleInv, NEW p \in PageIds, Pagein(p),
             acked[p] # Unknown, p \notin unstored, engine # "ASM"
      PROVE  dest' = [i \in 0 .. PageSize - 1 |-> acked[p]]
  <2> USE SizesAssumption, ManagerAssumption
  <2>1. PositionOf(p) \in Nat /\ PageUnits(PositionOf(p)) \subseteq Units
    BY LookupInRange, PositionInRange
  <2>2. \A i \in 0 .. PageSize - 1 : PositionOf(p) + i \in PageUnits(PositionOf(p))
    BY <2>1 DEF PageUnits
  <2>3. \A i \in 0 .. PageSize - 1 : SeenIn(BufferOf(p))[PositionOf(p) + i] = acked[p]
    BY <1>1, <2>2 DEF VisibleInv, Shows
  <2> QED BY <1>1, <2>1, <2>2, <2>3 DEF Pagein, ReadResult, SeenIn
<1>2. TypeInv /\ VisibleInv => Delivers
  BY <1>1
<1>3. TypeInv /\ VisibleInv /\ [Next]_vars => VisibleInv'
  BY NextVisible
<1>4. ReadLatest <=> [][Delivers]_vars
  BY DEF ReadLatest
<1> HIDE DEF Delivers
<1> QED BY <1>2, <1>3, <1>4, InitTypeInv, NextTypeInv, InitVisible, PTL DEF Spec
-----------------------------------------------------------------------------
(* The buffer manager with an engine that flushes and writes implements the *)
(* page store: every step of the detailed specification is a step of        *)
(* PageStore, or changes nothing there.                                     *)

\* the variables of the page store
StoreOf     == [p \in PageIds |-> Uniform(PageOnMedia(p))]
UnsettledOf == {p \in PageIds : acked[p] = Unknown}
WritingOf   == IF call.pc \in {"transfer", "sync", "done"}
               THEN {<<page, call.data>>} ELSE {}
ResultOf    == Uniform(dest)
Contents    == Data \cup {NoData}

\* What is uniform holds a content, or none.
LEMMA UniformType ==
  ASSUME NEW f
  PROVE  Uniform(f) \in Contents
BY DEF Uniform, Contents

\* A function that is d everywhere, and somewhere, is uniform.
LEMMA UniformIs ==
  ASSUME NEW f, NEW d \in Data, DOMAIN f # {}, \A i \in DOMAIN f : f[i] = d
  PROVE  Uniform(f) = d
<1>1. \E e \in Data : \A i \in DOMAIN f : f[i] = e
  OBVIOUS
<1> DEFINE e == CHOOSE e \in Data : \A i \in DOMAIN f : f[i] = e
<1>2. \A i \in DOMAIN f : f[i] = e
  BY <1>1
<1>3. e = d
  BY <1>2
<1> QED BY <1>1, <1>3 DEF Uniform

\* A page that holds d on the medium has the content d in the store.
LEMMA StoreHolds ==
  ASSUME NEW p \in PageIds, NEW d \in Data, Holds(media, p, d)
  PROVE  StoreOf[p] = d
<1>1. PositionOf(p) \in PageUnits(PositionOf(p))
  BY PositionInRange, SizesAssumption DEF PageUnits
<1>2. DOMAIN PageOnMedia(p) = PageUnits(PositionOf(p))
  BY DEF PageOnMedia
<1>3. \A i \in DOMAIN PageOnMedia(p) : PageOnMedia(p)[i] = d
  BY DEF PageOnMedia, Holds
<1>4. Uniform(PageOnMedia(p)) = d
  BY <1>1, <1>2, <1>3, UniformIs
<1> QED BY <1>4 DEF StoreOf

\* The same after a step.
LEMMA StoreHoldsNext ==
  ASSUME NEW p \in PageIds, NEW d \in Data, Holds(media', p, d)
  PROVE  StoreOf'[p] = d
<1>1. PositionOf(p) \in PageUnits(PositionOf(p))
  BY PositionInRange, SizesAssumption DEF PageUnits
<1> DEFINE f == [i \in PageUnits(PositionOf(p)) |-> media'[BufferOf(p)][i]]
<1>2. Uniform(f) = d
  <2>1. DOMAIN f # {} /\ \A i \in DOMAIN f : f[i] = d
    BY <1>1 DEF Holds
  <2> HIDE DEF f
  <2> QED BY <2>1, UniformIs
<1>3. PageOnMedia(p)' = f
  BY DEF PageOnMedia, PageUnits, PositionOf, BufferOf
<1>4. StoreOf'[p] = Uniform(f)
  BY <1>3 DEF StoreOf, Uniform, PageIds, TotalPages
<1> QED BY <1>2, <1>4

\* An empty destination is no content.
LEMMA NothingRead == Uniform(FreshDest) = NoData
<1>1. 0 \in DOMAIN FreshDest /\ FreshDest[0] = NoData
  BY SizesAssumption DEF FreshDest
<1>2. ~ \E d \in Data : \A i \in DOMAIN FreshDest : FreshDest[i] = d
  BY <1>1, DataAssumption
<1> QED BY <1>2 DEF Uniform

\* A step that leaves the medium and acked alone leaves the store and the unsettled
\* pages alone.
LEMMA StoreKept ==
  ASSUME UNCHANGED <<media, acked>>
  PROVE  StoreOf' = StoreOf /\ UnsettledOf' = UnsettledOf
BY DEF StoreOf, PageOnMedia, UnsettledOf, Uniform, PageIds, TotalPages, PageUnits,
       PositionOf, BufferOf

\* What reaches the medium without an answer is a drift of unsettled pages.
LEMMA StoreDrifts ==
  ASSUME TypeInv, DurableInv, DurableInv', UNCHANGED <<acked, page, dest>>,
         call' = call \/ (call.pc = "sync" /\ call' = [call EXCEPT !.pc = "done"])
  PROVE  Store!Drift
<1>1. StoreOf' \in [PageIds -> Contents]
  BY UniformType DEF StoreOf, PageIds, TotalPages, Uniform, Contents
<1>2. ASSUME NEW p \in PageIds \ UnsettledOf PROVE StoreOf'[p] = StoreOf[p]
  <2>1. acked[p] # Unknown /\ acked[p] \in Data /\ acked' = acked
    BY <1>2 DEF UnsettledOf, TypeInv, TypeOK
  <2>2. Holds(media, p, acked[p])
    BY <2>1 DEF DurableInv
  <2>3. Holds(media', p, acked[p])
    BY <2>1 DEF DurableInv, Holds, PageIds, TotalPages, PageUnits, PositionOf, BufferOf
  <2>4. StoreOf[p] = acked[p]
    BY <2>1, <2>2, StoreHolds
  <2>5. StoreOf'[p] = acked[p]
    BY <2>1, <2>3, StoreHoldsNext
  <2> QED BY <2>4, <2>5
<1>3. UnsettledOf' = UnsettledOf /\ ResultOf' = ResultOf
  BY DEF UnsettledOf, ResultOf, PageIds, TotalPages, Uniform
<1>4. WritingOf' = WritingOf
  BY DEF WritingOf, TypeInv, TypeOK
<1> QED BY <1>1, <1>2, <1>3, <1>4 DEF Store!Drift, Store!Content, StoreOf, UnsettledOf,
           WritingOf, ResultOf, Contents

\* The initial states are initial states of the store.
LEMMA InitStore ==
  ASSUME Init
  PROVE  Store!Init
<1>1. StoreOf \in [PageIds -> Contents]
  BY UniformType DEF StoreOf
<1>2. UnsettledOf = {}
  BY ManagerAssumption DEF Init, UnsettledOf
<1>3. WritingOf = {}
  BY DEF Init, WritingOf, Stopped, Idle
<1>4. ResultOf = NoData
  BY NothingRead DEF Init, ResultOf
<1> QED BY <1>1, <1>2, <1>3, <1>4 DEF Store!Init, Store!Content, StoreOf, UnsettledOf,
           WritingOf, ResultOf, Contents

\* A step that the store does not see.
LEMMA Stutters ==
  ASSUME UNCHANGED <<media, acked, dest>>, WritingOf' = WritingOf
  PROVE  UNCHANGED Store!vars
<1>1. ResultOf' = ResultOf
  BY DEF ResultOf, Uniform
<1> QED BY <1>1, StoreKept DEF Store!vars, StoreOf, UnsettledOf, WritingOf, ResultOf

\* A write in progress that ends without an answer.
LEMMA Abandons ==
  ASSUME UNCHANGED <<media, acked>>, WritingOf' = {}, dest' = dest \/ dest' = FreshDest
  PROVE  Store!Abandon
<1>1. ResultOf' \in {ResultOf, NoData}
  <2>1. ResultOf' = Uniform(dest')
    BY DEF ResultOf, Uniform
  <2> QED BY <2>1, NothingRead DEF ResultOf
<1> QED BY <1>1, StoreKept DEF Store!Abandon, StoreOf, UnsettledOf, WritingOf, ResultOf

\* pagein() of a page is a read of the store: of a settled page it delivers what is
\* on the medium.
LEMMA PageinReads ==
  ASSUME FlushingEngines, TypeInv, DurableInv, NEW p \in PageIds, Pagein(p)
  PROVE  Store!Read(p)
<1> USE SizesAssumption, ManagerAssumption
<1>1. /\ call.pc = "idle" /\ UNCHANGED <<media, acked, call, page>>
      /\ dest' = ReadResult(BufferOf(p), PositionOf(p), dest)
      /\ engine # "ASM"
  BY DEF Pagein, FlushingEngines, TypeInv, TypeOK
<1>2. WritingOf = {} /\ WritingOf' = WritingOf
  BY <1>1 DEF WritingOf
<1>3. ResultOf' \in Contents
  <2>1. ResultOf' = Uniform(dest')
    BY DEF ResultOf, Uniform
  <2> QED BY <2>1, UniformType
<1>4. ASSUME p \notin UnsettledOf PROVE ResultOf' = StoreOf[p]
  <2>1. acked[p] # Unknown /\ acked[p] \in Data
    BY <1>4 DEF UnsettledOf, TypeInv, TypeOK
  <2>2. Holds(cache, p, acked[p]) /\ Holds(media, p, acked[p])
    BY <2>1 DEF DurableInv
  <2>3. /\ BufferOf(p) \in Buffers /\ PositionOf(p) \in Nat
        /\ PageUnits(PositionOf(p)) \subseteq Units
    BY LookupInRange, PositionInRange
  <2>4. Flushed(cache[BufferOf(p)], stdio[BufferOf(p)]) = cache[BufferOf(p)]
    BY <2>3, NothingToFlush DEF DurableInv, TypeInv, TypeOK
  <2>5. \A i \in 0 .. PageSize - 1 : PositionOf(p) + i \in PageUnits(PositionOf(p))
    BY <2>3 DEF PageUnits
  <2>6. dest' = [i \in 0 .. PageSize - 1 |-> acked[p]]
    BY <1>1, <2>2, <2>3, <2>4, <2>5 DEF ReadResult, Holds
  <2>7. DOMAIN dest' # {} /\ \A i \in DOMAIN dest' : dest'[i] = acked[p]
    <3>1. 0 \in 0 .. PageSize - 1
      OBVIOUS
    <3> QED BY <2>6, <3>1
  <2>8. Uniform(dest') = acked[p]
    BY <2>1, <2>7, UniformIs
  <2>9. StoreOf[p] = acked[p]
    BY <2>1, <2>2, StoreHolds
  <2> QED BY <2>8, <2>9 DEF ResultOf, Uniform
<1> QED BY <1>1, <1>2, <1>3, <1>4, StoreKept DEF Store!Read, Store!Content, StoreOf,
           UnsettledOf, WritingOf, ResultOf, Contents

\* pageout() of a page begins a write of the store.
LEMMA PageoutBegins ==
  ASSUME FlushingEngines, TypeInv, NEW p \in PageIds, NEW d \in Data, Pageout(p, d)
  PROVE  Store!BeginWrite(p, d)
<1>1. /\ call.pc = "idle" /\ call'.pc = "transfer" /\ call'.data = d /\ page' = p
      /\ acked' = [acked EXCEPT ![p] = Unknown]
      /\ UNCHANGED <<media, dest>>
  BY DEF Pageout, StartWrite, FlushingEngines, TypeInv, TypeOK
<1>2. WritingOf = {} /\ WritingOf' = {<<p, d>>}
  BY <1>1 DEF WritingOf
<1>3. UnsettledOf' = UnsettledOf \cup {p}
  BY <1>1 DEF UnsettledOf, TypeInv, TypeOK, PageIds, TotalPages
<1>4. StoreOf' = StoreOf /\ ResultOf' = ResultOf
  BY <1>1 DEF StoreOf, PageOnMedia, ResultOf, Uniform, PageIds, TotalPages, PageUnits,
     PositionOf, BufferOf
<1> QED BY <1>2, <1>3, <1>4 DEF Store!BeginWrite, StoreOf, UnsettledOf, WritingOf, ResultOf

\* pageout() returns when the page is on the medium.
LEMMA ReturnEnds ==
  ASSUME FlushingEngines, TypeInv, DurableInv, PageoutReturn
  PROVE  \E p \in PageIds, d \in Data : Store!EndWrite(p, d)
<1>1. /\ call.pc = "done" /\ call'.pc = "idle"
      /\ acked' = [acked EXCEPT ![page] = call.data]
      /\ engine # "ASM" /\ UNCHANGED <<media, dest>>
  BY DEF PageoutReturn, Idle, FlushingEngines, TypeInv, TypeOK
<1>2. page \in PageIds /\ call.data \in Data /\ call.data # Unknown
  BY <1>1, ManagerAssumption DEF TypeInv, CallOK, Writing
<1>3. StoreOf[page] = call.data
  BY <1>1, <1>2, StoreHolds DEF DurableInv
<1>4. <<page, call.data>> \in WritingOf /\ WritingOf' = {}
  BY <1>1 DEF WritingOf
<1>5. UnsettledOf' = UnsettledOf \ {page}
  BY <1>1, <1>2 DEF UnsettledOf, TypeInv, TypeOK, PageIds, TotalPages
<1>6. StoreOf' = StoreOf /\ ResultOf' = ResultOf
  BY <1>1 DEF StoreOf, PageOnMedia, ResultOf, Uniform, PageIds, TotalPages, PageUnits,
     PositionOf, BufferOf
<1>7. PICK p \in PageIds, d \in Data : p = page /\ d = call.data
  BY <1>2
<1>8. Store!EndWrite(p, d)
  BY <1>3, <1>4, <1>5, <1>6, <1>7
     DEF Store!EndWrite, StoreOf, UnsettledOf, WritingOf, ResultOf
<1> QED BY <1>8

\* Every step of the buffer manager is a step of the store, or none.
LEMMA NextStore ==
  ASSUME FlushingEngines, TypeInv, DurableInv, DurableInv', [Next]_vars
  PROVE  [Store!Next]_(Store!vars)
<1>1. CASE OpenBuffer
  <2>1. UNCHANGED <<media, acked, dest>> /\ WritingOf = {} /\ WritingOf' = {}
    BY <1>1 DEF OpenBuffer, WritingOf, Idle, Stopped
  <2> QED BY <2>1, Stutters
<1>2. ASSUME NEW p \in PageIds, Pagein(p) PROVE [Store!Next]_(Store!vars)
  <2>1. Store!Read(p)
    BY <1>2, PageinReads
  <2> QED BY <2>1 DEF Store!Next
<1>3. ASSUME NEW p \in PageIds, NEW d \in Data, Pageout(p, d)
      PROVE  [Store!Next]_(Store!vars)
  <2>1. Store!BeginWrite(p, d)
    BY <1>3, PageoutBegins
  <2> QED BY <2>1 DEF Store!Next
<1>4. ASSUME NEW p \in RequestedIds, Rejected(p) PROVE [Store!Next]_(Store!vars)
  <2>1. UNCHANGED <<media, acked, dest, call, page>>
    BY <1>4 DEF Rejected, ioVars
  <2>2. WritingOf' = WritingOf
    BY <2>1 DEF WritingOf
  <2> QED BY <2>1, <2>2, Stutters
<1>5. CASE WriteStep /\ Transfer
  <2>1. /\ call.pc = "transfer" /\ call' = [call EXCEPT !.pc = "sync"]
        /\ UNCHANGED <<media, bmVars>>
    BY <1>5, TransferWritesPage
  <2>2. WritingOf' = WritingOf
    BY <2>1 DEF WritingOf, TypeInv, TypeOK, bmVars
  <2> QED BY <2>1, <2>2, Stutters DEF bmVars
<1>6. CASE WriteStep /\ Flush
  <2>1. /\ call.pc = "sync" /\ call' = [call EXCEPT !.pc = "done"]
        /\ UNCHANGED bmVars
    BY <1>6, FlushPersistsPage
  <2>2. Store!Drift
    BY <2>1, StoreDrifts DEF bmVars
  <2> QED BY <2>2 DEF Store!Next
<1>7. CASE PageoutReturn
  BY <1>7, ReturnEnds DEF Store!Next
<1>8. CASE Crash \/ Close \/ LosePower
  <2>1. UNCHANGED <<media, acked, dest>> /\ call'.pc \in {"exited", "down"}
    BY <1>8 DEF Crash, Close, LosePower, WriteFails, ExitProcess, PowerFailure, bmVars,
       Stopped, Idle
  <2>2. WritingOf' = {}
    BY <2>1 DEF WritingOf
  <2>3. Store!Abandon
    BY <2>1, <2>2, Abandons
  <2> QED BY <2>3 DEF Store!Next
<1>9. CASE Restart
  <2>1. UNCHANGED <<media, acked>> /\ dest' = FreshDest /\ call'.pc = "opening"
    BY <1>9 DEF Restart, Stopped, Idle
  <2>2. WritingOf' = {}
    BY <2>1 DEF WritingOf
  <2>3. Store!Abandon
    BY <2>1, <2>2, Abandons
  <2> QED BY <2>3 DEF Store!Next
<1>10. CASE KernelWriteBack
  <2>1. UNCHANGED <<acked, page, dest, call>>
    BY <1>10 DEF KernelWriteBack, WriteBack, bmVars
  <2>2. Store!Drift
    BY <2>1, StoreDrifts
  <2> QED BY <2>2 DEF Store!Next
<1>11. CASE UNCHANGED vars
  <2>1. UNCHANGED <<media, acked, dest>> /\ WritingOf' = WritingOf
    BY <1>11 DEF vars, ioVars, bmVars, WritingOf
  <2> QED BY <2>1, Stutters
<1> QED BY <1>1, <1>2, <1>3, <1>4, <1>5, <1>6, <1>7, <1>8, <1>9, <1>10, <1>11,
           ServedIds DEF Next, WriteStep

\* Over any number of directories, pages, failures and restarts, with any change of
\* engine among LINUX, LINUX_DIRECT, MMAP and LIBPMEM2, the buffer manager is one
\* durable array of pages.
THEOREM BufferManagerIsPageStore ==
  ASSUME FlushingEngines
  PROVE  Spec => ImplementsPageStore
<1>1. Init => Store!Init
  BY InitStore
<1>2. TypeInv /\ DurableInv /\ DurableInv' /\ [Next]_vars => [Store!Next]_(Store!vars)
  BY NextStore
<1>3. TypeInv /\ DurableInv /\ [Next]_vars => DurableInv'
  BY NextDurable
<1> QED BY <1>1, <1>2, <1>3, InitTypeInv, NextTypeInv, InitDurable, PTL
        DEF Spec, ImplementsPageStore, Store!Spec
=============================================================================
