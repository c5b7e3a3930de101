--------------------------- MODULE BufferManager ---------------------------
(***************************************************************************)
(* The BufferManager (microbenchmarks/include/buffer_manager.hpp,          *)
(* src/lib/buffer_manager.cpp): pages striped over the io wrappers of      *)
(* several directories.  This module composes the buffer manager with the  *)
(* io wrappers of IOWrapper and with the life of the process: it opens the *)
(* buffer files, serves pagein() and pageout(), ends or loses power, and   *)
(* is started again, perhaps with another engine.                          *)
(***************************************************************************)
EXTENDS IOWrapper

CONSTANTS
  PagesPerBuffer,  \* pages_per_buffer_file
  Unknown,         \* no content is known for a page
  MaxFailures      \* bound on crashes and power failures

ASSUME ManagerAssumption ==
  /\ PagesPerBuffer \in Nat
  /\ PagesPerBuffer * PageSize <= MaxFileSize
  /\ Unknown \notin Data \cup {NoData}
  /\ MaxFailures \in Nat

VARIABLES
  opened,    \* number of wrappers the constructor has pushed into buffers
  page,      \* page_id of the pageout() in progress
  dest,      \* the caller's destination buffer of pagein()
  status,    \* what the last call returned, "none" before and during a call
  acked,     \* history: data of the last write to each page if its
             \* IOWrapper::write returned 0, else Unknown
  unstored,  \* history: pages whose last answered write went to the ASM
             \* engine, which returns 0 and stores nothing
  failures   \* bound: crashes and power failures so far

bmVars == <<opened, page, dest, status, acked, unstored, failures>>
vars == <<ioVars, bmVars>>

BMStatus == {"BM_READ_FAILURE", "BM_READ_SUCCESS",
             "BM_WRITE_FAILURE", "BM_WRITE_SUCCESS"}

\* bool ok(BMStatus)
Ok(s) == s \notin {"BM_READ_FAILURE", "BM_WRITE_FAILURE"}

TotalPages == NumBuffers * PagesPerBuffer
PageIds    == 0 .. TotalPages - 1

\* the ids that callers pass: the first one past the end stands for the others
RequestedIds == 0 .. TotalPages

\* mutant: the id after the last page is accepted
LookupFailsPastEnd(p) == p > TotalPages

\* BufferManager::lookup refuses ids past the last page ...
LookupFails(p) == p >= TotalPages
\* ... and spreads the others round-robin over the directories
BufferOf(p) == p % NumBuffers

\* mutant: the page in the file is taken from the id itself
PositionOfId(p) == (p % PagesPerBuffer) * PageSize

PositionOf(p) == (p \div NumBuffers) * PageSize

FreshDest == [i \in 0 .. PageSize - 1 |-> NoData]

Init ==
  /\ engine \in Engines
  /\ size \in [Buffers -> {Missing, PagesPerBuffer * PageSize - 1, MaxFileSize}]
  /\ \E d \in Data :
       /\ media = [b \in Buffers |-> [i \in Units |-> d]]
       /\ acked = [p \in PageIds |-> d]
  /\ unstored = {}
  /\ cache = media
  /\ stdio = [b \in Buffers |-> EmptyStdio]
  /\ call = Stopped("opening")
  /\ opened = 0
  /\ page = 0
  /\ dest = FreshDest
  /\ status = "none"
  /\ failures = 0

\* mutant: the check is off by one
FileTooSmallByOne(s) == PagesPerBuffer * PageSize > s + 1

\* the constructor: one wrapper per directory, in order; a file that is too
\* small for its pages ends the process
FileTooSmall(s) == PagesPerBuffer * PageSize > s

OpenBuffer ==
  /\ call.pc = "opening"
  /\ \E outcome \in OpenOutcomes(opened) :
       /\ size' = [size EXCEPT ![opened] = outcome.size]
       /\ IF outcome.ok /\ ~FileTooSmall(outcome.size)
          THEN /\ opened' = opened + 1
               /\ call' = IF opened + 1 = NumBuffers THEN Idle ELSE call
          ELSE /\ call' = Stopped("exited")
               /\ UNCHANGED opened
  /\ UNCHANGED <<engine, cache, media, stdio, page, dest, status, acked, unstored,
                 failures>>

Pagein(p) ==
  /\ call.pc = "idle"
  /\ ~LookupFails(p)
  /\ ReadSupported
  /\ ReadEffect(BufferOf(p))
  /\ dest' = ReadResult(BufferOf(p), PositionOf(p), dest)
  /\ status' = "BM_READ_SUCCESS"
  /\ UNCHANGED <<engine, size, media, call, opened, page, acked, unstored, failures>>

Pageout(p, d) ==
  /\ ~LookupFails(p)
  /\ StartWrite(BufferOf(p), PositionOf(p), d)
  /\ page' = p
  /\ acked' = [acked EXCEPT ![p] = Unknown]
  /\ status' = "none"
  /\ UNCHANGED <<engine, size, cache, media, stdio, opened, dest, unstored, failures>>

\* both calls with a page id that lookup() refuses
Rejected(p) ==
  /\ call.pc = "idle"
  /\ LookupFails(p)
  /\ status' \in {"BM_READ_FAILURE", "BM_WRITE_FAILURE"}
  /\ UNCHANGED <<ioVars, opened, page, dest, acked, unstored, failures>>

\* the steps of IOWrapper::write
WriteStep ==
  /\ Transfer \/ Flush
  /\ UNCHANGED bmVars

\* the status pageout() returns after a write that returned 0
PageoutStatus == "BM_WRITE_FAILURE"

PageoutReturn ==
  /\ call.pc = "done"
  /\ call' = Idle
  /\ page' = 0
  /\ acked' = [acked EXCEPT ![page] = call.data]
  /\ unstored' = IF engine = "ASM" THEN unstored \cup {page}
                                   ELSE unstored \ {page}
  /\ status' = PageoutStatus
  /\ UNCHANGED <<engine, size, cache, media, stdio, opened, dest, failures>>

\* crash() in a wrapper: a write or a read fails
Crash ==
  /\ failures < MaxFailures
  /\ failures' = failures + 1
  /\ \/ WriteFails
     \/ /\ "io_error" \in Faults
        /\ call.pc = "idle" /\ engine \in {"LINUX", "LINUX_DIRECT", "STD"}
        /\ ExitProcess
  /\ UNCHANGED <<opened, page, dest, status, acked, unstored>>

\* main() returns and ~BufferManager closes the wrappers, or a read ends in
\* crash() because the ASM engine has no loads for this page size
Close ==
  /\ call.pc = "idle"
  /\ ExitProcess
  /\ UNCHANGED bmVars

LosePower ==
  /\ failures < MaxFailures
  /\ failures' = failures + 1
  /\ PowerFailure
  /\ UNCHANGED <<opened, page, dest, status, acked, unstored>>

\* a new process over the same directories
Restart ==
  /\ ~Alive
  /\ engine' \in Engines
  /\ call' = Stopped("opening")
  /\ opened' = 0
  /\ page' = 0
  /\ dest' = FreshDest
  /\ status' = "none"
  /\ UNCHANGED <<size, cache, media, stdio, acked, unstored, failures>>

KernelWriteBack ==
  /\ \E b \in Buffers, i \in Units : WriteBack(b, i)
  /\ UNCHANGED bmVars

Next ==
  \/ OpenBuffer
  \/ \E p \in RequestedIds : Pagein(p)
  \/ \E p \in RequestedIds, d \in Data : Pageout(p, d)
  \/ \E p \in RequestedIds : Rejected(p)
  \/ WriteStep
  \/ PageoutReturn
  \/ Crash
  \/ Close
  \/ LosePower
  \/ Restart
  \/ KernelWriteBack

Spec == Init /\ [][Next]_vars

-----------------------------------------------------------------------------
(* Properties.                                                              *)

\* Every variable has its type; the page being written is one of the page ids,
\* as the refusal of lookup() promises.
TypeOK ==
  /\ engine \in Engines
  /\ size \in [Buffers -> Int]
  /\ cache \in [Buffers -> [Units -> Data]]
  /\ media \in [Buffers -> [Units -> Data]]
  /\ stdio \in [Buffers -> [Units -> Data \cup {NoData}]]
  /\ call \in [pc : {"opening", "idle", "transfer", "sync", "done", "exited", "down"},
                buf : Buffers, pos : Nat, data : Data \cup {NoData}]
  /\ opened \in 0 .. NumBuffers
  /\ page \in PageIds \cup {0}
  /\ dest \in [0 .. PageSize - 1 -> Data \cup {NoData}]
  /\ status \in BMStatus \cup {"none"}
  /\ acked \in [PageIds -> Data \cup {Unknown}]
  /\ unstored \subseteq PageIds
  /\ failures \in 0 .. MaxFailures

Serving == call.pc \in {"idle", "transfer", "sync", "done"}

\* Once the constructor has let the process through, every page that lookup()
\* accepts lies inside its buffer file: no engine seeks, maps or copies past
\* the end, whatever sizes the files had and whichever of them were missing.
PagesInsideFiles ==
  Serving => \A p \in PageIds :
               PageUnits(PositionOf(p)) \subseteq 0 .. size[BufferOf(p)] - 1

\* A page whose last write was answered is on the medium as it was written,
\* through later writes to other pages, crashes, power failures, restarts and
\* changes of engine (the write + fdatasync, memcpy + msync and pmem2_memcpy
\* sequences of the engines, and the striping of lookup()).  This is said of
\* LINUX, LINUX_DIRECT, MMAP and LIBPMEM2; it is false of STD, which does not
\* flush its stdio buffer, and of ASM, which answers writes and does not do them.
AckedDurable ==
  \A p \in PageIds :
    acked[p] # Unknown =>
      \A i \in PageUnits(PositionOf(p)) : media[BufferOf(p)][i] = acked[p]

\* pagein() delivers what the last answered pageout() of that page wrote, also
\* across restarts, engine changes and data still held by stdio.  Left out are
\* the two halves of the ASM engine, which only measures loads: a pagein() by it
\* delivers nothing, and a pageout() answered by it is lost.
ReadLatest ==
  [][\A p \in PageIds :
       /\ Pagein(p) /\ engine # "ASM"
       /\ acked[p] # Unknown /\ p \notin unstored
       => dest' = [i \in 0 .. PageSize - 1 |-> acked[p]]]_vars

\* Writes of the STD engine may still be in the stdio buffer or the kernel, but
\* never more than that: what the kernel sees with every stdio buffer flushed
\* into it is the last answered write of each page, unless the ASM engine was the
\* one that answered it.
AckedVisible ==
  \A p \in PageIds \ unstored :
    acked[p] # Unknown =>
      \A i \in PageUnits(PositionOf(p)) :
        Flushed(cache[BufferOf(p)], stdio[BufferOf(p)])[i] = acked[p]

-----------------------------------------------------------------------------
(* The buffer manager implements the page store.                            *)

\* the one content all places of f hold, if there is one
Uniform(f) ==
  IF \E d \in Data : \A i \in DOMAIN f : f[i] = d
  THEN CHOOSE d \in Data : \A i \in DOMAIN f : f[i] = d
  ELSE NoData

PageOnMedia(p) ==
  [i \in PageUnits(PositionOf(p)) |-> media[BufferOf(p)][i]]

Store == INSTANCE PageStore WITH
  Pages     <- PageIds,
  Torn      <- NoData,
  store     <- [p \in PageIds |-> Uniform(PageOnMedia(p))],
  unsettled <- {p \in PageIds : acked[p] = Unknown},
  writing   <- IF call.pc \in {"transfer", "sync", "done"}
               THEN {<<page, call.data>>} ELSE {},
  result    <- Uniform(dest)

\* Striped over several files, cached, crashed and restarted, the buffer
\* manager with a flushing engine behaves like one durable array of pages.
ImplementsPageStore == Store!Spec

=============================================================================
