----------------------------- MODULE IOWrapper -----------------------------
(***************************************************************************)
(* The IOWrapper class hierarchy (microbenchmarks/include/iowrapper.hpp    *)
(* and src/lib/iowrapper/): six engines that read and write one buffer     *)
(* file each, together with what lies below them: the stdio buffer of the  *)
(* STD engine, the contents the kernel (or the CPU caches, for a pmem      *)
(* mapping) shows to every reader, and the persistent medium.              *)
(*                                                                         *)
(* A file is a function from units (a fixed number of bytes) to data.  A   *)
(* write call has two steps, the transfer and the flush, because a crash   *)
(* can fall between them.  The process is single-threaded: at most one     *)
(* call is in progress, and the variable call describes it.                *)
(***************************************************************************)
EXTENDS Integers, ASMLoads

CONSTANTS
  NumBuffers,   \* number of buffer files: one per directory of the command line
  MaxFileSize,  \* bound on the size of a buffer file, in units
  UnitBytes,    \* bytes in a unit
  PageSize,     \* page_size, the length of every read and write, in units
  MemPageSize,  \* getpagesize(), in units
  Engines,      \* the engines a process may be started with
  Faults,       \* the failures of the environment that the model allows
  Data,         \* contents of a page
  NoData        \* not a content: an empty place of a buffer

EngineNames == {"LINUX", "LINUX_DIRECT", "MMAP", "STD", "LIBPMEM2", "ASM"}
FaultNames  == {"short_write", "io_error"}

ASSUME SizesAssumption ==
  /\ NumBuffers  \in Nat \ {0}
  /\ MaxFileSize \in Nat
  /\ UnitBytes   \in Nat \ {0}
  /\ PageSize    \in Nat \ {0}
  /\ MemPageSize \in Nat \ {0}

ASSUME EnginesAssumption ==
  /\ Engines \subseteq EngineNames
  /\ Engines # {}
  /\ Faults \subseteq FaultNames

ASSUME DataAssumption == NoData \notin Data /\ Data # {}

Buffers == 0 .. NumBuffers - 1
Units   == 0 .. MaxFileSize - 1
Missing == -1       \* the size of a file that does not exist

VARIABLES
  engine,  \* the io wrapper class the process instantiates for every directory
  size,    \* size[b]: size of the buffer file in directory b, or Missing
  cache,   \* cache[b]: what read(2), a mapping or a load instruction sees
  media,   \* media[b]: what survives a power failure
  stdio,   \* stdio[b]: data fwrite() has accepted and not yet passed to the kernel
  call     \* the call in progress: [pc, buf, pos, data]

ioVars == <<engine, size, cache, media, stdio, call>>

Idle == [pc |-> "idle", buf |-> 0, pos |-> 0, data |-> NoData]
Stopped(how) == [Idle EXCEPT !.pc = how]
Alive == call.pc \notin {"exited", "down"}

EmptyStdio == [i \in Units |-> NoData]

\* file with its units in area replaced by d
Overlay(file, area, d) == [i \in Units |-> IF i \in area THEN d ELSE file[i]]

\* file with the pending data of a stdio buffer written over it
Flushed(file, pending) ==
  [i \in Units |-> IF pending[i] # NoData THEN pending[i] ELSE file[i]]

\* the units of a page that starts at position pos
PageUnits(pos) == pos .. pos + PageSize - 1

-----------------------------------------------------------------------------
(* Construction.  An outcome is the file size get_filesize() then reports   *)
(* and whether the constructor returns; one that does not return crashes.   *)

\* O_RDWR | O_CREAT: a missing file is created empty
CreatedSize(b) == IF size[b] = Missing THEN 0 ELSE size[b]

OpenError(b) ==
  IF "io_error" \in Faults THEN {[ok |-> FALSE, size |-> size[b]]} ELSE {}

\* open() and the advice calls, whose failure only logs a warning
LinuxOpen(b) == {[ok |-> TRUE, size |-> CreatedSize(b)]}

\* the same with O_DIRECT
DirectLinuxOpen(b) == LinuxOpen(b)

\* fopen(..., "r+") does not create the file
StdOpen(b) == {[ok |-> size[b] # Missing, size |-> size[b]]}

\* open() may create the file, but mapping an empty file fails
MmapOpen(b) == {[ok |-> CreatedSize(b) > 0, size |-> CreatedSize(b)]}

\* the same with pmem2_map_new()
LibPMOpen(b) == {[ok |-> CreatedSize(b) > 0, size |-> CreatedSize(b)]}

\* the same with fewer advice calls
ASMOpen(b) == MmapOpen(b)

OpenOutcomes(b) ==
  OpenError(b) \cup
  CASE engine = "LINUX"        -> LinuxOpen(b)
    [] engine = "LINUX_DIRECT" -> DirectLinuxOpen(b)
    [] engine = "STD"          -> StdOpen(b)
    [] engine = "MMAP"         -> MmapOpen(b)
    [] engine = "LIBPMEM2"     -> LibPMOpen(b)
    [] engine = "ASM"          -> ASMOpen(b)

-----------------------------------------------------------------------------
(* IOWrapper::write, first step: the data leaves the caller's memory.       *)

StartWrite(b, pos, d) ==
  /\ call.pc = "idle"
  /\ call' = [pc |-> "transfer", buf |-> b, pos |-> pos, data |-> d]

\* the first n units of the page reach the kernel
TransferTo(file, n) == Overlay(file, call.pos .. call.pos + n - 1, call.data)

\* the units of the page that the first n leave out
RestUnits(n) == call.pos + n .. call.pos + PageSize - 1

\* write(2) is only compared with -1, so a short count passes for success
AcceptedCounts ==
  IF "short_write" \in Faults THEN 1 .. PageSize ELSE {PageSize}

LinuxTransfer ==
  /\ call.pc = "transfer"
  /\ engine \in {"LINUX", "LINUX_DIRECT"}
  /\ \E n \in AcceptedCounts :
       cache' = [cache EXCEPT ![call.buf] = TransferTo(@, n)]
  /\ call' = [call EXCEPT !.pc = "sync"]
  /\ UNCHANGED <<engine, size, media, stdio>>

\* fseek() passes pending data to the kernel; fwrite() then passes some of the
\* new data on and keeps the rest, as it likes, in the stdio buffer
StdTransfer ==
  /\ call.pc = "transfer"
  /\ engine = "STD"
  /\ \E n \in 0 .. PageSize :
       /\ cache' = [cache EXCEPT
                      ![call.buf] = TransferTo(Flushed(@, stdio[call.buf]), n)]
       /\ stdio' = [stdio EXCEPT
                      ![call.buf] = Overlay(EmptyStdio, RestUnits(n), call.data)]
  /\ call' = [call EXCEPT !.pc = "sync"]
  /\ UNCHANGED <<engine, size, media>>

\* mutant: the write returns before msync()
MmapTransferUnflushed ==
  /\ call.pc = "transfer"
  /\ engine = "MMAP"
  /\ cache' = [cache EXCEPT ![call.buf] = TransferTo(@, PageSize)]
  /\ call' = [call EXCEPT !.pc = "done"]
  /\ UNCHANGED <<engine, size, media, stdio>>

\* memcpy() into the shared mapping
MmapTransfer ==
  /\ call.pc = "transfer"
  /\ engine = "MMAP"
  /\ cache' = [cache EXCEPT ![call.buf] = TransferTo(@, PageSize)]
  /\ call' = [call EXCEPT !.pc = "sync"]
  /\ UNCHANGED <<engine, size, media, stdio>>

\* the copying half of pmem2_memcpy(..., flags 0)
LibPMTransfer ==
  /\ call.pc = "transfer"
  /\ engine = "LIBPMEM2"
  /\ cache' = [cache EXCEPT ![call.buf] = TransferTo(@, PageSize)]
  /\ call' = [call EXCEPT !.pc = "sync"]
  /\ UNCHANGED <<engine, size, media, stdio>>

\* logs a warning and returns 0
ASMTransfer ==
  /\ call.pc = "transfer"
  /\ engine = "ASM"
  /\ call' = [call EXCEPT !.pc = "done"]
  /\ UNCHANGED <<engine, size, cache, media, stdio>>

Transfer ==
  LinuxTransfer \/ StdTransfer \/ MmapTransfer \/ LibPMTransfer \/ ASMTransfer

-----------------------------------------------------------------------------
(* IOWrapper::write, second step: the flush the engine performs.            *)

\* media[b] with the units in area brought up to date
Persisted(b, area) ==
  [media EXCEPT ![b] = [i \in Units |-> IF i \in area THEN cache[b][i]
                                                      ELSE media[b][i]]]

\* fdatasync() writes back everything the kernel holds of the file
Fdatasync ==
  /\ call.pc = "sync"
  /\ engine \in {"LINUX", "LINUX_DIRECT", "STD"}
  /\ media' = Persisted(call.buf, Units)
  /\ call' = [call EXCEPT !.pc = "done"]
  /\ UNCHANGED <<engine, size, cache, stdio>>

\* the range MmapIOWrapper::write passes to msync(): the start rounded down to
\* a memory page, the length increased by what the rounding added
SyncAddr(pos) == pos - (pos % MemPageSize)

\* mutant: the length is not increased
SyncLenOfPage(pos) == PageSize

SyncLen(pos) == PageSize + (pos - SyncAddr(pos))

\* msync() writes back every memory page that the range touches
SyncedUnits(pos) ==
  {i \in Units : /\ SyncAddr(pos) <= i
                 /\ i - (i % MemPageSize) < SyncAddr(pos) + SyncLen(pos)}

Msync ==
  /\ call.pc = "sync"
  /\ engine = "MMAP"
  /\ media' = Persisted(call.buf, SyncedUnits(call.pos))
  /\ call' = [call EXCEPT !.pc = "done"]
  /\ UNCHANGED <<engine, size, cache, stdio>>

\* the flushing half of pmem2_memcpy(..., flags 0)
LibPMPersist ==
  /\ call.pc = "sync"
  /\ engine = "LIBPMEM2"
  /\ media' = Persisted(call.buf, PageUnits(call.pos))
  /\ call' = [call EXCEPT !.pc = "done"]
  /\ UNCHANGED <<engine, size, cache, stdio>>

Flush == Fdatasync \/ Msync \/ LibPMPersist

-----------------------------------------------------------------------------
(* IOWrapper::read, in one step: nothing else of the process can run.       *)

\* the lengths for which the ASM engine has a sequence of loads
ReadSupported == engine = "ASM" => ASMReads(PageSize * UnitBytes)

\* mutant: data pending in the stdio buffer is not read
ReadResultUnflushed(b, pos, dest) ==
  IF engine = "ASM" THEN dest
  ELSE [i \in 0 .. PageSize - 1 |->
          IF pos + i \in Units THEN cache[b][pos + i] ELSE NoData]

\* what a read of the page at pos leaves in the destination buffer; the ASM
\* engine loads the page into registers and never touches its destination
ReadResult(b, pos, dest) ==
  IF engine = "ASM" THEN dest
  ELSE LET seen == Flushed(cache[b], stdio[b])
       IN  [i \in 0 .. PageSize - 1 |->
              IF pos + i \in Units THEN seen[pos + i] ELSE NoData]

\* mutant: the seek drops pending data
ReadEffectDropping(b) ==
  /\ stdio' = [stdio EXCEPT ![b] = EmptyStdio]
  /\ UNCHANGED cache

\* the fseek() of STDIOWrapper::read passes pending data to the kernel
ReadEffect(b) ==
  /\ cache' = [cache EXCEPT ![b] = Flushed(@, stdio[b])]
  /\ stdio' = [stdio EXCEPT ![b] = EmptyStdio]

-----------------------------------------------------------------------------
(* The end of the process, and the environment.                             *)

\* crash() and the return from main() both end in exit(), which hands the
\* contents of every open FILE to the kernel; if that fails, nobody is told
ExitProcess ==
  /\ \/ cache' = [b \in Buffers |-> Flushed(cache[b], stdio[b])]
     \/ "io_error" \in Faults /\ UNCHANGED cache
  /\ stdio' = [b \in Buffers |-> EmptyStdio]
  /\ call' = Stopped("exited")
  /\ UNCHANGED <<engine, size, media>>

\* a failed lseek, write, fwrite, msync or fdatasync is answered with crash()
WriteFails ==
  /\ "io_error" \in Faults
  /\ \/ call.pc = "transfer" /\ engine \in {"LINUX", "LINUX_DIRECT", "STD"}
     \/ call.pc = "sync" /\ engine \in {"LINUX", "LINUX_DIRECT", "STD", "MMAP"}
  /\ ExitProcess

\* the kernel may write a unit back whenever it likes, and a cache line may be
\* evicted from the CPU at any time
WriteBack(b, i) ==
  /\ call.pc # "down"
  /\ cache[b][i] # media[b][i]
  /\ media' = [media EXCEPT ![b][i] = cache[b][i]]
  /\ UNCHANGED <<engine, size, cache, stdio, call>>

\* only what is on the medium is left
PowerFailure ==
  /\ call.pc # "down"
  /\ cache' = media
  /\ stdio' = [b \in Buffers |-> EmptyStdio]
  /\ call' = Stopped("down")
  /\ UNCHANGED <<engine, size, media>>

=============================================================================
