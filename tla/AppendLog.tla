----------------------------- MODULE AppendLog -----------------------------
(***************************************************************************)
(* SimpleLoggingWorkload (src/lib/workloads/logging2.cpp) over the         *)
(* AppendableFile classes of src/lib/append/: five ways to construct a log *)
(* file over whatever an earlier run has left in the directory, the        *)
(* optional allocate(), and append() with its flush.  Positions and sizes  *)
(* are in cells; the j-th cell of the k-th entry is <<k, j>>.              *)
(*                                                                         *)
(* The config that the workload passes has an uninitialized use_fadvise;   *)
(* the advice call it guards changes no state and only warns on failure.   *)
(***************************************************************************)
EXTENDS Integers, Sequences

CONSTANTS
  Engines,        \* the classes a process may be started with
  Fallocate,      \* values of log_use_fallocate
  EntrySizes,     \* values of log_entry_size
  PoolSizes,      \* values of page_pool_size
  TotalWorkload,  \* total_workload
  PoolExtra,      \* what is added to total_workload for logpool_size (200 MiB)
  PoolHeader,     \* what libpmemlog needs of a pool for itself
  OldSizes,       \* sizes of a log file that an earlier run has left
  Faults          \* the failures of the environment that the model allows

EngineNames == {"LINUX", "LINUX_PREALLOC", "LINUX_PREFAULT", "LIBPMEM", "LIBPMEM_PF"}
FaultNames  == {"short_write", "io_error", "remove_fails", "power"}

ASSUME AppendAssumption ==
  /\ Engines \subseteq EngineNames
  /\ Fallocate \subseteq BOOLEAN
  \* main() checks neither for this workload
  /\ EntrySizes \subseteq Nat /\ PoolSizes \subseteq Nat
  /\ TotalWorkload \in Nat
  /\ PoolExtra \in Nat /\ PoolHeader \in 0 .. PoolExtra
  /\ OldSizes \subseteq Nat
  /\ Faults \subseteq FaultNames

Zero == <<0, 0>>   \* allocated and never written
Old  == <<0, 1>>   \* written by an earlier run

\* the k-th entry, of n cells: what append() is given in the k-th round
Cells(n, k) == [j \in 1 .. n |-> <<k, j>>]
Filled(n, cell) == [i \in 1 .. n |-> cell]

VARIABLES
  engine,     \* the AppendableFile class
  fallocate,  \* log_use_fallocate
  log_entry_size, \* the member of that name
  page_pool_size, \* the member of that name: entries to draw from
  kind,       \* the file: "missing", "plain", or "pool" of libpmemlog
  cache,      \* its cells as the kernel shows them
  media,      \* its cells on the medium
  offset,     \* file offset of the descriptor, or write offset of the pool
  capacity,   \* cells a pool has room for
  start,      \* history: the offset at which the log starts
  pc,         \* "remove", "create", "allocate", "ready", "sync", "commit";
              \* "finished", "crashed", "down" at the end
  processed   \* processed_data

config == <<engine, fallocate, log_entry_size, page_pool_size>>

vars == <<config, kind, cache, media, offset, capacity, start, pc, processed>>

Pools == {"LIBPMEM", "LIBPMEM_PF"}

\* mutant: no room for the metadata
LogpoolSizeExact == TotalWorkload

LogpoolSize == TotalWorkload + PoolExtra

Init ==
  /\ engine \in Engines
  /\ fallocate \in Fallocate
  /\ log_entry_size \in EntrySizes
  /\ page_pool_size \in PoolSizes
  /\ \E n \in OldSizes :
       /\ kind \in {"missing", "plain", "pool"}
       /\ cache = IF kind = "missing" THEN <<>> ELSE Filled(n, Old)
       /\ capacity = IF kind = "pool" THEN n ELSE 0
  /\ media = cache
  /\ offset = 0
  /\ start = 0
  /\ pc = "remove"
  /\ processed = 0

Failing(fault) == fault \in Faults

Crash ==
  /\ pc' = "crashed"
  /\ UNCHANGED <<config, kind, cache, media, offset, capacity, start, processed>>

-----------------------------------------------------------------------------
(* The constructors.                                                        *)

DeletesOldFile == engine \in {"LINUX", "LINUX_PREALLOC", "LIBPMEM"}

\* a pre-existing file is deleted, and nobody looks at the result of remove()
Remove ==
  /\ pc = "remove"
  /\ IF DeletesOldFile
     THEN \/ /\ kind' = "missing" /\ cache' = <<>> /\ media' = <<>>
          \/ /\ Failing("remove_fails")
             /\ UNCHANGED <<kind, cache, media>>
     ELSE UNCHANGED <<kind, cache, media>>
  /\ pc' = "create"
  /\ UNCHANGED <<config, offset, capacity, start, processed>>

\* open(O_CREAT) without O_TRUNC: a file that is there keeps its contents; what
\* the engine does not delete, it will overwrite from the start
CreateFile ==
  /\ pc = "create" /\ engine \notin Pools
  /\ kind' = "plain"
  /\ offset' = 0
  /\ pc' = "allocate"
  /\ UNCHANGED <<config, cache, media, capacity, start, processed>>

\* pmemlog_create() refuses a file that is there
CreatePool ==
  /\ pc = "create" /\ engine = "LIBPMEM" /\ kind = "missing"
  /\ kind' = "pool"
  /\ capacity' = LogpoolSize - PoolHeader
  /\ cache' = Filled(capacity', Zero)
  /\ media' = cache'
  /\ offset' = 0
  /\ pc' = "ready"
  /\ UNCHANGED <<config, start, processed>>

\* pmemlog_open() of a pool, and pmemlog_rewind()
OpenPool ==
  /\ pc = "create" /\ engine = "LIBPMEM_PF" /\ kind = "pool"
  /\ offset' = 0
  /\ pc' = "ready"
  /\ UNCHANGED <<config, kind, cache, media, capacity, start, processed>>

CreateFails ==
  /\ pc = "create"
  /\ \/ engine = "LIBPMEM" /\ kind # "missing"
     \/ engine = "LIBPMEM_PF" /\ kind # "pool"
     \/ Failing("io_error")
  /\ Crash

\* posix_fallocate() extends the file to n cells if it is shorter
Extended(file, n) == file \o Filled(n - Len(file), Zero)

\* the constructor of the PREALLOC class allocates the pool size; allocate()
\* of the LINUX and PREALLOC classes allocates the workload, if asked to
AllocatedLength ==
  CASE engine = "LINUX_PREALLOC"        -> LogpoolSize
    [] engine = "LINUX" /\ fallocate    -> TotalWorkload
    [] OTHER                            -> 0

Allocate ==
  /\ pc = "allocate"
  /\ cache' = Extended(cache, AllocatedLength)
  /\ media' = Extended(media, AllocatedLength)
  /\ start' = IF engine = "LINUX" THEN Len(cache') ELSE 0
  /\ pc' = "ready"
  /\ UNCHANGED <<config, kind, offset, capacity, processed>>

AllocateFails ==
  /\ pc = "allocate" /\ AllocatedLength > 0
  /\ Failing("io_error")
  /\ Crash

-----------------------------------------------------------------------------
(* append() and the loop of run().                                          *)

\* file with data written at position pos; pos is at most its length
Written(file, pos, data) ==
  [i \in 1 .. (IF pos + Len(data) > Len(file) THEN pos + Len(data) ELSE Len(file)) |->
     IF i \in pos + 1 .. pos + Len(data) THEN data[i - pos] ELSE file[i]]

\* n cells of the log in entries; a log of empty entries stays empty
InEntries(n) == IF log_entry_size = 0 THEN 0 ELSE n \div log_entry_size

Logged  == InEntries(processed)
Current == Logged + 1   \* the entry being appended

\* mutant: the loop starts an entry that does not fit the workload
MoreUpToTheEnd == processed <= TotalWorkload

\* mutant: an entry that ends where the workload ends is left out
MoreBeforeTheEnd == processed + log_entry_size < TotalWorkload

MoreToLog == processed + log_entry_size <= TotalWorkload

\* mutant: every engine opens with O_APPEND
WritePositionAtEnd == Len(cache)

\* O_APPEND moves the offset to the end of the file before every write
WritePosition == IF engine = "LINUX" THEN Len(cache) ELSE offset

\* An entry is drawn from the pool and a byte of it altered.  Where there is none to
\* draw from, or none to alter, the index leaves the pool or the entry: the process
\* dies of it, or goes on with what it finds there.
DrawFails ==
  /\ pc = "ready" /\ MoreToLog
  /\ page_pool_size = 0 \/ log_entry_size = 0
  /\ Crash

\* write(2) is only compared with -1, so a short count passes for success
WriteEntry ==
  /\ pc = "ready" /\ MoreToLog /\ engine \notin Pools
  /\ \E n \in 0 .. log_entry_size :
       /\ n < log_entry_size => n > 0 /\ Failing("short_write")
       /\ cache' = Written(cache, WritePosition,
                           SubSeq(Cells(log_entry_size, Current), 1, n))
       /\ offset' = WritePosition + n
  /\ pc' = "sync"
  /\ UNCHANGED <<config, kind, media, capacity, start, processed>>

\* mutant: append() returns without fdatasync()
SyncEntryDropped ==
  /\ pc = "sync"
  /\ processed' = processed + log_entry_size
  /\ pc' = "ready"
  /\ UNCHANGED <<config, kind, cache, media, offset, capacity, start>>

\* fdatasync() brings the data and the file size to the medium
SyncEntry ==
  /\ pc = "sync"
  /\ media' = cache
  /\ processed' = processed + log_entry_size
  /\ pc' = "ready"
  /\ UNCHANGED <<config, kind, cache, offset, capacity, start>>

\* pmemlog_append() first copies the data behind the write offset ...
PoolCopy ==
  /\ pc = "ready" /\ MoreToLog /\ engine \in Pools
  /\ offset + log_entry_size <= capacity
  /\ cache' = Written(cache, offset, Cells(log_entry_size, Current))
  /\ pc' = "commit"
  /\ UNCHANGED <<config, kind, media, offset, capacity, start, processed>>

\* ... and moves the write offset when the data is on the medium
PoolCommit ==
  /\ pc = "commit"
  /\ media' = cache
  /\ offset' = offset + log_entry_size
  /\ processed' = processed + log_entry_size
  /\ pc' = "ready"
  /\ UNCHANGED <<config, kind, cache, capacity, start>>

\* the pool is full, or a call fails: crash()
AppendFails ==
  /\ \/ /\ pc = "ready" /\ MoreToLog /\ engine \in Pools
        /\ offset + log_entry_size > capacity
     \/ /\ Failing("io_error")
        /\ pc = "sync" \/ (pc = "ready" /\ MoreToLog)
  /\ Crash

Finish ==
  /\ pc = "ready" /\ ~MoreToLog
  /\ pc' = "finished"
  /\ UNCHANGED <<config, kind, cache, media, offset, capacity, start, processed>>

-----------------------------------------------------------------------------
(* The environment.                                                         *)

Running == pc \notin {"finished", "crashed", "down"}

\* a cell reaches the medium before its flush; the medium is extended by a hole
WriteBack ==
  /\ pc \in {"sync", "commit"}
  /\ \E i \in 1 .. Len(cache) :
       /\ i \in DOMAIN media => media[i] # cache[i]
       /\ media' = Written(Extended(media, i - 1), i - 1, <<cache[i]>>)
  /\ UNCHANGED <<config, kind, cache, offset, capacity, start, pc, processed>>

PowerFailure ==
  /\ Failing("power")
  /\ Running
  /\ pc' = "down"
  /\ cache' = media
  /\ UNCHANGED <<config, kind, media, offset, capacity, start, processed>>

Step ==
  \/ Remove \/ CreateFile \/ CreatePool \/ OpenPool \/ CreateFails
  \/ Allocate \/ AllocateFails
  \/ DrawFails \/ WriteEntry \/ SyncEntry \/ PoolCopy \/ PoolCommit
  \/ AppendFails \/ Finish

Next == Step \/ WriteBack \/ PowerFailure

\* the process is scheduled and its calls return
Spec == Init /\ [][Next]_vars /\ WF_vars(Step)

-----------------------------------------------------------------------------
(* Properties.                                                              *)

\* Every variable has its type.
TypeOK ==
  /\ engine \in Engines /\ fallocate \in Fallocate
  /\ log_entry_size \in EntrySizes /\ page_pool_size \in PoolSizes
  /\ kind \in {"missing", "plain", "pool"}
  /\ cache \in Seq(Nat \X Nat) /\ media \in Seq(Nat \X Nat)
  /\ offset \in Nat /\ capacity \in Nat /\ start \in Nat
  /\ pc \in {"remove", "create", "allocate", "ready", "sync", "commit",
             "finished", "crashed", "down"}
  /\ processed \in 0 .. TotalWorkload

EntryCount == InEntries(TotalWorkload)

\* the k-th entry of the log on the medium
EntryAt(k) ==
  [j \in 1 .. log_entry_size |->
     LET i == start + ((k - 1) * log_entry_size) + j
     IN  IF i \in DOMAIN media THEN media[i] ELSE Zero]

\* The appended entries stand on the medium one after the other: from the
\* beginning of the file on, over anything an earlier run has left there, and
\* with O_APPEND from the end that the file had when it was opened.  They stay
\* there when the power fails in a later append.
EntriesOnMedia == \A k \in 1 .. Logged : EntryAt(k) = Cells(log_entry_size, k)

\* The pool that LibpmemAppendableFile creates has room for every entry of the
\* workload ("200 MiB more for metadata in case of libpmemlog").
PoolSuffices ==
  engine = "LIBPMEM" /\ pc = "ready" /\ MoreToLog =>
    offset + log_entry_size <= capacity

Stopped == pc \in {"crashed", "down"} \/ (pc = "finished" /\ Logged = EntryCount)

\* The process ends: it crashes, or the power fails, or it finishes, and then
\* with every entry of the workload logged.  With entries of size 0, which main()
\* lets through, it never gets to its end: the loop counts nothing.
Completes ==
  /\ log_entry_size > 0 => <>Stopped
  /\ log_entry_size = 0 => [](pc # "finished")

\* The entries a durable log may get.
AnyEntry == {Cells(n, k) : n \in EntrySizes \ {0}, k \in 1 .. TotalWorkload}

\* The file is a durable append-only log.
Log == INSTANCE DurableLog WITH
  Entry   <- AnyEntry,
  NoEntry <- <<>>,
  log     <- [k \in 1 .. Logged |-> EntryAt(k)],
  request <- IF pc \in {"sync", "commit"} THEN Cells(log_entry_size, Current) ELSE <<>>

ImplementsDurableLog == Log!Spec

=============================================================================
