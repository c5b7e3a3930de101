--------------------------- MODULE PageWorkloads ---------------------------
(***************************************************************************)
(* BufferManagementWorkload and TableScanWorkload (src/lib/workloads/      *)
(* buffermanagement.cpp, tablescan.cpp), the AlignedMemoryBlock of         *)
(* util.cpp that they read into, and what the io engine below moves for    *)
(* them.  Of the buffer manager only the interface matters here: an id     *)
(* past the last page is refused, any other is served.  Sizes are in units *)
(* of UnitBytes.  Integers keep their width: ids wrap at IdRange, the size  *)
(* passed to malloc() is converted to an int, which has IntRange values.   *)
(***************************************************************************)
EXTENDS Integers, FiniteSets, ASMLoads

CONSTANTS
  Workloads,         \* "bufman", "tablescan"
  UnitBytes,         \* bytes in a unit
  PageSizes,         \* values of bm.get_page_size(), in units
  PageCounts,        \* values of bm.get_total_num_of_pages()
  TargetCounts,      \* values of target_pages, at least 1
  WriteProportions,  \* values of write_proportion, in percent
  RandomPages,       \* values of random_pages
  TotalWorkload,     \* total_workload, in units
  Alignment,         \* bm.get_mem_alignment(), a power of two, in units
  IdRange,           \* 2^64, the number of page ids
  IntRange           \* 2^32, the number of values of an int

ASSUME WorkloadAssumption ==
  /\ Workloads \subseteq {"bufman", "tablescan"}
  /\ UnitBytes \in Nat \ {0}
  /\ PageSizes \subseteq Nat \ {0}
  /\ PageCounts \subseteq Nat
  /\ TargetCounts \subseteq Nat \ {0}
  /\ WriteProportions \subseteq 0 .. 100
  /\ RandomPages \subseteq 0 .. (IntRange \div 2) - 1
  /\ TotalWorkload \in Nat
  /\ Alignment \in Nat \ {0}
  /\ IdRange \in Nat \ {0} /\ IntRange \in Nat \ {0}

VARIABLES
  workload,     \* the Workload class
  engine,       \* "copying", or the ASM engine, which only loads
  pageSize,     \* length of every read and write
  totalPages,   \* pages of the buffer manager
  targetPages,  \* target_pages
  writeProportion,
  randomPages,  \* length of random_page_pool
  pc,           \* "alloc", "run", "finished", "aborted", "crashed", "undefined"
  block,        \* length that malloc() returned for buf
  shift,        \* distance of the aligned address from the start of the block
  processed,    \* processed_data
  slot,         \* read_target_page
  pageId,       \* current_page_id of the scan
  target,       \* the part of the block that the last read was given
  reads,        \* history of a scan: reads served, per page
  moved         \* history: what the engine has transferred

params == <<workload, engine, pageSize, totalPages, targetPages,
            writeProportion, randomPages>>

vars == <<params, pc, block, shift, processed, slot, pageId, target, reads, moved>>

\* a table scan reads into a single page
BufLength == (IF workload = "bufman" THEN targetPages ELSE 1) * pageSize

Init ==
  /\ workload \in Workloads
  /\ engine \in {"copying", "ASM"}
  /\ pageSize \in PageSizes
  /\ totalPages \in PageCounts
  /\ targetPages \in TargetCounts
  /\ writeProportion \in WriteProportions
  /\ randomPages \in RandomPages
  /\ pc = "alloc"
  /\ block = 0
  /\ shift = 0
  /\ processed = 0
  /\ slot = 0
  /\ pageId = 0
  /\ target = {}
  /\ reads = [p \in 0 .. totalPages - 1 |-> 0]
  /\ moved = 0

\* static_cast<int>
ToInt(n) ==
  LET m == n % IntRange
  IN  IF m < IntRange \div 2 THEN m ELSE m - IntRange

\* mutant: no room to move the address up to the alignment
BlockSizeUnaligned(len) == len

\* the size of the block of AlignedMemoryBlock(alignment, len)
BlockSize(len) == len + Alignment - 1

\* the lengths of the blocks a workload allocates: its pool of random pages and
\* the target of its reads
BlockLengths ==
  {BufLength} \cup
  {len \in {pageSize} : workload = "bufman" /\ randomPages > 0}

\* a negative int becomes a size_t that no malloc() can serve, and malloc() may
\* align its result as it likes
AllocateBuf ==
  /\ pc = "alloc"
  /\ IF \E len \in BlockLengths : ToInt(BlockSize(len)) < 0
     THEN pc' = "crashed" /\ UNCHANGED <<block, shift>>
     ELSE /\ pc' = "run"
          /\ block' = ToInt(BlockSize(BufLength))
          /\ shift' \in 0 .. Alignment - 1
  /\ UNCHANGED <<params, processed, slot, pageId, target, reads, moved>>

\* mutant
TotalAsMaxPageId == totalPages % IdRange

\* bm.get_total_num_of_pages() - 1, in unsigned arithmetic
MaxPageId == (totalPages - 1) % IdRange

\* mutant
ValidUpToTotal(p) == p <= totalPages

\* BufferManager::lookup
Valid(p) == p < totalPages

\* mutant: the bound of the distribution is the length of the pool
PoolIdsUpToLength == {ToInt(i) : i \in 0 .. randomPages % IdRange}

\* next_random_pagepool_id(): the bound is computed in unsigned arithmetic, the
\* result is converted to an int
PoolIds == {ToInt(i) : i \in 0 .. (randomPages - 1) % IdRange}

\* do_write(): a value of [0, 1) is compared with the proportion
MayWrite == writeProportion > 0
MayRead  == writeProportion < 100

\* the part of the block behind the aligned address plus offset
ReadInto(offset) == shift + offset .. shift + offset + pageSize - 1

\* mutant: the slot does not go back to the first one
NextSlotUnwrapped == slot + 1

NextSlot == (slot + 1) % targetPages

\* mutant: the scan goes back before the last page
NextScanIdEarly == IF pageId + 1 = MaxPageId THEN 0 ELSE pageId + 1

NextScanId == (pageId + 1) % totalPages

\* whether IOWrapper::read of a page returns
ReadReturns == engine = "ASM" => ASMReads(pageSize * UnitBytes)

\* what a read moves, in units
ReadMoves ==
  IF engine = "ASM"
  THEN (Cardinality(LoadedLines(pageSize * UnitBytes)) * LineBytes) \div UnitBytes
  ELSE pageSize

\* what a write moves: ASMIOWrapper::write() only logs a warning
WriteMoves == IF engine = "ASM" THEN 0 ELSE pageSize

\* pagein() of page p into the target buffer: a refused id ends the workload, a
\* length without a sequence of loads ends the process
Pagein(p, offset) ==
  \/ /\ Valid(p) /\ ReadReturns
     /\ target' = ReadInto(offset)
     /\ moved' = moved + ReadMoves
     /\ processed' = processed + pageSize
     /\ UNCHANGED pc
  \/ /\ Valid(p) /\ ~ReadReturns
     /\ pc' = "crashed"
     /\ UNCHANGED <<target, moved, processed>>
  \/ /\ ~Valid(p)
     /\ pc' = "aborted"
     /\ UNCHANGED <<target, moved, processed>>

\* the iteration of BufferManagementWorkload::run that reads
RandomRead ==
  /\ pc = "run" /\ workload = "bufman"
  /\ processed < TotalWorkload
  /\ MayRead
  /\ \E p \in 0 .. MaxPageId : Pagein(p, slot * pageSize)
  /\ slot' = NextSlot
  /\ UNCHANGED <<params, block, shift, pageId, reads>>

\* the iteration that writes: it changes a byte of a random page of the pool and
\* pages it out; nobody looks at the status of pageout().  An index outside of
\* the pool is undefined behaviour.
RandomWrite ==
  /\ pc = "run" /\ workload = "bufman"
  /\ processed < TotalWorkload
  /\ MayWrite
  /\ \E p \in 0 .. MaxPageId, i \in PoolIds :
       \/ /\ i \in 0 .. randomPages - 1
          /\ moved' = IF Valid(p) THEN moved + WriteMoves ELSE moved
          /\ processed' = processed + pageSize
          /\ UNCHANGED pc
       \/ /\ i \notin 0 .. randomPages - 1
          /\ pc' = "undefined"
          /\ UNCHANGED <<moved, processed>>
  /\ UNCHANGED <<params, block, shift, slot, pageId, target, reads>>

\* an iteration of TableScanWorkload::run
ScanPage ==
  /\ pc = "run" /\ workload = "tablescan"
  /\ processed < TotalWorkload
  /\ Pagein(pageId, 0)
  /\ IF Valid(pageId) /\ ReadReturns
     THEN /\ reads' = [reads EXCEPT ![pageId] = @ + 1]
          /\ pageId' = NextScanId
     ELSE UNCHANGED <<reads, pageId>>
  /\ UNCHANGED <<params, block, shift, slot>>

Finish ==
  /\ pc = "run"
  /\ processed >= TotalWorkload
  /\ pc' = "finished"
  /\ UNCHANGED <<params, block, shift, processed, slot, pageId, target, reads, moved>>

Next == AllocateBuf \/ RandomRead \/ RandomWrite \/ ScanPage \/ Finish

\* the process is scheduled and its calls return
Spec == Init /\ [][Next]_vars /\ WF_vars(Next)

-----------------------------------------------------------------------------
(* Properties.                                                              *)

\* Every variable has its type.
TypeOK ==
  /\ workload \in Workloads /\ engine \in {"copying", "ASM"}
  /\ pageSize \in PageSizes
  /\ totalPages \in PageCounts /\ targetPages \in TargetCounts
  /\ writeProportion \in WriteProportions /\ randomPages \in RandomPages
  /\ pc \in {"alloc", "run", "finished", "aborted", "crashed", "undefined"}
  /\ block \in Nat /\ shift \in 0 .. Alignment - 1
  /\ processed \in Nat /\ moved \in Nat
  /\ slot \in 0 .. targetPages - 1
  /\ pageId \in Nat
  /\ target \subseteq Nat
  /\ reads \in [0 .. totalPages - 1 -> Nat]

\* A read stays inside the memory allocated for it, wherever malloc() put the
\* block and whichever slot of the target buffer is next.  This is so as long as
\* 32 bits hold the size of the block, although the int made of them may not.
ReadsInsideBlock == BlockSize(BufLength) < IntRange => target \subseteq 0 .. block - 1

\* A table scan visits the pages in turn: at any time every page has been read
\* as often as the last one, or once more if the current round has passed it.
ScanIsEven ==
  workload = "tablescan" =>
    \A p, q \in DOMAIN reads :
      p < q => reads[p] - reads[q] \in {0, 1}

\* The engine moves what the workload counts: the copying engines whole pages,
\* the ASM engine when it only reads pages of at most 64 KiB.
EngineMovesPages ==
  engine = "ASM" =>
    /\ pageSize * UnitBytes <= 65536
    /\ workload = "tablescan" \/ ~MayWrite

\* Over a buffer manager with pages, the data counted as processed, from which
\* the bandwidth of a test is computed, has really been moved, although nobody
\* looks at the status of pageout().  One without pages moves nothing, although
\* the largest id its users draw from has wrapped around.
ProcessedIsTransferred ==
  /\ totalPages > 0 /\ EngineMovesPages => processed = moved
  /\ totalPages = 0 => moved = 0 /\ target = {}

\* Every byte the workload pages out comes from its pool of random pages: only
\* with an empty pool does the index leave it.
WritesFromPool == pc = "undefined" => randomPages = 0

CanBeServed ==
  /\ totalPages > 0
  /\ \A len \in BlockLengths : BlockSize(len) < IntRange \div 2
  /\ workload = "bufman" => randomPages > 0 \/ ~MayWrite
  /\ ReadReturns \/ (workload = "bufman" /\ ~MayRead)

Finished == pc = "finished"

\* Over a buffer manager with pages, a workload whose blocks an int can count,
\* with a pool to write from and pages that the engine can read, runs to its end.
Completes == CanBeServed ~> Finished

=============================================================================
