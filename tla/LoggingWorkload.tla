-------------------------- MODULE LoggingWorkload --------------------------
(***************************************************************************)
(* LoggingWorkload (microbenchmarks/src/lib/workloads/logging.cpp): a log  *)
(* of fixed-size entries packed without gaps into pages.  The page being   *)
(* filled is rewritten in place with every entry that lands on it, so the  *)
(* entries already logged there are at stake each time.  With committing,  *)
(* the log starts at page 1 and page 0 is to hold a watermark.             *)
(*                                                                         *)
(* The workload is composed with what BufferManager shows of pageout(): an *)
(* id out of range is refused, otherwise the page reaches the medium, one  *)
(* cell at a time and in any order, before the call returns WriteStatus.   *)
(* A cell is 8 bytes, the size of the watermark.                           *)
(***************************************************************************)
EXTENDS Integers, Sequences

CONSTANTS
  PageSize,       \* bm.get_page_size(), in cells
  TotalPages,     \* bm.get_total_num_of_pages()
  EntrySizes,     \* values of log_entry_size, in cells
  TotalWorkload,  \* total_workload, in cells
  Committing,     \* values of the flag committing
  WriteStatus,    \* what pageout() returns after a write that returned 0
  PowerFails,     \* whether the power may fail
  Data,           \* contents of a cell
  Junk            \* content of memory and media that nobody has written

ASSUME LogAssumption ==
  /\ PageSize \in Nat \ {0}
  /\ TotalPages \in Nat
  /\ TotalWorkload \in Nat
  \* main() refuses entries longer than the workload, and nothing else
  /\ EntrySizes \subseteq 0 .. TotalWorkload
  /\ Committing \subseteq BOOLEAN
  /\ WriteStatus \in {"BM_WRITE_SUCCESS", "BM_WRITE_FAILURE"}
  /\ PowerFails \in BOOLEAN
  /\ Junk \notin Data

Content == Data \cup {Junk} \cup 1 .. TotalWorkload
EntryOf(n) == [0 .. n - 1 -> Content]
Page    == [0 .. PageSize - 1 -> Content]
PageIds == 0 .. TotalPages - 1

JunkPage == [i \in 0 .. PageSize - 1 |-> Junk]

VARIABLES
  pc,         \* "entry", "chunk"; in pageout(): "full", "tail", "watermark";
              \* at the end: "finished", "aborted", "crashed", "down"
  committing, \* the member committing
  log_entry_size, \* the member of that name
  processed,  \* processed_data
  toWrite,    \* to_write
  current,    \* current_page_id
  buf,        \* the page buffer
  logbuf,     \* the entry buffer
  entries,    \* the static counter of update_watermark
  out,        \* the pageout() in progress: [page, data]
  pages,      \* the medium
  made        \* history: the entries as they were when their logging began

vars == <<pc, committing, log_entry_size, processed, toWrite, current, buf, logbuf,
          entries, out, pages, made>>

Entry == EntryOf(log_entry_size)

\* n cells of the log in entries; a log of empty entries stays empty
InEntries(n) == IF log_entry_size = 0 THEN 0 ELSE n \div log_entry_size

Entries == InEntries(TotalWorkload)   \* entries of a complete run

FirstPage == IF committing THEN 1 ELSE 0

NoPageout == [page |-> 0, data |-> JunkPage]

Init ==
  /\ pc = "entry"
  /\ committing \in Committing
  /\ log_entry_size \in EntrySizes
  /\ processed = 0
  /\ toWrite = 0
  /\ current = FirstPage
  /\ buf = JunkPage
  /\ logbuf = [i \in 0 .. log_entry_size - 1 |-> Junk]
  /\ entries = 0
  /\ out = NoPageout
  /\ pages = [p \in PageIds |-> JunkPage]
  /\ made = <<>>

\* mutant: the last entry is left out
MoreBeforeTheEnd == processed + log_entry_size < TotalWorkload

MoreToLog == processed + log_entry_size <= TotalWorkload

\* positions of the next chunk of the entry
PosInLogbuf == log_entry_size - toWrite

\* mutant
PosInLog == processed + PosInLogbuf

PosInBuf  == (processed + PosInLogbuf) % PageSize

RoomInBuf == PageSize - PosInBuf

\* mutant
FillsMoreThanPage == RoomInBuf < toWrite

FillsPage == RoomInBuf <= toWrite

\* mutant: every chunk is copied from the start of the entry
BufWithStart(n) ==
  [i \in 0 .. PageSize - 1 |->
     IF i \in PosInBuf .. PosInBuf + n - 1
     THEN logbuf[i - PosInBuf] ELSE buf[i]]

\* memcpy() of n cells of the entry into the page buffer
BufWith(n) ==
  [i \in 0 .. PageSize - 1 |->
     IF i \in PosInBuf .. PosInBuf + n - 1
     THEN logbuf[PosInLogbuf + (i - PosInBuf)] ELSE buf[i]]

\* a cell of the entry gets a random value, or the byte behind the entry does,
\* which is not in the model: usually padding of the block that nobody reads (for
\* an entry of size 0 it is always that one)
AlterEntry ==
  \/ \E i \in 0 .. log_entry_size - 1, d \in Data : logbuf' = [logbuf EXCEPT ![i] = d]
  \/ UNCHANGED logbuf

StartEntry ==
  /\ pc = "entry"
  /\ MoreToLog
  /\ AlterEntry
  /\ toWrite' = log_entry_size
  /\ made' = IF log_entry_size = 0 THEN made ELSE Append(made, logbuf')
  /\ pc' = "chunk"
  /\ UNCHANGED <<committing, log_entry_size, processed, current, buf, entries,
                 out, pages>>

Finish ==
  /\ pc = "entry"
  /\ ~MoreToLog
  /\ pc' = "finished"
  /\ UNCHANGED <<committing, log_entry_size, processed, toWrite, current, buf, logbuf,
                 entries, out, pages, made>>

\* the chunk fills the page: write it and move on to the next page
FillPage ==
  /\ pc = "chunk" /\ toWrite > 0
  /\ FillsPage
  /\ buf' = BufWith(RoomInBuf)
  /\ out' = [page |-> current, data |-> buf']
  /\ current' = current + 1
  /\ pc' = "full"
  /\ UNCHANGED <<committing, log_entry_size, processed, toWrite, logbuf, entries,
                 pages, made>>

\* the rest of the entry ends inside the page: write the page, to be rewritten
ExtendPage ==
  /\ pc = "chunk" /\ toWrite > 0
  /\ ~FillsPage
  /\ buf' = BufWith(toWrite)
  /\ out' = [page |-> current, data |-> buf']
  /\ pc' = "tail"
  /\ UNCHANGED <<committing, log_entry_size, processed, toWrite, current, logbuf, entries,
                 pages, made>>

\* update_watermark(): the counter goes into the entry buffer, and the header
\* buffer, which nobody has written, goes to page 0.  With empty entries the
\* counter would rise for ever: it is left at 0, since the padding it goes into
\* is not in the model.
UpdateWatermark ==
  /\ pc = "chunk" /\ toWrite = 0 /\ committing
  /\ IF log_entry_size = 0
     THEN UNCHANGED <<entries, logbuf>>
     ELSE /\ entries' = entries + 1
          /\ logbuf' = [logbuf EXCEPT ![0] = entries']
  /\ out' = [page |-> 0, data |-> JunkPage]
  /\ pc' = "watermark"
  /\ UNCHANGED <<committing, log_entry_size, processed, toWrite, current, buf,
                 pages, made>>

EndEntry ==
  /\ pc = "chunk" /\ toWrite = 0 /\ ~committing
  /\ processed' = processed + log_entry_size
  /\ pc' = "entry"
  /\ UNCHANGED <<committing, log_entry_size, toWrite, current, buf, logbuf, entries, out,
                 pages, made>>

\* mutant: the rest of the page is subtracted, as after a full page
TailLeftOfPage == toWrite - RoomInBuf

\* what is left of the entry behind its tail
TailLeft == toWrite - toWrite

InPageout == pc \in {"full", "tail", "watermark"}

\* a cell of the page reaches the medium
PersistCell ==
  /\ InPageout
  /\ out.page \in PageIds
  /\ \E i \in 0 .. PageSize - 1 :
       /\ pages[out.page][i] # out.data[i]
       /\ pages' = [pages EXCEPT ![out.page][i] = out.data[i]]
  /\ UNCHANGED <<pc, committing, log_entry_size, processed, toWrite, current, buf, logbuf,
                 entries, out, made>>

\* pageout() returns, and the workload goes on with the status
PageoutReturn ==
  /\ InPageout
  /\ out.page \in PageIds => pages[out.page] = out.data
  /\ LET ok == out.page \in PageIds /\ WriteStatus # "BM_WRITE_FAILURE"
     IN  \/ /\ ~ok
            /\ pc' = IF pc = "watermark" THEN "crashed" ELSE "aborted"
            /\ UNCHANGED <<processed, toWrite>>
         \/ /\ ok /\ pc = "full"
            /\ toWrite' = toWrite - RoomInBuf
            /\ pc' = "chunk"
            /\ UNCHANGED processed
         \/ /\ ok /\ pc = "tail"
            /\ toWrite' = TailLeft
            /\ pc' = "chunk"
            /\ UNCHANGED processed
         \/ /\ ok /\ pc = "watermark"
            /\ processed' = processed + log_entry_size
            /\ pc' = "entry"
            /\ UNCHANGED toWrite
  /\ out' = NoPageout
  /\ UNCHANGED <<committing, log_entry_size, current, buf, logbuf, entries, pages, made>>

Running == pc \notin {"finished", "aborted", "crashed", "down"}

LosePower ==
  /\ PowerFails
  /\ Running
  /\ pc' = "down"
  /\ UNCHANGED <<committing, log_entry_size, processed, toWrite, current, buf, logbuf,
                 entries, out, pages, made>>

Step ==
  \/ StartEntry \/ Finish
  \/ FillPage \/ ExtendPage \/ UpdateWatermark \/ EndEntry
  \/ PersistCell \/ PageoutReturn

Next == Step \/ LosePower

\* the process is scheduled, and a write that started ends
Spec == Init /\ [][Next]_vars /\ WF_vars(Step)

-----------------------------------------------------------------------------
(* Properties.                                                              *)

\* Every variable has its type.
TypeOK ==
  /\ pc \in {"entry", "chunk", "full", "tail", "watermark",
             "finished", "aborted", "crashed", "down"}
  /\ committing \in BOOLEAN
  /\ log_entry_size \in EntrySizes
  /\ processed \in 0 .. TotalWorkload
  /\ toWrite \in 0 .. log_entry_size
  /\ current \in Nat
  /\ buf \in Page
  /\ logbuf \in Entry
  /\ entries \in 0 .. Entries
  /\ out \in [page : Nat, data : Page]
  /\ pages \in [PageIds -> Page]
  /\ made \in Seq(Entry)

Logged == InEntries(processed)

\* the cell of the medium at an offset of the log
OnMedia(offset) == pages[FirstPage + (offset \div PageSize)][offset % PageSize]

\* the k-th entry as it stands on the medium
EntryOnMedia(k) ==
  [j \in 0 .. log_entry_size - 1 |-> OnMedia((k - 1) * log_entry_size + j)]

\* Every logged entry stands on the medium as it was made, also while the page
\* it shares with later entries is being rewritten, and after a power failure
\* in the middle of that.
EntriesOnMedia == \A k \in 1 .. Logged : EntryOnMedia(k) = made[k]

\* The workload gives up only when the next entry does not fit: its last cell
\* would lie behind the last page ("Paging out failed, aborting workload!").
AbortsOnlyWhenFull ==
  pc \in {"aborted", "crashed"} =>
    FirstPage + ((processed + log_entry_size - 1) \div PageSize) \notin PageIds

\* the whole log has room behind the header
Fits == (FirstPage * PageSize) + (Entries * log_entry_size) <= TotalPages * PageSize

Complete ==
  /\ ~Running
  /\ Fits /\ pc # "down" => pc = "finished" /\ Logged = Entries

\* The workload ends, and one that fits and keeps its power has logged every
\* entry.  With entries of size 0, which main() lets through, it never gets to its
\* end: the loop counts nothing.
Completes ==
  /\ log_entry_size > 0 => <>Complete
  /\ log_entry_size = 0 => [](pc # "finished")

\* After every commit page 0 holds the number of entries (update_watermark).
WatermarkCounts ==
  committing /\ pc = "entry" /\ Logged > 0 => pages[0][0] = Logged

\* The logged entries form a durable append-only log.
Log == INSTANCE DurableLog WITH
  Entry   <- UNION {EntryOf(n) : n \in EntrySizes},
  NoEntry <- Junk,
  log     <- [k \in 1 .. Logged |-> EntryOnMedia(k)],
  request <- IF Running /\ pc # "entry" /\ made # <<>> THEN made[Len(made)] ELSE Junk

ImplementsDurableLog == Log!Spec

=============================================================================
