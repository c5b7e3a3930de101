----------------------- MODULE LoggingWorkloadProofs -----------------------
(***************************************************************************)
(* The logging workload that packs entries into pages, for every size of   *)
(* the pages, of the entries and of the workload: the entries it counts    *)
(* are on the medium as they were made, although the page an entry ends on *)
(* is rewritten in place with the next one.                                *)
(***************************************************************************)
EXTENDS LoggingWorkload, SequenceTheorems, TLAPS

-----------------------------------------------------------------------------
(* Arithmetic.                                                              *)

\* Quotient and remainder of a natural number.
LEMMA QuotientAndRest ==
  ASSUME NEW n \in Nat, NEW m \in Nat \ {0}
  PROVE  /\ n \div m \in Nat /\ n % m \in 0 .. m - 1
         /\ m * (n \div m) \in Nat
         /\ n = m * (n \div m) + (n % m)
<1> DEFINE q == n \div m
           r == n % m
<1>1. q \in Int /\ r \in 0 .. m - 1
  OBVIOUS
<1>2. r = n - m * q
  BY SMTT(60)
<1> HIDE DEF q, r
<1>3. m * q \in Int
  BY <1>1
<1>4. q \in Nat
  <2> SUFFICES ASSUME q <= -1 PROVE FALSE
    BY <1>1
  <2>1. m * q <= m * (-1)
    BY <1>1
  <2> QED BY <2>1, <1>1, <1>2, <1>3
<1>5. m * q \in Nat
  BY <1>4
<1>6. q \in Nat /\ r \in 0 .. m - 1 /\ m * q \in Nat /\ n = m * q + r
  BY <1>1, <1>2, <1>3, <1>4, <1>5
<1> QED BY <1>6 DEF q, r

\* The number between two multiples has their quotient.
LEMMA QuotientIs ==
  ASSUME NEW m \in Nat \ {0}, NEW q \in Nat, NEW n \in Nat,
         m * q <= n, n < m * q + m
  PROVE  n \div m = q /\ n % m = n - m * q
<1> DEFINE p == n \div m
           s == n % m
<1>1. p \in Nat /\ s \in 0 .. m - 1 /\ m * p \in Nat /\ n = m * p + s
  BY QuotientAndRest
<1>2. m * q \in Nat
  OBVIOUS
<1> HIDE DEF p, s
<1>3. m * (p - q) = m * p - m * q
  BY <1>1
<1>4. ~(p - q >= 1)
  <2> SUFFICES ASSUME p - q >= 1 PROVE FALSE
    OBVIOUS
  <2>1. m * (p - q) >= m * 1
    BY <1>1
  <2> QED BY <2>1, <1>1, <1>2, <1>3
<1>5. ~(p - q <= -1)
  <2> SUFFICES ASSUME p - q <= -1 PROVE FALSE
    OBVIOUS
  <2>1. m * (p - q) <= m * (-1)
    BY <1>1
  <2> QED BY <2>1, <1>1, <1>2, <1>3
<1>6. p = q
  BY <1>1, <1>4, <1>5
<1>7. s = n - m * q
  BY <1>1, <1>2, <1>6
<1> QED BY <1>6, <1>7 DEF p, s

\* A smaller number has no larger quotient.
LEMMA QuotientMonotonic ==
  ASSUME NEW m \in Nat \ {0}, NEW a \in Nat, NEW b \in Nat, a <= b
  PROVE  a \div m <= b \div m
<1> DEFINE p == a \div m
           q == b \div m
<1>1. /\ p \in Nat /\ m * p \in Nat /\ m * p <= a
      /\ q \in Nat /\ m * q \in Nat /\ b < m * q + m
  BY QuotientAndRest
<1> HIDE DEF p, q
<1>2. p <= q
  <2> SUFFICES ASSUME p >= q + 1 PROVE FALSE
    BY <1>1
  <2>1. m * p >= m * (q + 1)
    BY <1>1
  <2>2. m * (q + 1) = m * q + m
    BY <1>1
  <2> QED BY <1>1, <2>1, <2>2
<1> QED BY <1>2 DEF p, q

\* Multiples and their quotients.
LEMMA Multiples ==
  ASSUME NEW m \in Nat \ {0}, NEW q \in Nat
  PROVE  /\ m * q \in Nat /\ q * m = m * q
         /\ m * (q + 1) = m * q + m
         /\ (m * q) \div m = q
<1>1. m * q \in Nat /\ q * m = m * q /\ m * (q + 1) = m * q + m
  OBVIOUS
<1> DEFINE n == m * q
<1>2. n \in Nat /\ m * q <= n /\ n < m * q + m
  BY <1>1
<1> HIDE DEF n
<1>3. n \div m = q
  BY <1>2, QuotientIs
<1> QED BY <1>1, <1>3 DEF n

-----------------------------------------------------------------------------
(* Types.                                                                   *)

InEntry == pc \in {"chunk", "full", "tail", "watermark"}

\* What the types need when entries are not empty: an entry that is logged fits the
\* workload; the branches of the chunk loop were taken as their conditions say; the
\* counter of the watermark is not ahead of the entries.
TypeInv ==
  /\ TypeOK
  /\ log_entry_size # 0
  /\ processed = log_entry_size * Logged
  /\ InEntry => MoreToLog
  /\ pc = "full" => FillsPage
  /\ pc \in {"full", "tail"} => toWrite > 0
  /\ pc = "tail" => ~FillsPage
  /\ pc = "watermark" => committing
  /\ pc \in {"entry", "chunk", "full", "tail"} => entries <= Logged
  /\ pc = "watermark" => entries <= Logged + 1

\* The numbers of the workload.
LEMMA Numbers ==
  ASSUME LogAssumption, TypeInv
  PROVE  /\ PageSize \in Nat \ {0} /\ log_entry_size \in Nat \ {0}
         /\ TotalWorkload \in Nat /\ TotalPages \in Nat
         /\ Entries \in Nat /\ Entries <= TotalWorkload
         /\ processed \in Nat /\ Logged \in Nat
         /\ toWrite \in 0 .. log_entry_size /\ PosInLogbuf \in 0 .. log_entry_size
         /\ processed + PosInLogbuf \in Nat
         /\ PosInBuf \in 0 .. PageSize - 1 /\ RoomInBuf \in 1 .. PageSize
         /\ FirstPage \in {0, 1}
<1>1. /\ PageSize \in Nat \ {0} /\ log_entry_size \in Nat \ {0}
      /\ TotalWorkload \in Nat /\ TotalPages \in Nat
      /\ processed \in Nat /\ toWrite \in 0 .. log_entry_size
  BY DEF LogAssumption, TypeInv, TypeOK
<1>2. Entries \in Nat /\ Logged \in Nat
  BY <1>1, QuotientAndRest DEF Entries, Logged, InEntries
<1>3. PosInLogbuf \in 0 .. log_entry_size /\ processed + PosInLogbuf \in Nat
  BY <1>1 DEF PosInLogbuf
<1>4. PosInBuf \in 0 .. PageSize - 1
  BY <1>1, <1>3, QuotientAndRest DEF PosInBuf
<1>5. RoomInBuf \in 1 .. PageSize
  BY <1>1, <1>4 DEF RoomInBuf
<1>6. Entries <= TotalWorkload
  <2> DEFINE q == TotalWorkload \div log_entry_size
  <2>1. q \in Nat /\ log_entry_size * q <= TotalWorkload /\ q = Entries
    BY <1>1, QuotientAndRest DEF Entries, InEntries
  <2> HIDE DEF q
  <2>2. 1 * q <= log_entry_size * q
    BY <1>1, <2>1
  <2> QED BY <1>1, <2>1, <2>2
<1> QED BY <1>1, <1>2, <1>3, <1>4, <1>5, <1>6 DEF FirstPage

\* One more entry is counted.
LEMMA CountedEntry ==
  ASSUME LogAssumption, TypeInv, MoreToLog, processed' = processed + log_entry_size,
         UNCHANGED log_entry_size
  PROVE  /\ Logged' = Logged + 1 /\ processed' = log_entry_size * Logged'
         /\ processed' \in 0 .. TotalWorkload
<1>1. processed' = log_entry_size * (Logged + 1)
  BY Numbers, Multiples DEF TypeInv
<1>2. (log_entry_size * (Logged + 1)) \div log_entry_size = Logged + 1
  BY Numbers, Multiples
<1>3. Logged' = Logged + 1
  BY <1>1, <1>2, Numbers DEF Logged, InEntries
<1>4. processed' \in 0 .. TotalWorkload
  BY Numbers DEF MoreToLog
<1> QED BY <1>1, <1>3, <1>4

\* An entry that fits is one of the entries of a complete run.
LEMMA EntryFits ==
  ASSUME LogAssumption, TypeInv, MoreToLog
  PROVE  Logged + 1 <= Entries
<1>1. log_entry_size * (Logged + 1) = processed + log_entry_size
  BY Numbers, Multiples DEF TypeInv
<1> DEFINE n == log_entry_size * (Logged + 1)
<1>2. n \in Nat /\ n <= TotalWorkload
  BY <1>1, Numbers DEF MoreToLog
<1>3. n \div log_entry_size = Logged + 1
  BY Numbers, Multiples
<1> HIDE DEF n
<1>4. n \div log_entry_size <= TotalWorkload \div log_entry_size
  BY <1>2, Numbers, QuotientMonotonic
<1> QED BY <1>3, <1>4, Numbers DEF Entries, InEntries

\* The page buffer with a chunk in it is a page.
LEMMA BufWithType ==
  ASSUME LogAssumption, TypeInv, NEW n \in 0 .. toWrite
  PROVE  BufWith(n) \in Page
<1>1. ASSUME NEW i \in 0 .. PageSize - 1
      PROVE  (IF i \in PosInBuf .. PosInBuf + n - 1
              THEN logbuf[PosInLogbuf + (i - PosInBuf)] ELSE buf[i]) \in Content
  <2>1. CASE i \in PosInBuf .. PosInBuf + n - 1
    <3>1. PosInLogbuf + (i - PosInBuf) \in 0 .. log_entry_size - 1
      BY <2>1, Numbers DEF PosInLogbuf
    <3>2. logbuf \in [0 .. log_entry_size - 1 -> Content]
      BY DEF TypeInv, TypeOK, Entry, EntryOf
    <3> QED BY <2>1, <3>1, <3>2
  <2>2. CASE i \notin PosInBuf .. PosInBuf + n - 1
    <3>1. buf \in [0 .. PageSize - 1 -> Content]
      BY DEF TypeInv, TypeOK, Page
    <3> QED BY <2>2, <3>1
  <2> QED BY <2>1, <2>2
<1> QED BY <1>1 DEF BufWith, Page

\* The size of the entries never changes.
LEMMA SizeStays ==
  ASSUME [Next]_vars
  PROVE  log_entry_size' = log_entry_size /\ Entry' = Entry /\ Entries' = Entries
<1>1. log_entry_size' = log_entry_size
  BY DEF Next, Step, vars, StartEntry, Finish, FillPage, ExtendPage, UpdateWatermark,
         EndEntry, PersistCell, PageoutReturn, LosePower
<1> QED BY <1>1 DEF Entry, EntryOf, Entries, InEntries

\* The variables' types in the first state.
LEMMA InitTyped ==
  ASSUME LogAssumption, Init, log_entry_size # 0
  PROVE  TypeInv
<1>1. /\ PageSize \in Nat \ {0} /\ log_entry_size \in Nat \ {0}
      /\ TotalWorkload \in Nat /\ TotalPages \in Nat /\ Committing \subseteq BOOLEAN
  BY DEF LogAssumption, Init
<1>2. JunkPage \in Page /\ Junk \in Content
  BY DEF JunkPage, Page, Content
<1>3. Entries \in Nat /\ Logged = 0
  <2>1. log_entry_size * 0 = 0 /\ (log_entry_size * 0) \div log_entry_size = 0
    BY <1>1, Multiples
  <2> QED BY <1>1, <2>1, QuotientAndRest DEF Entries, Logged, Init, InEntries
<1>4. [i \in 0 .. log_entry_size - 1 |-> Junk] \in Entry
  BY <1>2 DEF Entry, EntryOf
<1>5. TypeOK
  BY <1>1, <1>2, <1>3, <1>4 DEF Init, TypeOK, FirstPage, NoPageout
<1> QED BY <1>1, <1>3, <1>5 DEF Init, TypeInv, InEntry

\* Every action keeps the types and what they rest on.
LEMMA StepTyped == ASSUME LogAssumption, TypeInv, [Next]_vars PROVE TypeInv'
<1> USE DEF InEntry
<1> USE SizeStays
<1>0. TypeOK
  BY DEF TypeInv
<1>a. CASE StartEntry
  <2>1. logbuf' \in Entry
    BY <1>a, <1>0 DEF StartEntry, AlterEntry, TypeOK, Entry, Content, EntryOf
  <2>2. TypeOK'
    BY <1>a, <2>1, <1>0, Numbers, AppendProperties DEF StartEntry, TypeOK
  <2>3. UNCHANGED <<processed, entries>> /\ pc = "entry" /\ pc' = "chunk" /\ MoreToLog'
    BY <1>a DEF StartEntry, MoreToLog
  <2>4. Logged' = Logged
    BY <2>3 DEF Logged, InEntries
  <2> QED BY <2>2, <2>3, <2>4 DEF TypeInv
<1>b. CASE Finish
  <2>1. TypeOK'
    BY <1>b, <1>0 DEF Finish, TypeOK
  <2>2. UNCHANGED processed /\ pc' = "finished"
    BY <1>b DEF Finish
  <2>3. Logged' = Logged
    BY <2>2 DEF Logged, InEntries
  <2> QED BY <2>1, <2>2, <2>3 DEF TypeInv
<1>c. CASE FillPage
  <2>1. RoomInBuf \in 0 .. toWrite
    BY <1>c, Numbers DEF FillPage, FillsPage
  <2>2. BufWith(RoomInBuf) \in Page
    BY <2>1, BufWithType
  <2>3. current \in Nat /\ current' = current + 1 /\ buf' = BufWith(RoomInBuf)
        /\ out' = [page |-> current, data |-> buf'] /\ pc' = "full"
        /\ UNCHANGED <<committing, processed, toWrite, logbuf, entries, pages, made>>
    BY <1>c, <1>0 DEF FillPage, TypeOK
  <2>4. TypeOK'
    BY <2>2, <2>3, <1>0 DEF TypeOK
  <2>5. Logged' = Logged /\ MoreToLog' = MoreToLog /\ FillsPage' = FillsPage
    BY <2>3 DEF Logged, MoreToLog, FillsPage, RoomInBuf, PosInBuf, PosInLogbuf, InEntries
  <2>6. pc = "chunk" /\ FillsPage /\ toWrite > 0
    BY <1>c DEF FillPage
  <2> QED BY <2>3, <2>4, <2>5, <2>6 DEF TypeInv
<1>d. CASE ExtendPage
  <2>1. toWrite \in 0 .. toWrite
    BY Numbers
  <2>2. BufWith(toWrite) \in Page
    BY <2>1, BufWithType
  <2>3. current \in Nat /\ buf' = BufWith(toWrite)
        /\ out' = [page |-> current, data |-> buf'] /\ pc' = "tail"
        /\ UNCHANGED <<committing, processed, toWrite, current, logbuf, entries, pages,
                        made>>
    BY <1>d, <1>0 DEF ExtendPage, TypeOK
  <2>4. TypeOK'
    BY <2>2, <2>3, <1>0 DEF TypeOK
  <2>5. Logged' = Logged /\ MoreToLog' = MoreToLog /\ FillsPage' = FillsPage
    BY <2>3 DEF Logged, MoreToLog, FillsPage, RoomInBuf, PosInBuf, PosInLogbuf, InEntries
  <2>6. pc = "chunk" /\ ~FillsPage /\ toWrite > 0
    BY <1>d DEF ExtendPage
  <2> QED BY <2>3, <2>4, <2>5, <2>6 DEF TypeInv
<1>e. CASE UpdateWatermark
  <2>1. /\ pc = "chunk" /\ committing /\ entries' = entries + 1 /\ pc' = "watermark"
        /\ logbuf' = [logbuf EXCEPT ![0] = entries']
        /\ out' = [page |-> 0, data |-> JunkPage]
        /\ UNCHANGED <<committing, processed, toWrite, current, buf, pages, made>>
    BY <1>e DEF UpdateWatermark, TypeInv
  <2>2. entries <= Logged /\ MoreToLog
    BY <2>1 DEF TypeInv
  <2>3. entries' \in 1 .. Entries /\ entries' <= Logged + 1
    BY <2>1, <2>2, <1>0, Numbers, EntryFits DEF TypeOK
  <2>4. logbuf' \in Entry
    BY <2>1, <2>3, <1>0, Numbers DEF TypeOK, Entry, Content, EntryOf
  <2>5. JunkPage \in Page
    BY DEF JunkPage, Page, Content
  <2>6. TypeOK'
    BY <2>1, <2>3, <2>4, <2>5, <1>0 DEF TypeOK
  <2>7. Logged' = Logged /\ MoreToLog' = MoreToLog
    BY <2>1 DEF Logged, MoreToLog, InEntries
  <2> QED BY <2>1, <2>2, <2>3, <2>6, <2>7 DEF TypeInv
<1>f. CASE EndEntry
  <2>1. /\ pc = "chunk" /\ processed' = processed + log_entry_size /\ pc' = "entry"
        /\ UNCHANGED <<committing, toWrite, current, buf, logbuf, entries, out, pages,
                        made>>
    BY <1>f DEF EndEntry
  <2>2. MoreToLog /\ entries <= Logged /\ entries \in Nat
    BY <2>1, <1>0, Numbers DEF TypeInv, TypeOK
  <2>3. Logged' = Logged + 1 /\ processed' = log_entry_size * Logged'
        /\ processed' \in 0 .. TotalWorkload
    BY <2>1, <2>2, CountedEntry
  <2>4. TypeOK'
    BY <2>1, <2>3, <1>0 DEF TypeOK
  <2>5. entries' <= Logged'
    BY <2>1, <2>2, <2>3, Numbers
  <2> QED BY <2>1, <2>3, <2>4, <2>5 DEF TypeInv
<1>g. CASE PersistCell
  <2>1. PICK i \in 0 .. PageSize - 1 :
          pages' = [pages EXCEPT ![out.page][i] = out.data[i]]
    BY <1>g DEF PersistCell
  <2>2. out.page \in PageIds /\ out.data[i] \in Content
        /\ UNCHANGED <<pc, committing, processed, toWrite, current, buf, logbuf,
                        entries, out, made>>
    BY <1>g, <1>0 DEF PersistCell, TypeOK, Page
  <2>3. pages' \in [PageIds -> Page]
    BY <2>1, <2>2, <1>0 DEF TypeOK, Page
  <2>4. TypeOK'
    BY <2>2, <2>3, <1>0 DEF TypeOK
  <2>5. Logged' = Logged /\ MoreToLog' = MoreToLog /\ FillsPage' = FillsPage
    BY <2>2 DEF Logged, MoreToLog, FillsPage, RoomInBuf, PosInBuf, PosInLogbuf, InEntries
  <2> QED BY <2>2, <2>4, <2>5 DEF TypeInv
<1>h. CASE PageoutReturn
  <2>0. /\ pc \in {"full", "tail", "watermark"} /\ out' = NoPageout
        /\ UNCHANGED <<committing, current, buf, logbuf, entries, pages, made>>
    BY <1>h DEF PageoutReturn, InPageout
  <2>1. out' \in [page : Nat, data : Page]
    BY <2>0 DEF NoPageout, JunkPage, Page, Content
  <2>2. MoreToLog
    BY <2>0 DEF TypeInv
  <2>3. CASE /\ pc' \in {"crashed", "aborted"} /\ UNCHANGED <<processed, toWrite>>
    <3>1. TypeOK'
      BY <2>0, <2>1, <2>3, <1>0 DEF TypeOK
    <3>2. Logged' = Logged
      BY <2>3 DEF Logged, InEntries
    <3> QED BY <2>3, <3>1, <3>2 DEF TypeInv
  <2>4. CASE /\ pc = "full" /\ toWrite' = toWrite - RoomInBuf /\ pc' = "chunk"
             /\ UNCHANGED processed
    <3>1. toWrite' \in 0 .. log_entry_size
      BY <2>4, Numbers DEF TypeInv, FillsPage
    <3>2. TypeOK'
      BY <2>0, <2>1, <2>4, <3>1, <1>0 DEF TypeOK
    <3>3. Logged' = Logged /\ MoreToLog' = MoreToLog
      BY <2>4 DEF Logged, MoreToLog, InEntries
    <3> QED BY <2>0, <2>2, <2>4, <3>2, <3>3 DEF TypeInv
  <2>5. CASE /\ pc = "tail" /\ toWrite' = TailLeft /\ pc' = "chunk"
             /\ UNCHANGED processed
    <3>1. toWrite' \in 0 .. log_entry_size
      BY <2>5, Numbers DEF TailLeft
    <3>2. TypeOK'
      BY <2>0, <2>1, <2>5, <3>1, <1>0 DEF TypeOK
    <3>3. Logged' = Logged /\ MoreToLog' = MoreToLog
      BY <2>5 DEF Logged, MoreToLog, InEntries
    <3> QED BY <2>0, <2>2, <2>5, <3>2, <3>3 DEF TypeInv
  <2>6. CASE /\ pc = "watermark" /\ processed' = processed + log_entry_size
             /\ pc' = "entry" /\ UNCHANGED toWrite
    <3>1. Logged' = Logged + 1 /\ processed' = log_entry_size * Logged'
          /\ processed' \in 0 .. TotalWorkload
      BY <2>6, <2>2, CountedEntry
    <3>2. TypeOK'
      BY <2>0, <2>1, <2>6, <3>1, <1>0 DEF TypeOK
    <3> QED BY <2>0, <2>6, <3>1, <3>2 DEF TypeInv
  <2> QED BY <1>h, <2>3, <2>4, <2>5, <2>6 DEF PageoutReturn
<1>i. CASE LosePower
  <2>1. TypeOK'
    BY <1>i, <1>0 DEF LosePower, TypeOK
  <2>2. UNCHANGED processed /\ pc' = "down"
    BY <1>i DEF LosePower
  <2>3. Logged' = Logged
    BY <2>2 DEF Logged, InEntries
  <2> QED BY <2>1, <2>2, <2>3 DEF TypeInv
<1>j. CASE UNCHANGED vars
  <2>1. TypeOK'
    BY <1>j, <1>0 DEF vars, TypeOK
  <2>2. Logged' = Logged /\ MoreToLog' = MoreToLog /\ FillsPage' = FillsPage
    BY <1>j DEF vars, Logged, MoreToLog, FillsPage, RoomInBuf, PosInBuf,
                PosInLogbuf, InEntries
  <2> QED BY <1>j, <2>1, <2>2 DEF TypeInv, vars
<1> QED BY <1>a, <1>b, <1>c, <1>d, <1>e, <1>f, <1>g, <1>h, <1>i, <1>j DEF Next, Step

\* With empty entries (--le 0) the workload turns in its loop: it has made and counted
\* nothing, and never gets behind the loop.
EmptyInv ==
  /\ TypeOK
  /\ log_entry_size = 0
  /\ processed = 0
  /\ made = <<>>
  /\ pc \in {"entry", "chunk", "watermark", "crashed", "down"}
  /\ pc = "watermark" => committing

\* The numbers of a workload with empty entries.
LEMMA EmptyNumbers ==
  ASSUME LogAssumption, TypeOK, log_entry_size = 0
  PROVE  Entries = 0 /\ Logged = 0 /\ toWrite = 0 /\ entries = 0
<1>1. Entries = 0 /\ Logged = 0
  BY DEF Entries, Logged, InEntries
<1>2. toWrite \in 0 .. 0 /\ entries \in 0 .. 0
  BY <1>1 DEF TypeOK
<1> QED BY <1>1, <1>2

\* The first state of a workload with empty entries.
LEMMA InitEmpty ==
  ASSUME LogAssumption, Init, log_entry_size = 0
  PROVE  EmptyInv
<1>1. JunkPage \in Page /\ Junk \in Content
  BY DEF JunkPage, Page, Content
<1>2. [i \in 0 .. log_entry_size - 1 |-> Junk] \in Entry
  BY <1>1 DEF Entry, EntryOf
<1>3. Entries = 0
  BY DEF Entries, InEntries
<1>4. TypeOK
  BY <1>1, <1>2, <1>3 DEF LogAssumption, Init, TypeOK, FirstPage, NoPageout
<1> QED BY <1>4 DEF Init, EmptyInv

\* With empty entries every action stays in the loop.
LEMMA StepEmpty == ASSUME LogAssumption, EmptyInv, [Next]_vars PROVE EmptyInv'
<1>0. /\ TypeOK /\ log_entry_size' = 0 /\ log_entry_size = 0
      /\ Entries = 0 /\ toWrite = 0 /\ entries = 0
      /\ Entry' = Entry /\ Entries' = Entries
  BY SizeStays, EmptyNumbers DEF EmptyInv
<1>a. CASE StartEntry
  <2>1. logbuf' \in Entry
    BY <1>a, <1>0 DEF StartEntry, AlterEntry, TypeOK, Entry, EntryOf
  <2>2. TypeOK'
    BY <1>a, <2>1, <1>0 DEF StartEntry, TypeOK
  <2> QED BY <1>a, <1>0, <2>2 DEF StartEntry, EmptyInv
<1>b. CASE Finish \/ FillPage \/ ExtendPage
  <2>1. MoreToLog
    BY <1>0 DEF EmptyInv, MoreToLog, LogAssumption
  <2> QED BY <1>b, <2>1, <1>0 DEF Finish, FillPage, ExtendPage
<1>c. CASE UpdateWatermark
  <2>1. JunkPage \in Page
    BY DEF JunkPage, Page, Content
  <2>2. TypeOK'
    BY <1>c, <2>1, <1>0 DEF UpdateWatermark, TypeOK
  <2> QED BY <1>c, <1>0, <2>2 DEF UpdateWatermark, EmptyInv
<1>d. CASE EndEntry
  <2>1. processed' = 0 /\ 0 \in 0 .. TotalWorkload
    BY <1>d, <1>0 DEF EndEntry, EmptyInv, LogAssumption
  <2>2. TypeOK'
    BY <1>d, <2>1, <1>0 DEF EndEntry, TypeOK
  <2> QED BY <1>d, <1>0, <2>1, <2>2 DEF EndEntry, EmptyInv
<1>e. CASE PersistCell
  <2>1. PICK i \in 0 .. PageSize - 1 :
          pages' = [pages EXCEPT ![out.page][i] = out.data[i]]
    BY <1>e DEF PersistCell
  <2>2. out.page \in PageIds /\ out.data[i] \in Content
    BY <1>e, <1>0 DEF PersistCell, TypeOK, Page
  <2>3. pages' \in [PageIds -> Page]
    BY <2>1, <2>2, <1>0 DEF TypeOK, Page
  <2>4. TypeOK'
    BY <1>e, <2>3, <1>0 DEF PersistCell, TypeOK
  <2> QED BY <1>e, <1>0, <2>4 DEF PersistCell, EmptyInv
<1>f. CASE PageoutReturn
  <2>1. out' \in [page : Nat, data : Page]
    BY <1>f DEF PageoutReturn, NoPageout, JunkPage, Page, Content
  <2>2. pc = "watermark" /\ committing
    BY <1>f DEF PageoutReturn, InPageout, EmptyInv
  <2>3. /\ processed' = 0 /\ 0 \in 0 .. TotalWorkload /\ UNCHANGED toWrite
        /\ pc' \in {"crashed", "entry"}
    BY <1>f, <1>0, <2>2 DEF PageoutReturn, EmptyInv, LogAssumption
  <2>4. TypeOK'
    BY <1>f, <2>1, <2>3, <1>0 DEF PageoutReturn, TypeOK
  <2> QED BY <1>f, <1>0, <2>3, <2>4 DEF PageoutReturn, EmptyInv
<1>g. CASE LosePower
  <2>1. TypeOK'
    BY <1>g, <1>0 DEF LosePower, TypeOK
  <2> QED BY <1>g, <1>0, <2>1 DEF LosePower, EmptyInv
<1>h. CASE UNCHANGED vars
  <2>1. TypeOK'
    BY <1>h, <1>0 DEF vars, TypeOK
  <2> QED BY <1>h, <1>0, <2>1 DEF vars, EmptyInv
<1> QED BY <1>a, <1>b, <1>c, <1>d, <1>e, <1>f, <1>g, <1>h DEF Next, Step

\* Every variable keeps its type.
THEOREM TypeCorrect == Spec => []TypeOK
<1> USE LogAssumption
<1>1. Init => EmptyInv \/ TypeInv
  BY InitEmpty, InitTyped
<1>2. (EmptyInv \/ TypeInv) /\ [Next]_vars => (EmptyInv \/ TypeInv)'
  BY StepEmpty, StepTyped
<1>3. EmptyInv \/ TypeInv => TypeOK
  BY DEF EmptyInv, TypeInv
<1> QED BY <1>1, <1>2, <1>3, PTL DEF Spec

-----------------------------------------------------------------------------
(* The log.                                                                 *)

\* The cell at an offset of the log, as it was made.
Cell(n) == made[(n \div log_entry_size) + 1][n % log_entry_size]

InChunk == pc \in {"chunk", "full", "tail"}

\* How far the log has come.
At == IF InChunk THEN processed + PosInLogbuf
      ELSE IF pc = "watermark" THEN processed + log_entry_size ELSE processed

\* The cells of the entry that go to the page at once.
Chunk == IF FillsPage THEN RoomInBuf ELSE toWrite

\* The first n cells of the log are on the medium.
MediaHas(n) ==
  \A m \in 0 .. n - 1 :
    /\ FirstPage + (m \div PageSize) \in PageIds
    /\ OnMedia(m) = Cell(m)

\* A page buffer holds those of the first n cells of the log that lie on page q.
PageHas(f, q, n) ==
  \A m \in 0 .. n - 1 : m \div PageSize = q => f[m % PageSize] = Cell(m)

\* The log is on the medium as far as it has come.  This is inductive only
\* together with what the page buffer holds, since the page the log ends on is
\* rewritten from it, and with where that page goes.
LogInv ==
  /\ TypeInv
  /\ Logged <= Len(made)
  /\ pc = "entry" => Len(made) = Logged
  /\ InEntry => Len(made) = Logged + 1
  /\ InChunk => logbuf = made[Logged + 1]
  /\ MediaHas(At)
  /\ pc = "entry" \/ InEntry =>
       current = FirstPage + (At \div PageSize) + (IF pc = "full" THEN 1 ELSE 0)
  /\ pc \in {"entry", "chunk", "watermark"} => PageHas(buf, At \div PageSize, At)
  /\ pc \in {"full", "tail"} =>
       /\ out = [page |-> FirstPage + (At \div PageSize), data |-> buf]
       /\ PageHas(buf, At \div PageSize, At + Chunk)
  /\ pc = "watermark" => out.page = 0

\* Where the cells of a chunk lie: one behind the other on one page, and in the
\* entry that is being logged.
LEMMA ChunkFacts ==
  ASSUME LogAssumption, TypeInv, InChunk
  PROVE  /\ At \in Nat /\ At = processed + PosInLogbuf
         /\ Chunk \in 0 .. toWrite /\ Chunk <= RoomInBuf
         /\ \A k \in 0 .. Chunk - 1 :
              /\ At + k \in Nat
              /\ (At + k) \div PageSize = At \div PageSize
              /\ (At + k) % PageSize = PosInBuf + k
              /\ (At + k) \div log_entry_size = Logged
              /\ (At + k) % log_entry_size = PosInLogbuf + k
<1>1. At = processed + PosInLogbuf /\ At \in Nat /\ PosInBuf = At % PageSize
  BY Numbers DEF At, PosInBuf
<1>2. Chunk \in 0 .. toWrite /\ Chunk <= RoomInBuf
  BY Numbers DEF Chunk, FillsPage
<1>3. ASSUME NEW k \in 0 .. Chunk - 1
      PROVE  /\ At + k \in Nat
             /\ (At + k) \div PageSize = At \div PageSize
             /\ (At + k) % PageSize = PosInBuf + k
             /\ (At + k) \div log_entry_size = Logged
             /\ (At + k) % log_entry_size = PosInLogbuf + k
  <2> DEFINE q == At \div PageSize
             n == At + k
  <2>1. /\ q \in Nat /\ PageSize * q \in Nat /\ At = PageSize * q + PosInBuf
        /\ PageSize \in Nat \ {0}
    BY <1>1, Numbers, QuotientAndRest
  <2>2. log_entry_size * Logged \in Nat /\ processed = log_entry_size * Logged
    BY Numbers, Multiples DEF TypeInv
  <2>3. k \in Nat /\ PosInBuf + k < PageSize
    BY <1>2, Numbers DEF RoomInBuf
  <2>4. PosInLogbuf + k < log_entry_size
    BY <1>2, Numbers DEF PosInLogbuf
  <2>5. n \in Nat /\ n = At + k
    BY <1>1, <2>3
  <2> HIDE DEF q, n
  <2>6. PageSize * q <= n /\ n < PageSize * q + PageSize
    BY <2>1, <2>3, <2>5, Numbers
  <2>7. n \div PageSize = q /\ n % PageSize = n - PageSize * q
    BY <2>1, <2>5, <2>6, QuotientIs
  <2>8. n = log_entry_size * Logged + PosInLogbuf + k
    BY <1>1, <2>2, <2>5
  <2>9. log_entry_size * Logged <= n /\ n < log_entry_size * Logged + log_entry_size
    BY <2>2, <2>3, <2>4, <2>8, Numbers
  <2>10. /\ n \div log_entry_size = Logged
         /\ n % log_entry_size = n - log_entry_size * Logged
    BY <2>5, <2>9, Numbers, QuotientIs
  <2>11. n % PageSize = PosInBuf + k
    BY <2>1, <2>3, <2>5, <2>7, Numbers
  <2>12. n % log_entry_size = PosInLogbuf + k
    BY <2>2, <2>3, <2>8, <2>10, Numbers
  <2> QED BY <2>5, <2>7, <2>10, <2>11, <2>12 DEF q, n
<1> QED BY <1>1, <1>2, <1>3

\* The page buffer with the chunk in it holds the log up to the end of the chunk.
LEMMA BufTakesChunk ==
  ASSUME LogAssumption, LogInv, pc = "chunk"
  PROVE  PageHas(BufWith(Chunk), At \div PageSize, At + Chunk)
<1> DEFINE q == At \div PageSize
<1>0. TypeInv /\ InChunk
  BY DEF LogInv, InChunk
<1>1. /\ At \in Nat /\ At = processed + PosInLogbuf
      /\ Chunk \in 0 .. toWrite /\ Chunk <= RoomInBuf
  BY <1>0, ChunkFacts
<1>2. /\ PageSize \in Nat \ {0} /\ PosInBuf \in 0 .. PageSize - 1
      /\ RoomInBuf = PageSize - PosInBuf /\ toWrite \in 0 .. log_entry_size
      /\ PosInLogbuf \in 0 .. log_entry_size /\ log_entry_size \in Nat
      /\ Logged \in Nat
  BY <1>0, Numbers DEF RoomInBuf
<1>3. q \in Nat /\ PageSize * q \in Nat /\ At = PageSize * q + PosInBuf
  BY <1>1, <1>2, QuotientAndRest DEF PosInBuf
<1>4. SUFFICES ASSUME NEW m \in 0 .. (At + Chunk) - 1,
                      m \div PageSize = At \div PageSize
               PROVE  BufWith(Chunk)[m % PageSize] = Cell(m)
  BY Zenon DEF PageHas
<1>5. /\ m \in Nat /\ m % PageSize \in 0 .. PageSize - 1
      /\ m = PageSize * q + (m % PageSize)
  <2>1. m \in Nat
    BY <1>1, <1>4
  <2>2. /\ m % PageSize \in 0 .. PageSize - 1
        /\ m = PageSize * (m \div PageSize) + (m % PageSize)
    BY <2>1, <1>2, QuotientAndRest
  <2>3. m \div PageSize = q
    BY <1>4
  <2> HIDE DEF q
  <2> QED BY <2>1, <2>2, <2>3
<1>6. BufWith(Chunk)[m % PageSize] =
        IF m % PageSize \in PosInBuf .. PosInBuf + Chunk - 1
        THEN logbuf[PosInLogbuf + ((m % PageSize) - PosInBuf)] ELSE buf[m % PageSize]
  BY <1>5 DEF BufWith
<1>7. CASE m < At
  <2>1. m % PageSize \notin PosInBuf .. PosInBuf + Chunk - 1
    <3> DEFINE s == m % PageSize
    <3>1. s \in 0 .. PageSize - 1 /\ m = PageSize * q + s
      BY <1>5
    <3> HIDE DEF s, q
    <3>2. s < PosInBuf
      BY <3>1, <1>2, <1>3, <1>5, <1>7
    <3>3. s \notin PosInBuf .. PosInBuf + Chunk - 1
      BY <3>1, <3>2, <1>1, <1>2
    <3> QED BY <3>3 DEF s
  <2>2. m \in 0 .. At - 1
    BY <1>1, <1>5, <1>7
  <2>3. PageHas(buf, q, At)
    BY DEF LogInv
  <2>4. buf[m % PageSize] = Cell(m)
    BY <2>2, <2>3, <1>4 DEF PageHas
  <2> QED BY <1>6, <2>1, <2>4
<1>8. CASE m >= At
  <2> DEFINE k == m - At
  <2>1. k \in 0 .. Chunk - 1 /\ m = At + k
    BY <1>1, <1>5, <1>8
  <2> HIDE DEF k, q
  <2>2. /\ m % PageSize = PosInBuf + k /\ m \div log_entry_size = Logged
        /\ m % log_entry_size = PosInLogbuf + k
    BY <2>1, <1>0, ChunkFacts
  <2>3. (m % PageSize) - PosInBuf = k /\ m % PageSize \in PosInBuf .. PosInBuf + Chunk - 1
    BY <2>1, <2>2, <1>1, <1>2
  <2>4. BufWith(Chunk)[m % PageSize] = logbuf[PosInLogbuf + k]
    BY <1>6, <2>3
  <2>5. logbuf = made[Logged + 1]
    BY <1>0 DEF LogInv
  <2> QED BY <2>2, <2>4, <2>5 DEF Cell
<1> QED BY <1>1, <1>5, <1>7, <1>8

\* Behind a full page the log goes on at the start of the next one; behind a tail
\* it goes on on the same page.
LEMMA NextPosition ==
  ASSUME LogAssumption, TypeInv, pc \in {"full", "tail"}
  PROVE  /\ At + Chunk \in Nat
         /\ (At + Chunk) \div PageSize =
               (At \div PageSize) + (IF pc = "full" THEN 1 ELSE 0)
         /\ pc = "full" => (At + Chunk) % PageSize = 0
         /\ Chunk = (IF pc = "full" THEN RoomInBuf ELSE toWrite)
<1> DEFINE q == At \div PageSize
           n == At + Chunk
<1>0. InChunk
  BY DEF InChunk
<1>1. /\ At \in Nat /\ At = processed + PosInLogbuf
      /\ Chunk \in 0 .. toWrite /\ Chunk <= RoomInBuf
  BY <1>0, ChunkFacts
<1>2. /\ PageSize \in Nat \ {0} /\ PosInBuf \in 0 .. PageSize - 1
      /\ RoomInBuf = PageSize - PosInBuf /\ toWrite \in 0 .. log_entry_size
  BY Numbers DEF RoomInBuf
<1>3. q \in Nat /\ PageSize * q \in Nat /\ At = PageSize * q + PosInBuf
  BY <1>1, <1>2, QuotientAndRest DEF PosInBuf
<1>4. Chunk = (IF pc = "full" THEN RoomInBuf ELSE toWrite)
  BY DEF TypeInv, Chunk
<1>5. n \in Nat /\ n = PageSize * q + PosInBuf + Chunk
  BY <1>1, <1>2, <1>3
<1>6. PageSize * (q + 1) \in Nat /\ PageSize * (q + 1) = PageSize * q + PageSize
  BY <1>2, <1>3, Multiples
<1> HIDE DEF q, n
<1>7. CASE pc = "full"
  <2>1. n = PageSize * (q + 1)
    BY <1>2, <1>3, <1>4, <1>5, <1>6, <1>7
  <2>2. PageSize * (q + 1) <= n /\ n < PageSize * (q + 1) + PageSize /\ q + 1 \in Nat
    BY <1>2, <1>3, <1>6, <2>1
  <2>3. n \div PageSize = q + 1 /\ n % PageSize = n - PageSize * (q + 1)
    BY <2>2, <1>2, <1>5, QuotientIs
  <2>4. n % PageSize = 0
    BY <2>1, <2>3, <1>6
  <2> QED BY <1>4, <1>5, <1>7, <2>3, <2>4 DEF q, n
<1>8. CASE pc = "tail"
  <2>1. Chunk < RoomInBuf
    BY <1>2, <1>4, <1>8 DEF TypeInv, FillsPage
  <2>2. PageSize * q <= n /\ n < PageSize * q + PageSize
    BY <1>1, <1>2, <1>3, <1>5, <2>1
  <2>3. n \div PageSize = q
    BY <2>2, <1>2, <1>3, <1>5, QuotientIs
  <2> QED BY <1>4, <1>5, <1>8, <1>3, <2>3 DEF q, n
<1> QED BY <1>7, <1>8

\* Cells are those of the entries that were there before: appending one changes none.
LEMMA SameCells ==
  ASSUME LogAssumption, TypeInv, Logged <= Len(made),
         UNCHANGED log_entry_size,
         NEW e, made' = made \/ made' = Append(made, e),
         NEW n \in Nat, n < log_entry_size * Logged \/ made' = made
  PROVE  Cell(n)' = Cell(n)
<1>1. CASE made' = made
  BY <1>1 DEF Cell
<1>2. CASE made' = Append(made, e) /\ n < log_entry_size * Logged
  <2> DEFINE k == n \div log_entry_size
           r == n % log_entry_size
  <2>a. log_entry_size \in Nat \ {0} /\ Logged \in Nat
    BY Numbers
  <2>b. /\ k \in Nat /\ r \in 0 .. log_entry_size - 1
        /\ log_entry_size * k \in Nat /\ n = log_entry_size * k + r
    BY <2>a, QuotientAndRest
  <2> HIDE DEF k, r
  <2>1. /\ k \in Nat /\ log_entry_size * k \in Nat /\ log_entry_size * k <= n
        /\ log_entry_size \in Nat \ {0} /\ Logged \in Nat
    BY <2>a, <2>b
  <2>2. k < Logged
    <3> SUFFICES ASSUME k >= Logged PROVE FALSE
      BY <2>1
    <3>1. log_entry_size * k >= log_entry_size * Logged
      BY <2>1
    <3> QED BY <3>1, <2>1, <1>2
  <2>3. made \in Seq(Entry)
    BY DEF TypeInv, TypeOK
  <2>4. k + 1 \in 1 .. Len(made)
    BY <2>1, <2>2, <2>3, LenProperties
  <2>5. Append(made, e)[k + 1] = made[k + 1]
    BY <2>3, <2>4
  <2>6. made'[k + 1] = made[k + 1]
    BY <1>2, <2>5
  <2> QED BY <2>6 DEF Cell, k
<1> QED BY <1>1, <1>2

\* The log holds in the first state, where it is empty.
LEMMA InitLogged ==
  ASSUME LogAssumption, Init, log_entry_size # 0
  PROVE  LogInv
<1>1. TypeInv
  BY InitTyped
<1>2. pc = "entry" /\ processed = 0 /\ made = <<>> /\ current = FirstPage
  BY DEF Init
<1>3. PageSize \in Nat \ {0} /\ log_entry_size \in Nat \ {0}
  BY DEF LogAssumption, Init
<1>4. 0 \div PageSize = 0 /\ 0 \div log_entry_size = 0
  <2>1. PageSize * 0 = 0 /\ log_entry_size * 0 = 0
    BY <1>3, Multiples
  <2> QED BY <1>3, <2>1, Multiples
<1>5. Logged = 0 /\ At = 0
  BY <1>2, <1>4 DEF Logged, At, InChunk, InEntries
<1>6. MediaHas(0) /\ PageHas(buf, 0, 0)
  BY DEF MediaHas, PageHas
<1>7. Len(made) = 0 /\ current = FirstPage + 0 + 0
  BY <1>2 DEF FirstPage
<1> QED BY <1>1, <1>2, <1>4, <1>5, <1>6, <1>7 DEF LogInv, InEntry, InChunk

\* Whatever an action does that leaves the medium, the log and the header alone
\* leaves the log on the medium.
LEMMA SameMedia ==
  ASSUME LogAssumption, TypeInv, Logged <= Len(made),
         UNCHANGED <<pages, committing, log_entry_size>>,
         NEW e, made' = made \/ made' = Append(made, e),
         NEW n \in Nat, n <= log_entry_size * Logged \/ made' = made,
         MediaHas(n)
  PROVE  MediaHas(n)'
<1>1. ASSUME NEW m \in 0 .. n - 1
      PROVE  FirstPage' + (m \div PageSize) \in PageIds /\ OnMedia(m)' = Cell(m)'
  <2>1. m \in Nat /\ (m < log_entry_size * Logged \/ made' = made)
    BY Numbers, Multiples
  <2>2. Cell(m)' = Cell(m)
    BY <2>1, SameCells
  <2>3. FirstPage' = FirstPage /\ OnMedia(m)' = OnMedia(m)
    BY DEF FirstPage, OnMedia
  <2>4. FirstPage + (m \div PageSize) \in PageIds /\ OnMedia(m) = Cell(m)
    BY DEF MediaHas
  <2> QED BY <2>2, <2>3, <2>4
<1> QED BY <1>1 DEF MediaHas

\* A new entry is begun.
LEMMA StartEntryLogs ==
  ASSUME LogAssumption, LogInv, TypeInv', StartEntry
  PROVE  LogInv'
<1>0. TypeInv
  BY DEF LogInv
<1>1. /\ pc = "entry" /\ pc' = "chunk" /\ toWrite' = log_entry_size
      /\ made' = Append(made, logbuf')
      /\ UNCHANGED <<committing, log_entry_size, processed, current, buf, entries,
                      out, pages>>
  BY <1>0 DEF StartEntry, TypeInv
<1>2. /\ At = processed /\ processed \in Nat /\ Logged \in Nat
      /\ processed = log_entry_size * Logged
  BY <1>0, <1>1, Numbers DEF At, InChunk, TypeInv
<1>3. Logged' = Logged
  BY <1>1 DEF Logged, InEntries
<1>4. At' = processed
  BY <1>1, <1>2, <1>0, Numbers DEF At, InChunk, PosInLogbuf
<1>5. Len(made) = Logged /\ made \in Seq(Entry)
  BY <1>0, <1>1 DEF LogInv, TypeInv, TypeOK
<1>6. logbuf' \in Entry
  BY <1>1 DEF TypeInv, TypeOK, Entry
<1>7. Len(made') = Logged + 1 /\ made'[Logged + 1] = logbuf'
  BY <1>1, <1>5, <1>6, <1>2
<1>8. Logged <= Len(made)
  BY <1>2, <1>5
<1>9. MediaHas(processed)'
  <2>1. MediaHas(processed)
    BY <1>2 DEF LogInv
  <2>2. UNCHANGED <<pages, committing, log_entry_size>>
    BY <1>1
  <2> DEFINE n == processed
  <2>3. n \in Nat /\ n <= log_entry_size * Logged /\ MediaHas(n) /\ n = n'
    BY <1>1, <1>2, <2>1
  <2>4. \A k \in Nat : k <= log_entry_size * Logged /\ MediaHas(k) => MediaHas(k)'
    BY <1>0, <1>1, <1>8, <2>2, SameMedia
  <2>5. \A m \in 0 .. processed - 1 :
          FirstPage' + (m \div PageSize) \in PageIds /\ OnMedia(m)' = Cell(m)'
    BY <2>3, <2>4 DEF MediaHas
  <2> QED BY <2>5, <1>1 DEF MediaHas
<1>10. PageHas(buf, processed \div PageSize, processed)'
  <2>1. PageHas(buf, processed \div PageSize, processed)
    BY <1>1, <1>2 DEF LogInv
  <2>2. ASSUME NEW m \in 0 .. processed - 1, m \div PageSize = processed \div PageSize
        PROVE  buf[m % PageSize] = Cell(m)'
    <3>1. m \in Nat /\ m < log_entry_size * Logged
      BY <1>2
    <3>2. Cell(m)' = Cell(m)
      BY <3>1, <1>0, <1>1, <1>8, SameCells
    <3>3. buf[m % PageSize] = Cell(m)
      BY <2>1, <2>2 DEF PageHas
    <3> QED BY <3>2, <3>3
  <2> QED BY <2>2, <1>1 DEF PageHas
<1>11. current' = FirstPage' + (At' \div PageSize) + 0
  <2>1. current = FirstPage + (processed \div PageSize) + 0
    BY <1>1, <1>2 DEF LogInv
  <2> QED BY <2>1, <1>1, <1>4 DEF FirstPage
<1>12. MediaHas(At)' /\ PageHas(buf, At \div PageSize, At)'
  <2>1. At' = processed'
    BY <1>1, <1>4
  <2> QED BY <2>1, <1>9, <1>10 DEF MediaHas, PageHas
<1>13. Logged' <= Len(made')
  BY <1>2, <1>3, <1>7
<1> QED BY <1>1, <1>3, <1>7, <1>11, <1>12, <1>13 DEF LogInv, InEntry, InChunk

\* A chunk is in the page buffer, and the page on its way.
LEMMA ChunkGoesOut ==
  ASSUME LogAssumption, LogInv, TypeInv', FillPage \/ ExtendPage
  PROVE  LogInv'
<1>0. TypeInv
  BY DEF LogInv
<1>1. /\ pc = "chunk" /\ pc' = (IF FillsPage THEN "full" ELSE "tail")
      /\ buf' = BufWith(Chunk)
      /\ out' = [page |-> current, data |-> buf']
      /\ current' = current + (IF pc' = "full" THEN 1 ELSE 0)
      /\ UNCHANGED <<committing, log_entry_size, processed, toWrite, logbuf, entries,
                      pages, made>>
  <2>1. current \in Nat
    BY <1>0 DEF TypeInv, TypeOK
  <2>2. CASE FillPage
    BY <2>2, <2>1 DEF FillPage, Chunk
  <2>3. CASE ExtendPage
    BY <2>3, <2>1 DEF ExtendPage, Chunk
  <2> QED BY <2>2, <2>3
<1>2. Logged' = Logged /\ FirstPage' = FirstPage /\ Chunk' = Chunk /\ At' = At
  BY <1>1 DEF Logged, FirstPage, Chunk, FillsPage, RoomInBuf, PosInBuf, PosInLogbuf,
              At, InChunk, InEntries
<1>3. PageHas(buf', At \div PageSize, At + Chunk)
  BY <1>1, BufTakesChunk
<1>4. (\A n : Cell(n)' = Cell(n)) /\ (\A n : OnMedia(n)' = OnMedia(n))
  BY <1>1, <1>2 DEF Cell, OnMedia
<1>5. PageHas(buf, At \div PageSize, At + Chunk)'
  BY <1>2, <1>3, <1>4 DEF PageHas
<1>6. MediaHas(At)'
  BY <1>2, <1>4 DEF MediaHas, LogInv
<1>7. current = FirstPage + (At \div PageSize)
  <2>1. current = FirstPage + (At \div PageSize) + 0
    BY <1>1 DEF LogInv, InEntry
  <2>2. At \div PageSize \in Nat
    BY <1>0, <1>1, ChunkFacts, Numbers, QuotientAndRest DEF InChunk
  <2> QED BY <2>1, <2>2, <1>0, Numbers
<1>8. Len(made) = Logged + 1 /\ Logged <= Len(made) /\ logbuf = made[Logged + 1]
  BY <1>1 DEF LogInv, InEntry, InChunk
<1>9. out' = [page |-> FirstPage' + (At' \div PageSize), data |-> buf']
  BY <1>1, <1>2, <1>7
<1>10. current' = FirstPage' + (At' \div PageSize) + (IF pc' = "full" THEN 1 ELSE 0)
  BY <1>1, <1>2, <1>7
<1> QED BY <1>1, <1>2, <1>5, <1>6, <1>8, <1>9, <1>10 DEF LogInv, InEntry, InChunk

\* A cell of a page reaches the medium: it is what the log has there already, or
\* behind the log.
LEMMA CellOnMedia ==
  ASSUME LogAssumption, LogInv, TypeInv', PersistCell
  PROVE  LogInv'
<1>0. TypeInv
  BY DEF LogInv
<1>1. PICK i \in 0 .. PageSize - 1 :
        pages' = [pages EXCEPT ![out.page][i] = out.data[i]]
  BY DEF PersistCell
<1>2. /\ pc \in {"full", "tail", "watermark"} /\ out.page \in PageIds
      /\ UNCHANGED <<pc, committing, log_entry_size, processed, toWrite, current, buf,
                      logbuf, entries, out, made>>
  BY DEF PersistCell, InPageout
<1>3. /\ Logged' = Logged /\ FirstPage' = FirstPage /\ Chunk' = Chunk /\ At' = At
      /\ \A n : Cell(n)' = Cell(n)
  BY <1>2 DEF Logged, FirstPage, Chunk, FillsPage, RoomInBuf, PosInBuf, PosInLogbuf,
              At, InChunk, Cell, InEntries
<1>4. pages \in [PageIds -> [0 .. PageSize - 1 -> Content]]
  BY <1>0 DEF TypeInv, TypeOK, Page
<1>5. At \in Nat /\ Chunk \in Nat
  <2>1. CASE InChunk
    BY <2>1, <1>0, ChunkFacts, Numbers
  <2>2. CASE pc = "watermark"
    <3>1. At = processed + log_entry_size /\ Chunk \in {RoomInBuf, toWrite}
      BY <2>2 DEF At, InChunk, Chunk
    <3> QED BY <3>1, <1>0, Numbers
  <2> QED BY <2>1, <2>2, <1>2 DEF InChunk
<1>6. ASSUME NEW m \in 0 .. At - 1
      PROVE  FirstPage + (m \div PageSize) \in PageIds /\ OnMedia(m)' = Cell(m)
  <2> DEFINE p == FirstPage + (m \div PageSize)
             s == m % PageSize
  <2>1. p \in PageIds /\ pages[p][s] = Cell(m)
    BY DEF LogInv, MediaHas, OnMedia
  <2>2. m \in Nat /\ s \in 0 .. PageSize - 1 /\ m \div PageSize \in Nat
    <3>1. m \in Nat /\ PageSize \in Nat \ {0}
      BY <1>0, <1>5, Numbers
    <3> QED BY <3>1, QuotientAndRest
  <2>3. OnMedia(m)' = pages'[p][s]
    BY <1>3 DEF OnMedia
  <2>4. CASE p = out.page /\ s = i
    <3>1. pages'[p][s] = out.data[s]
      BY <2>1, <2>2, <2>4, <1>1, <1>4
    <3>2. CASE pc \in {"full", "tail"}
      <4>1. /\ out.page = FirstPage + (At \div PageSize) /\ out.data = buf
            /\ PageHas(buf, At \div PageSize, At + Chunk)
        BY <3>2 DEF LogInv
      <4>2. m \div PageSize = At \div PageSize
        <5>1. At \div PageSize \in Nat /\ FirstPage \in Nat
          <6>1. PageSize \in Nat \ {0} /\ FirstPage \in Nat
            BY <1>0, Numbers
          <6> QED BY <6>1, <1>5, QuotientAndRest
        <5> QED BY <5>1, <2>2, <2>4, <4>1
      <4>3. m \in 0 .. (At + Chunk) - 1
        BY <1>5
      <4>4. buf[m % PageSize] = Cell(m)
        BY <4>1, <4>2, <4>3 DEF PageHas
      <4> QED BY <2>1, <2>3, <3>1, <4>1, <4>4
    <3>3. CASE pc = "watermark"
      <4>1. out.page = 0 /\ FirstPage = 1
        BY <3>3, <1>0 DEF LogInv, TypeInv, FirstPage
      <4> QED BY <4>1, <2>2, <2>4
    <3> QED BY <1>2, <3>2, <3>3
  <2>5. CASE p # out.page \/ s # i
    <3>1. pages'[p][s] = pages[p][s]
      BY <2>1, <2>2, <2>5, <1>1, <1>4
    <3> QED BY <2>1, <2>3, <3>1
  <2> QED BY <2>1, <2>4, <2>5
<1>7. MediaHas(At)'
  BY <1>3, <1>6 DEF MediaHas
<1>8. /\ PageHas(buf, At \div PageSize, At)' = PageHas(buf, At \div PageSize, At)
      /\ PageHas(buf, At \div PageSize, At + Chunk)' =
           PageHas(buf, At \div PageSize, At + Chunk)
  BY <1>2, <1>3 DEF PageHas
<1> QED BY <1>2, <1>3, <1>7, <1>8 DEF LogInv, InEntry, InChunk

\* The page on its way has arrived: the log goes on behind the chunk.
LEMMA ChunkLogged ==
  ASSUME LogAssumption, LogInv, TypeInv', PageoutReturn,
         pc \in {"full", "tail"}, pc' = "chunk"
  PROVE  LogInv'
<1>0. TypeInv /\ InChunk
  BY DEF LogInv, InChunk
<1>1. /\ out.page \in PageIds => pages[out.page] = out.data
      /\ out.page \in PageIds
      /\ toWrite' = (IF pc = "full" THEN toWrite - RoomInBuf ELSE toWrite - toWrite)
      /\ UNCHANGED <<committing, log_entry_size, processed, current, buf, logbuf, entries,
                      pages, made>>
  BY DEF PageoutReturn, TailLeft
<1>2. /\ At + Chunk \in Nat
      /\ (At + Chunk) \div PageSize = (At \div PageSize) + (IF pc = "full" THEN 1 ELSE 0)
      /\ pc = "full" => (At + Chunk) % PageSize = 0
      /\ Chunk = (IF pc = "full" THEN RoomInBuf ELSE toWrite)
  BY <1>0, NextPosition
<1>3. /\ At \in Nat /\ At = processed + PosInLogbuf
      /\ Chunk \in 0 .. toWrite /\ Chunk <= RoomInBuf
  BY <1>0, ChunkFacts
<1>4. At' = At + Chunk
  <2>1. toWrite' = toWrite - Chunk
    BY <1>1, <1>2
  <2>2. At' = processed + (log_entry_size - toWrite')
    BY <1>1 DEF At, InChunk, PosInLogbuf
  <2>3. At = processed + (log_entry_size - toWrite)
    BY <1>3 DEF PosInLogbuf
  <2> QED BY <2>1, <2>2, <2>3, <1>0, <1>3, Numbers
<1>5. /\ Logged' = Logged /\ FirstPage' = FirstPage
      /\ \A n : Cell(n)' = Cell(n) /\ OnMedia(n)' = OnMedia(n)
  BY <1>1 DEF Logged, FirstPage, Cell, OnMedia, InEntries
<1>6. /\ out.page = FirstPage + (At \div PageSize) /\ out.data = buf
      /\ PageHas(buf, At \div PageSize, At + Chunk)
      /\ current = FirstPage + (At \div PageSize) + (IF pc = "full" THEN 1 ELSE 0)
  BY DEF LogInv, InEntry
<1>7. ASSUME NEW m \in 0 .. (At + Chunk) - 1
      PROVE  FirstPage + (m \div PageSize) \in PageIds /\ OnMedia(m) = Cell(m)
  <2>1. CASE m < At
    <3>1. m \in 0 .. At - 1
      BY <2>1, <1>3
    <3> QED BY <3>1 DEF LogInv, MediaHas
  <2>2. CASE ~(m < At)
    <3> DEFINE k == m - At
    <3>1. k \in 0 .. Chunk - 1 /\ m = At + k
      BY <2>2, <1>2, <1>3
    <3> HIDE DEF k
    <3>2. m \div PageSize = At \div PageSize
      BY <3>1, <1>0, ChunkFacts
    <3>3. buf[m % PageSize] = Cell(m)
      BY <1>6, <3>2 DEF PageHas
    <3>4. OnMedia(m) = pages[out.page][m % PageSize]
      BY <3>2, <1>6 DEF OnMedia
    <3> QED BY <3>2, <3>3, <3>4, <1>1, <1>6
  <2> QED BY <2>1, <2>2
<1>8. MediaHas(At)'
  BY <1>4, <1>5, <1>7 DEF MediaHas
<1>9. At \div PageSize \in Nat /\ PageSize \in Nat \ {0} /\ FirstPage \in Nat
  <2>1. PageSize \in Nat \ {0} /\ FirstPage \in Nat
    BY <1>0, Numbers
  <2> QED BY <2>1, <1>3, QuotientAndRest
<1>10. current' = FirstPage' + (At' \div PageSize) + 0
  BY <1>1, <1>2, <1>4, <1>5, <1>6, <1>9
<1>11. ASSUME NEW m \in 0 .. (At + Chunk) - 1,
              m \div PageSize = (At + Chunk) \div PageSize
       PROVE  buf[m % PageSize] = Cell(m)
  <2>1. CASE pc = "full"
    <3> DEFINE n == At + Chunk
               q == n \div PageSize
    <3>1. n \in Nat /\ m \in Nat /\ m < n
      BY <1>2
    <3>2. n = PageSize * q + (n % PageSize) /\ q \in Nat /\ PageSize * q \in Nat
      BY <1>9, <3>1, QuotientAndRest
    <3>3. n % PageSize = 0
      BY <1>2, <2>1
    <3> DEFINE s == m % PageSize
    <3>4. m = PageSize * (m \div PageSize) + s /\ s \in 0 .. PageSize - 1
      BY <1>9, <3>1, QuotientAndRest
    <3>5. m \div PageSize = q
      BY <1>11
    <3> HIDE DEF n, q, s
    <3>6. m = PageSize * q + s /\ n = PageSize * q
      BY <3>2, <3>3, <3>4, <3>5
    <3>7. FALSE
      BY <3>1, <3>2, <3>4, <3>6, <1>9
    <3> QED BY <3>7
  <2>2. CASE pc = "tail"
    <3>1. m \div PageSize = At \div PageSize
      BY <1>2, <1>9, <1>11, <2>2
    <3> QED BY <3>1, <1>6 DEF PageHas
  <2> QED BY <2>1, <2>2
<1>12. PageHas(buf, At \div PageSize, At)'
  BY <1>1, <1>4, <1>5, <1>11 DEF PageHas
<1>13. Len(made) = Logged + 1 /\ Logged <= Len(made) /\ logbuf = made[Logged + 1]
  BY <1>0 DEF LogInv, InEntry
<1>14. Len(made)' = Logged' + 1 /\ Logged' <= Len(made)' /\ logbuf' = made'[Logged' + 1]
  BY <1>1, <1>5, <1>13
<1> QED BY <1>8, <1>10, <1>12, <1>14 DEF LogInv, InEntry, InChunk

\* The entry is counted, after its watermark or without one.
LEMMA EntryCounted ==
  ASSUME LogAssumption, LogInv, TypeInv', pc \in {"chunk", "watermark"}, pc' = "entry",
         At = processed + log_entry_size, processed' = processed + log_entry_size,
         UNCHANGED <<committing, log_entry_size, current, buf, pages, made>>
  PROVE  LogInv'
<1>0. TypeInv
  BY DEF LogInv
<1>1. At' = At /\ FirstPage' = FirstPage
  BY DEF At, InChunk, FirstPage
<1>2. MoreToLog
  BY <1>0 DEF TypeInv, InEntry
<1>3. Logged' = Logged + 1
  BY <1>0, <1>2, CountedEntry
<1>4. \A n : Cell(n)' = Cell(n) /\ OnMedia(n)' = OnMedia(n)
  BY <1>1 DEF Cell, OnMedia
<1>5. MediaHas(At)'
  BY <1>1, <1>4 DEF LogInv, MediaHas
<1>6. PageHas(buf, At \div PageSize, At)'
  BY <1>1, <1>4 DEF LogInv, PageHas
<1>7. current' = FirstPage' + (At' \div PageSize) + 0
  BY <1>1 DEF LogInv, InEntry
<1>8. Len(made) = Logged + 1
  BY DEF LogInv, InEntry
<1>9. Len(made)' = Logged' /\ Logged' <= Len(made)'
  BY <1>3, <1>8, <1>0, Numbers
<1> QED BY <1>5, <1>6, <1>7, <1>9 DEF LogInv, InEntry, InChunk

\* The watermark goes out, and leaves the page buffer and the log alone.
LEMMA WatermarkGoesOut ==
  ASSUME LogAssumption, LogInv, TypeInv', UpdateWatermark
  PROVE  LogInv'
<1>0. TypeInv
  BY DEF LogInv
<1>1. /\ pc = "chunk" /\ toWrite = 0 /\ pc' = "watermark" /\ out'.page = 0
      /\ UNCHANGED <<committing, log_entry_size, processed, current, buf, pages, made>>
  BY DEF UpdateWatermark
<1>2. At' = At
  BY <1>0, <1>1, Numbers DEF At, InChunk, PosInLogbuf
<1>3. Logged' = Logged /\ FirstPage' = FirstPage
  BY <1>1 DEF Logged, FirstPage, InEntries
<1>4. \A n : Cell(n)' = Cell(n) /\ OnMedia(n)' = OnMedia(n)
  BY <1>1, <1>3 DEF Cell, OnMedia
<1>5. MediaHas(At)'
  BY <1>2, <1>3, <1>4 DEF LogInv, MediaHas
<1>6. PageHas(buf, At \div PageSize, At)'
  BY <1>1, <1>2, <1>4 DEF LogInv, PageHas
<1>7. current' = FirstPage' + (At' \div PageSize) + 0
  BY <1>1, <1>2, <1>3 DEF LogInv, InEntry
<1>8. Len(made)' = Logged' + 1 /\ Logged' <= Len(made)'
  BY <1>1, <1>3 DEF LogInv, InEntry
<1> QED BY <1>1, <1>5, <1>6, <1>7, <1>8 DEF LogInv, InEntry, InChunk

\* The workload ends, one way or another: what it has counted stays.
LEMMA EndLogged ==
  ASSUME LogAssumption, LogInv, TypeInv',
         pc' \in {"finished", "aborted", "crashed", "down"},
         UNCHANGED <<committing, log_entry_size, processed, pages, made>>
  PROVE  LogInv'
<1>0. TypeInv
  BY DEF LogInv
<1>1. At' = processed /\ Logged' = Logged /\ FirstPage' = FirstPage
  BY DEF At, InChunk, Logged, FirstPage, InEntries
<1>2. processed <= At /\ At \in Nat /\ processed \in Nat
  <2>1. processed \in Nat /\ PosInLogbuf \in Nat /\ log_entry_size \in Nat
    BY <1>0, Numbers
  <2> QED BY <2>1 DEF At
<1>3. \A m \in 0 .. processed - 1 : m \in 0 .. At - 1
  BY <1>2
<1>4. MediaHas(processed)
  BY <1>3 DEF LogInv, MediaHas
<1>5. \A n : Cell(n)' = Cell(n) /\ OnMedia(n)' = OnMedia(n)
  BY <1>1 DEF Cell, OnMedia
<1>6. MediaHas(At)'
  BY <1>1, <1>4, <1>5 DEF MediaHas
<1>7. Logged' <= Len(made)'
  BY <1>1 DEF LogInv
<1> QED BY <1>6, <1>7 DEF LogInv, InEntry, InChunk

\* Every action keeps the log.
LEMMA StepLogged == ASSUME LogAssumption, LogInv, [Next]_vars PROVE LogInv'
<1> USE SizeStays
<1>0. TypeInv /\ TypeInv'
  BY StepTyped DEF LogInv
<1>a. CASE StartEntry
  BY <1>a, <1>0, StartEntryLogs
<1>b. CASE Finish
  BY <1>b, <1>0, EndLogged DEF Finish
<1>c. CASE FillPage \/ ExtendPage
  BY <1>c, <1>0, ChunkGoesOut
<1>d. CASE UpdateWatermark
  BY <1>d, <1>0, WatermarkGoesOut
<1>e. CASE EndEntry
  <2>1. /\ pc = "chunk" /\ toWrite = 0 /\ pc' = "entry"
        /\ processed' = processed + log_entry_size
        /\ UNCHANGED <<committing, current, buf, pages, made>>
    BY <1>e DEF EndEntry
  <2>2. At = processed + log_entry_size
    BY <2>1, <1>0, Numbers DEF At, InChunk, PosInLogbuf
  <2> QED BY <2>1, <2>2, <1>0, EntryCounted
<1>f. CASE PersistCell
  BY <1>f, <1>0, CellOnMedia
<1>g. CASE PageoutReturn
  <2>1. UNCHANGED <<committing, current, buf, logbuf, entries, pages, made>>
    BY <1>g DEF PageoutReturn
  <2>2. CASE pc' \in {"aborted", "crashed"} /\ UNCHANGED processed
    BY <2>1, <2>2, <1>0, EndLogged
  <2>3. CASE pc \in {"full", "tail"} /\ pc' = "chunk"
    BY <1>g, <2>3, <1>0, ChunkLogged
  <2>4. CASE pc = "watermark" /\ pc' = "entry" /\ processed' = processed + log_entry_size
    <3>1. At = processed + log_entry_size
      BY <2>4 DEF At, InChunk
    <3> QED BY <2>1, <2>4, <3>1, <1>0, EntryCounted
  <2> QED BY <1>g, <2>2, <2>3, <2>4 DEF PageoutReturn
<1>h. CASE LosePower
  BY <1>h, <1>0, EndLogged DEF LosePower
<1>i. CASE UNCHANGED vars
  <2>1. /\ Logged' = Logged /\ FirstPage' = FirstPage /\ Chunk' = Chunk /\ At' = At
        /\ \A n : Cell(n)' = Cell(n) /\ OnMedia(n)' = OnMedia(n)
    BY <1>i DEF vars, Logged, FirstPage, Chunk, FillsPage, RoomInBuf, PosInBuf,
                PosInLogbuf, At, InChunk, Cell, OnMedia, InEntries
  <2>2. /\ MediaHas(At)' = MediaHas(At)
        /\ PageHas(buf, At \div PageSize, At)' = PageHas(buf, At \div PageSize, At)
        /\ PageHas(buf, At \div PageSize, At + Chunk)' =
             PageHas(buf, At \div PageSize, At + Chunk)
    BY <1>i, <2>1 DEF vars, MediaHas, PageHas
  <2> QED BY <1>0, <1>i, <2>1, <2>2 DEF LogInv, InEntry, InChunk, vars
<1> QED BY <1>a, <1>b, <1>c, <1>d, <1>e, <1>f, <1>g, <1>h, <1>i DEF Next, Step

\* What is on the medium cell by cell is there entry by entry.
LEMMA CellsAreEntries == ASSUME LogAssumption, LogInv PROVE EntriesOnMedia
<1>0. TypeInv
  BY DEF LogInv
<1>1. /\ log_entry_size \in Nat \ {0} /\ Logged \in Nat /\ processed \in Nat
      /\ log_entry_size * Logged = processed /\ PosInLogbuf \in Nat
  BY <1>0, Numbers DEF TypeInv
<1>2. At \in Nat /\ processed <= At
  BY <1>1 DEF At
<1>3. SUFFICES ASSUME NEW k \in 1 .. Logged PROVE EntryOnMedia(k) = made[k]
  BY DEF EntriesOnMedia
<1>4. made[k] \in Entry
  <2>1. made \in Seq(Entry) /\ Logged <= Len(made)
    BY <1>0 DEF LogInv, TypeInv, TypeOK
  <2>2. k \in 1 .. Len(made)
    BY <2>1, <1>1, LenProperties
  <2> QED BY <2>1, <2>2, ElementOfSeq
<1>5. ASSUME NEW j \in 0 .. log_entry_size - 1
      PROVE  OnMedia((k - 1) * log_entry_size + j) = made[k][j]
  <2> DEFINE n == (k - 1) * log_entry_size + j
             q == k - 1
  <2>1. q \in Nat /\ q + 1 <= Logged /\ q + 1 = k
    BY <1>1
  <2>2. /\ log_entry_size * q \in Nat /\ q * log_entry_size = log_entry_size * q
        /\ log_entry_size * (q + 1) = log_entry_size * q + log_entry_size
    BY <1>1, <2>1, Multiples
  <2>3. n = log_entry_size * q + j /\ n \in Nat
    BY <1>1, <2>1, <2>2
  <2> HIDE DEF n, q
  <2>4. log_entry_size * q <= n /\ n < log_entry_size * q + log_entry_size
    BY <1>1, <2>2, <2>3
  <2>5. n \div log_entry_size = q /\ n % log_entry_size = n - log_entry_size * q
    BY <1>1, <2>1, <2>3, <2>4, QuotientIs
  <2>6. n % log_entry_size = j
    BY <2>2, <2>3, <2>5
  <2>7. log_entry_size * (q + 1) <= log_entry_size * Logged
    BY <1>1, <2>1
  <2>8. n \in 0 .. At - 1
    BY <1>1, <1>2, <2>2, <2>3, <2>4, <2>7
  <2>9. OnMedia(n) = Cell(n)
    BY <2>8 DEF LogInv, MediaHas
  <2>10. Cell(n) = made[k][j]
    BY <2>1, <2>5, <2>6 DEF Cell
  <2> QED BY <2>9, <2>10 DEF n, q
<1>6. EntryOnMedia(k) = [j \in 0 .. log_entry_size - 1 |-> made[k][j]]
  BY <1>5 DEF EntryOnMedia
<1> QED BY <1>4, <1>6 DEF Entry, EntryOf

\* Every entry that the logging workload (logging.cpp) has counted is on the medium
\* as it was made, whatever the sizes and wherever the power fails, although the page
\* an entry ends on is written again and again.
THEOREM LoggedIsDurable == Spec => []EntriesOnMedia
<1> USE LogAssumption
<1>1. Init => EmptyInv \/ LogInv
  BY InitEmpty, InitLogged
<1>2. (EmptyInv \/ LogInv) /\ [Next]_vars => (EmptyInv \/ LogInv)'
  BY StepEmpty, StepLogged
<1>3. EmptyInv => EntriesOnMedia
  <2> SUFFICES ASSUME EmptyInv PROVE EntriesOnMedia
    OBVIOUS
  <2>1. Logged = 0
    BY EmptyNumbers DEF EmptyInv
  <2> QED BY <2>1 DEF EntriesOnMedia
<1>4. EmptyInv \/ LogInv => EntriesOnMedia
  BY <1>3, CellsAreEntries
<1> QED BY <1>1, <1>2, <1>4, PTL DEF Spec

-----------------------------------------------------------------------------
(* The end of the space.                                                    *)

\* A write that is refused is one behind the last page, and the entry reaches to that
\* page or beyond.
LEMMA RefusedBehindTheEnd ==
  ASSUME LogAssumption, LogInv, InPageout, out.page \notin PageIds
  PROVE  FirstPage + ((processed + log_entry_size - 1) \div PageSize) \notin PageIds
<1>0. TypeInv
  BY DEF LogInv
<1>1. /\ PageSize \in Nat \ {0} /\ log_entry_size \in Nat \ {0} /\ TotalPages \in Nat
      /\ processed \in Nat /\ FirstPage \in Nat
  BY <1>0, Numbers
<1> DEFINE last == processed + log_entry_size - 1
           q == last \div PageSize
<1>2. last \in Nat
  BY <1>1
<1>3. q \in Nat
  BY <1>1, <1>2, QuotientAndRest
<1>4. CASE pc \in {"full", "tail"}
  <2> DEFINE p == At \div PageSize
  <2>1. InChunk /\ toWrite > 0 /\ out.page = FirstPage + p
    BY <1>0, <1>4 DEF InChunk, LogInv, TypeInv
  <2>2. At \in Nat /\ At <= last
    BY <1>0, <1>1, <2>1, ChunkFacts, Numbers DEF PosInLogbuf
  <2> HIDE DEF last
  <2>3. p <= q /\ p \in Nat
    BY <1>1, <1>2, <2>2, QuotientMonotonic, QuotientAndRest
  <2> HIDE DEF p, q
  <2>4. FirstPage + q \notin PageIds
    BY <1>1, <1>3, <2>1, <2>3 DEF PageIds
  <2> QED BY <2>4 DEF q, last
<1>5. CASE pc = "watermark"
  <2>1. out.page = 0
    BY <1>5 DEF LogInv
  <2> HIDE DEF q
  <2>2. FirstPage + q \notin PageIds
    BY <1>1, <1>3, <2>1 DEF PageIds
  <2> QED BY <2>2 DEF q
<1> QED BY <1>4, <1>5 DEF InPageout

\* With a watermark of empty entries a write that is refused has no page 0 to go to.
LEMMA EmptyRefused ==
  ASSUME LogAssumption, EmptyInv, InPageout, out.page = 0, out.page \notin PageIds
  PROVE  FirstPage + ((processed + log_entry_size - 1) \div PageSize) \notin PageIds
<1>1. PageSize \in Nat \ {0} /\ TotalPages = 0
  BY DEF LogAssumption, PageIds
<1> QED BY <1>1 DEF PageIds

\* No entry has been counted, and none will be.
LogsNothing == processed = 0 /\ pc # "finished"

\* What every pageout() that fails leaves: the first page of the first entry is never
\* behind the workload.
FailsAtOnce ==
  /\ log_entry_size \in EntrySizes
  /\ LogsNothing
  /\ pc = "chunk" => toWrite = log_entry_size

\* What keeps the workload from giving up early.
GoesOn ==
  /\ EmptyInv \/ LogInv
  /\ pc = "watermark" => out.page = 0
  /\ AbortsOnlyWhenFull

\* As coded, pageout() reports BM_WRITE_FAILURE for every write (buffer_manager.cpp:71),
\* and the logging workload (logging.cpp:23, :38, :45) never gets behind its first page:
\* it counts no entry and does not finish, whatever the sizes.  With the status the
\* write deserves it would give up only at an entry that does not fit behind the pages.
THEOREM GivesUpOnlyWhenFull ==
  /\ WriteStatus = "BM_WRITE_FAILURE" => (Spec => []LogsNothing)
  /\ WriteStatus = "BM_WRITE_SUCCESS" => (Spec => []AbortsOnlyWhenFull)
<1> USE LogAssumption
<1>1. ASSUME WriteStatus = "BM_WRITE_SUCCESS" PROVE Spec => []AbortsOnlyWhenFull
  <2>1. Init => GoesOn
    BY InitEmpty, InitLogged DEF Init, AbortsOnlyWhenFull, GoesOn
  <2>2. GoesOn /\ [Next]_vars => GoesOn'
    <3> SUFFICES ASSUME GoesOn, [Next]_vars PROVE AbortsOnlyWhenFull' /\
                        (pc = "watermark" => out.page = 0)'
      BY StepEmpty, StepLogged DEF GoesOn
    <3>0. UNCHANGED log_entry_size
      BY SizeStays
    <3>1. CASE PageoutReturn
      <4>1. UNCHANGED committing /\ pc' # "watermark"
        BY <3>1 DEF PageoutReturn
      <4>2. CASE pc' \in {"aborted", "crashed"}
        <5>1. InPageout /\ out.page \notin PageIds /\ UNCHANGED processed
          BY <1>1, <3>1, <4>2 DEF PageoutReturn
        <5>2. EmptyInv => out.page = 0
          BY <5>1 DEF EmptyInv, InPageout, GoesOn
        <5>3. FirstPage + ((processed + log_entry_size - 1) \div PageSize) \notin PageIds
          BY <5>1, <5>2, EmptyRefused, RefusedBehindTheEnd DEF GoesOn
        <5> QED BY <3>0, <4>1, <5>1, <5>3 DEF AbortsOnlyWhenFull, FirstPage
      <4>3. CASE pc' \notin {"aborted", "crashed"}
        BY <4>1, <4>3 DEF AbortsOnlyWhenFull
      <4> QED BY <4>2, <4>3
    <3>2. CASE \/ StartEntry \/ Finish \/ FillPage \/ ExtendPage
               \/ UpdateWatermark \/ EndEntry \/ LosePower
      <4>1. pc' \notin {"aborted", "crashed"} /\ (pc' = "watermark" => out'.page = 0)
        BY <3>2 DEF StartEntry, Finish, FillPage, ExtendPage, UpdateWatermark, EndEntry,
                    LosePower
      <4> QED BY <4>1 DEF AbortsOnlyWhenFull
    <3>3. CASE PersistCell \/ UNCHANGED vars
      <4>1. UNCHANGED <<pc, committing, processed, out>>
        BY <3>3 DEF PersistCell, vars
      <4> QED BY <3>0, <4>1 DEF AbortsOnlyWhenFull, FirstPage, GoesOn
    <3> QED BY <3>1, <3>2, <3>3 DEF Next, Step
  <2>3. GoesOn => AbortsOnlyWhenFull
    BY DEF GoesOn
  <2> QED BY <2>1, <2>2, <2>3, PTL DEF Spec
<1>2. ASSUME WriteStatus = "BM_WRITE_FAILURE" PROVE Spec => []LogsNothing
  <2>1. Init => FailsAtOnce
    BY DEF Init, FailsAtOnce, LogsNothing
  <2>2. FailsAtOnce /\ [Next]_vars => FailsAtOnce'
    <3> SUFFICES ASSUME FailsAtOnce, [Next]_vars PROVE FailsAtOnce'
      OBVIOUS
    <3>0. /\ UNCHANGED log_entry_size /\ log_entry_size \in Nat
          /\ WriteStatus = "BM_WRITE_FAILURE"
      BY <1>2, SizeStays DEF FailsAtOnce, LogAssumption
    <3>1. CASE Finish
      BY <3>1 DEF Finish, MoreToLog, FailsAtOnce, LogsNothing, LogAssumption
    <3>2. CASE EndEntry
      <4>1. log_entry_size = 0
        BY <3>2 DEF EndEntry, FailsAtOnce
      <4> QED BY <3>0, <3>2, <4>1 DEF EndEntry, FailsAtOnce, LogsNothing
    <3>3. CASE \/ StartEntry \/ FillPage \/ ExtendPage \/ UpdateWatermark
               \/ PersistCell \/ LosePower \/ UNCHANGED vars
      BY <3>0, <3>3 DEF StartEntry, FillPage, ExtendPage, UpdateWatermark, PersistCell,
                        LosePower, vars, FailsAtOnce, LogsNothing
    <3>4. CASE PageoutReturn
      BY <3>0, <3>4 DEF PageoutReturn, FailsAtOnce, LogsNothing
    <3> QED BY <3>1, <3>2, <3>3, <3>4 DEF Next, Step
  <2>3. FailsAtOnce => LogsNothing
    BY DEF FailsAtOnce
  <2> QED BY <2>1, <2>2, <2>3, PTL DEF Spec
<1> QED BY <1>1, <1>2

-----------------------------------------------------------------------------
(* The durable log.                                                         *)

AbstractLog == [k \in 1 .. Logged |-> EntryOnMedia(k)]

Pending == IF Running /\ pc # "entry" /\ made # <<>> THEN made[Len(made)] ELSE Junk

\* The possible entries of all sizes.
AnyEntry == UNION {EntryOf(n) : n \in EntrySizes}

\* The abstract log consists of the entries that have been counted.
LEMMA LogOfEntries ==
  LogAssumption /\ LogInv => AbstractLog = [k \in 1 .. Logged |-> made[k]]
BY CellsAreEntries DEF AbstractLog, EntriesOnMedia

\* The counted entries are entries.
LEMMA CountedAreEntries ==
  ASSUME LogAssumption, LogInv
  PROVE  /\ made \in Seq(Entry) /\ Logged \in Nat /\ Logged <= Len(made)
         /\ \A k \in 1 .. Len(made) : made[k] \in Entry
         /\ InEntry => Len(made) = Logged + 1 /\ made[Len(made)] \in Entry
<1>1. made \in Seq(Entry) /\ Logged \in Nat /\ Logged <= Len(made)
  BY Numbers DEF LogInv, TypeInv, TypeOK
<1>2. \A k \in 1 .. Len(made) : made[k] \in Entry
  BY <1>1, ElementOfSeq
<1>3. InEntry => Len(made) = Logged + 1
  BY DEF LogInv
<1>4. InEntry => Len(made) \in 1 .. Len(made)
  BY <1>1, <1>3
<1> QED BY <1>1, <1>2, <1>3, <1>4

\* Counting one more entry appends it to the abstract log.
LEMMA CountingAppends ==
  ASSUME LogAssumption, LogInv, Len(made) = Logged + 1
  PROVE  [k \in 1 .. Logged + 1 |-> made[k]] =
           Append([k \in 1 .. Logged |-> made[k]], made[Logged + 1])
<1> DEFINE short == [k \in 1 .. Logged |-> made[k]]
           long == [k \in 1 .. Logged + 1 |-> made[k]]
<1>1. /\ Logged \in Nat
      /\ \A k \in 1 .. Logged + 1 : made[k] \in Entry
  BY CountedAreEntries
<1>2. short \in [1 .. Logged -> Entry] /\ long \in [1 .. Logged + 1 -> Entry]
  BY <1>1
<1>3. /\ short \in Seq(Entry) /\ Len(short) = Logged
      /\ long \in Seq(Entry) /\ Len(long) = Logged + 1
  BY <1>1, <1>2
<1>4. \A k \in 1 .. Logged : short[k] = made[k]
  OBVIOUS
<1>5. \A k \in 1 .. Logged + 1 : long[k] = made[k]
  OBVIOUS
<1> HIDE DEF short, long
<1>6. long = Append(short, made[Logged + 1])
  <2> DEFINE e == made[Logged + 1]
             more == Append(short, e)
  <2>1. e \in Entry
    BY <1>1
  <2>2. more \in Seq(Entry) /\ Len(more) = Logged + 1
    BY <1>3, <2>1, AppendProperties
  <2>3. ASSUME NEW k \in 1 .. Logged + 1 PROVE more[k] = long[k]
    <3>1. CASE k = Logged + 1
      BY <3>1, <1>1, <1>3, <1>5, <2>1, AppendProperties
    <3>2. CASE k # Logged + 1
      <4>1. k \in 1 .. Logged
        BY <3>2, <1>1
      <4>2. more[k] = short[k]
        BY <4>1, <1>3, <2>1, AppendProperties
      <4> QED BY <4>1, <4>2, <1>4, <1>5
    <3> QED BY <3>1, <3>2
  <2> HIDE DEF more
  <2>4. more = long
    BY <1>1, <1>3, <2>2, <2>3, SeqEqual
  <2> QED BY <2>4 DEF more
<1> QED BY <1>6 DEF short, long

\* Every step of the workload is a step of the abstract log, or none.
LEMMA StepRefines ==
  ASSUME LogAssumption, LogInv, LogInv', Next, Junk \notin AnyEntry,
         AbstractLog = [k \in 1 .. Logged |-> made[k]],
         AbstractLog' = [k \in 1 .. Logged' |-> made'[k]]
  PROVE  \/ /\ Pending = Junk /\ Pending' \in AnyEntry
            /\ AbstractLog' = AbstractLog
         \/ /\ Pending # Junk /\ Pending' = Junk
            /\ AbstractLog' = Append(AbstractLog, Pending)
         \/ Pending' = Junk /\ AbstractLog' = AbstractLog
         \/ Pending' = Pending /\ AbstractLog' = AbstractLog
<1>0. /\ UNCHANGED log_entry_size /\ log_entry_size # 0 /\ Entry' = Entry
      /\ Entry \subseteq AnyEntry
  BY SizeStays DEF LogInv, TypeInv, TypeOK, Entry, AnyEntry
<1>1. ASSUME processed' = processed, made' = made
      PROVE  AbstractLog' = AbstractLog
  BY <1>0, <1>1 DEF Logged, InEntries
<1>2. CASE StartEntry
  <2>1. /\ pc = "entry" /\ pc' = "chunk" /\ processed' = processed
        /\ made' = Append(made, logbuf')
    BY <1>0, <1>2 DEF StartEntry
  <2>2. Len(made)' = Logged' + 1 /\ made'[Len(made')] \in Entry /\ made' # <<>>
    <3>1. logbuf' \in Entry /\ made \in Seq(Entry)
      BY <1>0, CountedAreEntries DEF LogInv, TypeInv, TypeOK
    <3>2. Len(made') = Len(made) + 1 /\ made'[Len(made')] = logbuf' /\ Len(made) \in Nat
      BY <2>1, <3>1, AppendProperties
    <3>3. Len(made)' = Logged' + 1
      BY <2>1 DEF LogInv, InEntry
    <3> QED BY <3>1, <3>2, <3>3
  <2>3. Pending = Junk /\ Pending' = made'[Len(made')]
    BY <2>1, <2>2 DEF Pending, Running
  <2>4. Logged' = Logged
    BY <1>0, <2>1 DEF Logged, InEntries
  <2>5. made \in Seq(Entry) /\ Logged \in Nat /\ Logged <= Len(made)
    BY CountedAreEntries
  <2>6. logbuf' \in Entry
    BY <1>0 DEF LogInv, TypeInv, TypeOK
  <2>7. \A k \in 1 .. Logged : made'[k] = made[k]
    BY <2>1, <2>5, <2>6, AppendProperties
  <2>8. AbstractLog' = AbstractLog
    BY <2>4, <2>7
  <2> QED BY <1>0, <2>2, <2>3, <2>8
<1>3. CASE \/ FillPage \/ ExtendPage \/ UpdateWatermark \/ PersistCell
  <2>1. /\ UNCHANGED <<processed, made>>
        /\ pc \in {"chunk", "full", "tail", "watermark"}
        /\ pc' \in {"chunk", "full", "tail", "watermark"}
    BY <1>3 DEF FillPage, ExtendPage, UpdateWatermark, PersistCell, InPageout
  <2>2. Pending' = Pending
    BY <2>1 DEF Pending, Running
  <2> QED BY <1>1, <2>1, <2>2
<1>4. ASSUME pc \in {"chunk", "watermark"}, pc' = "entry", made' = made,
             processed' = processed + log_entry_size
      PROVE  /\ Pending # Junk /\ Pending' = Junk
             /\ AbstractLog' = Append(AbstractLog, Pending)
  <2>1. InEntry
    BY <1>4 DEF InEntry
  <2>2. /\ Len(made) = Logged + 1 /\ made[Len(made)] \in Entry
    BY <2>1, CountedAreEntries
  <2>3. Logged' = Logged + 1
    BY <1>0, <1>4, <2>1, CountedEntry DEF LogInv, TypeInv
  <2>4. Pending = made[Logged + 1] /\ Pending # Junk /\ Pending' = Junk
    <3>1. Logged \in Nat /\ made # <<>>
      BY <2>2, CountedAreEntries
    <3> QED BY <1>0, <1>4, <2>2, <3>1 DEF Pending, Running
  <2>5. AbstractLog' = [k \in 1 .. Logged + 1 |-> made[k]]
    BY <1>4, <2>3
  <2> QED BY <2>2, <2>4, <2>5, CountingAppends
<1>5. CASE EndEntry
  BY <1>4, <1>5 DEF EndEntry
<1>6. CASE PageoutReturn
  <2>1. made' = made
    BY <1>6 DEF PageoutReturn
  <2>2. CASE pc' \in {"aborted", "crashed"} /\ UNCHANGED processed
    BY <1>1, <2>1, <2>2 DEF Pending, Running
  <2>3. CASE pc \in {"full", "tail"} /\ pc' = "chunk" /\ UNCHANGED processed
    <3>1. Pending' = Pending
      BY <2>1, <2>3 DEF Pending, Running
    <3> QED BY <1>1, <2>1, <2>3, <3>1
  <2>4. CASE pc = "watermark" /\ pc' = "entry" /\ processed' = processed + log_entry_size
    BY <1>4, <2>1, <2>4
  <2> QED BY <1>6, <2>2, <2>3, <2>4 DEF PageoutReturn
<1>7. CASE Finish \/ LosePower
  <2>1. UNCHANGED <<processed, made>> /\ pc' \in {"finished", "down"}
    BY <1>7 DEF Finish, LosePower
  <2>2. Pending' = Junk
    BY <2>1 DEF Pending, Running
  <2> QED BY <1>1, <2>1, <2>2
<1> QED BY <1>2, <1>3, <1>5, <1>6, <1>7 DEF Next, Step

\* The logging workload is an append-only log: what it has counted is on the medium in
\* order and stays there, through the rewrites of shared pages and a power failure
\* (logging.cpp:27-55).  An entry is told apart from memory nobody has written.
THEOREM WorkloadIsDurableLog == Junk \notin AnyEntry => (Spec => ImplementsDurableLog)
<1> SUFFICES ASSUME Junk \notin AnyEntry PROVE Spec => ImplementsDurableLog
  OBVIOUS
<1> USE LogAssumption
<1> DEFINE Inv == EmptyInv \/ LogInv
           Counted == AbstractLog = [k \in 1 .. Logged |-> made[k]]
<1>1. Init => Inv
  BY InitEmpty, InitLogged
<1>2. Inv /\ [Next]_vars => Inv'
  BY StepEmpty, StepLogged
<1>3. EmptyInv => Logged = 0 /\ Pending = Junk
  BY EmptyNumbers DEF EmptyInv, Pending
<1>4. Inv => Counted
  <2>1. ASSUME EmptyInv PROVE Counted
    <3>1. Logged = 0
      BY <1>3, <2>1
    <3> QED BY <3>1 DEF AbstractLog
  <2> QED BY <2>1, LogOfEntries
<1> HIDE DEF Inv
<1>5. (EmptyInv => Logged = 0 /\ Pending = Junk)' /\ (Inv => Counted)'
  BY <1>3, <1>4, PTL
<1>6. Init => Log!Init
  <2> SUFFICES ASSUME Init PROVE Log!Init
    OBVIOUS
  <2>1. Counted /\ pc = "entry" /\ processed = 0
    BY <1>1, <1>4 DEF Init
  <2>2. Logged = 0
    <3>1. log_entry_size \in Nat
      BY DEF Init, LogAssumption
    <3>2. CASE log_entry_size = 0
      BY <3>2 DEF Logged, InEntries
    <3>3. CASE log_entry_size # 0
      <4>1. log_entry_size * 0 = 0 /\ (log_entry_size * 0) \div log_entry_size = 0
        BY <3>1, <3>3, Multiples
      <4> QED BY <2>1, <4>1 DEF Logged, InEntries
    <3> QED BY <3>2, <3>3
  <2>3. AbstractLog = <<>>
    <3>1. 1 .. 0 = {}
      OBVIOUS
    <3>2. AbstractLog \in [1 .. 0 -> Content]
      BY <2>1, <2>2, <3>1
    <3>3. AbstractLog \in Seq(Content) /\ Len(AbstractLog) = 0
      BY <3>2
    <3> QED BY <3>3, EmptySeq
  <2>4. Pending = Junk
    BY <2>1 DEF Pending
  <2> QED BY <2>3, <2>4 DEF Log!Init, AbstractLog, Pending
<1>7. Inv /\ Inv' /\ [Next]_vars => [Log!Next]_(Log!vars)
  <2> SUFFICES ASSUME Inv, Inv', [Next]_vars PROVE [Log!Next]_(Log!vars)
    OBVIOUS
  <2>1. Counted /\ Counted'
    BY <1>4, <1>5
  <2>2. ASSUME AbstractLog' = AbstractLog, Pending' = Pending
        PROVE  [Log!Next]_(Log!vars)
    BY <2>2 DEF Log!vars, AbstractLog, Pending
  <2>3. CASE UNCHANGED vars
    <3>1. AbstractLog' = AbstractLog /\ Pending' = Pending
      BY <2>1, <2>3 DEF vars, Logged, InEntries, Pending, Running
    <3> QED BY <2>2, <3>1
  <2>4. CASE EmptyInv
    <3>1. EmptyInv'
      BY <2>4, StepEmpty
    <3>2. Logged = 0 /\ Pending = Junk /\ Logged' = 0 /\ Pending' = Junk
      BY <1>3, <1>5, <2>4, <3>1
    <3>3. AbstractLog' = AbstractLog
      BY <2>1, <3>2
    <3> QED BY <2>2, <3>2, <3>3
  <2>5. CASE Next /\ LogInv
    <3>1. LogInv'
      BY <2>5, StepLogged
    <3>2. \/ /\ Pending = Junk /\ Pending' \in AnyEntry
             /\ AbstractLog' = AbstractLog
          \/ /\ Pending # Junk /\ Pending' = Junk
             /\ AbstractLog' = Append(AbstractLog, Pending)
          \/ Pending' = Junk /\ AbstractLog' = AbstractLog
          \/ Pending' = Pending /\ AbstractLog' = AbstractLog
      BY <2>1, <2>5, <3>1, StepRefines
    <3> QED BY <3>2 DEF Log!Next, Log!Request, Log!Acknowledge, Log!Abandon, Log!vars,
                        AbstractLog, Pending, AnyEntry
  <2> QED BY <2>3, <2>4, <2>5 DEF Inv
<1> QED BY <1>1, <1>2, <1>6, <1>7, PTL DEF Spec, ImplementsDurableLog, Log!Spec
=============================================================================
