----------------------------- MODULE PageStore -----------------------------
(***************************************************************************)
(* What the buffer manager promises: one array of pages on persistent      *)
(* media.  Between the start of a write and its return the page is         *)
(* unsettled and may hold anything; once the write has returned, the page  *)
(* durably holds what was written, and nothing but another write to the    *)
(* same page can change that.  Files, striping, engines, caches, crashes   *)
(* and restarts do not appear here.                                        *)
(***************************************************************************)
CONSTANTS
  Pages,   \* page ids
  Data,    \* contents of a page
  Torn     \* the content of a page that is none of Data

VARIABLES
  store,      \* store[p]: content of page p on the medium
  unsettled,  \* pages with a write that started and has not returned
  writing,    \* the write in progress: a set with at most one <<page, data>>
  result      \* what the last read delivered

vars == <<store, unsettled, writing, result>>

Content == Data \cup {Torn}

Init ==
  /\ store \in [Pages -> Content]
  /\ unsettled = {}
  /\ writing = {}
  /\ result = Torn

BeginWrite(p, d) ==
  /\ writing = {}
  /\ writing' = {<<p, d>>}
  /\ unsettled' = unsettled \cup {p}
  /\ UNCHANGED <<store, result>>

\* a write returns only when its data is on the medium
EndWrite(p, d) ==
  /\ <<p, d>> \in writing
  /\ store[p] = d
  /\ writing' = {}
  /\ unsettled' = unsettled \ {p}
  /\ UNCHANGED <<store, result>>

\* a crash ends the write in progress without an answer
Abandon ==
  /\ writing' = {}
  /\ result' \in {result, Torn}
  /\ UNCHANGED <<store, unsettled>>

\* unsettled pages may change at any time, also after the crash
Drift ==
  /\ store' \in [Pages -> Content]
  /\ \A p \in Pages \ unsettled : store'[p] = store[p]
  /\ UNCHANGED <<unsettled, writing, result>>

Read(p) ==
  /\ writing = {}
  /\ result' \in Content
  /\ p \notin unsettled => result' = store[p]
  /\ UNCHANGED <<store, unsettled, writing>>

Next ==
  \/ \E p \in Pages, d \in Data : BeginWrite(p, d) \/ EndWrite(p, d)
  \/ Abandon
  \/ Drift
  \/ \E p \in Pages : Read(p)

Spec == Init /\ [][Next]_vars

=============================================================================
