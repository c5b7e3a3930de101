\* Three-cell pages, and entries of two cells (inside a page, straddling two,
\* and ending on a boundary with entries before and behind), of a whole page, of
\* five cells (with a whole page in the middle), and of none.  Without a header
\* the log fits the four pages; behind one the last entry of two or five cells
\* straddles the end.
SPECIFICATION Spec
CONSTANTS
  PageSize = 3
  TotalPages = 4
  EntrySizes = {0, 2, 3, 5}
  TotalWorkload = 10
  Committing = {TRUE, FALSE}
  WriteStatus = "BM_WRITE_SUCCESS"
  PowerFails = TRUE
  Data = {d1, d2}
  Junk = Junk
CHECK_DEADLOCK FALSE
INVARIANTS TypeOK EntriesOnMedia AbortsOnlyWhenFull
PROPERTIES ImplementsDurableLog Completes
