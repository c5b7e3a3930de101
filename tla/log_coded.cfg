\* The status that buffer_manager.cpp returns for a page it has written.
SPECIFICATION Spec
CONSTANTS
  PageSize = 3
  TotalPages = 4
  EntrySizes = {2}
  TotalWorkload = 10
  Committing = {TRUE, FALSE}
  WriteStatus = "BM_WRITE_FAILURE"
  PowerFails = FALSE
  Data = {d1}
  Junk = Junk
CHECK_DEADLOCK FALSE
INVARIANTS AbortsOnlyWhenFull
