\* A committing workload.
SPECIFICATION Spec
CONSTANTS
  PageSize = 3
  TotalPages = 4
  EntrySizes = {2}
  TotalWorkload = 10
  Committing = {TRUE}
  WriteStatus = "BM_WRITE_SUCCESS"
  PowerFails = FALSE
  Data = {d1}
  Junk = Junk
CHECK_DEADLOCK FALSE
INVARIANTS WatermarkCounts
