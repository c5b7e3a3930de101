\* Pages of 4096 bytes, 6144 (for which the ASM engine has no loads), 64 KiB and
\* more; buffers with and without pages; the size of a target buffer may be more than
\* an int can count and turn negative, or wrap around to a small number (8 pages of
\* 36 units); a pool with and without pages.
SPECIFICATION Spec
CONSTANTS
  Workloads = {"bufman", "tablescan"}
  UnitBytes = 2048
  PageSizes = {2, 3, 32, 36}
  PageCounts = {0, 1, 3}
  TargetCounts = {1, 3, 4, 8}
  WriteProportions = {0, 50, 100}
  RandomPages = {0, 2}
  TotalWorkload = 73
  Alignment = 2
  IdRange = 16
  IntRange = 256
CHECK_DEADLOCK FALSE
INVARIANTS TypeOK ReadsInsideBlock ScanIsEven ProcessedIsTransferred WritesFromPool
PROPERTIES Completes
