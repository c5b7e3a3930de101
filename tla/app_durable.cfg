\* Every engine over every file an earlier run may have left, shorter and
\* longer than the log; calls fail, the old file cannot be removed, the power
\* fails.  The pool is exactly as large as the log.  Entries are empty, fill the
\* workload, leave a rest of it, or are longer than it; there are entries to draw
\* from, or none.
SPECIFICATION Spec
CONSTANTS
  Engines = {"LINUX", "LINUX_PREALLOC", "LINUX_PREFAULT", "LIBPMEM", "LIBPMEM_PF"}
  Fallocate = {TRUE, FALSE}
  EntrySizes = {0, 3, 5, 13}
  PoolSizes = {0, 1}
  TotalWorkload = 12
  PoolExtra = 2
  PoolHeader = 2
  OldSizes = {0, 4, 7, 12}
  Faults = {"io_error", "power", "remove_fails"}
CHECK_DEADLOCK FALSE
INVARIANTS TypeOK EntriesOnMedia PoolSuffices
PROPERTIES ImplementsDurableLog Completes
