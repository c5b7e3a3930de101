\* The five scripts, with one call that fails anywhere: a process that cannot be
\* started or forked, a child, a workload or a file to remove.
SPECIFICATION Spec
CONSTANTS
  n0 = n0
  n1 = n1
  p0 = p0
  Mounts <- MCMounts
  MountLists <- MCMountLists
  ThreadCounts <- MCThreadCounts
  MaxThreads = 2
  NumRuns = 2
  Scripts = {"buffermanagement", "tablescan", "logging_linux", "logging_linux_prefault", "logging_libpmem"}
  Faults = {"popen", "fork", "child", "workload", "remove"}
  MaxFaults = 1
CHECK_DEADLOCK FALSE
INVARIANTS TypeOK MeasuredAlone RowsOnPreparedFiles EveryTestRecorded NothingLeft
PROPERTIES RecordedWhenEnded Completes
