\* A workload fails under the script for table scans.
SPECIFICATION Spec
CONSTANTS
  n0 = n0
  n1 = n1
  p0 = p0
  Mounts <- MCMounts
  MountLists <- MCMountLists
  ThreadCounts <- MCThreadCounts
  MaxThreads = 2
  NumRuns = 1
  Scripts = {"tablescan"}
  Faults = {"workload"}
  MaxFaults = 1
CHECK_DEADLOCK FALSE
INVARIANTS RowsOfSuccess
