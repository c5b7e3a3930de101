\* Two directories with two pages of one unit.  Every engine, STD with its
\* stdio buffer and ASM, which has loads for these 4096 bytes, among them;
\* processes end and restart, no call fails and the power stays on.
SPECIFICATION Spec
CONSTANTS
  NumBuffers = 2
  PagesPerBuffer = 2
  UnitBytes = 4096
  PageSize = 1
  MemPageSize = 1
  MaxFileSize = 2
  MaxFailures = 0
  Engines = {"LINUX", "LINUX_DIRECT", "MMAP", "STD", "LIBPMEM2", "ASM"}
  Faults = {}
  Data = {d1, d2}
  NoData = NoData
  Unknown = Unknown
INVARIANTS AckedVisible
PROPERTIES ReadLatest
