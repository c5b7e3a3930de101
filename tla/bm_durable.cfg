\* Two directories with two pages each.  A page has three units and a memory
\* page four, so page 1 of each file straddles a memory page.
SPECIFICATION Spec
CONSTANTS
  NumBuffers = 2
  PagesPerBuffer = 2
  UnitBytes = 1024
  PageSize = 3
  MemPageSize = 4
  MaxFileSize = 6
  MaxFailures = 1
  Engines = {"LINUX", "MMAP", "LIBPMEM2"}
  Faults = {"io_error"}
  Data = {d1, d2}
  NoData = NoData
  Unknown = Unknown
INVARIANTS TypeOK PagesInsideFiles AckedDurable
PROPERTIES ReadLatest ImplementsPageStore
