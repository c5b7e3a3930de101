\* The STD engine, which syncs the descriptor below its stdio buffer.
SPECIFICATION Spec
CONSTANTS
  NumBuffers = 2
  PagesPerBuffer = 2
  UnitBytes = 2048
  PageSize = 2
  MemPageSize = 2
  MaxFileSize = 4
  MaxFailures = 1
  Engines = {"STD"}
  Faults = {}
  Data = {d1, d2}
  NoData = NoData
  Unknown = Unknown
INVARIANTS AckedDurable
