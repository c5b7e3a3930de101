\* Commands of up to four pieces follow each other over two directories; a third
\* name is no directory.  A GiB is 16 units and is not divisible by three mounts.
SPECIFICATION Spec
CONSTANTS
  Texts <- MCTexts
  Commands <- MCCommands
  NumberOf <- MCNumberOf
  Dirs <- MCDirs
  SizeT = 4096
  GiB = 16
  MiB = 8
  KiB4 = 4
  Incs = 2
  LogEntry = 4
CHECK_DEADLOCK FALSE
INVARIANTS TypeOK ParsedAsWritten ModeAsGiven FilesFit ScrambleInside
