SPECIFICATION Spec
CONSTANTS
  a1 = a1
  a2 = a2
  Addr = {a1, a2}
  NULL = NULL
  MAPPED = MAPPED
  Nul = Nul
  b = b
  Byte = {Nul, b}
  Junk = Junk
  SizeMod = 8
  MaxAlloc = 3
  DefaultCapacity = 2
  MallocMayFail = TRUE
  Calls = {"loadv", "load", "cleanup", "read", "write", "ensure_capacity", "compact", "getstr", "reset", "seek_read", "seek_write", "serialize", "lseek"}
  MaxBuf = 1
  MaxFile = 3
  MaxPos = 3
  PageSize = 2
  MaxMap = 4
SYMMETRY Symmetry
INVARIANTS OwnsExactly ViewWithinFile
PROPERTIES ViewStartsAtPosition RefinesByteStream
CHECK_DEADLOCK TRUE
