SPECIFICATION Spec
CONSTANTS
  a1 = a1
  a2 = a2
  Addr = {a1, a2}
  NULL = NULL
  MAPPED = MAPPED
  Nul = Nul
  b = b
  Byte = {Nul, b}
  Junk = Junk
  SizeMod = 16
  MaxAlloc = 4
  DefaultCapacity = 2
  MallocMayFail = TRUE
  Calls = {"init", "cleanup", "putstr", "read", "ensure_capacity", "compact", "reset", "seek_read", "seek_write", "getstr"}
  MaxBuf = 3
  MaxFile = 0
  MaxPos = 0
  PageSize = 2
  MaxMap = 4
SYMMETRY Symmetry
INVARIANTS StringsTerminated

CHECK_DEADLOCK TRUE
