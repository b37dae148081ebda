SPECIFICATION Spec
CONSTANTS
  a1 = a1
  a2 = a2
  Addr = {a1, a2}
  NULL = NULL
  MAPPED = MAPPED
  Nul = Nul
  b = b
  Byte = {Nul, b}
  Junk = Junk
  SizeMod = 8
  MaxAlloc = 3
  DefaultCapacity = 2
  MallocMayFail = TRUE
  Calls = {"init", "cleanup", "load", "write", "read", "ensure_capacity", "compact", "reset", "seek_read", "seek_write", "getstr", "serialize", "lseek", "lseek past the end"}
  MaxBuf = 2
  MaxFile = 2
  MaxPos = 2
  PageSize = 2
  MaxMap = 4
SYMMETRY Symmetry
INVARIANTS TypeOK CursorsInBounds OwnsExactly NoJunkExposed
PROPERTIES FailureChangesNothing PointersSurvive RefinesByteStream
CHECK_DEADLOCK TRUE
