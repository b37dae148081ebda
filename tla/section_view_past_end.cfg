SPECIFICATION Spec
CONSTANTS
  a1 = a1
  a2 = a2
  Addr = {a1, a2}
  NULL = NULL
  MAPPED = MAPPED
  Nul = Nul
  b = b
  Byte = {Nul, b}
  Junk = Junk
  SizeMod = 8
  MaxAlloc = 3
  DefaultCapacity = 2
  MallocMayFail = TRUE
  Calls = {"loadv", "lseek", "lseek past the end"}
  MaxBuf = 2
  MaxFile = 2
  MaxPos = 3
  PageSize = 2
  MaxMap = 4
SYMMETRY Symmetry
INVARIANTS ViewWithinFile

CHECK_DEADLOCK TRUE
