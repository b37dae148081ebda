SPECIFICATION Spec
CONSTANTS
  a1 = a1
  a2 = a2
  t1 = t1
  t2 = t2
  Addr = {a1, a2}
  NULL = NULL
  MAPPED = MAPPED
  Nul = Nul
  Byte = {Nul}
  Junk = Junk
  SizeMod = 16
  MaxAlloc = 2
  DefaultCapacity = 2
  MallocMayFail = TRUE
  Thread = {t1, t2}
  PageSize = 4
  Pages = 3
  MapSizes = {0, 1, 4, 5, 12, 13}
  Alignments = {4}
  Liberties = {}
SYMMETRY Symmetry
INVARIANTS TypeOK HeldIsLive MappingsExact FailureExplained FatalEnds
CHECK_DEADLOCK TRUE
