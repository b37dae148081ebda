SPECIFICATION Spec
CONSTANTS
  a1 = a1
  a2 = a2
  Addr = {a1, a2}
  NULL = NULL
  MAPPED = MAPPED
  Nul = 0
  Byte <- AllBytes
  Junk = Junk
  SizeMod = 256
  MaxAlloc = 64
  DefaultCapacity = 4
  MallocMayFail = TRUE
  Ops = {0, 2, 1, 224, 240}
  Flags = {3}
  Types = {1, 6}
  ValueTypes = {0, 2, 240, 255}
  Modifiers = {0}
  Words <- MCWords
  Offsets <- MCOffsets
  InitCapacity = 4
  Room = 4
  MaxPieces = 5
  Liberties = {}
INVARIANTS TypeOK EncodedIntact ReaderBetweenPieces JunkOnlyInPadding
PROPERTIES RefinesInstrStream
CHECK_DEADLOCK TRUE
