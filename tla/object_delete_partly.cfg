SPECIFICATION Spec
CONSTANTS
  n1 = n1
  n2 = n2
  n3 = n3
  x = x
  y = y
  Nothing = Nothing
  Names = {n1, n2, n3}
  Targets = {}
  Contents <- One
  Zero = Zero
  Handle = {h1}
  NoHandle = NoHandle
  h1 = h1
  Fd = {f}
  NoFd = NoFd
  f = f
  MaxRegion = 5
  MaxSections = 3
  CountMod = 8
  MallocMayFail = FALSE
  Calls = {"init", "cleanup", "section", "create_section", "load_section", "delete_section", "delete partly loaded", "load_file", "save_file", "rewind"}
SYMMETRY ByteSymmetry
INVARIANTS NothingShared
CHECK_DEADLOCK TRUE
