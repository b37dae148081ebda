SPECIFICATION Spec
CONSTANTS
  n1 = n1
  n2 = n2
  n3 = n3
  x = x
  y = y
  Nothing = Nothing
  Names = {n1, n2}
  Targets = {}
  Contents <- Pairs
  Zero = Zero
  Handle = {h1}
  NoHandle = NoHandle
  h1 = h1
  Fd = {f}
  NoFd = NoFd
  f = f
  MaxRegion = 3
  MaxSections = 2
  CountMod = 8
  MallocMayFail = FALSE
  Calls = {"init", "cleanup", "section", "create_section", "delete_section", "load_section", "mmap", "unmap", "save_file"}
SYMMETRY ByteSymmetry
VIEW ButResult
INVARIANTS ArraysLongEnough NothingShared ViewsBacked
PROPERTIES RefinesDirectory
CHECK_DEADLOCK TRUE
