SPECIFICATION Spec
CONSTANTS
  n1 = n1
  n2 = n2
  n3 = n3
  x = x
  y = y
  Nothing = Nothing
  Names = {n1, n2}
  Targets = {}
  Contents <- Lengths
  Zero = Zero
  Handle = {h1}
  NoHandle = NoHandle
  h1 = h1
  Fd = {f}
  NoFd = NoFd
  f = f
  MaxRegion = 3
  MaxSections = 2
  CountMod = 8
  MallocMayFail = FALSE
  Calls = {"init", "cleanup", "section", "create_section", "delete_section", "load_section", "load_file", "save_file", "truncate"}
SYMMETRY NameSymmetry
VIEW ButResult
INVARIANTS NothingShared NothingLeaks UniqueNames
PROPERTIES RefinesDirectory
CHECK_DEADLOCK TRUE
