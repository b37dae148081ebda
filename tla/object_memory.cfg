SPECIFICATION Spec
CONSTANTS
  n1 = n1
  n2 = n2
  n3 = n3
  x = x
  y = y
  Nothing = Nothing
  Names = {n1, n2}
  Targets = {1}
  Contents <- Mixed
  Zero = Zero
  Handle = {h1}
  NoHandle = NoHandle
  h1 = h1
  Fd = {f}
  NoFd = NoFd
  f = f
  MaxRegion = 4
  MaxSections = 2
  CountMod = 3
  MallocMayFail = TRUE
  Calls = {"init", "cleanup", "set_target_defaults", "section", "create_section", "create empty", "delete_section", "update_section", "find_section", "load_section"}
SYMMETRY NameSymmetry
INVARIANTS TypeOK ArraysLongEnough NothingShared NothingLeaks UniqueNames
PROPERTIES RefinesDirectory
CHECK_DEADLOCK TRUE
