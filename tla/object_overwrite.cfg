SPECIFICATION Spec
CONSTANTS
  n1 = n1
  n2 = n2
  n3 = n3
  x = x
  y = y
  Nothing = Nothing
  Names = {n1, n2}
  Targets = {}
  Contents <- Lengths
  Zero = Zero
  Handle = {h1}
  NoHandle = NoHandle
  h1 = h1
  Fd = {f}
  NoFd = NoFd
  f = f
  MaxRegion = 3
  MaxSections = 1
  CountMod = 8
  MallocMayFail = FALSE
  Calls = {"init", "cleanup", "section", "create_section", "delete_section", "update_section", "load_section", "load_file", "mmap", "unmap", "save_file", "rewind", "truncate", "overwrite"}
SYMMETRY NameSymmetry
VIEW ButResult
PROPERTIES SaveIsComplete RefinesDirectory
CHECK_DEADLOCK TRUE
