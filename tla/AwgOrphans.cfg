SPECIFICATION FileSpec
CONSTANTS
  f1 = f1
  f2 = f2
  Nobody = Nobody
  FileKeys = {f1, f2}
  FileForeign = {}
  MaxHandEdits = 0
CHECK_DEADLOCK FALSE
INVARIANT ManagedOrphansAreRemoved
