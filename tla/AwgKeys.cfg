SPECIFICATION AwgSpec
CONSTANTS
  k1 = k1
  k2 = k2
  x1 = x1
  i1 = i1
  i2 = i2
  None = None
  Keys = {k1, k2}
  Foreign = {x1}
  Ips = {i1, i2}
  Modes = {"direct", "helper"}
  MaxQueued = 1
  MaxCrashes = 1
  MaxTimeouts = 1
  f1 = f1
  f2 = f2
  FileKeys = {f1, f2}
  FileForeign = {x1}
  Nobody = Nobody
  MaxHandEdits = 3
SYMMETRY Symmetry
CHECK_DEADLOCK FALSE
INVARIANTS
  TypesOK
  PeersAreSound
PROPERTIES
  CleanStartup
  EditsAreExact
  KeepsPromise
