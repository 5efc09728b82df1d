SPECIFICATION Spec
CONSTANTS
  k1 = k1
  k2 = k2
  i1 = i1
  i2 = i2
  None = None
  Keys = {k1, k2}
  Foreign = {}
  Ips = {i1, i2}
  Modes = {"helper"}
  MaxQueued = 1
  MaxCrashes = 1
  MaxTimeouts = 1
CHECK_DEADLOCK FALSE
PROPERTY OrphansRemoved
