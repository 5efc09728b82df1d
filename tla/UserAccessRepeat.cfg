SPECIFICATION Spec
CONSTANTS
  t1 = t1
  t2 = t2
  None = None
  Keys = {1, 2}
  Proxies = {3}
  Tasks = {t1, t2}
  Batch = 1
  MaxClock = 1
  MaxCrashes = 1
SYMMETRY TaskSymmetry
CHECK_DEADLOCK FALSE
INVARIANT RepeatCanBeApproved
