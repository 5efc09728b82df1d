SPECIFICATION Spec
CONSTANTS
  k1 = k1
  t1 = t1
  t2 = t2
  None = None
  Keys = {k1}
  HttpKeys = {}
  Foreign = {}
  Tasks = {t1, t2}
  MaxCrashes = 0
CHECK_DEADLOCK FALSE
INVARIANTS
  CheckExcludesCreate
