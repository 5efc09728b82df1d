SPECIFICATION SwtSpec
CONSTANTS
  a1 = a1
  a2 = a2
  SwitchAdmins = {a1, a2}
  c1 = c1
  c2 = c2
  Calls = {c1, c2}
  MaxAccesses = 2
  MaxNonces = 2
  MaxPurgeFaults = 1
CHECK_DEADLOCK FALSE
INVARIANT DisabledIsEmpty
