SPECIFICATION Spec
CONSTANTS
  a1 = a1
  a2 = a2
  r1 = r1
  r2 = r2
  r3 = r3
  None = None
  Requests = {r1, r2, r3}
  Admins = {a1, a2}
  MaxClock = 2
  MaxIssued = 2
  MaxCrashes = 1
CHECK_DEADLOCK FALSE
INVARIANT ProvisionedOnce
