SPECIFICATION Spec
CONSTANTS
  MaxSocks = 2
  MaxSocksCrashes = 1
  MaxLateSocks = 1
  u1 = u1
  u2 = u2
  MtUsers = {u1, u2}
  FirstOwner = u1
  MaxMt = 2
  MaxMtCrashes = 1
  h1 = h1
  LateRuns = {h1}
  MaxMtCalls = 2
  NewCalls = FALSE
CHECK_DEADLOCK FALSE
INVARIANTS
  TypesOK
  RowsMatchAccesses
PROPERTIES
  ProxySteps
  ServicesReturn
