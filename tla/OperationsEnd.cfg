SPECIFICATION EndsSpec
CONSTANTS
  t1 = t1
  t2 = t2
  m1 = m1
  k1 = k1
  None = None
  Tasks = {t1, t2, m1}
  Monitors = {m1}
  MaxStmts = 2
  MaxCancels = 1
  XrayTasks = {t1, t2}
  MaxCrashes = 1
CHECK_DEADLOCK FALSE
INVARIANTS
  TypeOK
  Isolated
PROPERTIES
  EndsOwnWork
  EverythingEnds
