SPECIFICATION Spec
CONSTANTS
  t1 = t1
  t2 = t2
  None = None
  Tasks = {t1, t2}
  Monitors = {}
  MaxStmts = 2
  MaxCancels = 0
INVARIANT ReadsCommitted
