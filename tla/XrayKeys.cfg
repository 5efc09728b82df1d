SPECIFICATION BothSpec
CONSTANTS
  k1 = k1
  k2 = k2
  x1 = x1
  t1 = t1
  t2 = t2
  None = None
  Keys = {k1, k2}
  HttpKeys = {k2}
  Foreign = {x1}
  Tasks = {t1, t2}
  MaxCrashes = 1
  c1 = c1
  c2 = c2
  h1 = h1
  h2 = h2
  Entries = {c1, c2}
  HelperRuns = {h1, h2}
  MaxEdits = 2
  MaxLateHelpers = 1
  MaxBotStops = 1
SYMMETRY Symmetry
CHECK_DEADLOCK FALSE
INVARIANTS
  TypesOK
  RowMatchesClient
  AnsweredIsServed
PROPERTIES
  RevokedStaysRevoked
  KeepsPromise
