SPECIFICATION FrontendSpec
CONSTANTS
  OldVersions = {0, 3, 5, 9, 10, 15, 16, 18, 23, 24}
  MaxFlaws = 2
  MaxUpgradeFaults = 2
  xray = xray
  awg = awg
  KeyTypes = {xray, awg}
  u1 = u1
  u2 = u2
  Owners = {u1, u2}
  k1 = k1
  OldKeys = {k1}
  p1 = p1
  p2 = p2
  Presses = {p1, p2}
  MaxAnswers = 5
  Nothing = Nothing
  a1 = a1
  a2 = a2
  r1 = r1
  r2 = r2
  r3 = r3
  None = None
  Requests = {r1, r2, r3}
  Admins = {a1, a2}
  MaxClock = 2
  MaxIssued = 2
  MaxCrashes = 1
SYMMETRY TrialSymmetry
CHECK_DEADLOCK FALSE
INVARIANTS
  TypesOK
  UpgradeSound
  DecidedOnce
  OneTrial
PROPERTIES
  Upgrades
  ActsAreAsShown
