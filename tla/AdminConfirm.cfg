SPECIFICATION DlgSpec
CONSTANTS
  xray = xray
  awg = awg
  KeyTypes = {xray, awg}
  u1 = u1
  u2 = u2
  Owners = {u1, u2}
  k1 = k1
  k2 = k2
  OldKeys = {k1, k2}
  p1 = p1
  p2 = p2
  Presses = {p1, p2}
  MaxAnswers = 6
  Nothing = Nothing
CHECK_DEADLOCK FALSE
PROPERTY ChosenUser
