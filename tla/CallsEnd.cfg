SPECIFICATION BothSpec
CONSTANTS
  t1 = t1
  t2 = t2
  None = None
  Keys = {1, 2}
  Proxies = {3}
  Tasks = {t1, t2}
  Batch = 1
  MaxClock = 0
  MaxCrashes = 0
  p1 = p1
  p2 = p2
  Processes = {p1, p2}
  Jobs = {"expiry"}
  Backends = {"xray", "mtproto"}
  NoProcess = NoProcess
  MaxKills = 1
CHECK_DEADLOCK FALSE
INVARIANT LifeIsOrdered
PROPERTY CallsAndProcessesEnd
