SPECIFICATION Spec
CONSTANTS
  FailThreshold = 2
  RecoverThreshold = 3
  MaxWarpCrashes = 1
  Recipients = {1, 2}
  Senders = {s1, s2}
  PageSize = 1
  MaxAnnouncementPasses = 2
  MaxAnnouncementCrashes = 1
  ExpKeys = {1, 2}
  NotifyDays = {1, 2}
  LastDay = 3
  ReminderLimit = 1
  ExpiredLimit = 2
  MaxTroubles = 1
  ip1 = ip1
  ip2 = ip2
  Ips = {ip1, ip2}
  LastTick = 4
  FullWindow = 2
  ConcurrentWindow = 1
  Cooldown = 3
  MinUniqueIps = 2
  r1 = r1
  r2 = r2
  Refreshers = {r1, r2}
  MaxBytes = 4
  MaxRestarts = 2
  a1 = a1
  a2 = a2
  SwitchAdmins = {a1, a2}
  c1 = c1
  c2 = c2
  Calls = {c1, c2}
  MaxAccesses = 2
  MaxNonces = 2
  MaxPurgeFaults = 1
CHECK_DEADLOCK FALSE
INVARIANTS
  TypesOK
  WarpAtRest
  LedgerIsTrue
  CountedOnce
  SweptIsNotLive
PROPERTIES
  AnnouncementSteps
  RemindersComeNearer
  AlertsAreSound
  OneForEachPrompt
