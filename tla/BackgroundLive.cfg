SPECIFICATION Spec
CONSTANTS
  FailThreshold = 2
  RecoverThreshold = 1
  MaxWarpCrashes = 0
  Recipients = {1}
  Senders = {s1, s2}
  PageSize = 1
  MaxAnnouncementPasses = 2
  MaxAnnouncementCrashes = 0
  ExpKeys = {1, 2}
  NotifyDays = {1, 2}
  LastDay = 2
  ReminderLimit = 2
  ExpiredLimit = 2
  MaxTroubles = 1
  r1 = r1
  r2 = r2
  Refreshers = {r1, r2}
  MaxBytes = 2
  MaxRestarts = 1
CHECK_DEADLOCK FALSE
PROPERTIES
  WarpSettles
  JobsProgress
