SPECIFICATION MigSpec
CONSTANTS
  OldVersions = {0, 3, 5, 9, 10, 15, 16, 18, 23, 24}
  MaxFlaws = 2
  MaxUpgradeFaults = 2
CHECK_DEADLOCK FALSE
INVARIANT RebuildIsOneTransaction
