CONSTANTS
  Configs <- MCConfigs
SPECIFICATION WatchSpec
CHECK_DEADLOCK FALSE
INVARIANTS
  EndsWithItsConnection
  GivesUpOnlyAfterFailures
PROPERTIES
  IntervalReconnects
  SilenceReconnects
