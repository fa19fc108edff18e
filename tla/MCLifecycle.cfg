CONSTANTS
  NumUpdaters = 3
  Watching = {3}
  Defaults <- MCDefaults
  Period <- MCPeriod
  UseWatch = "use_watch"
  Files <- MCFiles
  CommandLines <- MCCommandLines
  Unreadable = Unreadable
  MaxSignals = 2
SPECIFICATION LifecycleSpec
INVARIANTS
  HandlerUsesLiveComponents
  NoStartAfterStop
PROPERTIES
  ShutdownEnds
CHECK_DEADLOCK FALSE
