CONSTANTS
  r1 = r1
  r2 = r2
  r3 = r3
  k8s_pod = k8s_pod
  empty = empty
  small = small
  medium = medium
  large = large
  rejected = rejected
  None = None
  EmptyObject = empty
  Ids = {}
  Resources <- MCResources
  Types <- MCTypes
  TypeOf <- MCTypeOf
  Times <- MCTimes
  Payloads <- MCPayloads
  EntrySize <- MCEntrySize
  Rank <- MCRank
  Incoming <- MCIncoming
  Rejected = {rejected}
  EmptySize = 14
  LimitBytes = 26
  LimitCount = 2
  PurgeDeleted = TRUE
  MaxFailures = 1
SPECIFICATION ReporterSpec
INVARIANTS
  RequestWithinLimits
  NoEntrySkipped
PROPERTIES
  PurgedWasReported
  EntriesAreReported
  LoopStopIsHonoured
