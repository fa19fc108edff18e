CONSTANTS
  ra = ra
  rb = rb
  rd = rd
  rm = rm
  rn = rn
  rp = rp
  rc = rc
  ri = ri
  a = a
  b = b
  d = d
  m = m
  n = n
  p = p
  empty = empty
  None = None
  EmptyObject = empty
  Ids <- MCIds
  Resources <- MCResources
  Types <- MCTypes
  TypeOf <- MCTypeOf
  Times <- MCTimes
  Payloads <- MCPayloads
  Periods <- MCPeriods
  IdsOf <- MCIdsOf
  ResultVectors <- MCResultVectors
  Kinds <- MCKinds
  Lists <- MCLists
  Yields <- MCYields
  Host = ri
  RetryLimit = 3
  MaxChanges = 3
SPECIFICATION ReaderSpec
CHECK_DEADLOCK FALSE
INVARIANTS
  StoredIsResolvable
  RoundIsComplete
  StopIsNeverLost
PROPERTIES
  UpdaterSpec
  NoQueryAfterStop
  StoppedUpdaterFinishes
