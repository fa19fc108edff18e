CONSTANTS
  t1 = t1
  t2 = t2
  u1 = u1
  i1 = i1
  r1 = r1
  r2 = r2
  k8s_pod = k8s_pod
  empty = empty
  pod_thread = pod_thread
  None = None
  EmptyObject = empty
  Ids <- MCIds
  Resources <- MCResources
  Types <- MCTypes
  TypeOf <- MCTypeOf
  Times <- MCTimes
  Payloads <- MCPayloads
  Threads <- MCThreads
  Updaters <- MCUpdaters
  Reporter = reporter
  Components <- MCComponents
  Incoming <- MCIncoming
  MaxAge = 1
SPECIFICATION ApiSpec
INVARIANTS
  CollectionTimesCoverEntries
  KnownIdIsAnswered
  HealthyMeansHealthy
PROPERTIES
  FailureIsReported
