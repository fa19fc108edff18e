CONSTANTS
  cluster = cluster
  s1 = s1
  s2 = s2
  k8s_cluster = k8s_cluster
  empty = empty
  o1 = o1
  o2 = o2
  None = None
  EmptyObject = empty
  Ids = {}
  Resources = {cluster}
  Types = {k8s_cluster}
  TypeOf <- MCTypeOf
  Times = {0}
  Payloads <- MCPayloads
  Cluster = cluster
  Services <- MCServices
  Objects <- MCObjects
  NoPods = o1
  MaxChanges = 3
  MaxDisconnects = 1
SPECIFICATION ServiceSpec
CHECK_DEADLOCK FALSE
INVARIANTS
  LastWriterIsCurrent
  CachesFollowMaster
