CONSTANTS
  rs = rs
  dep = dep
  host = host
  ReplicaSet = ReplicaSet
  Deployment = Deployment
  Node = Node
  apps = apps
  core = core
  u1 = u1
  u2 = u2
  u3 = u3
  pod1 = pod1
  Nothing = Nothing
  Kinds <- MCKinds
  Versions <- MCVersions
  VersionOf <- MCVersionOf
  Namespaced <- MCNamespaced
  Rank <- MCRank
  Paths <- MCPaths
  KindOf <- MCKindOf
  Uids <- MCUids
  PodUids <- MCPodUids
  MaxChanges = 4
  MaxFailures = 1
SPECIFICATION OwnerSpec
CHECK_DEADLOCK FALSE
INVARIANTS
  ChainIsGenuine
  FailureHasACause
PROPERTIES
  SearchEnds
