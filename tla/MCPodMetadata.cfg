CONSTANTS
  p1 = p1
  p2 = p2
  u1 = u1
  u2 = u2
  u3 = u3
  a = a
  b = b
  d1 = d1
  d2 = d2
  d3 = d3
  d4 = d4
  n1 = n1
  rs = rs
  empty = empty
  None = None
  EmptyObject = empty
  Ids <- MCIds
  Resources <- MCResources
  Types <- MCTypes
  TypeOf <- MCTypeOf
  Times <- MCTimes
  Payloads <- MCPayloads
  PodEvents <- MCPodEvents
  NodeEvents <- MCNodeEvents
  Controllers <- MCControllers
  DockerId <- MCDockerId
  MaxEvents = 3
SPECIFICATION PodSpec
INVARIANTS
  PodAndContainersAgree
  
