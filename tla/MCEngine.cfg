CONSTANTS
  p1 = p1
  p2 = p2
  p3 = p3
  c1 = c1
  c2 = c2
  s1 = s1
  s2 = s2
  NoItem = NoItem
  NoTarget = NoTarget
  NoState = NoState
  Window = 3
  MaxCalls = 1
  Payload <- MCPayload
  Code <- MCCode
  Encode <- MCEncode
  Session <- MCSession
  Chains <- MCChains
  Clusters <- MCClusters
  Objective <- MCObjective
SPECIFICATION Spec
INVARIANTS
  TypeOK
  RemainExact
PROPERTIES
  LogExplainsState
  DemandTaken
  UndirectedStaysActive
  ObjectiveReached
