CONSTANTS
  r = r
  a = a
  b = b
  e = e
  NoHash = NoHash
  EmptyPayload = e
  Hash <- MCHash
  Payload <- MCPayload
  RootName <- MCRootName
  ParentSets <- MCParentSets
  MergedHash <- MCMergedHash
  MaxNodes = 4
SPECIFICATION Spec
INVARIANTS
  TypeOK
  GraphConsistent
  Acyclic
  AncestryOrdered
  ChildIndexSound
  SupersededNotHead
  NoStateLost
  SiblingsJoinedExplicitly
CHECK_DEADLOCK FALSE
