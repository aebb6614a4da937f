CONSTANTS
  r = r
  a = a
  b = b
  e = e
  NoHash = NoHash
  EmptyPayload = e
  Hash <- MCHash
  Payload <- MCPayload
  RootName = {r}
  ParentSets <- MCParentSets
  MergedHash <- MCMergedHash
  MaxNodes = 3
  MaxTx = 2
  MaxDepth = 2
SPECIFICATION InterruptedSpec
PROPERTY WholeOrTraceless
CHECK_DEADLOCK FALSE
