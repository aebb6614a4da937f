CONSTANTS
  m = m
  a = a
  NoHash = NoHash
  EmptyPayload = a
  Hash <- MCHash
  Payload = {a}
  RootName = {m}
  ParentSets <- MCParentSets
  MergedHash <- MCMergedHash
  MaxNodes = 2
  MaxTx = 2
  MaxDepth = 1
  MarkedByCaller = {m}
  MaxCheckpoints = 1
  MaxJournal = 2
  MaxInterrupts = 1
SPECIFICATION RecSpec
PROPERTY CommittedSurvivesRecovery
CHECK_DEADLOCK FALSE
