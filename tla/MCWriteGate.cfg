CONSTANTS
  s = s
  t = t
  good = good
  bad = bad
  Writer = {w1, w2}
  Target = {s, t}
  NoTarget = NoTarget
  AnyTarget = AnyTarget
  State = {d0, d1}
  EmptyState = d0
  NoState = NoState
  Key = {good, bad}
  GateKey = good
  Mintable <- MCMintable
  MaxTime = 2
  MaxCaps = 2
  MaxRequests = 3
SYMMETRY Symmetry
SPECIFICATION Spec
INVARIANTS
  TypeOK
  ChainIntact
  StaleNeedsReturn
  CapabilitySpent
  AuthorisedForReplaced
PROPERTY
  OnlyCommitsChange
CHECK_DEADLOCK FALSE
