CONSTANTS
  Device = {d1, d2}
  Key = {k1, k2}
  Seed = {s1, none}
  EmptySeed = none
  NoSeed = NoSeed
  Expiry = {0, 1}
  MaxTime = 2
  MaxEntries = 3
SPECIFICATION Spec
SYMMETRY Symmetry
INVARIANTS
  TypeOK
  MatchStaysValid
  AmbiguousIfEmptySeed
PROPERTY
  PruneInvisible
