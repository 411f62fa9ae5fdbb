\* Two executors, the adapter, and batches over a chain of three identities.
CONSTANTS
  x = x  y = y  i1 = i1  i2 = i2  i3 = i3  a1 = a1  a2 = a2
  Executors = {x, y}
  Nobody = Nobody
  Identities = {i1, i2, i3}
  NoIdentity = NoIdentity
  Assertions = {a1, a2}
  Batches <- MCBatches
  Guarded <- MCGuarded
  MaxEpoch = 3
SYMMETRY MCSymmetry
SPECIFICATION Spec
INVARIANTS
  TypeOK
  ReadsAgree
  GuardedOnBasis
  CompensationRestores
  NeighborhoodIsReachable
PROPERTIES
  PinnedHistoryStays
