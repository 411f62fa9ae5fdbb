\* Two connections race submits of two ids of one fact with transitions,
\* revokes and erases; a commit may fail either way.
CONSTANTS
  c1 = c1  c2 = c2  NoConn = NoConn
  x1 = x1  x2 = x2  k1 = k1
  Conns = {c1, c2}
  Candidates = {x1, x2}
  Keys = {k1}
  KeyOf <- MCKeyOfPair
  Batches <- MCBatchesPair
  Targets = {"VALIDATED"}
  RejectOnly = {c2}
  ErasureEnabled = {c1}
  CommitFaults = {"open", "rolled_back"}
  MaxTrail = 2
  MaxRetries = 0
SPECIFICATION Spec
INVARIANTS
  TypeOK
  LiveKeyUnique
  ReceivedIsDurable
  DuplicateHasWitness
  TrailExplainsRow
PROPERTIES
  ImplementsSink
  NothingIsTakenBack
