\* One connection, one row, the whole state machine.
CONSTANTS
  c1 = c1  c2 = c2  NoConn = NoConn
  x1 = x1  x2 = x2  k1 = k1
  Conns = {c1}
  Candidates = {x1}
  Keys = {k1}
  KeyOf <- MCKeyOfOne
  Batches <- MCBatchesOne
  Targets <- MCAllStates
  RejectOnly = {c1}
  ErasureEnabled = {c1}
  CommitFaults = {"open", "rolled_back"}
  MaxTrail = 6
  MaxRetries = 1
SPECIFICATION Spec
INVARIANTS
  HistoryIsLegal
PROPERTIES
  TerminalStatesAreFinal
