\* transition() checks the row it read and updates by id alone: with two
\* connections a terminal state is left.
CONSTANTS
  c1 = c1  c2 = c2  NoConn = NoConn
  x1 = x1  x2 = x2  k1 = k1
  Conns = {c1, c2}
  Candidates = {x1}
  Keys = {k1}
  KeyOf <- MCKeyOfOne
  Batches <- MCBatchesOne
  Targets <- MCAllStates
  RejectOnly = {}
  ErasureEnabled = {}
  CommitFaults = {}
  MaxTrail = 3
  MaxRetries = 0
SPECIFICATION Spec
PROPERTIES
  TerminalStatesAreFinal
