\* One file behind one connection, and SQLite rolls a failing commit back.
CONSTANTS
  p1 = p1  p2 = p2  NoProc = NoProc
  x1 = x1  x2 = x2  e1 = e1  e2 = e2
  Shared = TRUE
  Procs = {p1}
  Candidates = {x1, x2}
  Evidence = {e1, e2}
  Puts <- MCPuts
  CommitFaults = {"rolled_back"}
  MaxFaults = 2
SPECIFICATION Spec
PROPERTIES
  ErasesAtomically
