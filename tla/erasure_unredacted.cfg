\* Two registry connections: put() looks for the redaction marker before it
\* has the write lock.
CONSTANTS
  p1 = p1  p2 = p2  NoProc = NoProc
  x1 = x1  x2 = x2  e1 = e1  e2 = e2
  Shared = FALSE
  Procs = {p1, p2}
  Candidates = {x1}
  Evidence = {e1}
  Puts <- MCPutsText
  CommitFaults = {}
  MaxFaults = 0
SPECIFICATION Spec
PROPERTIES
  RedactionIsTerminal
