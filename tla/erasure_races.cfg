\* Two processes on the same two files: citing, storing and erasing race.
CONSTANTS
  p1 = p1  p2 = p2  NoProc = NoProc
  x1 = x1  x2 = x2  e1 = e1  e2 = e2
  Shared = FALSE
  Procs = {p1, p2}
  Candidates = {x1, x2}
  Evidence = {e1}
  Puts <- MCPutsText
  CommitFaults = {"rolled_back"}
  MaxFaults = 1
SPECIFICATION Spec
INVARIANTS
  ReportedErased
PROPERTIES
  SharedEvidenceSurvives
