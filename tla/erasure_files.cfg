\* Two files, one process: every fault between and during the two commits,
\* and a caller who retries.
CONSTANTS
  p1 = p1  p2 = p2  NoProc = NoProc
  x1 = x1  x2 = x2  e1 = e1  e2 = e2
  Shared = FALSE
  Procs = {p1}
  Candidates = {x1, x2}
  Evidence = {e1, e2}
  Puts <- MCPuts
  CommitFaults = {"open", "rolled_back"}
  MaxFaults = 2
SPECIFICATION FairSpec
INVARIANTS
  TypeOK
  AuditIsTruthful
  EraseIsOnceOrNotAtAll
PROPERTIES
  RedactionIsTerminal
  OrphansLoseText
  RetryCompletes
