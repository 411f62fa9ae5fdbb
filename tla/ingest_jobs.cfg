\* A record job and an extraction job over facts they share, governance, and
\* runs that lose work, raise or crash.
CONSTANTS
  records = records  passages = passages
  x1 = x1  x2 = x2  x3 = x3  e1 = e1  e2 = e2  k1 = k1  k2 = k2
  Jobs = {records, passages}
  Passages = {passages}
  Candidates = {x1, x2, x3}
  Evidence = {e1, e2}
  Keys = {k1, k2}
  KeyOf <- MCKeyOf
  Work <- MCWork
  BatchSize <- MCBatchSize
  MaxFaults = 1
SPECIFICATION FairSpec
INVARIANTS
  TypeOK
  EveryKeyPlannedOnce
  PlanPredictsRun
  PlanMissesOnlyWithdrawn
PROPERTIES
  ReceivedIsCited
  RerunCatchesUp
