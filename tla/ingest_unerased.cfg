\* One extraction job, two facts of one passage: ingested again after one of
\* them was erased, the erased one cites the passage anew.
CONSTANTS
  records = records  passages = passages
  x1 = x1  x2 = x2  x3 = x3  e1 = e1  e2 = e2  k1 = k1  k2 = k2
  Jobs = {passages}
  Passages = {passages}
  Candidates = {x1, x3}
  Evidence = {e1}
  Keys = {k1, k2}
  KeyOf <- MCKeyOfAlone
  Work <- MCWorkAlone
  BatchSize <- MCBatchAlone
  MaxFaults = 0
SPECIFICATION Spec
INVARIANTS
  ErasedTextStaysGone
