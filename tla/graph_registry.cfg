\* Two processes register versions of two graphs and record decisions.
CONSTANTS
  c1 = c1  c2 = c2  NoConn = NoConn  None = None
  n1 = n1  n2 = n2  d1 = d1  d2 = d2  d3 = d3  i1 = i1  t1 = t1  t2 = t2
  good = good  bad = bad
  Conns = {c1, c2}
  Names = {n1, n2}
  Descriptors = {d1, d2, d3}
  DecisionIds = {i1}
  Contents = {t1, t2}
  Outcomes = {good, bad}
  MaxOutcomes = 2
SYMMETRY MCSymmetry
SPECIFICATION Spec
INVARIANTS
  TypeOK
  AnswersAreTrue
PROPERTIES
  HistoryOnlyGrows
