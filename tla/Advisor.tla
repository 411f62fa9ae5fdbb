------------------------------- MODULE Advisor -------------------------------
(***************************************************************************)
(* GraphAdvisor (kgis/registry/advisor.py): a pure function from an        *)
(* incoming data profile and a registry snapshot to an outcome.            *)
(*                                                                         *)
(* Scores are counted in units of 1/Scale, thresholds in hundredths; the   *)
(* overlap of two vocabularies is exact when the size of their union       *)
(* divides Scale.  Class labels are members of small sets, and Unknown     *)
(* stands for a missing one.                                               *)
(***************************************************************************)
EXTENDS Integers, Sequences, FiniteSets

CONSTANTS Scale, Unknown

ASSUME ScaleAssumption == Scale \in Nat \ {0}
ASSUME UnknownAssumption == Unknown \notin Int \cup BOOLEAN

\* The factors v1 automates, in the order FACTORS lists them.
AUTOMATED_FACTORS ==
  <<"identity_value", "ontology_compatibility", "tenancy", "lifecycle",
    "computational_coupling">>

AutomatedFactors == { AUTOMATED_FACTORS[i] : i \in DOMAIN AUTOMATED_FACTORS }

Outcomes ==
  { "EXTEND_SAME_PHYSICAL", "SHARED_LOGICAL_SEPARATE_PHYSICAL",
    "SEPARATE_SHARED_IDENTITY", "FULLY_ISOLATED", "INSUFFICIENT_INFORMATION" }

ExtendOutcomes == { "EXTEND_SAME_PHYSICAL", "SHARED_LOGICAL_SEPARATE_PHYSICAL" }

\* AdvisorConfig's defaults.
ExtendThreshold == 75
SharedLogicalThreshold == 60
SharedIdentityThreshold == 60
TenancyFloor == 50
CouplingFloor == 50
MinScoredFactors == 2

\* What a profile and a graph's extension attributes have in common; the
\* three vocabularies of each are one set, the attributes minors and
\* computed are Booleans or Unknown.
Declaration(Classes, Terms) ==
  [ authority: Classes \cup {Unknown}, terms: SUBSET Terms,
    tenancy: Classes \cup {Unknown}, minors: BOOLEAN \cup {Unknown},
    lifecycle: Classes \cup {Unknown}, retention: Classes \cup {Unknown},
    computed: BOOLEAN \cup {Unknown} ]

-----------------------------------------------------------------------------
(* The scorers: a score, or Unknown *)

ClassMatch(a, b) ==
  CASE Unknown \in {a, b} -> Unknown
    [] a = b /\ a # Unknown -> Scale
    [] OTHER -> 0

Jaccard(left, right) ==
  IF left \cup right = {}
    THEN Unknown
    ELSE (Scale * Cardinality(left \cap right)) \div Cardinality(left \cup right)

\* Mutant: minors' data is only compared by tenancy class.
ScoreTenancy_ClassOnly(profile, graph) == ClassMatch(profile.tenancy, graph.tenancy)

ScoreTenancy(profile, graph) ==
  IF profile.minors = TRUE /\ graph.minors # TRUE
    THEN 0
    ELSE ClassMatch(profile.tenancy, graph.tenancy)

\* The mean of the two that are known.
ScoreLifecycle(profile, graph) ==
  LET life == ClassMatch(profile.lifecycle, graph.lifecycle)
      retention == ClassMatch(profile.retention, graph.retention)
  IN CASE life = Unknown -> retention
       [] life # Unknown /\ retention = Unknown -> life
       [] OTHER -> (life + retention) \div 2

ScoreCoupling(profile, graph) ==
  CASE profile.computed = Unknown -> Unknown
    [] profile.computed = TRUE /\ graph.computed # TRUE -> 0
    [] OTHER -> ClassMatch(profile.computed, graph.computed)

Scores(profile, graph) ==
  [ f \in AutomatedFactors |->
      CASE f = "identity_value" -> ClassMatch(profile.authority, graph.authority)
        [] f = "ontology_compatibility" -> Jaccard(profile.terms, graph.terms)
        [] f = "tenancy" -> ScoreTenancy(profile, graph)
        [] f = "lifecycle" -> ScoreLifecycle(profile, graph)
        [] f = "computational_coupling" -> ScoreCoupling(profile, graph) ]

Scored(scores) == { f \in AutomatedFactors : scores[f] # Unknown }

\* The sum of the scored factors, in AUTOMATED_FACTORS order.
Total(scores) ==
  LET upTo[n \in 0..Len(AUTOMATED_FACTORS)] ==
        IF n = 0 THEN 0
        ELSE LET s == scores[AUTOMATED_FACTORS[n]]
             IN upTo[n - 1] + IF s = Unknown THEN 0 ELSE s
  IN upTo[Len(AUTOMATED_FACTORS)]

\* The aggregate, Total divided by the number of scored factors, reaches a
\* threshold in hundredths.
Reaches(scores, threshold) ==
  100 * Total(scores) >= threshold * Scale * Cardinality(Scored(scores))

\* The aggregate of s is less than that of t, -1 if nothing is scored.
Lower(s, t) ==
  LET m == Cardinality(Scored(s)) n == Cardinality(Scored(t)) IN
  IF m = 0 \/ n = 0 THEN m = 0 /\ n > 0
                    ELSE Total(s) * n < Total(t) * m

-----------------------------------------------------------------------------
(* recommend() *)

\* _neg_name: the tuple of negated characters is smaller.  A name is a
\* sequence of characters, here naturals.
NegNameBefore(a, b) ==
  \/ \E i \in 1..Len(a) :
       /\ i <= Len(b) /\ a[i] > b[i]
       /\ \A j \in 1..(i - 1) : a[j] = b[j]
  \/ Len(a) < Len(b) /\ \A j \in 1..Len(a) : a[j] = b[j]

\* The highest aggregate, then the largest negated name.
Best(profile, snapshot) ==
  CHOOSE g \in snapshot : \A h \in snapshot \ {g} :
    LET s == Scores(profile, g) t == Scores(profile, h) IN
    \/ Lower(t, s)
    \/ ~Lower(s, t) /\ NegNameBefore(h.name, g.name)

AboveFloor(score, floor) == score = Unknown \/ 100 * score >= floor * Scale

Classify(scores) ==
  LET tenancyOk == AboveFloor(scores["tenancy"], TenancyFloor)
      couplingOk == AboveFloor(scores["computational_coupling"], CouplingFloor)
      identity == scores["identity_value"]
      extend == Reaches(scores, ExtendThreshold) /\ tenancyOk /\ couplingOk
      shared == Reaches(scores, SharedLogicalThreshold) /\ ~tenancyOk
      linked == identity # Unknown /\ 100 * identity >= SharedIdentityThreshold * Scale
  IN CASE extend -> "EXTEND_SAME_PHYSICAL"
       [] ~extend /\ shared -> "SHARED_LOGICAL_SEPARATE_PHYSICAL"
       [] ~extend /\ ~shared /\ linked -> "SEPARATE_SHARED_IDENTITY"
       [] OTHER -> "FULLY_ISOLATED"

\* An empty registry is a definite create; too few scored factors of the
\* best graph are insufficient information.
Recommend(profile, snapshot) ==
  IF snapshot = {}
    THEN [outcome |-> "FULLY_ISOLATED", target |-> <<>>, scored |-> {}]
    ELSE LET best == Best(profile, snapshot)
             scores == Scores(profile, best)
         IN [ outcome |-> IF Cardinality(Scored(scores)) < MinScoredFactors
                            THEN "INSUFFICIENT_INFORMATION"
                            ELSE Classify(scores),
              target |-> best.name,
              scored |-> Scored(scores) ]

\* AdvisorRecommendation.to_contract(): extend with its graph, create, or
\* nothing.
ToContract(advice) ==
  CASE advice.outcome = "INSUFFICIENT_INFORMATION" -> [action |-> "none", graph |-> <<>>]
    [] advice.outcome \in ExtendOutcomes -> [action |-> "extend", graph |-> advice.target]
    [] OTHER -> [action |-> "create", graph |-> <<>>]
=============================================================================
