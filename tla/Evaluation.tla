----------------------------- MODULE Evaluation -----------------------------
(***************************************************************************)
(* kg_eval: matching an arm's candidates with a gold set (matching.py),    *)
(* the metrics (metrics.py), the bootstrap (bootstrap.py) and the verdict  *)
(* on two arms (ablation.py).                                              *)
(*                                                                         *)
(* A fact is a match key with its category, fact.kind.  A rate is a        *)
(* fraction, or Unmeasured.  The percentiles of resampled means are any    *)
(* interval between the least and the greatest of the values resampled.    *)
(***************************************************************************)
EXTENDS Integers, Sequences, FiniteSets

CONSTANT Unmeasured

ASSUME UnmeasuredAssumption == Unmeasured \notin Int

Categories == {"entity", "relation", "attribute"}

Groundings == {"SUPPORTS", "DERIVED_FROM"}

Rate(part, whole) == IF whole \in {0, Unmeasured} THEN Unmeasured ELSE <<part, whole>>

RateAtMost(a, b) == a[1] * b[2] <= b[1] * a[2]

-----------------------------------------------------------------------------
(* Inputs *)

\* A gold set with two items of one key is refused.
GoldSetValid(gold) ==
  \A i, j \in DOMAIN gold.items : gold.items[i].fact = gold.items[j].fact => i = j

ArmOutputValid(output) ==
  output.attempted # Unmeasured => output.abstained + output.failed <= output.attempted

-----------------------------------------------------------------------------
(* Matching *)

\* The positions of the items of one category.
OfKind(items, kind) == { i \in DOMAIN items : items[i].fact.kind = kind }

\* Mutant: a gold item is not consumed by the candidate it matches.
Matched_NotConsumed(gold, candidates) ==
  [ j \in DOMAIN candidates |->
      { i \in DOMAIN gold : gold[i].fact = candidates[j].fact } ]

\* The gold item each candidate consumes, as a set of at most one index: a
\* repeat of a fact matches nothing.
Matched(gold, candidates) ==
  [ j \in DOMAIN candidates |->
      { i \in DOMAIN gold :
          /\ gold[i].fact = candidates[j].fact
          /\ \A k \in 1..(j - 1) : candidates[k].fact # candidates[j].fact } ]

TruePositives(matched, produced) == Cardinality({ j \in produced : matched[j] # {} })

\* CategoryMatch for one category; a fact has one category, so the others
\* take nothing from it.
Match(gold, output, kind) ==
  LET expected == OfKind(gold.items, kind)
      produced == OfKind(output.candidates, kind)
      matched == Matched(gold.items, output.candidates)
      tp == TruePositives(matched, produced)
  IN [ tp |-> tp, fp |-> Cardinality(produced) - tp, fn |-> Cardinality(expected) - tp,
       goldHits |-> [ i \in expected |->
                        IF \E j \in produced : i \in matched[j] THEN 1 ELSE 0 ],
       pairs |-> UNION { { <<output.candidates[j], gold.items[i]>> : i \in matched[j] } :
                           j \in produced } ]

-----------------------------------------------------------------------------
(* Metrics *)

\* Precision, recall and their harmonic mean.
PRF(match) ==
  LET produced == match.tp + match.fp  expected == match.tp + match.fn IN
  [ precision |-> Rate(match.tp, produced),
    recall |-> Rate(match.tp, expected),
    f1 |-> IF 0 \in {produced, expected} THEN Unmeasured
                                         ELSE Rate(2 * match.tp, produced + expected) ]

\* The refs that resolve to PRESENT evidence.
PresentRefs(output, candidate) ==
  { r \in candidate.refs : /\ r.evidence \in DOMAIN output.evidence
                           /\ output.evidence[r.evidence].present }

CoversSpan(output, candidate, span) ==
  \E r \in PresentRefs(output, candidate) :
    LET ev == output.evidence[r.evidence] IN
    /\ ev.locator = span.locator
    /\ span.quote = Unmeasured \/ span.quote \in ev.quotes

OverlapsSpan(output, candidate, span) ==
  /\ span.chars # Unmeasured
  /\ \E r \in PresentRefs(output, candidate) :
       LET ev == output.evidence[r.evidence] IN
       /\ ev.chars # Unmeasured
       /\ ev.locator = span.locator
       /\ ev.chars.start < span.chars.end
       /\ span.chars.start < ev.chars.end

\* Matched candidates with the span their gold item expects.
MatchedGoldSpans(gold, output) ==
  { pair \in UNION { Match(gold, output, kind).pairs : kind \in Categories } :
      pair[2].span # Unmeasured }

EvidenceValidity(gold, output) ==
  LET refs == UNION { {j} \X output.candidates[j].refs : j \in DOMAIN output.candidates }
      spans == MatchedGoldSpans(gold, output)
      chars == { pair \in spans : pair[2].span.chars # Unmeasured }
  IN [ resolvable |-> Rate(Cardinality({ p \in refs : p[2].evidence \in DOMAIN output.evidence }),
                           Cardinality(refs)),
       coverage |-> Rate(Cardinality({ p \in spans : CoversSpan(output, p[1], p[2].span) }),
                         Cardinality(spans)),
       overlap |-> Rate(Cardinality({ p \in chars : OverlapsSpan(output, p[1], p[2].span) }),
                        Cardinality(chars)) ]

\* Candidates outside a vocabulary; an empty one constrains nothing.
OntologyViolations(output, ontology) ==
  IF ontology = Unmeasured
    THEN Unmeasured
    ELSE Cardinality({ j \in DOMAIN output.candidates :
           LET fact == output.candidates[j].fact IN
           ontology[fact.kind] # {} /\ fact.term \notin ontology[fact.kind] })

UngroundedBy(output, relationships) ==
  Cardinality({ j \in DOMAIN output.candidates :
    \A r \in PresentRefs(output, output.candidates[j]) :
      r.relationship \notin relationships })

UnsupportedAssertions(output) == UngroundedBy(output, Groundings)

UnverifiedAssertions(output) == UngroundedBy(output, {"SUPPORTS"})

EvaluateExtraction(output, gold, ontology) ==
  LET match == [ kind \in Categories |-> Match(gold, output, kind) ]
      attempted == IF output.attempted # Unmeasured THEN output.attempted
                                                    ELSE gold.attempted
  IN [ prf |-> [ kind \in Categories |-> PRF(match[kind]) ],
       evidence |-> EvidenceValidity(gold, output),
       violations |-> OntologyViolations(output, ontology),
       hallucinations |-> match["entity"].fp + match["relation"].fp + match["attribute"].fp,
       unsupported |-> UnsupportedAssertions(output),
       unverified |-> UnverifiedAssertions(output),
       abstention |-> Rate(output.abstained, attempted),
       failure |-> Rate(output.failed, attempted),
       cost |-> output.cost ]

-----------------------------------------------------------------------------
(* Comparing two arms *)

\* The intervals bootstrap_diff_ci may return for paired hits, Unmeasured
\* for arms misaligned or with too few items.
DiffIntervals(baseline, enhanced, minItems) ==
  IF DOMAIN baseline # DOMAIN enhanced \/ Cardinality(DOMAIN baseline) < minItems
    THEN {Unmeasured}
    ELSE LET diffs == { enhanced[i] - baseline[i] : i \in DOMAIN baseline } IN
         { ci \in [lower: -1..1, upper: -1..1] :
             /\ ci.lower <= ci.upper
             /\ \E d \in diffs : d <= ci.lower
             /\ \E d \in diffs : d >= ci.upper }

\* What only one of the arms measured is not compared.
Rose(before, after) == Unmeasured \notin {before, after} /\ after > before

\* What the enhanced arm made worse.
GuardrailConcerns(baseline, enhanced) ==
  { g \in {"hallucinations", "unsupported", "cost", "latency"} :
      \/ g = "hallucinations" /\ enhanced.hallucinations > baseline.hallucinations
      \/ g = "unsupported" /\ enhanced.unsupported > baseline.unsupported
      \/ g = "cost" /\ Rose(baseline.cost.usd, enhanced.cost.usd)
      \/ g = "latency" /\ Rose(baseline.cost.seconds, enhanced.cost.seconds) }

\* The verdicts compare_arms may give on a category's recall, precision or f1.
CompareArms(baseline, enhanced, gold, kind, field, minItems) ==
  LET base == EvaluateExtraction(baseline, gold, Unmeasured)
      enh == EvaluateExtraction(enhanced, gold, Unmeasured)
      concerns == GuardrailConcerns(base, enh)
      measurable == Unmeasured \notin {base.prf[kind][field], enh.prf[kind][field]}
      verdict(ci) ==
        IF ~measurable \/ field # "recall" \/ ci = Unmeasured
          THEN "INSUFFICIENT_EVIDENCE"
          ELSE CASE ci.upper < 0 -> "REGRESSION"
                 [] ci.lower > 0 /\ concerns = {} -> "IMPROVEMENT"
                 [] OTHER -> "NO_IMPROVEMENT"
  IN { verdict(ci) : ci \in DiffIntervals(Match(gold, baseline, kind).goldHits,
                                          Match(gold, enhanced, kind).goldHits, minItems) }
=============================================================================
