--------------------------- MODULE ConfidencePolicy ---------------------------
(***************************************************************************)
(* ConfidencePolicy (kg_contracts/policy.py): routes a candidate's scores  *)
(* to AUTO, LLM_ASSESS or HUMAN.  A score is a natural up to Top, or       *)
(* Unstated for an identity confidence nobody gave.                        *)
(***************************************************************************)
EXTENDS Integers

CONSTANTS Top, Unstated

ASSUME TopAssumption == Top \in Nat
ASSUME UnstatedAssumption == Unstated \notin Int

Score == 0..Top

AdjudicationRoute == {"AUTO", "LLM_ASSESS", "HUMAN"}

IdentityDisposition == {"RESOLVED_EXISTING", "NEW_IDENTITY", "UNRESOLVED"}

CandidateScores ==
  [ extraction: Score, reliability: Score, risk: Score,
    identity: Score \cup {Unstated} ]

\* The thresholds, with the order the validator demands.
Policy ==
  { p \in [ autoExtraction: Score, assessExtraction: Score,
            autoReliability: Score, autoRisk: Score, humanRisk: Score,
            autoIdentity: Score, requireIdentity: BOOLEAN,
            allowNewIdentity: BOOLEAN ] :
      p.autoExtraction >= p.assessExtraction /\ p.humanRisk >= p.autoRisk }

RouteSeverity(route) ==
  CASE route = "AUTO" -> 0
    [] route = "LLM_ASSESS" -> 1
    [] route = "HUMAN" -> 2

MoreConservative(a, b) == IF RouteSeverity(a) >= RouteSeverity(b) THEN a ELSE b

\* Mutant: moderate risk caps the route instead of setting its floor.
Combined_Capped(p, floor, route) == IF floor = "LLM_ASSESS" THEN floor
                                    ELSE MoreConservative(floor, route)

Combined(p, floor, route) == MoreConservative(floor, route)

RiskFloor(p, s) ==
  CASE s.risk > p.humanRisk -> "HUMAN"
    [] s.risk > p.autoRisk /\ s.risk <= p.humanRisk -> "LLM_ASSESS"
    [] OTHER -> "AUTO"

IdentityConfidenceMeetsThreshold(p, s) ==
  s.identity # Unstated /\ s.identity >= p.autoIdentity

\* A new identity may lack a confidence, but a stated one is held to the
\* threshold; nothing is known of an unresolved one.
IdentityGateOk(p, s, disposition) ==
  \/ ~p.requireIdentity
  \/ /\ disposition = "NEW_IDENTITY"
     /\ p.allowNewIdentity
     /\ s.identity = Unstated \/ IdentityConfidenceMeetsThreshold(p, s)
  \/ /\ disposition = "RESOLVED_EXISTING"
     /\ IdentityConfidenceMeetsThreshold(p, s)

ExtractionRoute(p, s, disposition) ==
  CASE /\ s.extraction >= p.autoExtraction
       /\ s.reliability >= p.autoReliability
       /\ IdentityGateOk(p, s, disposition) -> "AUTO"
    [] /\ s.extraction >= p.assessExtraction
       /\ ~ /\ s.extraction >= p.autoExtraction
            /\ s.reliability >= p.autoReliability
            /\ IdentityGateOk(p, s, disposition) -> "LLM_ASSESS"
    [] OTHER -> "HUMAN"

\* route()
Route(p, s, disposition) ==
  Combined(p, RiskFloor(p, s), ExtractionRoute(p, s, disposition))
=============================================================================
