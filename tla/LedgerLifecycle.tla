--------------------------- MODULE LedgerLifecycle ---------------------------
(***************************************************************************)
(* The ProcessingState machine of the candidate ledger                     *)
(* (src/src/kgis/ledger/lifecycle.py).  Revoking and erasing are not       *)
(* processing states: they are columns of the row (CandidateLedger).       *)
(***************************************************************************)

\* kg_contracts.curation.ProcessingState.
ProcessingState ==
  { "RECEIVED", "VALIDATED", "BLOCKED", "RESOLUTION_PENDING",
    "REVIEW_PENDING", "RETRYABLE_ERROR", "ACCEPTED", "REJECTED", "INVALID",
    "OBSOLETE", "PERMANENT_ERROR" }

\* The table itself: from each state, the states it may move to.
LEGAL_TRANSITIONS ==
  [ s \in ProcessingState |->
      CASE s = "RECEIVED" ->
             {"VALIDATED", "INVALID", "BLOCKED", "RETRYABLE_ERROR", "OBSOLETE"}
        [] s = "VALIDATED" ->
             {"RESOLUTION_PENDING", "REVIEW_PENDING", "ACCEPTED", "OBSOLETE",
              "RETRYABLE_ERROR"}
        [] s = "BLOCKED" -> {"RECEIVED", "REJECTED", "INVALID"}
        [] s = "RESOLUTION_PENDING" ->
             {"REVIEW_PENDING", "ACCEPTED", "REJECTED", "OBSOLETE",
              "RETRYABLE_ERROR"}
        [] s = "REVIEW_PENDING" -> {"ACCEPTED", "REJECTED", "OBSOLETE"}
        [] s = "RETRYABLE_ERROR" ->
             {"VALIDATED", "RECEIVED", "PERMANENT_ERROR", "REJECTED"}
        [] OTHER -> {} ]

TERMINAL_STATES == { s \in ProcessingState : LEGAL_TRANSITIONS[s] = {} }

\* Mutant: only the target is looked at.
CanTransition_AnyTarget(src, dst) == dst \in ProcessingState

CanTransition(src, dst) ==
  /\ src \in ProcessingState
  /\ dst \in LEGAL_TRANSITIONS[src]
=============================================================================
