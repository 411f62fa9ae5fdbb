-------------------------- MODULE MCCandidateLedger --------------------------
(* Instances of CandidateLedger for TLC. *)
EXTENDS CandidateLedger, TLC

CONSTANTS c1, c2, x1, x2, k1

\* One id per fact, so the lifecycle of a single row.
MCKeyOfOne == x1 :> k1

MCBatchesOne == {<<x1>>}

\* Two ids of one fact, submitted together and apart.
MCKeyOfPair == (x1 :> k1) @@ (x2 :> k1)

MCBatchesPair == {<<x1, x2>>, <<x2>>}

\* transition() may be asked for any state.
MCAllStates == ProcessingState
=============================================================================
