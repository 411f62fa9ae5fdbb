----------------------------- MODULE MCIngestJobs -----------------------------
(* Instances of IngestJobs for TLC. *)
EXTENDS IngestJobs, TLC

CONSTANTS records, passages, x1, x2, x3, e1, e2, k1, k2

\* x1 and x2 are two ids of one fact, x3 is another fact.
MCKeyOf == (x1 :> k1) @@ (x2 :> k1) @@ (x3 :> k2)

Fact(x, valid, evidence) == [cand |-> x, valid |-> valid, evidence |-> evidence]

\* The records: one the validator rejects, one of the same key it accepts, and
\* another fact.  The passages: two facts of one passage, one of them again.
MCWork ==
  (records :> <<<<Fact(x2, FALSE, <<>>), Fact(x1, TRUE, <<>>)>>,
                <<Fact(x3, TRUE, <<>>)>>>>)
  @@ (passages :> <<<<Fact(x1, TRUE, <<e1>>)>>,
                    <<Fact(x1, TRUE, <<e1>>), Fact(x3, TRUE, <<e1, e2>>)>>>>)

MCBatchSize == (records :> 2) @@ (passages :> 1)

\* One extraction job.
MCKeyOfAlone == (x1 :> k1) @@ (x3 :> k2)

MCWorkAlone ==
  passages :> <<<<Fact(x1, TRUE, <<e1>>), Fact(x3, TRUE, <<e1>>)>>>>

MCBatchAlone == passages :> 2
=============================================================================
