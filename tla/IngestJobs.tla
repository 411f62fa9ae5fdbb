------------------------------ MODULE IngestJobs ------------------------------
(***************************************************************************)
(* The two front ends that feed the ledger: IngestPipeline                 *)
(* (src/src/kgis/pipeline.py) over records, ExtractionPipeline             *)
(* (src/src/kgis/extraction/runner.py) over passages.  They share their    *)
(* admission, their batched submission and their dry run; what differs is  *)
(* how work is lost and that extraction stores and cites evidence.  Jobs   *)
(* run next to each other, to governance and to crashes.                   *)
(*                                                                         *)
(* The ledger is what CandidateSink promises, a batch being one step       *)
(* (CandidateLedger has the rest), erasing is AtomicErasure's step, the    *)
(* registry's statements are EvidenceRegistry's.                           *)
(***************************************************************************)
EXTENDS Naturals, FiniteSets, SequencesExt, EvidenceRegistry

CONSTANTS
  Jobs,          \* configured pipelines, each runs again and again
  Passages,      \* the jobs that are ExtractionPipelines
  Keys, KeyOf,   \* dedup keys
  Work,          \* per job, its records or work items, in order
  BatchSize,     \* per job
  MaxFaults      \* bound: runs that lose work, raise or crash

ASSUME JobsAssumption == Passages \subseteq Jobs
ASSUME KeyOfAssumption == KeyOf \in [Candidates -> Keys]

\* One candidate a record or a passage builds: whether the candidate
\* validator accepts it, and the evidence extraction stores for it.
Built == [cand: Candidates, valid: BOOLEAN, evidence: Seq(Evidence)]

\* An invalid record builds nothing.
ASSUME WorkAssumption == Work \in [Jobs -> Seq(Seq(Built))]
ASSUME BatchAssumption == BatchSize \in [Jobs -> Nat \ {0}]
ASSUME BoundAssumption == MaxFaults \in Nat

VARIABLES
  life,      \* the ledger: the stage of every candidate (CandidateSink)
  evid,      \* the registry's evidence rows
  refs,      \* the registry's citations
  job,       \* per job, the local state of its run
  forecast,  \* per job, what its dry run said, while the ledger is as it was
  faults     \* runs that lost work, raised or crashed so far

vars == <<life, evid, refs, job, forecast, faults>>

Stages == {"absent", "live", "revoked", "erased"}

NoForecast == [made |-> FALSE, planned |-> <<>>, duplicates |-> {}]

Idle ==
  [ at |-> "idle", mode |-> "none", left |-> <<>>, writes |-> <<>>,
    planned |-> <<>>, seen |-> {}, sent |-> 0, duplicates |-> 0,
    incomplete |-> FALSE ]

At(j, where) == job[j].at = where

-----------------------------------------------------------------------------
(* The sink *)

\* What submit() makes of one candidate: a live row of its key, or any row of
\* its id, makes it a duplicate.
Duplicate(lives, x) ==
  \/ \E y \in Candidates : lives[y] = "live" /\ KeyOf[y] = KeyOf[x]
  \/ lives[x] # "absent"

Received(lives, x) ==
  IF Duplicate(lives, x) THEN lives ELSE [lives EXCEPT ![x] = "live"]

\* The ledger after each prefix of a batch, the empty one included.
AfterEach(lives, batch) ==
  LET after[n \in 0..Len(batch)] ==
        IF n = 0 THEN lives ELSE Received(after[n - 1], batch[n])
  IN after

-----------------------------------------------------------------------------
(* Reading the source *)

Init ==
  /\ life = [x \in Candidates |-> "absent"]
  /\ evid = [e \in Evidence |-> "missing"]
  /\ refs = {}
  /\ job = [j \in Jobs |-> Idle]
  /\ forecast = [j \in Jobs |-> NoForecast]
  /\ faults = 0

\* What a job may get of its work: a source that breaks off leaves a prefix
\* of the records; a failing extractor only loses its own item, whichever
\* worker ran it and whenever it ended (pool.map keeps the order of the items).
Deliveries(j) ==
  IF j \in Passages
    THEN { [i \in DOMAIN Work[j] |-> IF i \in lost THEN <<>> ELSE Work[j][i]] :
             lost \in SUBSET DOMAIN Work[j] }
    ELSE { SubSeq(Work[j], 1, n) : n \in 0..Len(Work[j]) }

\* Mutant: the keys seen are the pipeline's, not the run's.
Start_KeepsSeen(j, mode, delivered) ==
  /\ job[j].at \in {"idle", "planned", "done", "aborted"}
  /\ job' = [job EXCEPT ![j] =
               [Idle EXCEPT !.at = "collect", !.mode = mode,
                            !.left = FlattenSeq(delivered), !.seen = job[j].seen,
                            !.incomplete = delivered # Work[j]]]
  /\ delivered = Work[j]
  /\ UNCHANGED <<life, evid, refs, forecast, faults>>

Start(j, mode, delivered) ==
  /\ job[j].at \in {"idle", "planned", "done", "aborted"}
  /\ job' = [job EXCEPT ![j] =
               [Idle EXCEPT !.at = "collect", !.mode = mode,
                            !.left = FlattenSeq(delivered),
                            !.incomplete = delivered # Work[j]]]
  /\ forecast' = IF At(j, "planned") /\ mode = "run"
                   THEN forecast ELSE [forecast EXCEPT ![j] = NoForecast]
  /\ IF delivered = Work[j]
       THEN UNCHANGED faults
       ELSE faults < MaxFaults /\ faults' = faults + 1
  /\ UNCHANGED <<life, evid, refs>>

-----------------------------------------------------------------------------
(* Admission *)

\* The last candidate admitted, if any, has its evidence; there are more.
Collecting(j) ==
  At(j, "collect") /\ job[j].writes = <<>> /\ job[j].left # <<>>

Collected(j) ==
  At(j, "collect") /\ job[j].writes = <<>> /\ job[j].left = <<>>

Next1(j) == Head(job[j].left)

Suppress(j) ==
  /\ Collecting(j)
  /\ KeyOf[Next1(j).cand] \in job[j].seen
  /\ job' = [job EXCEPT ![j].left = Tail(@)]
  /\ UNCHANGED <<life, evid, refs, forecast, faults>>

\* Mutant: a rejected candidate claims its key.
Reject_ClaimsKey(j) ==
  /\ Collecting(j)
  /\ KeyOf[Next1(j).cand] \notin job[j].seen
  /\ ~Next1(j).valid
  /\ job' = [job EXCEPT ![j].left = Tail(@),
                        ![j].seen = @ \cup {KeyOf[Next1(j).cand]}]
  /\ UNCHANGED <<life, evid, refs, forecast, faults>>

Reject(j) ==
  /\ Collecting(j)
  /\ KeyOf[Next1(j).cand] \notin job[j].seen
  /\ ~Next1(j).valid
  /\ job' = [job EXCEPT ![j].left = Tail(@)]
  /\ UNCHANGED <<life, evid, refs, forecast, faults>>

\* The key is reserved; a run of an extraction job has evidence to write
\* before the candidate joins the plan.
Admit(j) ==
  LET x == Next1(j).cand IN
  /\ Collecting(j)
  /\ KeyOf[x] \notin job[j].seen
  /\ Next1(j).valid
  /\ job' = [job EXCEPT ![j].left = Tail(@),
                        ![j].seen = @ \cup {KeyOf[x]},
                        ![j].planned = Append(@, x),
                        ![j].writes = IF j \in Passages /\ job[j].mode = "run"
                                        THEN Next1(j).evidence ELSE <<>>]
  /\ UNCHANGED <<life, evid, refs, forecast, faults>>

\* registry.put(), which skips redacted rows ...
PutEvidence(j) ==
  LET e == Head(job[j].writes) IN
  /\ At(j, "collect")
  /\ job[j].writes # <<>>
  /\ evid' = IF RowIsRedacted(evid, e)
               THEN evid ELSE Stored(evid, [id |-> e, form |-> "text"])
  /\ job' = [job EXCEPT ![j].at = "cite"]
  /\ UNCHANGED <<life, refs, forecast, faults>>

\* Mutant: the citations are left for later.
CiteEvidence_Skipped(j) ==
  /\ At(j, "cite")
  /\ job' = [job EXCEPT ![j].writes = Tail(@), ![j].at = "collect"]
  /\ UNCHANGED <<life, evid, refs, forecast, faults>>

\* ... and registry.add_refs(), each committed before the next.
CiteEvidence(j) ==
  /\ At(j, "cite")
  /\ refs' = WithRefs(refs, Last(job[j].planned), {Head(job[j].writes)})
  /\ job' = [job EXCEPT ![j].writes = Tail(@), ![j].at = "collect"]
  /\ UNCHANGED <<life, evid, forecast, faults>>

-----------------------------------------------------------------------------
(* Dry run *)

\* Mutant: only live keys are looked up.
Predicted_LiveOnly(j) ==
  { x \in Candidates :
      /\ \E i \in DOMAIN job[j].planned : job[j].planned[i] = x
      /\ \E y \in Candidates : life[y] = "live" /\ KeyOf[y] = KeyOf[x] }

\* The planned candidates the ledger would answer DUPLICATE: a live row of
\* the key, or (the record pipeline only) any row of the id.
Predicted(j) ==
  { x \in Candidates :
      /\ \E i \in DOMAIN job[j].planned : job[j].planned[i] = x
      /\ \/ \E y \in Candidates : life[y] = "live" /\ KeyOf[y] = KeyOf[x]
         \/ j \notin Passages /\ life[x] # "absent" }

BuildPlan(j) ==
  /\ Collected(j)
  /\ job[j].mode = "plan"
  /\ forecast' = [forecast EXCEPT ![j] =
                    [made |-> TRUE, planned |-> job[j].planned,
                     duplicates |-> Predicted(j)]]
  /\ job' = [job EXCEPT ![j] = [Idle EXCEPT !.at = "planned"]]
  /\ UNCHANGED <<life, evid, refs, faults>>

-----------------------------------------------------------------------------
(* Submission *)

\* The others' forecasts are of a ledger that is gone.
LedgerMoved(js) ==
  forecast' = [j \in Jobs |-> IF j \in js THEN NoForecast ELSE forecast[j]]

Submitting(j) ==
  /\ Collected(j) \/ At(j, "submit")
  /\ job[j].mode = "run"

Unsent(j) == SubSeq(job[j].planned, job[j].sent + 1, Len(job[j].planned))

Batch(j) ==
  SubSeq(Unsent(j), 1,
         IF BatchSize[j] < Len(Unsent(j)) THEN BatchSize[j] ELSE Len(Unsent(j)))

\* Mutant: the batch is cut one short of where the next one starts.
SubmitBatch_DropsLast(j) ==
  LET sent == SubSeq(Batch(j), 1, Len(Batch(j)) - 1) IN
  /\ Submitting(j)
  /\ Unsent(j) # <<>>
  /\ life' = AfterEach(life, sent)[Len(sent)]
  /\ LedgerMoved(IF life' = life THEN {} ELSE Jobs \ {j})
  /\ job' = [job EXCEPT ![j].at = "submit", ![j].sent = @ + Len(Batch(j))]
  /\ UNCHANGED <<evid, refs, faults>>

\* Mutant: the report is that of the last batch.
SubmitBatch_LastTally(j) ==
  LET batch == Batch(j)
      after == AfterEach(life, batch)
      duplicates == { i \in DOMAIN batch : Duplicate(after[i - 1], batch[i]) }
  IN /\ Submitting(j)
     /\ batch # <<>>
     /\ life' = after[Len(batch)]
     /\ LedgerMoved(IF life' = life THEN {} ELSE Jobs \ {j})
     /\ job' = [job EXCEPT ![j].at = "submit",
                           ![j].sent = @ + Len(batch),
                           ![j].duplicates = Cardinality(duplicates)]
     /\ UNCHANGED <<evid, refs, faults>>

\* sink.submit() of one batch, and its outcomes tallied.
SubmitBatch(j) ==
  LET batch == Batch(j)
      after == AfterEach(life, batch)
      duplicates == { i \in DOMAIN batch : Duplicate(after[i - 1], batch[i]) }
  IN /\ Submitting(j)
     /\ batch # <<>>
     /\ life' = after[Len(batch)]
     /\ LedgerMoved(IF life' = life THEN {} ELSE Jobs \ {j})
     /\ job' = [job EXCEPT ![j].at = "submit",
                           ![j].sent = @ + Len(batch),
                           ![j].duplicates = @ + Cardinality(duplicates)]
     /\ UNCHANGED <<evid, refs, faults>>

Finish(j) ==
  /\ Submitting(j)
  /\ Unsent(j) = <<>>
  /\ job' = [job EXCEPT ![j].at = "done"]
  /\ UNCHANGED <<life, evid, refs, forecast, faults>>

\* The registry or the sink raises, or the process dies: what was committed
\* stays, the report is lost.
Abort(j) ==
  /\ job[j].at \in {"collect", "cite", "submit"}
  /\ faults < MaxFaults
  /\ faults' = faults + 1
  /\ job' = [job EXCEPT ![j] = [Idle EXCEPT !.at = "aborted"]]
  /\ UNCHANGED <<life, evid, refs, forecast>>

-----------------------------------------------------------------------------
(* Governance: SqliteCandidateLedger.revoke, ErasureCoordinator.erase *)

Revoke(x) ==
  /\ life[x] = "live"
  /\ life' = [life EXCEPT ![x] = "revoked"]
  /\ LedgerMoved(Jobs)
  /\ UNCHANGED <<evid, refs, job, faults>>

Erase(x) ==
  LET left == WithoutSubject(refs, x) IN
  /\ life[x] \in {"live", "revoked"}
  /\ life' = [life EXCEPT ![x] = "erased"]
  /\ refs' = left
  /\ evid' = Redacted(evid, Orphans(left, CitedBy(refs, x)))
  /\ LedgerMoved(Jobs)
  /\ UNCHANGED <<job, faults>>

-----------------------------------------------------------------------------

Step(j) ==
  \/ Suppress(j) \/ Reject(j) \/ Admit(j)
  \/ PutEvidence(j) \/ CiteEvidence(j)
  \/ BuildPlan(j) \/ SubmitBatch(j) \/ Finish(j)

Run(j) == \E delivered \in Deliveries(j) : Start(j, "run", delivered)

Plan(j) == \E delivered \in Deliveries(j) : Start(j, "plan", delivered)

Next ==
  \/ \E j \in Jobs : Run(j) \/ Plan(j) \/ Step(j) \/ Abort(j)
  \/ \E x \in Candidates : Revoke(x) \/ Erase(x)

Spec == Init /\ [][Next]_vars

\* A run that was started goes on, and a job is run again and again (it is a
\* sync: "re-ingesting yesterday's file"), now and then as a dry run.
FairSpec == Spec /\ \A j \in Jobs : WF_vars(Step(j)) /\ SF_vars(Run(j))

-----------------------------------------------------------------------------
(* Properties *)

Forecast ==
  [made: BOOLEAN, planned: Seq(Candidates), duplicates: SUBSET Candidates]

\* Types; keys are reserved exactly for what is planned.
TypeOK ==
  /\ life \in [Candidates -> Stages]
  /\ evid \in [Evidence -> EvidenceRow]
  /\ refs \subseteq Citations
  /\ forecast \in [Jobs -> Forecast]
  /\ faults \in 0..MaxFaults
  /\ \A j \in Jobs :
       /\ job[j].at \in {"idle", "collect", "cite", "submit", "planned", "done",
                         "aborted"}
       /\ job[j].mode \in {"none", "run", "plan"}
       /\ job[j].left \in Seq(Built)
       /\ job[j].writes \in Seq(Evidence)
       /\ job[j].planned \in Seq(Candidates)
       /\ job[j].seen = { KeyOf[job[j].planned[i]] : i \in DOMAIN job[j].planned }
       /\ job[j].sent \in 0..Len(job[j].planned)
       /\ job[j].duplicates \in 0..job[j].sent

\* Every key of which the source delivered an acceptable candidate is planned
\* once: a rejected candidate does not silence the next one of its key, a
\* repeated one is not submitted twice.
EveryKeyPlannedOnce ==
  \A j \in Jobs :
    LET planned == job[j].planned
        valid == { b \in ToSet(FlattenSeq(Work[j])) : b.valid }
    IN /\ \A m, n \in DOMAIN planned :
            KeyOf[planned[m]] = KeyOf[planned[n]] => m = n
       /\ At(j, "done") /\ ~job[j].incomplete =>
            { KeyOf[planned[n]] : n \in DOMAIN planned } = { KeyOf[b.cand] : b \in valid }

\* "The plan an operator approves is the plan that runs": with nobody else
\* at the ledger in between, the run of a record job finds the duplicates its
\* plan predicted, whatever the batch size and whatever was withdrawn before.
PlanPredictsRun ==
  \A j \in Jobs \ Passages :
    /\ At(j, "done")
    /\ forecast[j].made
    /\ forecast[j].planned = job[j].planned
    => job[j].duplicates = Cardinality(forecast[j].duplicates)

Withdrawn(x) == life[x] \in {"revoked", "erased"}

\* The run of an extraction job finds the duplicates its dry run predicted
\* and those it does not look for, the candidates withdrawn by then, and no
\* others: the difference between the two pipelines' plans is known exactly.
PlanMissesOnlyWithdrawn ==
  \A j \in Passages :
    /\ At(j, "done")
    /\ forecast[j].made
    /\ forecast[j].planned = job[j].planned
    => job[j].duplicates =
         Cardinality(forecast[j].duplicates \cup { x \in ToSet(job[j].planned) : Withdrawn(x) })

\* A candidate an extraction run brings into the ledger is cited to all its
\* evidence by then, whatever was erased or re-run meanwhile.
ReceivedIsCited ==
  [][\A j \in Passages : job'[j].sent # job[j].sent =>
       \A x \in Candidates : life[x] = "absent" /\ life'[x] = "live" =>
         \E b \in ToSet(FlattenSeq(Work[j])) :
           b.cand = x /\ b.valid /\ ToSet(b.evidence) \subseteq CitedBy(refs', x)]_vars

Known(k) == \E y \in Candidates : KeyOf[y] = k /\ life[y] # "absent"

\* Running a job again after it aborted brings in what its source holds,
\* however far the aborted run had come.
RerunCatchesUp ==
  \A j \in Jobs : At(j, "aborted") ~>
    \A b \in ToSet(FlattenSeq(Work[j])) : b.valid => Known(KeyOf[b.cand])

\* Text that anybody cites has a reader that is not erased: erasing all the
\* readers of a passage erases it, however often the job ran in between
\* ("re-extraction is therefore safe and idempotent").
ErasedTextStaysGone ==
  \A e \in Evidence :
    evid[e] = "text" /\ (\E x \in Candidates : <<x, e>> \in refs) =>
      \E x \in Candidates : <<x, e>> \in refs /\ life[x] # "erased"
=============================================================================
