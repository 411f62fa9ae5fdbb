# A verification development for agentic-kgis

TLA+ models of agentic-kgis (the code under `src/src`): its stores and
pipelines as state machines, its stateless parts as operators; TLC
configurations that check them on small instances; and TLAPS proofs about the
candidate ledger, the canonical graph store and the graph registry. Paths below
are relative to the repository root as it appears in `PROJECT.json` (`src/...`).

The program turns sources (CSV, JSON, structured stores, documents read with
an LLM) into *candidates*, keeps each candidate in a *ledger* with its
processing state and audit trail, keeps the *evidence* the candidates cite in
a registry, and can *erase* a candidate with everything only it cited. Around
that core stand a graph registry with an advisor, a canonical graph store
contract with an in-memory reference implementation, a curation policy, and an
evaluation harness.

## 1. Inventory

| Component | State | Operations | What is hard | What makes it correct |
|---|---|---|---|---|
| **Candidate ledger** `kgis/ledger/store.py`, `row.py`, `schema.py`, `config.py` | SQLite tables `ledger_entries`, `ledger_transitions`, `audit_records`; a connection's open transaction | `submit(batch)`, `transition`, `revoke`, `erase`, `record_redaction`, reads | dedup SELECT, then INSERT, from several connections; read-check-update without a transaction; a batch that raises half way; `commit()` outside the `try` | one live row per dedup key; a batch is all or nothing; RECEIVED is durable; the audit trail explains the row; nothing is un-erased |
| **Lifecycle** `kgis/ledger/lifecycle.py` | none (a table) | `can_transition`, `assert_transition` | terminal states are derived from the table | terminal states have no exits |
| **Audit stream** `kgis/ledger/audit.py` | `audit_records`, append-only by triggers | `append_audit` in the caller's transaction | written with, or lost with, the row change | append-only, one record per change |
| **Evidence registry** `kgis/evidence/store.py`, `schema.py` | tables `evidence`, `evidence_refs` | `put`, `put_many`, `add_refs`, redaction and cascade statements, reads | the redaction marker and the citations are read before the write transaction opens; `put` does not roll back | redacted text never comes back; shared evidence survives |
| **Erasure coordinator** `kgis/erasure.py` | none of its own; drives ledger and registry | `erase`, `revoke` | two files, two commits; a failure between them; retry; concurrent citing | atomic on one file; registry first on two; a retry completes and records once |
| **Ingestion pipeline** `kgis/pipeline.py`, `report.py`, `validate.py`, `records.py` | one run's counters, seen keys, pending batch | `run`, `plan` | a batch failing after earlier ones committed; a source breaking off; the plan against a ledger that moves | counters add up; every admitted candidate is submitted once; re-running is harmless; the plan predicts an undisturbed run |
| **Extraction** `kgis/extraction/runner.py`, `client.py`, `extractor.py`, `provenance.py`, `config.py` | thread pool, ordered results, batch | `run`, `plan` | workers finish in any order, some fail; evidence is committed before the candidate is submitted; re-extraction of erased candidates | result independent of worker order; a RECEIVED candidate's evidence is there; one item's failure stays its own |
| **Extraction parsing, chunkers** `parse.py`, `documents.py` | none | quote anchoring, windows | last partial window, overlap, repeated quotes | chunks cover the text; an anchor points at its quote |
| **Structured sources** `kgis/structured/*` | a snapshot pinned per reader, recorded evidence | read records, record evidence | the source changes between readers' snapshots | records of one reader are one snapshot; evidence names it |
| **Graph registry** `kgis/registry/store.py`, `models.py` | tables of versions, decisions, outcomes | `register`, `record_decision`, `record_outcome`, reads | `MAX(version)+1` from two processes in a deferred transaction; a failing COMMIT is not rolled back | versions are gapless and never overwritten; a decision recorded twice is one decision |
| **Graph advisor** `kgis/registry/advisor.py` | none | `recommend` | missing factors left out of the mean, ties, floors | data never joins an unmarked graph; the other graphs change nothing |
| **Canonical graph store** `kg_contracts/stores.py`, `testing/memory.py` | identities, assertions by subject and by id, epoch, version counters, the copy of an open transaction | `apply(batch)`, begin/commit/rollback, `mark_superseded`, reads | staged operations in one batch; preconditions on versions while transactions are rolled back; two indexes; revoke, restore and the history they must keep | a guarded batch meets what it was decided on; both indexes answer alike; a compensation restores; pinned history does not move |
| **Curation policy** `kg_contracts/policy.py` | none | `route` | three gates combined, equal thresholds | monotone in every score; an unresolved identity is never let through more easily |
| **Builders, normalisation, ids** `kgis/builders.py`, `normalize.py`, `ontology.py`, `ids.py`, ... | none | normalize, build | coercion from several formats, composed keys, rows that fail half way | a row has one identity in any format; nothing is lost untold |
| **Record sources** `kgis/sources/*` | an open file | iterate records | breaking off | records before the break are delivered |
| **Evaluation harness** `kg_eval/*` | none | matching, metrics, bootstrap, ablation | repeated candidates, unmeasured values | padding never pays; a win is earned |
| **Contract value types, test kits** `kg_contracts/*`, `*/testing/*` | none | validation | - | - |

How they interact: the pipelines call `ledger.submit` in batches and, for
extraction, `registry.put` and `registry.add_refs` before it; the erasure
coordinator calls the private statements of ledger and registry and commits
their connections itself; all share SQLite files, so that concurrent processes
meet in SQLite's transactions and nowhere else. The registry of graphs and the
graph store are separate from these.

`PROJECT.json` lists the hazards this code is exposed to, each at its line,
with the properties that cover it or the reason none does yet.

## 2. Plan

Order: what loses or corrupts users' data first. The models are complete as
far as section 8 says; proofs are what is left.

1. `LedgerLifecycle`, `CandidateLedger` (implements `CandidateSink`), with
   proofs.
2. `EvidenceRegistry`, `Erasure` (implements `AtomicErasure` when both stores
   are one connection).
3. `IngestJobs`: both pipelines over an abstract ledger and the evidence
   registry, with governance, crashes, plans and re-runs.
4. `GraphStore`: batches with preconditions, staging, epochs, revoke and
   restore, supersession, transactions and the reads, with proofs.
5. `GraphRegistry`: concurrent `register`, `record_decision` and
   `record_outcome`, and the store left inside a transaction by a COMMIT that
   raises, with proofs.
6. `Advisor`, `ConfidencePolicy`, `Passages`, `Records`, `Evaluation`: the
   stateless parts as operators, asked one question each by `Calculations`.
7. Proved of the stateless parts: all seven properties of `Calculations`.

## 3. The modules

SQLite is **external**: it is modelled from how the code drives it (Python's
`sqlite3` in its default mode). A SELECT outside a transaction sees the last
commit. The first INSERT, UPDATE or DELETE opens a transaction implicitly and
takes the file's single writer lock with a fresh view of the tables.
IntegrityError undoes the statement only. `commit()` publishes and releases;
if it raises (busy, I/O error) the transaction may have been rolled back or
may still be open, and `CommitFaults` says which of these an instance admits.
A connection that goes away rolls back.

### `LedgerLifecycle`
The table of `lifecycle.py`, the derived `TERMINAL_STATES` and
`can_transition`.

### `CandidateLedger`
Each element of `Conns` is one connection (`SqliteCandidateLedger`) that runs
one call at a time. `rows`/`trail` are the committed tables, `draftRows` and
`draftTrail` the writer's view, `writer` who holds the lock; `pc`, `todo`,
`outcomes`, `task` are the local variables of the call. `told` is a history
variable: what the caller of `submit()` last learned of a candidate.

| Code | Actions |
|---|---|
| `submit`: loop head, `_find_live` | `BeginSubmit`, `LookupHit`, `RejectAmbiguous`, `LookupMiss` |
| `submit`: `_insert_received`, `except IntegrityError` | `InsertRow`, `InsertConflict` |
| `submit`: `commit()`, `except: rollback` | `ReturnSubmit`, `RaiseSubmit`, `CommitSubmitFails` |
| `transition`, `revoke`, `erase`: read and check | `ReadForTransition`, `ReadForRevoke`, `ReadForErase` |
| the same: UPDATE, transition row, audit row, `commit()` | `WriteTask`, `RaiseTask`, `CommitTaskFails` |
| connection or process ends | `Crash` |

The SELECT and the INSERT are separate steps, as are the read and the write of
the other calls: that is where other connections get in. The four statements
of `WriteTask` are one step, because from the first of them the lock is held
and nobody else can write, and readers see the last commit; their failure is
`RaiseTask`. Calls that are refused (unknown id, illegal transition, withdrawn
row, governance disabled) change nothing and are not steps.

Abstracted: payload contents (present or NULL), timestamps, actors, reasons,
identity evidence, the resolver (its verdict is a choice). `KeyOf` stands for
`(graph_id, semantic_key)`.

### `CandidateSink`
The promise: each candidate moves absent, live, revoked, erased, never back,
and a dedup key has at most one live candidate. `CandidateLedger` implements it
with `life` read off the committed row.

### `EvidenceRegistry`, `Erasure`, `AtomicErasure`
`EvidenceRegistry` has the tables and what the registry's statements do to
them. `Erasure` runs them: each process has one connection to each store;
`Shared` makes the two stores one connection to one file, which is what
`ErasureCoordinator.__init__` tests for. `evid` gives each evidence id
missing, text, hash only, unavailable, or redacted; `erases` counts a
candidate's erase records; `redacts` are the redaction records.

| Code | Actions |
|---|---|
| `put`, `put_many` | `BeginPut`, `PutLook`, `PutStore`, `PutCommit`, `PutRaises`, `PutCommitFails` |
| `add_refs` | `AddRefs`, `AddRefsRaises`, `AddRefsCommitFails` |
| `erase`: idempotence check | `BeginErase`, `EraseAgain` |
| `_cascade` | `CiteRefs` (SELECT), `Cascade` (DELETE, orphans, UPDATE) |
| `_apply_erase`, `_audit` | `ApplyErase`, `Audit` |
| `_erase_separate`, `_erase_shared`: commits and handlers | `CommitRegistry`, `CommitErase`, `EraseRaises`, `CommitRegistryFails`, `CommitLedgerFails`, `CommitSharedFails` |

`AtomicErasure` is an erase as one step.

### `IngestJobs`
Each element of `Jobs` is a configured pipeline: those in `Passages` are
`ExtractionPipeline`s, the others `IngestPipeline`s. `job[j]` holds the local
variables of its current run (`planned`, `seen`, what is left to admit, the
evidence still to be written, how much was sent). `life` is the ledger as
`CandidateSink` sees it, `evid` and `refs` are the registry. `forecast` is the
plan last made by a job, kept while nobody else changes the ledger.

| Code | Actions |
|---|---|
| `run`, `plan`, `_execute`; `reader.read` breaking off; `_extract_all`, `_run_one` | `Start` with one of `Deliveries` |
| `_admit_candidate`, `_admit` | `Suppress`, `Reject`, `Admit` |
| `_write_chunk_evidence`, `_write_span_evidence` | `PutEvidence`, `CiteEvidence`, once per item |
| `_build_plan`, `_count_ledger_duplicates` | `BuildPlan` |
| `_submit_all`, `_batched` | `SubmitBatch`, `Finish` |
| registry or sink raises, the process dies | `Abort` |
| `SqliteCandidateLedger.revoke`, `ErasureCoordinator.erase` | `Revoke`, `Erase` |

`Work` is what the source would deliver in full: per record (or per work item)
the candidates it builds, each with the validator's verdict and its evidence.
Abstractions, and why they lose nothing here: the workers of the thread pool
share nothing and `pool.map` returns results in the order of the items, so the
pool matters only through which items failed; reading ahead changes nothing
outside the run, so a broken-off source is a prefix delivered at the start; a
`submit` of a batch, an erase and the duplicate count are single steps, their
inner steps being the subject of `CandidateLedger` and `Erasure`; ambiguous
identities (REJECT_ONLY) are left to `CandidateLedger`; document artifacts are
left out (they are one more candidate, admitted and cited like the others).
The evidence of one `put_many` is stored item by item, which admits more
interleavings than the code.

### `GraphStore`
`graph` is what a `MemoryGraphStore` holds (`_entities`, `_assertions`,
`_assertions_by_id`, `_entity_versions`, `_epoch`), `saved` its
`_txn_snapshot`, `call` the local variables of an `apply` under way. `plan[x]`
is what the executor `x` decided on. Executors live in another repository
(agentic-kgcs) and are modelled from the contract of `curation.py`: they read,
decide on a batch, hand over the versions they read as `entity_version`
preconditions, and may compensate a committed batch by the inverse operations
in reverse order, guarded by the versions the batch left.

| Code | Actions |
|---|---|
| an executor reads and decides; a compensator | `Decide`, `DecideUndo` |
| `apply`: preconditions | `BeginApply`, `FailPreconditions` |
| `apply`: the branches of the loop | `Create`, `Attach`, `Revoke`, `Restore`, `Refuse` |
| `apply`: what follows the loop | `Publish` |
| `mark_superseded`, `begin`, `commit`, `rollback` | `MarkSuperseded`, `Begin`, `CommitTransaction`, `Rollback` |
| `get_entity`, `assertions_for`, `get_assertion`, `neighborhood` | `Found`, `AssertionsFor`, `GetAssertion`, `Neighborhood` |

The store is one Python object without locks, so calls do not overlap; what
interleaves is deciding and applying. An executor may read in the middle of a
transaction of the adapter that is later rolled back. The versions it read may
then come up again, with other contents, and no precondition can tell: such a
plan is marked `void` and the properties leave it out. Everything read before
`begin` is safe, and that is what `GuardedOnBasis` says. `before`, `fresh` and
`basis` of a plan are history for the properties.

Abstracted: of an entity its status and epoch; of an assertion its subject,
object, status and epoch; the list of a subject's assertions is a set (ids are
unique); `curation_epoch=None` is the bound `MaxEpoch`, which no record
exceeds; a `RETRACT_ASSERTION` stands for the five types that raise
NotImplementedError; a created entity is ACTIVE (a payload could say
otherwise). Left out: `valid_at`, `transaction_at`, `superseded_by`, the
filters of `find_entities`, and `put_entity`, `put_assertion`, `put_entities`
called outside of `apply`.

### `GraphRegistry`
Each element of `Conns` is one `SqliteRegistryStore` on the same file. `db` and
`draft` are the two tables as committed and as the writer sees them. Unlike the
ledger, the store opens its transactions with an explicit BEGIN, so that a
SELECT in one takes SQLite's shared lock and keeps it (`readers`), and a COMMIT
waits until nobody else reads. `told` and `agreed` are history: what callers of
`register` and `record_decision` learned.

| Code | Actions |
|---|---|
| `register`: BEGIN, SELECT MAX; INSERT; commit | `BeginRegister`, `InsertVersion`, `ReturnRegister` |
| `record_decision`: BEGIN, INSERT ... DO NOTHING, SELECT; commit and comparison | `InsertDecision`, `EndDecision` |
| `record_outcome` | `UpdateOutcome`, `EndOutcome` |
| `_transaction`: a statement raises; COMMIT raises | `RaiseCall`, `CommitBusy` |
| `close`, the process ends | `Close` |

The reads (`get`, `versions`, `snapshot`) are operators over what a connection
sees. Abstracted: the contents of a descriptor and of a decision are one value
each; the extension attributes go with the descriptor.

### `Advisor`, `ConfidencePolicy`, `Passages`, `Records`, `Evaluation`
The stateless parts, as operators named after the functions they translate.

- `Advisor`: `recommend` with its five scorers. Scores are counted in units of
  1/`Scale`, and aggregates are compared as fractions, so nothing is rounded on
  the instances used.
- `ConfidencePolicy`: `route` with its gates.
- `Passages`: the chunkers, the response parser with its quote verification,
  `_finalize`, evidence ids, the recording and the replaying model. Texts are
  sequences of characters because the properties are about offsets.
- `Records`: the readers, `SchemaNormalizer`, the validators, the builders,
  admission and the report. A raw value is a type and the text that writes it;
  `Means` tells what Python's conversions read in each text. A valid time is what
  `ValidPeriod` makes of the value of its field: an instant as it is, a number as
  a timestamp, a text as either; a boolean or another text refuses the record, as
  does a period that runs backwards.
- `Evaluation`: matching, metrics, the bootstrap as the set of intervals it may
  return, the guardrails and the verdict.

`Calculations` composes them: a behaviour is one call (`Advise`, `Adjudicate`,
`Segment`, `Extract`, `Ingest`, `ReadBoth`, `Sync`, `Grade`, `Compare`) on one
of the inputs of `MCCalculations`, and `call` holds the question and the
answer. `Extract` runs chunker, recorded model, parser and finalizer together;
`Ingest` runs reader, normalizer, validators, builders and admission; `ReadBoth`
does so for one row written as JSON and as CSV; `Sync` reads a structured
source twice with changes in between.

### `MCCandidateLedger`, `MCErasure`, `MCIngestJobs`, `MCGraphStore`, `MCGraphRegistry`, `MCCalculations`
Values for TLC: batches, keys, puts, the work of the jobs, curation batches,
and the inputs of the calculations.

### `CandidateLedgerProofs`, `LedgerHistoryProofs`, `ErasureProofs`, `IngestJobsProofs`, `GraphStoreProofs`, `GraphRegistryProofs`, `CalculationsProofs`, `RecursionFacts`
Section 6.

## 4. The runs

| Run | What it asks, and the bounds |
|---|---|
| `ledger_races` | Two connections, two ids of one fact, submitted together or apart, `transition`, `revoke`, `erase`, both kinds of failing commit, crashes. One key and two ids are what a race for a key needs; two connections are what a race needs; a trail of 2 lets a row be inserted, withdrawn and touched once more from a stale read. Holds: one live row per key, durable RECEIVED, DUPLICATE with a witness, trail and row agree, nothing taken back, `CandidateSink` implemented. |
| `ledger_serial` | One connection, one row, all states as targets, trails up to 6 records (the longest path through the table that visits no state twice). Holds: the history is a walk of the table that a revoke or an erase ends; terminal states are final. |
| `ledger_terminal_race` | *Violation.* As `ledger_serial` with two connections: a stale `transition` leaves a terminal state. |
| `erasure_files` | Two files, one process, two faults anywhere (two so that a retry can fail as well), two candidates sharing two items. Holds: redaction terminal, orphans lose their text, truthful audit, an erase happens once or, if it raised, not at all, a retry completes. |
| `erasure_atomic` | One connection to one file, commits that fail cleanly. Holds: `AtomicErasure` is implemented, its audit records included. |
| `erasure_races` | Two processes, two candidates, one item. Holds: cited evidence is never redacted, a reported erase stays. |
| `erasure_unredacted` | *Violation.* `put` reads the redaction marker before it has the lock. |
| `ingest_jobs` | A record job and an extraction job, three candidates of which two have one key, two evidence items. The records have a refused candidate before an acceptable one of the same key; the passages repeat a fact and share evidence. Batches of 2 and of 1, so that a run has several and one holds two facts. One fault (lost work, raising or crash): a second fault only repeats an abort, after which the job starts from nothing. Holds: each key planned once, plans that predict the run, received candidates cited in full, extraction plans that miss what is withdrawn and nothing else, re-runs that catch up. |
| `ingest_unerased` | *Violation.* One extraction job, two facts of one passage: run again after one was erased, it registers the erased one as a reader of the passage, whose text then outlives the erase of the other. |
| `graph_store` | Two executors and the adapter over a chain of three identities and two assertions (one hop further than an edge, so that a walk can pass through a hidden identity). Batches that create and attach, create and withdraw at once, restore (guarded), or ask for what is not implemented; compensations, supersession, transactions. Three epochs: a batch, another on top of it, and its compensation or a guarded batch after both. Holds: the two indexes answer alike, guarded batches meet what they were decided on, compensations restore, the neighbourhood is what is reachable and visible, pinned history does not move. |
| `graph_registry` | Two stores, two names, three descriptors (so that one name gets versions from both, next to another name), one decision id with two contents, two outcomes. Holds: what `register` and `record_decision` answered is true of the file, whichever statement or commit raised; versions are 1..n, one row each, never rewritten; the first decision stays. |
| `calculations` | One call of each calculation on every input of its sets. Advice: one to two graphs, every declaration known, unknown or conflicting. Adjudication: all scores of three levels and all policies over them. Segmentation: all texts up to 6 characters over a letter, a blank and a line end, windows up to 4 with every overlap. Extraction: documents in which quotes overlap themselves, responses of up to 3 entries. Records: up to 2 of 9 rows (absent, empty, aliased, mistyped and colliding keys, periods that run backwards, valid times that are none) through 12 pipelines; typed cells in both formats. Structured reads: all pairs of tables of at most two rows. Evaluation: up to two candidates, repeated and ungrounded ones among them, cost and latency each measured or not. Holds: data joins no unmarked graph and other graphs change nothing; routing is monotone; chunks cover their text and quotes are anchored in it; every row is accounted for and has one identity; padding never pays and a win is earned. |

Bounds named in the modules: `MaxTrail` (no operation starts on a longer
trail), `MaxRetries` (`retry_count`), `MaxFaults` (calls that raise or crash in
a behaviour), `MaxEpoch` (no batch is decided or applied beyond this epoch).
`graph_store` uses symmetry over its two executors, `graph_registry` over its
stores, descriptors and contents, which nothing tells apart; neither checks
liveness, and no other run uses symmetry. `CHECK_DEADLOCK` is off only in
`calculations`, whose behaviours end with the answer. `MaxOutcomes` bounds the
calls of `record_outcome`, `MaxWindow` and `MaxRows` the windows and rows.

### Where the code departs from what it says
The three violation runs above, listed under `findings`. Others met while
modelling, without a run:

- `revoke()` accepts a row that is already revoked and records it again
  (`store.py:252`); a comment in the reference graph store
  (`kg_contracts/testing/memory.py:329-331`) says that it raises KeyError.
- `_erase_shared` commits outside its `try` (`erasure.py:236`). If that commit
  raises and leaves the transaction open, the erase stays staged and the next
  commit on the connection publishes it although the caller was told it
  failed; `erasure.py:29-30` says "Fully atomic". `erasure_atomic` therefore
  assumes commits that fail cleanly.
- Two concurrent transitions that bump `retry_count` lose one increment, and
  two coordinators erasing one candidate at the same time record two erases.
- `ledger.erase()` called directly makes a later coordinator `erase()` a no-op,
  so the evidence keeps its text.
- The extraction plan does not look for rows of the same candidate id
  (`runner.py:450`), which the ingestion plan does; after an erase it predicts
  too few duplicates. `PlanPredictsRun` is therefore stated for record jobs;
  `PlanMissesOnlyWithdrawn` says of extraction jobs that the plan falls short by
  the withdrawn candidates it found and by nothing else.
- `mark_superseded` advances neither the version of the subject nor the epoch
  (`testing/memory.py:190-217`): a guarded batch may be applied although an
  assertion of its subject was superseded meanwhile. `GuardedOnBasis` therefore
  speaks of the ids of the assertions, not of their statuses.
- A rollback brings epoch numbers back into use (`testing/memory.py:241`), so
  a history read pinned to an epoch of the undone transaction changes its
  answer; `PinnedHistoryStays` excepts the rollback itself.
- `CREATE_IDENTITY` of an identity that exists replaces it and stamps it with
  the new epoch (`testing/memory.py:276-281`), and its inverse withdraws it
  instead of bringing the replaced one back. `CompensationRestores` is stated
  for creates that meet no active identity, `PinnedHistoryStays` up to
  identities created anew.
- The cascade SELECTs what the candidate cites before its DELETE has the lock
  (`evidence/store.py:194`): a citation another connection adds for it in
  between is deleted without its evidence being looked at, and an orphan keeps
  its text. `OrphansLoseText` is therefore checked for one process.
- A COMMIT that raises in the graph registry is not rolled back
  (`registry/store.py:152`), although `_transaction` says "ROLLBACK on any
  exception": the store stays inside the transaction, each later call raises at
  BEGIN until the store is closed, and meanwhile nobody else can write.
- `_neg_name` promises that the lexicographically smallest name wins a tie
  (`registry/advisor.py:273-276`); of two names one of which begins the other,
  the longer one wins.
- The advisor classifies the graph with the highest mean even when it has too
  few scored factors to be classified and another has enough
  (`registry/advisor.py:190-195`). And an aggregate above the threshold with
  the coupling below its floor gives a separate graph as long as tenancy is
  fine, but an extension (SHARED_LOGICAL_SEPARATE_PHYSICAL) once tenancy is bad
  as well (`:239-247`): a worse score gives a closer union. `AdviceIsGuarded`
  therefore speaks of the same physical graph only.
- The parser takes a confidence of any size (`extraction/parse.py:176-186`);
  one outside 0..1 raises a ValidationError in its item, not the
  ExtractionParseError the parser announces (`:117-118`).
- Offsets claimed by one quote count as used for every other quote that starts
  there (`extraction/parse.py:237-251`), so a repeated quote can share an
  evidence id before all its occurrences are cited.
- A recording keeps the last response of two identical prompts
  (`extraction/client.py:157-161`); its replay answers both with it.
- Semantic keys are joined with slashes (`builders.py:483-489`), which keys may
  contain: the entity of key `1/h` has the key of attribute `h` of entity `1`,
  and whichever comes second is suppressed as a repeat (`pipeline.py:321-323`)
  without a trace but the counter. `RecordsAreAccounted` allows for it. The
  suffix for valid time holds only its start (`builders.py:156-161`), so two
  facts that differ in their end alone are one.
- `abstained` and `failed` are held to `attempted` only if the arm states it
  (`kg_eval/arms.py:100-101`); otherwise the gold set's count is the
  denominator (`kg_eval/metrics.py:465`) and a rate may exceed 1.

## 5. Fairness

`FairSpec` of `Erasure`: weak fairness of the steps of a call under way, which
is straight-line code whose only wait, for the writer lock, SQLite's busy
timeout bounds; and `SF(Retry(p))`: a caller whose erase failed asks again, as
ErasureIncompleteError tells it to, whenever its process keeps becoming idle.
`MaxFaults` makes faults finite; with unending faults no retry needs to
succeed, and the code claims nothing else.

`FairSpec` of `IngestJobs`: `WF(Step(j))`, a run is straight-line code, and
`SF(Run(j))`: a job is a sync of its source that is run again and again, in
between dry runs and aborted runs. `Run` is enabled whenever the job is not
under way. Nothing obliges anybody to revoke, erase, plan or abort.

The other modules state no fairness: they have no liveness property. The ledger
in particular promises none: a commit that raises may leave the lock taken.

## 6. What is proved

By TLAPS, for every value of the constants satisfying the named assumptions
(connections, candidates, executors and keys any sets, batches any sequences,
any bounds):

- `LedgerTypeCorrect`: `Spec => []TypeOK`
- `LiveKeyIsUnique`: `Spec => []LiveKeyUnique`
- `CommittedStays`: `Spec => NothingIsTakenBack`
- `LedgerImplementsSink`: `Spec => ImplementsSink`, the refinement
- `ReceivedStays`: `Spec => []ReceivedIsDurable`
- `DuplicatesHaveWitness`: `Spec => []DuplicateHasWitness`
- `TrailAccountsForRow`: `Spec => []TrailExplainsRow`
- `SerialHistoryIsLegal`, `SerialTerminalStatesAreFinal`: `Spec =>
  []HistoryIsLegal` and `Spec => TerminalStatesAreFinal`, with one connection

Of `Erasure`:

- `ErasureTypeCorrect`: `Spec => []TypeOK`
- `ReportedErasesLast`, `CitedEvidenceSurvives`: `Spec => []ReportedErased` and
  `Spec => SharedEvidenceSurvives`, under `CleanErases`
- `AuditAlwaysTruthful`, `ErasedOnceOrNotAtAll`, `RedactedForGood`,
  `LastCitationTakesText`: `[]AuditIsTruthful`, `[]EraseIsOnceOrNotAtAll`,
  `RedactionIsTerminal`, `OrphansLoseText`, under `CleanErases` with one process
- `EraseIsAtomic`: `Spec => ErasesAtomically`, the refinement, under the same
  for two stores in one file

Of `IngestJobs`, for any jobs, work, keys, batch sizes and `MaxFaults`:

- `IngestTypeCorrect`: `Spec => []TypeOK`
- `KeysPlannedOnce`: `Spec => []EveryKeyPlannedOnce`
- `PlannedIsRun`: `Spec => []PlanPredictsRun`
- `EvidenceBeforeLedger`: `Spec => ReceivedIsCited`
- `PlanMissesWithdrawn`: `Spec => []PlanMissesOnlyWithdrawn`

Of `GraphStore`:

- `StoreTypeCorrect`: `Spec => []TypeOK`
- `IndexesAgree`: `Spec => []ReadsAgree`
- `GuardedIsOnBasis`: `Spec => []GuardedOnBasis`
- `HistoryStays`: `Spec => PinnedHistoryStays`
- `NeighborhoodReachable`: `Spec => []NeighborhoodIsReachable`
- `UndoRestores`: `Spec => []CompensationRestores`

Of `GraphRegistry`, for any connections, names, descriptors, decisions and
`MaxOutcomes`:

- `RegistryTypeCorrect`: `Spec => []TypeOK`
- `AnswersStayTrue`: `Spec => []AnswersAreTrue`
- `HistoryIsAppendOnly`: `Spec => HistoryOnlyGrows`

Of `Calculations`, for any inputs that satisfy the assumptions below:

- `RoutesAreMonotone`: `Spec => []RoutingIsMonotone`
- `AdviceStaysGuarded`: `Spec => []AdviceIsGuarded`
- `QuotesStayAnchored`: `Spec => []QuotesAreAnchored`
- `ChunksStayCovered`: `Spec => []ChunksCoverDocument`
- `RecordsStayAccounted`: `Spec => []RecordsAreAccounted`
- `IdentitiesStayStable`: `Spec => []IdentityIsStable`
- `ScoresStayEarned`: `Spec => []ScoresAreEarned`

### The ledger

The inductive invariant `IInv` is `StoreInv /\ CallType /\ TaskRowExists`.
`StoreInv` says that the tables are well typed, that each of them has unique
live keys and that the writer's draft *extends* what is committed: without the
last part COMMIT could take a row back. `TaskRowExists` says that a row that
was read is still there when it is written; otherwise the UPDATE would create
a row, perhaps live. Preservation is decomposed: every action's effect on the
tables is one of four (`StoreStep`: nothing, a commit, a rollback, publishing
or staging well-formed tables that extend the connection's view), and on the
calls is a `CallStep`; `StepsCompose` joins them. So each action needs to be
looked at once, and only `InsertIsGood` and `UpdateIsGood` look into rows.

`OutcomeInv` is about the calls under way: every outcome of a `submit` under way
is true of the tables that call sees, and outside of `submit` there are none,
so that no rollback can take an outcome's row. RECEIVED is then true of the
committed tables when the final commit succeeds, and stays true since rows are
never deleted.

The refinement follows from `IInv` and `NextGood`: a row that grows never goes
back in its life, and unique keys carry over.

`LedgerHistoryProofs` proves what the audit trail says of a row. `TrailExplainsRow`
reads the last transition with CHOOSE, so `StoryInv` says instead that some
record is the last transition and what it holds; an insert appends the first
record to an empty trail, an update one record of what the row becomes, and
both halves (committed and draft) are carried by the same lemmas. That holds
for any connections, since every UPDATE writes its own record. That the history
is a *legal* walk does not: the guards of `transition` are checked on the row
read, and with two connections the row may have moved (section 4). With one
connection (`OneConn == \A c, d \in Conns : c = d`; `ledger_terminal_race` is the
counterexample with two) `SerialInv` adds that the task under way still fits the row, and
that without a call under way draft and tables agree; both properties follow.

### Erasure
`TInv` are the types: of the two files and their drafts, of the calls stage by
stage, and of what was told. `HeldInv` says what is staged where: whoever is
between two statements of an erase holds the lock of the file it wrote, what
differs between draft and tables is that call's erase, and a redaction staged
is of evidence without citations. It holds for any number of processes, under
`CleanErases == ~Shared \/ "open" \notin CommitFaults`: `_erase_shared` does
not roll back when its COMMIT raises, so where such a COMMIT may leave the
transaction open a later commit of the connection publishes what the caller
was told had failed (this is one of the departures of section 4). Two files
need no such assumption.

What is about both files at once needs one process
(`OneProcess == \A p, q \in Procs : p = q`): two coordinators can erase the
same candidate after the same idempotence check, and a `put` can restore a text
between another process's check and its write (`erasure_unredacted`). `SerialInv` adds
that what was read is still so when it is used, that a redaction record and the
removal it is about are in the same draft or both committed (or the record is
yet to come while the registry is committed: the incomplete erase), and that
`raised` means no record. For the refinement `AtomicInv` compares, stage by
stage, what is staged with what the erase as one step would do; with one
file the only step that is not a stutter is then the COMMIT.

### The ingestion jobs
No hypothesis on the constants beyond those of the module. `TypeInv` gives each
place of a run what it may have left to do. `KeysInv`: the keys planned are
different, those of the candidates left to admit are the missing ones, and a
rejected candidate accounts for no key. `CitesInv`: a planned candidate that is
not yet in the ledger cites all its evidence, or is the last one planned and
what is missing is still in `writes`; an erase of another process may remove
its citations only if it is in the ledger. `ForecastInv` follows a forecast:
it is right of the ledger until the run submits; after that, of what is unsent,
and the duplicates counted so far are those expected among what was sent, where
`Expected` are the foreseen ones and, for an extraction job, the withdrawn ones
its plan did not look for; both properties of the plans follow from it. Each
batch is a recursion over its candidates (`AfterEach`), so this takes an
induction: `RecursionFacts` has one over the numbers up to N, from the
well-foundedness of <, stated over a set instead of an operator, and the
existence of a function that is defined step by step (`StepsCompose`).

### The graph store
None of the results is inductive. `IInv` of `GraphStoreProofs` adds, to
types: both indexes hold the same rows (`Indexed`), of the graph and of the
copy a rollback would return to; what `apply` has staged fits the graph
(`CallFits`): a staged entity has the epoch of the stored one unless the batch
creates it, whatever differs from the graph was touched, a staged assertion has
a new id and the new epoch; and `PlanHolds`: as long as the version an executor
read is the current one, the entity and the assertion ids are those it read.
`PlanHolds` has to be said of the copy too, for everything decided before
`begin`; otherwise a rollback could make an old version current with other
contents. `HoldsOn` carries it from one graph to the next: versions never fall
and an identity whose version is the same is unchanged, which `PublishedGood`
shows of `apply` and which superseding satisfies since it changes no id. There
is one lemma per action, and `HistoryStays` needs two more, for the only steps
that change the graph without a rollback.

`NeighborhoodReachable` is an induction over the rounds of the loop, for any
number of hops. The loop follows only what it has found and not seen before,
the definition follows everything; `Reached` says why that is the same: what
was seen and can be found is already in the result, and of what is in the
result only the frontier can lead further.

`UndoRestores` rests on `UndoInv`, a second invariant beside `IInv`. It
remembers the statuses a batch led through: during its `apply` (`WentForth`),
while it is committed (`CanBeUndone`), and backwards while its compensation is
decided and applied (`GoesBack`, `OnItsWay`). Each inverse operation then finds
the status it needs, by `GuardedOnBasis` from the first one on, and the last
one leaves what was there before; an identity that was unknown can only be
withdrawn. That no entity is ever SUPERSEDED is part of it: restoring would
make it active.

### The graph registry
`IInv` of `GraphRegistryProofs` adds three things to the types. `Dense`: in the
committed and in the staged tables the versions of a name are 1..n, one row
each, and no decision is half empty. `CallKnows`: a `register` before its
INSERT holds the shared lock and plans to insert the version after the
*committed* ones, and every other call holds the reserved lock over a draft
that is the tables plus what that call wrote. `Honest`: the answers so far, and
that of a call under way nothing is published. `CallKnows` is what makes the
race of two registrations harmless: nobody can commit over a reader, so the
MAX(version) it read is still the maximum when it inserts, or the INSERT is
never made. It also covers the store stuck in a transaction whose COMMIT
raised: its draft has no call, and without one nothing commits it.
`InsertIsDense` is the one lemma about sizes; `LatestCounts` and `OneLatest`
read MAX(version) and the snapshot from a dense table.

### The calculations
A behaviour of `Calculations` is one call, so there is nothing inductive about
the state: each theorem says what an operator computes, whatever it is given.
The assumptions on the inputs are what the contracts guarantee.
`AdviceAssumption`: a registry is finite and has one graph of a name (what
`snapshot()` returns), names are sequences of character codes, declared terms
are finite. `TextsAssumption`: a document is a sequence of characters.
`ExtractAssumption`: chunks are spans of their document, and a
response is a list whose quotes are texts. `IngestAssumption`: builders are a
list, each of one of the three kinds, and so are the fields of a schema, each
of one of the five types. `FactsAssumption`: of a typed cell and the text that
writes it, what Python guarantees: the text of a number reads as that number
and has no blanks around it, `0` and `1` are boolean words (`normalize.py`).
`TablesAssumption`: a table is finite and its key column holds a number that no
two rows share; `DbapiRowProvider` demands key columns (`providers.py:98`) and
takes it for granted that they are a key. `EvaluationAssumption`: gold items
and candidates are lists, candidates of the three categories, a measured cost or
latency a number; `UnmeasuredAssumption`: Unmeasured is none. `PoliciesAssumption`: a
policy passes the validator of its thresholds. `Scale`, `Top` and the markers `Unknown`,
`Unstated` and `Absent` are any values that cannot be taken for a score or a
span.

- *Routing.* `RouteRises` takes the risk floor, the identity gate and the
  extraction route one by one; each can only get more severe when a score gets
  worse, and severities are combined by their maximum. That the thresholds of a
  policy are in order is used, and that a missing identity score is no number.
- *Advice.* What has to be shown is that a best graph exists and that the one
  chosen among all is the one chosen when it is asked about alone. Aggregates
  are fractions; `LowerIsWeakOrder` orders them by cross-multiplication (with
  nothing scored below everything), `NamesAreOrdered` and
  `NameOrderIsTransitive` order the names that break ties, and `GreatestMember`
  finds a greatest one by induction on the size of the registry.
- *Quotes.* `ParseFollows` unfolds the recursion of `parse()`: each entry is
  resolved after what the earlier ones claimed. `OffsetChosen` says of the search
  that an occurrence is claimed twice only when all are, `ClaimsAreCited` that
  what is claimed before an entry are the starts of the earlier quotes, and
  `SliceOfSlice` that a slice of the chunk is a slice of the document.
  Evidence ids of two chunks differ because their indexes do, and what was heard
  was told (`ReplayedWasTold`) because a recording is replayed by the prompt.
- *Chunks.* `JumpsCompose` (in `RecursionFacts`) says that a list written from
  the front, where each place names a later one that goes on, exists;
  `WindowsFollow` and `ParagraphsFollow` put both chunkers in that form. What
  holds of the chunks from a cursor on is `Windows` (forward, no gap larger than
  the overlap allows) and `Parts` (trimmed, in order, no blank line, nothing
  solid left out); `WindowsExtend` and `PartsExtend` carry them one chunk
  towards the front, and the greatest cursor where they fail cannot exist
  (`WindowsAreGood`, `ParagraphsAreGood`). `BlankLineIsBlank` is why the two
  characters a cursor jumps over are lost to nobody.
- *Records.* `Sound` is the invariant of the report between two candidates: the
  count of what was built is the sum of the three lists, keys are planned
  once, what is suppressed was planned. `AdmitIsSound` keeps it whichever list a
  candidate goes to, `TakeIsSound` over a record, which counts once whether it
  can be built or not, and `CollectIsSound` over the source. That what was
  built was all told is carried along both recursions.

- *Identity.* Of the two formats: a CSV file holds for each field the text of
  the JSON value (`LookupAsText`), a value and its text are coerced alike where
  both can be (`CoercionsAgree`, type by type), and a record without errors
  refused none of its fields (`ErrorFreeFields`). So both records have the same
  values, builders see nothing else (`BuildFromValues`), and what is planned of
  a row depends on what was planned before it alone (`PlannedOfRow`): not on
  the warnings, in which the two differ. Of the snapshots: coordinates tell the
  key and the key the row (`CoordinatesTellKey`), and the version holds all rows
  of the table, since they can be put in order (`SnapshotHoldsTable`: a row's
  rank, the number of rows up to it, is a bijection).
- *Scores.* `PaddedMatch`: a candidate repeated at the end matches nothing, and
  matching is in order, so that it takes nothing from those before it;
  `PrecisionFalls` is the arithmetic. `ImprovementMeans` unfolds the verdict: an
  interval above zero needs an item whose hit rose, and no guardrail may object.

Where these proofs meet a recursion it is a recursive function or a fold of
lists, whose unfolding is proved in `RecursionFacts` by `InductionUpTo`.

## 7. What is only model-checked

Every invariant and action property of a passing run has a theorem. Liveness
(`RetryCompletes`, `RerunCatchesUp`) stays with TLC because fairness and
ENABLED are out of the prover's reach. RECURSIVE operators are too, and the
modules avoid them; a recursive function can be reasoned about through
`RecursionFacts`. The runs that show a violation have nothing to prove: there
the hypotheses of section 6 (one connection, one process) are dropped.

## 8. What is not modelled

Components with status `not_modelled` in `PROJECT.json`, for good: the contract
value types (validation of single values) and the test kits. Of the others, the
`note` says what is left out; in short:

- the ledger's schema migration, which only meets databases of the first
  version; the append-only triggers (no code path issues what they refuse); the
  read options and the contents of payloads and audit records beyond what the
  properties tell apart;
- the opening and decoding of files, the batching of cursors, the quoting of
  SQL identifiers; JSON decoding;
- the retries of a live model client, and document artifacts, which are one
  more candidate admitted and cited like the others;
- entity types read from a column, properties and display names, which no
  property tells apart;
- valid times beyond the instants of the small sets: whether a number counts
  seconds or milliseconds, and a period of which one end has a time zone and the
  other has none, whose comparison raises a `TypeError` that ends the run
  (`pipeline.py:253` catches `RecordDataError` and validation errors only);
- the token counts of a cost, which no guardrail compares;
- floating-point statistics: a bootstrap interval is any interval its values
  allow, and the interval of a single arm is left out;
- rendering: reports, fingerprints, checklists, reasons.
