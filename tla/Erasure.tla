------------------------------- MODULE Erasure -------------------------------
(***************************************************************************)
(* ErasureCoordinator (src/src/kgis/erasure.py) at work between the        *)
(* candidate ledger and the evidence registry, while the registry is       *)
(* written to.  A process has one connection to each store; with Shared    *)
(* both are one connection to one SQLite file, otherwise two files.        *)
(*                                                                         *)
(* Every candidate has a ledger row from the start; of the row only its    *)
(* erase records and redaction records count here (CandidateLedger has the *)
(* rest).  SQLite is modelled as there, once per file.                     *)
(***************************************************************************)
EXTENDS Naturals, Sequences, FiniteSets, EvidenceRegistry

CONSTANTS
  Shared,        \* the two stores are handed the same connection
  Procs,         \* processes with a registry and a coordinator
  NoProc,        \* "no process": a file's writer lock is free
  Puts,          \* the put() and put_many() calls: [items, many]
  CommitFaults,  \* what a COMMIT that raises may leave: "open", "rolled_back"
  MaxFaults      \* bound: how many calls raise or crash in a behaviour

ASSUME SharedAssumption == Shared \in BOOLEAN
ASSUME ProcsAssumption == NoProc \notin Procs
\* put() takes one item, put_many() any number.
ASSUME PutsAssumption ==
  /\ Puts \subseteq [items: Seq(Item), many: BOOLEAN]
  /\ \A put \in Puts : ~put.many => Len(put.items) = 1
ASSUME FaultsAssumption ==
  CommitFaults \subseteq {"open", "rolled_back"} /\ MaxFaults \in Nat

VARIABLES
  store,   \* the tables as committed
  draft,   \* the tables as the process that holds their file's lock sees them
  lock,    \* per file, the process with an open write transaction
  pc,      \* where each process is in its call
  job,     \* what its call has read and been asked
  told,    \* per candidate, how the last erase of it ended for its caller
  faults   \* calls that raised or crashed so far

db == <<store, draft, lock>>
vars == <<db, pc, job, told, faults>>

-----------------------------------------------------------------------------
(* Files and transactions *)

TableNames == {"evid", "refs", "erases", "redacts"}

FileOf ==
  [ t \in TableNames |->
      IF Shared THEN "db"
      ELSE IF t \in {"evid", "refs"} THEN "registry" ELSE "ledger" ]

Files == { FileOf[t] : t \in TableNames }
RegistryFile == FileOf["evid"]
LedgerFile == FileOf["erases"]

\* Of a tables record, those of the given files from one, the others from
\* another.
Merge(files, one, other) ==
  [ evid |-> IF RegistryFile \in files THEN one.evid ELSE other.evid,
    refs |-> IF RegistryFile \in files THEN one.refs ELSE other.refs,
    erases |-> IF LedgerFile \in files THEN one.erases ELSE other.erases,
    redacts |-> IF LedgerFile \in files THEN one.redacts ELSE other.redacts ]

Held(p) == { f \in Files : lock[f] = p }

View(p) == Merge(Held(p), draft, store)

\* A write by p: it has the file's lock from here to its commit or rollback.
Stage(p, file, tables) ==
  /\ lock[file] \in {NoProc, p}
  /\ lock' = [lock EXCEPT ![file] = p]
  /\ draft' = tables
  /\ UNCHANGED store

Publish(p, file, tables) ==
  /\ lock[file] \in {NoProc, p}
  /\ lock' = [lock EXCEPT ![file] = NoProc]
  /\ store' = Merge({file}, tables, store)
  /\ draft' = Merge({file}, tables, draft)

Commit(p, file) ==
  IF lock[file] = p THEN Publish(p, file, draft) ELSE UNCHANGED db

\* Mutant: the lock is released, the writes stay in the connection's view.
Rollback_KeepsDraft(p, files) ==
  /\ lock' = [f \in Files |-> IF f \in files /\ lock[f] = p THEN NoProc ELSE lock[f]]
  /\ UNCHANGED <<draft, store>>

\* rollback() on p's connections to the given files.
Rollback(p, files) ==
  /\ lock' = [f \in Files |-> IF f \in files /\ lock[f] = p THEN NoProc ELSE lock[f]]
  /\ draft' = Merge(files \cap Held(p), store, draft)
  /\ UNCHANGED store

Fault ==
  /\ faults < MaxFaults
  /\ faults' = faults + 1

-----------------------------------------------------------------------------
(* Calls *)

NoJob == [call |-> "none"]

Init ==
  /\ store = [ evid |-> [e \in Evidence |-> "missing"], refs |-> {},
               erases |-> [x \in Candidates |-> 0], redacts |-> {} ]
  /\ draft = store
  /\ lock = [f \in Files |-> NoProc]
  /\ pc = [p \in Procs |-> "idle"]
  /\ job = [p \in Procs |-> NoJob]
  /\ told = [x \in Candidates |-> "none"]
  /\ faults = 0

Begin(p, label, newJob) ==
  /\ pc[p] = "idle"
  /\ pc' = [pc EXCEPT ![p] = label]
  /\ job' = [job EXCEPT ![p] = newJob]
  /\ UNCHANGED faults

At(p, label) == pc[p] = label

Goto(p, label) == pc' = [pc EXCEPT ![p] = label]

End(p) ==
  /\ pc' = [pc EXCEPT ![p] = "idle"]
  /\ job' = [job EXCEPT ![p] = NoJob]

-----------------------------------------------------------------------------
(* put() and put_many() *)

BeginPut(p, put) ==
  /\ Begin(p, "look", [call |-> "put", items |-> put.items, many |-> put.many])
  /\ UNCHANGED <<db, told>>

\* _row_is_redacted, a SELECT before the INSERT: a redacted row is skipped.
PutLook(p) ==
  /\ At(p, "look")
  /\ job[p].items # <<>>
  /\ IF RowIsRedacted(View(p).evid, Head(job[p].items).id)
       THEN /\ job' = [job EXCEPT ![p].items = Tail(@)]
            /\ UNCHANGED pc
       ELSE Goto(p, "store") /\ UNCHANGED job
  /\ UNCHANGED <<db, told, faults>>

PutStore(p) ==
  /\ At(p, "store")
  /\ Stage(p, RegistryFile, [draft EXCEPT !.evid = Stored(@, Head(job[p].items))])
  /\ job' = [job EXCEPT ![p].items = Tail(@)]
  /\ Goto(p, "look")
  /\ UNCHANGED <<told, faults>>

PutCommit(p) ==
  /\ At(p, "look")
  /\ job[p].items = <<>>
  /\ Commit(p, RegistryFile)
  /\ End(p)
  /\ UNCHANGED <<told, faults>>

\* A statement raises: put_many() rolls back, put() does not.
PutRaises(p) ==
  /\ At(p, "store") \/ (At(p, "look") /\ job[p].items # <<>>)
  /\ IF job[p].many THEN Rollback(p, {RegistryFile}) ELSE UNCHANGED db
  /\ End(p)
  /\ Fault
  /\ UNCHANGED told

PutCommitFails(p, fault) ==
  /\ At(p, "look")
  /\ job[p].items = <<>>
  /\ lock[RegistryFile] = p
  /\ IF fault = "open" THEN UNCHANGED db ELSE Rollback(p, {RegistryFile})
  /\ End(p)
  /\ Fault
  /\ UNCHANGED told

-----------------------------------------------------------------------------
(* add_refs(): one statement and its commit; nobody writes in between. *)

Recited(x, cited) == [draft EXCEPT !.refs = WithRefs(@, x, cited)]

AddRefs(p, x, cited) ==
  /\ At(p, "idle")
  /\ Publish(p, RegistryFile, Recited(x, cited))
  /\ UNCHANGED <<pc, job, told, faults>>

AddRefsRaises(p) ==
  /\ At(p, "idle")
  /\ Rollback(p, {RegistryFile})
  /\ Fault
  /\ UNCHANGED <<pc, job, told>>

AddRefsCommitFails(p, x, cited, fault) ==
  /\ At(p, "idle")
  /\ IF fault = "open" THEN Stage(p, RegistryFile, Recited(x, cited))
                       ELSE Publish(p, RegistryFile, store)
  /\ Fault
  /\ UNCHANGED <<pc, job, told>>

-----------------------------------------------------------------------------
(* ErasureCoordinator.erase() *)

\* The order of the stages: the cascade first with two connections, the
\* ledger row first with one.
FirstStage == IF Shared THEN "apply" ELSE "cite"

StageAfter ==
  IF Shared
    THEN [apply |-> "cite", cite |-> "unref", unref |-> "audit", audit |-> "commit"]
    ELSE [cite |-> "unref", unref |-> "apply", apply |-> "audit",
          audit |-> "commit_registry", commit_registry |-> "commit"]

Advance(p) == Goto(p, StageAfter[pc[p]])

\* Mutant: a candidate without refs is taken for erased.
BeginErase_NeedsRefs(p, x) ==
  /\ View(p).erases[x] = 0
  /\ CitedBy(View(p).refs, x) # {}
  /\ Begin(p, FirstStage,
           [call |-> "erase", cand |-> x, cited |-> {}, redacted |-> {}])
  /\ UNCHANGED <<db, told>>

BeginErase(p, x) ==
  /\ View(p).erases[x] = 0
  /\ Begin(p, FirstStage,
           [call |-> "erase", cand |-> x, cited |-> {}, redacted |-> {}])
  /\ UNCHANGED <<db, told>>

\* Idempotence: already erased, so nothing is written.
EraseAgain(p, x) ==
  /\ At(p, "idle")
  /\ View(p).erases[x] > 0
  /\ told' = [told EXCEPT ![x] = "erased"]
  /\ UNCHANGED <<db, pc, job, faults>>

\* _remove_subject_refs_stmt reads what the candidate cites ...
CiteRefs(p) ==
  /\ At(p, "cite")
  /\ job' = [job EXCEPT ![p].cited = CitedBy(View(p).refs, job[p].cand)]
  /\ Advance(p)
  /\ UNCHANGED <<db, told, faults>>

\* Mutant: orphans are looked for while the candidate's refs still stand.
Cascade_OrphansFirst(p) ==
  LET orphans == Orphans(draft.refs, job[p].cited)
  IN /\ At(p, "unref")
     /\ Stage(p, RegistryFile,
              [draft EXCEPT !.refs = WithoutSubject(@, job[p].cand),
                            !.evid = Redacted(@, orphans)])
     /\ job' = [job EXCEPT ![p].redacted = Redactable(draft.evid, orphans)]
     /\ Advance(p)
     /\ UNCHANGED <<told, faults>>

\* Mutant: everything the candidate cited is redacted.
Cascade_AllCited(p) ==
  /\ At(p, "unref")
  /\ Stage(p, RegistryFile,
           [draft EXCEPT !.refs = WithoutSubject(@, job[p].cand),
                         !.evid = Redacted(@, job[p].cited)])
  /\ job' = [job EXCEPT ![p].redacted = Redactable(draft.evid, job[p].cited)]
  /\ Advance(p)
  /\ UNCHANGED <<told, faults>>

\* ... and deletes the refs; of the evidence read before, the orphans are
\* redacted in the same transaction.
Cascade(p) ==
  LET left == WithoutSubject(draft.refs, job[p].cand)
      orphans == Orphans(left, job[p].cited)
  IN /\ At(p, "unref")
     /\ Stage(p, RegistryFile,
              [draft EXCEPT !.refs = left, !.evid = Redacted(@, orphans)])
     /\ job' = [job EXCEPT ![p].redacted = Redactable(draft.evid, orphans)]
     /\ Advance(p)
     /\ UNCHANGED <<told, faults>>

\* Mutant: the committing erase() is called instead of _apply_erase().
ApplyErase_Commits(p) ==
  /\ At(p, "apply")
  /\ Publish(p, LedgerFile, [draft EXCEPT !.erases[job[p].cand] = @ + 1])
  /\ Advance(p)
  /\ UNCHANGED <<job, told, faults>>

\* SqliteCandidateLedger._apply_erase.
ApplyErase(p) ==
  /\ At(p, "apply")
  /\ Stage(p, LedgerFile, [draft EXCEPT !.erases[job[p].cand] = @ + 1])
  /\ Advance(p)
  /\ UNCHANGED <<job, told, faults>>

\* One record_redaction per item redacted.
Audit(p) ==
  /\ At(p, "audit")
  /\ Stage(p, LedgerFile,
           [draft EXCEPT !.redacts = @ \cup ({job[p].cand} \X job[p].redacted)])
  /\ Advance(p)
  /\ UNCHANGED <<job, told, faults>>

\* Registry first: the text is gone before the erase is on record.
CommitRegistry(p) ==
  /\ At(p, "commit_registry")
  /\ Commit(p, RegistryFile)
  /\ Advance(p)
  /\ UNCHANGED <<job, told, faults>>

EndErase(p, word) ==
  /\ told' = [told EXCEPT ![job[p].cand] = word]
  /\ End(p)

\* The ledger's commit; with Shared the only one.
CommitErase(p) ==
  /\ At(p, "commit")
  /\ Commit(p, LedgerFile)
  /\ EndErase(p, "erased")
  /\ UNCHANGED faults

\* Mutant: only the registry is rolled back.
EraseRaises_KeepsLedger(p) ==
  /\ pc[p] \in {"cite", "unref", "apply", "audit"}
  /\ Rollback(p, {RegistryFile})
  /\ EndErase(p, "raised")
  /\ Fault

\* A statement raises, or a lock is not free in time.
EraseRaises(p) ==
  /\ pc[p] \in {"cite", "unref", "apply", "audit"}
  /\ Rollback(p, Files)
  /\ EndErase(p, "raised")
  /\ Fault

\* Mutant: the exception is swallowed and the ledger committed.
CommitRegistryFails_Swallowed(p) ==
  /\ At(p, "commit_registry")
  /\ Rollback(p, {RegistryFile})
  /\ Advance(p)
  /\ Fault
  /\ UNCHANGED <<job, told>>

CommitRegistryFails(p) ==
  /\ At(p, "commit_registry")
  /\ Rollback(p, Files)
  /\ EndErase(p, "raised")
  /\ Fault

\* Mutant: the failing ledger commit is hidden from the caller.
CommitLedgerFails_Hidden(p) ==
  /\ At(p, "commit") /\ ~Shared
  /\ Rollback(p, {LedgerFile})
  /\ EndErase(p, "erased")
  /\ Fault

\* Separate connections: the ledger is rolled back, and the caller gets
\* ErasureIncompleteError.
CommitLedgerFails(p) ==
  /\ At(p, "commit") /\ ~Shared
  /\ Rollback(p, {LedgerFile})
  /\ EndErase(p, "incomplete")
  /\ Fault

\* One connection: its commit() stands outside the try.
CommitSharedFails(p, fault) ==
  /\ At(p, "commit") /\ Shared
  /\ IF fault = "open" THEN UNCHANGED db ELSE Rollback(p, Files)
  /\ EndErase(p, "raised")
  /\ Fault

\* The process dies: SQLite recovers each file's last commit.
Crash(p) ==
  /\ pc[p] # "idle" \/ Held(p) # {}
  /\ Rollback(p, Files)
  /\ End(p)
  /\ Fault
  /\ UNCHANGED told

Step(p) ==
  \/ PutLook(p) \/ PutStore(p) \/ PutCommit(p) \/ PutRaises(p)
  \/ CiteRefs(p) \/ Cascade(p) \/ ApplyErase(p) \/ Audit(p)
  \/ CommitRegistry(p) \/ CommitErase(p)
  \/ EraseRaises(p) \/ CommitRegistryFails(p) \/ CommitLedgerFails(p)
  \/ \E fault \in CommitFaults : PutCommitFails(p, fault) \/ CommitSharedFails(p, fault)

Request(p) ==
  \/ \E put \in Puts : BeginPut(p, put)
  \/ \E x \in Candidates, cited \in SUBSET Evidence \ {{}} :
       \/ AddRefs(p, x, cited)
       \/ \E fault \in CommitFaults : AddRefsCommitFails(p, x, cited, fault)
  \/ AddRefsRaises(p)
  \/ \E x \in Candidates : BeginErase(p, x) \/ EraseAgain(p, x)

Next == \E p \in Procs : Request(p) \/ Step(p) \/ Crash(p)

Spec == Init /\ [][Next]_vars

\* A caller whose erase failed goes on asking, as ErasureIncompleteError says.
Retry(p) ==
  \E x \in Candidates : told[x] \in {"raised", "incomplete"} /\ BeginErase(p, x)

\* Calls run to their end, and a failed erase is retried even if the process
\* is busy with other calls now and then.
FairSpec ==
  Spec /\ \A p \in Procs : WF_vars(Step(p)) /\ SF_vars(Retry(p))

-----------------------------------------------------------------------------
(* Properties *)

TablesType(tables) ==
  /\ tables.evid \in [Evidence -> EvidenceRow]
  /\ tables.refs \subseteq Citations
  /\ tables.erases \in [Candidates -> Nat]
  /\ tables.redacts \subseteq Citations

\* Types, and a file nobody writes to has no draft of its own.
TypeOK ==
  /\ TablesType(store) /\ TablesType(draft)
  /\ lock \in [Files -> Procs \cup {NoProc}]
  /\ draft = Merge({ f \in Files : lock[f] # NoProc }, draft, store)
  /\ \A p \in Procs :
       CASE pc[p] = "idle" -> job[p] = NoJob
         [] pc[p] \in {"look", "store"} -> job[p].items \in Seq(Item)
         [] OTHER -> /\ pc[p] \in {"cite", "unref", "apply", "audit",
                                   "commit_registry", "commit"}
                     /\ job[p].cand \in Candidates
                     /\ job[p].redacted \subseteq job[p].cited
  /\ told \in [Candidates -> {"none", "erased", "raised", "incomplete"}]
  /\ faults \in 0..MaxFaults

\* "Content is never restored once erased": no committed step takes evidence
\* out of the redacted state.
RedactionIsTerminal ==
  [][\A e \in Evidence :
       store.evid[e] = "redacted" => store'.evid[e] = "redacted"]_vars

\* The commit that removes the last citation of an item removes its text.
OrphansLoseText ==
  [][\A e \in Orphans(store'.refs, Evidence) :
       e \notin Orphans(store.refs, Evidence) => store'.evid[e] # "text"]_vars

\* Evidence is redacted only by a commit after which nobody cites it: what
\* another candidate cites stays readable, also when it is cited while an
\* erase is under way.
SharedEvidenceSurvives ==
  [][\A e \in Evidence :
       store.evid[e] # "redacted" /\ store'.evid[e] = "redacted" =>
         e \in Orphans(store'.refs, Evidence)]_vars

\* Every redaction record tells the truth: the item has lost its text, even
\* if the process died between the two commits.
AuditIsTruthful ==
  \A r \in store.redacts :
    store.erases[r[1]] > 0 /\ store.evid[r[2]] = "redacted"

\* What erase() reported as done is done for good.
ReportedErased ==
  \A x \in Candidates : told[x] = "erased" => store.erases[x] > 0

\* An erase that raised (short of ErasureIncompleteError) left the candidate
\* as it was and is not published by a later call, and however often a failed
\* erase is retried it is recorded once.
EraseIsOnceOrNotAtAll ==
  \A x \in Candidates :
    /\ store.erases[x] <= 1
    /\ told[x] = "raised" => store.erases[x] = 0

\* Retrying an erase reported incomplete finishes it, although its refs and
\* the text are gone by then, unless faults never end.
RetryCompletes ==
  \A x \in Candidates : told[x] = "incomplete" ~> store.erases[x] > 0

Atomic ==
  INSTANCE AtomicErasure
    WITH erased <- { x \in Candidates : store.erases[x] > 0 },
         refs <- store.refs, evid <- store.evid, audit <- store.redacts

\* With one connection to one file the erase is a single step of what it
\* promises, its audit records included: no text vanishes without one.
ErasesAtomically == Atomic!Spec
=============================================================================
