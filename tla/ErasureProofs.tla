---------------------------- MODULE ErasureProofs ----------------------------
(***************************************************************************)
(* Theorems of Erasure for any candidates, evidence and puts.  What holds  *)
(* for any number of processes comes first; the rest needs a single one    *)
(* (two can erase the same candidate, or put back a text that the other    *)
(* has just redacted), and says so.                                        *)
(***************************************************************************)
EXTENDS Erasure, SequenceTheorems, TLAPS

\* No erase is left in an open transaction of an idle process.  A COMMIT that
\* raises and stays open does that to a shared connection, whose commit() no
\* handler rolls back; with two files the coordinator always does.
CleanErases == ~Shared \/ "open" \notin CommitFaults

\* What a second process could do between two statements is left out.
OneProcess == \A p, q \in Procs : p = q

-----------------------------------------------------------------------------
(* The inductive invariants *)

\* The tables and the locks.  The writer's view is a record of its own for
\* each file; of a file nobody writes to it is what is committed.
DbType ==
  /\ TablesType(store) /\ TablesType(draft)
  /\ draft = [ evid |-> draft.evid, refs |-> draft.refs,
               erases |-> draft.erases, redacts |-> draft.redacts ]
  /\ lock \in [Files -> Procs \cup {NoProc}]
  /\ lock[RegistryFile] = NoProc =>
       draft.evid = store.evid /\ draft.refs = store.refs
  /\ lock[LedgerFile] = NoProc =>
       draft.erases = store.erases /\ draft.redacts = store.redacts

PutJob == [call: {"put"}, items: Seq(Item), many: BOOLEAN]

EraseJob == [call: {"erase"}, cand: Candidates, cited: SUBSET Evidence,
             redacted: SUBSET Evidence]

EraseStages == {"cite", "unref", "apply", "audit", "commit_registry", "commit"}

\* A call at the given label has what its next step needs.
CallOf(label, j) ==
  /\ label = "idle" => j = NoJob
  /\ label \in {"look", "store"} => j \in PutJob
  /\ label = "store" => j.items # <<>>
  /\ label \in EraseStages => j \in EraseJob /\ j.redacted \subseteq j.cited
  /\ label = "cite" \/ (label = "apply" /\ Shared) => j.redacted = {}
  /\ label = "commit_registry" => ~Shared

Labels == {"idle", "look", "store"} \cup EraseStages

Jobs == {NoJob} \cup PutJob \cup EraseJob

CallType ==
  /\ pc \in [Procs -> Labels]
  /\ job \in [Procs -> Jobs]
  /\ \A p \in Procs : CallOf(pc[p], job[p])

ReportType ==
  /\ told \in [Candidates -> {"none", "erased", "raised", "incomplete"}]
  /\ faults \in 0..MaxFaults

TInv == DbType /\ CallType /\ ReportType

\* The stages after the erase is staged in the ledger ...
Applied == IF Shared THEN {"cite", "unref", "audit", "commit"}
                     ELSE {"audit", "commit_registry", "commit"}

\* ... and from the cascade to the commit of the registry.
Cascaded == IF Shared THEN {"audit", "commit"}
                      ELSE {"apply", "audit", "commit_registry"}

\* Who holds the ledger is in a call, and with two files in an erase; the one
\* item of a put() is the first write of its transaction.
BusyHolder(p) ==
  /\ lock[LedgerFile] = p => IF Shared THEN pc[p] # "idle" ELSE pc[p] \in Applied
  /\ pc[p] \in {"look", "store"} /\ ~job[p].many =>
       /\ Len(job[p].items) <= 1
       /\ Shared /\ job[p].items # <<>> => lock[RegistryFile] # p

\* From the ledger stage on, the erase is in the process's transaction.
StagedErase(p) ==
  pc[p] \in Applied => lock[LedgerFile] = p /\ draft.erases[job[p].cand] > 0

\* Evidence redacted in a draft is cited by nobody, and whose draft it is has
\* run its cascade and not committed it.
RedactionIsHeld ==
  \A e \in Evidence :
    draft.evid[e] = "redacted" /\ store.evid[e] # "redacted" =>
      /\ e \in Orphans(draft.refs, Evidence)
      /\ \A p \in Procs : lock[RegistryFile] = p => pc[p] \in Cascaded

HeldInv ==
  /\ \A p \in Procs : BusyHolder(p) /\ StagedErase(p)
  /\ RedactionIsHeld
  /\ \A x \in Candidates : store.erases[x] <= draft.erases[x]
  /\ ReportedErased

-----------------------------------------------------------------------------
(* One process *)

\* What is read is still so when the next statement uses it.
ReadingsStand ==
  \A p \in Procs :
    /\ pc[p] = "store" => ~RowIsRedacted(draft.evid, Head(job[p].items).id)
    /\ pc[p] = "unref" => job[p].cited = CitedBy(draft.refs, job[p].cand)
    /\ pc[p] \in EraseStages => store.erases[job[p].cand] = 0
    /\ pc[p] \in EraseStages \ Applied => draft.erases[job[p].cand] = 0

\* The draft differs from what is committed by the erase under way: its
\* record, ...
RecordsAreHeld ==
  \A x \in Candidates :
    /\ draft.erases[x] <= 1
    /\ draft.erases[x] # store.erases[x] =>
         \A p \in Procs : pc[p] \in Applied /\ job[p].cand = x

\* ... the citations it has removed, and the texts that go with them.
RemovalsAreHeld ==
  /\ \A r \in store.refs \ draft.refs :
       \A p \in Procs : pc[p] \in Cascaded /\ job[p].cand = r[1]
  /\ \A p \in Procs, e \in Evidence :
       /\ pc[p] \in Cascaded /\ <<job[p].cand, e>> \in store.refs
       /\ e \in Orphans(draft.refs, Evidence)
       => draft.evid[e] # "text"

\* Redaction records are true of the tables they are in, and what is still to
\* be recorded is redacted; with two files the registry is committed first.
RecordsAreTrue ==
  /\ AuditIsTruthful
  /\ \A r \in draft.redacts :
       draft.erases[r[1]] > 0 /\ draft.evid[r[2]] = "redacted"
  /\ \A p \in Procs :
       /\ pc[p] \in Cascaded => \A e \in job[p].redacted : draft.evid[e] = "redacted"
       /\ pc[p] = "commit" /\ ~Shared => lock[RegistryFile] = NoProc

SerialInv ==
  /\ ReadingsStand
  /\ RecordsAreHeld
  /\ RemovalsAreHeld
  /\ RecordsAreTrue
  /\ \A e \in Evidence : store.evid[e] = "redacted" => draft.evid[e] = "redacted"
  /\ \A x \in Candidates : told[x] = "raised" => store.erases[x] = 0

-----------------------------------------------------------------------------
(* One process and one connection: everything is one transaction. *)

\* What the erase of x is to do to the citations and the texts.
Left(x) == WithoutSubject(store.refs, x)
Losing(x) == Redactable(store.evid, Orphans(Left(x), CitedBy(store.refs, x)))

\* How far the draft is ahead of what is committed, stage by stage.
Ahead(p) ==
  /\ pc[p] \in {"idle", "look", "store", "apply"} =>
       /\ draft.refs = store.refs
       /\ draft.erases = store.erases /\ draft.redacts = store.redacts
  /\ pc[p] \in {"idle", "apply"} => draft.evid = store.evid
  /\ pc[p] \in {"look", "store"} =>
       \A e \in Evidence :
         draft.evid[e] # store.evid[e] =>
           draft.evid[e] \in Forms /\ store.evid[e] # "redacted"
  /\ pc[p] \in Applied =>
       draft.erases = [store.erases EXCEPT ![job[p].cand] = @ + 1]
  /\ pc[p] \in {"cite", "unref"} =>
       draft.refs = store.refs /\ draft.evid = store.evid
  /\ pc[p] \in {"cite", "unref", "audit"} => draft.redacts = store.redacts
  /\ pc[p] \in {"audit", "commit"} =>
       /\ job[p].redacted = Losing(job[p].cand)
       /\ draft.refs = Left(job[p].cand)
       /\ draft.evid = Redacted(store.evid, Losing(job[p].cand))
  /\ pc[p] = "commit" =>
       draft.redacts = store.redacts \cup ({job[p].cand} \X Losing(job[p].cand))

AtomicInv == \A p \in Procs : Ahead(p)

-----------------------------------------------------------------------------
(* What an action does to each half of the tables: leaves it alone, writes  *)
(* it in p's transaction, or ends p's transaction with it.                  *)

RegistryKept ==
  /\ lock'[RegistryFile] = lock[RegistryFile]
  /\ store'.evid = store.evid /\ store'.refs = store.refs
  /\ draft'.evid = draft.evid /\ draft'.refs = draft.refs

RegistryStaged(p, evid, refs) ==
  /\ lock[RegistryFile] \in {NoProc, p} /\ lock'[RegistryFile] = p
  /\ store'.evid = store.evid /\ store'.refs = store.refs
  /\ draft'.evid = evid /\ draft'.refs = refs

RegistryEnded(p, evid, refs) ==
  /\ lock[RegistryFile] \in {NoProc, p} /\ lock'[RegistryFile] = NoProc
  /\ store'.evid = evid /\ store'.refs = refs
  /\ draft'.evid = evid /\ draft'.refs = refs

LedgerKept ==
  /\ lock'[LedgerFile] = lock[LedgerFile]
  /\ store'.erases = store.erases /\ store'.redacts = store.redacts
  /\ draft'.erases = draft.erases /\ draft'.redacts = draft.redacts

LedgerStaged(p, erases, redacts) ==
  /\ lock[LedgerFile] \in {NoProc, p} /\ lock'[LedgerFile] = p
  /\ store'.erases = store.erases /\ store'.redacts = store.redacts
  /\ draft'.erases = erases /\ draft'.redacts = redacts

LedgerEnded(p, erases, redacts) ==
  /\ lock[LedgerFile] \in {NoProc, p} /\ lock'[LedgerFile] = NoProc
  /\ store'.erases = erases /\ store'.redacts = redacts
  /\ draft'.erases = erases /\ draft'.redacts = redacts

\* Locks and draft stay what DbType says of their shape.
Shape ==
  /\ lock' \in [Files -> Procs \cup {NoProc}]
  /\ draft' = [ evid |-> draft'.evid, refs |-> draft'.refs,
                erases |-> draft'.erases, redacts |-> draft'.redacts ]

DbStep(p) ==
  /\ Shape
  /\ \/ RegistryKept
     \/ \E evid \in [Evidence -> EvidenceRow], refs \in SUBSET Citations :
          RegistryStaged(p, evid, refs) \/ RegistryEnded(p, evid, refs)
  /\ \/ LedgerKept
     \/ \E erases \in [Candidates -> Nat], redacts \in SUBSET Citations :
          LedgerStaged(p, erases, redacts) \/ LedgerEnded(p, erases, redacts)

\* One file with one connection, two with two.
LEMMA TwoFiles ==
  /\ Files = {RegistryFile, LedgerFile}
  /\ Shared => RegistryFile = LedgerFile
  /\ ~Shared => RegistryFile # LedgerFile
<1>1. /\ TableNames = {"evid", "refs", "erases", "redacts"}
      /\ FileOf["evid"] = FileOf["refs"] /\ FileOf["erases"] = FileOf["redacts"]
  BY DEF TableNames, FileOf
<1>2. Files = {FileOf["evid"], FileOf["erases"]}
  BY <1>1 DEF Files
<1>3. /\ Shared => FileOf["evid"] = FileOf["erases"]
      /\ ~Shared => FileOf["evid"] # FileOf["erases"]
  BY DEF TableNames, FileOf
<1> QED BY <1>2, <1>3 DEF RegistryFile, LedgerFile

\* Such a step keeps the types of the tables.
LEMMA StepKeepsTables ==
  ASSUME DbType, NEW p \in Procs, DbStep(p)
  PROVE  DbType'
<1>1. p # NoProc
  BY ProcsAssumption
<1>2. /\ store'.evid \in [Evidence -> EvidenceRow] /\ store'.refs \subseteq Citations
      /\ draft'.evid \in [Evidence -> EvidenceRow] /\ draft'.refs \subseteq Citations
      /\ lock'[RegistryFile] = NoProc =>
           draft'.evid = store'.evid /\ draft'.refs = store'.refs
  BY <1>1 DEF DbType, TablesType, DbStep, RegistryKept, RegistryStaged, RegistryEnded
<1>3. /\ store'.erases \in [Candidates -> Nat] /\ store'.redacts \subseteq Citations
      /\ draft'.erases \in [Candidates -> Nat] /\ draft'.redacts \subseteq Citations
      /\ lock'[LedgerFile] = NoProc =>
           draft'.erases = store'.erases /\ draft'.redacts = store'.redacts
  BY <1>1 DEF DbType, TablesType, DbStep, LedgerKept, LedgerStaged, LedgerEnded
<1>4. Shape
  BY DEF DbStep
<1> QED BY <1>2, <1>3, <1>4 DEF DbType, TablesType, Shape

\* The tables of a statement on the registry: its two tables, and with one
\* connection the whole transaction with them.
LEMMA StageRegistry ==
  ASSUME DbType, NEW p \in Procs, NEW evid, NEW refs,
         Stage(p, RegistryFile, [draft EXCEPT !.evid = evid, !.refs = refs])
  PROVE  /\ Shape
         /\ RegistryStaged(p, evid, refs)
         /\ IF Shared THEN LedgerStaged(p, draft.erases, draft.redacts) ELSE LedgerKept
<1>1. draft' = [ evid |-> evid, refs |-> refs,
                 erases |-> draft.erases, redacts |-> draft.redacts ]
  BY DEF Stage, DbType
<1>2. lock' = [lock EXCEPT ![RegistryFile] = p] /\ lock[RegistryFile] \in {NoProc, p}
      /\ store' = store
  BY DEF Stage
<1>3. lock \in [Files -> Procs \cup {NoProc}]
  BY DEF DbType
<1> HIDE DEF RegistryFile, LedgerFile
<1> QED BY <1>1, <1>2, <1>3, TwoFiles
        DEF Shape, RegistryStaged, LedgerStaged, LedgerKept

\* Likewise for the ledger.
LEMMA StageLedger ==
  ASSUME DbType, NEW p \in Procs, NEW erases, NEW redacts,
         Stage(p, LedgerFile, [draft EXCEPT !.erases = erases, !.redacts = redacts])
  PROVE  /\ Shape
         /\ LedgerStaged(p, erases, redacts)
         /\ IF Shared THEN RegistryStaged(p, draft.evid, draft.refs) ELSE RegistryKept
<1>1. draft' = [ evid |-> draft.evid, refs |-> draft.refs,
                 erases |-> erases, redacts |-> redacts ]
  BY DEF Stage, DbType
<1>2. lock' = [lock EXCEPT ![LedgerFile] = p] /\ lock[LedgerFile] \in {NoProc, p}
      /\ store' = store
  BY DEF Stage
<1>3. lock \in [Files -> Procs \cup {NoProc}]
  BY DEF DbType
<1> HIDE DEF RegistryFile, LedgerFile
<1> QED BY <1>1, <1>2, <1>3, TwoFiles
        DEF Shape, RegistryStaged, RegistryKept, LedgerStaged

\* A COMMIT, or the end of a rolled back transaction, on the registry's file.
LEMMA PublishRegistry ==
  ASSUME DbType, NEW p \in Procs, NEW tables, Publish(p, RegistryFile, tables)
  PROVE  /\ Shape
         /\ RegistryEnded(p, tables.evid, tables.refs)
         /\ IF Shared THEN LedgerEnded(p, tables.erases, tables.redacts) ELSE LedgerKept
<1>1. lock' = [lock EXCEPT ![RegistryFile] = NoProc] /\ lock[RegistryFile] \in {NoProc, p}
      /\ store' = Merge({RegistryFile}, tables, store)
      /\ draft' = Merge({RegistryFile}, tables, draft)
  BY DEF Publish
<1>2. lock \in [Files -> Procs \cup {NoProc}]
  BY DEF DbType
<1> HIDE DEF RegistryFile, LedgerFile
<1> QED BY <1>1, <1>2, TwoFiles
        DEF Shape, RegistryEnded, LedgerEnded, LedgerKept, Merge

\* Likewise on the ledger's.
LEMMA PublishLedger ==
  ASSUME DbType, NEW p \in Procs, NEW tables, Publish(p, LedgerFile, tables)
  PROVE  /\ Shape
         /\ LedgerEnded(p, tables.erases, tables.redacts)
         /\ IF Shared THEN RegistryEnded(p, tables.evid, tables.refs) ELSE RegistryKept
<1>1. lock' = [lock EXCEPT ![LedgerFile] = NoProc] /\ lock[LedgerFile] \in {NoProc, p}
      /\ store' = Merge({LedgerFile}, tables, store)
      /\ draft' = Merge({LedgerFile}, tables, draft)
  BY DEF Publish
<1>2. lock \in [Files -> Procs \cup {NoProc}]
  BY DEF DbType
<1> HIDE DEF RegistryFile, LedgerFile
<1> QED BY <1>1, <1>2, TwoFiles
        DEF Shape, RegistryEnded, LedgerEnded, RegistryKept, Merge

\* Nothing happens to either half.
LEMMA NothingHappens ==
  ASSUME DbType, UNCHANGED db
  PROVE  Shape /\ RegistryKept /\ LedgerKept
BY DEF DbType, db, Shape, RegistryKept, LedgerKept

\* conn.commit() on the registry's connection ends its transaction, if any.
LEMMA CommitOfRegistry ==
  ASSUME DbType, NEW p \in Procs, Commit(p, RegistryFile)
  PROVE  /\ Shape
         /\ IF lock[RegistryFile] = p
              THEN /\ RegistryEnded(p, draft.evid, draft.refs)
                   /\ IF Shared THEN LedgerEnded(p, draft.erases, draft.redacts)
                                ELSE LedgerKept
              ELSE RegistryKept /\ LedgerKept
<1>1. CASE lock[RegistryFile] = p
  BY <1>1, PublishRegistry DEF Commit
<1>2. CASE lock[RegistryFile] # p
  BY <1>2, NothingHappens DEF Commit
<1> QED BY <1>1, <1>2

\* Likewise on the ledger's.
LEMMA CommitOfLedger ==
  ASSUME DbType, NEW p \in Procs, Commit(p, LedgerFile)
  PROVE  /\ Shape
         /\ IF lock[LedgerFile] = p
              THEN /\ LedgerEnded(p, draft.erases, draft.redacts)
                   /\ IF Shared THEN RegistryEnded(p, draft.evid, draft.refs)
                                ELSE RegistryKept
              ELSE RegistryKept /\ LedgerKept
<1>1. CASE lock[LedgerFile] = p
  BY <1>1, PublishLedger DEF Commit
<1>2. CASE lock[LedgerFile] # p
  BY <1>2, NothingHappens DEF Commit
<1> QED BY <1>1, <1>2

\* rollback() takes each half back to what is committed, where p held it.
LEMMA RollbackOfFiles ==
  ASSUME DbType, NEW p \in Procs, NEW files \in SUBSET Files, Rollback(p, files)
  PROVE  /\ Shape
         /\ IF lock[RegistryFile] = p /\ RegistryFile \in files
              THEN RegistryEnded(p, store.evid, store.refs) ELSE RegistryKept
         /\ IF lock[LedgerFile] = p /\ LedgerFile \in files
              THEN LedgerEnded(p, store.erases, store.redacts) ELSE LedgerKept
<1>1. /\ lock' = [f \in Files |-> IF f \in files /\ lock[f] = p THEN NoProc ELSE lock[f]]
      /\ draft' = Merge(files \cap Held(p), store, draft)
      /\ store' = store
  BY DEF Rollback
<1>2. \A f \in files \cap Held(p) : f \in Files /\ lock[f] = p
  BY DEF Held
<1>3. \A f \in files : f \in files \cap Held(p) <=> lock[f] = p
  BY DEF Held
<1>4. lock \in [Files -> Procs \cup {NoProc}] /\ RegistryFile \in Files /\ LedgerFile \in Files
  BY TwoFiles DEF DbType
<1> HIDE DEF RegistryFile, LedgerFile
<1> QED BY <1>1, <1>2, <1>3, <1>4
        DEF Shape, RegistryEnded, LedgerEnded, RegistryKept, LedgerKept, Merge

-----------------------------------------------------------------------------
(* How calls fail *)

Fails(p) ==
  \/ PutRaises(p) \/ AddRefsRaises(p) \/ EraseRaises(p)
  \/ CommitRegistryFails(p) \/ CommitLedgerFails(p) \/ Crash(p)
  \/ \E fault \in CommitFaults : PutCommitFails(p, fault) \/ CommitSharedFails(p, fault)
  \/ \E x \in Candidates, cited \in SUBSET Evidence, fault \in CommitFaults :
       fault # "open" /\ AddRefsCommitFails(p, x, cited, fault)

\* Whatever fails, p ends up idle, and each half of the tables is left alone
\* or rolled back; unless an erase may be left open, p is rid of the ledger,
\* and of the registry its cascade wrote to.
GivesUp(p) ==
  /\ Shape
  /\ pc' = [pc EXCEPT ![p] = "idle"] /\ job' = [job EXCEPT ![p] = NoJob]
  /\ RegistryKept \/ RegistryEnded(p, store.evid, store.refs)
  /\ LedgerKept \/ LedgerEnded(p, store.erases, store.redacts)
  /\ \/ UNCHANGED told
     \/ /\ pc[p] \in EraseStages
        /\ told' \in { [told EXCEPT ![job[p].cand] = word] :
                         word \in {"raised", "incomplete"} }
  /\ faults' \in 0..MaxFaults
  /\ CleanErases =>
       /\ lock'[LedgerFile] # p
       /\ pc[p] \in Cascaded => lock'[RegistryFile] # p

\* Rolling both files back leaves p nothing.
LEMMA RollbackOfAll ==
  ASSUME DbType, NEW p \in Procs, Rollback(p, Files)
  PROVE  /\ Shape
         /\ RegistryKept \/ RegistryEnded(p, store.evid, store.refs)
         /\ LedgerKept \/ LedgerEnded(p, store.erases, store.redacts)
         /\ lock'[RegistryFile] # p /\ lock'[LedgerFile] # p
<1>1. p # NoProc
  BY ProcsAssumption
<1>2. RegistryFile \in Files /\ LedgerFile \in Files
  BY TwoFiles
<1> HIDE DEF RegistryFile, LedgerFile
<1> QED BY <1>1, <1>2, RollbackOfFiles
        DEF RegistryKept, RegistryEnded, LedgerKept, LedgerEnded

\* The cascade's stages have nothing to do with a put().
LEMMA StagesApart ==
  /\ Applied \subseteq EraseStages /\ Cascaded \subseteq EraseStages
  /\ "idle" \notin EraseStages /\ "look" \notin EraseStages /\ "store" \notin EraseStages
  /\ ~Shared => "commit" \notin Cascaded
BY DEF Applied, Cascaded, EraseStages

\* Every failure of a call is such a step.
LEMMA FailuresGiveUp ==
  ASSUME TInv, NEW p \in Procs, CleanErases => BusyHolder(p), Fails(p)
  PROVE  GivesUp(p)
<1>1. /\ DbType
      /\ pc \in [Procs -> Labels] /\ job \in [Procs -> Jobs]
      /\ CallOf(pc[p], job[p])
      /\ pc[p] = "idle" => job[p] = NoJob
      /\ faults \in 0..MaxFaults /\ MaxFaults \in Nat
  BY FaultsAssumption DEF TInv, CallType, CallOf, ReportType
<1>2. Fault \/ faults' = faults => faults' \in 0..MaxFaults
  BY <1>1 DEF Fault
<1>3. RegistryFile \in Files /\ LedgerFile \in Files /\ p # NoProc
  BY TwoFiles, ProcsAssumption
<1>4. ASSUME pc[p] \in {"look", "store", "idle"},
             \/ Rollback(p, {RegistryFile})
             \/ /\ UNCHANGED db
                /\ CleanErases /\ Shared => lock[RegistryFile] # p
             \/ Publish(p, RegistryFile, store),
             End(p) \/ (UNCHANGED <<pc, job>> /\ pc[p] = "idle"),
             Fault, UNCHANGED told
      PROVE  GivesUp(p)
  <2>1. pc[p] \notin Cascaded /\ pc[p] \notin Applied
    BY <1>4, StagesApart
  <2>2. pc' = [pc EXCEPT ![p] = "idle"] /\ job' = [job EXCEPT ![p] = NoJob]
    BY <1>1, <1>4 DEF End
  <2>3. CleanErases /\ ~Shared => lock[LedgerFile] # p
    BY <2>1 DEF BusyHolder
  <2>4. Shared => RegistryFile = LedgerFile
    BY TwoFiles
  <2>5. CASE Rollback(p, {RegistryFile})
    <3>1. {RegistryFile} \in SUBSET Files
      BY <1>3
    <3>2. /\ Shape
          /\ RegistryKept \/ RegistryEnded(p, store.evid, store.refs)
          /\ LedgerKept \/ LedgerEnded(p, store.erases, store.redacts)
          /\ lock'[LedgerFile] # lock[LedgerFile] => lock'[LedgerFile] # p
          /\ Shared => lock'[LedgerFile] # p
      <4> HIDE DEF RegistryFile, LedgerFile
      <4> QED BY <1>1, <1>3, <2>4, <2>5, <3>1, RollbackOfFiles
              DEF RegistryKept, RegistryEnded, LedgerKept, LedgerEnded
    <3> HIDE DEF RegistryFile, LedgerFile
    <3> QED BY <1>2, <1>4, <2>1, <2>2, <2>3, <3>2 DEF GivesUp
  <2>6. CASE UNCHANGED db /\ (CleanErases /\ Shared => lock[RegistryFile] # p)
    <3>1. Shape /\ RegistryKept /\ LedgerKept
      BY <1>1, <2>6, NothingHappens
    <3>2. CleanErases => lock'[LedgerFile] # p
      BY <2>3, <2>4, <2>6, <3>1 DEF LedgerKept
    <3> QED BY <1>2, <1>4, <2>1, <2>2, <3>1, <3>2 DEF GivesUp
  <2>7. CASE Publish(p, RegistryFile, store)
    <3> HIDE DEF RegistryFile, LedgerFile
    <3> QED BY <1>1, <1>2, <1>3, <1>4, <2>1, <2>2, <2>3, <2>4, <2>7, PublishRegistry
            DEF GivesUp, RegistryEnded, LedgerKept, LedgerEnded
  <2> QED BY <1>4, <2>5, <2>6, <2>7
<1>5. CASE PutRaises(p)
  <2>1. Shared => RegistryFile = LedgerFile
    BY TwoFiles
  <2>2. job[p].items # <<>>
    BY <1>5 DEF PutRaises, At, TInv, CallType, CallOf
  <2>3. CleanErases /\ Shared /\ ~job[p].many => lock[RegistryFile] # p
    BY <1>5, <2>2 DEF PutRaises, At, BusyHolder
  <2> QED BY <1>4, <1>5, <2>3 DEF PutRaises, At
<1>6. CASE AddRefsRaises(p)
  BY <1>4, <1>6 DEF AddRefsRaises, At
<1>7. ASSUME NEW fault \in CommitFaults, PutCommitFails(p, fault)
      PROVE  GivesUp(p)
  <2>1. CleanErases /\ Shared => fault # "open"
    BY DEF CleanErases
  <2> QED BY <1>4, <1>7, <2>1 DEF PutCommitFails, At
<1>8. ASSUME NEW x \in Candidates, NEW cited \in SUBSET Evidence, NEW fault \in CommitFaults,
             fault # "open", AddRefsCommitFails(p, x, cited, fault)
      PROVE  GivesUp(p)
  BY <1>4, <1>8 DEF AddRefsCommitFails, At
<1>9. ASSUME Rollback(p, Files), End(p), Fault,
             \/ UNCHANGED told
             \/ /\ pc[p] \in EraseStages
                /\ told' = [told EXCEPT ![job[p].cand] = "raised"]
      PROVE  GivesUp(p)
  BY <1>1, <1>2, <1>9, RollbackOfAll DEF GivesUp, End
<1>10. CASE EraseRaises(p) \/ CommitRegistryFails(p) \/ Crash(p)
  BY <1>9, <1>10 DEF EraseRaises, CommitRegistryFails, Crash, EndErase, EraseStages, At
<1>11. ASSUME NEW fault \in CommitFaults, CommitSharedFails(p, fault)
       PROVE  GivesUp(p)
  <2>1. pc[p] = "commit" /\ Shared /\ End(p) /\ Fault
        /\ told' = [told EXCEPT ![job[p].cand] = "raised"]
    BY <1>11 DEF CommitSharedFails, EndErase, At
  <2>2. CASE fault = "open"
    <3>1. ~CleanErases
      BY <2>1, <2>2 DEF CleanErases
    <3>2. Shape /\ RegistryKept /\ LedgerKept
      BY <1>1, <1>11, <2>2, NothingHappens DEF CommitSharedFails
    <3> QED BY <1>1, <1>2, <2>1, <3>1, <3>2 DEF GivesUp, End, EraseStages
  <2>3. CASE fault # "open"
    BY <1>9, <1>11, <2>1, <2>3 DEF CommitSharedFails, EraseStages
  <2> QED BY <2>2, <2>3
<1>12. CASE CommitLedgerFails(p)
  <2>1. /\ pc[p] = "commit" /\ ~Shared /\ End(p) /\ Fault /\ Rollback(p, {LedgerFile})
        /\ told' = [told EXCEPT ![job[p].cand] = "incomplete"]
    BY <1>12 DEF CommitLedgerFails, EndErase, At
  <2>2. {LedgerFile} \in SUBSET Files
    BY <1>3
  <2>3. /\ Shape
        /\ RegistryKept \/ RegistryEnded(p, store.evid, store.refs)
        /\ LedgerKept \/ LedgerEnded(p, store.erases, store.redacts)
        /\ lock'[LedgerFile] # p
    <3> HIDE DEF RegistryFile, LedgerFile
    <3> QED BY <1>1, <1>3, <2>1, <2>2, RollbackOfFiles DEF LedgerKept, LedgerEnded
  <2>4. pc[p] \in EraseStages /\ pc[p] \notin Cascaded
    BY <2>1 DEF EraseStages, Cascaded
  <2> QED BY <1>1, <1>2, <2>1, <2>3, <2>4 DEF GivesUp, End
<1> QED BY <1>5, <1>6, <1>7, <1>8, <1>10, <1>11, <1>12 DEF Fails

-----------------------------------------------------------------------------
(* How calls write *)

\* One statement on a half of the tables, in p's transaction.
InRegistry(p, evid, refs) ==
  /\ Shape
  /\ RegistryStaged(p, evid, refs)
  /\ IF Shared THEN LedgerStaged(p, draft.erases, draft.redacts) ELSE LedgerKept

InLedger(p, erases, redacts) ==
  /\ Shape
  /\ LedgerStaged(p, erases, redacts)
  /\ IF Shared THEN RegistryStaged(p, draft.evid, draft.refs) ELSE RegistryKept

\* What the cascade leaves, and whose texts go.
LeftBy(p) == WithoutSubject(draft.refs, job[p].cand)
OrphansOf(p) == Orphans(LeftBy(p), job[p].cited)

\* The writing steps, as such statements and commits.
LEMMA WritingSteps ==
  ASSUME DbType, NEW p \in Procs
  PROVE  /\ PutStore(p) =>
              InRegistry(p, Stored(draft.evid, Head(job[p].items)), draft.refs)
         /\ \A x, cited :
              AddRefs(p, x, cited) =>
                /\ Shape
                /\ RegistryEnded(p, draft.evid, WithRefs(draft.refs, x, cited))
                /\ IF Shared THEN LedgerEnded(p, draft.erases, draft.redacts)
                             ELSE LedgerKept
         /\ \A x, cited :
              AddRefsCommitFails(p, x, cited, "open") =>
                InRegistry(p, draft.evid, WithRefs(draft.refs, x, cited))
         /\ Cascade(p) => InRegistry(p, Redacted(draft.evid, OrphansOf(p)), LeftBy(p))
         /\ ApplyErase(p) =>
              InLedger(p, [draft.erases EXCEPT ![job[p].cand] = @ + 1], draft.redacts)
         /\ Audit(p) =>
              InLedger(p, draft.erases,
                       draft.redacts \cup ({job[p].cand} \X job[p].redacted))
<1>1. draft = [ evid |-> draft.evid, refs |-> draft.refs,
                erases |-> draft.erases, redacts |-> draft.redacts ]
  BY DEF DbType
<1>2. ASSUME PutStore(p)
      PROVE  InRegistry(p, Stored(draft.evid, Head(job[p].items)), draft.refs)
  <2> DEFINE s == Stored(draft.evid, Head(job[p].items))
  <2>1. [draft EXCEPT !.evid = s] = [draft EXCEPT !.evid = s, !.refs = draft.refs]
    BY <1>1
  <2>2. Stage(p, RegistryFile, [draft EXCEPT !.evid = s])
    BY <1>2 DEF PutStore
  <2> HIDE DEF s
  <2> QED BY <2>1, <2>2, StageRegistry DEF InRegistry, s
<1>3. ASSUME NEW x, NEW cited
      PROVE  Recited(x, cited) = [draft EXCEPT !.evid = draft.evid,
                                               !.refs = WithRefs(draft.refs, x, cited)]
  BY <1>1 DEF Recited
<1>4. ASSUME NEW x, NEW cited, AddRefs(p, x, cited)
      PROVE  /\ Shape
             /\ RegistryEnded(p, draft.evid, WithRefs(draft.refs, x, cited))
             /\ IF Shared THEN LedgerEnded(p, draft.erases, draft.redacts)
                          ELSE LedgerKept
  <2>1. Publish(p, RegistryFile, Recited(x, cited))
    BY <1>4 DEF AddRefs
  <2>2. /\ Recited(x, cited).evid = draft.evid
        /\ Recited(x, cited).refs = WithRefs(draft.refs, x, cited)
        /\ Recited(x, cited).erases = draft.erases
        /\ Recited(x, cited).redacts = draft.redacts
    BY <1>1 DEF Recited
  <2> QED BY <2>1, <2>2, PublishRegistry
<1>5. ASSUME NEW x, NEW cited, AddRefsCommitFails(p, x, cited, "open")
      PROVE  InRegistry(p, draft.evid, WithRefs(draft.refs, x, cited))
  <2>1. Stage(p, RegistryFile, Recited(x, cited))
    BY <1>5 DEF AddRefsCommitFails
  <2> QED BY <1>3, <2>1, StageRegistry DEF InRegistry
<1>6. ASSUME Cascade(p)
      PROVE  InRegistry(p, Redacted(draft.evid, OrphansOf(p)), LeftBy(p))
  <2> DEFINE s == Redacted(draft.evid, OrphansOf(p))
             t == LeftBy(p)
  <2>1. Stage(p, RegistryFile, [draft EXCEPT !.refs = t, !.evid = s])
    BY <1>6 DEF Cascade, OrphansOf, LeftBy
  <2>2. [draft EXCEPT !.refs = t, !.evid = s] = [draft EXCEPT !.evid = s, !.refs = t]
    <3> HIDE DEF s, t
    <3> QED BY <1>1
  <2> HIDE DEF s, t
  <2> QED BY <2>1, <2>2, StageRegistry DEF InRegistry, s, t
<1>7. ASSUME ApplyErase(p)
      PROVE  InLedger(p, [draft.erases EXCEPT ![job[p].cand] = @ + 1], draft.redacts)
  <2> DEFINE s == [draft.erases EXCEPT ![job[p].cand] = @ + 1]
  <2>1. Stage(p, LedgerFile, [draft EXCEPT !.erases[job[p].cand] = @ + 1])
    BY <1>7 DEF ApplyErase
  <2>2. [draft EXCEPT !.erases[job[p].cand] = @ + 1]
          = [draft EXCEPT !.erases = s, !.redacts = draft.redacts]
    BY <1>1
  <2> HIDE DEF s
  <2> QED BY <2>1, <2>2, StageLedger DEF InLedger, s
<1>8. ASSUME Audit(p)
      PROVE  InLedger(p, draft.erases,
                      draft.redacts \cup ({job[p].cand} \X job[p].redacted))
  <2> DEFINE s == draft.redacts \cup ({job[p].cand} \X job[p].redacted)
  <2>1. Stage(p, LedgerFile, [draft EXCEPT !.redacts = s])
    BY <1>8 DEF Audit
  <2>2. [draft EXCEPT !.redacts = s] = [draft EXCEPT !.erases = draft.erases, !.redacts = s]
    <3> HIDE DEF s
    <3> QED BY <1>1
  <2> HIDE DEF s
  <2> QED BY <2>1, <2>2, StageLedger DEF InLedger, s
<1> QED BY <1>2, <1>4, <1>5, <1>6, <1>7, <1>8

-----------------------------------------------------------------------------
(* Types *)

\* The next stage of an erase, stage by stage.
LEMMA NextStage ==
  IF Shared
    THEN /\ StageAfter["apply"] = "cite" /\ StageAfter["cite"] = "unref"
         /\ StageAfter["unref"] = "audit" /\ StageAfter["audit"] = "commit"
    ELSE /\ StageAfter["cite"] = "unref" /\ StageAfter["unref"] = "apply"
         /\ StageAfter["apply"] = "audit" /\ StageAfter["audit"] = "commit_registry"
         /\ StageAfter["commit_registry"] = "commit"
BY DEF StageAfter

\* What the writing statements put into the tables has the tables' types.
LEMMA WrittenTypes ==
  ASSUME TablesType(draft)
  PROVE  /\ \A item \in Item : Stored(draft.evid, item) \in [Evidence -> EvidenceRow]
         /\ \A items : Redacted(draft.evid, items) \in [Evidence -> EvidenceRow]
         /\ \A x \in Candidates, cited \in SUBSET Evidence :
              WithRefs(draft.refs, x, cited) \subseteq Citations
         /\ \A x : WithoutSubject(draft.refs, x) \subseteq Citations
         /\ \A x \in Candidates, cited \in SUBSET Evidence :
              draft.redacts \cup ({x} \X cited) \subseteq Citations
<1>1. /\ draft.evid \in [Evidence -> EvidenceRow]
      /\ draft.refs \subseteq Citations /\ draft.redacts \subseteq Citations
  BY DEF TablesType
<1>2. Forms \subseteq EvidenceRow /\ "redacted" \in EvidenceRow
  BY DEF EvidenceRow
<1>3. \A item \in Item : Stored(draft.evid, item) \in [Evidence -> EvidenceRow]
  BY <1>1, <1>2 DEF Item, Stored
<1>4. \A items : Redacted(draft.evid, items) \in [Evidence -> EvidenceRow]
  BY <1>1, <1>2 DEF Redacted
<1>5. \A x \in Candidates, cited \in SUBSET Evidence : {x} \X cited \subseteq Citations
  BY DEF Citations
<1> QED BY <1>1, <1>3, <1>4, <1>5 DEF WithRefs, WithoutSubject

\* Every step of p is one on the tables.
LEMMA EveryStepIsDbStep ==
  ASSUME TInv, NEW p \in Procs, Request(p) \/ Step(p) \/ Crash(p)
  PROVE  DbStep(p)
<1>1. DbType /\ TablesType(draft) /\ TablesType(store) /\ CallType
  BY DEF TInv, DbType
<1> HIDE DEF RegistryFile, LedgerFile
<1>2. CASE UNCHANGED db
  BY <1>1, <1>2, NothingHappens DEF DbStep
<1>3. ASSUME NEW evid \in [Evidence -> EvidenceRow], NEW refs \in SUBSET Citations,
             InRegistry(p, evid, refs)
      PROVE  DbStep(p)
  BY <1>1, <1>3 DEF InRegistry, DbStep, TablesType
<1>4. ASSUME NEW erases \in [Candidates -> Nat], NEW redacts \in SUBSET Citations,
             InLedger(p, erases, redacts)
      PROVE  DbStep(p)
  BY <1>1, <1>4 DEF InLedger, DbStep, TablesType
<1>6. CASE Commit(p, RegistryFile)
  <2> QED BY <1>1, <1>6, CommitOfRegistry DEF DbStep, TablesType
<1>7. CASE Commit(p, LedgerFile)
  <2> QED BY <1>1, <1>7, CommitOfLedger DEF DbStep, TablesType
<1>8. CASE PutStore(p)
  <2>1. job[p].items \in Seq(Item) /\ job[p].items # <<>>
    BY <1>1, <1>8 DEF PutStore, At, CallType, CallOf, PutJob
  <2>2. Head(job[p].items) \in Item
    BY <2>1, HeadTailProperties
  <2>3. Stored(draft.evid, Head(job[p].items)) \in [Evidence -> EvidenceRow]
    BY <1>1, <2>2, WrittenTypes
  <2> QED BY <1>1, <1>3, <1>8, <2>3, WritingSteps DEF TablesType
<1>9. CASE Cascade(p)
  <2>1. /\ Redacted(draft.evid, OrphansOf(p)) \in [Evidence -> EvidenceRow]
        /\ LeftBy(p) \in SUBSET Citations
    BY <1>1, WrittenTypes DEF LeftBy
  <2> QED BY <1>1, <1>3, <1>9, <2>1, WritingSteps
<1>10. CASE ApplyErase(p)
  <2>1. job[p].cand \in Candidates
    BY <1>1, <1>10 DEF ApplyErase, At, CallType, CallOf, EraseStages, EraseJob
  <2>2. [draft.erases EXCEPT ![job[p].cand] = @ + 1] \in [Candidates -> Nat]
    BY <1>1, <2>1 DEF TablesType
  <2> QED BY <1>1, <1>4, <1>10, <2>2, WritingSteps DEF TablesType
<1>11. CASE Audit(p)
  <2>1. job[p].cand \in Candidates /\ job[p].redacted \in SUBSET Evidence
    BY <1>1, <1>11 DEF Audit, At, CallType, CallOf, EraseStages, EraseJob
  <2>2. draft.redacts \cup ({job[p].cand} \X job[p].redacted) \in SUBSET Citations
    BY <1>1, <2>1, WrittenTypes
  <2> QED BY <1>1, <1>4, <1>11, <2>2, WritingSteps DEF TablesType
<1>12. ASSUME NEW x \in Candidates, NEW cited \in SUBSET Evidence, AddRefs(p, x, cited)
       PROVE  DbStep(p)
  <2>1. WithRefs(draft.refs, x, cited) \in SUBSET Citations
    BY <1>1, WrittenTypes
  <2> QED BY <1>1, <1>12, <2>1, WritingSteps DEF DbStep, TablesType
<1>13. ASSUME NEW x \in Candidates, NEW cited \in SUBSET Evidence,
              AddRefsCommitFails(p, x, cited, "open")
       PROVE  DbStep(p)
  <2>1. WithRefs(draft.refs, x, cited) \in SUBSET Citations
    BY <1>1, WrittenTypes
  <2> QED BY <1>1, <1>3, <1>13, <2>1, WritingSteps DEF TablesType
<1>14. CASE PutRaises(p)
  BY <1>2, <1>14, <1>1, TwoFiles, RollbackOfFiles
     DEF PutRaises, DbStep, TablesType
<1>15. ASSUME NEW files \in SUBSET Files, Rollback(p, files)
       PROVE  DbStep(p)
  <2> QED BY <1>1, <1>15, RollbackOfFiles DEF DbStep, TablesType
<1>16. {RegistryFile} \in SUBSET Files /\ {LedgerFile} \in SUBSET Files
  BY TwoFiles
<1>17. CASE Request(p)
  <2>1. ASSUME NEW x \in Candidates, NEW cited \in SUBSET Evidence, NEW fault \in CommitFaults,
               fault # "open", AddRefsCommitFails(p, x, cited, fault)
        PROVE  DbStep(p)
    <3>1. Publish(p, RegistryFile, store)
      BY <2>1 DEF AddRefsCommitFails
    <3> QED BY <1>1, <3>1, PublishRegistry DEF DbStep, TablesType
  <2>2. CASE AddRefsRaises(p)
    BY <1>15, <1>16, <2>2 DEF AddRefsRaises
  <2> QED BY <1>2, <1>12, <1>13, <1>17, <2>1, <2>2
          DEF Request, BeginPut, BeginErase, EraseAgain
<1>18. CASE Crash(p)
  BY <1>15, <1>18 DEF Crash
<1>19. CASE PutLook(p) \/ CiteRefs(p)
  BY <1>2, <1>19 DEF PutLook, CiteRefs
<1>20. CASE PutCommit(p) \/ CommitRegistry(p) \/ CommitErase(p)
  BY <1>6, <1>7, <1>20 DEF PutCommit, CommitRegistry, CommitErase
<1>21. CASE EraseRaises(p) \/ CommitRegistryFails(p) \/ CommitLedgerFails(p)
  BY <1>15, <1>16, <1>21 DEF EraseRaises, CommitRegistryFails, CommitLedgerFails
<1>22. ASSUME NEW fault \in CommitFaults, PutCommitFails(p, fault)
       PROVE  DbStep(p)
  BY <1>2, <1>15, <1>16, <1>22 DEF PutCommitFails
<1>23. ASSUME NEW fault \in CommitFaults, CommitSharedFails(p, fault)
       PROVE  DbStep(p)
  BY <1>2, <1>15, <1>16, <1>23 DEF CommitSharedFails
<1> QED BY <1>8, <1>9, <1>10, <1>11, <1>14, <1>17, <1>18, <1>19, <1>20, <1>21, <1>22, <1>23
        DEF Step

\* A step of p that leaves it with a well-typed call keeps all calls so.
LEMMA CallGoesOn ==
  ASSUME CallType, NEW p \in Procs, NEW label \in Labels, NEW j \in Jobs,
         CallOf(label, j),
         pc' = [pc EXCEPT ![p] = label], job' = [job EXCEPT ![p] = j]
  PROVE  CallType'
<1>1. pc' \in [Procs -> Labels] /\ job' \in [Procs -> Jobs]
  BY DEF CallType
<1>2. ASSUME NEW q \in Procs
      PROVE  CallOf(pc'[q], job'[q])
  <2>1. CASE q = p
    BY <2>1 DEF CallType
  <2>2. CASE q # p
    <3>1. pc'[q] = pc[q] /\ job'[q] = job[q]
      BY <2>2 DEF CallType
    <3> QED BY <3>1 DEF CallType
  <2> QED BY <2>1, <2>2
<1> QED BY <1>1, <1>2 DEF CallType, CallOf

\* Every step leaves its process with a well-typed call.
LEMMA CallsStayTyped ==
  ASSUME TInv, NEW p \in Procs, Request(p) \/ Step(p) \/ Crash(p)
  PROVE  CallType'
<1> DEFINE l == pc[p]
           j == job[p]
<1>1. /\ CallType /\ pc \in [Procs -> Labels] /\ job \in [Procs -> Jobs]
      /\ l \in Labels /\ j \in Jobs /\ CallOf(l, j)
  BY DEF TInv, CallType
<1>2. CASE UNCHANGED <<pc, job>>
  BY <1>1, <1>2 DEF CallType, CallOf
<1>3. CASE End(p)
  <2>1. CallOf("idle", NoJob) /\ "idle" \in Labels /\ NoJob \in Jobs
    BY DEF CallOf, Labels, Jobs, EraseStages
  <2> QED BY <1>1, <1>3, <2>1, CallGoesOn DEF End
<1>4. ASSUME NEW label \in Labels, NEW k \in Jobs, CallOf(label, k),
             pc' = [pc EXCEPT ![p] = label], job' = [job EXCEPT ![p] = k]
      PROVE  CallType'
  BY <1>1, <1>4, CallGoesOn
<1>5. ASSUME NEW put \in Puts, BeginPut(p, put)
      PROVE  CallType'
  <2> DEFINE k == [call |-> "put", items |-> put.items, many |-> put.many]
  <2>1. k \in PutJob
    BY PutsAssumption DEF PutJob
  <2>2. CallOf("look", k) /\ "look" \in Labels /\ k \in Jobs
    BY <2>1 DEF CallOf, Labels, Jobs, EraseStages
  <2>3. pc' = [pc EXCEPT ![p] = "look"] /\ job' = [job EXCEPT ![p] = k]
    BY <1>5 DEF BeginPut, Begin
  <2> HIDE DEF k
  <2> QED BY <1>4, <2>2, <2>3
<1>6. ASSUME NEW x \in Candidates, BeginErase(p, x)
      PROVE  CallType'
  <2> DEFINE k == [call |-> "erase", cand |-> x, cited |-> {}, redacted |-> {}]
  <2>1. k \in EraseJob /\ k.redacted = {} /\ k.cited = {}
    BY DEF EraseJob
  <2>2. FirstStage \in {"apply", "cite"}
    BY DEF FirstStage
  <2>3. CallOf(FirstStage, k) /\ FirstStage \in Labels /\ k \in Jobs
    <3> HIDE DEF k
    <3> QED BY <2>1, <2>2 DEF CallOf, Labels, Jobs, EraseStages
  <2>4. pc' = [pc EXCEPT ![p] = FirstStage] /\ job' = [job EXCEPT ![p] = k]
    BY <1>6 DEF BeginErase, Begin
  <2> HIDE DEF k
  <2> QED BY <1>4, <2>3, <2>4
<1>7. CASE j \in PutJob /\ j.items # <<>> /\ l \in {"look", "store"}
           /\ job' = [job EXCEPT ![p].items = Tail(@)] /\ pc' = [pc EXCEPT ![p] = "look"]
  <2> DEFINE k == [j EXCEPT !.items = Tail(@)]
  <2>1. j.items \in Seq(Item)
    BY <1>7 DEF PutJob
  <2>2. Tail(j.items) \in Seq(Item)
    BY <1>7, <2>1, HeadTailProperties
  <2>3. k \in PutJob
    BY <1>7, <2>2 DEF PutJob
  <2>4. CallOf("look", k) /\ "look" \in Labels /\ k \in Jobs
    BY <2>3 DEF CallOf, Labels, Jobs, EraseStages
  <2>5. job' = [job EXCEPT ![p] = k]
    BY <1>7
  <2> HIDE DEF k
  <2> QED BY <1>4, <1>7, <2>4, <2>5
<1>8. CASE PutLook(p)
  <2>1. l = "look" /\ j \in PutJob /\ j.items # <<>>
    BY <1>1, <1>8 DEF PutLook, At, CallOf
  <2>2. CASE UNCHANGED pc /\ job' = [job EXCEPT ![p].items = Tail(@)]
    <3>1. pc' = [pc EXCEPT ![p] = "look"]
      BY <1>1, <2>1, <2>2
    <3> QED BY <1>7, <2>1, <2>2, <3>1
  <2>3. CASE pc' = [pc EXCEPT ![p] = "store"] /\ UNCHANGED job
    <3>1. CallOf("store", j) /\ "store" \in Labels /\ job' = [job EXCEPT ![p] = j]
      BY <1>1, <2>1, <2>3 DEF CallOf, Labels, EraseStages
    <3> QED BY <1>1, <1>4, <2>3, <3>1
  <2> QED BY <1>8, <2>2, <2>3 DEF PutLook, Goto
<1>9. CASE PutStore(p)
  BY <1>1, <1>7, <1>9 DEF PutStore, At, CallOf, Goto
<1>10. CASE CiteRefs(p)
  <2> DEFINE cited == CitedBy(View(p).refs, j.cand)
             k == [j EXCEPT !.cited = cited]
  <2>1. l = "cite" /\ j \in EraseJob /\ j.redacted = {}
    BY <1>1, <1>10 DEF CiteRefs, At, CallOf, EraseStages
  <2>2. cited \in SUBSET Evidence
    BY DEF CitedBy
  <2>3. k \in EraseJob /\ k.redacted = {}
    <3> HIDE DEF cited
    <3> QED BY <2>1, <2>2 DEF EraseJob
  <2>4. CallOf("unref", k) /\ "unref" \in Labels /\ k \in Jobs
    <3> HIDE DEF k
    <3> QED BY <2>3 DEF CallOf, Labels, Jobs, EraseStages
  <2>5. pc' = [pc EXCEPT ![p] = "unref"]
    BY <1>10, <2>1, NextStage DEF CiteRefs, Advance, Goto
  <2>6. job' = [job EXCEPT ![p] = k]
    BY <1>10 DEF CiteRefs
  <2> HIDE DEF k
  <2> QED BY <1>4, <2>4, <2>5, <2>6
<1>11. CASE Cascade(p)
  <2> DEFINE red == Redactable(draft.evid, OrphansOf(p))
             k == [j EXCEPT !.redacted = red]
  <2>1. l = "unref" /\ j \in EraseJob
    BY <1>1, <1>11 DEF Cascade, At, CallOf, EraseStages
  <2>2. red \subseteq j.cited
    BY DEF Redactable, OrphansOf, Orphans
  <2>3. k \in EraseJob /\ k.redacted \subseteq k.cited
    <3> HIDE DEF red
    <3> QED BY <2>1, <2>2 DEF EraseJob
  <2>4. pc' = [pc EXCEPT ![p] = IF Shared THEN "audit" ELSE "apply"]
    BY <1>11, <2>1, NextStage DEF Cascade, Advance, Goto
  <2>5. /\ CallOf(IF Shared THEN "audit" ELSE "apply", k)
        /\ (IF Shared THEN "audit" ELSE "apply") \in Labels /\ k \in Jobs
    <3> HIDE DEF k
    <3> QED BY <2>3 DEF CallOf, Labels, Jobs, EraseStages
  <2>6. job' = [job EXCEPT ![p] = k]
    BY <1>11 DEF Cascade, OrphansOf, LeftBy
  <2> HIDE DEF k
  <2> QED BY <1>4, <2>4, <2>5, <2>6
<1>12. CASE ApplyErase(p) \/ Audit(p) \/ CommitRegistry(p)
  <2>1. /\ l \in {"apply", "audit", "commit_registry"} /\ UNCHANGED job
        /\ pc' = [pc EXCEPT ![p] = StageAfter[l]]
    BY <1>12 DEF ApplyErase, Audit, CommitRegistry, Advance, Goto, At
  <2>2. j \in EraseJob /\ j.redacted \subseteq j.cited
        /\ (l = "apply" /\ Shared => j.redacted = {}) /\ (l = "commit_registry" => ~Shared)
    BY <1>1, <2>1 DEF CallOf, EraseStages
  <2>3. CallOf(StageAfter[l], j) /\ StageAfter[l] \in Labels
    BY <2>1, <2>2, NextStage DEF CallOf, Labels, EraseStages
  <2>4. job' = [job EXCEPT ![p] = j]
    BY <1>1, <2>1
  <2> QED BY <1>1, <1>4, <2>1, <2>3, <2>4
<1>13. CASE Request(p)
  BY <1>2, <1>5, <1>6, <1>13
     DEF Request, AddRefs, AddRefsCommitFails, AddRefsRaises, EraseAgain
<1>14. CASE PutCommit(p) \/ PutRaises(p) \/ CommitErase(p) \/ EraseRaises(p)
            \/ CommitRegistryFails(p) \/ CommitLedgerFails(p) \/ Crash(p)
            \/ \E fault \in CommitFaults :
                 PutCommitFails(p, fault) \/ CommitSharedFails(p, fault)
  BY <1>3, <1>14 DEF PutCommit, PutRaises, CommitErase, EraseRaises, CommitRegistryFails,
                     CommitLedgerFails, Crash, PutCommitFails, CommitSharedFails, EndErase
<1> QED BY <1>8, <1>9, <1>10, <1>11, <1>12, <1>13, <1>14 DEF Step

\* What callers were told, and the faults so far, keep their types.
LEMMA ReportsStayTyped ==
  ASSUME TInv, NEW p \in Procs, Request(p) \/ Step(p) \/ Crash(p)
  PROVE  ReportType'
<1>1. ReportType /\ MaxFaults \in Nat
  BY FaultsAssumption DEF TInv
<1>2. faults' = faults \/ Fault => faults' \in 0..MaxFaults
  BY <1>1 DEF ReportType, Fault
<1>3. \/ UNCHANGED told
      \/ \E x, word : /\ word \in {"erased", "raised", "incomplete"}
                      /\ told' = [told EXCEPT ![x] = word]
  BY DEF Request, Step, Crash, BeginPut, AddRefs, AddRefsCommitFails, AddRefsRaises,
         BeginErase, EraseAgain, PutLook, PutStore, PutCommit, PutRaises, CiteRefs,
         Cascade, ApplyErase, Audit, CommitRegistry, CommitErase, EraseRaises,
         CommitRegistryFails, CommitLedgerFails, PutCommitFails, CommitSharedFails, EndErase
<1>4. faults' = faults \/ Fault
  BY DEF Request, Step, Crash, BeginPut, AddRefs, AddRefsCommitFails, AddRefsRaises,
         BeginErase, EraseAgain, PutLook, PutStore, PutCommit, PutRaises, CiteRefs,
         Cascade, ApplyErase, Audit, CommitRegistry, CommitErase, EraseRaises,
         CommitRegistryFails, CommitLedgerFails, PutCommitFails, CommitSharedFails,
         Begin
<1>5. told' \in [Candidates -> {"none", "erased", "raised", "incomplete"}]
  BY <1>1, <1>3 DEF ReportType
<1> QED BY <1>2, <1>4, <1>5 DEF ReportType

\* The initial state is well typed.
LEMMA InitTyped == Init => TInv
<1> SUFFICES ASSUME Init PROVE TInv
  OBVIOUS
<1>1. store = [ evid |-> [e \in Evidence |-> "missing"], refs |-> {},
                erases |-> [x \in Candidates |-> 0], redacts |-> {} ]
      /\ draft = store
  BY DEF Init
<1>2. DbType
  BY <1>1 DEF Init, DbType, TablesType, EvidenceRow
<1>3. CallType
  BY DEF Init, CallType, CallOf, Labels, Jobs, EraseStages
<1>4. ReportType
  BY FaultsAssumption DEF Init, ReportType
<1> QED BY <1>2, <1>3, <1>4 DEF TInv

\* Every step keeps it so.
LEMMA NextTyped == TInv /\ [Next]_vars => TInv'
<1> SUFFICES ASSUME TInv, [Next]_vars PROVE TInv'
  OBVIOUS
<1>1. ASSUME NEW p \in Procs, Request(p) \/ Step(p) \/ Crash(p)
      PROVE  TInv'
  BY <1>1, EveryStepIsDbStep, StepKeepsTables, CallsStayTyped, ReportsStayTyped DEF TInv
<1>2. CASE UNCHANGED vars
  BY <1>2 DEF vars, db, TInv, DbType, TablesType, CallType, CallOf, ReportType
<1> QED BY <1>1, <1>2 DEF Next

\* So everything is, always.
LEMMA TypedAlways == Spec => []TInv
BY InitTyped, NextTyped, PTL DEF Spec

\* The two files' tables, locks and drafts, every call and what callers were
\* told are what TypeOK says, for any number of processes and either wiring.
THEOREM ErasureTypeCorrect == Spec => []TypeOK
<1>1. TInv => TypeOK
  <2> SUFFICES ASSUME TInv PROVE TypeOK
    OBVIOUS
  <2> DEFINE busy == { f \in Files : lock[f] # NoProc }
  <2>1. DbType /\ CallType /\ ReportType
    BY DEF TInv
  <2>2. draft = Merge(busy, draft, store)
    <3>1. /\ RegistryFile \in busy <=> lock[RegistryFile] # NoProc
          /\ LedgerFile \in busy <=> lock[LedgerFile] # NoProc
      BY TwoFiles
    <3> HIDE DEF busy, RegistryFile, LedgerFile
    <3> QED BY <2>1, <3>1 DEF DbType, Merge
  <2>3. ASSUME NEW p \in Procs
        PROVE  CASE pc[p] = "idle" -> job[p] = NoJob
                 [] pc[p] \in {"look", "store"} -> job[p].items \in Seq(Item)
                 [] OTHER -> /\ pc[p] \in {"cite", "unref", "apply", "audit",
                                           "commit_registry", "commit"}
                             /\ job[p].cand \in Candidates
                             /\ job[p].redacted \subseteq job[p].cited
    BY <2>1 DEF CallType, CallOf, Labels, EraseStages, PutJob, EraseJob
  <2> QED BY <2>1, <2>2, <2>3 DEF TypeOK, DbType, ReportType
<1> QED BY <1>1, TypedAlways, PTL

-----------------------------------------------------------------------------
(* Any number of processes *)

Cites(p) ==
  \E x \in Candidates, cited \in SUBSET Evidence :
    \/ AddRefs(p, x, cited)
    \/ "open" \in CommitFaults /\ AddRefsCommitFails(p, x, cited, "open")

\* Every step is one of these.
LEMMA StepKinds ==
  ASSUME NEW p \in Procs, Request(p) \/ Step(p) \/ Crash(p)
  PROVE  \/ \E put \in Puts : BeginPut(p, put)
         \/ \E x \in Candidates : BeginErase(p, x) \/ EraseAgain(p, x)
         \/ PutLook(p) \/ PutStore(p) \/ PutCommit(p)
         \/ CiteRefs(p) \/ Cascade(p) \/ ApplyErase(p) \/ Audit(p)
         \/ CommitRegistry(p) \/ CommitErase(p)
         \/ Cites(p)
         \/ Fails(p)
<1>1. CASE Request(p)
  <2>1. ASSUME NEW x \in Candidates, NEW cited \in SUBSET Evidence \ {{}},
               NEW fault \in CommitFaults, AddRefsCommitFails(p, x, cited, fault)
        PROVE  Cites(p) \/ Fails(p)
    <3>1. CASE fault = "open"
      BY <2>1, <3>1 DEF Cites
    <3>2. CASE fault # "open"
      BY <2>1, <3>2 DEF Fails
    <3> QED BY <3>1, <3>2
  <2>2. ASSUME NEW x \in Candidates, NEW cited \in SUBSET Evidence \ {{}},
               AddRefs(p, x, cited)
        PROVE  Cites(p)
    BY <2>2 DEF Cites
  <2> QED BY <1>1, <2>1, <2>2 DEF Request, Fails
<1>2. CASE Step(p)
  BY <1>2 DEF Step, Fails
<1>3. CASE Crash(p)
  BY <1>3 DEF Fails
<1> QED BY <1>1, <1>2, <1>3

\* A step of p is no step of the others' calls.
LEMMA OthersStay ==
  ASSUME TInv, NEW p \in Procs, Request(p) \/ Step(p) \/ Crash(p),
         NEW q \in Procs, q # p
  PROVE  pc'[q] = pc[q] /\ job'[q] = job[q]
<1>1. pc \in [Procs -> Labels] /\ job \in [Procs -> Jobs]
  BY DEF TInv, CallType
<1>2. \/ UNCHANGED pc
      \/ \E label : pc' = [pc EXCEPT ![p] = label]
  BY DEF Request, Step, Crash, BeginPut, AddRefs, AddRefsCommitFails, AddRefsRaises,
         BeginErase, EraseAgain, PutLook, PutStore, PutCommit, PutRaises, CiteRefs,
         Cascade, ApplyErase, Audit, CommitRegistry, CommitErase, EraseRaises,
         CommitRegistryFails, CommitLedgerFails, PutCommitFails, CommitSharedFails,
         Begin, End, EndErase, Goto, Advance
<1>3. \/ UNCHANGED job
      \/ \E j : job' = [job EXCEPT ![p] = j]
  BY DEF Request, Step, Crash, BeginPut, AddRefs, AddRefsCommitFails, AddRefsRaises,
         BeginErase, EraseAgain, PutLook, PutStore, PutCommit, PutRaises, CiteRefs,
         Cascade, ApplyErase, Audit, CommitRegistry, CommitErase, EraseRaises,
         CommitRegistryFails, CommitLedgerFails, PutCommitFails, CommitSharedFails,
         Begin, End, EndErase
<1> QED BY <1>1, <1>2, <1>3

\* Nor does it touch the locks they hold, or what is in their transactions.
LEMMA OthersHold ==
  ASSUME TInv, NEW p \in Procs, Request(p) \/ Step(p) \/ Crash(p),
         NEW q \in Procs, q # p, BusyHolder(q), StagedErase(q)
  PROVE  BusyHolder(q)' /\ StagedErase(q)'
<1>1. pc'[q] = pc[q] /\ job'[q] = job[q] /\ DbStep(p)
  BY OthersStay, EveryStepIsDbStep
<1>2. q # NoProc
  BY ProcsAssumption
<1>3. lock'[LedgerFile] = q <=> lock[LedgerFile] = q
  BY <1>1, <1>2 DEF DbStep, LedgerKept, LedgerStaged, LedgerEnded
<1>4. lock'[RegistryFile] = q <=> lock[RegistryFile] = q
  BY <1>1, <1>2 DEF DbStep, RegistryKept, RegistryStaged, RegistryEnded
<1>5. lock[LedgerFile] = q => draft'.erases = draft.erases
  BY <1>1, <1>2 DEF DbStep, LedgerKept, LedgerStaged, LedgerEnded
<1> QED BY <1>1, <1>3, <1>4, <1>5 DEF BusyHolder, StagedErase

\* An idle process holds no ledger.
LEMMA IdleHoldsNoLedger ==
  ASSUME NEW p \in Procs, BusyHolder(p), pc[p] = "idle"
  PROVE  lock[LedgerFile] # p
BY StagesApart DEF BusyHolder

\* Nothing follows the only item.
LEMMA AtMostOne ==
  ASSUME NEW S, NEW s \in Seq(S), s # <<>>, Len(s) <= 1
  PROVE  Tail(s) = <<>>
<1>1. Tail(s) \in Seq(S) /\ Len(Tail(s)) = Len(s) - 1 /\ Len(s) \in Nat
  BY HeadTailProperties
<1>2. Len(Tail(s)) \in Nat
  BY <1>1
<1>3. Len(Tail(s)) = 0
  BY <1>1, <1>2
<1> QED BY <1>1, <1>3, EmptySeq

\* p holds the ledger only while it is busy, and keeps its erase staged.
LEMMA HoldingGoesOn ==
  ASSUME TInv, CleanErases, NEW p \in Procs, Request(p) \/ Step(p) \/ Crash(p),
         BusyHolder(p), StagedErase(p)
  PROVE  BusyHolder(p)' /\ StagedErase(p)'
<1>1. /\ pc \in [Procs -> Labels] /\ job \in [Procs -> Jobs] /\ CallOf(pc[p], job[p])
      /\ DbType /\ TablesType(draft)
  BY DEF TInv, CallType, DbType
<1>2. p # NoProc
  BY ProcsAssumption
<1>3. Shared => RegistryFile = LedgerFile
  BY TwoFiles
<1> HIDE DEF RegistryFile, LedgerFile
<1>4. ASSUME pc'[p] = "idle", lock'[LedgerFile] # p
      PROVE  BusyHolder(p)' /\ StagedErase(p)'
  BY <1>4, StagesApart DEF BusyHolder, StagedErase
<1>5. ASSUME NEW put \in Puts, BeginPut(p, put)
      PROVE  BusyHolder(p)' /\ StagedErase(p)'
  <2>1. /\ pc[p] = "idle" /\ pc'[p] = "look" /\ lock' = lock
        /\ job'[p].items = put.items /\ job'[p].many = put.many
    BY <1>1, <1>5 DEF BeginPut, Begin, db
  <2>2. lock[LedgerFile] # p
    BY <2>1, IdleHoldsNoLedger
  <2>3. ~put.many => Len(put.items) <= 1
    BY PutsAssumption
  <2> QED BY <1>3, <2>1, <2>2, <2>3, StagesApart DEF BusyHolder, StagedErase
<1>6. ASSUME NEW x \in Candidates, BeginErase(p, x)
      PROVE  BusyHolder(p)' /\ StagedErase(p)'
  <2>1. pc[p] = "idle" /\ pc'[p] = FirstStage /\ lock' = lock
    BY <1>1, <1>6 DEF BeginErase, Begin, db
  <2>2. lock[LedgerFile] # p
    BY <2>1, IdleHoldsNoLedger
  <2>3. FirstStage \in EraseStages /\ FirstStage \notin Applied
    BY DEF FirstStage, EraseStages, Applied
  <2> QED BY <2>1, <2>2, <2>3 DEF BusyHolder, StagedErase, EraseStages
<1>7. ASSUME NEW x \in Candidates, EraseAgain(p, x)
      PROVE  BusyHolder(p)' /\ StagedErase(p)'
  BY <1>7 DEF EraseAgain, BusyHolder, StagedErase, db
<1>8. ASSUME pc[p] \in {"look", "store"}, job[p].items \in Seq(Item), job[p].items # <<>>,
             pc'[p] = "look", job'[p].items = Tail(job[p].items),
             job'[p].many = job[p].many,
             lock'[LedgerFile] = p /\ ~Shared => lock[LedgerFile] = p
      PROVE  BusyHolder(p)' /\ StagedErase(p)'
  <2>1. ~job[p].many => Tail(job[p].items) = <<>>
    BY <1>8, AtMostOne DEF BusyHolder
  <2>2. pc[p] \notin Applied /\ pc'[p] \notin Applied
    BY <1>8, StagesApart
  <2>3. Len(<<>>) <= 1
    OBVIOUS
  <2> QED BY <1>8, <2>1, <2>2, <2>3 DEF BusyHolder, StagedErase
<1>9. CASE PutLook(p)
  <2>1. /\ pc[p] = "look" /\ job[p] \in PutJob /\ job[p].items # <<>> /\ lock' = lock
    BY <1>1, <1>9 DEF PutLook, At, CallOf, db
  <2>2. CASE UNCHANGED pc /\ job' = [job EXCEPT ![p].items = Tail(@)]
    BY <1>1, <1>8, <2>1, <2>2 DEF PutJob
  <2>3. CASE pc' = [pc EXCEPT ![p] = "store"] /\ UNCHANGED job
    BY <1>1, <2>1, <2>3, StagesApart DEF BusyHolder, StagedErase
  <2> QED BY <1>9, <2>2, <2>3 DEF PutLook, Goto
<1>10. CASE PutStore(p)
  <2>1. /\ pc[p] = "store" /\ job[p] \in PutJob /\ job[p].items # <<>>
        /\ pc' = [pc EXCEPT ![p] = "look"] /\ job' = [job EXCEPT ![p].items = Tail(@)]
    BY <1>1, <1>10 DEF PutStore, At, CallOf, Goto
  <2>2. ~Shared => LedgerKept
    BY <1>1, <1>10, WritingSteps DEF InRegistry
  <2> QED BY <1>1, <1>8, <2>1, <2>2 DEF LedgerKept, PutJob
<1>11. CASE CiteRefs(p)
  <2>1. /\ pc[p] = "cite" /\ pc'[p] = "unref" /\ lock' = lock /\ draft' = draft
        /\ job[p] \in EraseJob /\ job'[p].cand = job[p].cand
    BY <1>1, <1>11, NextStage
       DEF CiteRefs, At, Advance, Goto, db, CallOf, EraseStages, EraseJob
  <2> QED BY <2>1 DEF BusyHolder, StagedErase, Applied
<1>12. CASE Cascade(p)
  <2>1. /\ pc[p] = "unref" /\ pc'[p] = IF Shared THEN "audit" ELSE "apply"
        /\ job[p] \in EraseJob /\ job'[p].cand = job[p].cand
    BY <1>1, <1>12, NextStage
       DEF Cascade, At, Advance, Goto, CallOf, EraseStages, EraseJob
  <2>2. IF Shared THEN LedgerStaged(p, draft.erases, draft.redacts) ELSE LedgerKept
    BY <1>1, <1>12, WritingSteps DEF InRegistry
  <2> QED BY <2>1, <2>2 DEF BusyHolder, StagedErase, Applied, LedgerStaged, LedgerKept
<1>13. CASE ApplyErase(p)
  <2>1. /\ pc[p] = "apply" /\ pc'[p] = IF Shared THEN "cite" ELSE "audit"
        /\ job[p].cand \in Candidates /\ job' = job
    BY <1>1, <1>13, NextStage
       DEF ApplyErase, At, Advance, Goto, CallOf, EraseStages, EraseJob
  <2>2. LedgerStaged(p, [draft.erases EXCEPT ![job[p].cand] = @ + 1], draft.redacts)
    BY <1>1, <1>13, WritingSteps DEF InLedger
  <2>3. draft'.erases[job[p].cand] > 0
    BY <1>1, <2>1, <2>2 DEF LedgerStaged, TablesType
  <2> QED BY <2>1, <2>2, <2>3 DEF BusyHolder, StagedErase, Applied, LedgerStaged
<1>14. CASE Audit(p)
  <2>1. pc[p] = "audit" /\ pc'[p] \in Applied \ {"look", "store"} /\ job' = job
        /\ pc[p] \in Applied
    BY <1>1, <1>14, NextStage DEF Audit, At, Advance, Goto, Applied
  <2>2. LedgerStaged(p, draft.erases, draft.redacts \cup ({job[p].cand} \X job[p].redacted))
    BY <1>1, <1>14, WritingSteps DEF InLedger
  <2> QED BY <2>1, <2>2, StagesApart DEF BusyHolder, StagedErase, LedgerStaged
<1>15. CASE PutCommit(p)
  <2>1. pc[p] = "look" /\ pc'[p] = "idle" /\ Commit(p, RegistryFile)
    BY <1>1, <1>15 DEF PutCommit, At, End
  <2>2. ~Shared => lock[LedgerFile] # p
    BY <2>1, StagesApart DEF BusyHolder
  <2>3. lock'[LedgerFile] # p
    BY <1>1, <1>2, <1>3, <2>1, <2>2, CommitOfRegistry DEF LedgerKept, LedgerEnded
  <2> QED BY <1>4, <2>1, <2>3
<1>16. CASE CommitRegistry(p)
  <2>1. /\ pc[p] = "commit_registry" /\ ~Shared /\ pc'[p] = "commit" /\ job' = job
        /\ Commit(p, RegistryFile)
    BY <1>1, <1>16, NextStage DEF CommitRegistry, At, Advance, Goto, CallOf
  <2>2. LedgerKept
    BY <1>1, <2>1, CommitOfRegistry
  <2> QED BY <2>1, <2>2 DEF BusyHolder, StagedErase, Applied, LedgerKept
<1>17. CASE CommitErase(p)
  <2>1. pc'[p] = "idle" /\ Commit(p, LedgerFile)
    BY <1>1, <1>17 DEF CommitErase, EndErase, End
  <2>2. lock'[LedgerFile] # p
    BY <1>1, <1>2, <2>1, CommitOfLedger DEF LedgerKept, LedgerEnded
  <2> QED BY <1>4, <2>1, <2>2
<1>18. CASE Cites(p)
  <2>1. PICK x \in Candidates, cited \in SUBSET Evidence :
          \/ AddRefs(p, x, cited)
          \/ "open" \in CommitFaults /\ AddRefsCommitFails(p, x, cited, "open")
    BY <1>18 DEF Cites
  <2>2. pc[p] = "idle" /\ pc' = pc
    BY <2>1 DEF AddRefs, AddRefsCommitFails, At
  <2>3. lock[LedgerFile] # p
    BY <2>2, IdleHoldsNoLedger
  <2>4. CASE AddRefs(p, x, cited)
    <3>1. IF Shared THEN LedgerEnded(p, draft.erases, draft.redacts) ELSE LedgerKept
      BY <1>1, <2>4, WritingSteps
    <3> QED BY <1>2, <1>4, <2>2, <2>3, <3>1 DEF LedgerEnded, LedgerKept
  <2>5. CASE "open" \in CommitFaults /\ AddRefsCommitFails(p, x, cited, "open")
    <3>1. ~Shared
      BY <2>5 DEF CleanErases
    <3>2. LedgerKept
      BY <1>1, <2>5, <3>1, WritingSteps DEF InRegistry
    <3> QED BY <1>4, <2>2, <2>3, <3>2 DEF LedgerKept
  <2> QED BY <2>1, <2>4, <2>5
<1>19. CASE Fails(p)
  <2>1. GivesUp(p)
    BY <1>19, FailuresGiveUp
  <2> QED BY <1>1, <1>4, <2>1 DEF GivesUp
<1> QED BY <1>5, <1>6, <1>7, <1>9, <1>10, <1>11, <1>12, <1>13, <1>14, <1>15, <1>16, <1>17,
           <1>18, <1>19, StepKinds

\* Without a cascade of p in the registry's transaction, p sees no redaction
\* that is not committed.
LEMMA NothingPending ==
  ASSUME DbType, RedactionIsHeld, NEW p \in Procs, pc[p] \notin Cascaded,
         lock[RegistryFile] \in {NoProc, p}
  PROVE  \A e \in Evidence : draft.evid[e] = "redacted" => store.evid[e] = "redacted"
<1> HIDE DEF RegistryFile, LedgerFile
<1> QED BY DEF DbType, RedactionIsHeld

\* Redactions that are not committed stay with the erase that made them, of
\* evidence nobody cites.
LEMMA RedactionStaysHeld ==
  ASSUME TInv, CleanErases, RedactionIsHeld, NEW p \in Procs, BusyHolder(p),
         Request(p) \/ Step(p) \/ Crash(p)
  PROVE  RedactionIsHeld'
<1>1. /\ pc \in [Procs -> Labels] /\ job \in [Procs -> Jobs] /\ CallOf(pc[p], job[p])
      /\ DbType /\ TablesType(draft)
  BY DEF TInv, CallType, DbType
<1>2. p # NoProc
  BY ProcsAssumption
<1>3. \A q \in Procs : q # p => pc'[q] = pc[q]
  BY OthersStay
<1> HIDE DEF RegistryFile, LedgerFile
<1>4. \* nothing pending in the draft
      ASSUME \A e \in Evidence : draft'.evid[e] = "redacted" => store'.evid[e] = "redacted"
      PROVE  RedactionIsHeld'
  BY <1>4 DEF RedactionIsHeld
<1>5. \* the registry's half is left alone
      ASSUME RegistryKept, pc[p] \in Cascaded /\ lock[RegistryFile] = p => pc'[p] \in Cascaded
      PROVE  RedactionIsHeld'
  BY <1>3, <1>5 DEF RegistryKept, RedactionIsHeld
<1>6. \* its transaction ends
      ASSUME NEW evid, NEW refs, RegistryEnded(p, evid, refs)
      PROVE  RedactionIsHeld'
  BY <1>4, <1>6 DEF RegistryEnded
<1>7. \* p writes to it, and no text goes
      ASSUME NEW evid, NEW refs, RegistryStaged(p, evid, refs), pc[p] \notin Cascaded,
             \A e \in Evidence : evid[e] = "redacted" => draft.evid[e] = "redacted"
      PROVE  RedactionIsHeld'
  <2>1. \A e \in Evidence : draft.evid[e] = "redacted" => store.evid[e] = "redacted"
    BY <1>1, <1>7, NothingPending DEF RegistryStaged
  <2> QED BY <1>4, <1>7, <2>1 DEF RegistryStaged
<1>8. ASSUME UNCHANGED db, pc[p] \notin Cascaded
      PROVE  RedactionIsHeld'
  BY <1>1, <1>5, <1>8, NothingHappens
<1>9. CASE \/ \E put \in Puts : BeginPut(p, put)
           \/ \E x \in Candidates : BeginErase(p, x) \/ EraseAgain(p, x)
           \/ PutLook(p) \/ CiteRefs(p)
  <2>1. UNCHANGED db /\ pc[p] \in {"idle", "look", "cite"}
    BY <1>9 DEF BeginPut, BeginErase, EraseAgain, PutLook, CiteRefs, Begin, At
  <2> QED BY <1>8, <2>1 DEF Cascaded
<1>10. CASE PutStore(p)
  <2>1. pc[p] = "store" /\ job[p].items \in Seq(Item) /\ job[p].items # <<>>
    BY <1>1, <1>10 DEF PutStore, At, CallOf, PutJob
  <2>2. Head(job[p].items) \in Item
    BY <2>1, HeadTailProperties
  <2>3. RegistryStaged(p, Stored(draft.evid, Head(job[p].items)), draft.refs)
    BY <1>1, <1>10, WritingSteps DEF InRegistry
  <2>4. \A e \in Evidence : Stored(draft.evid, Head(job[p].items))[e] = "redacted" =>
                              draft.evid[e] = "redacted"
    BY <1>1, <2>2 DEF Stored, Item, Forms, TablesType
  <2> QED BY <1>7, <2>1, <2>3, <2>4 DEF Cascaded
<1>11. CASE Cascade(p)
  <2>1. pc[p] = "unref" /\ pc'[p] \in Cascaded
    BY <1>1, <1>11, NextStage DEF Cascade, At, Advance, Goto, Cascaded
  <2>2. RegistryStaged(p, Redacted(draft.evid, OrphansOf(p)), LeftBy(p))
    BY <1>1, <1>11, WritingSteps DEF InRegistry
  <2>3. \A e \in Evidence : draft.evid[e] = "redacted" => store.evid[e] = "redacted"
    BY <1>1, <2>1, <2>2, NothingPending DEF RegistryStaged, Cascaded
  <2> SUFFICES ASSUME NEW e \in Evidence, draft'.evid[e] = "redacted",
                      store'.evid[e] # "redacted"
               PROVE  /\ e \in Orphans(draft'.refs, Evidence)
                      /\ \A q \in Procs : lock'[RegistryFile] = q => pc'[q] \in Cascaded
    BY DEF RedactionIsHeld
  <2>4. draft.evid[e] # "redacted"
    BY <2>2, <2>3 DEF RegistryStaged
  <2>5. e \in OrphansOf(p)
    BY <2>2, <2>4 DEF RegistryStaged, Redacted, Redactable
  <2>6. e \in Orphans(LeftBy(p), Evidence)
    BY <2>5 DEF OrphansOf, Orphans
  <2> QED BY <2>1, <2>2, <2>6 DEF RegistryStaged
<1>12. CASE ApplyErase(p)
  <2>1. pc[p] = "apply" /\ (~Shared => pc'[p] \in Cascaded)
    BY <1>1, <1>12, NextStage DEF ApplyErase, At, Advance, Goto, Cascaded
  <2>2. IF Shared THEN RegistryStaged(p, draft.evid, draft.refs) ELSE RegistryKept
    BY <1>1, <1>12, WritingSteps DEF InLedger
  <2> QED BY <1>5, <1>7, <2>1, <2>2 DEF Cascaded
<1>13. CASE Audit(p)
  <2>1. pc[p] = "audit" /\ pc'[p] \in Cascaded
    BY <1>1, <1>13, NextStage DEF Audit, At, Advance, Goto, Cascaded
  <2>2. IF Shared THEN RegistryStaged(p, draft.evid, draft.refs) ELSE RegistryKept
    BY <1>1, <1>13, WritingSteps DEF InLedger
  <2>3. CASE Shared
    <3>1. RegistryStaged(p, draft.evid, draft.refs)
      BY <2>2, <2>3
    <3>2. \A e \in Evidence :
            draft.evid[e] = "redacted" /\ store.evid[e] # "redacted" =>
              e \in Orphans(draft.refs, Evidence)
      BY DEF RedactionIsHeld
    <3> QED BY <2>1, <3>1, <3>2 DEF RegistryStaged, RedactionIsHeld
  <2> QED BY <1>5, <2>1, <2>2, <2>3
<1>14. CASE PutCommit(p) \/ CommitRegistry(p)
  <2>1. Commit(p, RegistryFile)
    BY <1>14 DEF PutCommit, CommitRegistry
  <2> QED BY <1>1, <1>5, <1>6, <2>1, CommitOfRegistry
<1>15. CASE CommitErase(p)
  <2>1. pc[p] = "commit" /\ Commit(p, LedgerFile)
    BY <1>15 DEF CommitErase, At
  <2>2. CASE lock[LedgerFile] = p /\ Shared
    BY <1>1, <1>6, <2>1, <2>2, CommitOfLedger
  <2>3. CASE lock[LedgerFile] # p \/ ~Shared
    <3>1. RegistryKept
      BY <1>1, <2>1, <2>3, CommitOfLedger
    <3>2. pc[p] \in Cascaded => lock[RegistryFile] # p
      BY <2>1, <2>3, TwoFiles, StagesApart
    <3> QED BY <1>5, <3>1, <3>2
  <2> QED BY <2>2, <2>3
<1>16. CASE Cites(p)
  <2>1. PICK x \in Candidates, cited \in SUBSET Evidence :
          \/ AddRefs(p, x, cited)
          \/ "open" \in CommitFaults /\ AddRefsCommitFails(p, x, cited, "open")
    BY <1>16 DEF Cites
  <2>2. pc[p] \notin Cascaded
    BY <2>1, StagesApart DEF AddRefs, AddRefsCommitFails, At
  <2>3. CASE AddRefs(p, x, cited)
    BY <1>1, <1>6, <2>3, WritingSteps
  <2>4. CASE AddRefsCommitFails(p, x, cited, "open")
    <3>1. RegistryStaged(p, draft.evid, WithRefs(draft.refs, x, cited))
      BY <1>1, <2>4, WritingSteps DEF InRegistry
    <3> QED BY <1>7, <2>2, <3>1
  <2> QED BY <2>1, <2>3, <2>4
<1>17. CASE Fails(p)
  <2>1. GivesUp(p)
    BY <1>17, FailuresGiveUp
  <2>2. CASE RegistryKept
    <3>1. pc[p] \in Cascaded => lock[RegistryFile] # p
      BY <2>1, <2>2 DEF GivesUp, RegistryKept
    <3> QED BY <1>5, <2>2, <3>1
  <2>3. CASE RegistryEnded(p, store.evid, store.refs)
    BY <1>6, <2>3
  <2> QED BY <2>1, <2>2, <2>3 DEF GivesUp
<1> QED BY <1>9, <1>10, <1>11, <1>12, <1>13, <1>14, <1>15, <1>16, <1>17, StepKinds

\* The ledger's half of a step: left alone, written to, published or dropped.
LEMMA LedgerOfStep ==
  ASSUME TInv, NEW p \in Procs, CleanErases => BusyHolder(p),
         Request(p) \/ Step(p) \/ Crash(p)
  PROVE  \/ LedgerKept
         \/ LedgerStaged(p, draft.erases, draft.redacts)
         \/ /\ ApplyErase(p)
            /\ LedgerStaged(p, [draft.erases EXCEPT ![job[p].cand] = @ + 1], draft.redacts)
         \/ /\ Audit(p)
            /\ LedgerStaged(p, draft.erases,
                            draft.redacts \cup ({job[p].cand} \X job[p].redacted))
         \/ /\ CommitErase(p) \/ (Shared /\ pc[p] \notin Applied)
            /\ LedgerEnded(p, draft.erases, draft.redacts)
         \/ Fails(p) /\ LedgerEnded(p, store.erases, store.redacts)
<1>1. DbType
  BY DEF TInv
<1>2. CASE UNCHANGED db
  BY <1>1, <1>2, NothingHappens
<1>3. CASE PutStore(p) \/ Cascade(p)
  BY <1>1, <1>3, WritingSteps DEF InRegistry
<1>4. CASE ApplyErase(p) \/ Audit(p)
  BY <1>1, <1>4, WritingSteps DEF InLedger
<1>5. CASE PutCommit(p)
  <2>1. Commit(p, RegistryFile) /\ pc[p] \notin Applied
    BY <1>5, StagesApart DEF PutCommit, At
  <2> QED BY <1>1, <2>1, CommitOfRegistry
<1>6. CASE CommitRegistry(p)
  <2>1. Commit(p, RegistryFile) /\ ~Shared
    BY <1>6 DEF CommitRegistry, At, TInv, CallType, CallOf
  <2> QED BY <1>1, <2>1, CommitOfRegistry
<1>7. CASE CommitErase(p)
  <2>1. Commit(p, LedgerFile)
    BY <1>7 DEF CommitErase
  <2> QED BY <1>1, <1>7, <2>1, CommitOfLedger
<1>8. CASE Cites(p)
  <2>1. PICK x \in Candidates, cited \in SUBSET Evidence :
          \/ AddRefs(p, x, cited)
          \/ "open" \in CommitFaults /\ AddRefsCommitFails(p, x, cited, "open")
    BY <1>8 DEF Cites
  <2>2. pc[p] \notin Applied
    BY <2>1, StagesApart DEF AddRefs, AddRefsCommitFails, At
  <2> QED BY <1>1, <2>1, <2>2, WritingSteps DEF InRegistry
<1>9. CASE Fails(p)
  BY <1>9, FailuresGiveUp DEF GivesUp
<1> QED BY <1>2, <1>3, <1>4, <1>5, <1>6, <1>7, <1>8, <1>9, StepKinds
        DEF BeginPut, BeginErase, EraseAgain, PutLook, CiteRefs

\* Erase records only accumulate, in what is committed and in the drafts.
LEMMA ErasesAccumulate ==
  ASSUME TInv, TInv', NEW p \in Procs, CleanErases => BusyHolder(p),
         Request(p) \/ Step(p) \/ Crash(p),
         \A x \in Candidates : store.erases[x] <= draft.erases[x]
  PROVE  \A x \in Candidates : /\ store'.erases[x] <= draft'.erases[x]
                               /\ store.erases[x] <= store'.erases[x]
<1>1. /\ store.erases \in [Candidates -> Nat] /\ draft.erases \in [Candidates -> Nat]
      /\ store'.erases \in [Candidates -> Nat] /\ draft'.erases \in [Candidates -> Nat]
  BY DEF TInv, DbType, TablesType
<1>2. CASE LedgerKept
  BY <1>1, <1>2 DEF LedgerKept
<1>3. CASE \E redacts : LedgerStaged(p, draft.erases, redacts)
  BY <1>1, <1>3 DEF LedgerStaged
<1>4. CASE LedgerStaged(p, [draft.erases EXCEPT ![job[p].cand] = @ + 1], draft.redacts)
  BY <1>1, <1>4 DEF LedgerStaged
<1>5. CASE \/ LedgerEnded(p, draft.erases, draft.redacts)
           \/ LedgerEnded(p, store.erases, store.redacts)
  BY <1>1, <1>5 DEF LedgerEnded
<1> QED BY <1>2, <1>3, <1>4, <1>5, LedgerOfStep

\* erase() says it is done when the record is committed.
LEMMA ReportsAreTrue ==
  ASSUME TInv, TInv', CleanErases, HeldInv, NEW p \in Procs,
         Request(p) \/ Step(p) \/ Crash(p)
  PROVE  ReportedErased'
<1>1. BusyHolder(p) /\ StagedErase(p) /\ ReportedErased
  BY DEF HeldInv
<1>2. /\ pc \in [Procs -> Labels] /\ job \in [Procs -> Jobs] /\ CallOf(pc[p], job[p])
      /\ DbType /\ told \in [Candidates -> {"none", "erased", "raised", "incomplete"}]
  BY DEF TInv, CallType, ReportType
<1>3. \A x \in Candidates : /\ store.erases[x] \in Nat /\ store'.erases[x] \in Nat
                            /\ store.erases[x] <= store'.erases[x]
  BY <1>1, ErasesAccumulate DEF TInv, DbType, TablesType, HeldInv
<1>4. CASE \A x \in Candidates : told'[x] = "erased" => told[x] = "erased"
  BY <1>1, <1>3, <1>4 DEF ReportedErased
<1>5. ASSUME NEW x \in Candidates, EraseAgain(p, x)
      PROVE  ReportedErased'
  <2>1. lock[LedgerFile] # p
    BY <1>1, <1>5, IdleHoldsNoLedger DEF EraseAgain, At
  <2>2. View(p).erases = store.erases
    BY <2>1 DEF View, Held, Merge
  <2> QED BY <1>1, <1>2, <1>5, <2>2 DEF EraseAgain, ReportedErased, db
<1>6. CASE CommitErase(p)
  <2>1. /\ pc[p] = "commit" /\ Commit(p, LedgerFile)
        /\ told' = [told EXCEPT ![job[p].cand] = "erased"]
    BY <1>6 DEF CommitErase, EndErase, At
  <2>2. pc[p] \in Applied
    BY <2>1 DEF Applied
  <2>3. lock[LedgerFile] = p /\ draft.erases[job[p].cand] > 0
    BY <1>1, <2>2 DEF StagedErase
  <2>4. LedgerEnded(p, draft.erases, draft.redacts)
    BY <1>2, <2>1, <2>3, CommitOfLedger
  <2>5. store'.erases[job[p].cand] > 0
    BY <2>3, <2>4 DEF LedgerEnded
  <2> QED BY <1>1, <1>2, <1>3, <2>1, <2>5 DEF ReportedErased
<1>7. CASE Fails(p)
  <2>1. GivesUp(p)
    BY <1>1, <1>7, FailuresGiveUp
  <2> QED BY <1>2, <1>4, <2>1 DEF GivesUp
<1>8. CASE UNCHANGED told
  BY <1>4, <1>8
<1> QED BY <1>5, <1>6, <1>7, <1>8, StepKinds
        DEF BeginPut, BeginErase, PutLook, PutStore, PutCommit, CiteRefs, Cascade,
            ApplyErase, Audit, CommitRegistry, Cites, AddRefs, AddRefsCommitFails

\* What holds of transactions, and what is reported, survives every step.
LEMMA HeldGood ==
  ASSUME CleanErases, TInv, HeldInv, [Next]_vars
  PROVE  HeldInv'
<1>1. TInv'
  BY NextTyped
<1>2. ASSUME NEW p \in Procs, Request(p) \/ Step(p) \/ Crash(p)
      PROVE  HeldInv'
  <2>1. \A q \in Procs : BusyHolder(q)' /\ StagedErase(q)'
    BY <1>2, HoldingGoesOn, OthersHold DEF HeldInv
  <2>2. RedactionIsHeld'
    BY <1>2, RedactionStaysHeld DEF HeldInv
  <2>3. \A x \in Candidates : store'.erases[x] <= draft'.erases[x]
    BY <1>1, <1>2, ErasesAccumulate DEF HeldInv
  <2>4. ReportedErased'
    BY <1>1, <1>2, ReportsAreTrue
  <2> QED BY <2>1, <2>2, <2>3, <2>4 DEF HeldInv
<1>3. CASE UNCHANGED vars
  BY <1>3 DEF vars, db, HeldInv, BusyHolder, StagedErase, RedactionIsHeld, ReportedErased
<1> QED BY <1>2, <1>3 DEF Next

\* So they hold always.
LEMMA HeldAlways ==
  ASSUME CleanErases
  PROVE  Spec => []HeldInv
<1>1. Init => HeldInv
  <2> SUFFICES ASSUME Init PROVE HeldInv
    OBVIOUS
  <2>1. /\ store.evid = [e \in Evidence |-> "missing"]
        /\ store.erases = [x \in Candidates |-> 0] /\ draft = store
    BY DEF Init
  <2>2. \A p \in Procs : /\ pc[p] = "idle" /\ p # NoProc
                         /\ lock[LedgerFile] # p /\ lock[RegistryFile] # p
    BY ProcsAssumption, TwoFiles DEF Init
  <2>3. \A p \in Procs : BusyHolder(p) /\ StagedErase(p)
    BY <2>2, StagesApart DEF BusyHolder, StagedErase
  <2>4. \A x \in Candidates : store.erases[x] <= draft.erases[x]
    BY <2>1
  <2>5. ReportedErased
    BY DEF Init, ReportedErased
  <2> QED BY <2>1, <2>3, <2>4, <2>5 DEF HeldInv, RedactionIsHeld
<1>2. TInv /\ HeldInv /\ [Next]_vars => HeldInv'
  BY HeldGood
<1> QED BY <1>1, <1>2, TypedAlways, PTL DEF Spec

\* What erase() reported as done is on record and stays so, whichever process
\* runs, fails or dies afterwards; unless a shared connection's failed COMMIT
\* can stay open.
THEOREM ReportedErasesLast ==
  ASSUME CleanErases
  PROVE  Spec => []ReportedErased
<1>1. HeldInv => ReportedErased
  BY DEF HeldInv
<1> QED BY <1>1, HeldAlways, PTL

\* Evidence is redacted only by a commit that leaves nobody citing it,
\* whatever other processes cite, store or erase meanwhile.
THEOREM CitedEvidenceSurvives ==
  ASSUME CleanErases
  PROVE  Spec => SharedEvidenceSurvives
<1>1. TInv /\ HeldInv /\ [Next]_vars =>
        [\A e \in Evidence :
           store.evid[e] # "redacted" /\ store'.evid[e] = "redacted" =>
             e \in Orphans(store'.refs, Evidence)]_vars
  <2> SUFFICES ASSUME TInv, HeldInv, NEW p \in Procs, Request(p) \/ Step(p) \/ Crash(p),
                      NEW e \in Evidence,
                      store.evid[e] # "redacted", store'.evid[e] = "redacted"
               PROVE  e \in Orphans(store'.refs, Evidence)
    BY DEF Next
  <2>1. DbType /\ BusyHolder(p) /\ RedactionIsHeld
    BY DEF TInv, HeldInv
  <2>2. CASE \/ RegistryKept
             \/ \E evid, refs : RegistryStaged(p, evid, refs)
             \/ RegistryEnded(p, store.evid, store.refs)
    BY <2>2 DEF RegistryKept, RegistryStaged, RegistryEnded
  <2>3. CASE RegistryEnded(p, draft.evid, draft.refs)
    BY <2>1, <2>3 DEF RegistryEnded, RedactionIsHeld
  <2>4. CASE UNCHANGED db
    BY <2>1, <2>2, <2>4, NothingHappens
  <2>5. CASE PutStore(p) \/ Cascade(p)
    BY <2>1, <2>2, <2>5, WritingSteps DEF InRegistry
  <2>6. CASE ApplyErase(p) \/ Audit(p)
    BY <2>1, <2>2, <2>6, WritingSteps DEF InLedger
  <2>7. CASE PutCommit(p) \/ CommitRegistry(p)
    <3>1. Commit(p, RegistryFile)
      BY <2>7 DEF PutCommit, CommitRegistry
    <3> QED BY <2>1, <2>2, <2>3, <3>1, CommitOfRegistry
  <2>8. CASE CommitErase(p)
    <3>1. Commit(p, LedgerFile)
      BY <2>8 DEF CommitErase
    <3> QED BY <2>1, <2>2, <2>3, <3>1, CommitOfLedger
  <2>9. CASE Cites(p)
    <3>1. PICK x \in Candidates, cited \in SUBSET Evidence :
            \/ AddRefs(p, x, cited)
            \/ "open" \in CommitFaults /\ AddRefsCommitFails(p, x, cited, "open")
      BY <2>9 DEF Cites
    <3>2. pc[p] \notin Cascaded
      BY <3>1, StagesApart DEF AddRefs, AddRefsCommitFails, At
    <3>3. CASE AddRefs(p, x, cited)
      <4>1. RegistryEnded(p, draft.evid, WithRefs(draft.refs, x, cited))
        BY <2>1, <3>3, WritingSteps
      <4>2. \A f \in Evidence : draft.evid[f] = "redacted" => store.evid[f] = "redacted"
        BY <2>1, <3>2, <4>1, NothingPending DEF RegistryEnded
      <4> QED BY <4>1, <4>2 DEF RegistryEnded
    <3>4. CASE AddRefsCommitFails(p, x, cited, "open")
      BY <2>1, <2>2, <3>4, WritingSteps DEF InRegistry
    <3> QED BY <3>1, <3>3, <3>4
  <2>10. CASE Fails(p)
    BY <2>1, <2>2, <2>10, FailuresGiveUp DEF GivesUp
  <2> QED BY <2>4, <2>5, <2>6, <2>7, <2>8, <2>9, <2>10, StepKinds
          DEF BeginPut, BeginErase, EraseAgain, PutLook, CiteRefs
<1> QED BY <1>1, TypedAlways, HeldAlways, PTL DEF Spec, SharedEvidenceSurvives

-----------------------------------------------------------------------------
(* One process *)

\* Nobody else has a lock, so what p sees are the drafts.
LEMMA SeesDrafts ==
  ASSUME OneProcess, DbType, NEW p \in Procs
  PROVE  /\ lock[RegistryFile] \in {NoProc, p} /\ lock[LedgerFile] \in {NoProc, p}
         /\ View(p).evid = draft.evid /\ View(p).refs = draft.refs
         /\ View(p).erases = draft.erases /\ View(p).redacts = draft.redacts
<1>1. lock \in [Files -> {NoProc, p}]
  BY DEF DbType, OneProcess
<1>2. lock[RegistryFile] \in {NoProc, p} /\ lock[LedgerFile] \in {NoProc, p}
  BY <1>1, TwoFiles
<1>3. /\ RegistryFile \in Held(p) <=> lock[RegistryFile] = p
      /\ LedgerFile \in Held(p) <=> lock[LedgerFile] = p
  BY TwoFiles DEF Held
<1> HIDE DEF RegistryFile, LedgerFile
<1> QED BY <1>2, <1>3 DEF DbType, View, Merge

\* The registry's half of a step.
LEMMA RegistryOfStep ==
  ASSUME TInv, NEW p \in Procs, CleanErases => BusyHolder(p),
         Request(p) \/ Step(p) \/ Crash(p)
  PROVE  \/ RegistryKept
         \/ RegistryStaged(p, draft.evid, draft.refs)
         \/ PutStore(p) /\ RegistryStaged(p, Stored(draft.evid, Head(job[p].items)), draft.refs)
         \/ Cascade(p) /\ RegistryStaged(p, Redacted(draft.evid, OrphansOf(p)), LeftBy(p))
         \/ \E refs : /\ Cites(p) /\ draft.refs \subseteq refs
                      /\ \/ RegistryStaged(p, draft.evid, refs)
                         \/ RegistryEnded(p, draft.evid, refs)
         \/ RegistryEnded(p, draft.evid, draft.refs)
         \/ Fails(p) /\ RegistryEnded(p, store.evid, store.refs)
<1>1. DbType
  BY DEF TInv
<1>2. CASE UNCHANGED db
  BY <1>1, <1>2, NothingHappens
<1>3. CASE PutStore(p) \/ Cascade(p)
  BY <1>1, <1>3, WritingSteps DEF InRegistry
<1>4. CASE ApplyErase(p) \/ Audit(p)
  BY <1>1, <1>4, WritingSteps DEF InLedger
<1>5. CASE PutCommit(p) \/ CommitRegistry(p)
  <2>1. Commit(p, RegistryFile)
    BY <1>5 DEF PutCommit, CommitRegistry
  <2> QED BY <1>1, <2>1, CommitOfRegistry
<1>6. CASE CommitErase(p)
  <2>1. Commit(p, LedgerFile)
    BY <1>6 DEF CommitErase
  <2> QED BY <1>1, <2>1, CommitOfLedger
<1>7. CASE Cites(p)
  <2>1. PICK x \in Candidates, cited \in SUBSET Evidence :
          \/ AddRefs(p, x, cited)
          \/ "open" \in CommitFaults /\ AddRefsCommitFails(p, x, cited, "open")
    BY <1>7 DEF Cites
  <2>2. draft.refs \subseteq WithRefs(draft.refs, x, cited)
    BY DEF WithRefs
  <2>3. \/ RegistryStaged(p, draft.evid, WithRefs(draft.refs, x, cited))
        \/ RegistryEnded(p, draft.evid, WithRefs(draft.refs, x, cited))
    BY <1>1, <2>1, WritingSteps DEF InRegistry
  <2> QED BY <1>7, <2>2, <2>3
<1>8. CASE Fails(p)
  BY <1>8, FailuresGiveUp DEF GivesUp
<1> QED BY <1>2, <1>3, <1>4, <1>5, <1>6, <1>7, <1>8, StepKinds
        DEF BeginPut, BeginErase, EraseAgain, PutLook, CiteRefs

\* The readings of the call under way stand.
LEMMA ReadingsGoOn ==
  ASSUME OneProcess, CleanErases, TInv, HeldInv, SerialInv, NEW p \in Procs,
         Request(p) \/ Step(p) \/ Crash(p)
  PROVE  ReadingsStand'
<1>1. /\ pc \in [Procs -> Labels] /\ job \in [Procs -> Jobs] /\ CallOf(pc[p], job[p])
      /\ DbType /\ \A x \in Candidates : /\ store.erases[x] \in Nat
                                         /\ store.erases[x] <= draft.erases[x]
  BY DEF TInv, CallType, DbType, TablesType, HeldInv
<1>2. /\ pc[p] \in EraseStages => store.erases[job[p].cand] = 0
      /\ pc[p] \in EraseStages \ Applied => draft.erases[job[p].cand] = 0
  BY DEF SerialInv, ReadingsStand
<1>3. ASSUME /\ pc'[p] = "store" => ~RowIsRedacted(draft'.evid, Head(job'[p].items).id)
             /\ pc'[p] = "unref" => job'[p].cited = CitedBy(draft'.refs, job'[p].cand)
             /\ pc'[p] \in EraseStages => store'.erases[job'[p].cand] = 0
             /\ pc'[p] \in EraseStages \ Applied => draft'.erases[job'[p].cand] = 0
      PROVE  ReadingsStand'
  BY <1>3 DEF ReadingsStand, OneProcess
<1>4. ASSUME pc'[p] \in {"idle", "look"}
      PROVE  ReadingsStand'
  BY <1>4, StagesApart DEF ReadingsStand, OneProcess
<1>5. CASE \/ \E put \in Puts : BeginPut(p, put)
           \/ \E x \in Candidates : EraseAgain(p, x)
           \/ PutStore(p) \/ PutCommit(p) \/ CommitErase(p) \/ Cites(p)
  <2>1. pc'[p] \in {"idle", "look"}
    BY <1>1, <1>5 DEF BeginPut, Begin, EraseAgain, PutStore, PutCommit, CommitErase,
                      EndErase, End, Goto, At, Cites, AddRefs, AddRefsCommitFails
  <2> QED BY <1>4, <2>1
<1>6. CASE Fails(p)
  <2>1. pc'[p] = "idle"
    BY <1>1, <1>6, FailuresGiveUp DEF GivesUp, HeldInv
  <2> QED BY <1>4, <2>1
<1>7. CASE PutLook(p)
  <2>1. CASE pc'[p] = "store"
    <3>1. /\ pc[p] = "look" /\ job' = job /\ draft' = draft
          /\ ~RowIsRedacted(View(p).evid, Head(job[p].items).id)
      BY <1>7, <2>1 DEF PutLook, At, db
    <3> QED BY <1>1, <1>3, <2>1, <3>1, SeesDrafts, StagesApart DEF EraseStages
  <2>2. CASE pc'[p] # "store"
    <3>1. pc'[p] = "look"
      BY <1>1, <1>7, <2>2 DEF PutLook, At, Goto
    <3> QED BY <1>4, <3>1
  <2> QED BY <2>1, <2>2
<1>8. ASSUME NEW x \in Candidates, BeginErase(p, x)
      PROVE  ReadingsStand'
  <2>1. /\ pc'[p] = FirstStage /\ job'[p].cand = x /\ store' = store /\ draft' = draft
        /\ View(p).erases[x] = 0
    BY <1>1, <1>8 DEF BeginErase, Begin, db
  <2>2. draft.erases[x] = 0
    BY <1>1, <2>1, SeesDrafts
  <2>3. store.erases[x] = 0
    BY <1>1, <2>2
  <2>4. FirstStage \notin {"store", "unref"}
    BY DEF FirstStage
  <2> QED BY <1>3, <2>1, <2>2, <2>3, <2>4
<1>9. CASE CiteRefs(p)
  <2>1. /\ pc[p] = "cite" /\ pc'[p] = "unref" /\ store' = store /\ draft' = draft
        /\ job[p] \in EraseJob
        /\ job' = [job EXCEPT ![p].cited = CitedBy(View(p).refs, job[p].cand)]
    BY <1>1, <1>9, NextStage DEF CiteRefs, At, Advance, Goto, db, CallOf, EraseStages
  <2>2. /\ job'[p].cand = job[p].cand
        /\ job'[p].cited = CitedBy(draft.refs, job[p].cand)
    BY <1>1, <2>1, SeesDrafts DEF EraseJob
  <2>3. "cite" \in Applied <=> "unref" \in Applied
    BY DEF Applied
  <2> QED BY <1>2, <1>3, <2>1, <2>2, <2>3 DEF EraseStages
<1>10. CASE Cascade(p)
  <2>1. /\ pc[p] = "unref" /\ pc'[p] = IF Shared THEN "audit" ELSE "apply"
        /\ job[p] \in EraseJob /\ job'[p].cand = job[p].cand
    BY <1>1, <1>10, NextStage
       DEF Cascade, At, Advance, Goto, CallOf, EraseStages, EraseJob
  <2>2. IF Shared THEN LedgerStaged(p, draft.erases, draft.redacts) ELSE LedgerKept
    BY <1>1, <1>10, WritingSteps DEF InRegistry
  <2> QED BY <1>2, <1>3, <2>1, <2>2 DEF EraseStages, Applied, LedgerStaged, LedgerKept
<1>11. CASE ApplyErase(p) \/ Audit(p) \/ CommitRegistry(p)
  <2>1. /\ pc[p] \in EraseStages /\ pc'[p] \in Applied \ {"store", "unref"}
        /\ job' = job /\ (CommitRegistry(p) => ~Shared)
    BY <1>1, <1>11, NextStage
       DEF ApplyErase, Audit, CommitRegistry, At, Advance, Goto, CallOf, EraseStages, Applied
  <2>2. store'.erases = store.erases
    <3>1. CASE ApplyErase(p) \/ Audit(p)
      BY <1>1, <3>1, WritingSteps DEF InLedger, LedgerStaged
    <3>2. CASE CommitRegistry(p)
      <4>1. LedgerKept
        BY <1>1, <2>1, <3>2, CommitOfRegistry DEF CommitRegistry
      <4> QED BY <4>1 DEF LedgerKept
    <3> QED BY <1>11, <3>1, <3>2
  <2> QED BY <1>2, <1>3, <2>1, <2>2
<1> QED BY <1>5, <1>6, <1>7, <1>8, <1>9, <1>10, <1>11, StepKinds

\* Between p's erases the two versions of the ledger agree.
LEMMA RecordsStayHeld ==
  ASSUME OneProcess, CleanErases, TInv, TInv', HeldInv, HeldInv', SerialInv,
         NEW p \in Procs, Request(p) \/ Step(p) \/ Crash(p)
  PROVE  RecordsAreHeld'
<1>1. /\ pc \in [Procs -> Labels] /\ job \in [Procs -> Jobs] /\ CallOf(pc[p], job[p])
      /\ DbType /\ DbType' /\ BusyHolder(p)'
      /\ store.erases \in [Candidates -> Nat] /\ draft.erases \in [Candidates -> Nat]
      /\ \A x \in Candidates : store.erases[x] <= draft.erases[x]
  BY DEF TInv, CallType, DbType, TablesType, HeldInv
<1>2. \A x \in Candidates :
        /\ draft.erases[x] <= 1
        /\ draft.erases[x] # store.erases[x] => pc[p] \in Applied /\ job[p].cand = x
  BY DEF SerialInv, RecordsAreHeld
<1>3. p # NoProc
  BY ProcsAssumption
<1>4. ASSUME \A x \in Candidates :
               /\ draft'.erases[x] <= 1
               /\ draft'.erases[x] # store'.erases[x] => pc'[p] \in Applied /\ job'[p].cand = x
      PROVE  RecordsAreHeld'
  BY <1>4 DEF RecordsAreHeld, OneProcess
<1>5. CASE ApplyErase(p)
  <2>1. /\ pc[p] = "apply" /\ pc'[p] \in Applied /\ job' = job /\ job[p].cand \in Candidates
        /\ pc[p] \in EraseStages \ Applied
    BY <1>1, <1>5, NextStage
       DEF ApplyErase, At, Advance, Goto, Applied, CallOf, EraseStages, EraseJob
  <2>2. LedgerStaged(p, [draft.erases EXCEPT ![job[p].cand] = @ + 1], draft.redacts)
    BY <1>1, <1>5, WritingSteps DEF InLedger
  <2>3. draft.erases[job[p].cand] = 0
    BY <2>1 DEF SerialInv, ReadingsStand
  <2>4. \A x \in Candidates : x # job[p].cand => draft.erases[x] = store.erases[x]
    BY <1>2
  <2> QED BY <1>1, <1>2, <1>4, <2>1, <2>2, <2>3, <2>4 DEF LedgerStaged
<1>6. CASE lock'[LedgerFile] # p
  <2>1. lock'[LedgerFile] = NoProc
    <3>1. DbStep(p)
      BY EveryStepIsDbStep
    <3>2. lock[LedgerFile] \in {NoProc, p}
      BY <1>1, SeesDrafts
    <3> QED BY <1>6, <3>1, <3>2 DEF DbStep, LedgerKept, LedgerStaged, LedgerEnded
  <2>2. draft'.erases = store'.erases
    BY <1>1, <2>1 DEF DbType
  <2>3. \A x \in Candidates : draft'.erases[x] <= 1
    <3>1. \/ draft'.erases = draft.erases \/ draft'.erases = store.erases
          \/ ApplyErase(p)
      BY LedgerOfStep DEF HeldInv, LedgerKept, LedgerStaged, LedgerEnded
    <3>2. \A x \in Candidates : store.erases[x] <= 1
      BY <1>1, <1>2
    <3>3. CASE ApplyErase(p)
      BY <1>5, <3>3 DEF RecordsAreHeld
    <3> QED BY <1>2, <3>1, <3>2, <3>3
  <2> QED BY <1>4, <2>2, <2>3
<1>7. CASE lock'[LedgerFile] = p /\ ~ApplyErase(p)
  <2>1. draft'.erases = draft.erases /\ store'.erases = store.erases
    BY <1>3, <1>7, LedgerOfStep DEF HeldInv, LedgerKept, LedgerStaged, LedgerEnded
  <2>2. CASE pc[p] \notin Applied
    BY <1>2, <1>4, <2>1, <2>2
  <2>3. CASE pc[p] \in Applied
    <3>1. pc'[p] \in Applied /\ job'[p].cand = job[p].cand
      <4>1. CASE CiteRefs(p) \/ Cascade(p) \/ Audit(p) \/ CommitRegistry(p)
        <5>1. /\ pc[p] \in {"cite", "unref", "audit", "commit_registry"}
              /\ job[p] \in EraseJob
              /\ pc' = [pc EXCEPT ![p] = StageAfter[pc[p]]]
          BY <1>1, <4>1 DEF CiteRefs, Cascade, Audit, CommitRegistry, At, Advance, Goto,
                            CallOf, EraseStages
        <5>2. pc'[p] \in Applied
          BY <1>1, <2>3, <5>1, NextStage DEF Applied
        <5>3. job'[p].cand = job[p].cand
          BY <1>1, <4>1, <5>1 DEF CiteRefs, Cascade, Audit, CommitRegistry, EraseJob
        <5> QED BY <5>2, <5>3
      <4>2. CASE Fails(p)
        BY <1>7, <4>2, FailuresGiveUp DEF GivesUp, HeldInv
      <4>3. CASE CommitErase(p)
        BY <1>1, <1>3, <1>7, <4>3, CommitOfLedger DEF CommitErase, LedgerEnded, LedgerKept
      <4>4. CASE \/ \E put \in Puts : BeginPut(p, put)
                 \/ \E x \in Candidates : BeginErase(p, x) \/ EraseAgain(p, x)
                 \/ PutLook(p) \/ PutStore(p) \/ PutCommit(p) \/ Cites(p)
        <5>1. pc[p] \in {"idle", "look", "store"}
          BY <4>4 DEF BeginPut, BeginErase, EraseAgain, Begin, PutLook, PutStore, PutCommit,
                      Cites, AddRefs, AddRefsCommitFails, At
        <5> QED BY <2>3, <5>1, StagesApart
      <4> QED BY <1>7, <4>1, <4>2, <4>3, <4>4, StepKinds
    <3> QED BY <1>2, <1>4, <2>1, <3>1
  <2> QED BY <2>2, <2>3
<1> QED BY <1>5, <1>6, <1>7

\* How a call gets to the stages between the cascade and the registry's
\* commit, and to the ledger's.
LEMMA CascadedBy ==
  ASSUME TInv, NEW p \in Procs, CleanErases => BusyHolder(p),
         Request(p) \/ Step(p) \/ Crash(p)
  PROVE  /\ pc'[p] \in Cascaded =>
              \/ Cascade(p)
              \/ (ApplyErase(p) \/ Audit(p)) /\ pc[p] \in Cascaded /\ job' = job
         /\ pc'[p] = "commit" /\ ~Shared => CommitRegistry(p)
<1>1. pc \in [Procs -> Labels] /\ job \in [Procs -> Jobs] /\ CallOf(pc[p], job[p])
  BY DEF TInv, CallType
<1>2. ASSUME pc'[p] \in {"idle", "look", "store", "unref", FirstStage}
      PROVE  pc'[p] \notin Cascaded /\ (pc'[p] = "commit" => Shared)
  BY <1>2 DEF Cascaded, FirstStage
<1>3. CASE \/ \E put \in Puts : BeginPut(p, put)
           \/ \E x \in Candidates : BeginErase(p, x) \/ EraseAgain(p, x)
           \/ PutLook(p) \/ PutStore(p) \/ PutCommit(p) \/ CommitErase(p) \/ Cites(p)
  <2>1. pc'[p] \in {"idle", "look", "store", FirstStage}
    BY <1>1, <1>3 DEF BeginPut, BeginErase, EraseAgain, Begin, PutLook, PutStore, PutCommit,
                      CommitErase, EndErase, End, Goto, At, Cites, AddRefs, AddRefsCommitFails
  <2> QED BY <1>2, <2>1
<1>4. CASE Fails(p)
  <2>1. pc'[p] = "idle"
    BY <1>1, <1>4, FailuresGiveUp DEF GivesUp
  <2> QED BY <1>2, <2>1
<1>5. CASE CiteRefs(p)
  <2>1. pc'[p] = "unref"
    BY <1>1, <1>5, NextStage DEF CiteRefs, Advance, Goto, At
  <2> QED BY <1>2, <2>1
<1>6. CASE Cascade(p)
  <2>1. pc'[p] \in {"audit", "apply"}
    BY <1>1, <1>6, NextStage DEF Cascade, Advance, Goto, At
  <2> QED BY <1>6, <2>1
<1>7. CASE ApplyErase(p) \/ Audit(p)
  <2>1. /\ job' = job
        /\ \/ pc[p] = "apply" /\ pc'[p] = IF Shared THEN "cite" ELSE "audit"
           \/ pc[p] = "audit" /\ pc'[p] = IF Shared THEN "commit" ELSE "commit_registry"
    BY <1>1, <1>7, NextStage DEF ApplyErase, Audit, Advance, Goto, At
  <2> QED BY <1>7, <2>1 DEF Cascaded
<1>8. CASE CommitRegistry(p)
  <2>1. ~Shared /\ pc'[p] = "commit"
    BY <1>1, <1>8, NextStage DEF CommitRegistry, Advance, Goto, At, CallOf
  <2> QED BY <1>8, <2>1, StagesApart
<1> QED BY <1>3, <1>4, <1>5, <1>6, <1>7, <1>8, StepKinds

\* Citations removed and not committed are those of the erase under way, and
\* what they leave uncited has lost its text.
LEMMA RemovalsStayHeld ==
  ASSUME OneProcess, CleanErases, TInv, TInv', HeldInv, SerialInv,
         NEW p \in Procs, Request(p) \/ Step(p) \/ Crash(p)
  PROVE  RemovalsAreHeld'
<1>1. /\ pc \in [Procs -> Labels] /\ job \in [Procs -> Jobs] /\ CallOf(pc[p], job[p])
      /\ DbType /\ DbType' /\ BusyHolder(p)
      /\ store.refs \subseteq Citations /\ draft.refs \subseteq Citations
  BY DEF TInv, CallType, DbType, TablesType, HeldInv
<1>2. \A r \in store.refs \ draft.refs : pc[p] \in Cascaded /\ job[p].cand = r[1]
  BY DEF SerialInv, RemovalsAreHeld
<1>3. \A e \in Evidence :
        /\ pc[p] \in Cascaded /\ <<job[p].cand, e>> \in store.refs
        /\ e \in Orphans(draft.refs, Evidence)
        => draft.evid[e] # "text"
  BY DEF SerialInv, RemovalsAreHeld
<1>4. \* nothing is removed in the draft
      ASSUME store'.refs \subseteq draft'.refs
      PROVE  RemovalsAreHeld'
  <2>1. pc'[p] \in Cascaded => job'[p].cand \in Candidates
    BY StagesApart DEF TInv, CallType, CallOf, EraseJob
  <2>2. \A e \in Evidence : pc'[p] \in Cascaded /\ <<job'[p].cand, e>> \in store'.refs =>
                              e \notin Orphans(draft'.refs, Evidence)
    BY <1>4, <2>1 DEF Orphans
  <2> QED BY <1>4, <2>2 DEF RemovalsAreHeld, OneProcess
<1>5. CASE Cascade(p)
  <2>1. /\ pc[p] = "unref" /\ pc'[p] \in Cascaded
        /\ job[p] \in EraseJob /\ job'[p].cand = job[p].cand
    BY <1>1, <1>5, NextStage
       DEF Cascade, At, Advance, Goto, Cascaded, CallOf, EraseStages, EraseJob
  <2>2. /\ store'.refs = store.refs /\ draft'.refs = LeftBy(p)
        /\ draft'.evid = Redacted(draft.evid, OrphansOf(p))
    BY <1>1, <1>5, WritingSteps DEF InRegistry, RegistryStaged
  <2>3. store.refs \subseteq draft.refs
    BY <1>2, <2>1 DEF Cascaded
  <2>4. job[p].cited = CitedBy(draft.refs, job[p].cand)
    BY <2>1 DEF SerialInv, ReadingsStand
  <2>5. \A r \in store'.refs \ draft'.refs : job'[p].cand = r[1]
    BY <2>1, <2>2, <2>3 DEF LeftBy, WithoutSubject
  <2>6. ASSUME NEW e \in Evidence, <<job'[p].cand, e>> \in store'.refs,
               e \in Orphans(draft'.refs, Evidence)
        PROVE  draft'.evid[e] # "text"
    <3>1. e \in job[p].cited
      BY <2>1, <2>2, <2>3, <2>4, <2>6 DEF CitedBy
    <3>2. e \in OrphansOf(p)
      BY <2>2, <2>6, <3>1 DEF Orphans, OrphansOf
    <3> QED BY <2>2, <3>2 DEF Redacted, Redactable
  <2> QED BY <2>1, <2>5, <2>6 DEF RemovalsAreHeld, OneProcess
<1>6. CASE (ApplyErase(p) \/ Audit(p)) /\ pc[p] \in Cascaded /\ pc'[p] \in Cascaded
           /\ job' = job
  <2>1. store'.refs = store.refs /\ draft'.refs = draft.refs /\ draft'.evid = draft.evid
    BY <1>1, <1>6, WritingSteps DEF InLedger, RegistryStaged, RegistryKept
  <2> QED BY <1>2, <1>3, <1>6, <2>1 DEF RemovalsAreHeld, OneProcess
<1>7. CASE pc'[p] \notin Cascaded /\ ~Cascade(p)
  <2>1. CASE lock'[RegistryFile] = NoProc
    BY <1>1, <1>4, <2>1 DEF DbType
  <2>2. CASE lock'[RegistryFile] # NoProc
    <3>1. /\ store'.refs = store.refs /\ draft.refs \subseteq draft'.refs
          /\ lock'[RegistryFile] = p
      <4>1. lock[RegistryFile] \in {NoProc, p}
        BY <1>1, SeesDrafts
      <4> QED BY <1>1, <1>7, <2>2, <4>1, RegistryOfStep
              DEF RegistryKept, RegistryStaged, RegistryEnded
    <3>2. CASE pc[p] \in Cascaded
      <4>1. CASE Fails(p)
        BY <3>1, <3>2, <4>1, <1>1, FailuresGiveUp DEF GivesUp
      <4>2. CASE ApplyErase(p) \/ Audit(p)
        <5>1. pc'[p] = StageAfter[pc[p]] /\ pc[p] \in {"apply", "audit"}
          BY <1>1, <4>2 DEF ApplyErase, Audit, Advance, Goto, At
        <5> QED BY <1>7, <3>2, <5>1, NextStage DEF Cascaded
      <4>3. CASE CommitRegistry(p) \/ CommitErase(p)
        <5>1. lock'[RegistryFile] # p
          <6>1. p # NoProc /\ (Shared => RegistryFile = LedgerFile)
            BY ProcsAssumption, TwoFiles
          <6>2. CASE CommitRegistry(p)
            BY <1>1, <6>1, <6>2, CommitOfRegistry
               DEF CommitRegistry, RegistryEnded, RegistryKept
          <6>3. CASE CommitErase(p)
            <7>1. Shared /\ Commit(p, LedgerFile)
              BY <3>2, <6>3, StagesApart DEF CommitErase, At
            <7> HIDE DEF RegistryFile, LedgerFile
            <7> QED BY <1>1, <6>1, <7>1, CommitOfLedger
                    DEF RegistryEnded, RegistryKept
          <6> QED BY <4>3, <6>2, <6>3
        <5> QED BY <3>1, <5>1
      <4>4. CASE \/ \E put \in Puts : BeginPut(p, put)
                 \/ \E x \in Candidates : BeginErase(p, x) \/ EraseAgain(p, x)
                 \/ PutLook(p) \/ PutStore(p) \/ PutCommit(p) \/ Cites(p) \/ CiteRefs(p)
        <5>1. pc[p] \in {"idle", "look", "store", "cite"}
          BY <4>4 DEF BeginPut, BeginErase, EraseAgain, Begin, PutLook, PutStore, PutCommit,
                      Cites, AddRefs, AddRefsCommitFails, CiteRefs, At
        <5> QED BY <3>2, <5>1 DEF Cascaded
      <4> QED BY <1>7, <4>1, <4>2, <4>3, <4>4, StepKinds
    <3>3. CASE pc[p] \notin Cascaded
      BY <1>2, <1>4, <3>1, <3>3
    <3> QED BY <3>2, <3>3
  <2> QED BY <2>1, <2>2
<1> QED BY <1>1, <1>5, <1>6, <1>7, CascadedBy

\* A redacted item stays so: in what is committed, between it and the draft,
\* and in the draft unless the step fails.
LEMMA RedactionsLast ==
  ASSUME OneProcess, CleanErases, TInv, HeldInv, SerialInv,
         NEW p \in Procs, Request(p) \/ Step(p) \/ Crash(p), NEW e \in Evidence
  PROVE  /\ store.evid[e] = "redacted" => store'.evid[e] = "redacted"
         /\ store'.evid[e] = "redacted" => draft'.evid[e] = "redacted"
         /\ draft.evid[e] = "redacted" /\ ~Fails(p) => draft'.evid[e] = "redacted"
<1>1. /\ DbType /\ CallOf(pc[p], job[p]) /\ draft.evid \in [Evidence -> EvidenceRow]
      /\ BusyHolder(p)
  BY DEF TInv, CallType, DbType, TablesType, HeldInv
<1>2. store.evid[e] = "redacted" => draft.evid[e] = "redacted"
  BY DEF SerialInv
<1>3. CASE PutStore(p) /\ RegistryStaged(p, Stored(draft.evid, Head(job[p].items)), draft.refs)
  <2>1. pc[p] = "store" /\ draft.evid[Head(job[p].items).id] # "redacted"
    BY <1>3 DEF PutStore, At, SerialInv, ReadingsStand, RowIsRedacted
  <2>2. draft.evid[e] = "redacted" => Stored(draft.evid, Head(job[p].items))[e] = "redacted"
    BY <1>1, <2>1 DEF Stored
  <2> QED BY <1>2, <1>3, <2>2 DEF RegistryStaged
<1>4. CASE RegistryStaged(p, Redacted(draft.evid, OrphansOf(p)), LeftBy(p))
  <2>1. draft.evid[e] = "redacted" => Redacted(draft.evid, OrphansOf(p))[e] = "redacted"
    BY DEF Redacted
  <2> QED BY <1>2, <1>4, <2>1 DEF RegistryStaged
<1>5. CASE \/ RegistryKept
           \/ \E refs : RegistryStaged(p, draft.evid, refs) \/ RegistryEnded(p, draft.evid, refs)
           \/ Fails(p) /\ RegistryEnded(p, store.evid, store.refs)
  BY <1>2, <1>5 DEF RegistryKept, RegistryStaged, RegistryEnded
<1> QED BY <1>1, <1>3, <1>4, <1>5, RegistryOfStep

\* Redaction records stay true, committed and not.
LEMMA RecordsStayTrue ==
  ASSUME OneProcess, CleanErases, TInv, TInv', HeldInv, SerialInv,
         NEW p \in Procs, Request(p) \/ Step(p) \/ Crash(p)
  PROVE  RecordsAreTrue'
<1>1. /\ pc \in [Procs -> Labels] /\ job \in [Procs -> Jobs] /\ CallOf(pc[p], job[p])
      /\ DbType /\ DbType' /\ BusyHolder(p) /\ StagedErase(p)
      /\ store.redacts \subseteq Citations /\ draft.redacts \subseteq Citations
      /\ store.erases \in [Candidates -> Nat] /\ draft.erases \in [Candidates -> Nat]
  BY DEF TInv, CallType, DbType, TablesType, HeldInv
<1>2. /\ \A r \in store.redacts : store.erases[r[1]] > 0 /\ store.evid[r[2]] = "redacted"
      /\ \A r \in draft.redacts : draft.erases[r[1]] > 0 /\ draft.evid[r[2]] = "redacted"
      /\ pc[p] \in Cascaded => \A e \in job[p].redacted : draft.evid[e] = "redacted"
      /\ pc[p] = "commit" /\ ~Shared => lock[RegistryFile] = NoProc
  BY DEF SerialInv, RecordsAreTrue, AuditIsTruthful
<1>3. /\ \A e \in Evidence : store.evid[e] = "redacted" => store'.evid[e] = "redacted"
      /\ \A e \in Evidence : store'.evid[e] = "redacted" => draft'.evid[e] = "redacted"
      /\ ~Fails(p) => \A e \in Evidence :
                        draft.evid[e] = "redacted" => draft'.evid[e] = "redacted"
  BY RedactionsLast
<1>4. \A r \in Citations : r[1] \in Candidates /\ r[2] \in Evidence
  BY DEF Citations
<1>5. /\ lock[RegistryFile] \in {NoProc, p} /\ lock[LedgerFile] \in {NoProc, p}
      /\ p # NoProc
  BY <1>1, SeesDrafts, ProcsAssumption
<1>6. Fails(p) => /\ GivesUp(p)
                  /\ store'.erases = store.erases /\ store'.redacts = store.redacts
  BY <1>1, FailuresGiveUp DEF GivesUp, LedgerKept, LedgerEnded
<1>7. AuditIsTruthful'
  <2>1. CASE store'.erases = store.erases /\ store'.redacts = store.redacts
    BY <1>1, <1>2, <1>3, <1>4, <2>1 DEF AuditIsTruthful
  <2>2. CASE /\ ~Fails(p)
             /\ CommitErase(p) \/ (Shared /\ pc[p] \notin Applied)
             /\ LedgerEnded(p, draft.erases, draft.redacts)
    <3>1. /\ store'.erases = draft.erases /\ store'.redacts = draft.redacts
          /\ lock'[LedgerFile] = NoProc
      BY <2>2 DEF LedgerEnded
    <3>2. store'.evid = draft'.evid \/ store.evid = draft.evid
      <4>1. CASE Shared
        BY <1>1, <3>1, <4>1, TwoFiles DEF DbType
      <4>2. CASE ~Shared
        <5>1. pc[p] = "commit"
          BY <2>2, <4>2 DEF CommitErase, At
        <5> QED BY <1>1, <1>2, <4>2, <5>1 DEF DbType
      <4> QED BY <4>1, <4>2
    <3>3. \A e \in Evidence : draft.evid[e] = "redacted" => store'.evid[e] = "redacted"
      BY <1>3, <2>2, <3>2
    <3> QED BY <1>1, <1>2, <1>4, <3>1, <3>3 DEF AuditIsTruthful
  <2>3. CASE store'.erases # store.erases \/ store'.redacts # store.redacts
    <3>1. ~Fails(p)
      BY <1>6, <2>3
    <3> QED BY <1>1, <2>2, <2>3, <3>1, LedgerOfStep DEF LedgerKept, LedgerStaged, LedgerEnded
  <2> QED BY <2>1, <2>3
<1>8. \A r \in draft'.redacts : draft'.erases[r[1]] > 0 /\ draft'.evid[r[2]] = "redacted"
  <2>1. CASE Fails(p)
    <3>1. lock'[LedgerFile] = NoProc
      BY <1>5, <1>6, <2>1 DEF GivesUp, LedgerKept, LedgerEnded
    <3>2. draft'.erases = store'.erases /\ draft'.redacts = store'.redacts
      BY <1>1, <3>1 DEF DbType
    <3>3. store'.redacts \subseteq Citations
      BY <1>1 DEF DbType, TablesType
    <3> QED BY <1>3, <1>4, <1>7, <3>2, <3>3 DEF AuditIsTruthful
  <2>2. CASE ~Fails(p) /\ draft'.erases = draft.erases /\ draft'.redacts = draft.redacts
    BY <1>1, <1>2, <1>3, <1>4, <2>2
  <2>3. CASE /\ ApplyErase(p) /\ ~Fails(p)
             /\ LedgerStaged(p, [draft.erases EXCEPT ![job[p].cand] = @ + 1], draft.redacts)
    BY <1>1, <1>2, <1>3, <1>4, <2>3 DEF LedgerStaged
  <2>4. CASE /\ Audit(p) /\ ~Fails(p)
             /\ LedgerStaged(p, draft.erases,
                             draft.redacts \cup ({job[p].cand} \X job[p].redacted))
    <3>1. /\ pc[p] \in Cascaded /\ pc[p] \in Applied
          /\ job[p].cand \in Candidates /\ job[p].redacted \subseteq Evidence
      BY <1>1, <2>4 DEF Audit, At, Cascaded, Applied, CallOf, EraseStages, EraseJob
    <3>2. /\ draft.erases[job[p].cand] > 0
          /\ \A e \in job[p].redacted : draft'.evid[e] = "redacted"
      BY <1>1, <1>2, <1>3, <2>4, <3>1 DEF StagedErase
    <3>3. \A r \in {job[p].cand} \X job[p].redacted :
            r[1] = job[p].cand /\ r[2] \in job[p].redacted
      OBVIOUS
    <3> QED BY <1>1, <1>2, <1>3, <1>4, <2>4, <3>2, <3>3 DEF LedgerStaged
  <2> QED BY <1>1, <2>1, <2>2, <2>3, <2>4, LedgerOfStep DEF LedgerKept, LedgerStaged, LedgerEnded
<1>9. ASSUME pc'[p] \in Cascaded, NEW e \in job'[p].redacted
      PROVE  draft'.evid[e] = "redacted"
  <2>1. CASE Cascade(p)
    <3>1. /\ job[p] \in EraseJob
          /\ job' = [job EXCEPT ![p].redacted = Redactable(draft.evid, OrphansOf(p))]
      BY <1>1, <2>1 DEF Cascade, OrphansOf, LeftBy, At, CallOf, EraseStages
    <3>2. e \in Redactable(draft.evid, OrphansOf(p))
      BY <1>1, <1>9, <3>1 DEF EraseJob
    <3>3. draft'.evid = Redacted(draft.evid, OrphansOf(p))
      BY <1>1, <2>1, WritingSteps DEF InRegistry, RegistryStaged
    <3>4. e \in Evidence
      BY <3>1, <3>2 DEF Redactable, OrphansOf, Orphans, EraseJob
    <3> QED BY <3>2, <3>3, <3>4 DEF Redacted
  <2>2. CASE (ApplyErase(p) \/ Audit(p)) /\ pc[p] \in Cascaded /\ job' = job
    <3>1. draft'.evid = draft.evid
      BY <1>1, <2>2, WritingSteps DEF InLedger, RegistryStaged, RegistryKept
    <3> QED BY <1>2, <1>9, <2>2, <3>1
  <2> QED BY <1>1, <1>9, <2>1, <2>2, CascadedBy
<1>10. ASSUME pc'[p] = "commit", ~Shared
       PROVE  lock'[RegistryFile] = NoProc
  <2>1. Commit(p, RegistryFile)
    BY <1>1, <1>10, CascadedBy DEF CommitRegistry
  <2> QED BY <1>1, <1>5, <2>1, CommitOfRegistry DEF RegistryEnded, RegistryKept
<1> QED BY <1>7, <1>8, <1>9, <1>10 DEF RecordsAreTrue, OneProcess

\* A candidate whose last erase raised has no erase committed.
LEMMA RaisedStaysUnwritten ==
  ASSUME OneProcess, CleanErases, TInv, HeldInv, SerialInv,
         NEW p \in Procs, Request(p) \/ Step(p) \/ Crash(p),
         NEW x \in Candidates, told'[x] = "raised"
  PROVE  store'.erases[x] = 0
<1>1. /\ pc \in [Procs -> Labels] /\ job \in [Procs -> Jobs] /\ BusyHolder(p)
      /\ told \in [Candidates -> {"none", "erased", "raised", "incomplete"}]
  BY DEF TInv, CallType, ReportType, HeldInv
<1>2. /\ told[x] = "raised" => store.erases[x] = 0
      /\ pc[p] \in EraseStages => store.erases[job[p].cand] = 0
      /\ draft.erases[x] # store.erases[x] => pc[p] \in Applied /\ job[p].cand = x
  BY DEF SerialInv, ReadingsStand, RecordsAreHeld
<1>3. CASE Fails(p)
  <2>1. GivesUp(p)
    BY <1>1, <1>3, FailuresGiveUp
  <2>2. store'.erases = store.erases
    BY <2>1 DEF GivesUp, LedgerKept, LedgerEnded
  <2> QED BY <1>1, <1>2, <2>1, <2>2 DEF GivesUp
<1>4. CASE ~Fails(p)
  <2>1. told[x] = "raised"
    BY <1>1, <1>4, StepKinds
       DEF BeginPut, BeginErase, EraseAgain, PutLook, PutStore, PutCommit, CiteRefs, Cascade,
           ApplyErase, Audit, CommitRegistry, CommitErase, EndErase,
           Cites, AddRefs, AddRefsCommitFails
  <2>2. CASE /\ CommitErase(p) \/ (Shared /\ pc[p] \notin Applied)
             /\ LedgerEnded(p, draft.erases, draft.redacts)
    <3>1. CommitErase(p) => job[p].cand # x
      BY <1>1 DEF CommitErase, EndErase
    <3> QED BY <1>2, <2>1, <2>2, <3>1 DEF LedgerEnded
  <2> QED BY <1>1, <1>2, <2>1, <2>2, LedgerOfStep DEF LedgerKept, LedgerStaged, LedgerEnded
<1> QED BY <1>3, <1>4

\* What holds of one process survives its every step.
LEMMA SerialGood ==
  ASSUME OneProcess, CleanErases, TInv, HeldInv, SerialInv, [Next]_vars
  PROVE  SerialInv'
<1>1. TInv' /\ HeldInv'
  BY NextTyped, HeldGood
<1>2. ASSUME NEW p \in Procs, Request(p) \/ Step(p) \/ Crash(p)
      PROVE  SerialInv'
  <2>1. ReadingsStand' /\ RecordsAreHeld' /\ RemovalsAreHeld' /\ RecordsAreTrue'
    BY <1>1, <1>2, ReadingsGoOn, RecordsStayHeld, RemovalsStayHeld, RecordsStayTrue
  <2>2. \A e \in Evidence : store'.evid[e] = "redacted" => draft'.evid[e] = "redacted"
    BY <1>2, RedactionsLast
  <2>3. \A x \in Candidates : told'[x] = "raised" => store'.erases[x] = 0
    BY <1>2, RaisedStaysUnwritten
  <2> QED BY <2>1, <2>2, <2>3 DEF SerialInv
<1>3. CASE UNCHANGED vars
  BY <1>3 DEF vars, db, SerialInv, ReadingsStand, RecordsAreHeld, RemovalsAreHeld,
              RecordsAreTrue, AuditIsTruthful
<1> QED BY <1>2, <1>3 DEF Next

\* So it holds always.
LEMMA SerialAlways ==
  ASSUME OneProcess, CleanErases
  PROVE  Spec => []SerialInv
<1>1. Init => SerialInv
  <2> SUFFICES ASSUME Init PROVE SerialInv
    OBVIOUS
  <2>1. /\ store = [ evid |-> [e \in Evidence |-> "missing"], refs |-> {},
                     erases |-> [x \in Candidates |-> 0], redacts |-> {} ]
        /\ draft = store /\ \A p \in Procs : pc[p] = "idle"
        /\ \A x \in Candidates : told[x] = "none"
    BY DEF Init
  <2>2. ReadingsStand /\ RecordsAreHeld /\ RemovalsAreHeld /\ RecordsAreTrue
    BY <2>1, StagesApart
       DEF ReadingsStand, RecordsAreHeld, RemovalsAreHeld, RecordsAreTrue, AuditIsTruthful
  <2> QED BY <2>1, <2>2 DEF SerialInv
<1>2. TInv /\ HeldInv /\ SerialInv /\ [Next]_vars => SerialInv'
  BY SerialGood
<1> QED BY <1>1, <1>2, TypedAlways, HeldAlways, PTL DEF Spec

\* With one process, a redaction record in the ledger is true whenever the
\* process dies: its candidate is erased and the item has lost its text.
THEOREM AuditAlwaysTruthful ==
  ASSUME OneProcess, CleanErases
  PROVE  Spec => []AuditIsTruthful
<1>1. SerialInv => AuditIsTruthful
  BY DEF SerialInv, RecordsAreTrue
<1> QED BY <1>1, SerialAlways, PTL

\* With one process, a candidate is erased at most once however often failed
\* erases are retried, and not at all while the last one told its caller that
\* it raised.
THEOREM ErasedOnceOrNotAtAll ==
  ASSUME OneProcess, CleanErases
  PROVE  Spec => []EraseIsOnceOrNotAtAll
<1>1. TInv /\ HeldInv /\ SerialInv => EraseIsOnceOrNotAtAll
  <2> SUFFICES ASSUME TInv, HeldInv, SerialInv, NEW x \in Candidates
               PROVE  store.erases[x] <= 1 /\ (told[x] = "raised" => store.erases[x] = 0)
    BY DEF EraseIsOnceOrNotAtAll
  <2>1. store.erases[x] \in Nat /\ draft.erases[x] \in Nat
    BY DEF TInv, DbType, TablesType
  <2>2. store.erases[x] <= draft.erases[x] /\ draft.erases[x] <= 1
    BY DEF HeldInv, SerialInv, RecordsAreHeld
  <2> QED BY <2>1, <2>2 DEF SerialInv
<1> QED BY <1>1, TypedAlways, HeldAlways, SerialAlways, PTL

\* With one process, a text that was redacted never comes back.
THEOREM RedactedForGood ==
  ASSUME OneProcess, CleanErases
  PROVE  Spec => RedactionIsTerminal
<1>1. TInv /\ HeldInv /\ SerialInv /\ [Next]_vars =>
        [\A e \in Evidence :
           store.evid[e] = "redacted" => store'.evid[e] = "redacted"]_vars
  BY RedactionsLast DEF Next
<1> QED BY <1>1, TypedAlways, HeldAlways, SerialAlways, PTL DEF Spec, RedactionIsTerminal

\* With one process, the commit that takes the last citation of an item takes
\* its text.
THEOREM LastCitationTakesText ==
  ASSUME OneProcess, CleanErases
  PROVE  Spec => OrphansLoseText
<1>1. TInv /\ HeldInv /\ SerialInv /\ [Next]_vars =>
        [\A e \in Orphans(store'.refs, Evidence) :
           e \notin Orphans(store.refs, Evidence) => store'.evid[e] # "text"]_vars
  <2> SUFFICES ASSUME TInv, HeldInv, SerialInv,
                      NEW p \in Procs, Request(p) \/ Step(p) \/ Crash(p),
                      NEW e \in Orphans(store'.refs, Evidence),
                      e \notin Orphans(store.refs, Evidence)
               PROVE  store'.evid[e] # "text"
    BY DEF Next
  <2>1. /\ BusyHolder(p) /\ e \in Evidence
        /\ \A r \in store.refs \ draft.refs : pc[p] \in Cascaded /\ job[p].cand = r[1]
        /\ pc[p] \in Cascaded /\ <<job[p].cand, e>> \in store.refs
             /\ e \in Orphans(draft.refs, Evidence) => draft.evid[e] # "text"
    BY DEF HeldInv, SerialInv, RemovalsAreHeld, Orphans
  <2>2. PICK x \in Candidates : <<x, e>> \in store.refs /\ <<x, e>> \notin store'.refs
    BY DEF Orphans
  <2>3. /\ store'.evid = draft.evid /\ draft.refs \subseteq store'.refs
    BY <2>1, <2>2, RegistryOfStep DEF RegistryKept, RegistryStaged, RegistryEnded
  <2>4. e \in Orphans(draft.refs, Evidence)
    BY <2>1, <2>3 DEF Orphans
  <2>5. <<x, e>> \in store.refs \ draft.refs
    BY <2>2, <2>3
  <2>6. pc[p] \in Cascaded /\ job[p].cand = x
    BY <2>1, <2>5
  <2> QED BY <2>1, <2>2, <2>3, <2>4, <2>6
<1> QED BY <1>1, TypedAlways, HeldAlways, SerialAlways, PTL DEF Spec, OrphansLoseText

-----------------------------------------------------------------------------
(* One process and one connection: the refinement *)

\* A step leaves the committed tables alone.
StoreKept ==
  /\ store'.evid = store.evid /\ store'.refs = store.refs
  /\ store'.erases = store.erases /\ store'.redacts = store.redacts

\* The writer's view becomes what is committed.
DraftCommitted ==
  /\ store'.evid = draft.evid /\ store'.refs = draft.refs
  /\ store'.erases = draft.erases /\ store'.redacts = draft.redacts

\* After a step that leaves nothing open, the two are one.
Even ==
  /\ draft.evid = store.evid /\ draft.refs = store.refs
  /\ draft.erases = store.erases /\ draft.redacts = store.redacts

\* Nothing open: nothing ahead.
LEMMA EvenWhenFree ==
  ASSUME Shared, DbType, lock[LedgerFile] = NoProc
  PROVE  Even
BY TwoFiles DEF DbType, Even

\* Which an idle process is entitled to.
LEMMA EvenIsAhead ==
  ASSUME NEW p \in Procs, Even, pc[p] \in {"idle", "apply"}
  PROVE  Ahead(p)
<1>1. Shared => pc[p] \notin Applied
  BY DEF Applied
<1>2. ~Shared => pc[p] \notin Applied
  BY DEF Applied
<1> QED BY <1>1, <1>2 DEF Even, Ahead

\* Losing(x) is what the abstract erase of x takes the text of.
LEMMA LosingIsAbstract ==
  ASSUME TablesType(store), NEW x \in Candidates
  PROVE  Losing(x) = { e \in Evidence :
                         /\ <<x, e>> \in store.refs /\ store.evid[e] = "text"
                         /\ ~\E r \in Left(x) : r[2] = e }
<1>1. Left(x) \subseteq Candidates \X Evidence
  BY DEF TablesType, Citations, Left, WithoutSubject
<1>2. ASSUME NEW e
      PROVE  (\E y \in Candidates : <<y, e>> \in Left(x)) <=> \E r \in Left(x) : r[2] = e
  <2>1. \A y \in Candidates : <<y, e>>[2] = e
    OBVIOUS
  <2>2. \A r \in Left(x) : r[1] \in Candidates /\ r = <<r[1], r[2]>>
    BY <1>1
  <2> QED BY <2>1, <2>2
<1> QED BY <1>2 DEF Losing, Redactable, Orphans, CitedBy

\* Step by step, the draft stays as far ahead as the stage says, and what is
\* committed takes a step of AtomicErasure.
LEMMA StepIsAtomic ==
  ASSUME Shared, OneProcess, CleanErases, TInv, TInv', HeldInv, SerialInv, AtomicInv,
         NEW p \in Procs, Request(p) \/ Step(p) \/ Crash(p)
  PROVE  /\ AtomicInv'
         /\ StoreKept \/ Atomic!Next
<1>1. /\ pc \in [Procs -> Labels] /\ job \in [Procs -> Jobs] /\ CallOf(pc[p], job[p])
      /\ DbType /\ DbType' /\ TablesType(store) /\ TablesType(draft)
      /\ TablesType(store)' /\ TablesType(draft)'
      /\ BusyHolder(p) /\ StagedErase(p) /\ Ahead(p)
  BY DEF TInv, CallType, DbType, HeldInv, AtomicInv
<1>2. /\ RegistryFile = LedgerFile /\ p # NoProc
      /\ lock[LedgerFile] \in {NoProc, p}
  BY <1>1, TwoFiles, ProcsAssumption, SeesDrafts
<1>3. Applied = {"cite", "unref", "audit", "commit"}
  BY DEF Applied
<1>4. ASSUME Ahead(p)'
      PROVE  AtomicInv'
  BY <1>4 DEF AtomicInv, OneProcess
<1>5. StoreKept => \A x : Left(x)' = Left(x) /\ Losing(x)' = Losing(x)
  BY DEF StoreKept, Left, Losing
<1>6. ASSUME lock'[LedgerFile] = NoProc, pc'[p] = "idle"
      PROVE  AtomicInv'
  <2>1. Even'
    BY <1>1, <1>2, <1>6 DEF DbType, Even
  <2> QED BY <1>4, <1>6, <2>1, EvenIsAhead DEF Ahead, Even, Applied
<1> HIDE DEF RegistryFile, LedgerFile
<1>7. ASSUME NEW put \in Puts, BeginPut(p, put)
      PROVE  AtomicInv' /\ StoreKept
  <2>1. pc[p] = "idle" /\ pc'[p] = "look" /\ UNCHANGED <<store, draft>>
    BY <1>1, <1>7 DEF BeginPut, Begin, db
  <2> QED BY <1>1, <1>3, <1>4, <2>1 DEF Ahead, StoreKept
<1>8. ASSUME NEW x \in Candidates, BeginErase(p, x)
      PROVE  AtomicInv' /\ StoreKept
  <2>1. pc[p] = "idle" /\ pc'[p] = "apply" /\ UNCHANGED <<store, draft>>
    BY <1>1, <1>8 DEF BeginErase, Begin, FirstStage, db
  <2> QED BY <1>1, <1>3, <1>4, <2>1 DEF Ahead, StoreKept
<1>9. ASSUME NEW x \in Candidates, EraseAgain(p, x)
      PROVE  AtomicInv' /\ StoreKept
  <2>1. pc[p] = "idle" /\ UNCHANGED <<store, draft, pc>>
    BY <1>9 DEF EraseAgain, At, db
  <2> QED BY <1>1, <1>3, <1>4, <2>1 DEF Ahead, StoreKept
<1>10. CASE PutLook(p)
  <2>1. pc[p] = "look" /\ pc'[p] \in {"look", "store"} /\ UNCHANGED <<store, draft>>
    BY <1>1, <1>10 DEF PutLook, At, Goto, db
  <2>2. StoreKept
    BY <2>1 DEF StoreKept
  <2> QED BY <1>1, <1>3, <1>4, <2>1, <2>2 DEF Ahead
<1>11. CASE PutStore(p)
  <2>1. /\ pc[p] = "store" /\ pc'[p] = "look" /\ job[p].items \in Seq(Item)
        /\ job[p].items # <<>>
    BY <1>1, <1>11 DEF PutStore, At, Goto, CallOf, PutJob
  <2>2. Head(job[p].items) \in Item
    BY <2>1, HeadTailProperties
  <2>3. /\ RegistryStaged(p, Stored(draft.evid, Head(job[p].items)), draft.refs)
        /\ LedgerStaged(p, draft.erases, draft.redacts)
    BY <1>1, <1>11, WritingSteps DEF InRegistry
  <2>4. StoreKept
    BY <2>3 DEF RegistryStaged, LedgerStaged, StoreKept
  <2>5. store.evid[Head(job[p].items).id] # "redacted"
    BY <2>1, <2>2 DEF SerialInv, ReadingsStand, RowIsRedacted, Item
  <2>6. \A e \in Evidence :
          Stored(draft.evid, Head(job[p].items))[e] # store.evid[e] =>
            Stored(draft.evid, Head(job[p].items))[e] \in Forms /\ store.evid[e] # "redacted"
    BY <1>1, <2>1, <2>2, <2>5 DEF Ahead, Stored, Item, TablesType
  <2> QED BY <1>1, <1>3, <1>4, <2>1, <2>3, <2>4, <2>6
          DEF Ahead, RegistryStaged, LedgerStaged, StoreKept
<1>12. CASE PutCommit(p)
  <2>1. pc[p] = "look" /\ pc'[p] = "idle" /\ Commit(p, LedgerFile)
    BY <1>1, <1>2, <1>12 DEF PutCommit, At, End
  <2>2. lock'[LedgerFile] = NoProc /\ (StoreKept \/ DraftCommitted)
    BY <1>1, <1>2, <2>1, CommitOfLedger
       DEF RegistryEnded, LedgerEnded, RegistryKept, LedgerKept, StoreKept, DraftCommitted
  <2>3. DraftCommitted => Atomic!Store
    <3>1. SUFFICES ASSUME DraftCommitted PROVE Atomic!Store
      OBVIOUS
    <3>2. /\ store'.refs = store.refs /\ store'.erases = store.erases
          /\ store'.redacts = store.redacts
          /\ \A e \in Evidence :
               store'.evid[e] # store.evid[e] =>
                 store.evid[e] # "redacted" /\ store'.evid[e] \in Forms
      BY <1>1, <2>1, <3>1 DEF Ahead, DraftCommitted
    <3>3. store'.evid \in [Evidence -> Forms \cup {"missing", "redacted"}]
      BY <1>1 DEF TablesType, EvidenceRow
    <3> QED BY <3>2, <3>3 DEF Atomic!Store
  <2> QED BY <1>6, <2>1, <2>2, <2>3 DEF Atomic!Next
<1>13. CASE CiteRefs(p)
  <2>1. /\ pc[p] = "cite" /\ pc'[p] = "unref" /\ UNCHANGED <<store, draft>>
        /\ job[p] \in EraseJob
        /\ job' = [job EXCEPT ![p].cited = CitedBy(View(p).refs, job[p].cand)]
    BY <1>1, <1>13, NextStage DEF CiteRefs, At, Advance, Goto, db, CallOf, EraseStages
  <2>2. job'[p].cand = job[p].cand /\ StoreKept
    BY <1>1, <2>1 DEF EraseJob, StoreKept
  <2> QED BY <1>1, <1>3, <1>4, <2>1, <2>2 DEF Ahead
<1>14. CASE Cascade(p)
  <2>1. /\ pc[p] = "unref" /\ pc'[p] = "audit" /\ job[p] \in EraseJob
        /\ job' = [job EXCEPT ![p].redacted = Redactable(draft.evid, OrphansOf(p))]
    BY <1>1, <1>14, NextStage
       DEF Cascade, OrphansOf, LeftBy, At, Advance, Goto, CallOf, EraseStages
  <2>2. /\ RegistryStaged(p, Redacted(draft.evid, OrphansOf(p)), LeftBy(p))
        /\ LedgerStaged(p, draft.erases, draft.redacts)
    BY <1>1, <1>14, WritingSteps DEF InRegistry
  <2>3. StoreKept
    BY <2>2 DEF RegistryStaged, LedgerStaged, StoreKept
  <2>4. job[p].cited = CitedBy(draft.refs, job[p].cand)
    BY <2>1 DEF SerialInv, ReadingsStand
  <2>5. /\ draft.refs = store.refs /\ draft.evid = store.evid
        /\ draft.redacts = store.redacts
        /\ draft.erases = [store.erases EXCEPT ![job[p].cand] = @ + 1]
    BY <1>1, <1>3, <2>1 DEF Ahead
  <2>6. /\ LeftBy(p) = Left(job[p].cand)
        /\ Redactable(draft.evid, OrphansOf(p)) = Losing(job[p].cand)
    BY <2>4, <2>5 DEF LeftBy, OrphansOf, Left, Losing
  <2>7. Redacted(draft.evid, OrphansOf(p)) = Redacted(store.evid, Losing(job[p].cand))
    BY <2>5, <2>6 DEF Redacted, Redactable
  <2>8. job'[p].cand = job[p].cand /\ job'[p].redacted = Losing(job[p].cand)
    BY <1>1, <2>1, <2>6 DEF EraseJob
  <2> QED BY <1>3, <1>4, <1>5, <2>1, <2>2, <2>3, <2>5, <2>6, <2>7, <2>8
          DEF Ahead, RegistryStaged, LedgerStaged, StoreKept
<1>15. CASE ApplyErase(p)
  <2>1. pc[p] = "apply" /\ pc'[p] = "cite" /\ job' = job
    BY <1>1, <1>15, NextStage DEF ApplyErase, At, Advance, Goto
  <2>2. /\ RegistryStaged(p, draft.evid, draft.refs)
        /\ LedgerStaged(p, [draft.erases EXCEPT ![job[p].cand] = @ + 1], draft.redacts)
    BY <1>1, <1>15, WritingSteps DEF InLedger
  <2>3. StoreKept
    BY <2>2 DEF RegistryStaged, LedgerStaged, StoreKept
  <2> QED BY <1>1, <1>3, <1>4, <2>1, <2>2, <2>3
          DEF Ahead, RegistryStaged, LedgerStaged, StoreKept
<1>16. CASE Audit(p)
  <2>1. pc[p] = "audit" /\ pc'[p] = "commit" /\ job' = job
    BY <1>1, <1>16, NextStage DEF Audit, At, Advance, Goto
  <2>2. /\ RegistryStaged(p, draft.evid, draft.refs)
        /\ LedgerStaged(p, draft.erases,
                        draft.redacts \cup ({job[p].cand} \X job[p].redacted))
    BY <1>1, <1>16, WritingSteps DEF InLedger
  <2>3. StoreKept
    BY <2>2 DEF RegistryStaged, LedgerStaged, StoreKept
  <2> QED BY <1>1, <1>3, <1>4, <1>5, <2>1, <2>2, <2>3
          DEF Ahead, RegistryStaged, LedgerStaged, StoreKept
<1>17. CASE CommitRegistry(p)
  BY <1>1, <1>17 DEF CommitRegistry, At, CallOf
<1>18. CASE CommitErase(p)
  <2>1. PICK x \in Candidates : x = job[p].cand
    BY <1>1, <1>18 DEF CommitErase, At, CallOf, EraseStages, EraseJob
  <2>2. pc[p] = "commit" /\ pc'[p] = "idle" /\ Commit(p, LedgerFile)
    BY <1>1, <1>18 DEF CommitErase, EndErase, At, End
  <2>3. lock[LedgerFile] = p
    BY <1>1, <1>3, <2>2 DEF StagedErase
  <2>4. lock'[LedgerFile] = NoProc /\ DraftCommitted
    BY <1>1, <2>2, <2>3, CommitOfLedger DEF RegistryEnded, LedgerEnded, DraftCommitted
  <2>5. /\ store'.refs = Left(x)
        /\ store'.evid = Redacted(store.evid, Losing(x))
        /\ store'.redacts = store.redacts \cup ({x} \X Losing(x))
        /\ store'.erases = [store.erases EXCEPT ![x] = @ + 1]
    BY <1>1, <1>3, <2>1, <2>2, <2>4 DEF Ahead, DraftCommitted
  <2>6. { y \in Candidates : store'.erases[y] > 0 } =
          { y \in Candidates : store.erases[y] > 0 } \cup {x}
    BY <1>1, <2>2, <2>5 DEF TablesType
  <2>7. Redacted(store.evid, Losing(x)) =
          [e \in Evidence |-> IF e \in Losing(x) THEN "redacted" ELSE store.evid[e]]
    BY DEF Redacted, Redactable, Losing
  <2>8. Left(x) = { r \in store.refs : r[1] # x }
    BY DEF Left, WithoutSubject
  <2>9. Atomic!Erase(x)
    BY <1>1, <2>2, <2>5, <2>6, <2>7, <2>8, LosingIsAbstract DEF Atomic!Erase
  <2> QED BY <1>6, <2>2, <2>4, <2>9 DEF Atomic!Next
<1>19. CASE Cites(p)
  <2>1. PICK x \in Candidates, cited \in SUBSET Evidence : AddRefs(p, x, cited)
    BY <1>19 DEF Cites, CleanErases
  <2>2. pc[p] = "idle" /\ pc'[p] = "idle"
    BY <1>1, <2>1 DEF AddRefs, At
  <2>3. /\ RegistryEnded(p, draft.evid, WithRefs(draft.refs, x, cited))
        /\ LedgerEnded(p, draft.erases, draft.redacts)
    BY <1>1, <2>1, WritingSteps
  <2>4. /\ store'.evid = store.evid /\ store.refs \subseteq store'.refs
        /\ store'.erases = store.erases /\ store'.redacts = store.redacts
        /\ lock'[LedgerFile] = NoProc
    BY <1>1, <2>2, <2>3 DEF Ahead, RegistryEnded, LedgerEnded, WithRefs
  <2>5. Atomic!Cite
    BY <1>1, <2>4 DEF Atomic!Cite, TablesType, Citations
  <2> QED BY <1>6, <2>2, <2>4, <2>5 DEF Atomic!Next
<1>20. CASE Fails(p)
  <2>1. /\ GivesUp(p)
    BY <1>1, <1>20, FailuresGiveUp
  <2>2. pc'[p] = "idle" /\ lock'[LedgerFile] = NoProc /\ StoreKept
    BY <1>1, <1>2, <2>1
       DEF GivesUp, RegistryKept, RegistryEnded, LedgerKept, LedgerEnded, StoreKept
  <2> QED BY <1>6, <2>2
<1> QED BY <1>7, <1>8, <1>9, <1>10, <1>11, <1>12, <1>13, <1>14, <1>15, <1>16, <1>17, <1>18,
           <1>19, <1>20, StepKinds

\* With one process and one connection whose failed COMMITs do not stay open,
\* erase() is the atomic step it promises to be, audit records included:
\* every crash, failure and retry of its stages leaves AtomicErasure's
\* behaviours.
THEOREM EraseIsAtomic ==
  ASSUME Shared, OneProcess, CleanErases
  PROVE  Spec => ErasesAtomically
<1>1. Init => AtomicInv /\ Atomic!Init
  <2> SUFFICES ASSUME Init PROVE AtomicInv /\ Atomic!Init
    OBVIOUS
  <2>1. /\ store = [ evid |-> [e \in Evidence |-> "missing"], refs |-> {},
                     erases |-> [x \in Candidates |-> 0], redacts |-> {} ]
        /\ draft = store /\ \A p \in Procs : pc[p] = "idle"
    BY DEF Init
  <2>2. AtomicInv
    BY <2>1, EvenIsAhead DEF AtomicInv, Even
  <2> QED BY <2>1, <2>2 DEF Atomic!Init
<1>2. TInv /\ HeldInv /\ SerialInv /\ AtomicInv /\ [Next]_vars =>
        /\ AtomicInv'
        /\ [Atomic!Next]_<<{ x \in Candidates : store.erases[x] > 0 },
                           store.refs, store.evid, store.redacts>>
  <2> SUFFICES ASSUME TInv, HeldInv, SerialInv, AtomicInv, [Next]_vars
               PROVE  /\ AtomicInv'
                      /\ [Atomic!Next]_<<{ x \in Candidates : store.erases[x] > 0 },
                                         store.refs, store.evid, store.redacts>>
    OBVIOUS
  <2>1. TInv'
    BY NextTyped
  <2>2. ASSUME StoreKept
        PROVE  UNCHANGED <<{ x \in Candidates : store.erases[x] > 0 },
                           store.refs, store.evid, store.redacts>>
    BY <2>2 DEF StoreKept
  <2>3. ASSUME NEW p \in Procs, Request(p) \/ Step(p) \/ Crash(p)
        PROVE  AtomicInv' /\ (StoreKept \/ Atomic!Next)
    BY <2>1, <2>3, StepIsAtomic
  <2>4. ASSUME UNCHANGED vars
        PROVE  AtomicInv' /\ StoreKept
    BY <2>4 DEF vars, db, AtomicInv, Ahead, Left, Losing, StoreKept
  <2> QED BY <2>2, <2>3, <2>4 DEF Next
<1> QED BY <1>1, <1>2, TypedAlways, HeldAlways, SerialAlways, PTL
        DEF Spec, ErasesAtomically, Atomic!Spec
=============================================================================
