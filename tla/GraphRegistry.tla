---------------------------- MODULE GraphRegistry ----------------------------
(***************************************************************************)
(* SqliteRegistryStore (kgis/registry/store.py): the versions of every     *)
(* registered graph and the corpus of human decisions, in one SQLite file  *)
(* that several connections (each of one process) have open.               *)
(*                                                                         *)
(* A method runs in one deferred transaction.  Its first SELECT takes the  *)
(* shared lock (the connection is in "readers"), its first write the       *)
(* reserved lock (it is the "writer", and the draft is its working copy),  *)
(* and COMMIT waits until no other connection reads.  _transaction() calls *)
(* commit() outside the handler that rolls back: a COMMIT that raises      *)
(* "database is locked" leaves the transaction open, and the next BEGIN of *)
(* that store raises.                                                      *)
(*                                                                         *)
(* A descriptor is the content of one register() call; a decision's        *)
(* content stands for all its columns but the outcome ones.                *)
(***************************************************************************)
EXTENDS Naturals, FiniteSets

CONSTANTS Conns, NoConn, Names, Descriptors, DecisionIds, Contents, Outcomes,
          None, MaxOutcomes

ASSUME ConnsAssumption == NoConn \notin Conns
ASSUME NoneAssumption == None \notin Contents \cup Outcomes
ASSUME MaxOutcomesAssumption == MaxOutcomes \in Nat

VARIABLES
  db,        \* the committed tables: graph_versions and decisions
  draft,     \* the same as the writer sees them
  readers,   \* the connections that hold the shared lock
  writer,    \* the connection with the reserved lock, or NoConn
  pending,   \* a COMMIT gave up waiting for readers: no new reader gets in
  call,      \* the call under way on each connection
  told,      \* what the caller of register() learned, by descriptor
  agreed,    \* the <<id, content>> pairs record_decision() returned
  notes      \* record_outcome() calls so far (a bound of the model)

vars == <<db, draft, readers, writer, pending, call, told, agreed, notes>>

-----------------------------------------------------------------------------
(* The tables *)

VersionRow == [name: Names, version: Nat \ {0}, desc: Descriptors]

\* DecisionRecord: content and outcome.
DecisionRow ==
  [content: Contents \cup {None}, outcome: Outcomes \cup {None}]

NoDecision == [content |-> None, outcome |-> None]

Tables ==
  [versions: SUBSET VersionRow, decisions: [DecisionIds -> DecisionRow]]

VersionsOf(t, name) == { r.version : r \in { v \in t.versions : v.name = name } }

\* SELECT MAX(version), with 0 for a name that has none.
LatestVersion(t, name) ==
  IF VersionsOf(t, name) = {}
    THEN 0
    ELSE CHOOSE v \in VersionsOf(t, name) : \A w \in VersionsOf(t, name) : w <= v

\* snapshot(): the latest version of every registered graph.
Snapshot(t) ==
  { r \in t.versions : r.version = LatestVersion(t, r.name) }

Calls ==
  [op: {"register"}, name: Names, desc: Descriptors, next: Nat \ {0},
   staged: BOOLEAN]
  \cup [op: {"decide"}, id: DecisionIds, content: Contents, stored: Contents]
  \cup [op: {"note"}, id: DecisionIds]

NoCall == [op |-> "none"]

-----------------------------------------------------------------------------
(* SQLite transactions *)

InTransaction(c) == c \in readers \/ writer = c

\* What a statement of connection c sees.
View(c) == IF writer = c THEN draft ELSE db

Leave(c) == readers' = readers \ {c}

\* The shared lock: not while somebody waits to commit.
Read(c) ==
  /\ ~pending
  /\ readers' = readers \cup {c}

\* The reserved lock, with what the statement wrote.
Stage(c, tables) ==
  /\ writer \in {NoConn, c}
  /\ writer' = c
  /\ draft' = tables
  /\ readers' = readers \cup {c}
  /\ UNCHANGED <<db, pending>>

\* COMMIT: waits for the other readers, then publishes.
Commit(c) ==
  /\ writer = c
  /\ readers \subseteq {c}
  /\ db' = draft
  /\ writer' = NoConn
  /\ pending' = FALSE
  /\ Leave(c)
  /\ UNCHANGED draft

\* Mutant: the lock is released, the writes stay in view.
Rollback_KeepsDraft(c) ==
  /\ writer' = IF writer = c THEN NoConn ELSE writer
  /\ pending' = (pending /\ writer # c)
  /\ Leave(c)
  /\ UNCHANGED <<db, draft>>

\* ROLLBACK, by the handler, by SQLite itself or because the connection goes.
Rollback(c) ==
  /\ IF writer = c
       THEN writer' = NoConn /\ pending' = FALSE /\ draft' = db
       ELSE UNCHANGED <<writer, pending, draft>>
  /\ Leave(c)
  /\ UNCHANGED db

\* Mutant: no BEGIN, so a call joins the transaction that is open.
CanBegin_Joins(c) == call[c] = NoCall

\* The explicit BEGIN raises within an open transaction.
CanBegin(c) == call[c] = NoCall /\ ~InTransaction(c)

-----------------------------------------------------------------------------
(* register() *)

Init ==
  /\ db = [versions |-> {}, decisions |-> [i \in DecisionIds |-> NoDecision]]
  /\ draft = db
  /\ readers = {}
  /\ writer = NoConn
  /\ pending = FALSE
  /\ call = [c \in Conns |-> NoCall]
  /\ told = [d \in Descriptors |-> "none"]
  /\ agreed = {}
  /\ notes = 0

\* BEGIN and SELECT MAX(version).
BeginRegister(c, name, d) ==
  /\ CanBegin(c)
  /\ told[d] = "none"
  /\ Read(c)
  /\ call' = [call EXCEPT ![c] =
                [op |-> "register", name |-> name, desc |-> d,
                 next |-> LatestVersion(View(c), name) + 1, staged |-> FALSE]]
  /\ told' = [told EXCEPT ![d] = "asked"]
  /\ UNCHANGED <<db, draft, writer, pending, agreed, notes>>

\* The INSERT of the next version, unless the primary key is taken.
InsertVersion(c) ==
  LET k == call[c] IN
  /\ k.op = "register"
  /\ ~k.staged
  /\ k.next \notin VersionsOf(View(c), k.name)
  /\ Stage(c, [View(c) EXCEPT !.versions =
                 @ \cup {[name |-> k.name, version |-> k.next, desc |-> k.desc]}])
  /\ call' = [call EXCEPT ![c].staged = TRUE]
  /\ UNCHANGED <<told, agreed, notes>>

EndCall(c) == call' = [call EXCEPT ![c] = NoCall]

\* What the caller of register() learns.
Answer(c, word) ==
  told' = IF call[c].op = "register" THEN [told EXCEPT ![call[c].desc] = word]
                                     ELSE told

ReturnRegister(c) ==
  /\ call[c].op = "register"
  /\ call[c].staged
  /\ Commit(c)
  /\ Answer(c, "returned")
  /\ EndCall(c)
  /\ UNCHANGED <<agreed, notes>>

\* A statement raises: another writer has the lock (SQLite does not wait
\* once the transaction reads), or anything else goes wrong before COMMIT.
RaiseCall(c) ==
  /\ call[c] # NoCall
  /\ Rollback(c)
  /\ Answer(c, "raised")
  /\ EndCall(c)
  /\ UNCHANGED <<agreed, notes>>

\* COMMIT gives up after the busy timeout because another connection reads:
\* commit() raises, and nothing rolls back.
CommitBusy(c) ==
  /\ call[c] # NoCall
  /\ writer = c
  /\ readers \ {c} # {}
  /\ pending' = TRUE
  /\ Answer(c, "raised")
  /\ EndCall(c)
  /\ UNCHANGED <<db, draft, readers, writer, agreed, notes>>

-----------------------------------------------------------------------------
(* record_decision() and record_outcome() *)

\* Mutant: INSERT OR REPLACE instead of ON CONFLICT DO NOTHING.
InsertedDecision_Replaces(row, content) == [NoDecision EXCEPT !.content = content]

\* ON CONFLICT(decision_id) DO NOTHING.
InsertedDecision(row, content) ==
  IF row.content = None THEN [NoDecision EXCEPT !.content = content] ELSE row

\* BEGIN, INSERT, and the SELECT that reads the stored row back.
InsertDecision(c, id, content) ==
  LET row == InsertedDecision(View(c).decisions[id], content) IN
  /\ CanBegin(c)
  /\ Stage(c, [View(c) EXCEPT !.decisions[id] = row])
  /\ call' = [call EXCEPT ![c] = [op |-> "decide", id |-> id,
                                  content |-> content, stored |-> row.content]]
  /\ UNCHANGED <<told, agreed, notes>>

\* The commit, then the comparison: another row under the id is a
\* DecisionConflictError, the same one an idempotent success.
EndDecision(c) ==
  LET k == call[c] IN
  /\ k.op = "decide"
  /\ Commit(c)
  /\ agreed' = IF k.stored = k.content THEN agreed \cup {<<k.id, k.content>>}
                                       ELSE agreed
  /\ EndCall(c)
  /\ UNCHANGED <<told, notes>>

\* The UPDATE of the outcome columns; no row of that id is a KeyError, which
\* leaves everything as it was.
UpdateOutcome(c, id, outcome) ==
  /\ CanBegin(c)
  /\ notes < MaxOutcomes
  /\ View(c).decisions[id] # NoDecision
  /\ Stage(c, [View(c) EXCEPT !.decisions[id].outcome = outcome])
  /\ call' = [call EXCEPT ![c] = [op |-> "note", id |-> id]]
  /\ notes' = notes + 1
  /\ UNCHANGED <<told, agreed>>

EndOutcome(c) ==
  /\ call[c].op = "note"
  /\ Commit(c)
  /\ EndCall(c)
  /\ UNCHANGED <<told, agreed, notes>>

\* close(), or the process dies: SQLite recovers the last commit.
Close(c) ==
  /\ InTransaction(c)
  /\ Rollback(c)
  /\ EndCall(c)
  /\ Answer(c, "raised")
  /\ UNCHANGED <<agreed, notes>>

Next ==
  \E c \in Conns :
    \/ \E name \in Names, d \in Descriptors : BeginRegister(c, name, d)
    \/ InsertVersion(c)
    \/ ReturnRegister(c)
    \/ RaiseCall(c)
    \/ CommitBusy(c)
    \/ \E id \in DecisionIds, content \in Contents : InsertDecision(c, id, content)
    \/ EndDecision(c)
    \/ \E id \in DecisionIds, outcome \in Outcomes : UpdateOutcome(c, id, outcome)
    \/ EndOutcome(c)
    \/ Close(c)

Spec == Init /\ [][Next]_vars

-----------------------------------------------------------------------------
(* Properties *)

\* Every variable has its type, and the lock state is one SQLite can be in:
\* without a writer the draft is the tables, with one it is a reader too.
TypeOK ==
  /\ db \in Tables
  /\ draft \in Tables
  /\ readers \subseteq Conns
  /\ writer \in readers \cup {NoConn}
  /\ pending \in BOOLEAN
  /\ writer = NoConn => draft = db /\ ~pending
  /\ call \in [Conns -> Calls \cup {NoCall}]
  /\ told \in [Descriptors -> {"none", "asked", "returned", "raised"}]
  /\ agreed \subseteq DecisionIds \X Contents
  /\ notes \in 0..MaxOutcomes

RowsFor(d) == { r \in db.versions : r.desc = d }

\* The answers of register() and record_decision() are true of the file,
\* whatever other connections do and however commits fail: a call that
\* returned has its one version, or its decision, from then on; a call that
\* raised has none, and no later call of the stuck store publishes one.  The
\* snapshot the advisor scores has every registered graph once, whichever
\* transaction takes it.
AnswersAreTrue ==
  /\ \A d \in Descriptors :
       /\ told[d] = "returned" => Cardinality(RowsFor(d)) = 1
       /\ told[d] = "raised" => RowsFor(d) = {}
  /\ \A a \in agreed : db.decisions[a[1]].content = a[2]
  /\ \A c \in Conns, name \in Names :
       Cardinality({ r \in Snapshot(View(c)) : r.name = name })
         = IF VersionsOf(View(c), name) = {} THEN 0 ELSE 1

\* Two processes that register the same name both read MAX(version) before
\* they insert: the versions of a name are still 1..n, one row each, written
\* in that order and never rewritten, and the first decision under an id is
\* the one that stays.
HistoryOnlyGrows ==
  [][/\ db.versions \subseteq db'.versions
     /\ \A name \in Names :
          LET n == LatestVersion(db', name) IN
          /\ VersionsOf(db', name) = 1..n
          /\ Cardinality({ r \in db'.versions : r.name = name }) = n
     /\ \A id \in DecisionIds :
          db.decisions[id] # NoDecision =>
            db'.decisions[id].content = db.decisions[id].content]_vars
===============================================================================
