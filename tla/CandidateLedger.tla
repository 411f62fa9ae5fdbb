--------------------------- MODULE CandidateLedger ---------------------------
(***************************************************************************)
(* SqliteCandidateLedger (src/src/kgis/ledger/store.py): the tables        *)
(* ledger_entries, ledger_transitions and audit_records of one SQLite      *)
(* file, and the connections that read and write it.  Every connection is  *)
(* one process (or thread) running one ledger call at a time.              *)
(*                                                                         *)
(* SQLite itself is external and modelled from how the code drives it:     *)
(* a SELECT outside a transaction sees the last commit; Python's sqlite3   *)
(* opens the transaction at the first INSERT or UPDATE, which takes the    *)
(* single writer lock with a fresh view of the tables; COMMIT publishes    *)
(* the writer's draft, ROLLBACK drops it.                                  *)
(***************************************************************************)
EXTENDS Naturals, Sequences, FiniteSets, LedgerLifecycle

CONSTANTS
  Conns,           \* the connections to the ledger's database
  NoConn,          \* "no connection": the writer lock is free
  Candidates,      \* candidate ids: the primary key
  Keys,            \* dedup keys: graph id and semantic key
  KeyOf,           \* the dedup key of each candidate
  Batches,         \* the batches callers submit
  Targets,         \* the states callers ask transition() for
  RejectOnly,      \* connections whose profile is REJECT_ONLY, with a resolver
  ErasureEnabled,  \* connections whose profile enables erasure
  CommitFaults,    \* what a COMMIT that raises may leave: "open", "rolled_back"
  MaxTrail,        \* bound: no row operation starts on a trail this long
  MaxRetries       \* bound: no transition raises retry_count above this

ASSUME ConnsAssumption == NoConn \notin Conns
ASSUME KeyOfAssumption == KeyOf \in [Candidates -> Keys]
ASSUME BatchesAssumption == Batches \subseteq Seq(Candidates)
ASSUME TargetsAssumption == Targets \subseteq ProcessingState
ASSUME ProfilesAssumption ==
  RejectOnly \subseteq Conns /\ ErasureEnabled \subseteq Conns
ASSUME FaultsAssumption == CommitFaults \subseteq {"open", "rolled_back"}
ASSUME BoundsAssumption == MaxTrail \in Nat /\ MaxRetries \in Nat

VARIABLES
  rows,        \* ledger_entries as committed
  trail,       \* per candidate, its transition and audit rows as committed
  writer,      \* the connection with an open write transaction, or NoConn
  draftRows,   \* ledger_entries as the writer sees it
  draftTrail,  \* the trail as the writer sees it
  pc,          \* where each connection is in its call
  todo,        \* submit(): the candidates left
  outcomes,    \* submit(): the outcomes so far
  task,        \* transition(), revoke(), erase(): what was read and is asked
  told         \* per candidate, how its last INSERT ended for the caller

tables == <<rows, trail, writer, draftRows, draftTrail>>
calls == <<pc, todo, outcomes, task>>
vars == <<tables, calls, told>>

-----------------------------------------------------------------------------
(* Rows *)

\* revoked_at and erased_at, as the set of those that are not NULL.
Marks == {"revoked_at", "erased_at"}

Row == [ state: ProcessingState, marks: SUBSET Marks,
         payload: {"json", "null"}, retries: Nat ]

NoRow == [state |-> "NONE", marks |-> {}, payload |-> "null", retries |-> 0]

ReceivedRow ==
  [state |-> "RECEIVED", marks |-> {}, payload |-> "json", retries |-> 0]

Exists(r) == r.state # "NONE"

\* LIVE_ROW_PREDICATE: the dedup lookup, the partial unique index and
\* ledger_entries() all use it.
IsLive(r) == Exists(r) /\ r.marks = {}

\* The ledger_transitions row and its audit_records twin.
Entry == [ kind: {"transition", "revoke", "erase"},
           from: ProcessingState \cup {"NONE"}, to: ProcessingState ]

LiveKey(table, k) == \E x \in Candidates : IsLive(table[x]) /\ KeyOf[x] = k

\* The tables as a statement of connection c sees them.
Rows(c) == IF writer = c THEN draftRows ELSE rows
Trail(c) == IF writer = c THEN draftTrail ELSE trail

Task == [ op: {"transition", "revoke", "erase"}, cand: Candidates,
          seen: ProcessingState, to: ProcessingState, retries: Nat ]

NoTask == [op |-> "none"]

Outcome == [cand: Candidates, status: {"RECEIVED", "DUPLICATE", "INVALID"}]

-----------------------------------------------------------------------------
(* SQLite transactions *)

CanWrite(c) == writer \in {NoConn, c}

\* The write lock is c's and its draft is the given tables.
Stage(c, newRows, newTrail) ==
  /\ CanWrite(c)
  /\ writer' = c
  /\ draftRows' = newRows
  /\ draftTrail' = newTrail
  /\ UNCHANGED <<rows, trail>>

\* COMMIT of the given tables: published, and the lock released.
Publish(c, newRows, newTrail) ==
  /\ CanWrite(c)
  /\ writer' = NoConn
  /\ rows' = newRows
  /\ trail' = newTrail
  /\ draftRows' = newRows
  /\ draftTrail' = newTrail

\* Mutant: the commit is forgotten.
Commit_Forgotten(c) == UNCHANGED tables

\* Mutant: the lock is released, the writes stay in the connection's view.
Rollback_KeepsDraft(c) ==
  IF writer = c
    THEN writer' = NoConn /\ UNCHANGED <<rows, trail, draftRows, draftTrail>>
    ELSE UNCHANGED tables

\* conn.commit(): a no-op on a connection with no open transaction.
Commit(c) ==
  IF writer = c THEN Publish(c, draftRows, draftTrail) ELSE UNCHANGED tables

\* conn.rollback(), or the connection going away: likewise.
Rollback(c) ==
  IF writer = c THEN Publish(c, rows, trail) ELSE UNCHANGED tables

-----------------------------------------------------------------------------
(* submit() *)

Init ==
  /\ rows = [x \in Candidates |-> NoRow]
  /\ trail = [x \in Candidates |-> <<>>]
  /\ writer = NoConn
  /\ draftRows = rows
  /\ draftTrail = trail
  /\ pc = [c \in Conns |-> "idle"]
  /\ todo = [c \in Conns |-> <<>>]
  /\ outcomes = [c \in Conns |-> <<>>]
  /\ task = [c \in Conns |-> NoTask]
  /\ told = [x \in Candidates |-> "none"]

BeginSubmit(c, batch) ==
  /\ pc[c] = "idle"
  /\ pc' = [pc EXCEPT ![c] = "lookup"]
  /\ todo' = [todo EXCEPT ![c] = batch]
  /\ UNCHANGED <<tables, outcomes, task, told>>

\* The loop appends an outcome for its candidate and goes on to the next.
Report(c, status) ==
  /\ outcomes' =
       [outcomes EXCEPT ![c] =
          Append(@, [cand |-> Head(todo[c]), status |-> status])]
  /\ todo' = [todo EXCEPT ![c] = Tail(@)]
  /\ pc' = [pc EXCEPT ![c] = "lookup"]
  /\ UNCHANGED task

Looking(c) == pc[c] = "lookup" /\ todo[c] # <<>>

\* The SELECT finds a live row of the candidate's key.
LookupHit(c) ==
  /\ Looking(c)
  /\ LiveKey(Rows(c), KeyOf[Head(todo[c])])
  /\ Report(c, "DUPLICATE")
  /\ UNCHANGED <<tables, told>>

\* No live row, but the REJECT_ONLY resolver calls the identity ambiguous.
RejectAmbiguous(c) ==
  /\ Looking(c)
  /\ ~LiveKey(Rows(c), KeyOf[Head(todo[c])])
  /\ c \in RejectOnly
  /\ Report(c, "INVALID")
  /\ UNCHANGED <<tables, told>>

LookupMiss(c) ==
  /\ Looking(c)
  /\ ~LiveKey(Rows(c), KeyOf[Head(todo[c])])
  /\ pc' = [pc EXCEPT ![c] = "insert"]
  /\ UNCHANGED <<tables, todo, outcomes, task, told>>

\* Mutant: the unique index on live rows is missing.
Conflict_IdOnly(table, x) == Exists(table[x])

\* The primary key, or the partial unique index on live rows.
Conflict(table, x) == Exists(table[x]) \/ LiveKey(table, KeyOf[x])

\* The INSERT succeeds, with its transition and audit rows.
InsertRow(c) ==
  LET x == Head(todo[c]) IN
  /\ pc[c] = "insert"
  /\ ~Conflict(Rows(c), x)
  /\ Stage(c, [Rows(c) EXCEPT ![x] = ReceivedRow],
              [Trail(c) EXCEPT ![x] =
                 Append(@, [kind |-> "transition", from |-> "NONE",
                            to |-> "RECEIVED"])])
  /\ Report(c, "RECEIVED")
  /\ told' = [told EXCEPT ![x] = "none"]

\* IntegrityError: someone else's row came between the SELECT and the
\* INSERT.  The statement is undone, the transaction stays open.
InsertConflict(c) ==
  /\ pc[c] = "insert"
  /\ Conflict(Rows(c), Head(todo[c]))
  /\ Stage(c, Rows(c), Trail(c))
  /\ Report(c, "DUPLICATE")
  /\ UNCHANGED told

Inserted(c) ==
  { outcomes[c][i].cand :
      i \in { j \in DOMAIN outcomes[c] : outcomes[c][j].status = "RECEIVED" } }

\* submit() ends: what its caller learns of the rows it inserted.
EndSubmit(c, word) ==
  /\ told' = [x \in Candidates |-> IF x \in Inserted(c) THEN word ELSE told[x]]
  /\ pc' = [pc EXCEPT ![c] = "idle"]
  /\ todo' = [todo EXCEPT ![c] = <<>>]
  /\ outcomes' = [outcomes EXCEPT ![c] = <<>>]
  /\ UNCHANGED task

ReturnSubmit(c) ==
  /\ pc[c] = "lookup"
  /\ todo[c] = <<>>
  /\ Commit(c)
  /\ EndSubmit(c, "received")

\* Mutant: rolls back, then goes on with the next candidate of the batch.
RaiseSubmit_GoesOn(c) ==
  /\ pc[c] = "insert" \/ Looking(c)
  /\ Rollback(c)
  /\ pc' = [pc EXCEPT ![c] = "lookup"]
  /\ todo' = [todo EXCEPT ![c] = Tail(@)]
  /\ UNCHANGED <<outcomes, task, told>>

\* The resolver, the row's construction, a statement or the busy timeout
\* raises inside the loop: the whole batch is rolled back.
RaiseSubmit(c) ==
  /\ pc[c] = "insert" \/ Looking(c)
  /\ Rollback(c)
  /\ EndSubmit(c, "raised")

\* The commit() after the loop raises; no handler rolls back.
CommitSubmitFails(c, fault) ==
  /\ pc[c] = "lookup"
  /\ todo[c] = <<>>
  /\ writer = c
  /\ IF fault = "open" THEN UNCHANGED tables ELSE Rollback(c)
  /\ EndSubmit(c, "raised")

-----------------------------------------------------------------------------
(* transition(), revoke(), erase(): the row is read first, in no            *)
(* transaction of its own, and written by a later statement.               *)

BeginTask(c, op, x, to, retries) ==
  /\ pc[c] = "idle"
  /\ Exists(Rows(c)[x])
  /\ Len(Trail(c)[x]) < MaxTrail
  /\ pc' = [pc EXCEPT ![c] = "write"]
  /\ task' = [task EXCEPT ![c] =
                [op |-> op, cand |-> x, seen |-> Rows(c)[x].state, to |-> to,
                 retries |-> retries]]
  /\ UNCHANGED <<tables, todo, outcomes, told>>

\* Mutant: revoked and erased rows may still move.
ReadForTransition_Withdrawn(c, x, to, bump) ==
  LET r == Rows(c)[x] IN
  /\ CanTransition(r.state, to)
  /\ r.retries + bump <= MaxRetries
  /\ BeginTask(c, "transition", x, to, r.retries + bump)

ReadForTransition(c, x, to, bump) ==
  LET r == Rows(c)[x] IN
  /\ r.marks = {}
  /\ CanTransition(r.state, to)
  /\ r.retries + bump <= MaxRetries
  /\ BeginTask(c, "transition", x, to, r.retries + bump)

ReadForRevoke(c, x) ==
  LET r == Rows(c)[x] IN
  /\ "erased_at" \notin r.marks
  /\ BeginTask(c, "revoke", x, r.state, r.retries)

ReadForErase(c, x) ==
  /\ c \in ErasureEnabled
  /\ BeginTask(c, "erase", x, Rows(c)[x].state, Rows(c)[x].retries)

\* Mutant: a transition writes back the whole row it had read.
Updated_WholeRow(r, t) ==
  CASE t.op = "transition" ->
         [r EXCEPT !.state = t.to, !.retries = t.retries, !.marks = {},
                   !.payload = "json"]
    [] t.op = "revoke" -> [r EXCEPT !.marks = @ \cup {"revoked_at"}]
    [] t.op = "erase" ->
         [r EXCEPT !.marks = @ \cup {"erased_at"}, !.payload = "null"]

\* The UPDATE has no condition but the id: only the columns it names change.
Updated(r, t) ==
  CASE t.op = "transition" -> [r EXCEPT !.state = t.to, !.retries = t.retries]
    [] t.op = "revoke" -> [r EXCEPT !.marks = @ \cup {"revoked_at"}]
    [] t.op = "erase" ->
         [r EXCEPT !.marks = @ \cup {"erased_at"}, !.payload = "null"]

RowsAfter(c) == [Rows(c) EXCEPT ![task[c].cand] = Updated(@, task[c])]

\* Mutant: the row is updated without its records.
TrailAfter_Unrecorded(c) == Trail(c)

TrailAfter(c) ==
  [Trail(c) EXCEPT ![task[c].cand] =
     Append(@, [kind |-> task[c].op, from |-> task[c].seen,
                to |-> task[c].to])]

EndTask(c) ==
  /\ pc[c] = "write"
  /\ pc' = [pc EXCEPT ![c] = "idle"]
  /\ task' = [task EXCEPT ![c] = NoTask]
  /\ UNCHANGED <<todo, outcomes, told>>

\* UPDATE, transition row, audit row, commit().  Only readers could run in
\* between, and they see the last commit.
WriteTask(c) ==
  /\ EndTask(c)
  /\ Publish(c, RowsAfter(c), TrailAfter(c))

\* A statement raises, or the write lock is not free in time.
RaiseTask(c) ==
  /\ EndTask(c)
  /\ Rollback(c)

CommitTaskFails(c, fault) ==
  /\ EndTask(c)
  /\ IF fault = "open"
       THEN Stage(c, RowsAfter(c), TrailAfter(c))
       ELSE Publish(c, rows, trail)

-----------------------------------------------------------------------------
(* The connection closes or its process dies, and is opened again: SQLite   *)
(* recovers the last commit.                                               *)
Crash(c) ==
  /\ pc[c] # "idle" \/ writer = c
  /\ Rollback(c)
  /\ pc' = [pc EXCEPT ![c] = "idle"]
  /\ todo' = [todo EXCEPT ![c] = <<>>]
  /\ outcomes' = [outcomes EXCEPT ![c] = <<>>]
  /\ task' = [task EXCEPT ![c] = NoTask]
  /\ UNCHANGED told

\* The rest of the call under way on connection c.
Step(c) ==
  \/ LookupHit(c)
  \/ RejectAmbiguous(c)
  \/ LookupMiss(c)
  \/ InsertRow(c)
  \/ InsertConflict(c)
  \/ ReturnSubmit(c)
  \/ RaiseSubmit(c)
  \/ WriteTask(c)
  \/ RaiseTask(c)
  \/ \E fault \in CommitFaults : CommitSubmitFails(c, fault)
                                 \/ CommitTaskFails(c, fault)

\* A caller's next call on connection c.
Request(c) ==
  \/ \E batch \in Batches : BeginSubmit(c, batch)
  \/ \E x \in Candidates :
       \/ \E to \in Targets, bump \in {0, 1} : ReadForTransition(c, x, to, bump)
       \/ ReadForRevoke(c, x)
       \/ ReadForErase(c, x)

Next == \E c \in Conns : Request(c) \/ Step(c) \/ Crash(c)

Spec == Init /\ [][Next]_vars

-----------------------------------------------------------------------------
(* Properties *)

TableType(r, t) ==
  /\ r \in [Candidates -> Row \cup {NoRow}]
  /\ t \in [Candidates -> Seq(Entry)]

\* Every variable has its type; between transactions the draft is the
\* committed tables.
TypeOK ==
  /\ TableType(rows, trail)
  /\ TableType(draftRows, draftTrail)
  /\ writer \in Conns \cup {NoConn}
  /\ writer = NoConn => draftRows = rows /\ draftTrail = trail
  /\ pc \in [Conns -> {"idle", "lookup", "insert", "write"}]
  /\ todo \in [Conns -> Seq(Candidates)]
  /\ outcomes \in [Conns -> Seq(Outcome)]
  /\ task \in [Conns -> Task \cup {NoTask}]
  /\ told \in [Candidates -> {"none", "received", "raised"}]
  /\ \A c \in Conns : /\ pc[c] = "insert" => todo[c] # <<>>
                      /\ pc[c] = "write" => task[c] \in Task

KeyUnique(table) ==
  \A x, y \in Candidates :
    IsLive(table[x]) /\ IsLive(table[y]) /\ KeyOf[x] = KeyOf[y] => x = y

\* However the SELECTs and INSERTs of concurrent submit() calls interleave
\* with revokes and erases, a dedup key has at most one live row, in what is
\* committed and in what the writer is about to commit (Issue #16).
LiveKeyUnique == KeyUnique(rows) /\ KeyUnique(draftRows)

\* A candidate whose submit() returned RECEIVED is in the committed ledger
\* from then on, whatever crashes, rollbacks and later calls follow.
ReceivedIsDurable ==
  \A x \in Candidates : told[x] = "received" => Exists(rows[x])

\* submit() says DUPLICATE only of a candidate whose key has a row (live or
\* since withdrawn) in the tables its own commit() publishes: no candidate
\* is dropped as the duplicate of a row that was rolled back.
DuplicateHasWitness ==
  \A c \in Conns : \A i \in DOMAIN outcomes[c] :
    outcomes[c][i].status = "DUPLICATE" =>
      \E y \in Candidates :
        KeyOf[y] = KeyOf[outcomes[c][i].cand] /\ Exists(Rows(c)[y])

\* The last "transition" entry of a trail.
LastTransition(t) ==
  CHOOSE i \in DOMAIN t :
    /\ t[i].kind = "transition"
    /\ \A j \in DOMAIN t : t[j].kind = "transition" => j <= i

Explains(t, r) ==
  IF Exists(r)
    THEN /\ t # <<>>
         /\ t[1].kind = "transition" /\ t[1].from = "NONE"
         /\ t[LastTransition(t)].to = r.state
         /\ ("revoked_at" \in r.marks) <=> \E i \in DOMAIN t : t[i].kind = "revoke"
         /\ ("erased_at" \in r.marks) <=> \E i \in DOMAIN t : t[i].kind = "erase"
         /\ (r.payload = "null") <=> ("erased_at" \in r.marks)
    ELSE t = <<>>

\* The audit stream accounts for the row: its state is where the last
\* recorded transition went, and it is revoked, or erased with its payload
\* gone, exactly when a record says so, also with stale reads and rollbacks.
TrailExplainsRow ==
  \A x \in Candidates :
    Explains(trail[x], rows[x]) /\ Explains(draftTrail[x], draftRows[x])

\* From r1 to r2 a row only comes to exist, gains marks, loses its payload.
RowGrows(r1, r2) ==
  /\ Exists(r1) => Exists(r2)
  /\ r1.marks \subseteq r2.marks
  /\ Exists(r1) /\ r1.payload = "null" => r2.payload = "null"

TrailGrows(t1, t2) ==
  /\ Len(t1) <= Len(t2)
  /\ \A i \in 1..Len(t1) : t2[i] = t1[i]

\* What is committed stays: audit records are only ever appended (spec 7.8),
\* rows are never deleted, tombstone marks never lifted, and an erased
\* payload never comes back (ADR-0013: erase is one-way).
NothingIsTakenBack ==
  [][\A x \in Candidates :
       RowGrows(rows[x], rows'[x]) /\ TrailGrows(trail[x], trail'[x])]_vars

Life(r) ==
  CASE ~Exists(r) -> "absent"
    [] "erased_at" \in r.marks -> "erased"
    [] r.marks = {"revoked_at"} -> "revoked"
    [] OTHER -> "live"

Sink == INSTANCE CandidateSink WITH life <- [x \in Candidates |-> Life(rows[x])]

\* The ledger implements the abstract sink: its committed rows move through
\* the life of a candidate and never share a live key.
ImplementsSink == Sink!Spec

Chained(t) ==
  \A i \in 1..(Len(t) - 1) :
    /\ t[i + 1].from = t[i].to
    /\ IF t[i + 1].kind = "transition"
         THEN CanTransition(t[i].to, t[i + 1].to)
         ELSE t[i + 1].to = t[i].to

\* Nothing but a governance record follows a revoke or an erase, and no
\* revoke follows an erase.
Quiet(t) ==
  \A i, j \in DOMAIN t :
    /\ i < j /\ t[i].kind # "transition" => t[j].kind # "transition"
    /\ i < j /\ t[i].kind = "erase" => t[j].kind = "erase"

\* With one connection the recorded history of every candidate is a walk of
\* LEGAL_TRANSITIONS without a gap, each record starting where the one before
\* it ended, and withdrawal ends the walk: transition() and revoke() refuse
\* such rows.
HistoryIsLegal ==
  \A x \in Candidates :
    \A t \in {trail[x], draftTrail[x]} : Chained(t) /\ Quiet(t)

\* A state without exits is left by no committed step.
TerminalStatesAreFinal ==
  [][\A x \in Candidates :
       rows[x].state \in TERMINAL_STATES => rows'[x].state = rows[x].state]_vars
=============================================================================
