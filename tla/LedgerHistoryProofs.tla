------------------------- MODULE LedgerHistoryProofs -------------------------
(***************************************************************************)
(* The audit trail of a candidate accounts for its row, for any number of  *)
(* connections; with one connection it is also a walk of the legal         *)
(* transitions that a withdrawal ends, and a state without exits is final. *)
(*                                                                         *)
(* LastTransition is a CHOOSE over an index nobody counted, so the         *)
(* inductive form of the first property (RowExplained) says that there is  *)
(* such an index and what it holds.                                        *)
(***************************************************************************)
EXTENDS CandidateLedgerProofs

RowExplained(r, t) ==
  IF Exists(r)
    THEN /\ t # <<>>
         /\ t[1].kind = "transition" /\ t[1].from = "NONE"
         /\ \E i \in DOMAIN t :
              /\ t[i].kind = "transition" /\ t[i].to = r.state
              /\ \A j \in DOMAIN t : t[j].kind = "transition" => j <= i
         /\ ("revoked_at" \in r.marks) <=> \E i \in DOMAIN t : t[i].kind = "revoke"
         /\ ("erased_at" \in r.marks) <=> \E i \in DOMAIN t : t[i].kind = "erase"
         /\ (r.payload = "null") <=> ("erased_at" \in r.marks)
    ELSE t = <<>>

\* What is committed and what the writer has staged are both accounted for.
StoryInv ==
  \A x \in Candidates :
    RowExplained(rows[x], trail[x]) /\ RowExplained(draftRows[x], draftTrail[x])

-----------------------------------------------------------------------------
(* What an action does to the tables, in the terms of its rows. *)

InsertEntry == [kind |-> "transition", from |-> "NONE", to |-> "RECEIVED"]

TaskEntry(k) == [kind |-> k.op, from |-> k.seen, to |-> k.to]

Inserts(c, x) ==
  /\ ~Exists(Rows(c)[x])
  /\ Stage(c, [Rows(c) EXCEPT ![x] = ReceivedRow],
              [Trail(c) EXCEPT ![x] = Append(@, InsertEntry)])

Writes(c) ==
  /\ pc[c] = "write"
  /\ \/ Publish(c, RowsAfter(c), TrailAfter(c))
     \/ Stage(c, RowsAfter(c), TrailAfter(c))

Effect(c) ==
  \/ UNCHANGED tables
  \/ Commit(c)
  \/ Rollback(c)
  \/ Stage(c, Rows(c), Trail(c))
  \/ Publish(c, rows, trail)
  \/ \E x \in Candidates : Inserts(c, x)
  \/ Writes(c)

\* Nothing else happens to the tables.
LEMMA EffectOfStep ==
  ASSUME IInv, NEW c \in Conns, Request(c) \/ Step(c) \/ Crash(c)
  PROVE  Effect(c)
<1>1. CASE Request(c)
  BY <1>1 DEF Request, BeginSubmit, ReadForTransition, ReadForRevoke, ReadForErase,
              BeginTask, Effect
<1>2. CASE Crash(c)
  BY <1>2 DEF Crash, Effect
<1>3. CASE LookupHit(c) \/ RejectAmbiguous(c) \/ LookupMiss(c) \/ ReturnSubmit(c)
            \/ RaiseSubmit(c)
  BY <1>3 DEF LookupHit, RejectAmbiguous, LookupMiss, ReturnSubmit, RaiseSubmit, Effect
<1>4. CASE InsertConflict(c)
  BY <1>4 DEF InsertConflict, Effect
<1>5. CASE InsertRow(c)
  <2> DEFINE x == Head(todo[c])
  <2>1. todo[c] # <<>> /\ todo[c] \in Seq(Candidates)
    BY <1>5 DEF InsertRow, IInv, CallType
  <2>2. x \in Candidates
    BY <2>1, HeadTailProperties
  <2>3. Inserts(c, x)
    BY <1>5 DEF InsertRow, Inserts, Conflict, InsertEntry
  <2> HIDE DEF x
  <2> QED BY <2>2, <2>3 DEF Effect
<1>6. CASE WriteTask(c)
  BY <1>6 DEF WriteTask, EndTask, Writes, Effect
<1>7. CASE RaiseTask(c)
  BY <1>7 DEF RaiseTask, Effect
<1>8. ASSUME NEW fault \in CommitFaults, CommitSubmitFails(c, fault)
      PROVE  Effect(c)
  BY <1>8 DEF CommitSubmitFails, Effect
<1>9. ASSUME NEW fault \in CommitFaults, CommitTaskFails(c, fault)
      PROVE  Effect(c)
  BY <1>9 DEF CommitTaskFails, EndTask, Writes, Effect
<1> QED BY <1>1, <1>2, <1>3, <1>4, <1>5, <1>6, <1>7, <1>8, <1>9 DEF Step

-----------------------------------------------------------------------------
(* Rows and their trails *)

\* The chosen index is the one that RowExplained speaks of.
LEMMA ExplainedExplains ==
  ASSUME NEW r, NEW t \in Seq(Entry), RowExplained(r, t)
  PROVE  Explains(t, r)
<1>1. CASE ~Exists(r)
  BY <1>1 DEF RowExplained, Explains
<1>2. CASE Exists(r)
  <2> DEFINE IsLast(i) == /\ t[i].kind = "transition"
                          /\ \A j \in DOMAIN t : t[j].kind = "transition" => j <= i
  <2>1. PICK i \in DOMAIN t : IsLast(i) /\ t[i].to = r.state
    BY <1>2 DEF RowExplained
  <2>2. \A j \in DOMAIN t : IsLast(j) => j = i
    BY <2>1
  <2>3. LastTransition(t) = i
    <3>1. (CHOOSE j \in DOMAIN t : IsLast(j)) = i
      <4> HIDE DEF IsLast
      <4> QED BY <2>1, <2>2
    <3> QED BY <3>1 DEF LastTransition
  <2> HIDE DEF IsLast
  <2> QED BY <1>2, <2>1, <2>3 DEF RowExplained, Explains
<1> QED BY <1>1, <1>2

\* The first record of a new row explains it.
LEMMA InsertedExplained ==
  ASSUME NEW r, NEW t, ~Exists(r), RowExplained(r, t)
  PROVE  RowExplained(ReceivedRow, Append(t, InsertEntry))
<1>1. t = <<>>
  BY DEF RowExplained
<1>2. Append(t, InsertEntry) = <<InsertEntry>>
  BY <1>1
<1>3. Exists(ReceivedRow)
  BY DEF Exists, ReceivedRow
<1> QED BY <1>2, <1>3 DEF RowExplained, ReceivedRow, InsertEntry

\* The record of a task explains what its UPDATE did, whatever row the task
\* had read.
LEMMA UpdatedExplained ==
  ASSUME NEW r \in Row, NEW t \in Seq(Entry), NEW k \in Task, RowExplained(r, t)
  PROVE  RowExplained(Updated(r, k), Append(t, TaskEntry(k)))
<1> DEFINE e == TaskEntry(k)
           s == Append(t, e)
           n == Len(t) + 1
           q == Updated(r, k)
<1>1. e \in Entry /\ e.kind = k.op /\ e.to = k.to
  BY DEF TaskEntry, Entry, Task
<1>2. /\ s # <<>> /\ DOMAIN s = 1..n /\ DOMAIN t = 1..Len(t) /\ Len(t) \in Nat
      /\ s[n] = e /\ \A i \in DOMAIN t : s[i] = t[i]
  BY <1>1, AppendProperties
<1>3. Exists(r) /\ Exists(q)
  BY UpdatedRow DEF Exists, Row, ProcessingState
<1>4. /\ t # <<>> /\ t[1].kind = "transition" /\ t[1].from = "NONE"
      /\ ("revoked_at" \in r.marks) <=> \E i \in DOMAIN t : t[i].kind = "revoke"
      /\ ("erased_at" \in r.marks) <=> \E i \in DOMAIN t : t[i].kind = "erase"
      /\ (r.payload = "null") <=> ("erased_at" \in r.marks)
  BY <1>3 DEF RowExplained
<1>5. PICK i \in DOMAIN t :
        /\ t[i].kind = "transition" /\ t[i].to = r.state
        /\ \A j \in DOMAIN t : t[j].kind = "transition" => j <= i
  BY <1>3 DEF RowExplained
<1>6. 1 \in DOMAIN t /\ s[1].kind = "transition" /\ s[1].from = "NONE"
  BY <1>2, <1>4
<1>7. \A word : (\E j \in DOMAIN s : s[j].kind = word)
                  <=> (\E j \in DOMAIN t : t[j].kind = word) \/ e.kind = word
  <2> HIDE DEF e, s
  <2> QED BY <1>2
<1>8. k.op \in {"transition", "revoke", "erase"}
  BY DEF Task
<1>9. CASE k.op = "transition"
  <2>1. q = [r EXCEPT !.state = k.to, !.retries = k.retries]
    BY <1>9 DEF Updated
  <2>2. q.state = k.to /\ q.marks = r.marks /\ q.payload = r.payload
    BY <2>1 DEF Row
  <2>3. n \in DOMAIN s /\ s[n].kind = "transition" /\ s[n].to = q.state
        /\ \A j \in DOMAIN s : j <= n
    BY <1>1, <1>2, <1>9, <2>2
  <2>4. e.kind # "revoke" /\ e.kind # "erase"
    BY <1>1, <1>9
  <2> HIDE DEF e, s, n, q
  <2> QED BY <1>2, <1>3, <1>4, <1>6, <1>7, <2>2, <2>3, <2>4 DEF RowExplained, e, s, q
<1>10. CASE k.op = "revoke"
  <2>1. q = [r EXCEPT !.marks = @ \cup {"revoked_at"}]
    BY <1>10 DEF Updated
  <2>2. q.state = r.state /\ q.payload = r.payload /\ q.marks = r.marks \cup {"revoked_at"}
    BY <2>1 DEF Row
  <2>3. e.kind = "revoke"
    BY <1>1, <1>10
  <2>4. i \in DOMAIN s /\ s[i].kind = "transition" /\ s[i].to = q.state
        /\ \A j \in DOMAIN s : s[j].kind = "transition" => j <= i
    <3> HIDE DEF e, s, q
    <3> QED BY <1>2, <1>5, <2>2, <2>3
  <2> HIDE DEF e, s, n, q
  <2> QED BY <1>2, <1>3, <1>4, <1>6, <1>7, <2>2, <2>3, <2>4 DEF RowExplained, e, s, q
<1>11. CASE k.op = "erase"
  <2>1. q = [r EXCEPT !.marks = @ \cup {"erased_at"}, !.payload = "null"]
    BY <1>11 DEF Updated
  <2>2. q.state = r.state /\ q.payload = "null" /\ q.marks = r.marks \cup {"erased_at"}
    BY <2>1 DEF Row
  <2>3. e.kind = "erase"
    BY <1>1, <1>11
  <2>4. i \in DOMAIN s /\ s[i].kind = "transition" /\ s[i].to = q.state
        /\ \A j \in DOMAIN s : s[j].kind = "transition" => j <= i
    <3> HIDE DEF e, s, q
    <3> QED BY <1>2, <1>5, <2>2, <2>3
  <2> HIDE DEF e, s, n, q
  <2> QED BY <1>2, <1>3, <1>4, <1>6, <1>7, <2>2, <2>3, <2>4 DEF RowExplained, e, s, q
<1> QED BY <1>8, <1>9, <1>10, <1>11

-----------------------------------------------------------------------------
(* From the tables' steps to the rows' *)

\* What a step of connection c can make of candidate x: one of the two
\* versions there were, a new row, or the row its task updates.
Becomes(c, x, r, t) ==
  \/ r = rows[x] /\ t = trail[x]
  \/ r = draftRows[x] /\ t = draftTrail[x]
  \/ /\ ~Exists(Rows(c)[x])
     /\ r = ReceivedRow /\ t = Append(Trail(c)[x], InsertEntry)
  \/ /\ pc[c] = "write" /\ x = task[c].cand
     /\ r = Updated(Rows(c)[x], task[c])
     /\ t = Append(Trail(c)[x], TaskEntry(task[c]))

\* The writer's draft of every candidate becomes one of these, and what is
\* committed stays or is that draft.
RowStep(c, x) ==
  /\ Becomes(c, x, draftRows'[x], draftTrail'[x])
  /\ \/ rows'[x] = rows[x] /\ trail'[x] = trail[x]
     \/ rows'[x] = draftRows'[x] /\ trail'[x] = draftTrail'[x]

\* Every effect on the tables is such a step of every candidate.
LEMMA EffectOnRow ==
  ASSUME IInv, NEW c \in Conns, NEW x \in Candidates, Effect(c)
  PROVE  RowStep(c, x)
<1>1. /\ Rows(c) \in [Candidates -> Row \cup {NoRow}]
      /\ Trail(c) \in [Candidates -> Seq(Entry)]
  BY ViewIsGood DEF IInv, GoodTables, TableType
<1>2. \/ Rows(c) = rows /\ Trail(c) = trail
      \/ Rows(c) = draftRows /\ Trail(c) = draftTrail
  BY DEF Rows, Trail
<1>3. Becomes(c, x, Rows(c)[x], Trail(c)[x])
  BY <1>2 DEF Becomes
<1>4. CASE UNCHANGED tables
  BY <1>4 DEF tables, RowStep, Becomes
<1>5. CASE Commit(c) \/ Rollback(c) \/ Stage(c, Rows(c), Trail(c))
            \/ Publish(c, rows, trail)
  BY <1>3, <1>4, <1>5 DEF Commit, Rollback, Stage, Publish, RowStep, Becomes
<1>6. ASSUME NEW y \in Candidates, Inserts(c, y)
      PROVE  RowStep(c, x)
  <2>1. /\ ~Exists(Rows(c)[y]) /\ rows' = rows /\ trail' = trail
        /\ draftRows' = [Rows(c) EXCEPT ![y] = ReceivedRow]
        /\ draftTrail' = [Trail(c) EXCEPT ![y] = Append(@, InsertEntry)]
    BY <1>6 DEF Inserts, Stage
  <2>2. CASE x = y
    BY <1>1, <2>1, <2>2 DEF RowStep, Becomes
  <2>3. CASE x # y
    <3>1. draftRows'[x] = Rows(c)[x] /\ draftTrail'[x] = Trail(c)[x]
      BY <1>1, <2>1, <2>3
    <3> QED BY <1>3, <2>1, <3>1 DEF RowStep
  <2> QED BY <2>2, <2>3
<1>7. CASE Writes(c)
  <2>1. /\ pc[c] = "write"
        /\ draftRows' = RowsAfter(c) /\ draftTrail' = TrailAfter(c)
        /\ \/ rows' = rows /\ trail' = trail
           \/ rows' = draftRows' /\ trail' = draftTrail'
    BY <1>7 DEF Writes, Publish, Stage
  <2>2. CASE x = task[c].cand
    <3>1. /\ draftRows'[x] = Updated(Rows(c)[x], task[c])
          /\ draftTrail'[x] = Append(Trail(c)[x], TaskEntry(task[c]))
      BY <1>1, <2>1, <2>2 DEF RowsAfter, TrailAfter, TaskEntry
    <3> QED BY <2>1, <2>2, <3>1 DEF RowStep, Becomes
  <2>3. CASE x # task[c].cand
    <3>1. draftRows'[x] = Rows(c)[x] /\ draftTrail'[x] = Trail(c)[x]
      BY <1>1, <2>1, <2>3 DEF RowsAfter, TrailAfter
    <3> QED BY <1>3, <2>1, <3>1 DEF RowStep
  <2> QED BY <2>2, <2>3
<1> QED BY <1>4, <1>5, <1>6, <1>7 DEF Effect

\* A row that is being written is there, with its task, in c's view.
LEMMA WritesARow ==
  ASSUME IInv, NEW c \in Conns, pc[c] = "write"
  PROVE  /\ task[c] \in Task /\ task[c].cand \in Candidates
         /\ Rows(c)[task[c].cand] \in Row
         /\ Trail(c)[task[c].cand] \in Seq(Entry)
<1>1. task[c] \in Task /\ Exists(Rows(c)[task[c].cand])
  BY DEF IInv, CallType, TaskRowExists
<1>2. task[c].cand \in Candidates
  BY <1>1 DEF Task
<1>3. TableType(Rows(c), Trail(c))
  BY ViewIsGood DEF IInv, GoodTables
<1> QED BY <1>1, <1>2, <1>3 DEF TableType, Exists, NoRow

-----------------------------------------------------------------------------
(* The trail accounts for the row *)

\* A version of a row that a step makes is accounted for.
LEMMA StoryOfStep ==
  ASSUME IInv, StoryInv, NEW c \in Conns, NEW x \in Candidates,
         NEW r, NEW t, Becomes(c, x, r, t)
  PROVE  RowExplained(r, t)
<1>1. RowExplained(Rows(c)[x], Trail(c)[x])
  BY DEF StoryInv, Rows, Trail
<1>2. CASE \/ r = rows[x] /\ t = trail[x]
           \/ r = draftRows[x] /\ t = draftTrail[x]
  BY <1>2 DEF StoryInv
<1>3. CASE /\ ~Exists(Rows(c)[x])
           /\ r = ReceivedRow /\ t = Append(Trail(c)[x], InsertEntry)
  BY <1>1, <1>3, InsertedExplained
<1>4. CASE /\ pc[c] = "write" /\ x = task[c].cand
           /\ r = Updated(Rows(c)[x], task[c])
           /\ t = Append(Trail(c)[x], TaskEntry(task[c]))
  BY <1>1, <1>4, WritesARow, UpdatedExplained
<1> QED BY <1>2, <1>3, <1>4 DEF Becomes

\* The trail of a candidate accounts for its row, in what is committed and in
\* what the writer would commit: for any number of connections, however their
\* reads and writes interleave, are rolled back or left open.
THEOREM TrailAccountsForRow == Spec => []TrailExplainsRow
<1>1. Init => StoryInv
  BY DEF Init, StoryInv, RowExplained, NoRow, Exists
<1>2. IInv /\ StoryInv /\ [Next]_vars => StoryInv'
  <2> SUFFICES ASSUME IInv, StoryInv, [Next]_vars
               PROVE  StoryInv'
    OBVIOUS
  <2>1. ASSUME NEW c \in Conns, Request(c) \/ Step(c) \/ Crash(c)
        PROVE  StoryInv'
    <3> SUFFICES ASSUME NEW x \in Candidates
                 PROVE  /\ RowExplained(rows'[x], trail'[x])
                        /\ RowExplained(draftRows'[x], draftTrail'[x])
      BY DEF StoryInv
    <3>1. RowStep(c, x)
      BY <2>1, EffectOfStep, EffectOnRow
    <3>2. RowExplained(draftRows'[x], draftTrail'[x])
      BY <3>1, StoryOfStep DEF RowStep
    <3> QED BY <3>1, <3>2 DEF RowStep, StoryInv
  <2>2. CASE UNCHANGED vars
    BY <2>2 DEF StoryInv, vars, tables
  <2> QED BY <2>1, <2>2 DEF Next
<1>3. IInv /\ StoryInv => TrailExplainsRow
  <2> SUFFICES ASSUME IInv, StoryInv, NEW x \in Candidates
               PROVE  /\ Explains(trail[x], rows[x])
                      /\ Explains(draftTrail[x], draftRows[x])
    BY DEF TrailExplainsRow
  <2>1. trail[x] \in Seq(Entry) /\ draftTrail[x] \in Seq(Entry)
    BY DEF IInv, StoreInv, StoreType, TableType
  <2> QED BY <2>1, ExplainedExplains DEF StoryInv
<1> QED BY <1>1, <1>2, <1>3, LedgerInvariant, PTL DEF Spec

-----------------------------------------------------------------------------
(* One connection: the recorded history is legal *)

\* With two connections a transition may overwrite the state another one
\* wrote after its read: what follows needs a single connection.
OneConn == \A c, d \in Conns : c = d

\* The trail is a legal walk that ends where the row is.
RowLegal(r, t) ==
  /\ RowExplained(r, t)
  /\ Chained(t) /\ Quiet(t)
  /\ Exists(r) => t[Len(t)].to = r.state

\* What the task under way read is still so, and its guards still hold.
TaskFits(r, k) ==
  /\ k.seen = r.state
  /\ k.op = "transition" => r.marks = {} /\ CanTransition(k.seen, k.to)
  /\ k.op # "transition" => k.to = k.seen
  /\ k.op = "revoke" => "erased_at" \notin r.marks

\* The draft keeps a terminal state that is committed.
Settled(r, d) == r.state \in TERMINAL_STATES => d.state = r.state

SerialInv ==
  /\ \A x \in Candidates : /\ RowLegal(rows[x], trail[x])
                           /\ RowLegal(draftRows[x], draftTrail[x])
                           /\ Settled(rows[x], draftRows[x])
  /\ \A c \in Conns : pc[c] = "write" => TaskFits(Rows(c)[task[c].cand], task[c])

\* The call that leaves a connection about to write leaves the tables alone
\* and has just read the row.
LEMMA ReadsFit ==
  ASSUME IInv, NEW c \in Conns, Request(c) \/ Step(c) \/ Crash(c),
         pc'[c] = "write"
  PROVE  /\ UNCHANGED tables
         /\ TaskFits(Rows(c)[task'[c].cand], task'[c])
<1>1. pc \in [Conns -> {"idle", "lookup", "insert", "write"}]
      /\ task \in [Conns -> Task \cup {NoTask}]
  BY DEF IInv, CallType
<1>2. Request(c)
  <2>1. ~Crash(c)
    BY <1>1 DEF Crash
  <2>2. ~Step(c)
    BY <1>1 DEF Step, LookupHit, RejectAmbiguous, LookupMiss, InsertRow, InsertConflict,
                ReturnSubmit, RaiseSubmit, WriteTask, RaiseTask, CommitSubmitFails,
                CommitTaskFails, Report, EndSubmit, EndTask
  <2> QED BY <2>1, <2>2
<1>3. PICK x \in Candidates :
        \/ \E to \in Targets, bump \in {0, 1} : ReadForTransition(c, x, to, bump)
        \/ ReadForRevoke(c, x)
        \/ ReadForErase(c, x)
  BY <1>1, <1>2 DEF Request, BeginSubmit
<1>4. ASSUME NEW to \in Targets, NEW bump \in {0, 1}, ReadForTransition(c, x, to, bump)
      PROVE  /\ UNCHANGED tables
             /\ TaskFits(Rows(c)[task'[c].cand], task'[c])
  BY <1>1, <1>4 DEF ReadForTransition, BeginTask, TaskFits
<1>5. CASE ReadForRevoke(c, x)
  BY <1>1, <1>5 DEF ReadForRevoke, BeginTask, TaskFits
<1>6. CASE ReadForErase(c, x)
  BY <1>1, <1>6 DEF ReadForErase, BeginTask, TaskFits
<1> QED BY <1>3, <1>4, <1>5, <1>6

\* Inserting starts a legal walk.
LEMMA InsertedLegal ==
  ASSUME NEW r, NEW t, ~Exists(r), RowLegal(r, t)
  PROVE  RowLegal(ReceivedRow, Append(t, InsertEntry))
<1>1. RowExplained(r, t) /\ t = <<>>
  BY DEF RowLegal, RowExplained
<1>2. Append(t, InsertEntry) = <<InsertEntry>>
  BY <1>1
<1>3. RowExplained(ReceivedRow, Append(t, InsertEntry))
  BY <1>1, InsertedExplained
<1>4. Chained(<<InsertEntry>>) /\ Quiet(<<InsertEntry>>)
  BY DEF Chained, Quiet
<1>5. <<InsertEntry>>[Len(<<InsertEntry>>)].to = ReceivedRow.state
  BY DEF InsertEntry, ReceivedRow
<1> QED BY <1>2, <1>3, <1>4, <1>5 DEF RowLegal

\* The write of a task whose reading still fits goes on with the walk.
LEMMA UpdatedLegal ==
  ASSUME NEW r \in Row, NEW t \in Seq(Entry), NEW k \in Task,
         RowLegal(r, t), TaskFits(r, k)
  PROVE  RowLegal(Updated(r, k), Append(t, TaskEntry(k)))
<1> DEFINE e == TaskEntry(k)
           s == Append(t, e)
           n == Len(t)
           q == Updated(r, k)
<1>1. e \in Entry /\ e.kind = k.op /\ e.to = k.to /\ e.from = r.state
  BY DEF TaskEntry, Entry, Task, TaskFits
<1>2. /\ s # <<>> /\ DOMAIN s = 1..(n + 1) /\ Len(s) = n + 1
      /\ DOMAIN t = 1..n /\ n \in Nat
      /\ s[n + 1] = e /\ \A i \in DOMAIN t : s[i] = t[i]
  BY <1>1, AppendProperties
<1>3. Exists(r)
  BY DEF Exists, Row, ProcessingState
<1>4. RowExplained(r, t) /\ t # <<>> /\ n >= 1 /\ t[n].to = r.state
  BY <1>2, <1>3 DEF RowLegal, RowExplained
<1>5. /\ ("revoked_at" \in r.marks) <=> \E i \in DOMAIN t : t[i].kind = "revoke"
      /\ ("erased_at" \in r.marks) <=> \E i \in DOMAIN t : t[i].kind = "erase"
  BY <1>3, <1>4 DEF RowExplained
<1>6. RowExplained(q, s)
  BY <1>4, UpdatedExplained
<1>7. e.from = t[n].to
      /\ IF e.kind = "transition" THEN CanTransition(t[n].to, e.to) ELSE e.to = t[n].to
  BY <1>1, <1>4 DEF TaskFits
<1>8. Chained(s)
  <2> SUFFICES ASSUME NEW i \in 1..n
               PROVE  /\ s[i + 1].from = s[i].to
                      /\ IF s[i + 1].kind = "transition"
                           THEN CanTransition(s[i].to, s[i + 1].to)
                           ELSE s[i + 1].to = s[i].to
    BY <1>2 DEF Chained
  <2>1. CASE i = n
    <3> HIDE DEF e, s, n
    <3> QED BY <1>2, <1>4, <1>7, <2>1
  <2>2. CASE i # n
    <3>1. i \in 1..(n - 1) /\ i \in DOMAIN t /\ i + 1 \in DOMAIN t
      BY <1>2, <2>2
    <3>2. /\ t[i + 1].from = t[i].to
          /\ IF t[i + 1].kind = "transition"
               THEN CanTransition(t[i].to, t[i + 1].to)
               ELSE t[i + 1].to = t[i].to
      BY <3>1 DEF RowLegal, Chained
    <3> HIDE DEF e, s, n
    <3> QED BY <1>2, <3>1, <3>2
  <2> QED BY <2>1, <2>2
<1>9. Quiet(s)
  <2> SUFFICES ASSUME NEW i \in DOMAIN s, NEW j \in DOMAIN s, i < j
               PROVE  /\ s[i].kind # "transition" => s[j].kind # "transition"
                      /\ s[i].kind = "erase" => s[j].kind = "erase"
    BY DEF Quiet
  <2>1. i \in DOMAIN t /\ s[i] = t[i] /\ t[i] \in Entry
    BY <1>2
  <2>2. t[i].kind \in {"transition", "revoke", "erase"}
    BY <2>1 DEF Entry
  <2>3. CASE j \in DOMAIN t
    <3>1. s[j] = t[j]
      BY <1>2, <2>3
    <3>2. /\ t[i].kind # "transition" => t[j].kind # "transition"
          /\ t[i].kind = "erase" => t[j].kind = "erase"
      BY <2>1, <2>3 DEF RowLegal, Quiet
    <3> HIDE DEF s
    <3> QED BY <2>1, <3>1, <3>2
  <2>4. CASE j \notin DOMAIN t
    <3>1. s[j] = e
      BY <1>2, <2>4
    <3>2. t[i].kind # "transition" => e.kind # "transition"
      <4>1. t[i].kind # "transition" => r.marks # {}
        BY <1>5, <2>1, <2>2
      <4> QED BY <1>1, <4>1 DEF TaskFits
    <3>3. t[i].kind = "erase" => e.kind = "erase"
      <4>1. t[i].kind = "erase" => "erased_at" \in r.marks
        BY <1>5, <2>1
      <4>2. k.op \in {"transition", "revoke", "erase"}
        BY DEF Task
      <4>3. "erased_at" \in r.marks => k.op = "erase"
        BY <4>2 DEF TaskFits
      <4> QED BY <1>1, <4>1, <4>3
    <3> HIDE DEF e, s
    <3> QED BY <2>1, <3>1, <3>2, <3>3
  <2> QED BY <2>3, <2>4
<1>10. s[Len(s)].to = q.state
  <2>1. q.state = k.to
    <3>1. k.op \in {"transition", "revoke", "erase"}
      BY DEF Task
    <3>2. CASE k.op = "transition"
      BY <3>2 DEF Updated, Row
    <3>3. CASE k.op = "revoke"
      BY <3>3 DEF Updated, Row, TaskFits
    <3>4. CASE k.op = "erase"
      BY <3>4 DEF Updated, Row, TaskFits
    <3> QED BY <3>1, <3>2, <3>3, <3>4
  <2> HIDE DEF e, s, n, q
  <2> QED BY <1>1, <1>2, <2>1
<1> HIDE DEF e, s, n, q
<1> QED BY <1>6, <1>8, <1>9, <1>10 DEF RowLegal, e, s, q

\* With one connection the versions a step makes are legal.
LEMMA LegalStep ==
  ASSUME IInv, SerialInv, NEW c \in Conns, NEW x \in Candidates,
         NEW r, NEW t, Becomes(c, x, r, t)
  PROVE  RowLegal(r, t)
<1>1. RowLegal(Rows(c)[x], Trail(c)[x])
  BY DEF SerialInv, Rows, Trail
<1>2. CASE \/ r = rows[x] /\ t = trail[x]
           \/ r = draftRows[x] /\ t = draftTrail[x]
  BY <1>2 DEF SerialInv
<1>3. CASE /\ ~Exists(Rows(c)[x])
           /\ r = ReceivedRow /\ t = Append(Trail(c)[x], InsertEntry)
  BY <1>1, <1>3, InsertedLegal
<1>4. CASE /\ pc[c] = "write" /\ x = task[c].cand
           /\ r = Updated(Rows(c)[x], task[c])
           /\ t = Append(Trail(c)[x], TaskEntry(task[c]))
  <2>1. TaskFits(Rows(c)[x], task[c])
    BY <1>4 DEF SerialInv
  <2> QED BY <1>1, <1>4, <2>1, WritesARow, UpdatedLegal
<1> QED BY <1>2, <1>3, <1>4 DEF Becomes

\* A task leaves a terminal state alone.
LEMMA TerminalIsLeftAlone ==
  ASSUME NEW r \in Row, NEW k \in Task, TaskFits(r, k), r.state \in TERMINAL_STATES
  PROVE  Updated(r, k).state = r.state
<1>1. k.op # "transition"
  BY DEF TaskFits, CanTransition, TERMINAL_STATES
<1>2. k.op \in {"revoke", "erase"}
  BY <1>1 DEF Task
<1> QED BY <1>2 DEF Updated, Row

\* Nor does any other step change the state of a terminal row.
LEMMA TerminalStep ==
  ASSUME IInv, SerialInv, NEW c \in Conns, NEW x \in Candidates,
         writer \in {NoConn, c}, RowStep(c, x)
  PROVE  /\ Settled(rows[x], rows'[x])
         /\ Settled(rows'[x], draftRows'[x])
<1>1. Settled(rows[x], draftRows[x])
  BY DEF SerialInv
<1>2. /\ rows[x] \in Row \cup {NoRow}
      /\ draftRows[x] \in Row \cup {NoRow}
      /\ writer = NoConn => draftRows = rows
  BY DEF IInv, StoreInv, StoreType, TableType
<1>3. Rows(c)[x] = draftRows[x]
  BY <1>2 DEF Rows
<1>4. Settled(rows[x], draftRows'[x])
  <2> SUFFICES ASSUME rows[x].state \in TERMINAL_STATES
               PROVE  draftRows'[x].state = rows[x].state
    BY DEF Settled
  <2>1. draftRows[x].state = rows[x].state
    BY <1>1 DEF Settled
  <2>2. Exists(Rows(c)[x])
    BY <1>3, <2>1 DEF Exists, TERMINAL_STATES, ProcessingState
  <2>3. CASE \/ draftRows'[x] = rows[x]
             \/ draftRows'[x] = draftRows[x]
    BY <2>1, <2>3
  <2>4. CASE /\ pc[c] = "write" /\ x = task[c].cand
             /\ draftRows'[x] = Updated(Rows(c)[x], task[c])
    <3>1. TaskFits(Rows(c)[x], task[c])
      BY <2>4 DEF SerialInv
    <3>2. Updated(Rows(c)[x], task[c]).state = Rows(c)[x].state
      BY <1>3, <2>1, <2>4, <3>1, WritesARow, TerminalIsLeftAlone
    <3> QED BY <1>3, <2>1, <2>4, <3>2
  <2> QED BY <2>2, <2>3, <2>4 DEF RowStep, Becomes
<1> QED BY <1>4 DEF RowStep, Settled

\* With one connection the serial invariant is inductive, and no step
\* commits a move out of a terminal state.
LEMMA SerialGood ==
  ASSUME OneConn, IInv, SerialInv, [Next]_vars
  PROVE  /\ SerialInv'
         /\ \A x \in Candidates : Settled(rows[x], rows'[x])
<1>1. ASSUME NEW c \in Conns, Request(c) \/ Step(c) \/ Crash(c)
      PROVE  /\ SerialInv'
             /\ \A x \in Candidates : Settled(rows[x], rows'[x])
  <2>1. \A d \in Conns : d = c
    BY DEF OneConn
  <2>2. writer \in {NoConn, c}
    BY <2>1 DEF IInv, StoreInv, StoreType
  <2>3. ASSUME NEW x \in Candidates
        PROVE  /\ RowLegal(rows'[x], trail'[x])
               /\ RowLegal(draftRows'[x], draftTrail'[x])
               /\ Settled(rows'[x], draftRows'[x])
               /\ Settled(rows[x], rows'[x])
    <3>1. RowStep(c, x)
      BY <1>1, EffectOfStep, EffectOnRow
    <3>2. RowLegal(draftRows'[x], draftTrail'[x])
      BY <3>1, LegalStep DEF RowStep
    <3>3. RowLegal(rows'[x], trail'[x])
      BY <3>1, <3>2 DEF RowStep, SerialInv
    <3> QED BY <2>2, <3>1, <3>2, <3>3, TerminalStep
  <2>4. ASSUME NEW d \in Conns, pc'[d] = "write"
        PROVE  TaskFits(Rows(d)'[task'[d].cand], task'[d])
    <3>1. d = c
      BY <2>1
    <3>2. /\ UNCHANGED tables
          /\ TaskFits(Rows(c)[task'[c].cand], task'[c])
      BY <1>1, <2>4, <3>1, ReadsFit
    <3> QED BY <3>1, <3>2 DEF Rows, tables
  <2> QED BY <2>3, <2>4 DEF SerialInv
<1>2. CASE UNCHANGED vars
  <2>1. \A c \in Conns : Rows(c)' = Rows(c)
    BY <1>2 DEF Rows, vars, tables
  <2> QED BY <1>2, <2>1 DEF SerialInv, Settled, vars, tables, calls
<1> QED BY <1>1, <1>2 DEF Next

\* Likewise of any behaviour of one connection.
LEMMA SerialInvariant ==
  ASSUME OneConn
  PROVE  Spec => []SerialInv
<1>1. Init => SerialInv
  BY DEF Init, SerialInv, RowLegal, RowExplained, NoRow, Exists, Chained, Quiet,
         Settled
<1>2. IInv /\ SerialInv /\ [Next]_vars => SerialInv'
  BY SerialGood
<1> QED BY <1>1, <1>2, LedgerInvariant, PTL DEF Spec

\* With one connection every recorded history is a legal walk without a gap
\* that a revoke or an erase ends, across rollbacks, failed commits and
\* crashes.
THEOREM SerialHistoryIsLegal ==
  ASSUME OneConn
  PROVE  Spec => []HistoryIsLegal
<1>1. SerialInv => HistoryIsLegal
  BY DEF SerialInv, HistoryIsLegal, RowLegal
<1> QED BY <1>1, SerialInvariant, PTL

\* With one connection no committed step leaves a state without exits.
THEOREM SerialTerminalStatesAreFinal ==
  ASSUME OneConn
  PROVE  Spec => TerminalStatesAreFinal
<1>1. IInv /\ SerialInv /\ [Next]_vars =>
        [\A x \in Candidates :
           rows[x].state \in TERMINAL_STATES => rows'[x].state = rows[x].state]_vars
  BY SerialGood DEF Settled
<1> QED BY <1>1, LedgerInvariant, SerialInvariant, PTL DEF Spec, TerminalStatesAreFinal
=============================================================================
