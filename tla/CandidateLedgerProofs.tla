------------------------ MODULE CandidateLedgerProofs ------------------------
(***************************************************************************)
(* Theorems of CandidateLedger for any number of connections, candidates   *)
(* and keys, any batches, and any bounds.                                  *)
(***************************************************************************)
EXTENDS CandidateLedger, SequenceTheorems, TLAPS

\* The two halves of TypeOK: the tables and the writer lock, and the calls.
StoreType ==
  /\ TableType(rows, trail)
  /\ TableType(draftRows, draftTrail)
  /\ writer \in Conns \cup {NoConn}
  /\ writer = NoConn => draftRows = rows /\ draftTrail = trail

CallType ==
  /\ pc \in [Conns -> {"idle", "lookup", "insert", "write"}]
  /\ todo \in [Conns -> Seq(Candidates)]
  /\ outcomes \in [Conns -> Seq(Outcome)]
  /\ task \in [Conns -> Task \cup {NoTask}]
  /\ told \in [Candidates -> {"none", "received", "raised"}]
  /\ \A c \in Conns : /\ pc[c] = "insert" => todo[c] # <<>>
                      /\ pc[c] = "write" => task[c] \in Task

LEMMA TypeHalves == TypeOK <=> StoreType /\ CallType
BY DEF TypeOK, StoreType, CallType


TablesGrow(r1, t1, r2, t2) ==
  \A x \in Candidates : RowGrows(r1[x], r2[x]) /\ TrailGrows(t1[x], t2[x])

\* The tables half of the inductive invariant.  What the writer would commit
\* extends what is committed; without this, COMMIT could take a row back.
StoreInv ==
  /\ StoreType
  /\ TablesGrow(rows, trail, draftRows, draftTrail)
  /\ LiveKeyUnique

\* A row that was read is still there when it is written; without this,
\* the UPDATE of a revoke could make a row out of nothing.
TaskRowExists ==
  \A c \in Conns : pc[c] = "write" => Exists(Rows(c)[task[c].cand])

IInv == StoreInv /\ CallType /\ TaskRowExists

-----------------------------------------------------------------------------
(* Every action's effect on the tables is one of these. *)

\* Tables connection c may stage or publish.
GoodTables(c, r, t) ==
  /\ TableType(r, t)
  /\ KeyUnique(r)
  /\ TablesGrow(Rows(c), Trail(c), r, t)

StoreStep(c) ==
  \/ UNCHANGED tables
  \/ Commit(c)
  \/ Rollback(c)
  \/ \E r, t : GoodTables(c, r, t) /\ (Publish(c, r, t) \/ Stage(c, r, t))

\* What the others see of the tables only grows.
OthersSeeGrowth(c) ==
  \A d \in Conns \ {c} : \A x \in Candidates :
    Exists(Rows(d)[x]) => Exists(Rows(d)'[x])


LEMMA GrowthReflexive ==
  ASSUME NEW r, NEW t, TableType(r, t)
  PROVE  TablesGrow(r, t, r, t)
<1> SUFFICES ASSUME NEW x \in Candidates
             PROVE  RowGrows(r[x], r[x]) /\ TrailGrows(t[x], t[x])
  BY DEF TablesGrow
<1>1. t[x] \in Seq(Entry)
  BY DEF TableType
<1> QED BY <1>1 DEF RowGrows, TrailGrows

LEMMA GrowthTransitive ==
  ASSUME NEW r1, NEW t1, NEW r2, NEW t2, NEW r3, NEW t3,
         TableType(r1, t1), TableType(r2, t2), TableType(r3, t3),
         TablesGrow(r1, t1, r2, t2), TablesGrow(r2, t2, r3, t3)
  PROVE  TablesGrow(r1, t1, r3, t3)
<1> SUFFICES ASSUME NEW x \in Candidates
             PROVE  RowGrows(r1[x], r3[x]) /\ TrailGrows(t1[x], t3[x])
  BY DEF TablesGrow
<1>1. RowGrows(r1[x], r2[x]) /\ RowGrows(r2[x], r3[x])
  BY DEF TablesGrow
<1>2. RowGrows(r1[x], r3[x])
  BY <1>1 DEF RowGrows
<1>3. TrailGrows(t1[x], t2[x]) /\ TrailGrows(t2[x], t3[x])
  BY DEF TablesGrow
<1>4. t1[x] \in Seq(Entry) /\ t2[x] \in Seq(Entry) /\ t3[x] \in Seq(Entry)
  BY DEF TableType
<1>5. TrailGrows(t1[x], t3[x])
  BY <1>3, <1>4 DEF TrailGrows
<1> QED BY <1>2, <1>5

\* A connection's view is good for it to publish, and extends what is
\* committed.
LEMMA ViewIsGood ==
  ASSUME StoreInv, NEW c \in Conns
  PROVE  /\ GoodTables(c, Rows(c), Trail(c))
         /\ TablesGrow(rows, trail, Rows(c), Trail(c))
<1>1. TableType(rows, trail) /\ TableType(draftRows, draftTrail)
  BY DEF StoreInv, StoreType
<1>2. TableType(Rows(c), Trail(c)) /\ KeyUnique(Rows(c))
  BY <1>1 DEF StoreInv, LiveKeyUnique, Rows, Trail
<1>3. TablesGrow(Rows(c), Trail(c), Rows(c), Trail(c))
  BY <1>2, GrowthReflexive
<1>4. TablesGrow(rows, trail, rows, trail)
  BY <1>1, GrowthReflexive
<1>5. TablesGrow(rows, trail, Rows(c), Trail(c))
  BY <1>4 DEF StoreInv, Rows, Trail
<1> QED BY <1>2, <1>3, <1>5 DEF GoodTables

\* Publishing good tables keeps the invariant and takes nothing back.
LEMMA PublishGood ==
  ASSUME StoreInv, NEW c \in Conns, NEW r, NEW t,
         TableType(r, t), KeyUnique(r), TablesGrow(rows, trail, r, t),
         Publish(c, r, t)
  PROVE  /\ StoreInv'
         /\ TablesGrow(rows, trail, rows', trail')
         /\ OthersSeeGrowth(c)
<1>1. /\ writer \in {NoConn, c} /\ writer' = NoConn
      /\ rows' = r /\ trail' = t /\ draftRows' = r /\ draftTrail' = t
  BY DEF Publish, CanWrite
<1>2. StoreType'
  BY <1>1 DEF StoreInv, StoreType, TableType
<1>3. TablesGrow(r, t, r, t)
  BY GrowthReflexive
<1>4. TablesGrow(rows, trail, draftRows, draftTrail)'
  BY <1>1, <1>3 DEF TablesGrow
<1>5. LiveKeyUnique'
  BY <1>1 DEF LiveKeyUnique, KeyUnique
<1>6. TablesGrow(rows, trail, rows', trail')
  BY <1>1
<1>7. OthersSeeGrowth(c)
  <2> SUFFICES ASSUME NEW d \in Conns \ {c}, NEW x \in Candidates,
                      Exists(Rows(d)[x])
               PROVE  Exists(Rows(d)'[x])
    BY DEF OthersSeeGrowth
  <2>1. Rows(d) = rows /\ Rows(d)' = rows'
    BY <1>1, ConnsAssumption DEF Rows
  <2> QED BY <2>1, <1>6 DEF TablesGrow, RowGrows
<1> QED BY <1>2, <1>4, <1>5, <1>6, <1>7 DEF StoreInv

\* Likewise for staging them.
LEMMA StageGood ==
  ASSUME StoreInv, NEW c \in Conns, NEW r, NEW t,
         TableType(r, t), KeyUnique(r), TablesGrow(rows, trail, r, t),
         Stage(c, r, t)
  PROVE  /\ StoreInv'
         /\ TablesGrow(rows, trail, rows', trail')
         /\ OthersSeeGrowth(c)
<1>1. /\ writer \in {NoConn, c} /\ writer' = c
      /\ rows' = rows /\ trail' = trail /\ draftRows' = r /\ draftTrail' = t
  BY DEF Stage, CanWrite
<1>2. StoreType'
  BY <1>1, ConnsAssumption DEF StoreInv, StoreType, TableType
<1>3. TablesGrow(rows, trail, draftRows, draftTrail)'
  BY <1>1 DEF TablesGrow
<1>4. LiveKeyUnique'
  BY <1>1 DEF StoreInv, LiveKeyUnique, KeyUnique
<1>5. TablesGrow(rows, trail, rows', trail')
  BY <1>1, GrowthReflexive DEF StoreInv, StoreType
<1>6. OthersSeeGrowth(c)
  BY <1>1, ConnsAssumption DEF OthersSeeGrowth, Rows
<1> QED BY <1>2, <1>3, <1>4, <1>5, <1>6 DEF StoreInv

LEMMA UnchangedGood ==
  ASSUME StoreInv, NEW c \in Conns, UNCHANGED tables
  PROVE  /\ StoreInv'
         /\ TablesGrow(rows, trail, rows', trail')
         /\ OthersSeeGrowth(c)
<1>1. TablesGrow(rows, trail, rows', trail')
  BY GrowthReflexive DEF StoreInv, StoreType, tables
<1>2. StoreInv'
  BY DEF StoreInv, StoreType, TablesGrow, LiveKeyUnique, KeyUnique, TableType,
         tables
<1>3. OthersSeeGrowth(c)
  BY DEF OthersSeeGrowth, Rows, tables
<1> QED BY <1>1, <1>2, <1>3

LEMMA StoreStepGood ==
  ASSUME StoreInv, NEW c \in Conns, StoreStep(c)
  PROVE  /\ StoreInv'
         /\ TablesGrow(rows, trail, rows', trail')
         /\ OthersSeeGrowth(c)
<1>1. CASE UNCHANGED tables
  BY <1>1, UnchangedGood
<1>2. CASE Commit(c)
  <2>1. CASE writer = c
    <3>1. Publish(c, Rows(c), Trail(c))
      BY <1>2, <2>1 DEF Commit, Rows, Trail
    <3> QED BY <3>1, ViewIsGood, PublishGood DEF GoodTables
  <2>2. CASE writer # c
    BY <1>2, <2>2, UnchangedGood DEF Commit
  <2> QED BY <2>1, <2>2
<1>3. CASE Rollback(c)
  <2>1. CASE writer = c
    <3>1. Publish(c, rows, trail)
      BY <1>3, <2>1 DEF Rollback
    <3>2. TableType(rows, trail) /\ KeyUnique(rows)
      BY DEF StoreInv, StoreType, LiveKeyUnique
    <3> QED BY <3>1, <3>2, GrowthReflexive, PublishGood
  <2>2. CASE writer # c
    BY <1>3, <2>2, UnchangedGood DEF Rollback
  <2> QED BY <2>1, <2>2
<1>4. ASSUME NEW r, NEW t, GoodTables(c, r, t), Publish(c, r, t) \/ Stage(c, r, t)
      PROVE  /\ StoreInv'
             /\ TablesGrow(rows, trail, rows', trail')
             /\ OthersSeeGrowth(c)
  <2>1. TableType(r, t) /\ KeyUnique(r) /\ TablesGrow(Rows(c), Trail(c), r, t)
    BY <1>4 DEF GoodTables
  <2>2. TablesGrow(rows, trail, Rows(c), Trail(c)) /\ TableType(Rows(c), Trail(c))
    BY ViewIsGood DEF GoodTables
  <2>3. TablesGrow(rows, trail, r, t)
    BY <2>1, <2>2, GrowthTransitive DEF StoreInv, StoreType
  <2> QED BY <1>4, <2>1, <2>3, PublishGood, StageGood
<1> QED BY <1>1, <1>2, <1>3, <1>4 DEF StoreStep

-----------------------------------------------------------------------------
(* The tables INSERT and UPDATE make are good. *)

LEMMA AppendGrows ==
  ASSUME NEW s \in Seq(Entry), NEW e \in Entry
  PROVE  Append(s, e) \in Seq(Entry) /\ TrailGrows(s, Append(s, e))
BY AppendProperties DEF TrailGrows

LEMMA InsertIsGood ==
  ASSUME StoreInv, NEW c \in Conns, NEW x \in Candidates, ~Conflict(Rows(c), x)
  PROVE  GoodTables(c, [Rows(c) EXCEPT ![x] = ReceivedRow],
                       [Trail(c) EXCEPT ![x] =
                          Append(@, [kind |-> "transition", from |-> "NONE",
                                     to |-> "RECEIVED"])])
<1> DEFINE e == [kind |-> "transition", from |-> "NONE", to |-> "RECEIVED"]
           r == [Rows(c) EXCEPT ![x] = ReceivedRow]
           t == [Trail(c) EXCEPT ![x] = Append(@, e)]
<1>1. TableType(Rows(c), Trail(c)) /\ KeyUnique(Rows(c))
  BY ViewIsGood DEF GoodTables
<1>2. ReceivedRow \in Row /\ e \in Entry
  BY DEF ReceivedRow, Row, Entry, ProcessingState
<1>3. Trail(c)[x] \in Seq(Entry)
  BY <1>1 DEF TableType
<1>4. Append(Trail(c)[x], e) \in Seq(Entry)
      /\ TrailGrows(Trail(c)[x], Append(Trail(c)[x], e))
  BY <1>2, <1>3, AppendGrows
<1>5. TableType(r, t)
  BY <1>1, <1>2, <1>4 DEF TableType
<1>6. KeyUnique(r)
  BY <1>1 DEF KeyUnique, TableType, Conflict, LiveKey
<1>7. Rows(c)[x] = NoRow
  BY <1>1 DEF TableType, Conflict, Exists, Row, ProcessingState
<1>8. TablesGrow(Rows(c), Trail(c), r, t)
  <2> SUFFICES ASSUME NEW y \in Candidates
               PROVE  RowGrows(Rows(c)[y], r[y]) /\ TrailGrows(Trail(c)[y], t[y])
    BY DEF TablesGrow
  <2>1. CASE y = x
    BY <2>1, <1>1, <1>4, <1>7 DEF TableType, RowGrows, NoRow, Exists, ReceivedRow
  <2>2. CASE y # x
    <3>1. r[y] = Rows(c)[y] /\ t[y] = Trail(c)[y]
      BY <1>1, <2>2 DEF TableType
    <3> QED BY <3>1, <1>1, GrowthReflexive DEF TablesGrow
  <2> QED BY <2>1, <2>2
<1> QED BY <1>5, <1>6, <1>8 DEF GoodTables

\* A row a task updates keeps its type, grows, and is live only if it was.
LEMMA UpdatedRow ==
  ASSUME NEW r \in Row, NEW t \in Task
  PROVE  /\ Updated(r, t) \in Row
         /\ RowGrows(r, Updated(r, t))
         /\ IsLive(Updated(r, t)) => IsLive(r)
<1>1. CASE t.op = "transition"
  <2>1. Updated(r, t) = [r EXCEPT !.state = t.to, !.retries = t.retries]
    BY <1>1 DEF Updated
  <2> QED BY <2>1 DEF Row, Task, RowGrows, IsLive, Exists, ProcessingState
<1>2. CASE t.op = "revoke"
  <2>1. Updated(r, t) = [r EXCEPT !.marks = @ \cup {"revoked_at"}]
    BY <1>2 DEF Updated
  <2> QED BY <2>1 DEF Row, RowGrows, IsLive, Exists, Marks
<1>3. CASE t.op = "erase"
  <2>1. Updated(r, t) =
          [r EXCEPT !.marks = @ \cup {"erased_at"}, !.payload = "null"]
    BY <1>3 DEF Updated
  <2> QED BY <2>1, ZenonT(60) DEF Row, RowGrows, IsLive, Exists, Marks
<1> QED BY <1>1, <1>2, <1>3 DEF Task

LEMMA UpdateIsGood ==
  ASSUME StoreInv, NEW c \in Conns, task[c] \in Task,
         Exists(Rows(c)[task[c].cand])
  PROVE  GoodTables(c, RowsAfter(c), TrailAfter(c))
<1> DEFINE x == task[c].cand
           e == [kind |-> task[c].op, from |-> task[c].seen, to |-> task[c].to]
<1>1. TableType(Rows(c), Trail(c)) /\ KeyUnique(Rows(c))
  BY ViewIsGood DEF GoodTables
<1>2. x \in Candidates /\ e \in Entry
  BY DEF Task, Entry
<1>3. Rows(c)[x] \in Row /\ Trail(c)[x] \in Seq(Entry)
  BY <1>1, <1>2 DEF TableType, Exists, NoRow
<1>4. /\ Updated(Rows(c)[x], task[c]) \in Row
      /\ RowGrows(Rows(c)[x], Updated(Rows(c)[x], task[c]))
      /\ IsLive(Updated(Rows(c)[x], task[c])) => IsLive(Rows(c)[x])
  BY <1>3, UpdatedRow
<1>5. Append(Trail(c)[x], e) \in Seq(Entry)
      /\ TrailGrows(Trail(c)[x], Append(Trail(c)[x], e))
  BY <1>2, <1>3, AppendGrows
<1>6. TableType(RowsAfter(c), TrailAfter(c))
  BY <1>1, <1>2, <1>4, <1>5 DEF TableType, RowsAfter, TrailAfter
<1>7. KeyUnique(RowsAfter(c))
  <2>1. \A y \in Candidates : IsLive(RowsAfter(c)[y]) => IsLive(Rows(c)[y])
    BY <1>1, <1>4 DEF RowsAfter, TableType
  <2> QED BY <2>1, <1>1 DEF KeyUnique
<1>8. TablesGrow(Rows(c), Trail(c), RowsAfter(c), TrailAfter(c))
  <2> SUFFICES ASSUME NEW y \in Candidates
               PROVE  /\ RowGrows(Rows(c)[y], RowsAfter(c)[y])
                      /\ TrailGrows(Trail(c)[y], TrailAfter(c)[y])
    BY DEF TablesGrow
  <2>1. CASE y = x
    BY <2>1, <1>1, <1>4, <1>5 DEF TableType, RowsAfter, TrailAfter
  <2>2. CASE y # x
    <3>1. RowsAfter(c)[y] = Rows(c)[y] /\ TrailAfter(c)[y] = Trail(c)[y]
      BY <1>1, <2>2 DEF TableType, RowsAfter, TrailAfter
    <3> QED BY <3>1, <1>1, GrowthReflexive DEF TablesGrow
  <2> QED BY <2>1, <2>2
<1> QED BY <1>6, <1>7, <1>8 DEF GoodTables

-----------------------------------------------------------------------------
(* The calls half of the invariant, action by action. *)

\* What an action of connection c does to the calls: the others' are left
\* alone, and c is left to write only with a row that exists.
CallStep(c) ==
  /\ CallType'
  /\ \A d \in Conns \ {c} : pc'[d] = pc[d] /\ task'[d] = task[d]
  /\ pc'[c] = "write" =>
       /\ UNCHANGED tables
       /\ task'[c] \in Task
       /\ Exists(Rows(c)[task'[c].cand])

LEMMA StepsCompose ==
  ASSUME IInv, NEW c \in Conns, StoreStep(c), CallStep(c)
  PROVE  IInv' /\ TablesGrow(rows, trail, rows', trail')
<1>1. StoreInv' /\ TablesGrow(rows, trail, rows', trail') /\ OthersSeeGrowth(c)
  BY StoreStepGood DEF IInv
<1>2. TaskRowExists'
  <2> SUFFICES ASSUME NEW d \in Conns, pc'[d] = "write"
               PROVE  Exists(Rows(d)'[task'[d].cand])
    BY DEF TaskRowExists
  <2>1. CASE d = c
    BY <2>1 DEF CallStep, Rows, tables
  <2>2. CASE d # c
    <3>1. pc[d] = "write" /\ task'[d] = task[d] /\ task[d] \in Task
      BY <2>2 DEF CallStep, IInv, CallType
    <3>2. Exists(Rows(d)[task[d].cand]) /\ task[d].cand \in Candidates
      BY <3>1 DEF IInv, TaskRowExists, Task
    <3> QED BY <1>1, <2>2, <3>1, <3>2 DEF OthersSeeGrowth
  <2> QED BY <2>1, <2>2
<1> QED BY <1>1, <1>2 DEF IInv, CallStep

LEMMA InitGood == Init => IInv
<1> SUFFICES ASSUME Init PROVE IInv
  OBVIOUS
<1>1. StoreType
  BY DEF Init, StoreType, TableType
<1>2. TablesGrow(rows, trail, draftRows, draftTrail)
  BY <1>1, GrowthReflexive DEF Init, StoreType
<1>3. LiveKeyUnique
  BY DEF Init, LiveKeyUnique, KeyUnique, IsLive, Exists, NoRow
<1>4. CallType
  BY DEF Init, CallType
<1>5. TaskRowExists
  BY DEF Init, TaskRowExists
<1> QED BY <1>1, <1>2, <1>3, <1>4, <1>5 DEF IInv, StoreInv

LEMMA BeginSubmitGood ==
  ASSUME IInv, NEW c \in Conns, NEW batch \in Batches, BeginSubmit(c, batch)
  PROVE  StoreStep(c) /\ CallStep(c)
BY BatchesAssumption
   DEF IInv, CallType, BeginSubmit, StoreStep, CallStep, tables

\* Report leaves a well-typed call that is not about to write.
LEMMA ReportGood ==
  ASSUME CallType, NEW c \in Conns, todo[c] # <<>>,
         NEW status \in {"RECEIVED", "DUPLICATE", "INVALID"},
         Report(c, status), told' \in [Candidates -> {"none", "received", "raised"}]
  PROVE  CallStep(c)
<1>1. Head(todo[c]) \in Candidates /\ Tail(todo[c]) \in Seq(Candidates)
  BY HeadTailProperties DEF CallType
<1>2. [cand |-> Head(todo[c]), status |-> status] \in Outcome
  BY <1>1 DEF Outcome
<1>3. Append(outcomes[c], [cand |-> Head(todo[c]), status |-> status])
        \in Seq(Outcome)
  BY <1>2, AppendProperties DEF CallType
<1> QED BY <1>1, <1>3 DEF CallType, Report, CallStep

LEMMA ReportingStepsGood ==
  ASSUME IInv, NEW c \in Conns,
         \/ LookupHit(c)
         \/ RejectAmbiguous(c)
         \/ InsertRow(c)
         \/ InsertConflict(c)
  PROVE  StoreStep(c) /\ CallStep(c)
<1>1. CASE LookupHit(c)
  BY <1>1, ReportGood DEF IInv, CallType, LookupHit, Looking, StoreStep
<1>2. CASE RejectAmbiguous(c)
  BY <1>2, ReportGood DEF IInv, CallType, RejectAmbiguous, Looking, StoreStep
<1>3. CASE InsertRow(c)
  <2> DEFINE x == Head(todo[c])
             r == [Rows(c) EXCEPT ![x] = ReceivedRow]
             t == [Trail(c) EXCEPT ![x] =
                     Append(@, [kind |-> "transition", from |-> "NONE",
                                to |-> "RECEIVED"])]
  <2>1. todo[c] # <<>> /\ todo[c] \in Seq(Candidates)
    BY <1>3 DEF IInv, CallType, InsertRow
  <2>2. x \in Candidates
    BY <2>1, HeadTailProperties
  <2>3. /\ ~Conflict(Rows(c), x) /\ Stage(c, r, t) /\ Report(c, "RECEIVED")
        /\ told' = [told EXCEPT ![x] = "none"]
    BY <1>3 DEF InsertRow
  <2>4. GoodTables(c, r, t)
    BY <2>2, <2>3, InsertIsGood DEF IInv
  <2>5. StoreStep(c)
    BY <2>3, <2>4 DEF StoreStep
  <2>6. told' \in [Candidates -> {"none", "received", "raised"}]
    BY <2>3 DEF IInv, CallType
  <2> QED BY <2>1, <2>3, <2>5, <2>6, ReportGood DEF IInv
<1>4. CASE InsertConflict(c)
  <2>1. Stage(c, Rows(c), Trail(c)) /\ Report(c, "DUPLICATE")
        /\ UNCHANGED told /\ todo[c] # <<>>
    BY <1>4 DEF InsertConflict, IInv, CallType
  <2>2. StoreStep(c)
    BY <2>1, ViewIsGood DEF StoreStep, IInv
  <2> QED BY <2>1, <2>2, ReportGood DEF IInv, CallType
<1> QED BY <1>1, <1>2, <1>3, <1>4

LEMMA LookupMissGood ==
  ASSUME IInv, NEW c \in Conns, LookupMiss(c)
  PROVE  StoreStep(c) /\ CallStep(c)
BY DEF IInv, CallType, LookupMiss, Looking, StoreStep, CallStep, tables

LEMMA EndSubmitGood ==
  ASSUME CallType, NEW c \in Conns, NEW word \in {"received", "raised"},
         EndSubmit(c, word)
  PROVE  CallStep(c)
BY DEF CallType, EndSubmit, CallStep

LEMMA EndingStepsGood ==
  ASSUME IInv, NEW c \in Conns,
         \/ ReturnSubmit(c)
         \/ RaiseSubmit(c)
         \/ \E fault \in CommitFaults : CommitSubmitFails(c, fault)
  PROVE  StoreStep(c) /\ CallStep(c)
<1>1. CASE ReturnSubmit(c)
  BY <1>1, EndSubmitGood DEF IInv, ReturnSubmit, StoreStep
<1>2. CASE RaiseSubmit(c)
  BY <1>2, EndSubmitGood DEF IInv, RaiseSubmit, StoreStep
<1>3. ASSUME NEW fault \in CommitFaults, CommitSubmitFails(c, fault)
      PROVE  StoreStep(c) /\ CallStep(c)
  BY <1>3, EndSubmitGood DEF IInv, CommitSubmitFails, StoreStep
<1> QED BY <1>1, <1>2, <1>3

LEMMA BeginTaskGood ==
  ASSUME IInv, NEW c \in Conns, NEW op \in {"transition", "revoke", "erase"},
         NEW x \in Candidates, NEW to \in ProcessingState, NEW n \in Nat,
         BeginTask(c, op, x, to, n)
  PROVE  StoreStep(c) /\ CallStep(c)
<1> DEFINE t == [op |-> op, cand |-> x, seen |-> Rows(c)[x].state, to |-> to,
                 retries |-> n]
<1>1. Rows(c)[x] \in Row
  BY ViewIsGood DEF IInv, GoodTables, TableType, BeginTask, Exists, NoRow
<1>2. t \in Task
  BY <1>1 DEF Task, Row
<1>3. /\ pc' = [pc EXCEPT ![c] = "write"] /\ task' = [task EXCEPT ![c] = t]
      /\ UNCHANGED <<tables, todo, outcomes, told>> /\ Exists(Rows(c)[x])
  BY DEF BeginTask
<1>4. StoreStep(c)
  BY <1>3 DEF StoreStep
<1>5. CallStep(c)
  BY <1>2, <1>3 DEF IInv, CallType, CallStep, tables
<1> QED BY <1>4, <1>5

LEMMA ReadingStepsGood ==
  ASSUME IInv, NEW c \in Conns, NEW x \in Candidates,
         \/ \E to \in Targets, bump \in {0, 1} : ReadForTransition(c, x, to, bump)
         \/ ReadForRevoke(c, x)
         \/ ReadForErase(c, x)
  PROVE  StoreStep(c) /\ CallStep(c)
<1>1. Rows(c)[x] \in Row \cup {NoRow}
  BY ViewIsGood DEF IInv, GoodTables, TableType
<1>2. Rows(c)[x].retries \in Nat
  BY <1>1 DEF Row, NoRow
<1>3. Exists(Rows(c)[x]) => Rows(c)[x].state \in ProcessingState
  BY <1>1 DEF Row, NoRow, Exists
<1>4. ASSUME NEW to \in Targets, NEW bump \in {0, 1},
             ReadForTransition(c, x, to, bump)
      PROVE  StoreStep(c) /\ CallStep(c)
  <2>1. BeginTask(c, "transition", x, to, Rows(c)[x].retries + bump)
    BY <1>4 DEF ReadForTransition
  <2>2. to \in ProcessingState /\ Rows(c)[x].retries + bump \in Nat
    BY <1>2, TargetsAssumption
  <2> QED BY <2>1, <2>2, BeginTaskGood
<1>5. CASE ReadForRevoke(c, x)
  <2>1. BeginTask(c, "revoke", x, Rows(c)[x].state, Rows(c)[x].retries)
    BY <1>5 DEF ReadForRevoke
  <2>2. Exists(Rows(c)[x])
    BY <2>1 DEF BeginTask
  <2> QED BY <2>1, <2>2, <1>2, <1>3, BeginTaskGood
<1>6. CASE ReadForErase(c, x)
  <2>1. BeginTask(c, "erase", x, Rows(c)[x].state, Rows(c)[x].retries)
    BY <1>6 DEF ReadForErase
  <2>2. Exists(Rows(c)[x])
    BY <2>1 DEF BeginTask
  <2> QED BY <2>1, <2>2, <1>2, <1>3, BeginTaskGood
<1> QED BY <1>4, <1>5, <1>6

LEMMA EndTaskGood ==
  ASSUME CallType, NEW c \in Conns, EndTask(c)
  PROVE  CallStep(c)
BY DEF CallType, EndTask, CallStep

LEMMA WritingStepsGood ==
  ASSUME IInv, NEW c \in Conns,
         \/ WriteTask(c)
         \/ RaiseTask(c)
         \/ \E fault \in CommitFaults : CommitTaskFails(c, fault)
  PROVE  StoreStep(c) /\ CallStep(c)
<1>1. EndTask(c)
  BY DEF WriteTask, RaiseTask, CommitTaskFails
<1>2. task[c] \in Task /\ Exists(Rows(c)[task[c].cand])
  BY <1>1 DEF EndTask, IInv, CallType, TaskRowExists
<1>3. GoodTables(c, RowsAfter(c), TrailAfter(c))
  BY <1>2, UpdateIsGood DEF IInv
<1>4. CallStep(c)
  BY <1>1, EndTaskGood DEF IInv
<1>5. CASE WriteTask(c)
  BY <1>3, <1>4, <1>5 DEF WriteTask, StoreStep
<1>6. CASE RaiseTask(c)
  BY <1>4, <1>6 DEF RaiseTask, StoreStep
<1>7. ASSUME NEW fault \in CommitFaults, CommitTaskFails(c, fault)
      PROVE  StoreStep(c)
  <2>1. CASE fault = "open"
    BY <1>3, <1>7, <2>1 DEF CommitTaskFails, StoreStep
  <2>2. CASE fault # "open"
    <3>1. Publish(c, rows, trail)
      BY <1>7, <2>2 DEF CommitTaskFails
    <3>2. CASE writer = c
      BY <3>1, <3>2 DEF Rollback, StoreStep
    <3>3. CASE writer # c
      <4>1. writer = NoConn /\ draftRows = rows /\ draftTrail = trail
        BY <3>1, <3>3 DEF Publish, CanWrite, IInv, StoreInv, StoreType
      <4>2. UNCHANGED tables
        BY <3>1, <4>1 DEF Publish, tables
      <4> QED BY <4>2 DEF StoreStep
    <3> QED BY <3>2, <3>3
  <2> QED BY <2>1, <2>2
<1> QED BY <1>4, <1>5, <1>6, <1>7

LEMMA CrashGood ==
  ASSUME IInv, NEW c \in Conns, Crash(c)
  PROVE  StoreStep(c) /\ CallStep(c)
BY DEF IInv, CallType, Crash, StoreStep, CallStep

-----------------------------------------------------------------------------

LEMMA NextGood ==
  ASSUME IInv, [Next]_vars
  PROVE  IInv' /\ TablesGrow(rows, trail, rows', trail')
<1>1. ASSUME NEW c \in Conns, Request(c)
      PROVE  StoreStep(c) /\ CallStep(c)
  BY <1>1, BeginSubmitGood, ReadingStepsGood DEF Request
<1>2. ASSUME NEW c \in Conns, Step(c)
      PROVE  StoreStep(c) /\ CallStep(c)
  BY <1>2, ReportingStepsGood, LookupMissGood, EndingStepsGood,
     WritingStepsGood DEF Step
<1>3. CASE Next
  BY <1>1, <1>2, <1>3, CrashGood, StepsCompose DEF Next
<1>4. CASE UNCHANGED vars
  <2>1. StoreInv' /\ TablesGrow(rows, trail, rows', trail')
    <3>1. UNCHANGED tables
      BY <1>4 DEF vars
    <3>2. TablesGrow(rows, trail, rows', trail')
      BY <3>1, GrowthReflexive DEF IInv, StoreInv, StoreType, tables
    <3>3. StoreInv'
      BY <3>1 DEF IInv, StoreInv, StoreType, TablesGrow, LiveKeyUnique,
                  KeyUnique, TableType, tables
    <3> QED BY <3>2, <3>3
  <2>2. CallType'
    BY <1>4 DEF IInv, CallType, vars, calls
  <2>3. TaskRowExists'
    BY <1>4 DEF IInv, TaskRowExists, Rows, vars, calls, tables
  <2> QED BY <2>1, <2>2, <2>3 DEF IInv
<1> QED BY <1>3, <1>4

\* The inductive invariant holds in every state of every behaviour.
THEOREM LedgerInvariant == Spec => []IInv
<1>1. Init => IInv
  BY InitGood
<1>2. IInv /\ [Next]_vars => IInv'
  BY NextGood
<1> QED BY <1>1, <1>2, PTL DEF Spec

\* Type correctness, for any number of connections, candidates and keys.
THEOREM LedgerTypeCorrect == Spec => []TypeOK
<1>1. IInv => TypeOK
  BY TypeHalves DEF IInv, StoreInv
<1> QED BY <1>1, LedgerInvariant, PTL

\* Never two live rows of one dedup key, committed or about to be, however
\* the connections' SELECTs, INSERTs, revokes, erases, rollbacks and crashes
\* interleave (the partial unique index of schema.py, Issue #16).
THEOREM LiveKeyIsUnique == Spec => []LiveKeyUnique
<1>1. IInv => LiveKeyUnique
  BY DEF IInv, StoreInv
<1> QED BY <1>1, LedgerInvariant, PTL

\* No step takes back what was committed: rows, marks, an erased payload's
\* absence, or a record of the audit stream.
THEOREM CommittedStays == Spec => NothingIsTakenBack
<1>1. IInv /\ [Next]_vars =>
        [\A x \in Candidates :
           RowGrows(rows[x], rows'[x]) /\ TrailGrows(trail[x], trail'[x])]_vars
  BY NextGood DEF TablesGrow
<1> QED BY <1>1, LedgerInvariant, PTL DEF Spec, NothingIsTakenBack

-----------------------------------------------------------------------------
(* The ledger implements CandidateSink. *)

\* A row is in one stage of its candidate's life, the one its marks say.
LEMMA StageOfRow ==
  ASSUME NEW r \in Row \cup {NoRow}
  PROVE  \/ ~Exists(r) /\ Life(r) = "absent"
         \/ Exists(r) /\ r.marks = {} /\ Life(r) = "live"
         \/ Exists(r) /\ r.marks = {"revoked_at"} /\ Life(r) = "revoked"
         \/ Exists(r) /\ "erased_at" \in r.marks /\ Life(r) = "erased"
<1>1. r.marks = {} \/ r.marks = {"revoked_at"} \/ "erased_at" \in r.marks
  BY DEF Row, NoRow, Marks
<1>2. ~Exists(r) => r.marks = {}
  BY DEF Row, NoRow, Exists, ProcessingState
<1>3. CASE ~Exists(r)
  BY <1>2, <1>3 DEF Life
<1>4. CASE Exists(r)
  BY <1>1, <1>4 DEF Life
<1> QED BY <1>3, <1>4

\* A growing row never goes back in its candidate's life.
LEMMA LifeNeverGoesBack ==
  ASSUME NEW r1 \in Row \cup {NoRow}, NEW r2 \in Row \cup {NoRow},
         RowGrows(r1, r2)
  PROVE  /\ Life(r1) \in Sink!Stages
         /\ Life(r2) \in Sink!Stages
         /\ Sink!Age[Life(r1)] <= Sink!Age[Life(r2)]
<1>1. Life(r1) \in Sink!Stages /\ Life(r2) \in Sink!Stages
  BY StageOfRow DEF Sink!Stages
<1>2. Exists(r1) => Exists(r2)
  BY DEF RowGrows
<1>3. r1.marks \subseteq r2.marks
  BY DEF RowGrows
<1>4. CASE ~Exists(r1)
  BY <1>1, <1>4, StageOfRow DEF Sink!Stages, Sink!Age
<1>5. CASE Exists(r1) /\ r1.marks = {}
  BY <1>1, <1>2, <1>5, StageOfRow DEF Sink!Age
<1>6. CASE Exists(r1) /\ r1.marks = {"revoked_at"}
  <2>1. Life(r1) = "revoked" /\ Life(r2) \in {"revoked", "erased"}
    BY <1>2, <1>3, <1>6, StageOfRow
  <2> QED BY <1>1, <2>1 DEF Sink!Age
<1>7. CASE Exists(r1) /\ "erased_at" \in r1.marks
  <2>1. Life(r1) = "erased" /\ Life(r2) = "erased"
    BY <1>2, <1>3, <1>7, StageOfRow
  <2> QED BY <1>1, <2>1 DEF Sink!Age
<1>8. \/ ~Exists(r1) \/ r1.marks = {} \/ r1.marks = {"revoked_at"}
      \/ "erased_at" \in r1.marks
  BY StageOfRow
<1> QED BY <1>1, <1>4, <1>5, <1>6, <1>7, <1>8

\* What Life calls live is what LIVE_ROW_PREDICATE selects.
LEMMA LiveIsLive ==
  ASSUME NEW r \in Row \cup {NoRow}, Life(r) = "live"
  PROVE  IsLive(r)
BY StageOfRow DEF IsLive

\* The ledger implements the abstract sink: every step of the tables, seen
\* as the lives of the candidates, is one Publish of CandidateSink or changes
\* no life.
THEOREM LedgerImplementsSink == Spec => ImplementsSink
<1> DEFINE lives == [x \in Candidates |-> Life(rows[x])]
<1>1. Init => Sink!Init
  BY DEF Init, Sink!Init, Life, NoRow, Exists
<1>2. IInv /\ IInv' /\ [Next]_vars => [Sink!Next]_lives
  <2> SUFFICES ASSUME IInv, IInv', [Next]_vars
               PROVE  Sink!Publish
    BY DEF Sink!Next
  <2>1. rows \in [Candidates -> Row \cup {NoRow}]
    BY DEF IInv, StoreInv, StoreType, TableType
  <2>2. rows' \in [Candidates -> Row \cup {NoRow}]
    BY DEF IInv, StoreInv, StoreType, TableType
  <2>3. \A x \in Candidates : RowGrows(rows[x], rows'[x])
    BY NextGood DEF TablesGrow
  <2>4. lives' \in [Candidates -> Sink!Stages]
    BY <2>1, <2>2, <2>3, LifeNeverGoesBack
  <2>5. \A x \in Candidates :
          Sink!Age[Life(rows[x])] <= Sink!Age[Life(rows'[x])]
    BY <2>1, <2>2, <2>3, LifeNeverGoesBack
  <2>6. \A x \in Candidates :
          Sink!Age[lives[x]] <= Sink!Age[lives'[x]]
    BY <2>5
  <2>7. Sink!OneLivePerKey(lives')
    <3> SUFFICES ASSUME NEW x \in Candidates, NEW y \in Candidates,
                        Life(rows'[x]) = "live", Life(rows'[y]) = "live",
                        KeyOf[x] = KeyOf[y]
                 PROVE  x = y
      BY DEF Sink!OneLivePerKey
    <3>1. IsLive(rows'[x]) /\ IsLive(rows'[y])
      BY <2>2, LiveIsLive
    <3>2. KeyUnique(rows')
      BY DEF IInv, StoreInv, LiveKeyUnique, KeyUnique
    <3> QED BY <3>1, <3>2 DEF KeyUnique
  <2> QED BY <2>4, <2>6, <2>7 DEF Sink!Publish
<1> QED BY <1>1, <1>2, LedgerInvariant, PTL
        DEF Spec, ImplementsSink, Sink!Spec

-----------------------------------------------------------------------------
(***************************************************************************)
(* What submit() tells its caller is true, for any number of connections   *)
(* and candidates: RECEIVED is durable, DUPLICATE has a witness.           *)
(***************************************************************************)

\* What one outcome says of the tables the call sees.
OutcomeHolds(o, table) ==
  /\ o.status = "RECEIVED" => Exists(table[o.cand])
  /\ o.status = "DUPLICATE" =>
       \E y \in Candidates : KeyOf[y] = KeyOf[o.cand] /\ Exists(table[y])

CallOutcomesHold(c) ==
  \A i \in DOMAIN outcomes[c] : OutcomeHolds(outcomes[c][i], Rows(c))

\* A call that is not in submit() has no outcomes; without this, a rollback
\* by another call on the connection could take the rows of an outcome.
OutcomesOnlyInSubmit(c) == pc[c] \in {"idle", "write"} => outcomes[c] = <<>>

OutcomeInv ==
  /\ \A c \in Conns : CallOutcomesHold(c) /\ OutcomesOnlyInSubmit(c)
  /\ ReceivedIsDurable

\* What an action of connection c does to outcomes and to what callers know.
OutcomeStep(c) ==
  /\ \A d \in Conns \ {c} : outcomes'[d] = outcomes[d] /\ pc'[d] = pc[d]
  /\ CallOutcomesHold(c)'
  /\ OutcomesOnlyInSubmit(c)'
  /\ \A x \in Candidates :
       told'[x] = "received" => told[x] = "received" \/ Exists(rows'[x])

\* An outcome stays true while rows are only added to the tables.
LEMMA OutcomeKept ==
  ASSUME NEW o \in Outcome, NEW r1, NEW r2, OutcomeHolds(o, r1),
         \A x \in Candidates : Exists(r1[x]) => Exists(r2[x])
  PROVE  OutcomeHolds(o, r2)
BY DEF OutcomeHolds, Outcome

LEMMA OutcomeStepsCompose ==
  ASSUME IInv, OutcomeInv, NEW c \in Conns, StoreStep(c), OutcomeStep(c)
  PROVE  OutcomeInv'
<1>1. OthersSeeGrowth(c) /\ TablesGrow(rows, trail, rows', trail')
  BY StoreStepGood DEF IInv
<1>2. ASSUME NEW d \in Conns
      PROVE  CallOutcomesHold(d)' /\ OutcomesOnlyInSubmit(d)'
  <2>1. CASE d = c
    BY <2>1 DEF OutcomeStep
  <2>2. CASE d # c
    <3>1. outcomes'[d] = outcomes[d] /\ pc'[d] = pc[d]
      BY <2>2 DEF OutcomeStep
    <3>2. \A i \in DOMAIN outcomes[d] : outcomes[d][i] \in Outcome
      BY DEF IInv, CallType
    <3>3. \A x \in Candidates : Exists(Rows(d)[x]) => Exists(Rows(d)'[x])
      BY <1>1, <2>2 DEF OthersSeeGrowth
    <3>4. \A i \in DOMAIN outcomes[d] : OutcomeHolds(outcomes[d][i], Rows(d)')
      BY <3>2, <3>3, OutcomeKept DEF OutcomeInv, CallOutcomesHold
    <3>5. CallOutcomesHold(d)'
      BY <3>1, <3>4 DEF CallOutcomesHold
    <3> QED BY <3>1, <3>5 DEF OutcomeInv, OutcomesOnlyInSubmit
  <2> QED BY <2>1, <2>2
<1>3. ReceivedIsDurable'
  BY <1>1 DEF OutcomeInv, OutcomeStep, ReceivedIsDurable, TablesGrow, RowGrows
<1> QED BY <1>2, <1>3 DEF OutcomeInv

-----------------------------------------------------------------------------
(* The actions. *)

\* The loop's outcome is true of the view its call is left with.
LEMMA ReportKeepsOutcomes ==
  ASSUME IInv, OutcomeInv, NEW c \in Conns, NEW status, Report(c, status),
         [cand |-> Head(todo[c]), status |-> status] \in Outcome,
         OutcomeHolds([cand |-> Head(todo[c]), status |-> status], Rows(c)'),
         \A x \in Candidates : Exists(Rows(c)[x]) => Exists(Rows(c)'[x])
  PROVE  /\ \A d \in Conns \ {c} : outcomes'[d] = outcomes[d] /\ pc'[d] = pc[d]
         /\ CallOutcomesHold(c)'
         /\ OutcomesOnlyInSubmit(c)'
<1> DEFINE o == [cand |-> Head(todo[c]), status |-> status]
<1>1. /\ outcomes \in [Conns -> Seq(Outcome)]
      /\ pc \in [Conns -> {"idle", "lookup", "insert", "write"}]
  BY DEF IInv, CallType
<1>2. outcomes'[c] = Append(outcomes[c], o) /\ pc'[c] = "lookup"
  BY <1>1 DEF Report
<1>3. \A d \in Conns \ {c} : outcomes'[d] = outcomes[d] /\ pc'[d] = pc[d]
  BY <1>1 DEF Report
<1>4. ASSUME NEW i \in DOMAIN outcomes'[c]
      PROVE  OutcomeHolds(outcomes'[c][i], Rows(c)')
  <2>1. CASE i = Len(outcomes[c]) + 1
    <3>1. outcomes'[c][i] = o
      BY <1>1, <1>2, <2>1, AppendProperties
    <3> QED BY <3>1
  <2>2. CASE i # Len(outcomes[c]) + 1
    <3>1. i \in DOMAIN outcomes[c] /\ outcomes'[c][i] = outcomes[c][i]
      BY <1>1, <1>2, <2>2, AppendProperties
    <3>2. outcomes[c][i] \in Outcome /\ OutcomeHolds(outcomes[c][i], Rows(c))
      BY <1>1, <3>1 DEF OutcomeInv, CallOutcomesHold
    <3> QED BY <3>1, <3>2, OutcomeKept
  <2> QED BY <2>1, <2>2
<1>5. CallOutcomesHold(c)'
  BY <1>4 DEF CallOutcomesHold
<1> QED BY <1>2, <1>3, <1>5 DEF OutcomesOnlyInSubmit

LEMMA ReportingOutcomes ==
  ASSUME IInv, OutcomeInv, NEW c \in Conns,
         \/ LookupHit(c)
         \/ RejectAmbiguous(c)
         \/ InsertRow(c)
         \/ InsertConflict(c)
  PROVE  OutcomeStep(c)
<1> DEFINE x == Head(todo[c])
<1>1. todo[c] # <<>> /\ todo[c] \in Seq(Candidates)
  BY DEF IInv, CallType, LookupHit, RejectAmbiguous, Looking, InsertRow,
         InsertConflict
<1>2. x \in Candidates
  BY <1>1, HeadTailProperties
<1>3. TableType(Rows(c), Trail(c))
  BY ViewIsGood DEF IInv, GoodTables
<1>4. CASE LookupHit(c)
  <2>1. UNCHANGED tables /\ UNCHANGED told /\ Report(c, "DUPLICATE")
        /\ LiveKey(Rows(c), KeyOf[x])
    BY <1>4 DEF LookupHit
  <2>2. Rows(c)' = Rows(c)
    BY <2>1 DEF Rows, tables
  <2>3. [cand |-> x, status |-> "DUPLICATE"] \in Outcome
    BY <1>2 DEF Outcome
  <2>4. OutcomeHolds([cand |-> x, status |-> "DUPLICATE"], Rows(c)')
    BY <2>1, <2>2 DEF OutcomeHolds, LiveKey, IsLive
  <2> QED BY <2>1, <2>2, <2>3, <2>4, ReportKeepsOutcomes DEF OutcomeStep
<1>5. CASE RejectAmbiguous(c)
  <2>1. UNCHANGED tables /\ UNCHANGED told /\ Report(c, "INVALID")
    BY <1>5 DEF RejectAmbiguous
  <2>2. Rows(c)' = Rows(c)
    BY <2>1 DEF Rows, tables
  <2>3. [cand |-> x, status |-> "INVALID"] \in Outcome
    BY <1>2 DEF Outcome
  <2>4. OutcomeHolds([cand |-> x, status |-> "INVALID"], Rows(c)')
    BY DEF OutcomeHolds
  <2> QED BY <2>1, <2>2, <2>3, <2>4, ReportKeepsOutcomes DEF OutcomeStep
<1>6. CASE InsertRow(c)
  <2>1. Report(c, "RECEIVED") /\ told' = [told EXCEPT ![x] = "none"]
    BY <1>6 DEF InsertRow
  <2>2. Rows(c)' = [Rows(c) EXCEPT ![x] = ReceivedRow]
    BY <1>6 DEF InsertRow, Stage, Rows
  <2>3. Exists(Rows(c)'[x])
    BY <1>2, <1>3, <2>2 DEF TableType, ReceivedRow, Exists
  <2>4. \A y \in Candidates : Exists(Rows(c)[y]) => Exists(Rows(c)'[y])
    BY <1>3, <2>2, <2>3 DEF TableType
  <2>5. [cand |-> x, status |-> "RECEIVED"] \in Outcome
    BY <1>2 DEF Outcome
  <2>6. OutcomeHolds([cand |-> x, status |-> "RECEIVED"], Rows(c)')
    BY <2>3 DEF OutcomeHolds
  <2>7. \A y \in Candidates : told'[y] = "received" => told[y] = "received"
    BY <1>2, <2>1 DEF IInv, CallType
  <2> QED BY <2>1, <2>4, <2>5, <2>6, <2>7, ReportKeepsOutcomes DEF OutcomeStep
<1>7. CASE InsertConflict(c)
  <2>1. Report(c, "DUPLICATE") /\ UNCHANGED told /\ Conflict(Rows(c), x)
    BY <1>7 DEF InsertConflict
  <2>2. Rows(c)' = Rows(c)
    BY <1>7 DEF InsertConflict, Stage, Rows
  <2>3. [cand |-> x, status |-> "DUPLICATE"] \in Outcome
    BY <1>2 DEF Outcome
  <2>4. OutcomeHolds([cand |-> x, status |-> "DUPLICATE"], Rows(c)')
    BY <1>2, <2>1, <2>2 DEF OutcomeHolds, Conflict, LiveKey, IsLive
  <2> QED BY <2>1, <2>2, <2>3, <2>4, ReportKeepsOutcomes DEF OutcomeStep
<1> QED BY <1>4, <1>5, <1>6, <1>7

\* Before and after calls, and while a row is read and written, connection c
\* has no outcomes to keep true.
LEMMA NoOutcomes ==
  ASSUME NEW c \in Conns, outcomes'[c] = <<>>
  PROVE  CallOutcomesHold(c)' /\ OutcomesOnlyInSubmit(c)'
BY DEF CallOutcomesHold, OutcomesOnlyInSubmit

LEMMA ReturnOutcomes ==
  ASSUME IInv, OutcomeInv, NEW c \in Conns, ReturnSubmit(c)
  PROVE  OutcomeStep(c)
<1>1. Commit(c) /\ EndSubmit(c, "received")
  BY DEF ReturnSubmit
<1>2. \A x \in Candidates : Exists(Rows(c)[x]) => Exists(rows'[x])
  BY <1>1 DEF Commit, Publish, Rows, tables
<1>3. \A x \in Inserted(c) : Exists(Rows(c)[x])
  BY DEF Inserted, OutcomeInv, CallOutcomesHold, OutcomeHolds
<1>4. \A x \in Candidates :
        told'[x] = "received" => told[x] = "received" \/ Exists(rows'[x])
  BY <1>1, <1>2, <1>3 DEF EndSubmit
<1>5. outcomes'[c] = <<>>
  BY <1>1 DEF EndSubmit, IInv, CallType
<1>6. \A d \in Conns \ {c} : outcomes'[d] = outcomes[d] /\ pc'[d] = pc[d]
  BY <1>1 DEF EndSubmit, IInv, CallType
<1> QED BY <1>4, <1>5, <1>6, NoOutcomes DEF OutcomeStep

LEMMA RaisingOutcomes ==
  ASSUME IInv, NEW c \in Conns, EndSubmit(c, "raised")
  PROVE  OutcomeStep(c)
<1>1. \A x \in Candidates : told'[x] = "received" => told[x] = "received"
  BY DEF EndSubmit
<1>2. outcomes'[c] = <<>>
  BY DEF EndSubmit, IInv, CallType
<1>3. \A d \in Conns \ {c} : outcomes'[d] = outcomes[d] /\ pc'[d] = pc[d]
  BY DEF EndSubmit, IInv, CallType
<1> QED BY <1>1, <1>2, <1>3, NoOutcomes DEF OutcomeStep

\* transition(), revoke() and erase(), between the read and the write.
LEMMA TaskOutcomes ==
  ASSUME IInv, OutcomeInv, NEW c \in Conns, UNCHANGED <<outcomes, told>>,
         pc[c] \in {"idle", "write"},
         \E where \in {"idle", "write", "lookup"} : pc' = [pc EXCEPT ![c] = where]
  PROVE  OutcomeStep(c)
<1>1. outcomes'[c] = <<>>
  BY DEF OutcomeInv, OutcomesOnlyInSubmit
<1>2. \A d \in Conns \ {c} : outcomes'[d] = outcomes[d] /\ pc'[d] = pc[d]
  BY DEF IInv, CallType
<1> QED BY <1>1, <1>2, NoOutcomes DEF OutcomeStep

LEMMA LookupMissOutcomes ==
  ASSUME IInv, OutcomeInv, NEW c \in Conns, LookupMiss(c)
  PROVE  OutcomeStep(c)
<1>1. UNCHANGED <<tables, outcomes, told>> /\ pc' = [pc EXCEPT ![c] = "insert"]
  BY DEF LookupMiss
<1>2. Rows(c)' = Rows(c)
  BY <1>1 DEF Rows, tables
<1>3. CallOutcomesHold(c)'
  BY <1>1, <1>2 DEF OutcomeInv, CallOutcomesHold
<1>4. OutcomesOnlyInSubmit(c)'
  BY <1>1 DEF OutcomesOnlyInSubmit, IInv, CallType
<1> QED BY <1>1, <1>3, <1>4 DEF OutcomeStep, IInv, CallType

LEMMA CrashOutcomes ==
  ASSUME IInv, NEW c \in Conns, Crash(c)
  PROVE  OutcomeStep(c)
<1>1. outcomes'[c] = <<>> /\ UNCHANGED told
  BY DEF Crash, IInv, CallType
<1>2. \A d \in Conns \ {c} : outcomes'[d] = outcomes[d] /\ pc'[d] = pc[d]
  BY DEF Crash, IInv, CallType
<1> QED BY <1>1, <1>2, NoOutcomes DEF OutcomeStep

LEMMA RequestOutcomes ==
  ASSUME IInv, OutcomeInv, NEW c \in Conns, Request(c)
  PROVE  OutcomeStep(c)
<1>1. ASSUME NEW batch \in Batches, BeginSubmit(c, batch)
      PROVE  OutcomeStep(c)
  BY <1>1, TaskOutcomes DEF BeginSubmit
<1>2. ASSUME NEW op, NEW x, NEW to, NEW n, BeginTask(c, op, x, to, n)
      PROVE  OutcomeStep(c)
  BY <1>2, TaskOutcomes DEF BeginTask
<1>3. ASSUME NEW x \in Candidates,
             \/ \E to \in Targets, bump \in {0, 1} :
                  ReadForTransition(c, x, to, bump)
             \/ ReadForRevoke(c, x)
             \/ ReadForErase(c, x)
      PROVE  OutcomeStep(c)
  BY <1>2, <1>3 DEF ReadForTransition, ReadForRevoke, ReadForErase
<1> QED BY <1>1, <1>3 DEF Request

LEMMA StepOutcomes ==
  ASSUME IInv, OutcomeInv, NEW c \in Conns, Step(c)
  PROVE  OutcomeStep(c)
<1>1. CASE \/ LookupHit(c) \/ RejectAmbiguous(c) \/ InsertRow(c)
           \/ InsertConflict(c)
  BY <1>1, ReportingOutcomes
<1>2. CASE LookupMiss(c)
  BY <1>2, LookupMissOutcomes
<1>3. CASE ReturnSubmit(c)
  BY <1>3, ReturnOutcomes
<1>4. CASE RaiseSubmit(c)
  BY <1>4, RaisingOutcomes DEF RaiseSubmit
<1>5. CASE \E fault \in CommitFaults : CommitSubmitFails(c, fault)
  BY <1>5, RaisingOutcomes DEF CommitSubmitFails
<1>6. CASE \/ WriteTask(c) \/ RaiseTask(c)
           \/ \E fault \in CommitFaults : CommitTaskFails(c, fault)
  <2>1. EndTask(c)
    BY <1>6 DEF WriteTask, RaiseTask, CommitTaskFails
  <2> QED BY <2>1, TaskOutcomes DEF EndTask
<1> QED BY <1>1, <1>2, <1>3, <1>4, <1>5, <1>6 DEF Step

LEMMA OutcomeNextGood ==
  ASSUME IInv, OutcomeInv, [Next]_vars
  PROVE  OutcomeInv'
<1>1. ASSUME NEW c \in Conns, Request(c)
      PROVE  OutcomeInv'
  <2>1. StoreStep(c)
    BY <1>1, BeginSubmitGood, ReadingStepsGood DEF Request
  <2> QED BY <1>1, <2>1, RequestOutcomes, OutcomeStepsCompose
<1>2. ASSUME NEW c \in Conns, Step(c)
      PROVE  OutcomeInv'
  <2>1. StoreStep(c)
    BY <1>2, ReportingStepsGood, LookupMissGood, EndingStepsGood,
       WritingStepsGood DEF Step
  <2> QED BY <1>2, <2>1, StepOutcomes, OutcomeStepsCompose
<1>3. ASSUME NEW c \in Conns, Crash(c)
      PROVE  OutcomeInv'
  BY <1>3, CrashGood, CrashOutcomes, OutcomeStepsCompose
<1>4. CASE UNCHANGED vars
  BY <1>4 DEF vars, calls, tables, OutcomeInv, CallOutcomesHold, Rows,
              OutcomesOnlyInSubmit, ReceivedIsDurable
<1> QED BY <1>1, <1>2, <1>3, <1>4 DEF Next

LEMMA OutcomesInvariant == Spec => []OutcomeInv
<1>1. Init => OutcomeInv
  BY DEF Init, OutcomeInv, CallOutcomesHold, OutcomesOnlyInSubmit,
         ReceivedIsDurable
<1>2. IInv /\ OutcomeInv /\ [Next]_vars => OutcomeInv'
  BY OutcomeNextGood
<1> QED BY <1>1, <1>2, LedgerInvariant, PTL DEF Spec

\* A candidate whose submit() returned RECEIVED stays in the committed
\* ledger, whatever other connections, rollbacks and crashes do.
THEOREM ReceivedStays == Spec => []ReceivedIsDurable
<1>1. OutcomeInv => ReceivedIsDurable
  BY DEF OutcomeInv
<1> QED BY <1>1, OutcomesInvariant, PTL

\* submit() drops no candidate as the duplicate of a row that is not there.
THEOREM DuplicatesHaveWitness == Spec => []DuplicateHasWitness
<1>1. OutcomeInv => DuplicateHasWitness
  BY DEF OutcomeInv, CallOutcomesHold, OutcomeHolds, DuplicateHasWitness
<1> QED BY <1>1, OutcomesInvariant, PTL
=============================================================================
