--------------------------- MODULE GraphStoreProofs ---------------------------
(***************************************************************************)
(* Proofs about GraphStore, for any executors, identities, assertions,     *)
(* batches and bound.                                                      *)
(*                                                                         *)
(* The inductive invariant has three parts: the graph and the copy begin() *)
(* made are well formed (GoodGraph); what apply() has staged so far fits   *)
(* the graph (CallFits); and whatever an executor decided on is as it was  *)
(* as long as its version is (PlanHolds), in the graph and, for decisions  *)
(* older than the open transaction, in the copy as well.                   *)
(*                                                                         *)
(* What neighborhood() finds is an induction over its rounds (Reached); of *)
(* what can be taken back, the invariant remembers the statuses the batch  *)
(* led through (UndoInv).                                                  *)
(***************************************************************************)
EXTENDS GraphStore, RecursionFacts, TLAPS

Indexed(g) ==
  /\ \A i \in Identities : \A r \in g.assertions[i] :
       r.subject = i /\ r \in g.byId[r.id]
  /\ \A a \in Assertions : \A r \in g.byId[a] :
       r.id = a /\ r \in g.assertions[r.subject]
  /\ \A a \in Assertions : \A r, s \in g.byId[a] : r = s

GoodGraph(g) == g \in Graph /\ Accounted(g) /\ Indexed(g)

\* A staged entity is the one of the graph, in another status, or was created.
Staged(i) ==
  \/ /\ call.view[i].epoch = graph.entities[i].epoch
     /\ call.view[i].status = "UNKNOWN" <=> graph.entities[i].status = "UNKNOWN"
  \/ /\ call.view[i].epoch = NewEpoch
     /\ call.view[i].status # "UNKNOWN"
     /\ i \in Creates

CallFits ==
  ~Quiet =>
    /\ plan[call.by].state = "decided"
    /\ PreconditionsHold(call.by)
    /\ \A m \in DOMAIN call.left :
         \E n \in DOMAIN plan[call.by].batch : call.left[m] = plan[call.by].batch[n]
    /\ \A i \in Identities :
         /\ Staged(i)
         /\ call.view[i] # graph.entities[i] => call.touched[i] > 0
    /\ \A r \in call.new :
         /\ r.epoch = NewEpoch
         /\ call.touched[r.subject] > 0
         /\ graph.byId[r.id] = {}
         /\ \A s \in call.new : r.id = s.id => r = s

\* What was read is as it was while its version is.
Holds(p, g) ==
  \A i \in p.guards :
    /\ p.seen[i] <= g.versions[i]
    /\ p.seen[i] = g.versions[i] => p.basis[i] = Basis(g, i)

PlanHolds ==
  \A x \in Executors :
    /\ plan[x].read # "void" => Holds(plan[x], graph)
    /\ plan[x].read = "clean" /\ saved.open => Holds(plan[x], saved.graph)

CallType ==
  call \in [ by: Executors \cup {Nobody}, left: Seq(Operation),
             view: [Identities -> EntityRow], new: SUBSET AssertionRow,
             touched: [Identities -> Nat] ]

SavedGood == saved \in [open: BOOLEAN, graph: Graph] /\ GoodGraph(saved.graph)

IInv ==
  /\ GoodGraph(graph)
  /\ SavedGood
  /\ CallType
  /\ plan \in [Executors -> Plan]
  /\ CallFits
  /\ PlanHolds

-----------------------------------------------------------------------------
(* What the operators preserve *)

\* An empty store is well formed.
LEMMA EmptyGood == GoodGraph(EmptyGraph)
  BY NoIdentityAssumption
     DEF GoodGraph, Accounted, Indexed, EmptyGraph, Graph, EntityRow, Unknown,
         Statuses

\* Nobody's plan has its type.
LEMMA NoPlanType == NoPlan \in Plan
<1>1. EmptyGraph.versions \in [Identities -> Nat]
  BY DEF EmptyGraph
<1>2. EmptyGraph.entities \in [Identities -> EntityRow]
  BY DEF EmptyGraph, EntityRow, Unknown
<1>3. Bases(EmptyGraph, {}) \in [Identities -> BasisType]
  BY <1>2 DEF Bases, Basis, BasisType, EmptyGraph
<1> QED
  BY <1>1, <1>2, <1>3 DEF NoPlan, Plan

\* A basis has its type.
LEMMA BasisTyped ==
  ASSUME NEW g \in Graph, NEW i \in Identities
  PROVE  Basis(g, i) \in BasisType
  BY DEF Basis, BasisType, Graph, AssertionRow

\* What is read of the guarded identities has its type.
LEMMA ReadsTyped ==
  ASSUME NEW g \in Graph, NEW guards \in SUBSET Identities
  PROVE  /\ Bases(g, guards) \in [Identities -> BasisType]
         /\ Versions(g, guards) \in [Identities -> Nat]
         /\ Entities(g, guards) \in [Identities -> EntityRow]
<1>1. EmptyGraph \in Graph
  BY EmptyGood DEF GoodGraph
<1>2. Bases(g, guards) \in [Identities -> BasisType]
  BY <1>1, BasisTyped DEF Bases
<1>3. Versions(g, guards) \in [Identities -> Nat]
  BY DEF Versions, Graph
<1>4. Entities(g, guards) \in [Identities -> EntityRow]
  BY DEF Entities, Graph, EntityRow, Unknown
<1> QED
  BY <1>2, <1>3, <1>4

\* The compensation of a batch is a batch.
LEMMA CompensationType ==
  ASSUME NEW batch \in Seq(Operation)
  PROVE  Compensation(batch) \in Seq(Operation)
<1>1. ASSUME NEW n \in 1..Len(batch)
      PROVE  [batch[Len(batch) + 1 - n] EXCEPT !.type = InverseType(@)] \in Operation
  <2>1. Len(batch) + 1 - n \in 1..Len(batch)
    OBVIOUS
  <2>2. batch[Len(batch) + 1 - n] \in Operation
    BY <2>1
  <2>3. batch[Len(batch) + 1 - n].type \in OperationTypes
    BY <2>2 DEF Operation
  <2>4. InverseType(batch[Len(batch) + 1 - n].type) \in OperationTypes
    BY <2>3 DEF InverseType, OperationTypes
  <2> QED
    BY <2>2, <2>4 DEF Operation
<1>2. Compensation(batch) \in [1..Len(batch) -> Operation]
  BY <1>1 DEF Compensation
<1> QED
  BY <1>2, Len(batch) \in Nat

\* The subjects of a batch are identities.
LEMMA SubjectsType ==
  ASSUME NEW batch \in Seq(Operation)
  PROVE  Subjects(batch) \in SUBSET Identities
<1>1. ASSUME NEW n \in DOMAIN batch
      PROVE  batch[n] \in Operation
  BY DOMAIN batch = 1..Len(batch)
<1>2. ASSUME NEW n \in DOMAIN batch
      PROVE  batch[n].identity \in Identities
  BY <1>1 DEF Operation
<1> QED
  BY <1>2 DEF Subjects

\* A graph that is unchanged is as good as it was.
LEMMA SameGraph ==
  ASSUME GoodGraph(graph), UNCHANGED graph
  PROVE  GoodGraph(graph)'
  BY DEF GoodGraph

\* So is a copy that is unchanged.
LEMMA SameSaved ==
  ASSUME SavedGood, UNCHANGED saved
  PROVE  SavedGood'
  BY DEF SavedGood

-----------------------------------------------------------------------------
(* The invariant: one lemma per action *)

\* The invariant holds at first.
LEMMA InitInv == Init => IInv
<1> SUFFICES ASSUME Init PROVE IInv
  OBVIOUS
<1> USE DEF Init
<1>1. GoodGraph(graph) /\ EmptyGraph \in Graph
  BY EmptyGood DEF GoodGraph
<1>2. SavedGood
  BY <1>1 DEF SavedGood, NoTransaction
<1>3. CallType /\ Quiet
  BY DEF CallType, NoCall, Quiet, EntityRow, Unknown
<1>4. plan \in [Executors -> Plan]
  BY NoPlanType
<1>5. PlanHolds
  BY DEF PlanHolds, Holds, NoPlan
<1> QED
  BY <1>1, <1>2, <1>3, <1>4, <1>5 DEF IInv, CallFits

\* Between calls a step that changes plans alone has to keep what they hold.
LEMMA PlanStep ==
  ASSUME IInv, Quiet, UNCHANGED <<graph, saved, call>>,
         plan' \in [Executors -> Plan], PlanHolds'
  PROVE  IInv'
<1>1. GoodGraph(graph)' /\ SavedGood'
  BY SameGraph, SameSaved DEF IInv
<1>2. CallType' /\ CallFits'
  BY DEF IInv, CallType, CallFits, Quiet
<1> QED
  BY <1>1, <1>2 DEF IInv

\* A plan made of what was just read has its type.
LEMMA DecidedType ==
  ASSUME NEW batch \in Seq(Operation), NEW guards \in SUBSET Identities,
         NEW seen \in [Identities -> Nat], NEW basis \in [Identities -> BasisType],
         NEW read \in {"clean", "dirty", "void"}
  PROVE  [NoPlan EXCEPT !.state = "decided", !.batch = batch, !.guards = guards,
                        !.seen = seen, !.basis = basis, !.read = read] \in Plan
  BY NoPlanType DEF Plan

\* A plan to take back has its type, and keeps what the commit left.
LEMMA UndoType ==
  ASSUME NEW p \in Plan, Compensation(p.batch) \in Seq(Operation)
  PROVE  LET new == [p EXCEPT !.state = "decided", !.kind = "undo",
                              !.batch = Compensation(@)]
         IN  /\ new \in Plan
             /\ new.guards = p.guards
             /\ new.seen = p.seen
             /\ new.basis = p.basis
             /\ new.read = p.read
<1> DEFINE new == [p EXCEPT !.state = "decided", !.kind = "undo",
                            !.batch = Compensation(@)]
<1>1. new \in Plan
  BY DEF Plan
<1>2. new.guards = p.guards /\ new.seen = p.seen
  BY DEF Plan
<1>3. new.basis = p.basis /\ new.read = p.read
  BY DEF Plan
<1> QED
  BY <1>1, <1>2, <1>3

\* Deciding: what was just read holds, of this graph alone if a
\* transaction is open.
LEMMA DecideInv ==
  ASSUME IInv, NEW x \in Executors, NEW batch \in Batches, Decide(x, batch)
  PROVE  IInv'
<1> DEFINE guards == IF batch \in Guarded THEN Subjects(batch) ELSE {}
           new == [NoPlan EXCEPT !.state = "decided", !.batch = batch,
                                 !.guards = guards,
                                 !.seen = Versions(graph, guards),
                                 !.basis = Bases(graph, guards), !.read = ReadNow]
<1>1. /\ Quiet
      /\ plan' = [plan EXCEPT ![x] = new]
      /\ UNCHANGED <<graph, saved, call>>
  BY DEF Decide
<1>2. plan \in [Executors -> Plan] /\ graph \in Graph
  BY DEF IInv, GoodGraph
<1>3. batch \in Seq(Operation)
  BY BatchesAssumption
<1>4. guards \in SUBSET Identities
  BY <1>3, SubjectsType
<1> HIDE DEF guards
<1>5. ReadNow \in {"clean", "dirty", "void"}
  BY DEF ReadNow
<1>6. new \in Plan
  <2>1. /\ Versions(graph, guards) \in [Identities -> Nat]
        /\ Bases(graph, guards) \in [Identities -> BasisType]
    BY <1>2, <1>4, ReadsTyped
  <2> QED
    BY <1>3, <1>4, <1>5, <2>1, DecidedType
<1>7. plan' \in [Executors -> Plan]
  BY <1>1, <1>2, <1>6
<1>8. /\ new.guards = guards
      /\ new.seen = Versions(graph, guards)
      /\ new.basis = Bases(graph, guards)
      /\ new.read = ReadNow
  BY DEF NoPlan
<1> HIDE DEF new
<1>9. Holds(new, graph)
  BY <1>2, <1>4, <1>8 DEF Holds, Versions, Bases, Graph
<1>10. PlanHolds'
  <2> SUFFICES ASSUME NEW z \in Executors
               PROVE  /\ plan'[z].read # "void" => Holds(plan'[z], graph')
                      /\ plan'[z].read = "clean" /\ saved'.open
                           => Holds(plan'[z], saved'.graph)
    BY DEF PlanHolds
  <2>1. CASE z = x
    BY <2>1, <1>1, <1>2, <1>8, <1>9 DEF ReadNow
  <2>2. CASE z # x
    BY <2>2, <1>1, <1>2 DEF IInv, PlanHolds
  <2> QED
    BY <2>1, <2>2
<1> QED
  BY <1>1, <1>7, <1>10, PlanStep

\* Deciding to take back: what the commit left still holds.
LEMMA DecideUndoInv ==
  ASSUME IInv, NEW x \in Executors, DecideUndo(x)
  PROVE  IInv'
<1> DEFINE new == [plan[x] EXCEPT !.state = "decided", !.kind = "undo",
                                  !.batch = Compensation(@)]
<1>1. /\ Quiet
      /\ plan' = [plan EXCEPT ![x] = new]
      /\ UNCHANGED <<graph, saved, call>>
  BY DEF DecideUndo
<1>2. plan \in [Executors -> Plan]
  BY DEF IInv
<1>3. Compensation(plan[x].batch) \in Seq(Operation)
  BY <1>2, CompensationType DEF Plan
<1>4. /\ new \in Plan
      /\ new.guards = plan[x].guards
      /\ new.seen = plan[x].seen
      /\ new.basis = plan[x].basis
      /\ new.read = plan[x].read
  <2>1. plan[x] \in Plan
    BY <1>2
  <2> QED
    BY <1>3, <2>1, UndoType
<1> HIDE DEF new
<1>5. PlanHolds'
  <2> SUFFICES ASSUME NEW z \in Executors
               PROVE  /\ plan'[z].read # "void" => Holds(plan'[z], graph')
                      /\ plan'[z].read = "clean" /\ saved'.open
                           => Holds(plan'[z], saved'.graph)
    BY DEF PlanHolds
  <2>1. /\ plan'[z].guards = plan[z].guards
        /\ plan'[z].seen = plan[z].seen
        /\ plan'[z].basis = plan[z].basis
        /\ plan'[z].read = plan[z].read
    BY <1>1, <1>2, <1>4
  <2> QED
    BY <2>1, <1>1 DEF IInv, PlanHolds, Holds
<1> QED
  BY <1>1, <1>2, <1>4, <1>5, PlanStep

\* Giving a plan up leaves the others' readings as they were.
LEMMA DropPlan ==
  ASSUME IInv, NEW x \in Executors, plan' = [plan EXCEPT ![x] = NoPlan],
         UNCHANGED <<graph, saved>>
  PROVE  plan' \in [Executors -> Plan] /\ PlanHolds'
<1>1. plan \in [Executors -> Plan]
  BY DEF IInv
<1>2. plan' \in [Executors -> Plan]
  BY <1>1, NoPlanType
<1>3. \A p : Holds(NoPlan, p)
  BY DEF Holds, NoPlan
<1>4. PlanHolds'
  <2> SUFFICES ASSUME NEW z \in Executors
               PROVE  /\ plan'[z].read # "void" => Holds(plan'[z], graph')
                      /\ plan'[z].read = "clean" /\ saved'.open
                           => Holds(plan'[z], saved'.graph)
    BY DEF PlanHolds
  <2>1. CASE z = x
    BY <2>1, <1>1, <1>3
  <2>2. CASE z # x
    BY <2>2, <1>1 DEF IInv, PlanHolds
  <2> QED
    BY <2>1, <2>2
<1> QED
  BY <1>2, <1>4

\* A failed precondition only drops a plan.
LEMMA FailPreconditionsInv ==
  ASSUME IInv, NEW x \in Executors, FailPreconditions(x)
  PROVE  IInv'
  BY DropPlan, PlanStep DEF FailPreconditions

\* A call begins with nothing staged and its preconditions met.
LEMMA BeginApplyInv ==
  ASSUME IInv, NEW x \in Executors, BeginApply(x)
  PROVE  IInv'
<1>1. /\ plan[x].state = "decided" /\ PreconditionsHold(x)
      /\ UNCHANGED <<graph, saved, plan>>
      /\ call' = [NoCall EXCEPT !.by = x, !.left = plan[x].batch,
                                !.view = graph.entities]
  BY DEF BeginApply
<1>2. plan \in [Executors -> Plan] /\ graph \in Graph
  BY DEF IInv, GoodGraph
<1>3. plan[x].batch \in Seq(Operation) /\ graph.entities \in [Identities -> EntityRow]
  BY <1>2 DEF Plan, Graph
<1>4. CallType'
  BY <1>1, <1>3 DEF CallType, NoCall
<1>5. /\ call'.by = x /\ call'.left = plan[x].batch
      /\ call'.view = graph.entities /\ call'.new = {}
  BY <1>1 DEF NoCall
<1>6. \A i \in Identities : Staged(i)'
  BY <1>1, <1>5 DEF Staged
<1>7. CallFits'
  BY <1>1, <1>5, <1>6 DEF CallFits, PreconditionsHold
<1>8. GoodGraph(graph)' /\ SavedGood' /\ PlanHolds'
  BY <1>1, SameGraph, SameSaved DEF IInv, PlanHolds
<1> QED
  BY <1>1, <1>2, <1>4, <1>7, <1>8 DEF IInv

\* A refused call leaves nothing behind.
LEMMA RefuseInv ==
  ASSUME IInv, NEW x \in Executors, Refuse(x)
  PROVE  IInv'
<1>1. /\ UNCHANGED <<graph, saved>>
      /\ plan' = [plan EXCEPT ![x] = NoPlan]
      /\ call' = NoCall
  BY DEF Refuse
<1>2. CallType' /\ CallFits'
  BY <1>1 DEF CallType, CallFits, NoCall, Quiet, EntityRow, Unknown
<1> QED
  BY <1>1, <1>2, DropPlan, SameGraph, SameSaved DEF IInv

\* What an operation of the call under way is.
LEMMA Working ==
  ASSUME IInv, NEW x \in Executors, call.by = x, call.left # <<>>
  PROVE  /\ ~Quiet
         /\ Op \in Operation
         /\ Op.identity \in Identities
         /\ Tail(call.left) \in Seq(Operation)
         /\ \E n \in DOMAIN plan[x].batch : Op = plan[x].batch[n]
         /\ \A m \in DOMAIN Tail(call.left) :
              \E n \in DOMAIN plan[x].batch : Tail(call.left)[m] = plan[x].batch[n]
<1>1. ~Quiet
  BY NobodyAssumption DEF Quiet
<1>2. call.left \in Seq(Operation)
  BY DEF IInv, CallType
<1>3. \A m \in DOMAIN call.left :
        \E n \in DOMAIN plan[x].batch : call.left[m] = plan[x].batch[n]
  BY <1>1 DEF IInv, CallFits
<1>4. Op \in Operation /\ Op = call.left[1] /\ 1 \in DOMAIN call.left
  BY <1>2 DEF Op
<1>5. Op.identity \in Identities
  BY <1>4 DEF Operation
<1>6. Tail(call.left) \in Seq(Operation)
  BY <1>2
<1>7. \A m \in DOMAIN Tail(call.left) :
        m + 1 \in DOMAIN call.left /\ Tail(call.left)[m] = call.left[m + 1]
  BY <1>2
<1> QED
  BY <1>1, <1>3, <1>4, <1>5, <1>6, <1>7

\* The plans are the same up to what the ghosts before and fresh remember.
SamePlans ==
  \A z \in Executors :
    /\ plan'[z].state = plan[z].state
    /\ plan'[z].batch = plan[z].batch
    /\ plan'[z].guards = plan[z].guards
    /\ plan'[z].seen = plan[z].seen
    /\ plan'[z].basis = plan[z].basis
    /\ plan'[z].read = plan[z].read

\* Such a step keeps what the plans hold.
LEMMA SamePlansHold ==
  ASSUME IInv, UNCHANGED <<graph, saved>>, SamePlans
  PROVE  PlanHolds'
<1> SUFFICES ASSUME NEW z \in Executors
             PROVE  /\ plan'[z].read # "void" => Holds(plan'[z], graph')
                    /\ plan'[z].read = "clean" /\ saved'.open
                         => Holds(plan'[z], saved'.graph)
  BY DEF PlanHolds
<1> QED
  BY DEF IInv, PlanHolds, Holds, SamePlans

\* An operation that stages an entity: the one of the graph in another status,
\* or a created one.
LEMMA StageStep ==
  ASSUME IInv, NEW x \in Executors, call.by = x, call.left # <<>>,
         NEW row \in EntityRow, StageEntity(row),
         UNCHANGED <<graph, saved>>, plan' \in [Executors -> Plan], SamePlans,
         \/ /\ row.epoch = graph.entities[Op.identity].epoch
            /\ row.status = "UNKNOWN" <=> graph.entities[Op.identity].status = "UNKNOWN"
         \/ /\ row.epoch = NewEpoch
            /\ row.status # "UNKNOWN"
            /\ Op.identity \in Creates
  PROVE  IInv'
<1>1. /\ ~Quiet /\ Op.identity \in Identities /\ Tail(call.left) \in Seq(Operation)
      /\ \A m \in DOMAIN Tail(call.left) :
           \E n \in DOMAIN plan[x].batch : Tail(call.left)[m] = plan[x].batch[n]
  BY Working
<1>2. /\ call.view \in [Identities -> EntityRow]
      /\ call.touched \in [Identities -> Nat]
      /\ call \in [ by: Executors \cup {Nobody}, left: Seq(Operation),
                    view: [Identities -> EntityRow], new: SUBSET AssertionRow,
                    touched: [Identities -> Nat] ]
  BY DEF IInv, CallType
<1>3. call' = [call EXCEPT !.left = Tail(@), !.view[Op.identity] = row,
                           !.touched[Op.identity] = @ + 1]
  BY DEF StageEntity
<1>4. /\ call'.by = x /\ call'.left = Tail(call.left)
      /\ call'.view = [call.view EXCEPT ![Op.identity] = row]
      /\ call'.touched = [call.touched EXCEPT ![Op.identity] = @ + 1]
      /\ call'.new = call.new
  BY <1>2, <1>3
<1>5. CallType'
  <2> DEFINE view == [call.view EXCEPT ![Op.identity] = row]
             touched == [call.touched EXCEPT ![Op.identity] = @ + 1]
  <2>1. view \in [Identities -> EntityRow] /\ touched \in [Identities -> Nat]
    BY <1>1, <1>2
  <2>2. call' = [call EXCEPT !.left = Tail(call.left), !.view = view,
                             !.touched = touched]
    BY <1>2, <1>3
  <2> HIDE DEF view, touched
  <2> QED
    BY <1>1, <1>2, <2>1, <2>2 DEF CallType
<1>6. Creates' = Creates
  BY <1>1, <1>4, SMTT(30) DEF Creates, Quiet, SamePlans
<1>7. ASSUME NEW i \in Identities
      PROVE  /\ Staged(i)'
             /\ call'.view[i] # graph'.entities[i] => call'.touched[i] > 0
  <2>1. CASE i = Op.identity
    <3>1. call'.view[i] = row /\ call'.touched[i] = call.touched[i] + 1
      BY <2>1, <1>2, <1>4
    <3>2. Staged(i)'
      BY <3>1, <2>1, <1>6 DEF Staged, NewEpoch
    <3> QED
      BY <3>1, <3>2, <1>2
  <2>2. CASE i # Op.identity
    <3>1. call'.view[i] = call.view[i] /\ call'.touched[i] = call.touched[i]
      BY <2>2, <1>2, <1>4
    <3>2. Staged(i) /\ (call.view[i] # graph.entities[i] => call.touched[i] > 0)
      BY <1>1 DEF IInv, CallFits
    <3> QED
      BY <3>1, <3>2, <1>6 DEF Staged, NewEpoch
  <2> QED
    BY <2>1, <2>2
<1>8. \A i \in Identities : call.touched[i] > 0 => call'.touched[i] > 0
  BY <1>1, <1>2, <1>4
<1>9. \A r \in call'.new :
         /\ r.epoch = NewEpoch'
         /\ call'.touched[r.subject] > 0
         /\ graph'.byId[r.id] = {}
         /\ \A s \in call'.new : r.id = s.id => r = s
  <2> SUFFICES ASSUME NEW r \in call.new
               PROVE  /\ r.epoch = NewEpoch'
                      /\ call'.touched[r.subject] > 0
                      /\ graph'.byId[r.id] = {}
                      /\ \A s \in call.new : r.id = s.id => r = s
    BY <1>4
  <2>1. r.subject \in Identities
    BY <1>2 DEF AssertionRow
  <2>2. /\ r.epoch = NewEpoch /\ call.touched[r.subject] > 0
        /\ graph.byId[r.id] = {}
        /\ \A s \in call.new : r.id = s.id => r = s
    BY <1>1 DEF IInv, CallFits
  <2> QED
    BY <2>1, <2>2, <1>8 DEF NewEpoch
<1>10. plan[x].state = "decided" /\ PreconditionsHold(x)
  BY <1>1 DEF IInv, CallFits
<1>11. plan'[x].state = "decided" /\ PreconditionsHold(x)'
  BY <1>10 DEF SamePlans, PreconditionsHold
<1>12. \A m \in DOMAIN call'.left :
         \E n \in DOMAIN plan'[x].batch : call'.left[m] = plan'[x].batch[n]
  BY <1>1, <1>4 DEF SamePlans
<1>13. CallFits'
  BY <1>4, <1>7, <1>9, <1>11, <1>12 DEF CallFits, PreconditionsHold
<1> QED
  BY <1>5, <1>13, SameGraph, SameSaved, SamePlansHold DEF IInv

\* A created entity is staged at the new epoch.
LEMMA CreateInv ==
  ASSUME IInv, NEW x \in Executors, Create(x)
  PROVE  IInv'
<1> DEFINE row == [status |-> "ACTIVE", epoch |-> NewEpoch]
<1>1. /\ call.by = x /\ call.left # <<>> /\ Op.type = "CREATE_IDENTITY"
      /\ StageEntity(row)
      /\ plan' = [plan EXCEPT ![x].fresh = @ /\ Target.status # "ACTIVE"]
      /\ UNCHANGED <<graph, saved>>
  BY DEF Create, Operating
<1>2. plan \in [Executors -> Plan] /\ graph.epoch \in Nat
  BY DEF IInv, GoodGraph, Graph
<1>3. row \in EntityRow
  BY <1>2 DEF EntityRow, Statuses, NewEpoch
<1>4. Op.identity \in Creates
  BY <1>1, Working DEF Creates
<1> DEFINE fresh == plan[x].fresh /\ Target.status # "ACTIVE"
<1>5. fresh \in BOOLEAN
  OBVIOUS
<1>6. plan' = [plan EXCEPT ![x] = [plan[x] EXCEPT !.fresh = fresh]]
  BY <1>1, <1>2
<1> HIDE DEF fresh
<1>7. plan' \in [Executors -> Plan]
  <2>1. \A p \in Plan, b \in BOOLEAN : [p EXCEPT !.fresh = b] \in Plan
    BY DEF Plan
  <2>2. [plan[x] EXCEPT !.fresh = fresh] \in Plan
    BY <1>2, <1>5, <2>1
  <2> QED
    BY <1>2, <1>6, <2>2
<1>8. SamePlans
  BY <1>2, <1>6 DEF Plan, SamePlans
<1> QED
  BY <1>1, <1>3, <1>4, <1>7, <1>8, StageStep

\* The row an operation finds: the graph's, or what the batch staged over it.
LEMMA TargetRow ==
  ASSUME IInv, NEW x \in Executors, call.by = x, call.left # <<>>
  PROVE  /\ Target \in EntityRow
         /\ Staged(Op.identity)
  BY Working DEF IInv, CallType, CallFits, Target

\* The row that changes status alone is staged as the row it comes from.
LEMMA RestatusStep ==
  ASSUME IInv, NEW x \in Executors, call.by = x, call.left # <<>>,
         NEW status \in Statuses, Target.status # "UNKNOWN",
         StageEntity([Target EXCEPT !.status = status]),
         UNCHANGED <<graph, saved, plan>>
  PROVE  IInv'
<1>1. Target \in EntityRow /\ Staged(Op.identity)
  BY TargetRow
<1>2. /\ [Target EXCEPT !.status = status] \in EntityRow
      /\ [Target EXCEPT !.status = status].epoch = Target.epoch
      /\ [Target EXCEPT !.status = status].status = status
      /\ status # "UNKNOWN"
  BY <1>1 DEF EntityRow, Statuses
<1>3. plan' \in [Executors -> Plan] /\ SamePlans
  BY DEF IInv, SamePlans
<1>4. \/ /\ Target.epoch = graph.entities[Op.identity].epoch
         /\ graph.entities[Op.identity].status # "UNKNOWN"
      \/ Target.epoch = NewEpoch /\ Op.identity \in Creates
  BY <1>1 DEF Staged, Target
<1> QED
  BY <1>2, <1>3, <1>4, StageStep

\* Revoking keeps the epoch of the entity it withdraws.
LEMMA RevokeInv ==
  ASSUME IInv, NEW x \in Executors, Revoke(x)
  PROVE  IInv'
  BY RestatusStep DEF Revoke, Operating, Statuses

\* Restoring keeps the epoch of the entity it brings back.
LEMMA RestoreInv ==
  ASSUME IInv, NEW x \in Executors, Restore(x)
  PROVE  IInv'
  BY RestatusStep DEF Restore, Operating, Statuses

\* An attached assertion has a new id and touches its subject.
LEMMA AttachInv ==
  ASSUME IInv, NEW x \in Executors, Attach(x)
  PROVE  IInv'
<1>1. /\ call.by = x /\ call.left # <<>> /\ IdIsFree
      /\ call' = [call EXCEPT !.left = Tail(@), !.new = @ \cup {Attached},
                              !.touched[Op.identity] = @ + 1]
      /\ UNCHANGED <<graph, saved, plan>>
  BY DEF Attach, Operating
<1>2. /\ ~Quiet /\ Op \in Operation /\ Op.identity \in Identities
      /\ Tail(call.left) \in Seq(Operation)
      /\ \A m \in DOMAIN Tail(call.left) :
           \E n \in DOMAIN plan[x].batch : Tail(call.left)[m] = plan[x].batch[n]
  BY <1>1, Working
<1>3. /\ call \in [ by: Executors \cup {Nobody}, left: Seq(Operation),
                    view: [Identities -> EntityRow], new: SUBSET AssertionRow,
                    touched: [Identities -> Nat] ]
      /\ call.touched \in [Identities -> Nat]
      /\ call.new \in SUBSET AssertionRow
      /\ graph.epoch \in Nat
  BY DEF IInv, CallType, GoodGraph, Graph
<1>4. /\ Attached \in AssertionRow
      /\ Attached.epoch = NewEpoch /\ Attached.subject = Op.identity
      /\ Attached.id = Op.assertion
  BY <1>2, <1>3 DEF Attached, AssertionRow, Operation, NewEpoch
<1> DEFINE touched == [call.touched EXCEPT ![Op.identity] = @ + 1]
<1>5. touched \in [Identities -> Nat]
  BY <1>2, <1>3
<1>6. \A i \in Identities : call.touched[i] > 0 => touched[i] > 0
  BY <1>2, <1>3
<1>7. touched[Op.identity] > 0
  BY <1>2, <1>3
<1>8. call' = [call EXCEPT !.left = Tail(call.left),
                           !.new = call.new \cup {Attached}, !.touched = touched]
  BY <1>1, <1>3
<1> HIDE DEF touched
<1>9. CallType'
  BY <1>2, <1>3, <1>4, <1>5, <1>8 DEF CallType
<1>10. /\ call'.by = x /\ call'.left = Tail(call.left) /\ call'.view = call.view
       /\ call'.new = call.new \cup {Attached} /\ call'.touched = touched
  BY <1>3, <1>8, <1>1
<1>11. ASSUME NEW i \in Identities
       PROVE  /\ Staged(i)'
              /\ call'.view[i] # graph'.entities[i] => call'.touched[i] > 0
  <2>1. Staged(i) /\ (call.view[i] # graph.entities[i] => call.touched[i] > 0)
    BY <1>2 DEF IInv, CallFits
  <2>2. plan' = plan /\ call.by = x
    BY <1>1
  <2>3. Creates' = Creates
    BY <1>10, <2>2 DEF Creates, Quiet
  <2> QED
    BY <2>1, <2>3, <1>1, <1>6, <1>10 DEF Staged, NewEpoch
<1>12. ASSUME NEW r \in call.new
       PROVE  /\ r.epoch = NewEpoch /\ touched[r.subject] > 0
              /\ graph.byId[r.id] = {}
              /\ r.id # Attached.id
              /\ \A s \in call.new : r.id = s.id => r = s
  <2>1. r.subject \in Identities
    BY <1>3 DEF AssertionRow
  <2> QED
    BY <2>1, <1>1, <1>2, <1>4, <1>6 DEF IInv, CallFits, IdIsFree
<1>13. graph.byId[Attached.id] = {}
  BY <1>1, <1>4 DEF IdIsFree
<1>14. \A r \in call'.new :
         /\ r.epoch = NewEpoch'
         /\ call'.touched[r.subject] > 0
         /\ graph'.byId[r.id] = {}
         /\ \A s \in call'.new : r.id = s.id => r = s
  BY <1>1, <1>4, <1>7, <1>10, <1>12, <1>13 DEF NewEpoch
<1>15. plan'[x].state = "decided" /\ PreconditionsHold(x)'
  BY <1>1, <1>2 DEF IInv, CallFits, PreconditionsHold
<1>16. CallFits'
  BY <1>1, <1>2, <1>10, <1>11, <1>14, <1>15 DEF CallFits, PreconditionsHold
<1>17. PlanHolds'
  BY <1>1 DEF IInv, PlanHolds
<1> QED
  BY <1>1, <1>9, <1>16, <1>17, SameGraph, SameSaved DEF IInv

\* Putting what a call has staged leaves a good graph, and what it did not
\* touch as it was.
LEMMA PublishedGood ==
  ASSUME IInv, ~Quiet
  PROVE  /\ GoodGraph(Published)
         /\ \A i \in Identities :
              /\ graph.versions[i] <= Published.versions[i]
              /\ graph.versions[i] = Published.versions[i] =>
                   Basis(Published, i) = Basis(graph, i)
<1>1. /\ graph \in Graph /\ Accounted(graph) /\ Indexed(graph)
      /\ call.view \in [Identities -> EntityRow]
      /\ call.touched \in [Identities -> Nat]
      /\ call.new \in SUBSET AssertionRow
  BY DEF IInv, GoodGraph, CallType
<1>2. /\ graph.entities \in [Identities -> EntityRow]
      /\ graph.assertions \in [Identities -> SUBSET AssertionRow]
      /\ graph.byId \in [Assertions -> SUBSET AssertionRow]
      /\ graph.versions \in [Identities -> Nat]
      /\ graph.epoch \in Nat
  BY <1>1 DEF Graph
<1>3. \A r \in AssertionRow : r.id \in Assertions /\ r.subject \in Identities
  BY DEF AssertionRow
<1>4. \A i \in Identities :
        Staged(i) /\ (call.view[i] # graph.entities[i] => call.touched[i] > 0)
  BY DEF IInv, CallFits
<1>5. \A r \in call.new :
         /\ r.epoch = NewEpoch
         /\ call.touched[r.subject] > 0
         /\ graph.byId[r.id] = {}
         /\ \A s \in call.new : r.id = s.id => r = s
  BY DEF IInv, CallFits
<1>6. /\ Published.entities = call.view
      /\ Published.assertions = [i \in Identities |->
           graph.assertions[i] \cup {r \in call.new : r.subject = i}]
      /\ Published.byId = [a \in Assertions |->
           graph.byId[a] \cup {r \in call.new : r.id = a}]
      /\ Published.versions = [i \in Identities |-> graph.versions[i] + call.touched[i]]
      /\ Published.epoch = NewEpoch
  BY DEF Published
<1>7. Published \in Graph
  <2>1. [i \in Identities |-> graph.assertions[i] \cup {r \in call.new : r.subject = i}]
          \in [Identities -> SUBSET AssertionRow]
    BY <1>1, <1>2
  <2>2. [a \in Assertions |-> graph.byId[a] \cup {r \in call.new : r.id = a}]
          \in [Assertions -> SUBSET AssertionRow]
    BY <1>1, <1>2
  <2>3. [i \in Identities |-> graph.versions[i] + call.touched[i]] \in [Identities -> Nat]
    BY <1>1, <1>2
  <2>4. NewEpoch \in Nat
    BY <1>2 DEF NewEpoch
  <2> QED
    BY <1>1, <2>1, <2>2, <2>3, <2>4 DEF Published, Graph
<1>8. ASSUME NEW i \in Identities
      PROVE  /\ Published.versions[i] = graph.versions[i] + call.touched[i]
             /\ Published.assertions[i] =
                  graph.assertions[i] \cup {r \in call.new : r.subject = i}
             /\ call.touched[i] \in Nat /\ graph.versions[i] \in Nat
  BY <1>1, <1>2, <1>6
<1>9. ASSUME NEW i \in Identities, call.touched[i] = 0
      PROVE  /\ Published.entities[i] = graph.entities[i]
             /\ Published.assertions[i] = graph.assertions[i]
  BY <1>4, <1>5, <1>6, <1>8, <1>9
<1>10. Accounted(Published)
  <2> SUFFICES ASSUME NEW i \in Identities
               PROVE  /\ Published.versions[i] = 0 =>
                           Published.entities[i] = Unknown /\ Published.assertions[i] = {}
                      /\ Published.entities[i].epoch <= Published.epoch
                      /\ \A r \in Published.assertions[i] :
                           r.subject = i /\ r.epoch <= Published.epoch
    BY DEF Accounted
  <2>1. /\ graph.versions[i] = 0 => graph.entities[i] = Unknown /\ graph.assertions[i] = {}
        /\ graph.entities[i].epoch <= graph.epoch
        /\ \A r \in graph.assertions[i] : r.subject = i /\ r.epoch <= graph.epoch
    BY <1>1 DEF Accounted
  <2>2. graph.entities[i] \in EntityRow /\ graph.assertions[i] \in SUBSET AssertionRow
    BY <1>2
  <2>3. graph.entities[i].epoch \in Nat /\ \A r \in graph.assertions[i] : r.epoch \in Nat
    BY <2>2 DEF EntityRow, AssertionRow
  <2>4. Published.versions[i] = 0 => graph.versions[i] = 0 /\ call.touched[i] = 0
    BY <1>8
  <2>5. Published.entities[i].epoch <= Published.epoch
    BY <1>2, <1>4, <1>6, <2>1, <2>3 DEF Staged, NewEpoch
  <2>6. ASSUME NEW r \in Published.assertions[i]
        PROVE  r.subject = i /\ r.epoch <= Published.epoch
    BY <1>2, <1>5, <1>6, <1>8, <2>1, <2>3 DEF NewEpoch
  <2> QED
    BY <1>9, <2>1, <2>4, <2>5, <2>6
<1>11. Indexed(Published)
  <2>1. \A i \in Identities : \A r \in Published.assertions[i] :
          r.subject = i /\ r \in Published.byId[r.id]
    BY <1>1, <1>2, <1>3, <1>6, <1>8 DEF Indexed
  <2>2. \A a \in Assertions : \A r \in Published.byId[a] :
          r.id = a /\ r \in Published.assertions[r.subject]
    BY <1>1, <1>2, <1>3, <1>6 DEF Indexed
  <2>3. \A a \in Assertions : \A r, s \in Published.byId[a] : r = s
    BY <1>1, <1>2, <1>5, <1>6 DEF Indexed
  <2> QED
    BY <2>1, <2>2, <2>3 DEF Indexed
<1>12. ASSUME NEW i \in Identities
       PROVE  /\ graph.versions[i] <= Published.versions[i]
              /\ graph.versions[i] = Published.versions[i] =>
                   Basis(Published, i) = Basis(graph, i)
  <2>1. graph.versions[i] = Published.versions[i] => call.touched[i] = 0
    BY <1>8
  <2>2. graph.versions[i] <= Published.versions[i]
    BY <1>8
  <2>3. call.touched[i] = 0 => Basis(Published, i) = Basis(graph, i)
    BY <1>9 DEF Basis
  <2> QED
    BY <2>1, <2>2, <2>3
<1> QED
  BY <1>7, <1>10, <1>11, <1>12 DEF GoodGraph

\* What was read of one graph holds of another that moved on from it.
LEMMA HoldsOn ==
  ASSUME NEW g \in Graph, NEW h \in Graph, NEW p \in Plan, Holds(p, g),
         \A i \in Identities :
           /\ g.versions[i] <= h.versions[i]
           /\ g.versions[i] = h.versions[i] => Basis(h, i) = Basis(g, i)
  PROVE  Holds(p, h)
<1> SUFFICES ASSUME NEW i \in p.guards
             PROVE  /\ p.seen[i] <= h.versions[i]
                    /\ p.seen[i] = h.versions[i] => p.basis[i] = Basis(h, i)
  BY DEF Holds
<1>1. i \in Identities /\ p.seen[i] \in Nat
  BY DEF Plan
<1>2. g.versions[i] \in Nat /\ h.versions[i] \in Nat
  BY <1>1 DEF Graph
<1>3. p.seen[i] <= g.versions[i] /\ (p.seen[i] = g.versions[i] => p.basis[i] = Basis(g, i))
  BY DEF Holds
<1> QED
  BY <1>1, <1>2, <1>3

\* A plan that was committed is a plan.
LEMMA CommittedType ==
  ASSUME NEW p \in Plan, NEW before \in [Identities -> EntityRow],
         NEW guards \in SUBSET Identities, NEW seen \in [Identities -> Nat],
         NEW basis \in [Identities -> BasisType],
         NEW read \in {"clean", "dirty", "void"}
  PROVE  [p EXCEPT !.state = "committed", !.before = before, !.guards = guards,
                   !.seen = seen, !.basis = basis, !.read = read] \in Plan
  BY DEF Plan

\* Publishing moves the graph on; other plans hold or their version is behind.
LEMMA PublishInv ==
  ASSUME IInv, NEW x \in Executors, Publish(x)
  PROVE  IInv'
<1> DEFINE subjects == Subjects(plan[x].batch)
           kept == [plan[x] EXCEPT !.state = "committed",
                                   !.before = Entities(graph, subjects),
                                   !.guards = subjects,
                                   !.seen = Versions(Published, subjects),
                                   !.basis = Bases(Published, subjects),
                                   !.read = ReadNow]
<1>1. /\ call.by = x /\ graph' = Published /\ call' = NoCall /\ saved' = saved
      /\ \/ plan' = [plan EXCEPT ![x] = NoPlan]
         \/ plan' = [plan EXCEPT ![x] = kept]
  BY DEF Publish
<1>2. ~Quiet
  BY <1>1, NobodyAssumption DEF Quiet
<1>3. plan \in [Executors -> Plan] /\ graph \in Graph
  BY DEF IInv, GoodGraph
<1>4. GoodGraph(graph)' /\ Published \in Graph
  BY <1>1, <1>2, PublishedGood DEF GoodGraph
<1>5. CallType' /\ CallFits'
  BY <1>1 DEF CallType, CallFits, NoCall, Quiet, EntityRow, Unknown
<1>6. subjects \in SUBSET Identities
  BY <1>3, SubjectsType DEF Plan
<1> HIDE DEF subjects
<1>7. ReadNow \in {"clean", "dirty", "void"} /\ (ReadNow = "clean" => ~saved.open)
  BY DEF ReadNow
<1>8. /\ Versions(Published, subjects) \in [Identities -> Nat]
      /\ Bases(Published, subjects) \in [Identities -> BasisType]
      /\ Entities(graph, subjects) \in [Identities -> EntityRow]
  BY <1>3, <1>4, <1>6, ReadsTyped
<1>9. kept \in Plan
  <2>1. plan[x] \in Plan
    BY <1>3
  <2> QED
    BY <1>6, <1>7, <1>8, <2>1, CommittedType
<1>10. /\ kept.guards = subjects
       /\ kept.seen = Versions(Published, subjects)
       /\ kept.basis = Bases(Published, subjects)
       /\ kept.read = ReadNow
  BY <1>3 DEF Plan
<1> HIDE DEF kept
<1>11. Holds(kept, Published)
  BY <1>4, <1>6, <1>10 DEF Holds, Versions, Bases, Graph
<1>12. \A g : Holds(NoPlan, g)
  BY DEF Holds, NoPlan
<1>13. plan' \in [Executors -> Plan]
  BY <1>1, <1>3, <1>9, NoPlanType
<1>14. PlanHolds'
  <2> SUFFICES ASSUME NEW z \in Executors
               PROVE  /\ plan'[z].read # "void" => Holds(plan'[z], graph')
                      /\ plan'[z].read = "clean" /\ saved'.open
                           => Holds(plan'[z], saved'.graph)
    BY DEF PlanHolds
  <2>1. CASE z = x
    <3>1. plan'[x] = NoPlan \/ plan'[x] = kept
      BY <1>1, <1>3
    <3> QED
      BY <3>1, <2>1, <1>1, <1>7, <1>10, <1>11, <1>12
  <2>2. CASE z # x
    <3>1. plan'[z] = plan[z] /\ plan[z] \in Plan
      BY <2>2, <1>1, <1>3
    <3>2. /\ plan[z].read # "void" => Holds(plan[z], graph)
          /\ plan[z].read = "clean" /\ saved.open => Holds(plan[z], saved.graph)
      BY DEF IInv, PlanHolds
    <3>3. Holds(plan[z], graph) => Holds(plan[z], Published)
      BY <1>2, <1>3, <1>4, <3>1, HoldsOn, PublishedGood
    <3> QED
      BY <3>1, <3>2, <3>3, <1>1
  <2> QED
    BY <2>1, <2>2
<1> QED
  BY <1>1, <1>4, <1>5, <1>13, <1>14, SameSaved DEF IInv

\* Superseding an assertion leaves a good graph, and every basis.
LEMMA MarkSupersededInv ==
  ASSUME IInv, NEW a \in Assertions, MarkSuperseded(a)
  PROVE  IInv'
<1> DEFINE sup(r) == IF r.id = a THEN [r EXCEPT !.status = "SUPERSEDED"] ELSE r
           lists == [i \in Identities |-> {sup(r) : r \in graph.assertions[i]}]
           index == [b \in Assertions |-> {sup(r) : r \in graph.byId[b]}]
<1>1. /\ Quiet
      /\ graph' = [graph EXCEPT !.assertions = lists, !.byId = index]
      /\ UNCHANGED <<saved, call, plan>>
  BY DEF MarkSuperseded
<1>2. graph \in Graph /\ Accounted(graph) /\ Indexed(graph)
  BY DEF IInv, GoodGraph
<1>3. /\ graph.assertions \in [Identities -> SUBSET AssertionRow]
      /\ graph.byId \in [Assertions -> SUBSET AssertionRow]
      /\ graph.epoch \in Nat
  BY <1>2 DEF Graph
<1>4. ASSUME NEW r \in AssertionRow
      PROVE  /\ sup(r) \in AssertionRow
             /\ sup(r).id = r.id /\ sup(r).subject = r.subject
             /\ sup(r).epoch = r.epoch
             /\ r.id \in Assertions /\ r.subject \in Identities
  BY DEF AssertionRow, Statuses
<1> HIDE DEF sup
<1>5. ASSUME NEW i \in Identities
      PROVE  lists[i] = {sup(r) : r \in graph.assertions[i]}
  OBVIOUS
<1>6. ASSUME NEW b \in Assertions
      PROVE  index[b] = {sup(r) : r \in graph.byId[b]}
  OBVIOUS
<1>7. /\ lists \in [Identities -> SUBSET AssertionRow]
      /\ index \in [Assertions -> SUBSET AssertionRow]
  BY <1>3, <1>4
<1> HIDE DEF lists, index
<1>8. /\ graph'.assertions = lists /\ graph'.byId = index
      /\ graph'.entities = graph.entities /\ graph'.versions = graph.versions
      /\ graph'.epoch = graph.epoch
      /\ graph' \in Graph
  BY <1>1, <1>2, <1>7 DEF Graph
<1>9. Accounted(graph')
  <2> SUFFICES ASSUME NEW i \in Identities
               PROVE  /\ graph.versions[i] = 0 => graph.entities[i] = Unknown /\ lists[i] = {}
                      /\ graph.entities[i].epoch <= graph.epoch
                      /\ \A r \in lists[i] : r.subject = i /\ r.epoch <= graph.epoch
    BY <1>8 DEF Accounted
  <2>1. /\ graph.versions[i] = 0 => graph.entities[i] = Unknown /\ graph.assertions[i] = {}
        /\ graph.entities[i].epoch <= graph.epoch
        /\ \A r \in graph.assertions[i] : r.subject = i /\ r.epoch <= graph.epoch
    BY <1>2 DEF Accounted
  <2> QED
    BY <2>1, <1>3, <1>4, <1>5
<1>10. Indexed(graph')
  <2>1. \A i \in Identities : \A r \in lists[i] : r.subject = i /\ r \in index[r.id]
    BY <1>2, <1>3, <1>4, <1>5, <1>6 DEF Indexed
  <2>2. \A b \in Assertions : \A r \in index[b] : r.id = b /\ r \in lists[r.subject]
    BY <1>2, <1>3, <1>4, <1>5, <1>6 DEF Indexed
  <2>3. \A b \in Assertions : \A r, s \in index[b] : r = s
    BY <1>2, <1>3, <1>6 DEF Indexed
  <2> QED
    BY <1>8, <2>1, <2>2, <2>3 DEF Indexed
<1>11. \A i \in Identities : Basis(graph', i) = Basis(graph, i)
  <2> SUFFICES ASSUME NEW i \in Identities
               PROVE  {r.id : r \in lists[i]} = {r.id : r \in graph.assertions[i]}
    BY <1>8 DEF Basis
  <2> QED
    BY <1>3, <1>4, <1>5
<1>12. plan \in [Executors -> Plan]
  BY DEF IInv
<1>13. PlanHolds'
  <2> SUFFICES ASSUME NEW z \in Executors
               PROVE  /\ plan[z].read # "void" => Holds(plan[z], graph')
                      /\ plan[z].read = "clean" /\ saved.open
                           => Holds(plan[z], saved.graph)
    BY <1>1 DEF PlanHolds
  <2>1. \A i \in Identities :
          /\ graph.versions[i] <= graph'.versions[i]
          /\ graph.versions[i] = graph'.versions[i] => Basis(graph', i) = Basis(graph, i)
    BY <1>2, <1>8, <1>11 DEF Graph
  <2>2. Holds(plan[z], graph) => Holds(plan[z], graph')
    BY <1>2, <1>8, <1>12, <2>1, HoldsOn
  <2> QED
    BY <2>2 DEF IInv, PlanHolds
<1>14. CallType' /\ CallFits'
  BY <1>1 DEF IInv, CallType, CallFits, Quiet
<1> QED
  BY <1>1, <1>8, <1>9, <1>10, <1>12, <1>13, <1>14, SameSaved DEF IInv, GoodGraph

\* Settling or undoing what plans read changes nothing else in them.
LEMMA Reread ==
  ASSUME plan \in [Executors -> Plan], plan' \in {Settled, Undone}
  PROVE  /\ plan' \in [Executors -> Plan]
         /\ \A z \in Executors :
              /\ plan'[z].guards = plan[z].guards
              /\ plan'[z].seen = plan[z].seen
              /\ plan'[z].basis = plan[z].basis
              /\ plan'[z].read = IF plan[z].read # "dirty" THEN plan[z].read
                                 ELSE IF plan' = Settled THEN "clean" ELSE "void"
<1> DEFINE again(z, word) == [plan[z] EXCEPT !.read = IF @ = "dirty" THEN word ELSE @]
<1>1. \A z \in Executors : \A word \in {"clean", "void"} :
        /\ again(z, word) \in Plan
        /\ again(z, word).guards = plan[z].guards
        /\ again(z, word).seen = plan[z].seen
        /\ again(z, word).basis = plan[z].basis
        /\ again(z, word).read = IF plan[z].read = "dirty" THEN word ELSE plan[z].read
  BY ZenonT(60) DEF Plan
<1>2. /\ Settled = [z \in Executors |-> again(z, "clean")]
      /\ Undone = [z \in Executors |-> again(z, "void")]
  BY DEF Settled, Undone
<1> HIDE DEF again
<1>3. CASE plan' = Settled
  BY <1>1, <1>2, <1>3
<1>4. CASE plan' = Undone /\ plan' # Settled
  BY <1>1, <1>2, <1>4
<1> QED
  BY <1>3, <1>4

\* A copy of the graph holds what the graph holds.
LEMMA BeginInv == ASSUME IInv, Begin PROVE IInv'
<1>1. /\ Quiet /\ saved' = [open |-> TRUE, graph |-> graph] /\ plan' = Settled
      /\ UNCHANGED <<graph, call>>
  BY DEF Begin
<1>2. plan \in [Executors -> Plan] /\ GoodGraph(graph)
  BY DEF IInv
<1>3. SavedGood'
  BY <1>1, <1>2 DEF SavedGood, GoodGraph
<1>4. CallType' /\ CallFits'
  BY <1>1 DEF IInv, CallType, CallFits, Quiet
<1>5. PlanHolds'
  BY <1>1, <1>2, Reread DEF IInv, PlanHolds, Holds
<1> QED
  BY <1>1, <1>2, <1>3, <1>4, <1>5, Reread, SameGraph DEF IInv

\* A commit drops the copy.
LEMMA CommitTransactionInv == ASSUME IInv, CommitTransaction PROVE IInv'
<1>1. /\ Quiet /\ saved' = NoTransaction /\ plan' = Settled
      /\ UNCHANGED <<graph, call>>
  BY DEF CommitTransaction
<1>2. plan \in [Executors -> Plan] /\ GoodGraph(graph)
  BY DEF IInv
<1>3. SavedGood'
  BY <1>1, EmptyGood DEF SavedGood, NoTransaction, GoodGraph
<1>4. CallType' /\ CallFits'
  BY <1>1 DEF IInv, CallType, CallFits, Quiet
<1>5. PlanHolds'
  BY <1>1, <1>2, Reread DEF IInv, PlanHolds, Holds, NoTransaction
<1> QED
  BY <1>1, <1>2, <1>3, <1>4, <1>5, Reread, SameGraph DEF IInv

\* A rollback returns to the copy, where the decisions older than the
\* transaction still hold.
LEMMA RollbackInv == ASSUME IInv, Rollback PROVE IInv'
<1>1. /\ Quiet /\ saved.open /\ graph' = saved.graph /\ saved' = NoTransaction
      /\ plan' = Undone /\ UNCHANGED call
  BY DEF Rollback
<1>2. plan \in [Executors -> Plan] /\ GoodGraph(saved.graph)
  BY DEF IInv, SavedGood
<1>3. SavedGood'
  BY <1>1, EmptyGood DEF SavedGood, NoTransaction, GoodGraph
<1>4. CallType' /\ CallFits'
  BY <1>1 DEF IInv, CallType, CallFits, Quiet
<1>5. \A z \in Executors : plan'[z].read # "void" => plan[z].read = "clean"
  <2>1. \A z \in Executors : plan'[z] =
          [plan[z] EXCEPT !.read = IF @ = "dirty" THEN "void" ELSE @]
    BY <1>1 DEF Undone
  <2> SUFFICES ASSUME NEW z \in Executors, plan'[z].read # "void"
               PROVE  plan[z].read = "clean"
    OBVIOUS
  <2>2. plan[z] \in Plan
    BY <1>2
  <2>3. plan[z].read \in {"clean", "dirty", "void"}
    BY <2>2 DEF Plan
  <2>4. plan'[z].read = IF plan[z].read = "dirty" THEN "void" ELSE plan[z].read
    BY <2>1, <2>2 DEF Plan
  <2> QED
    BY <2>3, <2>4
<1>6. PlanHolds'
  BY <1>1, <1>2, <1>5, Reread DEF IInv, PlanHolds, Holds, NoTransaction
<1> QED
  BY <1>1, <1>2, <1>3, <1>4, <1>6, Reread DEF IInv

\* Every step keeps the invariant.
LEMMA StepInv == IInv /\ [Next]_vars => IInv'
<1> SUFFICES ASSUME IInv, [Next]_vars PROVE IInv'
  OBVIOUS
<1>1. CASE UNCHANGED vars
  <2>1. CallType' /\ CallFits' /\ PlanHolds'
    BY <1>1, SMTT(30) DEF vars, IInv, CallType, CallFits, Quiet, Staged, Creates, NewEpoch,
                PreconditionsHold, PlanHolds
  <2> QED
    BY <1>1, <2>1, SameGraph, SameSaved DEF vars, IInv
<1>2. ASSUME NEW x \in Executors, Step(x)
      PROVE  IInv'
  BY <1>2, DecideInv, DecideUndoInv, BeginApplyInv, FailPreconditionsInv,
     CreateInv, AttachInv, RevokeInv, RestoreInv, RefuseInv, PublishInv
     DEF Step
<1>3. CASE Adapter
  BY <1>3, MarkSupersededInv, BeginInv, CommitTransactionInv, RollbackInv
     DEF Adapter
<1> QED
  BY <1>1, <1>2, <1>3 DEF Next

\* The inductive invariant holds in every state of every behaviour.
THEOREM StoreInvariant == Spec => []IInv
  BY InitInv, StepInv, PTL DEF Spec

-----------------------------------------------------------------------------
(* The results *)

\* The graph and the copy a rollback returns to are always well typed, an
\* identity at version 0 is in no table, and no record is of a later epoch.
THEOREM StoreTypeCorrect == Spec => []TypeOK
<1>1. IInv => TypeOK
  BY DEF IInv, TypeOK, GoodGraph, SavedGood, CallType
<1> QED
  BY <1>1, StoreInvariant, PTL

\* get_assertion() and assertions_for() show the same records, one per id,
\* whatever the options, in every state there is, rolled back ones included.
THEOREM IndexesAgree == Spec => []ReadsAgree
<1>1. IInv => ReadsAgree
  <2> SUFFICES ASSUME IInv, NEW o \in Options
               PROVE  /\ \A a \in Assertions :
                           \A r, s \in GetAssertion(graph, a, o) : r = s
                      /\ UNION { GetAssertion(graph, a, o) : a \in Assertions }
                           = UNION { AssertionsFor(graph, i, o) : i \in Identities }
    BY DEF ReadsAgree
  <2>1. /\ \A i \in Identities : \A r \in graph.assertions[i] :
             r.subject = i /\ r \in graph.byId[r.id] /\ r.id \in Assertions
        /\ \A a \in Assertions : \A r \in graph.byId[a] :
             r.id = a /\ r \in graph.assertions[r.subject] /\ r.subject \in Identities
        /\ \A a \in Assertions : \A r, s \in graph.byId[a] : r = s
    BY DEF IInv, GoodGraph, Graph, Indexed, AssertionRow
  <2>2. \A a \in Assertions : \A r :
          r \in GetAssertion(graph, a, o) <=>
            /\ r \in graph.byId[a]
            /\ SubjectVisible(graph, r.subject, o) /\ Visible(r, o)
    BY DEF GetAssertion
  <2>3. \A i \in Identities : \A r :
          r \in AssertionsFor(graph, i, o) <=>
            /\ r \in graph.assertions[i]
            /\ SubjectVisible(graph, i, o) /\ Visible(r, o)
    BY DEF AssertionsFor
  <2> QED
    BY <2>1, <2>2, <2>3
<1> QED
  BY <1>1, StoreInvariant, PTL

\* A guarded batch is applied to the entity and the assertions it was decided
\* on: equal versions mean an unchanged basis, across rollbacks as well.
THEOREM GuardedIsOnBasis == Spec => []GuardedOnBasis
<1>1. IInv => GuardedOnBasis
  <2> SUFFICES ASSUME IInv, NEW x \in Executors, call.by = x, plan[x].read # "void",
                      NEW i \in plan[x].guards
               PROVE  Basis(graph, i) = plan[x].basis[i]
    BY DEF GuardedOnBasis
  <2>1. PreconditionsHold(x)
    BY NobodyAssumption DEF IInv, CallFits, Quiet
  <2>2. Holds(plan[x], graph)
    BY DEF IInv, PlanHolds
  <2> QED
    BY <2>1, <2>2 DEF PreconditionsHold, Holds
<1> QED
  BY <1>1, StoreInvariant, PTL

\* What a pinned history read of a graph answers.
LEMMA HistoryRead ==
  ASSUME NEW g, NEW e
  PROVE  /\ HistoryEntities(g, e) =
              { i \in Identities : g.entities[i].status # "UNKNOWN" /\ g.entities[i].epoch <= e }
         /\ HistoryAssertions(g, e) =
              { r.id : r \in UNION { {r \in g.assertions[i] : r.epoch <= e} : i \in Identities } }
  BY DEF HistoryEntities, HistoryAssertions, Found, Visible, Everything,
         AssertionsFor, SubjectVisible

\* The step PinnedHistoryStays allows.
HistoryKept ==
  \A e \in 0..MaxEpoch : e <= graph.epoch /\ ~RollsBack =>
    /\ HistoryEntities(graph, e) \ Creates \subseteq HistoryEntities(graph', e)
    /\ HistoryEntities(graph', e) \subseteq HistoryEntities(graph, e)
    /\ HistoryAssertions(graph', e) = HistoryAssertions(graph, e)

\* A step that leaves epochs, ids and whether there is an entity as they are
\* leaves history as it is.
LEMMA HistorySame ==
  ASSUME graph' = graph
  PROVE  HistoryKept
  BY DEF HistoryKept

\* A batch adds to the new epoch alone.
LEMMA PublishHistory ==
  ASSUME IInv, NEW x \in Executors, Publish(x)
  PROVE  HistoryKept
<1> SUFFICES ASSUME NEW e \in 0..MaxEpoch, e <= graph.epoch
             PROVE  /\ HistoryEntities(graph, e) \ Creates \subseteq HistoryEntities(graph', e)
                    /\ HistoryEntities(graph', e) \subseteq HistoryEntities(graph, e)
                    /\ HistoryAssertions(graph', e) = HistoryAssertions(graph, e)
  BY DEF HistoryKept
<1>1. ~Quiet /\ graph' = Published
  BY NobodyAssumption DEF Publish, Quiet
<1>2. graph \in Graph /\ call.new \in SUBSET AssertionRow
  BY DEF IInv, GoodGraph, CallType
<1>3. e \in Nat /\ graph.epoch \in Nat /\ e < NewEpoch
  BY <1>2, BoundAssumption DEF Graph, NewEpoch
<1>4. \A i \in Identities : Staged(i)
  BY <1>1 DEF IInv, CallFits
<1>5. graph'.entities = call.view
  BY <1>1 DEF Published
<1>6. ASSUME NEW i \in Identities
      PROVE  /\ i \in HistoryEntities(graph', e) => i \in HistoryEntities(graph, e)
             /\ i \in HistoryEntities(graph, e) /\ i \notin Creates =>
                  i \in HistoryEntities(graph', e)
  <2>1. i \in HistoryEntities(graph', e) <=>
          call.view[i].status # "UNKNOWN" /\ call.view[i].epoch <= e
    BY <1>5, HistoryRead
  <2>2. i \in HistoryEntities(graph, e) <=>
          graph.entities[i].status # "UNKNOWN" /\ graph.entities[i].epoch <= e
    BY HistoryRead
  <2>3. ~(NewEpoch <= e)
    BY <1>3 DEF NewEpoch
  <2> QED
    BY <1>4, <2>1, <2>2, <2>3 DEF Staged
<1>7. \A i \in Identities : {r \in graph'.assertions[i] : r.epoch <= e}
                              = {r \in graph.assertions[i] : r.epoch <= e}
  <2>1. \A r \in call.new : ~(r.epoch <= e)
    BY <1>1, <1>3 DEF IInv, CallFits, NewEpoch
  <2>2. \A i \in Identities : graph'.assertions[i] =
          graph.assertions[i] \cup {r \in call.new : r.subject = i}
    BY <1>1 DEF Published
  <2> QED
    BY <2>1, <2>2
<1>8. HistoryAssertions(graph', e) = HistoryAssertions(graph, e)
  BY <1>7, HistoryRead
<1>9. \A g : HistoryEntities(g, e) \subseteq Identities
  BY DEF HistoryEntities
<1> QED
  BY <1>6, <1>8, <1>9

\* Superseding changes no epoch and no id.
LEMMA SupersedeHistory ==
  ASSUME IInv, NEW a \in Assertions, MarkSuperseded(a)
  PROVE  HistoryKept
<1> DEFINE sup(r) == IF r.id = a THEN [r EXCEPT !.status = "SUPERSEDED"] ELSE r
<1>1. graph \in Graph
  BY DEF IInv, GoodGraph
<1>2. /\ graph'.entities = graph.entities
      /\ graph'.assertions = [i \in Identities |-> {sup(r) : r \in graph.assertions[i]}]
  BY <1>1 DEF MarkSuperseded, Graph
<1>3. \A r \in AssertionRow : sup(r).id = r.id /\ sup(r).epoch = r.epoch
  BY DEF AssertionRow
<1> HIDE DEF sup
<1>4. \A i \in Identities : graph.assertions[i] \in SUBSET AssertionRow
  BY <1>1 DEF Graph
<1>5. \A i \in Identities : graph'.assertions[i] = {sup(r) : r \in graph.assertions[i]}
  BY <1>2
<1>6. ASSUME NEW e
      PROVE  HistoryEntities(graph', e) = HistoryEntities(graph, e)
  <2>1. \A g : HistoryEntities(g, e) =
          { i \in Identities : g.entities[i].status # "UNKNOWN" /\ g.entities[i].epoch <= e }
    BY HistoryRead
  <2> QED
    BY <1>2, <2>1, ZenonT(60)
<1>7. ASSUME NEW e
      PROVE  HistoryAssertions(graph', e) = HistoryAssertions(graph, e)
  <2>1. \A i \in Identities :
          {r.id : r \in {r \in graph'.assertions[i] : r.epoch <= e}}
            = {r.id : r \in {r \in graph.assertions[i] : r.epoch <= e}}
    BY <1>3, <1>4, <1>5
  <2>2. \A g : HistoryAssertions(g, e) =
          UNION { {r.id : r \in {r \in g.assertions[i] : r.epoch <= e}} : i \in Identities }
    BY HistoryRead
  <2> QED
    BY <2>1, <2>2, ZenonT(60)
<1> QED
  BY <1>6, <1>7 DEF HistoryKept

\* A history read pinned to a published epoch keeps its answer through every
\* step but a rollback: withdrawals, restorations, supersessions and later
\* batches, whatever they hold.  Only creating an identity anew moves it.
THEOREM HistoryStays == Spec => PinnedHistoryStays
<1>1. IInv /\ [Next]_vars => [HistoryKept]_vars
  <2> SUFFICES ASSUME IInv, Next PROVE HistoryKept
    OBVIOUS
  <2>1. ASSUME NEW x \in Executors, Step(x)
        PROVE  HistoryKept
    BY <2>1, PublishHistory, HistorySame
       DEF Step, Decide, DecideUndo, BeginApply, FailPreconditions, Create,
           Attach, Revoke, Restore, Refuse
  <2>2. CASE Adapter
    <3>1. CASE \E a \in Assertions : MarkSuperseded(a)
      BY <3>1, SupersedeHistory
    <3>2. CASE Begin \/ CommitTransaction
      BY <3>2, HistorySame DEF Begin, CommitTransaction
    <3>3. CASE Rollback
      BY <3>3 DEF Rollback, NoTransaction, RollsBack, HistoryKept
    <3> QED
      BY <2>2, <3>1, <3>2, <3>3 DEF Adapter
  <2> QED
    BY <2>1, <2>2 DEF Next
<1> QED
  BY <1>1, StoreInvariant, PTL DEF Spec, PinnedHistoryStays, HistoryKept

-----------------------------------------------------------------------------
(* What neighborhood() finds *)

\* What is reached within 0, 1, ... hops of start.
Within(g, start, hops, o) ==
  LET within[n \in 0..hops] ==
        IF n = 0 THEN {start}
        ELSE within[n - 1] \cup
               { i \in Targets(g, within[n - 1], o) : Found(g, i, o) }
  IN within

\* One hop further.
Further(g, last, o) == last \cup { i \in Targets(g, last, o) : Found(g, i, o) }

\* One round of the loop of neighborhood().
Hop(g, last, o) ==
  LET reached == Targets(g, last.frontier, o) \ last.visited
      found == { i \in reached : Found(g, i, o) }
  IN [ visited |-> last.visited \cup reached, frontier |-> found,
       result |-> last.result \cup found ]

Walk == [visited: SUBSET Identities, frontier: SUBSET Identities,
         result: SUBSET Identities]

AtStart(start) == [visited |-> {start}, frontier |-> {start}, result |-> {}]

\* Who refers to what: only identities are targets.
LEMMA TargetsAre ==
  ASSUME NEW g \in Graph, NEW o, NEW from \in SUBSET Identities
  PROVE  /\ Targets(g, from, o) \in SUBSET Identities
         /\ \A t : t \in Targets(g, from, o) <=>
              \E i \in from : t \in Targets(g, {i}, o)
<1>1. ASSUME NEW i \in from, NEW r \in AssertionsFor(g, i, o)
      PROVE  r.object \in Identities \cup {NoIdentity}
  <2>1. g.assertions[i] \in SUBSET AssertionRow
    BY DEF Graph
  <2>2. r \in AssertionRow
    BY <2>1 DEF AssertionsFor
  <2> QED BY <2>2 DEF AssertionRow
<1> QED BY <1>1 DEF Targets

\* The recursive functions are what they are written as.
LEMMA WithinUnfolds ==
  ASSUME NEW g \in Graph, NEW start \in Identities, NEW hops \in Nat, NEW o
  PROVE  /\ Within(g, start, hops, o)[0] = {start}
         /\ \A n \in 1..hops :
              Within(g, start, hops, o)[n] = Further(g, Within(g, start, hops, o)[n - 1], o)
<1> DEFINE S == SUBSET Identities
           step == [n \in 1..hops |-> [l \in S |-> Further(g, l, o)]]
           Good(f) == f = [n \in 0..hops |->
                             IF n = 0 THEN {start} ELSE Further(g, f[n - 1], o)]
           within == Within(g, start, hops, o)
<1>1. \A l \in S : Further(g, l, o) \in S
  BY TargetsAre DEF Further
<1>2. \E f : Good(f)
  <2>1. Steps(S, hops, step) /\ {start} \in S
    BY <1>1 DEF Steps
  <2>2. PICK f : Follows(S, {start}, hops, step, f)
    <3> HIDE DEF step, S, Good
    <3> QED BY <2>1, StepsCompose
  <2>3. ASSUME NEW n \in 1..hops
        PROVE  f[n] = Further(g, f[n - 1], o)
    <3>1. f[n - 1] \in S
      BY <2>2 DEF Follows
    <3> HIDE DEF S
    <3> QED BY <2>2, <3>1 DEF Follows
  <2> HIDE DEF step, S
  <2> QED BY <2>2, <2>3 DEF Follows
<1>3. Good(within)
  <2>1. within = CHOOSE f : Good(f)
    BY DEF Within, Further
  <2> QED BY <1>2, <2>1
<1> HIDE DEF within
<1>4. within[0] = {start}
  BY <1>3
<1>5. ASSUME NEW n \in 1..hops
      PROVE  within[n] = Further(g, within[n - 1], o)
  <2>1. n \in 0..hops /\ n # 0
    OBVIOUS
  <2> QED BY <1>3, <2>1
<1> QED BY <1>4, <1>5 DEF within

\* The loop leads somewhere, one round after the other.
LEMMA WalkUnfolds ==
  ASSUME NEW g \in Graph, NEW start \in Identities, NEW hops \in Nat, NEW o
  PROVE  \E w : /\ w[0] = AtStart(start)
                /\ \A n \in 1..hops : w[n] = Hop(g, w[n - 1], o)
                /\ Neighborhood(g, start, hops, o) = w[hops].result
<1> DEFINE step == [n \in 1..hops |-> [l \in Walk |-> Hop(g, l, o)]]
           Good(f) == f = [n \in 0..hops |->
                             IF n = 0 THEN AtStart(start) ELSE Hop(g, f[n - 1], o)]
           walk == CHOOSE f : Good(f)
<1>1. ASSUME NEW l \in Walk
      PROVE  Hop(g, l, o) \in Walk
  <2>1. l.visited \in SUBSET Identities /\ l.frontier \in SUBSET Identities
        /\ l.result \in SUBSET Identities
    BY DEF Walk
  <2>2. Targets(g, l.frontier, o) \in SUBSET Identities
    BY <2>1, TargetsAre
  <2> QED BY <2>1, <2>2 DEF Hop, Walk
<1>2. \E f : Good(f)
  <2>1. Steps(Walk, hops, step) /\ AtStart(start) \in Walk
    BY <1>1 DEF Steps, AtStart, Walk
  <2>2. PICK f : Follows(Walk, AtStart(start), hops, step, f)
    <3> HIDE DEF step, Good
    <3> QED BY <2>1, StepsCompose
  <2>3. ASSUME NEW n \in 1..hops
        PROVE  f[n] = Hop(g, f[n - 1], o)
    <3>1. f[n - 1] \in Walk
      BY <2>2 DEF Follows
    <3> QED BY <2>2, <3>1 DEF Follows
  <2>4. /\ f = [n \in 0..hops |-> f[n]]
        /\ f[0] = AtStart(start)
    BY <2>2 DEF Follows
  <2>5. ASSUME NEW n \in 0..hops
        PROVE  f[n] = IF n = 0 THEN AtStart(start) ELSE Hop(g, f[n - 1], o)
    <3>1. CASE n = 0
      BY <2>4, <3>1
    <3>2. CASE n # 0
      <4>1. n \in 1..hops
        BY <3>2
      <4> QED BY <2>3, <3>2, <4>1
    <3> QED BY <3>1, <3>2
  <2> HIDE DEF step
  <2> QED BY <2>4, <2>5
<1>3. Good(walk)
  BY <1>2
<1>4. Neighborhood(g, start, hops, o) = walk[hops].result
  BY DEF Neighborhood, Hop, AtStart
<1> HIDE DEF walk
<1>5. /\ walk[0] = AtStart(start)
      /\ \A n \in 1..hops : walk[n] = Hop(g, walk[n - 1], o)
  BY <1>3
<1> QED BY <1>4, <1>5

\* After each round the result is what is within that many hops: what was seen
\* of that and is found is in it, and only the frontier leads further.
Reached(g, start, o, w, v) ==
  /\ w \in Walk
  /\ v \in SUBSET Identities
  /\ v = {start} \cup w.result
  /\ start \in w.visited /\ start \notin w.result
  /\ w.frontier \subseteq v
  /\ \A i \in w.visited : Found(g, i, o) => i \in v
  /\ \A i \in v \ w.frontier : \A t \in Targets(g, {i}, o) : Found(g, t, o) => t \in v

\* One round further this still holds.
LEMMA HopReaches ==
  ASSUME NEW g \in Graph, NEW start \in Identities, NEW o, NEW w, NEW v,
         Reached(g, start, o, w, v)
  PROVE  Reached(g, start, o, Hop(g, w, o), Further(g, v, o))
<1> DEFINE reached == Targets(g, w.frontier, o) \ w.visited
           found == { i \in reached : Found(g, i, o) }
           new == { i \in Targets(g, v, o) : Found(g, i, o) }
<1>1. /\ w.visited \in SUBSET Identities /\ w.frontier \in SUBSET Identities
      /\ w.result \in SUBSET Identities /\ v \in SUBSET Identities
  BY DEF Reached, Walk
<1>2. /\ Targets(g, w.frontier, o) \in SUBSET Identities
      /\ Targets(g, v, o) \in SUBSET Identities
      /\ \A t : t \in Targets(g, w.frontier, o) <=>
           \E i \in w.frontier : t \in Targets(g, {i}, o)
      /\ \A t : t \in Targets(g, v, o) <=> \E i \in v : t \in Targets(g, {i}, o)
  BY <1>1, TargetsAre
<1>3. v \cup new = v \cup found
  BY <1>2 DEF Reached
<1>4. /\ Hop(g, w, o).visited = w.visited \cup reached
      /\ Hop(g, w, o).frontier = found
      /\ Hop(g, w, o).result = w.result \cup found
      /\ Further(g, v, o) = v \cup new
  BY DEF Hop, Further
<1>5. Hop(g, w, o) \in Walk
  BY <1>1, <1>2 DEF Hop, Walk
<1>6. \A i \in v : \A t \in Targets(g, {i}, o) : Found(g, t, o) => t \in v \cup new
  BY <1>2
<1> HIDE DEF new
<1> QED BY <1>1, <1>2, <1>3, <1>4, <1>5, <1>6 DEF Reached

\* neighborhood() finds what is within so many hops, but for the start.
LEMMA NeighborhoodIsWithin ==
  ASSUME NEW g \in Graph, NEW start \in Identities, NEW hops \in Nat, NEW o
  PROVE  Neighborhood(g, start, hops, o) = Within(g, start, hops, o)[hops] \ {start}
<1> DEFINE v == Within(g, start, hops, o)
<1>1. v[0] = {start} /\ \A n \in 1..hops : v[n] = Further(g, v[n - 1], o)
  BY WithinUnfolds
<1>2. PICK w : /\ w[0] = AtStart(start)
               /\ \A n \in 1..hops : w[n] = Hop(g, w[n - 1], o)
               /\ Neighborhood(g, start, hops, o) = w[hops].result
  BY WalkUnfolds
<1> HIDE DEF v
<1> DEFINE T == { n \in 0..hops : Reached(g, start, o, w[n], v[n]) }
<1>3. 0 \in T
  BY <1>1, <1>2 DEF Reached, AtStart, Walk
<1>4. ASSUME NEW n \in 1..hops, n - 1 \in T
      PROVE  n \in T
  <2>1. Reached(g, start, o, Hop(g, w[n - 1], o), Further(g, v[n - 1], o))
    BY <1>4, HopReaches
  <2> QED BY <1>1, <1>2, <2>1
<1>5. \A n \in 0..hops : n \in T
  <2> HIDE DEF T
  <2> QED BY <1>3, <1>4, InductionUpTo
<1>6. Reached(g, start, o, w[hops], v[hops])
  BY <1>5
<1> QED BY <1>2, <1>6 DEF Reached, v

\* neighborhood() finds exactly what can be reached over visible assertions
\* through identities a reader can see.
THEOREM NeighborhoodReachable == Spec => []NeighborhoodIsReachable
<1>1. IInv => NeighborhoodIsReachable
  <2> SUFFICES ASSUME IInv, NEW o \in Options, NEW start \in Identities, NEW hops \in 0..2
               PROVE  Neighborhood(graph, start, hops, o)
                        = Within(graph, start, hops, o)[hops] \ {start}
    BY DEF NeighborhoodIsReachable, Within
  <2>1. graph \in Graph /\ hops \in Nat
    BY DEF IInv, GoodGraph
  <2> QED BY <2>1, NeighborhoodIsWithin
<1> QED BY <1>1, StoreInvariant, PTL

-----------------------------------------------------------------------------
(* Taking a batch back *)

\* The statuses an entity can have; nothing ever supersedes one.
EntityStatus == {"UNKNOWN", "ACTIVE", "REVOKED"}

\* The statuses of all entities at a time.
Standing == [Identities -> EntityStatus]

StandingOf(entities) == [i \in Identities |-> entities[i].status]

\* An operation that was not refused took the entities from s to t; of a
\* creation, it met an identity that was not active.
Forth(op, s, t) ==
  /\ \A i \in Identities : i # op.identity => t[i] = s[i]
  /\ \/ op.type = "CREATE_IDENTITY" /\ s[op.identity] # "ACTIVE" /\ t[op.identity] = "ACTIVE"
     \/ op.type = "REVOKE_IDENTITY" /\ s[op.identity] = "ACTIVE" /\ t[op.identity] = "REVOKED"
     \/ op.type = "RESTORE_IDENTITY" /\ s[op.identity] = "REVOKED" /\ t[op.identity] = "ACTIVE"

\* Its inverse is to take them back, as far as it goes: what was unknown is to
\* be withdrawn.
Back(op, s, t) ==
  /\ \A i \in Identities : i # op.identity => t[i] = s[i]
  /\ \/ op.type = "REVOKE_IDENTITY" /\ s[op.identity] = "ACTIVE" /\ t[op.identity] # "ACTIVE"
     \/ op.type = "RESTORE_IDENTITY" /\ s[op.identity] = "REVOKED" /\ t[op.identity] = "ACTIVE"

\* The first k operations of a batch took the entities through h, and left
\* nothing unknown that they are about.
WentForth(batch, k, h) ==
  /\ h \in [0..k -> Standing]
  /\ \A n \in 1..k : Forth(batch[n], h[n - 1], h[n])
  /\ \A n \in 1..k : h[k][batch[n].identity] # "UNKNOWN"

\* The batch is left from its k+1st operation on.
Rest(batch, k, left) ==
  /\ k \in 0..Len(batch)
  /\ Len(left) = Len(batch) - k
  /\ \A m \in 1..Len(left) : left[m] = batch[k + m]

\* A call is somewhere in its batch, and how it came there is known.
Midway(batch, left, entities, view) ==
  \E k \in Nat : \E h :
    /\ Rest(batch, k, left)
    /\ WentForth(batch, k, h)
    /\ h[0] = StandingOf(entities)
    /\ h[k] = StandingOf(view)

\* The whole batch led from before to basis, on the identities it is about.
CanBeUndone(p) ==
  /\ p.guards = Subjects(p.batch)
  /\ \E h : /\ WentForth(p.batch, Len(p.batch), h)
            /\ \A i \in p.guards :
                 /\ h[0][i] = p.before[i].status
                 /\ h[Len(p.batch)][i] = p.basis[i].entity.status

\* The batch, a compensation, is to lead from basis to before through h.
GoesBack(p, h) ==
  /\ h \in [0..Len(p.batch) -> Standing]
  /\ \A n \in 1..Len(p.batch) :
       p.batch[n].identity \in p.guards /\ Back(p.batch[n], h[n - 1], h[n])
  /\ \A i \in p.guards :
       /\ h[0][i] = p.basis[i].entity.status /\ h[0][i] # "UNKNOWN"
       /\ h[Len(p.batch)][i] = p.before[i].status

WithdrawnIfUnknown(status) == IF status = "UNKNOWN" THEN "REVOKED" ELSE status

\* The compensation is somewhere on its way.
OnItsWay(p, left, view, h) ==
  \E k \in Nat :
    /\ Rest(p.batch, k, left)
    /\ \A i \in p.guards : view[i].status = WithdrawnIfUnknown(h[k][i])

Undoing(p, busy, left, view) ==
  \E h : GoesBack(p, h) /\ (busy => OnItsWay(p, left, view, h))

NothingSuperseded ==
  \A i \in Identities :
    /\ graph.entities[i].status \in EntityStatus
    /\ saved.graph.entities[i].status \in EntityStatus
    /\ call.view[i].status \in EntityStatus

UndoHolds(x) ==
  LET p == plan[x] IN
  /\ call.by = x /\ p.kind = "do" /\ p.fresh /\ Compensable(p.batch) =>
       Midway(p.batch, call.left, graph.entities, call.view)
  /\ p.state = "committed" /\ p.fresh => CanBeUndone(p)
  /\ p.kind = "undo" /\ p.fresh /\ p.read # "void" =>
       Undoing(p, call.by = x, call.left, call.view)

UndoInv == NothingSuperseded /\ \A x \in Executors : UndoHolds(x)

-----------------------------------------------------------------------------

\* What an operation did, its inverse undoes.
LEMMA InverseGoesBack ==
  ASSUME NEW op \in Operation, NEW s \in Standing, NEW t \in Standing, Forth(op, s, t)
  PROVE  Back([op EXCEPT !.type = InverseType(@)], t, s)
<1>1. [op EXCEPT !.type = InverseType(@)].type = InverseType(op.type)
      /\ [op EXCEPT !.type = InverseType(@)].identity = op.identity
  BY DEF Operation
<1> QED BY <1>1 DEF Forth, Back, InverseType, Standing, EntityStatus

\* The operations of a compensation.
LEMMA CompensationIs ==
  ASSUME NEW batch \in Seq(Operation)
  PROVE  /\ Len(Compensation(batch)) = Len(batch)
         /\ \A n \in 1..Len(batch) :
              /\ Len(batch) + 1 - n \in 1..Len(batch)
              /\ Compensation(batch)[n]
                   = [batch[Len(batch) + 1 - n] EXCEPT !.type = InverseType(@)]
<1>1. Len(batch) \in Nat /\ DOMAIN batch = 1..Len(batch)
  OBVIOUS
<1>2. Compensation(batch) \in Seq(Operation)
  BY CompensationType
<1>3. DOMAIN Compensation(batch) = 1..Len(batch)
  BY <1>1 DEF Compensation
<1>4. Len(Compensation(batch)) = Len(batch)
  <2>1. /\ Len(Compensation(batch)) \in Nat
        /\ DOMAIN Compensation(batch) = 1..Len(Compensation(batch))
    BY <1>2
  <2> QED BY <1>1, <1>3, <2>1
<1> QED BY <1>1, <1>4 DEF Compensation

\* A batch that can be undone has a compensation that goes back.
LEMMA CompensationGoesBack ==
  ASSUME NEW p \in Plan, CanBeUndone(p), NEW q, q.batch = Compensation(p.batch),
         q.guards = p.guards, q.before = p.before, q.basis = p.basis
  PROVE  \E h : GoesBack(q, h)
<1> DEFINE N == Len(p.batch)
<1>1. /\ p.batch \in Seq(Operation) /\ N \in Nat
      /\ p.guards = Subjects(p.batch)
  BY DEF Plan, CanBeUndone
<1>2. PICK h : /\ WentForth(p.batch, N, h)
               /\ \A i \in p.guards :
                    h[0][i] = p.before[i].status /\ h[N][i] = p.basis[i].entity.status
  BY DEF CanBeUndone
<1>3. /\ Len(q.batch) = N
      /\ \A n \in 1..N :
           /\ N + 1 - n \in 1..N
           /\ q.batch[n] = [p.batch[N + 1 - n] EXCEPT !.type = InverseType(@)]
  BY <1>1, CompensationIs
<1> DEFINE g == [n \in 0..N |-> h[N - n]]
<1> HIDE DEF N
<1>4. /\ g \in [0..N -> Standing] /\ g[0] = h[N] /\ g[N] = h[0]
      /\ \A n \in 1..N : g[n - 1] = h[N + 1 - n] /\ g[n] = h[N + 1 - n - 1]
  <2>1. h \in [0..N -> Standing]
    BY <1>2 DEF WentForth
  <2>2. \A n \in 0..N : N - n \in 0..N
    BY <1>1
  <2>3. g[0] = h[N] /\ g[N] = h[0]
    BY <1>1
  <2>4. ASSUME NEW n \in 1..N
        PROVE  g[n - 1] = h[N + 1 - n] /\ g[n] = h[N + 1 - n - 1]
    <3>1. n - 1 \in 0..N /\ n \in 0..N /\ N - (n - 1) = N + 1 - n /\ N - n = N + 1 - n - 1
      BY <1>1
    <3> QED BY <3>1
  <2> QED BY <2>1, <2>2, <2>3, <2>4
<1> HIDE DEF g
<1>5. ASSUME NEW n \in 1..N
      PROVE  q.batch[n].identity \in q.guards /\ Back(q.batch[n], g[n - 1], g[n])
  <2> DEFINE m == N + 1 - n
  <2>1. m \in 1..N /\ m - 1 \in 0..N /\ m \in 0..N
    BY <1>1
  <2>2. q.batch[n] = [p.batch[m] EXCEPT !.type = InverseType(@)]
        /\ g[n - 1] = h[m] /\ g[n] = h[m - 1]
    BY <1>3, <1>4
  <2> HIDE DEF m
  <2>3. p.batch[m] \in Operation /\ p.batch[m].identity \in p.guards
    BY <1>1, <2>1 DEF Subjects, N
  <2>4. Forth(p.batch[m], h[m - 1], h[m]) /\ h[m - 1] \in Standing /\ h[m] \in Standing
    BY <1>2, <2>1 DEF WentForth
  <2>5. q.batch[n].identity = p.batch[m].identity
    BY <2>2, <2>3 DEF Operation
  <2> QED BY <2>2, <2>3, <2>4, <2>5, InverseGoesBack
<1>6. ASSUME NEW i \in q.guards
      PROVE  /\ g[0][i] = q.basis[i].entity.status /\ g[0][i] # "UNKNOWN"
             /\ g[N][i] = q.before[i].status
  <2>1. PICK n \in 1..N : i = p.batch[n].identity
    BY <1>1 DEF Subjects, N
  <2> QED BY <1>2, <1>4, <2>1 DEF WentForth
<1>7. GoesBack(q, g)
  BY <1>3, <1>4, <1>5, <1>6 DEF GoesBack
<1> QED BY <1>7

\* The next operation of what is left.
LEMMA RestStep ==
  ASSUME NEW batch \in Seq(Operation), NEW left \in Seq(Operation), left # <<>>,
         NEW k \in Nat, Rest(batch, k, left)
  PROVE  /\ k + 1 \in 1..Len(batch) /\ Head(left) = batch[k + 1]
         /\ Head(left) \in Operation
         /\ Rest(batch, k + 1, Tail(left))
<1>1. Len(batch) \in Nat /\ Len(left) \in Nat /\ Len(left) # 0 /\ Len(left) = Len(batch) - k
  BY DEF Rest
<1>2. Head(left) = left[1] /\ left[1] = batch[k + 1] /\ left[1] \in Operation
  BY <1>1 DEF Rest
<1>3. Len(Tail(left)) = Len(left) - 1
      /\ \A m \in 1..Len(left) - 1 : Tail(left)[m] = left[m + 1]
  BY <1>1
<1>4. ASSUME NEW m \in 1..Len(left) - 1
      PROVE  Tail(left)[m] = batch[k + 1 + m]
  <2>1. m + 1 \in 1..Len(left) /\ k + (m + 1) = k + 1 + m
    BY <1>1
  <2> QED BY <1>3, <2>1 DEF Rest
<1> QED BY <1>1, <1>2, <1>3, <1>4 DEF Rest

\* One more operation done.
LEMMA ForthStep ==
  ASSUME NEW batch \in Seq(Operation), NEW k \in Nat, k + 1 \in 1..Len(batch),
         NEW h, WentForth(batch, k, h), NEW t \in Standing,
         Forth(batch[k + 1], h[k], t), t[batch[k + 1].identity] # "UNKNOWN"
  PROVE  \E g : WentForth(batch, k + 1, g) /\ g[0] = h[0] /\ g[k + 1] = t
<1> DEFINE g == [n \in 0..k + 1 |-> IF n = k + 1 THEN t ELSE h[n]]
<1>1. h \in [0..k -> Standing]
  BY DEF WentForth
<1>2. g \in [0..k + 1 -> Standing] /\ g[0] = h[0] /\ g[k + 1] = t
      /\ \A n \in 0..k : g[n] = h[n]
  BY <1>1
<1> HIDE DEF g
<1>3. ASSUME NEW n \in 1..k + 1
      PROVE  Forth(batch[n], g[n - 1], g[n])
  <2>1. CASE n = k + 1
    <3>1. n - 1 = k /\ k \in 0..k
      BY <2>1
    <3> QED BY <1>2, <2>1, <3>1
  <2>2. CASE n # k + 1
    <3>1. n \in 1..k /\ n - 1 \in 0..k /\ n \in 0..k
      BY <2>2
    <3> QED BY <1>2, <3>1 DEF WentForth
  <2> QED BY <2>1, <2>2
<1>4. ASSUME NEW n \in 1..k + 1
      PROVE  t[batch[n].identity] # "UNKNOWN"
  <2>1. batch[n].identity \in Identities
    <3>1. n \in 1..Len(batch)
      OBVIOUS
    <3>2. batch[n] \in Operation
      BY <3>1
    <3> QED BY <3>2 DEF Operation
  <2>2. CASE batch[n].identity = batch[k + 1].identity
    BY <2>2
  <2>3. CASE batch[n].identity # batch[k + 1].identity
    <3>1. n \in 1..k
      BY <2>3
    <3>2. t[batch[n].identity] = h[k][batch[n].identity]
      BY <2>1, <2>3 DEF Forth
    <3> QED BY <3>1, <3>2 DEF WentForth
  <2> QED BY <2>2, <2>3
<1> QED BY <1>2, <1>3, <1>4 DEF WentForth

-----------------------------------------------------------------------------

\* Only the plan of the executor that moves, or whose call is under way, and
\* the statuses need to be looked at.
LEMMA OthersUndo ==
  ASSUME IInv, UndoInv, NEW x \in Executors,
         call.by \in {x, Nobody}, call'.by \in {x, Nobody},
         \A y \in Executors : y # x => plan'[y] = plan[y],
         NothingSuperseded', UndoHolds(x)'
  PROVE  UndoInv'
<1> SUFFICES ASSUME NEW y \in Executors, y # x PROVE UndoHolds(y)'
  BY DEF UndoInv
<1>1. UndoHolds(y) /\ call.by # y /\ call'.by # y /\ plan'[y] = plan[y]
  BY NobodyAssumption DEF UndoInv
<1> QED BY <1>1 DEF UndoHolds, Undoing

\* Between calls, plans that change in nothing but what they read stay what
\* they are to be.
LEMMA RereadUndo ==
  ASSUME IInv, UndoInv, Quiet, UNCHANGED call, NothingSuperseded',
         \/ plan' = plan
         \/ plan' \in {Settled, Undone}
  PROVE  UndoInv'
<1>1. plan \in [Executors -> Plan]
  BY DEF IInv
<1>2. ASSUME NEW z \in Executors
      PROVE  /\ plan'[z].state = plan[z].state /\ plan'[z].kind = plan[z].kind
             /\ plan'[z].batch = plan[z].batch /\ plan'[z].guards = plan[z].guards
             /\ plan'[z].basis = plan[z].basis /\ plan'[z].before = plan[z].before
             /\ plan'[z].fresh = plan[z].fresh
             /\ plan'[z].read # "void" => plan[z].read # "void"
  <2> DEFINE again(word) == [plan[z] EXCEPT !.read = IF @ = "dirty" THEN word ELSE @]
  <2>1. plan[z] \in Plan
    BY <1>1
  <2>2. \A word \in {"clean", "void"} :
          /\ again(word).state = plan[z].state /\ again(word).kind = plan[z].kind
          /\ again(word).batch = plan[z].batch /\ again(word).guards = plan[z].guards
          /\ again(word).basis = plan[z].basis /\ again(word).before = plan[z].before
          /\ again(word).fresh = plan[z].fresh
          /\ again(word).read # "void" => plan[z].read # "void"
    BY <2>1, ZenonT(60) DEF Plan
  <2>3. plan'[z] = plan[z] \/ plan'[z] = again("clean") \/ plan'[z] = again("void")
    BY DEF Settled, Undone
  <2> HIDE DEF again
  <2> QED BY <2>2, <2>3
<1>3. \A z \in Executors : call.by # z /\ call'.by # z
  BY NobodyAssumption DEF Quiet
<1> SUFFICES ASSUME NEW z \in Executors PROVE UndoHolds(z)'
  BY DEF UndoInv
<1>4. UndoHolds(z)
  BY DEF UndoInv
<1>5. CanBeUndone(plan[z]) => CanBeUndone(plan'[z])
  BY <1>2 DEF CanBeUndone
<1>6. Undoing(plan[z], FALSE, <<>>, <<>>) => Undoing(plan'[z], FALSE, <<>>, <<>>)
  <2>1. ASSUME NEW h, GoesBack(plan[z], h)
        PROVE  GoesBack(plan'[z], h)
    BY <1>2, <2>1 DEF GoesBack
  <2> QED BY <2>1 DEF Undoing
<1>7. /\ Undoing(plan[z], call.by = z, call.left, call.view) <=>
           Undoing(plan[z], FALSE, <<>>, <<>>)
      /\ Undoing(plan'[z], call'.by = z, call'.left, call'.view) <=>
           Undoing(plan'[z], FALSE, <<>>, <<>>)
  BY <1>3 DEF Undoing
<1> QED BY <1>2, <1>3, <1>4, <1>5, <1>6, <1>7 DEF UndoHolds

\* A plan given up, or just made, promises nothing.
LEMMA NothingToUndo ==
  ASSUME NEW x \in Executors, plan'[x].kind = "do", plan'[x].state # "committed",
         call'.by # x
  PROVE  UndoHolds(x)'
  BY DEF UndoHolds

\* At first nothing is decided and nothing is known.
LEMMA InitUndo == Init => UndoInv
<1> SUFFICES ASSUME Init PROVE UndoInv
  OBVIOUS
<1>1. NothingSuperseded
  BY DEF Init, NothingSuperseded, NoTransaction, EmptyGraph, NoCall, Unknown, EntityStatus
<1>2. \A x \in Executors : call.by # x /\ plan[x].kind = "do" /\ plan[x].state = "none"
  BY NobodyAssumption DEF Init, NoCall, NoPlan
<1> QED BY <1>1, <1>2 DEF UndoInv, UndoHolds

\* Deciding anew.
LEMMA DecideUndoes ==
  ASSUME IInv, UndoInv, NEW x \in Executors, NEW batch \in Batches, Decide(x, batch)
  PROVE  UndoInv'
<1>1. /\ Quiet /\ UNCHANGED <<graph, saved, call>>
      /\ plan'[x].kind = "do" /\ plan'[x].state = "decided"
      /\ \A y \in Executors : y # x => plan'[y] = plan[y]
  BY DEF Decide, IInv, NoPlan
<1>2. NothingSuperseded'
  BY <1>1 DEF UndoInv, NothingSuperseded
<1> QED BY <1>1, <1>2, OthersUndo, NothingToUndo, NobodyAssumption DEF Quiet

\* Giving up: no precondition held, or an operation was refused.
LEMMA GivingUpUndoes ==
  ASSUME IInv, UndoInv, NEW x \in Executors, FailPreconditions(x) \/ Refuse(x)
  PROVE  UndoInv'
<1>1. /\ UNCHANGED <<graph, saved>>
      /\ call.by \in {x, Nobody} /\ call'.by = Nobody
      /\ call' = call \/ call' = NoCall
      /\ plan' = [plan EXCEPT ![x] = NoPlan]
  BY DEF FailPreconditions, Refuse, Refused, Operating, Quiet, NoCall
<1>2. /\ plan'[x].kind = "do" /\ plan'[x].state = "none"
      /\ \A y \in Executors : y # x => plan'[y] = plan[y]
  BY <1>1 DEF IInv, NoPlan
<1>3. NothingSuperseded'
  BY <1>1 DEF UndoInv, NothingSuperseded, NoCall, Unknown, EntityStatus
<1> QED BY <1>1, <1>2, <1>3, OthersUndo, NothingToUndo, NobodyAssumption

\* Deciding to take back a batch of which it is known how it came about.
LEMMA DecideUndoUndoes ==
  ASSUME IInv, UndoInv, NEW x \in Executors, DecideUndo(x)
  PROVE  UndoInv'
<1> DEFINE new == [plan[x] EXCEPT !.state = "decided", !.kind = "undo",
                                  !.batch = Compensation(@)]
<1>1. /\ Quiet /\ UNCHANGED <<graph, saved, call>>
      /\ plan[x].state = "committed" /\ plan[x] \in Plan
      /\ plan'[x] = new
      /\ \A y \in Executors : y # x => plan'[y] = plan[y]
  BY DEF DecideUndo, IInv
<1>2. /\ new.state = "decided" /\ new.kind = "undo" /\ new.fresh = plan[x].fresh
      /\ new.batch = Compensation(plan[x].batch) /\ new.guards = plan[x].guards
      /\ new.before = plan[x].before /\ new.basis = plan[x].basis
  BY <1>1 DEF Plan
<1> HIDE DEF new
<1>3. NothingSuperseded'
  BY <1>1 DEF UndoInv, NothingSuperseded
<1>4. call'.by # x
  BY <1>1, NobodyAssumption DEF Quiet
<1>5. plan[x].fresh => CanBeUndone(plan[x])
  BY <1>1 DEF UndoInv, UndoHolds
<1>6. new.fresh => \E h : GoesBack(new, h)
  BY <1>1, <1>2, <1>5, CompensationGoesBack
<1>7. UndoHolds(x)'
  BY <1>1, <1>2, <1>4, <1>6 DEF UndoHolds, Undoing
<1> QED BY <1>1, <1>3, <1>7, OthersUndo DEF Quiet

\* A call begins at the start of its batch, and a compensation where the batch
\* had led: its guards held.
LEMMA BeginApplyUndoes ==
  ASSUME IInv, UndoInv, NEW x \in Executors, BeginApply(x)
  PROVE  UndoInv'
<1>1. /\ Quiet /\ plan[x].state = "decided" /\ PreconditionsHold(x)
      /\ UNCHANGED <<graph, saved, plan>>
      /\ call' = [NoCall EXCEPT !.by = x, !.left = plan[x].batch,
                                !.view = graph.entities]
  BY DEF BeginApply
<1>2. /\ call'.by = x /\ call'.left = plan[x].batch /\ call'.view = graph.entities
  BY <1>1 DEF NoCall
<1>3. /\ plan[x] \in Plan /\ plan[x].batch \in Seq(Operation) /\ graph \in Graph
      /\ plan[x].guards \in SUBSET Identities
  BY DEF IInv, GoodGraph, Plan
<1>4. NothingSuperseded'
  BY <1>1, <1>2 DEF UndoInv, NothingSuperseded
<1> DEFINE batch == plan[x].batch
<1>5. Rest(batch, 0, batch)
  BY <1>3 DEF Rest
<1>6. Midway(batch, batch, graph.entities, graph.entities)
  <2> DEFINE h == [n \in 0..0 |-> StandingOf(graph.entities)]
  <2>1. StandingOf(graph.entities) \in Standing
    BY DEF StandingOf, Standing, UndoInv, NothingSuperseded
  <2>2. WentForth(batch, 0, h) /\ h[0] = StandingOf(graph.entities)
    BY <2>1 DEF WentForth
  <2> HIDE DEF h
  <2> QED BY <1>5, <2>2 DEF Midway
<1>7. ASSUME plan[x].read # "void", NEW h, GoesBack(plan[x], h)
      PROVE  OnItsWay(plan[x], batch, graph.entities, h)
  <2>1. ASSUME NEW i \in plan[x].guards
        PROVE  graph.entities[i].status = WithdrawnIfUnknown(h[0][i])
    <3>1. plan[x].basis[i] = Basis(graph, i)
      BY <1>1, <1>7 DEF IInv, PlanHolds, Holds, PreconditionsHold
    <3>2. plan[x].basis[i].entity = graph.entities[i]
      BY <3>1 DEF Basis
    <3> QED BY <1>7, <3>2 DEF GoesBack, WithdrawnIfUnknown
  <2> QED BY <1>5, <2>1 DEF OnItsWay
<1>8. UndoHolds(x)'
  <2>1. UndoHolds(x)
    BY DEF UndoInv
  <2> QED BY <1>1, <1>2, <1>6, <1>7, <2>1 DEF UndoHolds, Undoing
<1> QED BY <1>1, <1>2, <1>4, <1>8, OthersUndo DEF Quiet

-----------------------------------------------------------------------------

\* What an operation that stages an entity does to the statuses.
LEMMA StagedStatus ==
  ASSUME IInv, NothingSuperseded, NEW x \in Executors, call.by = x, call.left # <<>>,
         NEW row, row.status \in EntityStatus, StageEntity(row)
  PROVE  /\ call'.by = x /\ call'.left = Tail(call.left)
         /\ \A i \in Identities :
              call'.view[i].status = IF i = Op.identity THEN row.status ELSE call.view[i].status
         /\ StandingOf(call.view) \in Standing
         /\ StandingOf(call'.view) \in Standing
<1>1. Op.identity \in Identities
  BY Working
<1>2. /\ call.view \in [Identities -> EntityRow]
      /\ call'.by = x /\ call'.left = Tail(call.left)
      /\ call'.view = [call.view EXCEPT ![Op.identity] = row]
  BY DEF StageEntity, IInv, CallType
<1>3. \A i \in Identities :
        call'.view[i].status = IF i = Op.identity THEN row.status ELSE call.view[i].status
  BY <1>1, <1>2
<1>4. \A i \in Identities :
        call.view[i].status \in EntityStatus /\ call'.view[i].status \in EntityStatus
  BY <1>3 DEF NothingSuperseded
<1> QED BY <1>2, <1>3, <1>4 DEF StandingOf, Standing

\* One operation of a batch that is applied for the first time.
LEMMA MidwayStep ==
  ASSUME IInv, UndoInv, NEW x \in Executors, call.by = x, call.left # <<>>,
         NEW row, row.status \in {"ACTIVE", "REVOKED"}, StageEntity(row),
         \/ Op.type = "CREATE_IDENTITY" /\ Target.status # "ACTIVE" /\ row.status = "ACTIVE"
         \/ Op.type = "REVOKE_IDENTITY" /\ Target.status = "ACTIVE" /\ row.status = "REVOKED"
         \/ Op.type = "RESTORE_IDENTITY" /\ Target.status = "REVOKED" /\ row.status = "ACTIVE",
         NEW batch \in Seq(Operation),
         Midway(batch, call.left, graph.entities, call.view)
  PROVE  Midway(batch, call'.left, graph.entities, call'.view)
<1> DEFINE s == StandingOf(call.view)
           t == StandingOf(call'.view)
<1>1. row.status \in EntityStatus /\ row.status # "UNKNOWN"
  BY DEF EntityStatus
<1>2. /\ call'.left = Tail(call.left)
      /\ \A i \in Identities :
           call'.view[i].status = IF i = Op.identity THEN row.status ELSE call.view[i].status
      /\ s \in Standing /\ t \in Standing
  BY <1>1, StagedStatus DEF UndoInv
<1>3. Op.identity \in Identities /\ call.left \in Seq(Operation)
  BY Working DEF IInv, CallType
<1>4. Forth(Op, s, t) /\ t[Op.identity] # "UNKNOWN"
  BY <1>1, <1>2, <1>3 DEF Forth, StandingOf, Target
<1> HIDE DEF s, t
<1>5. PICK k, h : /\ k \in Nat
                  /\ Rest(batch, k, call.left)
                  /\ WentForth(batch, k, h)
                  /\ h[0] = StandingOf(graph.entities)
                  /\ h[k] = s
  BY DEF Midway, s
<1>6. /\ k + 1 \in 1..Len(batch) /\ Op = batch[k + 1]
      /\ Rest(batch, k + 1, call'.left)
  BY <1>2, <1>3, <1>5, RestStep DEF Op
<1>7. PICK g : WentForth(batch, k + 1, g) /\ g[0] = h[0] /\ g[k + 1] = t
  BY <1>2, <1>4, <1>5, <1>6, ForthStep
<1>8. k + 1 \in Nat
  BY <1>5
<1> QED BY <1>5, <1>6, <1>7, <1>8 DEF Midway, t

\* The next operation of a compensation is what takes back the one it is the
\* inverse of, and finds what it needs.
LEMMA NextGoesBack ==
  ASSUME IInv, NEW x \in Executors, call.by = x, call.left # <<>>,
         NEW h, GoesBack(plan[x], h), NEW k \in Nat, Rest(plan[x].batch, k, call.left),
         \A i \in plan[x].guards : call.view[i].status = WithdrawnIfUnknown(h[k][i])
  PROVE  /\ Op.identity \in plan[x].guards
         /\ Back(Op, h[k], h[k + 1])
         /\ Rest(plan[x].batch, k + 1, Tail(call.left))
         /\ \/ Op.type = "REVOKE_IDENTITY" /\ Target.status = "ACTIVE"
               /\ WithdrawnIfUnknown(h[k + 1][Op.identity]) = "REVOKED"
            \/ Op.type = "RESTORE_IDENTITY" /\ Target.status = "REVOKED"
               /\ WithdrawnIfUnknown(h[k + 1][Op.identity]) = "ACTIVE"
<1> DEFINE batch == plan[x].batch
<1>1. /\ batch \in Seq(Operation) /\ call.left \in Seq(Operation)
      /\ Op.identity \in Identities
  BY Working DEF IInv, CallType, Plan
<1>2. /\ k + 1 \in 1..Len(batch) /\ Op = batch[k + 1]
      /\ Rest(batch, k + 1, Tail(call.left))
  BY <1>1, RestStep DEF Op
<1>3. /\ batch[k + 1].identity \in plan[x].guards
      /\ Back(batch[k + 1], h[k + 1 - 1], h[k + 1])
      /\ h[k + 1] \in Standing
  <2>1. k + 1 \in 0..Len(batch)
    BY <1>2
  <2>2. \A n \in 1..Len(batch) :
          batch[n].identity \in plan[x].guards /\ Back(batch[n], h[n - 1], h[n])
    BY DEF GoesBack
  <2>3. h \in [0..Len(batch) -> Standing]
    BY DEF GoesBack
  <2> HIDE DEF batch
  <2> QED BY <1>2, <2>1, <2>2, <2>3
<1>4. k + 1 - 1 = k
  OBVIOUS
<1>5. h[k + 1][Op.identity] \in EntityStatus
  BY <1>1, <1>3 DEF Standing
<1>6. Target.status = WithdrawnIfUnknown(h[k][Op.identity])
  BY <1>2, <1>3 DEF Target
<1>7. Back(Op, h[k], h[k + 1]) /\ Op.identity \in plan[x].guards
  BY <1>2, <1>3, <1>4
<1> QED BY <1>2, <1>5, <1>6, <1>7 DEF Back, WithdrawnIfUnknown, EntityStatus

\* One operation of a compensation.
LEMMA OnItsWayStep ==
  ASSUME IInv, UndoInv, NEW x \in Executors, call.by = x, call.left # <<>>,
         NEW row, row.status \in {"ACTIVE", "REVOKED"}, StageEntity(row),
         Op.type \in {"CREATE_IDENTITY", "REVOKE_IDENTITY", "RESTORE_IDENTITY"},
         Op.type = "REVOKE_IDENTITY" => row.status = "REVOKED",
         Op.type = "RESTORE_IDENTITY" => row.status = "ACTIVE",
         NEW h, GoesBack(plan[x], h), OnItsWay(plan[x], call.left, call.view, h)
  PROVE  OnItsWay(plan[x], call'.left, call'.view, h)
<1>1. row.status \in EntityStatus
  BY DEF EntityStatus
<1>2. /\ call'.left = Tail(call.left)
      /\ \A i \in Identities :
           call'.view[i].status = IF i = Op.identity THEN row.status ELSE call.view[i].status
  BY <1>1, StagedStatus DEF UndoInv
<1>3. PICK k \in Nat :
        /\ Rest(plan[x].batch, k, call.left)
        /\ \A i \in plan[x].guards : call.view[i].status = WithdrawnIfUnknown(h[k][i])
  BY DEF OnItsWay
<1>4. /\ Op.identity \in plan[x].guards
      /\ Back(Op, h[k], h[k + 1])
      /\ Rest(plan[x].batch, k + 1, Tail(call.left))
      /\ WithdrawnIfUnknown(h[k + 1][Op.identity]) = row.status
  BY <1>3, NextGoesBack
<1>5. plan[x].guards \in SUBSET Identities
  BY DEF IInv, Plan
<1>6. ASSUME NEW i \in plan[x].guards
      PROVE  call'.view[i].status = WithdrawnIfUnknown(h[k + 1][i])
  <2>1. CASE i = Op.identity
    BY <1>2, <1>4, <1>5, <2>1
  <2>2. CASE i # Op.identity
    <3>1. h[k + 1][i] = h[k][i]
      BY <1>4, <1>5, <2>2 DEF Back
    <3> QED BY <1>2, <1>3, <1>5, <2>2, <3>1
  <2> QED BY <2>1, <2>2
<1>7. k + 1 \in Nat
  OBVIOUS
<1> QED BY <1>2, <1>4, <1>6, <1>7 DEF OnItsWay

\* The operations that stage an entity.
LEMMA StageUndoes ==
  ASSUME IInv, UndoInv, NEW x \in Executors, call.by = x, call.left # <<>>,
         NEW row, row.status \in {"ACTIVE", "REVOKED"}, StageEntity(row),
         UNCHANGED <<graph, saved>>,
         \/ Op.type = "CREATE_IDENTITY" /\ row.status = "ACTIVE"
         \/ Op.type = "REVOKE_IDENTITY" /\ Target.status = "ACTIVE" /\ row.status = "REVOKED"
         \/ Op.type = "RESTORE_IDENTITY" /\ Target.status = "REVOKED" /\ row.status = "ACTIVE",
         \A y \in Executors : y # x => plan'[y] = plan[y],
         /\ plan'[x].state = plan[x].state /\ plan'[x].kind = plan[x].kind
         /\ plan'[x].batch = plan[x].batch /\ plan'[x].guards = plan[x].guards
         /\ plan'[x].basis = plan[x].basis /\ plan'[x].before = plan[x].before
         /\ plan'[x].read = plan[x].read,
         plan'[x].fresh => plan[x].fresh,
         plan'[x].fresh /\ Op.type = "CREATE_IDENTITY" => Target.status # "ACTIVE"
  PROVE  UndoInv'
<1>1. row.status \in EntityStatus
  BY DEF EntityStatus
<1>2. /\ call'.by = x
      /\ \A i \in Identities :
           call'.view[i].status = IF i = Op.identity THEN row.status ELSE call.view[i].status
  BY <1>1, StagedStatus DEF UndoInv
<1>3. NothingSuperseded'
  BY <1>1, <1>2 DEF UndoInv, NothingSuperseded
<1>4. plan[x].batch \in Seq(Operation) /\ UndoHolds(x)
  BY DEF UndoInv, IInv, Plan
<1>5. ASSUME plan'[x].fresh, Midway(plan[x].batch, call.left, graph.entities, call.view)
      PROVE  Midway(plan[x].batch, call'.left, graph.entities, call'.view)
  BY <1>4, <1>5, MidwayStep
<1>6. ASSUME Undoing(plan[x], TRUE, call.left, call.view)
      PROVE  Undoing(plan'[x], TRUE, call'.left, call'.view)
  <2>1. PICK h : GoesBack(plan[x], h) /\ OnItsWay(plan[x], call.left, call.view, h)
    BY <1>6 DEF Undoing
  <2>2. OnItsWay(plan[x], call'.left, call'.view, h)
    BY <2>1, OnItsWayStep
  <2>3. GoesBack(plan'[x], h)
    BY <2>1 DEF GoesBack
  <2>4. OnItsWay(plan'[x], call'.left, call'.view, h)
    BY <2>2 DEF OnItsWay
  <2> QED BY <2>3, <2>4 DEF Undoing
<1>7. CanBeUndone(plan[x]) => CanBeUndone(plan'[x])
  BY DEF CanBeUndone
<1>8. UndoHolds(x)'
  BY <1>2, <1>4, <1>5, <1>6, <1>7 DEF UndoHolds
<1> QED BY <1>2, <1>3, <1>8, OthersUndo

\* Creating makes an identity active; if it was already, nothing is promised.
LEMMA CreateUndoes ==
  ASSUME IInv, UndoInv, NEW x \in Executors, Create(x)
  PROVE  UndoInv'
<1>1. /\ call.by = x /\ call.left # <<>> /\ Op.type = "CREATE_IDENTITY"
      /\ StageEntity([status |-> "ACTIVE", epoch |-> NewEpoch])
      /\ plan' = [plan EXCEPT ![x].fresh = @ /\ Target.status # "ACTIVE"]
      /\ UNCHANGED <<graph, saved>>
  BY DEF Create, Operating
<1>2. plan[x] \in Plan /\ plan \in [Executors -> Plan]
  BY DEF IInv
<1>3. \A y \in Executors : y # x => plan'[y] = plan[y]
  BY <1>1, <1>2
<1>4. /\ plan'[x].state = plan[x].state /\ plan'[x].kind = plan[x].kind
      /\ plan'[x].batch = plan[x].batch /\ plan'[x].guards = plan[x].guards
      /\ plan'[x].basis = plan[x].basis /\ plan'[x].before = plan[x].before
      /\ plan'[x].read = plan[x].read
  BY <1>1, <1>2 DEF Plan
<1>5. plan'[x].fresh => plan[x].fresh /\ Target.status # "ACTIVE"
  BY <1>1, <1>2, Zenon DEF Plan
<1> DEFINE row == [status |-> "ACTIVE", epoch |-> NewEpoch]
<1>6. row.status = "ACTIVE"
  OBVIOUS
<1> HIDE DEF row
<1> QED BY <1>1, <1>3, <1>4, <1>5, <1>6, StageUndoes DEF row

\* Withdrawing and bringing back.
LEMMA RestatusUndoes ==
  ASSUME IInv, UndoInv, NEW x \in Executors, Revoke(x) \/ Restore(x)
  PROVE  UndoInv'
<1>1. PICK status \in {"ACTIVE", "REVOKED"} :
        /\ call.by = x /\ call.left # <<>>
        /\ StageEntity([Target EXCEPT !.status = status])
        /\ UNCHANGED <<graph, saved, plan>>
        /\ \/ Op.type = "REVOKE_IDENTITY" /\ Target.status \notin {"UNKNOWN", "REVOKED"}
              /\ status = "REVOKED"
           \/ Op.type = "RESTORE_IDENTITY" /\ Target.status = "REVOKED" /\ status = "ACTIVE"
  BY DEF Revoke, Restore, Operating
<1>2. Target \in EntityRow /\ Target.status \in EntityStatus
  BY <1>1, TargetRow, Working DEF UndoInv, NothingSuperseded, Target
<1> DEFINE row == [Target EXCEPT !.status = status]
<1>3. row.status = status
  BY <1>2 DEF EntityRow
<1> HIDE DEF row
<1>4. StageEntity(row)
  BY <1>1 DEF row
<1> QED BY <1>1, <1>2, <1>3, <1>4, StageUndoes DEF EntityStatus

\* Attaching is in no batch that can be taken back, and in no compensation
\* of one.
LEMMA AttachUndoes ==
  ASSUME IInv, UndoInv, NEW x \in Executors, Attach(x)
  PROVE  UndoInv'
<1>1. /\ call.by = x /\ call.left # <<>> /\ Op.type = "ATTACH_ASSERTION"
      /\ call'.by = x /\ call'.view = call.view
      /\ UNCHANGED <<graph, saved, plan>>
  BY DEF Attach, Operating, IInv, CallType
<1>2. NothingSuperseded'
  BY <1>1 DEF UndoInv, NothingSuperseded
<1>3. plan[x].batch \in Seq(Operation) /\ call.left \in Seq(Operation) /\ UndoHolds(x)
  BY DEF UndoInv, IInv, Plan, CallType
<1>4. ASSUME Compensable(plan[x].batch),
             Midway(plan[x].batch, call.left, graph.entities, call.view)
      PROVE  FALSE
  <2>1. PICK k \in Nat : Rest(plan[x].batch, k, call.left)
    BY <1>4 DEF Midway
  <2>2. k + 1 \in 1..Len(plan[x].batch) /\ Op = plan[x].batch[k + 1]
    BY <1>1, <1>3, <2>1, RestStep DEF Op
  <2>3. k + 1 \in DOMAIN plan[x].batch
    BY <1>3, <2>2
  <2> QED BY <1>1, <1>4, <2>2, <2>3 DEF Compensable
<1>5. ASSUME Undoing(plan[x], TRUE, call.left, call.view)
      PROVE  FALSE
  <2>1. PICK h : GoesBack(plan[x], h) /\ OnItsWay(plan[x], call.left, call.view, h)
    BY <1>5 DEF Undoing
  <2>2. PICK k \in Nat :
          /\ Rest(plan[x].batch, k, call.left)
          /\ \A i \in plan[x].guards : call.view[i].status = WithdrawnIfUnknown(h[k][i])
    BY <2>1 DEF OnItsWay
  <2>3. Op.type \in {"REVOKE_IDENTITY", "RESTORE_IDENTITY"}
    BY <1>1, <2>1, <2>2, NextGoesBack
  <2> QED BY <1>1, <2>3
<1>6. UndoHolds(x)'
  BY <1>1, <1>3, <1>4, <1>5 DEF UndoHolds
<1> QED BY <1>1, <1>2, <1>6, OthersUndo

\* What a committed batch leaves can be taken back.
LEMMA PublishUndoes ==
  ASSUME IInv, UndoInv, NEW x \in Executors, Publish(x)
  PROVE  UndoInv'
<1> DEFINE subjects == Subjects(plan[x].batch)
           kept == [plan[x] EXCEPT !.state = "committed",
                                   !.before = Entities(graph, subjects),
                                   !.guards = subjects,
                                   !.seen = Versions(Published, subjects),
                                   !.basis = Bases(Published, subjects),
                                   !.read = ReadNow]
           again == plan[x].kind = "undo" \/ ~Compensable(plan[x].batch)
<1>1. /\ call.by = x /\ call.left = <<>>
      /\ graph' = Published /\ call' = NoCall /\ saved' = saved
      /\ plan' = [plan EXCEPT ![x] = IF again THEN NoPlan ELSE kept]
  BY DEF Publish
<1>2. plan[x] \in Plan /\ plan \in [Executors -> Plan] /\ plan[x].batch \in Seq(Operation)
  BY DEF IInv, Plan
<1>3. /\ \A y \in Executors : y # x => plan'[y] = plan[y]
      /\ plan'[x] = IF again THEN NoPlan ELSE kept
  BY <1>1, <1>2
<1>4. call'.by = Nobody /\ x # Nobody
  BY <1>1, NobodyAssumption DEF NoCall
<1>5. NothingSuperseded'
  BY <1>1 DEF UndoInv, NothingSuperseded, Published, NoCall, Unknown, EntityStatus
<1>6. ASSUME ~again, plan[x].fresh
      PROVE  CanBeUndone(kept)
  <2>1. Midway(plan[x].batch, call.left, graph.entities, call.view)
    BY <1>1, <1>2, <1>6 DEF UndoInv, UndoHolds, Plan
  <2>2. PICK k, h : /\ k \in Nat
                    /\ Rest(plan[x].batch, k, call.left)
                    /\ WentForth(plan[x].batch, k, h)
                    /\ h[0] = StandingOf(graph.entities)
                    /\ h[k] = StandingOf(call.view)
    BY <2>1 DEF Midway
  <2>3. k = Len(plan[x].batch)
    BY <1>1, <1>2, <2>2 DEF Rest
  <2>4. subjects \in SUBSET Identities
    BY <1>2, SubjectsType
  <2>5. /\ kept.batch = plan[x].batch /\ kept.guards = subjects
        /\ kept.before = Entities(graph, subjects)
        /\ kept.basis = Bases(Published, subjects)
    BY <1>2 DEF Plan
  <2> HIDE DEF kept
  <2>6. ASSUME NEW i \in subjects
        PROVE  /\ kept.before[i].status = graph.entities[i].status
               /\ kept.basis[i].entity.status = call.view[i].status
    BY <2>4, <2>5 DEF Entities, Bases, Basis, Published
  <2>7. ASSUME NEW i \in kept.guards
        PROVE  /\ h[0][i] = kept.before[i].status
               /\ h[Len(kept.batch)][i] = kept.basis[i].entity.status
    BY <2>2, <2>3, <2>4, <2>5, <2>6 DEF StandingOf
  <2> QED BY <2>2, <2>3, <2>5, <2>7 DEF CanBeUndone
<1>7. kept.fresh = plan[x].fresh /\ kept.kind = plan[x].kind
  BY <1>2 DEF Plan
<1> HIDE DEF kept
<1>8. UndoHolds(x)'
  <2>1. CASE again
    BY <1>3, <1>4, <2>1 DEF UndoHolds, NoPlan
  <2>2. CASE ~again
    BY <1>2, <1>3, <1>4, <1>6, <1>7, <2>2 DEF UndoHolds
  <2> QED BY <2>1, <2>2
<1> QED BY <1>1, <1>3, <1>4, <1>5, <1>8, OthersUndo

\* The adapter's steps: no entity is superseded, and plans change in nothing
\* but what they read.
LEMMA AdapterUndoes ==
  ASSUME IInv, UndoInv, Adapter
  PROVE  UndoInv'
<1>1. Quiet /\ UNCHANGED call
  BY DEF Adapter, MarkSuperseded, Begin, CommitTransaction, Rollback
<1>2. plan' = plan \/ plan' \in {Settled, Undone}
  BY DEF Adapter, MarkSuperseded, Begin, CommitTransaction, Rollback
<1>3. NothingSuperseded
  BY DEF UndoInv
<1>4. ASSUME NEW a \in Assertions, MarkSuperseded(a)
      PROVE  NothingSuperseded'
  <2>1. graph'.entities = graph.entities /\ UNCHANGED <<saved, call>>
    BY <1>4 DEF MarkSuperseded, IInv, GoodGraph, Graph
  <2> QED BY <1>3, <2>1 DEF NothingSuperseded
<1>5. ASSUME Begin PROVE NothingSuperseded'
  BY <1>3, <1>5 DEF Begin, NothingSuperseded
<1>6. ASSUME CommitTransaction PROVE NothingSuperseded'
  BY <1>3, <1>6 DEF CommitTransaction, NothingSuperseded, NoTransaction, EmptyGraph,
                    Unknown, EntityStatus
<1>7. ASSUME Rollback PROVE NothingSuperseded'
  BY <1>3, <1>7 DEF Rollback, NothingSuperseded, NoTransaction, EmptyGraph,
                    Unknown, EntityStatus
<1>8. NothingSuperseded'
  BY <1>4, <1>5, <1>6, <1>7 DEF Adapter
<1> QED BY <1>1, <1>2, <1>8, RereadUndo

\* Every step keeps what can be taken back.
LEMMA StepUndoes == IInv /\ UndoInv /\ [Next]_vars => UndoInv'
<1> SUFFICES ASSUME IInv, UndoInv, [Next]_vars PROVE UndoInv'
  OBVIOUS
<1>1. CASE UNCHANGED vars
  <2>1. NothingSuperseded'
    BY <1>1 DEF vars, UndoInv, NothingSuperseded
  <2>2. ASSUME NEW x \in Executors
        PROVE  UndoHolds(x)'
    BY <1>1 DEF vars, UndoInv, UndoHolds
  <2> QED BY <2>1, <2>2 DEF UndoInv
<1>2. ASSUME NEW x \in Executors, Step(x)
      PROVE  UndoInv'
  BY <1>2, DecideUndoes, DecideUndoUndoes, BeginApplyUndoes, GivingUpUndoes,
     CreateUndoes, AttachUndoes, RestatusUndoes, PublishUndoes DEF Step
<1>3. CASE Adapter
  BY <1>3, AdapterUndoes
<1> QED BY <1>1, <1>2, <1>3 DEF Next

\* A batch of operations that have implemented inverses can be taken back: as
\* long as nobody touched its subjects, the compensation is not refused and
\* leaves them with the status they had, or withdrawn if they were new.
THEOREM UndoRestores == Spec => []CompensationRestores
<1>1. ASSUME IInv, UndoInv
      PROVE  CompensationRestores
  <2> SUFFICES ASSUME NEW x \in Executors, plan[x].kind = "undo", plan[x].fresh,
                      plan[x].read # "void"
               PROVE  /\ ~Refused(x)
                      /\ call.by = x /\ call.left = <<>> =>
                           \A i \in plan[x].guards :
                             call.view[i].status =
                               IF plan[x].before[i].status = "UNKNOWN"
                                 THEN "REVOKED" ELSE plan[x].before[i].status
    BY DEF CompensationRestores
  <2>1. CASE call.by # x
    BY <2>1 DEF Refused, Operating
  <2>2. CASE call.by = x
    <3>1. Undoing(plan[x], TRUE, call.left, call.view)
      BY <1>1, <2>2 DEF UndoInv, UndoHolds
    <3>2. PICK h : GoesBack(plan[x], h) /\ OnItsWay(plan[x], call.left, call.view, h)
      BY <3>1 DEF Undoing
    <3>3. PICK k \in Nat :
            /\ Rest(plan[x].batch, k, call.left)
            /\ \A i \in plan[x].guards : call.view[i].status = WithdrawnIfUnknown(h[k][i])
      BY <3>2 DEF OnItsWay
    <3>4. ~Refused(x)
      <4>1. CASE call.left = <<>>
        BY <4>1 DEF Refused, Operating
      <4>2. CASE call.left # <<>>
        <5>1. \/ Op.type = "REVOKE_IDENTITY" /\ Target.status = "ACTIVE"
              \/ Op.type = "RESTORE_IDENTITY" /\ Target.status = "REVOKED"
          BY <1>1, <2>2, <3>2, <3>3, <4>2, NextGoesBack
        <5> QED BY <5>1 DEF Refused, Operating
      <4> QED BY <4>1, <4>2
    <3>5. ASSUME call.left = <<>>
          PROVE  k = Len(plan[x].batch)
      <4>1. plan[x].batch \in Seq(Operation)
        BY <1>1 DEF IInv, Plan
      <4> QED BY <3>3, <3>5, <4>1 DEF Rest
    <3>6. ASSUME call.left = <<>>, NEW i \in plan[x].guards
          PROVE  call.view[i].status = WithdrawnIfUnknown(plan[x].before[i].status)
      BY <3>2, <3>3, <3>5, <3>6 DEF GoesBack
    <3> QED BY <3>4, <3>6 DEF WithdrawnIfUnknown
  <2> QED BY <2>1, <2>2
<1>2. Spec => []UndoInv
  BY InitUndo, StepUndoes, StoreInvariant, PTL DEF Spec
<1> QED BY <1>1, <1>2, StoreInvariant, PTL
=============================================================================
