------------------------------ MODULE GraphStore ------------------------------
(***************************************************************************)
(* The canonical graph store: the contract of                              *)
(* src/src/kg_contracts/stores.py and curation.py as its reference         *)
(* implementation MemoryGraphStore (testing/memory.py) keeps it.           *)
(*                                                                         *)
(* Executors decide on batches of curation operations from what they read, *)
(* hand them to apply() with the versions they read as preconditions, and  *)
(* may later compensate a batch by its inverse.  The adapter supersedes    *)
(* assertions and brackets work with begin and commit or rollback.         *)
(*                                                                         *)
(* The store runs one call at a time; the loop of apply() is a step per    *)
(* operation, and nobody else moves meanwhile.                             *)
(***************************************************************************)
EXTENDS Naturals, FiniteSets, Sequences

CONSTANTS
  Executors,
  Nobody,       \* no apply() is under way
  Identities,
  NoIdentity,   \* the object of an attribute assertion
  Assertions,   \* assertion ids
  Batches,      \* the batches executors may decide on
  Guarded,      \* those they hand over with preconditions
  MaxEpoch      \* bound: no batch is decided or applied beyond this epoch

Statuses == {"ACTIVE", "SUPERSEDED", "REVOKED"}

OperationTypes ==
  {"CREATE_IDENTITY", "ATTACH_ASSERTION", "REVOKE_IDENTITY",
   "RESTORE_IDENTITY", "RETRACT_ASSERTION"}

EntityRow == [status: Statuses \cup {"UNKNOWN"}, epoch: Nat]

\* No entity of this identity.
Unknown == [status |-> "UNKNOWN", epoch |-> 0]

AssertionRow ==
  [ id: Assertions, subject: Identities, object: Identities \cup {NoIdentity},
    status: Statuses, epoch: Nat ]

\* identity is the target or the subject; assertion, object and status are the
\* payload of an ATTACH_ASSERTION.
Operation ==
  [ type: OperationTypes, identity: Identities, assertion: Assertions,
    object: Identities \cup {NoIdentity}, status: Statuses ]

ASSUME NobodyAssumption == Nobody \notin Executors
ASSUME NoIdentityAssumption == NoIdentity \notin Identities
ASSUME BatchesAssumption == Batches \subseteq Seq(Operation) /\ Guarded \subseteq Batches
ASSUME BoundAssumption == MaxEpoch \in Nat

VARIABLES
  graph,   \* what the store holds
  saved,   \* begin()'s copy of it
  call,    \* the apply() under way
  plan     \* per executor, what it decided on and how that ended

vars == <<graph, saved, call, plan>>

Graph ==
  [ entities: [Identities -> EntityRow],
    assertions: [Identities -> SUBSET AssertionRow],  \* by subject
    byId: [Assertions -> SUBSET AssertionRow],        \* by id, at most one
    versions: [Identities -> Nat],
    epoch: Nat ]

EmptyGraph ==
  [ entities |-> [i \in Identities |-> Unknown],
    assertions |-> [i \in Identities |-> {}],
    byId |-> [a \in Assertions |-> {}],
    versions |-> [i \in Identities |-> 0],
    epoch |-> 0 ]

NoTransaction == [open |-> FALSE, graph |-> EmptyGraph]

\* view: the entities with the staged ones over them; new: the assertions to
\* be put; touched: how often a subject was touched.
NoCall ==
  [ by |-> Nobody, left |-> <<>>, view |-> [i \in Identities |-> Unknown],
    new |-> {}, touched |-> [i \in Identities |-> 0] ]

Quiet == call.by = Nobody

\* What a decision about an identity rests on.
Basis(g, i) ==
  [entity |-> g.entities[i], ids |-> {r.id : r \in g.assertions[i]}]

Bases(g, guards) ==
  [i \in Identities |-> IF i \in guards THEN Basis(g, i) ELSE Basis(EmptyGraph, i)]

Entities(g, guards) ==
  [i \in Identities |-> IF i \in guards THEN g.entities[i] ELSE Unknown]

Versions(g, guards) ==
  [i \in Identities |-> IF i \in guards THEN g.versions[i] ELSE 0]

\* read: whether an open transaction covers what was read, or has undone it;
\* fresh: every CREATE met an identity that was not ACTIVE.
NoPlan ==
  [ state |-> "none", kind |-> "do", batch |-> <<>>, guards |-> {},
    seen |-> EmptyGraph.versions, basis |-> Bases(EmptyGraph, {}),
    before |-> EmptyGraph.entities, fresh |-> TRUE, read |-> "clean" ]

Subjects(batch) == { batch[n].identity : n \in DOMAIN batch }

ReadNow == IF saved.open THEN "dirty" ELSE "clean"

-----------------------------------------------------------------------------
(* Reading *)

Options == [epoch: 0..MaxEpoch, superseded: BOOLEAN, revoked: BOOLEAN]

Visible(row, o) ==
  /\ row.epoch <= o.epoch
  /\ row.status = "SUPERSEDED" => o.superseded
  /\ row.status = "REVOKED" => o.revoked

\* get_entity() returns something.
Found(g, i, o) ==
  g.entities[i].status # "UNKNOWN" /\ Visible(g.entities[i], o)

SubjectVisible(g, i, o) == g.entities[i].status = "REVOKED" => o.revoked

AssertionsFor(g, i, o) ==
  IF SubjectVisible(g, i, o)
    THEN { r \in g.assertions[i] : Visible(r, o) } ELSE {}

GetAssertion(g, a, o) ==
  { r \in g.byId[a] : SubjectVisible(g, r.subject, o) /\ Visible(r, o) }

Targets(g, from, o) ==
  { r.object : r \in UNION { AssertionsFor(g, i, o) : i \in from } } \ {NoIdentity}

\* Mutant: what was reached is followed, found or not.
Neighborhood_Unseen(g, start, hops, o) ==
  LET walk[n \in 0..hops] ==
        IF n = 0 THEN [visited |-> {start}, frontier |-> {start}]
        ELSE LET reached == Targets(g, walk[n - 1].frontier, o) \ walk[n - 1].visited
             IN [visited |-> walk[n - 1].visited \cup reached, frontier |-> reached]
  IN { i \in walk[hops].visited \ {start} : Found(g, i, o) }

\* neighborhood(): the hops loop.
Neighborhood(g, start, hops, o) ==
  LET walk[n \in 0..hops] ==
        IF n = 0
          THEN [visited |-> {start}, frontier |-> {start}, result |-> {}]
          ELSE LET last == walk[n - 1]
                   reached == Targets(g, last.frontier, o) \ last.visited
                   found == { i \in reached : Found(g, i, o) }
               IN [ visited |-> last.visited \cup reached, frontier |-> found,
                    result |-> last.result \cup found ]
  IN walk[hops].result

-----------------------------------------------------------------------------
(* Deciding *)

Init ==
  /\ graph = EmptyGraph
  /\ saved = NoTransaction
  /\ call = NoCall
  /\ plan = [x \in Executors |-> NoPlan]

\* An executor reads the graph and decides on a batch.
Decide(x, batch) ==
  LET guards == IF batch \in Guarded THEN Subjects(batch) ELSE {} IN
  /\ Quiet
  /\ graph.epoch < MaxEpoch
  /\ plan[x].state # "decided"
  /\ plan' = [plan EXCEPT ![x] =
                [NoPlan EXCEPT !.state = "decided", !.batch = batch,
                               !.guards = guards,
                               !.seen = Versions(graph, guards),
                               !.basis = Bases(graph, guards), !.read = ReadNow]]
  /\ UNCHANGED <<graph, saved, call>>

InverseType(type) ==
  CASE type = "CREATE_IDENTITY" -> "REVOKE_IDENTITY"
    [] type = "REVOKE_IDENTITY" -> "RESTORE_IDENTITY"
    [] type = "RESTORE_IDENTITY" -> "REVOKE_IDENTITY"
    [] type = "ATTACH_ASSERTION" -> "RETRACT_ASSERTION"
    [] type = "RETRACT_ASSERTION" -> "ATTACH_ASSERTION"

\* Mutant: the inverse operations in the order of the batch.
Compensation_InOrder(batch) ==
  [n \in DOMAIN batch |-> [batch[n] EXCEPT !.type = InverseType(@)]]

Compensation(batch) ==
  [n \in DOMAIN batch |->
     [batch[Len(batch) + 1 - n] EXCEPT !.type = InverseType(@)]]

\* A committed batch is to be taken back, guarded by the versions it left.
DecideUndo(x) ==
  /\ Quiet
  /\ graph.epoch < MaxEpoch
  /\ plan[x].state = "committed"
  /\ plan' = [plan EXCEPT ![x].state = "decided", ![x].kind = "undo",
                          ![x].batch = Compensation(@)]
  /\ UNCHANGED <<graph, saved, call>>

-----------------------------------------------------------------------------
(* apply() *)

PreconditionsHold(x) ==
  \A i \in plan[x].guards : plan[x].seen[i] = graph.versions[i]

BeginApply(x) ==
  /\ Quiet
  /\ plan[x].state = "decided"
  /\ graph.epoch < MaxEpoch
  /\ PreconditionsHold(x)
  /\ call' = [NoCall EXCEPT !.by = x, !.left = plan[x].batch,
                            !.view = graph.entities]
  /\ UNCHANGED <<graph, saved, plan>>

\* failed_preconditions: the caller has to decide again.
FailPreconditions(x) ==
  /\ Quiet
  /\ plan[x].state = "decided"
  /\ ~PreconditionsHold(x)
  /\ plan' = [plan EXCEPT ![x] = NoPlan]
  /\ UNCHANGED <<graph, saved, call>>

Op == Head(call.left)
Target == call.view[Op.identity]
NewEpoch == graph.epoch + 1

Operating(x, type) == call.by = x /\ call.left # <<>> /\ Op.type = type

\* The entity of the operation's identity is staged.
StageEntity(row) ==
  call' = [call EXCEPT !.left = Tail(@), !.view[Op.identity] = row,
                       !.touched[Op.identity] = @ + 1]

Create(x) ==
  /\ Operating(x, "CREATE_IDENTITY")
  /\ StageEntity([status |-> "ACTIVE", epoch |-> NewEpoch])
  /\ plan' = [plan EXCEPT ![x].fresh = @ /\ Target.status # "ACTIVE"]
  /\ UNCHANGED <<graph, saved>>

\* Neither the graph nor the batch has an assertion of this id.
IdIsFree == graph.byId[Op.assertion] = {} /\ \A r \in call.new : r.id # Op.assertion

Attached ==
  [ id |-> Op.assertion, subject |-> Op.identity, object |-> Op.object,
    status |-> Op.status, epoch |-> NewEpoch ]

\* Mutant: attaching does not count as touching the subject.
Attach_Untouched(x) ==
  /\ Operating(x, "ATTACH_ASSERTION")
  /\ IdIsFree
  /\ call' = [call EXCEPT !.left = Tail(@), !.new = @ \cup {Attached}]
  /\ UNCHANGED <<graph, saved, plan>>

Attach(x) ==
  /\ Operating(x, "ATTACH_ASSERTION")
  /\ IdIsFree
  /\ call' = [call EXCEPT !.left = Tail(@), !.new = @ \cup {Attached},
                          !.touched[Op.identity] = @ + 1]
  /\ UNCHANGED <<graph, saved, plan>>

\* Mutant: the withdrawal is stamped with its own epoch.
Revoke_Restamped(x) ==
  /\ Operating(x, "REVOKE_IDENTITY")
  /\ Target.status \notin {"UNKNOWN", "REVOKED"}
  /\ StageEntity([status |-> "REVOKED", epoch |-> NewEpoch])
  /\ UNCHANGED <<graph, saved, plan>>

Revoke(x) ==
  /\ Operating(x, "REVOKE_IDENTITY")
  /\ Target.status \notin {"UNKNOWN", "REVOKED"}
  /\ StageEntity([Target EXCEPT !.status = "REVOKED"])
  /\ UNCHANGED <<graph, saved, plan>>

Restore(x) ==
  /\ Operating(x, "RESTORE_IDENTITY")
  /\ Target.status = "REVOKED"
  /\ StageEntity([Target EXCEPT !.status = "ACTIVE"])
  /\ UNCHANGED <<graph, saved, plan>>

\* A duplicate id, nothing to revoke or to restore, or an operation the store
\* does not implement.
Refused(x) ==
  \/ Operating(x, "ATTACH_ASSERTION") /\ ~IdIsFree
  \/ Operating(x, "REVOKE_IDENTITY") /\ Target.status \in {"UNKNOWN", "REVOKED"}
  \/ Operating(x, "RESTORE_IDENTITY") /\ Target.status # "REVOKED"
  \/ Operating(x, "RETRACT_ASSERTION")

\* The call ends, nothing was put.
Refuse(x) ==
  /\ Refused(x)
  /\ call' = NoCall
  /\ plan' = [plan EXCEPT ![x] = NoPlan]
  /\ UNCHANGED <<graph, saved>>

\* What the graph is once everything staged is put.
Published ==
  [ entities |-> call.view,
    assertions |-> [i \in Identities |->
                      graph.assertions[i] \cup {r \in call.new : r.subject = i}],
    byId |-> [a \in Assertions |->
                graph.byId[a] \cup {r \in call.new : r.id = a}],
    versions |-> [i \in Identities |-> graph.versions[i] + call.touched[i]],
    epoch |-> NewEpoch ]

\* Every operation of the batch has an inverse the store implements.
Compensable(batch) ==
  \A n \in DOMAIN batch : batch[n].type # "ATTACH_ASSERTION"

\* The versions a batch leaves are kept if it may be taken back.
Publish(x) ==
  LET subjects == Subjects(plan[x].batch) IN
  /\ call.by = x
  /\ call.left = <<>>
  /\ graph' = Published
  /\ call' = NoCall
  /\ plan' = [plan EXCEPT ![x] =
                IF @.kind = "undo" \/ ~Compensable(@.batch) THEN NoPlan
                ELSE [@ EXCEPT !.state = "committed", !.before = Entities(graph, subjects),
                               !.guards = subjects,
                               !.seen = Versions(Published, subjects),
                               !.basis = Bases(Published, subjects),
                               !.read = ReadNow]]
  /\ UNCHANGED saved

-----------------------------------------------------------------------------
(* The adapter's own primitives *)

\* mark_superseded(), of an assertion there is: both indexes are replaced.
MarkSuperseded(a) ==
  /\ Quiet
  /\ graph.byId[a] # {}
  /\ LET superseded(r) == IF r.id = a THEN [r EXCEPT !.status = "SUPERSEDED"] ELSE r
     IN graph' = [graph EXCEPT
          !.assertions = [i \in Identities |-> {superseded(r) : r \in graph.assertions[i]}],
          !.byId = [b \in Assertions |-> {superseded(r) : r \in graph.byId[b]}]]
  /\ UNCHANGED <<saved, call, plan>>

\* What plans read in the open transaction is now settled, or undone.
Settled ==
  [x \in Executors |-> [plan[x] EXCEPT !.read = IF @ = "dirty" THEN "clean" ELSE @]]

Undone ==
  [x \in Executors |-> [plan[x] EXCEPT !.read = IF @ = "dirty" THEN "void" ELSE @]]

Begin ==
  /\ Quiet
  /\ saved' = [open |-> TRUE, graph |-> graph]
  /\ plan' = Settled
  /\ UNCHANGED <<graph, call>>

CommitTransaction ==
  /\ Quiet
  /\ saved' = NoTransaction
  /\ plan' = Settled
  /\ UNCHANGED <<graph, call>>

\* Mutant: begin() copied the table of lists, not the lists.
Rollback_SharedLists ==
  /\ Quiet
  /\ saved.open
  /\ graph' = [saved.graph EXCEPT !.assertions = graph.assertions]
  /\ saved' = NoTransaction
  /\ plan' = Undone
  /\ UNCHANGED call

Rollback ==
  /\ Quiet
  /\ saved.open
  /\ graph' = saved.graph
  /\ saved' = NoTransaction
  /\ plan' = Undone
  /\ UNCHANGED call

-----------------------------------------------------------------------------

Step(x) ==
  \/ \E batch \in Batches : Decide(x, batch)
  \/ DecideUndo(x)
  \/ BeginApply(x) \/ FailPreconditions(x)
  \/ Create(x) \/ Attach(x) \/ Revoke(x) \/ Restore(x)
  \/ Refuse(x) \/ Publish(x)

Adapter ==
  \/ \E a \in Assertions : MarkSuperseded(a)
  \/ Begin \/ CommitTransaction \/ Rollback

Next == (\E x \in Executors : Step(x)) \/ Adapter

Spec == Init /\ [][Next]_vars

-----------------------------------------------------------------------------
(* Properties *)

BasisType == [entity: EntityRow, ids: SUBSET Assertions]

Plan ==
  [ state: {"none", "decided", "committed"},
    kind: {"do", "undo"}, batch: Seq(Operation), guards: SUBSET Identities,
    seen: [Identities -> Nat], basis: [Identities -> BasisType],
    before: [Identities -> EntityRow], fresh: BOOLEAN,
    read: {"clean", "dirty", "void"} ]

\* An identity at version 0, which is what a precondition for a new one
\* expects, is in no table; no record is of a later epoch.
Accounted(g) ==
  \A i \in Identities :
    /\ g.versions[i] = 0 => g.entities[i] = Unknown /\ g.assertions[i] = {}
    /\ g.entities[i].epoch <= g.epoch
    /\ \A r \in g.assertions[i] : r.subject = i /\ r.epoch <= g.epoch

\* Types, of the graph and of the copy a rollback returns to.
TypeOK ==
  /\ graph \in Graph /\ Accounted(graph)
  /\ saved \in [open: BOOLEAN, graph: Graph] /\ Accounted(saved.graph)
  /\ call \in [ by: Executors \cup {Nobody}, left: Seq(Operation),
                view: [Identities -> EntityRow], new: SUBSET AssertionRow,
                touched: [Identities -> Nat] ]
  /\ plan \in [Executors -> Plan]

\* "A single-id read can never surface what the list read would hide", nor
\* the other way round: at any options the two indexes give the same records,
\* one per id.
ReadsAgree ==
  \A o \in Options :
    /\ \A a \in Assertions : \A r, s \in GetAssertion(graph, a, o) : r = s
    /\ UNION { GetAssertion(graph, a, o) : a \in Assertions }
         = UNION { AssertionsFor(graph, i, o) : i \in Identities }

\* A guarded batch is applied to what it was decided on: the entity and the
\* assertion ids of every guarded identity are those the executor read, unless
\* it read them in a transaction that was rolled back.
GuardedOnBasis ==
  \A x \in Executors :
    call.by = x /\ plan[x].read # "void" =>
      \A i \in plan[x].guards : Basis(graph, i) = plan[x].basis[i]

\* A batch of operations that have implemented inverses can be taken back: as
\* long as nobody touched its subjects, the compensation is not refused and
\* leaves its subjects with the status they had, or withdrawn if they were new.
\* (A batch that creates what is already active replaces it for good.)
CompensationRestores ==
  \A x \in Executors :
    LET p == plan[x] IN
    /\ p.kind = "undo"
    /\ p.fresh
    /\ p.read # "void"
    => /\ ~Refused(x)
       /\ call.by = x /\ call.left = <<>> =>
            \A i \in p.guards :
              call.view[i].status = IF p.before[i].status = "UNKNOWN"
                                      THEN "REVOKED" ELSE p.before[i].status

\* neighborhood() finds exactly what can be reached over visible assertions
\* through identities a reader can see.
NeighborhoodIsReachable ==
  \A o \in Options : \A start \in Identities : \A hops \in 0..2 :
    LET within[n \in 0..hops] ==
          IF n = 0 THEN {start}
          ELSE within[n - 1] \cup
                 { i \in Targets(graph, within[n - 1], o) : Found(graph, i, o) }
    IN Neighborhood(graph, start, hops, o) = within[hops] \ {start}

Everything(e) == [epoch |-> e, superseded |-> TRUE, revoked |-> TRUE]

HistoryEntities(g, e) == { i \in Identities : Found(g, i, Everything(e)) }

HistoryAssertions(g, e) ==
  { r.id : r \in UNION { AssertionsFor(g, i, Everything(e)) : i \in Identities } }

RollsBack == saved.open /\ ~saved'.open /\ graph' = saved.graph

\* The identities the batch being published creates.
Creates ==
  IF Quiet THEN {}
  ELSE LET batch == plan[call.by].batch
       IN { i \in Identities : \E n \in DOMAIN batch :
              batch[n].type = "CREATE_IDENTITY" /\ batch[n].identity = i }

\* A history read pinned to a published epoch keeps its answer: withdrawing,
\* restoring, superseding and later batches do not touch it; only creating an
\* identity anew takes that identity out of its past.
PinnedHistoryStays ==
  [][\A e \in 0..MaxEpoch : e <= graph.epoch /\ ~RollsBack =>
       /\ HistoryEntities(graph, e) \ Creates \subseteq HistoryEntities(graph', e)
       /\ HistoryEntities(graph', e) \subseteq HistoryEntities(graph, e)
       /\ HistoryAssertions(graph', e) = HistoryAssertions(graph, e)]_vars
=============================================================================
