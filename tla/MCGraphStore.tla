----------------------------- MODULE MCGraphStore -----------------------------
(* An instance of GraphStore for TLC. *)
EXTENDS GraphStore, TLC

CONSTANTS x, y, i1, i2, i3, a1, a2

Entity(type, i) ==
  [ type |-> type, identity |-> i, assertion |-> a1, object |-> NoIdentity,
    status |-> "ACTIVE" ]

Attachment(a, i, object) ==
  [ type |-> "ATTACH_ASSERTION", identity |-> i, assertion |-> a,
    object |-> object, status |-> "ACTIVE" ]

\* A chain of edges i1, i2, i3; i2 comes with a batch that withdraws it at
\* once, to be restored by another.
MCBatches ==
  { <<Entity("CREATE_IDENTITY", i1), Attachment(a1, i1, i2)>>,
    <<Entity("CREATE_IDENTITY", i3), Attachment(a2, i2, i3)>>,
    <<Entity("CREATE_IDENTITY", i2), Entity("REVOKE_IDENTITY", i2)>>,
    <<Entity("RESTORE_IDENTITY", i2)>>,
    <<Entity("RETRACT_ASSERTION", i1)>> }

MCGuarded == {<<Entity("RESTORE_IDENTITY", i2)>>}

\* The executors are alike, and the run checks no liveness.
MCSymmetry == Permutations(Executors)
=============================================================================
