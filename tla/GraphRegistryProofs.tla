------------------------- MODULE GraphRegistryProofs -------------------------
(***************************************************************************)
(* Proofs about GraphRegistry, for any connections, names, descriptors,    *)
(* decisions and bound.                                                    *)
(*                                                                         *)
(* The inductive invariant has three parts: the committed and the staged   *)
(* tables are dense (the versions of a name are 1..n, one row each); a     *)
(* call knows the tables it works on (CallKnows), which its lock keeps as  *)
(* they are; and what callers were told is true (Honest).  A store stuck   *)
(* in a transaction whose COMMIT raised has a draft of its own, of which   *)
(* nothing needs to be known but that no call is there to publish it.      *)
(***************************************************************************)
EXTENDS GraphRegistry, FiniteSetTheorems, TLAPS

RowsOf(t, name) == { r \in t.versions : r.name = name }

Dense(t) ==
  /\ t \in Tables
  /\ \A name \in Names :
       /\ IsFiniteSet(RowsOf(t, name))
       /\ VersionsOf(t, name) = 1..Cardinality(RowsOf(t, name))
  /\ \A r, s \in t.versions : r.name = s.name /\ r.version = s.version => r = s
  /\ \A id \in DecisionIds :
       t.decisions[id].content = None => t.decisions[id] = NoDecision

\* The row a register() call inserts.
NewRow(k) == [name |-> k.name, version |-> k.next, desc |-> k.desc]

\* What a call under way has done to the tables, and that it holds the lock.
Wrote(c) ==
  LET k == call[c] IN
  /\ writer = c
  /\ k.op = "register" =>
       /\ draft.versions = db.versions \cup {NewRow(k)}
       /\ draft.decisions = db.decisions
  /\ k.op # "register" =>
       /\ draft.versions = db.versions
       /\ \A id \in DecisionIds :
            db.decisions[id] # NoDecision =>
              draft.decisions[id].content = db.decisions[id].content
  /\ k.op = "decide" => draft.decisions[k.id].content = k.stored

\* What a register() call knows before its INSERT.
Waiting(c) ==
  /\ c \in readers
  /\ writer # c
  /\ call[c].next = Cardinality(RowsOf(db, call[c].name)) + 1

CallKnows ==
  \A c \in Conns :
    /\ call[c].op = "register" /\ ~call[c].staged => Waiting(c)
    /\ call[c] # NoCall /\ ~(call[c].op = "register" /\ ~call[c].staged) => Wrote(c)

Honest ==
  /\ \A d \in Descriptors :
       IF told[d] = "returned" THEN Cardinality(RowsFor(d)) = 1 ELSE RowsFor(d) = {}
  /\ \A c \in Conns : call[c].op = "register" => told[call[c].desc] = "asked"
  /\ \A c, e \in Conns :
       call[c].op = "register" /\ call[e].op = "register"
         /\ call[c].desc = call[e].desc => c = e
  /\ \A a \in agreed : db.decisions[a[1]].content = a[2]

IInv == TypeOK /\ Dense(db) /\ Dense(draft) /\ CallKnows /\ Honest

-----------------------------------------------------------------------------
(* Dense tables *)

\* MAX(version) of a dense table counts the rows of the name.
LEMMA LatestCounts ==
  ASSUME NEW t, Dense(t), NEW name \in Names
  PROVE  /\ Cardinality(RowsOf(t, name)) \in Nat
         /\ LatestVersion(t, name) = Cardinality(RowsOf(t, name))
<1>1. Cardinality(RowsOf(t, name)) \in Nat
  BY FS_CardinalityType DEF Dense
<1> DEFINE n == Cardinality(RowsOf(t, name))
<1>2. VersionsOf(t, name) = 1..n
  BY DEF Dense
<1>3. CASE n = 0
  BY <1>1, <1>2, <1>3 DEF LatestVersion
<1>4. CASE n # 0
  <2>1. n \in 1..n /\ \A w \in 1..n : w <= n
    BY <1>1, <1>4
  <2>2. \A v \in 1..n : (\A w \in 1..n : w <= v) => v = n
    BY <1>1, <2>1
  <2>3. (CHOOSE v \in 1..n : \A w \in 1..n : w <= v) = n
    BY <2>1, <2>2
  <2> QED BY <1>2, <1>4, <2>1, <2>3 DEF LatestVersion
<1> QED BY <1>1, <1>3, <1>4

\* The INSERT of version n + 1 keeps a table dense.
LEMMA InsertIsDense ==
  ASSUME NEW t, Dense(t), NEW row \in VersionRow,
         row.version = Cardinality(RowsOf(t, row.name)) + 1
  PROVE  Dense([t EXCEPT !.versions = @ \cup {row}])
<1> DEFINE u == [t EXCEPT !.versions = @ \cup {row}]
           n == Cardinality(RowsOf(t, row.name))
<1>1. row.name \in Names /\ row.version \in Nat
  BY DEF VersionRow
<1>2. n \in Nat
  BY <1>1, LatestCounts
<1>3. /\ u \in Tables
      /\ u.versions = t.versions \cup {row}
      /\ u.decisions = t.decisions
  BY DEF Dense, Tables
<1>4. VersionsOf(t, row.name) = 1..n
  BY <1>1 DEF Dense
<1>5. \A r \in t.versions : r.name = row.name => r.version # row.version
  BY <1>2, <1>4 DEF VersionsOf
<1>6. ASSUME NEW name \in Names
      PROVE  /\ IsFiniteSet(RowsOf(u, name))
             /\ VersionsOf(u, name) = 1..Cardinality(RowsOf(u, name))
  <2>1. CASE name # row.name
    <3>1. RowsOf(u, name) = RowsOf(t, name)
      BY <1>3, <2>1 DEF RowsOf
    <3>2. VersionsOf(u, name) = VersionsOf(t, name)
      BY <1>3, <2>1 DEF VersionsOf
    <3> QED BY <3>1, <3>2 DEF Dense
  <2>2. CASE name = row.name
    <3>1. RowsOf(u, name) = RowsOf(t, name) \cup {row}
      BY <1>3, <2>2 DEF RowsOf
    <3>2. row \notin RowsOf(t, name)
      BY <1>5, <2>2 DEF RowsOf
    <3>3. IsFiniteSet(RowsOf(t, name))
      BY DEF Dense
    <3>4. \A S, x : IsFiniteSet(S) /\ x \notin S =>
            IsFiniteSet(S \cup {x}) /\ Cardinality(S \cup {x}) = Cardinality(S) + 1
      BY FS_AddElement
    <3>5. /\ IsFiniteSet(RowsOf(t, name) \cup {row})
          /\ Cardinality(RowsOf(t, name) \cup {row}) = n + 1
      <4> HIDE DEF u
      <4> QED BY <2>2, <3>2, <3>3, <3>4
    <3>6. VersionsOf(u, name) = VersionsOf(t, name) \cup {row.version}
      BY <1>3, <2>2 DEF VersionsOf
    <3>7. (1..n) \cup {n + 1} = 1..(n + 1)
      BY <1>2
    <3> QED BY <1>4, <2>2, <3>1, <3>5, <3>6, <3>7
  <2> QED BY <2>1, <2>2
<1>7. \A r, s \in u.versions : r.name = s.name /\ r.version = s.version => r = s
  BY <1>3, <1>5 DEF Dense
<1> QED BY <1>3, <1>6, <1>7 DEF Dense

\* So does a change of decisions that leaves no row half empty.
LEMMA DecisionsStayDense ==
  ASSUME NEW t, Dense(t), NEW u \in Tables, u.versions = t.versions,
         \A id \in DecisionIds :
           u.decisions[id].content = None => u.decisions[id] = NoDecision
  PROVE  Dense(u)
<1>1. \A name : RowsOf(u, name) = RowsOf(t, name) /\ VersionsOf(u, name) = VersionsOf(t, name)
  BY DEF RowsOf, VersionsOf
<1> QED BY <1>1 DEF Dense

\* A dense table has one latest row of a name, or no row.
LEMMA OneLatest ==
  ASSUME NEW t, Dense(t), NEW name \in Names
  PROVE  Cardinality({ r \in Snapshot(t) : r.name = name })
           = IF VersionsOf(t, name) = {} THEN 0 ELSE 1
<1> DEFINE n == Cardinality(RowsOf(t, name))
           S == { r \in Snapshot(t) : r.name = name }
<1>1. n \in Nat /\ LatestVersion(t, name) = n
  BY LatestCounts
<1>2. VersionsOf(t, name) = 1..n
  BY DEF Dense
<1>3. S = { r \in t.versions : r.name = name /\ r.version = n }
  BY <1>1 DEF Snapshot
<1>4. CASE n = 0
  <2>1. VersionsOf(t, name) = {}
    BY <1>2, <1>4
  <2>2. S = {}
    BY <1>3, <2>1 DEF VersionsOf
  <2> QED BY <2>1, <2>2, FS_EmptySet
<1>5. CASE n # 0
  <2>1. n \in VersionsOf(t, name)
    BY <1>1, <1>2, <1>5
  <2>2. PICK r \in t.versions : r.name = name /\ r.version = n
    BY <2>1 DEF VersionsOf
  <2>3. S = {r}
    BY <1>3, <2>2 DEF Dense
  <2> QED BY <2>1, <2>3, FS_Singleton
<1> QED BY <1>4, <1>5

-----------------------------------------------------------------------------
(* Ending a call *)

\* The call of a connection that waits is a register() that has not inserted.
LEMMA CallShapes ==
  ASSUME TypeOK, NEW c \in Conns
  PROVE  /\ call[c] \in Calls \cup {NoCall}
         /\ NoCall.op = "none"
         /\ call[c].op = "register" => call[c] \in
              [op: {"register"}, name: Names, desc: Descriptors, next: Nat \ {0}, staged: BOOLEAN]
         /\ call[c].op = "decide" => call[c] \in
              [op: {"decide"}, id: DecisionIds, content: Contents, stored: Contents]
         /\ call[c].op = "note" => call[c] \in [op: {"note"}, id: DecisionIds]
BY DEF TypeOK, Calls, NoCall

\* A call that raised is remembered as such and has no row.
LEMMA RaisingIsHonest ==
  ASSUME IInv, NEW c \in Conns, db' = db,
         Answer(c, "raised"), EndCall(c), UNCHANGED agreed
  PROVE  Honest'
<1> USE DEF IInv
<1>1. NoCall.op = "none"
  BY DEF NoCall
<1>2. \A e \in Conns : call'[e] = IF e = c THEN NoCall ELSE call[e]
  BY DEF EndCall, TypeOK
<1>3. \A d : RowsFor(d)' = RowsFor(d)
  BY DEF RowsFor
<1>4. call[c].op = "register" =>
        /\ call[c].desc \in Descriptors
        /\ told[call[c].desc] = "asked"
        /\ told' = [told EXCEPT ![call[c].desc] = "raised"]
  BY CallShapes DEF Answer, Honest
<1>5. call[c].op # "register" => told' = told
  BY DEF Answer
<1>6. ASSUME NEW d \in Descriptors
      PROVE  IF told'[d] = "returned" THEN Cardinality(RowsFor(d)') = 1 ELSE RowsFor(d)' = {}
  BY <1>3, <1>4, <1>5 DEF Honest, TypeOK
<1>7. ASSUME NEW e \in Conns, call'[e].op = "register"
      PROVE  told'[call'[e].desc] = "asked"
  <2>1. e # c /\ call'[e] = call[e]
    BY <1>1, <1>2, <1>7
  <2>2. /\ call[e].op = "register"
        /\ call[e].desc \in Descriptors
        /\ told[call[e].desc] = "asked"
    BY <1>7, <2>1, CallShapes DEF Honest
  <2>3. call[c].op = "register" => call[c].desc # call[e].desc
    BY <2>1, <2>2 DEF Honest
  <2> QED BY <1>4, <1>5, <2>1, <2>2, <2>3 DEF TypeOK
<1>8. \A e, f \in Conns :
        call'[e].op = "register" /\ call'[f].op = "register"
          /\ call'[e].desc = call'[f].desc => e = f
  BY <1>1, <1>2 DEF Honest
<1>9. \A a \in agreed' : db'.decisions[a[1]].content = a[2]
  BY DEF Honest
<1> QED BY <1>6, <1>7, <1>8, <1>9 DEF Honest

\* ROLLBACK leaves the tables and the calls of the others as they are.
LEMMA RollbackKeeps ==
  ASSUME IInv, NEW c \in Conns,
         Rollback(c), Answer(c, "raised"), EndCall(c), UNCHANGED <<agreed, notes>>
  PROVE  IInv'
<1> USE DEF IInv
<1>1. NoConn # c
  BY ConnsAssumption
<1>2. /\ db' = db
      /\ readers' = readers \ {c}
      /\ writer = c => writer' = NoConn /\ pending' = FALSE /\ draft' = db
      /\ writer # c => writer' = writer /\ pending' = pending /\ draft' = draft
      /\ call' = [call EXCEPT ![c] = NoCall]
  BY DEF Rollback, Leave, EndCall
<1>3. NoCall.op = "none"
  BY DEF NoCall
<1>4. \A e \in Conns : call'[e] = IF e = c THEN NoCall ELSE call[e]
  BY <1>2 DEF TypeOK
<1>5. TypeOK'
  <2>1. told' \in [Descriptors -> {"none", "asked", "returned", "raised"}]
    BY CallShapes DEF Answer, TypeOK
  <2>2. call' \in [Conns -> Calls \cup {NoCall}]
    BY <1>2 DEF TypeOK
  <2>3. /\ writer' \in readers' \cup {NoConn}
        /\ writer' = NoConn => draft' = db' /\ ~pending'
    BY <1>2 DEF TypeOK
  <2>4. db' \in Tables /\ draft' \in Tables /\ readers' \subseteq Conns /\ pending' \in BOOLEAN
    BY <1>2 DEF TypeOK
  <2> QED BY <2>1, <2>2, <2>3, <2>4 DEF TypeOK
<1>6. Dense(db)' /\ Dense(draft)'
  BY <1>2 DEF Dense
<1>7. CallKnows'
  <2> SUFFICES ASSUME NEW e \in Conns
               PROVE  /\ call'[e].op = "register" /\ ~call'[e].staged => Waiting(e)'
                      /\ call'[e] # NoCall /\ ~(call'[e].op = "register" /\ ~call'[e].staged)
                           => Wrote(e)'
    BY DEF CallKnows
  <2>1. CASE e = c
    BY <1>3, <1>4, <2>1
  <2>2. CASE e # c
    <3>1. call'[e] = call[e]
      BY <1>4, <2>2
    <3>2. ASSUME call[e].op = "register", ~call[e].staged
          PROVE  Waiting(e)'
      BY <1>2, <2>2, <3>1, <3>2, ConnsAssumption DEF CallKnows, Waiting
    <3>3. ASSUME call[e] # NoCall, ~(call[e].op = "register" /\ ~call[e].staged)
          PROVE  Wrote(e)'
      <4>1. writer = e /\ Wrote(e)
        BY <3>3 DEF CallKnows, Wrote
      <4> QED BY <1>2, <2>2, <3>1, <4>1 DEF Wrote
    <3> QED BY <3>1, <3>2, <3>3
  <2> QED BY <2>1, <2>2
<1>8. Honest'
  BY <1>2, RaisingIsHonest
<1> QED BY <1>5, <1>6, <1>7, <1>8

\* Who commits is alone, and its draft becomes the tables.
LEMMA CommitKeeps ==
  ASSUME IInv, NEW c \in Conns, Commit(c), EndCall(c), Wrote(c)
  PROVE  /\ db' = draft /\ draft' = draft /\ Dense(draft)
         /\ readers' = {} /\ writer' = NoConn /\ pending' = FALSE
         /\ \A e \in Conns : call'[e] = NoCall
         /\ \A e \in Conns : e # c => call[e] = NoCall
         /\ call' \in [Conns -> Calls \cup {NoCall}]
         /\ CallKnows'
<1> USE DEF IInv
<1>1. /\ writer = c /\ readers \subseteq {c}
      /\ db' = draft /\ draft' = draft /\ writer' = NoConn /\ pending' = FALSE
      /\ readers' = readers \ {c}
      /\ call' = [call EXCEPT ![c] = NoCall]
  BY DEF Commit, Leave, EndCall
<1>2. \A e \in Conns : e # c => call[e] = NoCall
  BY <1>1 DEF CallKnows, Waiting, Wrote
<1>3. /\ \A e \in Conns : call'[e] = NoCall
      /\ call' \in [Conns -> Calls \cup {NoCall}]
  BY <1>1, <1>2 DEF TypeOK
<1>4. CallKnows'
  <2>1. NoCall.op = "none"
    BY DEF NoCall
  <2> QED BY <1>3, <2>1 DEF CallKnows
<1>5. readers' = {}
  BY <1>1
<1> QED BY <1>1, <1>2, <1>3, <1>4, <1>5

\* A statement that raises is rolled back.
LEMMA RaiseCallKeeps ==
  ASSUME IInv, NEW c \in Conns, RaiseCall(c)
  PROVE  IInv'
BY RollbackKeeps DEF RaiseCall

\* close() and a crash roll back what the connection had staged.
LEMMA CloseKeeps ==
  ASSUME IInv, NEW c \in Conns, Close(c)
  PROVE  IInv'
BY RollbackKeeps DEF Close

\* A COMMIT that raises leaves the draft to nobody.
LEMMA CommitBusyKeeps ==
  ASSUME IInv, NEW c \in Conns, CommitBusy(c)
  PROVE  IInv'
<1> USE DEF IInv
<1>1. /\ writer = c /\ pending' = TRUE
      /\ UNCHANGED <<db, draft, readers, writer, agreed, notes>>
      /\ Answer(c, "raised")
      /\ call' = [call EXCEPT ![c] = NoCall]
  BY DEF CommitBusy, EndCall
<1>2. NoCall.op = "none" /\ c # NoConn
  BY ConnsAssumption DEF NoCall
<1>3. \A e \in Conns : call'[e] = IF e = c THEN NoCall ELSE call[e]
  BY <1>1 DEF TypeOK
<1>4. TypeOK'
  <2>1. told' \in [Descriptors -> {"none", "asked", "returned", "raised"}]
    BY <1>1, CallShapes DEF Answer, TypeOK
  <2>2. call' \in [Conns -> Calls \cup {NoCall}]
    BY <1>1 DEF TypeOK
  <2> QED BY <1>1, <1>2, <2>1, <2>2 DEF TypeOK
<1>5. Dense(db)' /\ Dense(draft)'
  BY <1>1 DEF Dense
<1>6. CallKnows'
  <2> SUFFICES ASSUME NEW e \in Conns
               PROVE  /\ call'[e].op = "register" /\ ~call'[e].staged => Waiting(e)'
                      /\ call'[e] # NoCall /\ ~(call'[e].op = "register" /\ ~call'[e].staged)
                           => Wrote(e)'
    BY DEF CallKnows
  <2>1. CASE e = c
    BY <1>2, <1>3, <2>1
  <2>2. CASE e # c
    <3>1. call'[e] = call[e] /\ writer # e
      BY <1>1, <1>3, <2>2
    <3>2. ASSUME call[e].op = "register", ~call[e].staged
          PROVE  Waiting(e)'
      BY <1>1, <3>1, <3>2 DEF CallKnows, Waiting
    <3>3. ~(call[e] # NoCall /\ ~(call[e].op = "register" /\ ~call[e].staged))
      BY <3>1 DEF CallKnows, Wrote
    <3> QED BY <3>1, <3>2, <3>3
  <2> QED BY <2>1, <2>2
<1>7. Honest'
  BY <1>1, RaisingIsHonest DEF CommitBusy
<1> QED BY <1>4, <1>5, <1>6, <1>7

-----------------------------------------------------------------------------
(* Registering *)

\* The shared lock keeps the tables as they were read.
LEMMA BeginRegisterKeeps ==
  ASSUME IInv, NEW c \in Conns, NEW name \in Names, NEW d \in Descriptors,
         BeginRegister(c, name, d)
  PROVE  IInv'
<1> USE DEF IInv
<1> DEFINE k == [op |-> "register", name |-> name, desc |-> d,
                 next |-> LatestVersion(View(c), name) + 1, staged |-> FALSE]
<1>1. /\ call[c] = NoCall /\ c \notin readers /\ writer # c
      /\ told[d] = "none" /\ ~pending
      /\ readers' = readers \cup {c}
      /\ call' = [call EXCEPT ![c] = k]
      /\ told' = [told EXCEPT ![d] = "asked"]
      /\ UNCHANGED <<db, draft, writer, pending, agreed, notes>>
  BY DEF BeginRegister, CanBegin, InTransaction, Read
<1>2. /\ LatestVersion(View(c), name) = Cardinality(RowsOf(db, name))
      /\ Cardinality(RowsOf(db, name)) \in Nat
  BY <1>1, LatestCounts DEF View
<1>3. k \in Calls
  BY <1>2 DEF Calls
<1>4. \A e \in Conns : call'[e] = IF e = c THEN k ELSE call[e]
  BY <1>1 DEF TypeOK
<1>5. TypeOK'
  <2>1. call' \in [Conns -> Calls \cup {NoCall}]
    BY <1>1, <1>3 DEF TypeOK
  <2> QED BY <1>1, <2>1 DEF TypeOK
<1>6. Dense(db)' /\ Dense(draft)'
  BY <1>1 DEF Dense
<1>7. CallKnows'
  <2> SUFFICES ASSUME NEW e \in Conns
               PROVE  /\ call'[e].op = "register" /\ ~call'[e].staged => Waiting(e)'
                      /\ call'[e] # NoCall /\ ~(call'[e].op = "register" /\ ~call'[e].staged)
                           => Wrote(e)'
    BY DEF CallKnows
  <2>1. CASE e = c
    <3>1. call'[e] = k
      BY <1>4, <2>1
    <3>2. /\ call'[e].name = name
          /\ call'[e].next = Cardinality(RowsOf(db, name)) + 1
      BY <1>2, <3>1
    <3>3. /\ e \in readers' /\ writer' # e
          /\ RowsOf(db', call'[e].name) = RowsOf(db, name)
      BY <1>1, <2>1, <3>2
    <3>4. Waiting(e)'
      <4> HIDE DEF k
      <4> QED BY <3>2, <3>3 DEF Waiting
    <3>5. call'[e].op = "register" /\ ~call'[e].staged
      BY <3>1
    <3> QED BY <3>4, <3>5
  <2>2. CASE e # c
    <3>1. call'[e] = call[e]
      BY <1>4, <2>2
    <3>2. Waiting(e) => Waiting(e)'
      BY <1>1, <3>1 DEF Waiting, RowsOf
    <3>3. Wrote(e) => Wrote(e)'
      BY <1>1, <3>1 DEF Wrote
    <3> QED BY <3>1, <3>2, <3>3 DEF CallKnows
  <2> QED BY <2>1, <2>2
<1>8. Honest'
  <2>1. \A b : RowsFor(b)' = RowsFor(b)
    BY <1>1 DEF RowsFor
  <2>2. \A b \in Descriptors :
          IF told'[b] = "returned" THEN Cardinality(RowsFor(b)') = 1 ELSE RowsFor(b)' = {}
    BY <1>1, <2>1 DEF Honest, TypeOK
  <2>3. \A e \in Conns : e # c /\ call[e].op = "register" => call[e].desc # d
    BY <1>1 DEF Honest
  <2>4. \A e \in Conns : call'[e].op = "register" => told'[call'[e].desc] = "asked"
    <3> SUFFICES ASSUME NEW e \in Conns, call'[e].op = "register"
                 PROVE  told'[call'[e].desc] = "asked"
      OBVIOUS
    <3>1. CASE e = c
      BY <1>1, <1>4, <3>1 DEF TypeOK
    <3>2. CASE e # c
      <4>1. /\ call'[e] = call[e]
            /\ call[e].op = "register"
            /\ call[e].desc \in Descriptors
        BY <1>4, <3>2, CallShapes
      <4> QED BY <1>1, <2>3, <3>2, <4>1 DEF Honest, TypeOK
    <3> QED BY <3>1, <3>2
  <2>5. \A e, f \in Conns :
          call'[e].op = "register" /\ call'[f].op = "register"
            /\ call'[e].desc = call'[f].desc => e = f
    BY <1>4, <2>3 DEF Honest
  <2>6. \A a \in agreed' : db'.decisions[a[1]].content = a[2]
    BY <1>1 DEF Honest
  <2> QED BY <2>2, <2>4, <2>5, <2>6 DEF Honest
<1> QED BY <1>5, <1>6, <1>7, <1>8

\* Staging changes what the writer sees, and nothing the others rely on.
LEMMA StagingKeeps ==
  ASSUME IInv, NEW c \in Conns, NEW t, Stage(c, t), Dense(t),
         NEW k \in Calls, call' = [call EXCEPT ![c] = k], Wrote(c)',
         ~(k.op = "register" /\ ~k.staged)
  PROVE  /\ writer' = c /\ draft' = t /\ db' = db /\ pending' = pending
         /\ readers' = readers \cup {c}
         /\ call' \in [Conns -> Calls \cup {NoCall}]
         /\ Dense(db)' /\ Dense(draft)'
         /\ CallKnows'
<1> USE DEF IInv
<1>1. /\ writer \in {NoConn, c} /\ writer' = c /\ draft' = t
      /\ db' = db /\ pending' = pending /\ readers' = readers \cup {c}
  BY DEF Stage
<1>2. call' \in [Conns -> Calls \cup {NoCall}]
  BY DEF TypeOK
<1>3. Dense(db)' /\ Dense(draft)'
  BY <1>1 DEF Dense
<1>4. CallKnows'
  <2> SUFFICES ASSUME NEW e \in Conns
               PROVE  /\ call'[e].op = "register" /\ ~call'[e].staged => Waiting(e)'
                      /\ call'[e] # NoCall /\ ~(call'[e].op = "register" /\ ~call'[e].staged)
                           => Wrote(e)'
    BY DEF CallKnows
  <2>1. CASE e = c
    <3>1. call'[e] = k
      BY <2>1 DEF TypeOK
    <3> QED BY <2>1, <3>1
  <2>2. CASE e # c
    <3>1. call'[e] = call[e]
      BY <2>2 DEF TypeOK
    <3>2. Waiting(e) => Waiting(e)'
      BY <1>1, <2>2, <3>1 DEF Waiting, RowsOf
    <3>3. ~Wrote(e)
      BY <1>1, <2>2, ConnsAssumption DEF Wrote
    <3> QED BY <3>1, <3>2, <3>3 DEF CallKnows
  <2> QED BY <2>1, <2>2
<1> QED BY <1>1, <1>2, <1>3, <1>4

\* The INSERT stages the version that MAX(version) made the next one.
LEMMA InsertVersionKeeps ==
  ASSUME IInv, NEW c \in Conns, InsertVersion(c)
  PROVE  IInv'
<1> USE DEF IInv
<1> DEFINE k == [call[c] EXCEPT !.staged = TRUE]
           t == [db EXCEPT !.versions = @ \cup {NewRow(call[c])}]
<1>1. /\ call[c].op = "register" /\ ~call[c].staged
      /\ call' = [call EXCEPT ![c].staged = TRUE]
      /\ UNCHANGED <<told, agreed, notes>>
  BY DEF InsertVersion
<1>2. call[c] \in [op: {"register"}, name: Names, desc: Descriptors, next: Nat \ {0},
                   staged: BOOLEAN]
  BY <1>1, CallShapes
<1>3. Waiting(c)
  BY <1>1 DEF CallKnows
<1>4. View(c) = db
  BY <1>3 DEF View, Waiting
<1>5. Stage(c, t)
  BY <1>4 DEF InsertVersion, NewRow
<1>6. Dense(t)
  <2>1. NewRow(call[c]) \in VersionRow /\ NewRow(call[c]).name = call[c].name
    BY <1>2 DEF NewRow, VersionRow
  <2>2. NewRow(call[c]).version = Cardinality(RowsOf(db, NewRow(call[c]).name)) + 1
    BY <1>3, <2>1 DEF Waiting, NewRow
  <2> QED BY <2>1, <2>2, InsertIsDense
<1>7. /\ k \in Calls /\ k.op = "register" /\ k.staged
      /\ k.name = call[c].name /\ k.next = call[c].next /\ k.desc = call[c].desc
  BY <1>2 DEF Calls
<1>8. call' = [call EXCEPT ![c] = k] /\ call'[c] = k
  BY <1>1 DEF TypeOK
<1>9. Wrote(c)'
  <2>1. writer' = c /\ draft' = t /\ db' = db
    BY <1>5 DEF Stage
  <2>2. t.versions = db.versions \cup {NewRow(call[c])} /\ t.decisions = db.decisions
    BY DEF TypeOK, Tables
  <2>3. NewRow(k) = NewRow(call[c])
    BY <1>7 DEF NewRow
  <2> QED BY <1>7, <1>8, <2>1, <2>2, <2>3 DEF Wrote
<1>10. /\ writer' = c /\ draft' = t /\ db' = db /\ pending' = pending
       /\ readers' = readers \cup {c}
       /\ call' \in [Conns -> Calls \cup {NoCall}]
       /\ Dense(db)' /\ Dense(draft)' /\ CallKnows'
  <2> HIDE DEF k, t, IInv
  <2> QED BY <1>5, <1>6, <1>7, <1>8, <1>9, StagingKeeps
<1>11. TypeOK'
  BY <1>1, <1>10, ConnsAssumption DEF TypeOK, Dense
<1>12. Honest'
  <2>1. \A b : RowsFor(b)' = RowsFor(b)
    BY <1>10 DEF RowsFor
  <2>2. \A e \in Conns : call'[e] = IF e = c THEN k ELSE call[e]
    BY <1>8 DEF TypeOK
  <2>3. \A e \in Conns : call'[e].op = call[e].op
                         /\ (call[e].op = "register" => call'[e].desc = call[e].desc)
    BY <1>1, <1>7, <2>2
  <2>4. \A b \in Descriptors :
          IF told'[b] = "returned" THEN Cardinality(RowsFor(b)') = 1 ELSE RowsFor(b)' = {}
    BY <1>1, <2>1 DEF Honest
  <2>5. \A e \in Conns : call'[e].op = "register" => told'[call'[e].desc] = "asked"
    BY <1>1, <2>3 DEF Honest
  <2>6. \A e, f \in Conns :
          call'[e].op = "register" /\ call'[f].op = "register"
            /\ call'[e].desc = call'[f].desc => e = f
    BY <2>3 DEF Honest
  <2>7. \A a \in agreed' : db'.decisions[a[1]].content = a[2]
    BY <1>1, <1>10 DEF Honest
  <2> QED BY <2>4, <2>5, <2>6, <2>7 DEF Honest
<1> QED BY <1>10, <1>11, <1>12

\* register() returns what its commit has published.
LEMMA ReturnRegisterKeeps ==
  ASSUME IInv, NEW c \in Conns, ReturnRegister(c)
  PROVE  IInv'
<1> USE DEF IInv
<1> DEFINE k == call[c]
<1>1. /\ k.op = "register" /\ k.staged
      /\ Commit(c) /\ EndCall(c)
      /\ told' = [told EXCEPT ![k.desc] = "returned"]
      /\ UNCHANGED <<agreed, notes>>
  BY DEF ReturnRegister, Answer
<1>2. k.desc \in Descriptors
  BY <1>1, CallShapes
<1>3. Wrote(c)
  <2>1. k # NoCall
    BY <1>1 DEF NoCall
  <2> QED BY <1>1, <2>1 DEF CallKnows
<1>4. /\ db' = draft /\ draft' = draft /\ Dense(draft)
      /\ readers' = {} /\ writer' = NoConn /\ pending' = FALSE
      /\ \A e \in Conns : call'[e] = NoCall
      /\ call' \in [Conns -> Calls \cup {NoCall}]
      /\ CallKnows'
  BY <1>1, <1>3, CommitKeeps
<1>5. TypeOK'
  BY <1>1, <1>2, <1>4 DEF TypeOK, Dense
<1>6. Dense(db)' /\ Dense(draft)'
  BY <1>4 DEF Dense
<1>7. Honest'
  <2>1. PICK row : row = NewRow(k)
    OBVIOUS
  <2>2. PICK d : d = k.desc
    OBVIOUS
  <2>3. db'.versions = db.versions \cup {row} /\ db'.decisions = db.decisions
    BY <1>1, <1>3, <1>4, <2>1 DEF Wrote
  <2>4. row.desc = d /\ d \in Descriptors /\ told' = [told EXCEPT ![d] = "returned"]
    BY <1>1, <1>2, <2>1, <2>2 DEF NewRow
  <2>5. RowsFor(d) = {}
    BY <1>1, <2>2, <2>4 DEF Honest
  <2>6. RowsFor(d)' = {row}
    BY <2>3, <2>4, <2>5 DEF RowsFor
  <2>7. Cardinality(RowsFor(d)') = 1
    BY <2>6, FS_Singleton
  <2>8. \A b : b # d => RowsFor(b)' = RowsFor(b)
    BY <2>3, <2>4 DEF RowsFor
  <2>9. \A b \in Descriptors :
          IF told'[b] = "returned" THEN Cardinality(RowsFor(b)') = 1 ELSE RowsFor(b)' = {}
    BY <2>4, <2>7, <2>8 DEF Honest, TypeOK
  <2>10. NoCall.op = "none"
    BY DEF NoCall
  <2>11. \A a \in agreed' : db'.decisions[a[1]].content = a[2]
    BY <1>1, <2>3 DEF Honest
  <2> QED BY <1>4, <2>9, <2>10, <2>11 DEF Honest
<1> QED BY <1>4, <1>5, <1>6, <1>7

-----------------------------------------------------------------------------
(* Decisions and their outcomes *)

\* A staged call that is no register() leaves the answers true: it changed
\* what callers were told only when it commits.
LEMMA DecidingIsHonest ==
  ASSUME IInv, NEW c \in Conns, call[c] = NoCall,
         NEW k, k.op # "register", call' = [call EXCEPT ![c] = k],
         UNCHANGED <<db, told, agreed>>
  PROVE  Honest'
<1> USE DEF IInv
<1>1. \A b : RowsFor(b)' = RowsFor(b)
  BY DEF RowsFor
<1>2. \A e \in Conns : call'[e] = IF e = c THEN k ELSE call[e]
  BY DEF TypeOK
<1>3. \A e \in Conns : call'[e].op = "register" =>
        call[e].op = "register" /\ call'[e] = call[e]
  BY <1>2
<1>4. \A b \in Descriptors :
        IF told'[b] = "returned" THEN Cardinality(RowsFor(b)') = 1 ELSE RowsFor(b)' = {}
  BY <1>1 DEF Honest
<1>5. \A e \in Conns : call'[e].op = "register" => told'[call'[e].desc] = "asked"
  BY <1>3 DEF Honest
<1>6. \A e, f \in Conns :
        call'[e].op = "register" /\ call'[f].op = "register"
          /\ call'[e].desc = call'[f].desc => e = f
  BY <1>3 DEF Honest
<1>7. \A a \in agreed' : db'.decisions[a[1]].content = a[2]
  BY DEF Honest
<1> QED BY <1>4, <1>5, <1>6, <1>7 DEF Honest

\* What the writer sees before it stages: a call that begins has no draft, so
\* nothing of a stuck transaction gets into what it writes.
LEMMA FreshView ==
  ASSUME NEW c \in Conns, CanBegin(c)
  PROVE  View(c) = db /\ call[c] = NoCall
BY DEF CanBegin, InTransaction, View

\* ON CONFLICT DO NOTHING: a row that is there keeps its content.
LEMMA InsertDecisionKeeps ==
  ASSUME IInv, NEW c \in Conns, NEW id \in DecisionIds, NEW content \in Contents,
         InsertDecision(c, id, content)
  PROVE  IInv'
<1> USE DEF IInv
<1> DEFINE row == InsertedDecision(db.decisions[id], content)
           t == [db EXCEPT !.decisions[id] = row]
           k == [op |-> "decide", id |-> id, content |-> content, stored |-> row.content]
<1>1. View(c) = db /\ call[c] = NoCall
  BY FreshView DEF InsertDecision
<1>2. /\ Stage(c, t)
      /\ call' = [call EXCEPT ![c] = k]
      /\ UNCHANGED <<told, agreed, notes>>
  BY <1>1 DEF InsertDecision
<1>3. db.decisions[id] \in DecisionRow /\ db.decisions \in [DecisionIds -> DecisionRow]
  BY DEF TypeOK, Tables
<1>4. /\ row \in DecisionRow /\ row.content \in Contents
      /\ db.decisions[id] # NoDecision => row.content = db.decisions[id].content
  <2>1. None \notin Contents
    BY NoneAssumption
  <2>2. CASE db.decisions[id].content = None
    <3>1. db.decisions[id] = NoDecision
      BY <2>2 DEF Dense
    <3>2. row = [content |-> content, outcome |-> None]
      BY <2>2 DEF InsertedDecision, NoDecision
    <3> QED BY <3>1, <3>2 DEF DecisionRow
  <2>3. CASE db.decisions[id].content # None
    <3>1. row = db.decisions[id]
      BY <2>3 DEF InsertedDecision
    <3> QED BY <1>3, <2>3, <3>1 DEF DecisionRow
  <2> QED BY <2>2, <2>3
<1>5. /\ t \in Tables /\ t.versions = db.versions
      /\ \A i \in DecisionIds :
           t.decisions[i] = IF i = id THEN row ELSE db.decisions[i]
  BY <1>3, <1>4 DEF TypeOK, Tables
<1>6. Dense(t)
  <2>1. \A i \in DecisionIds : t.decisions[i].content = None => t.decisions[i] = NoDecision
    <3> HIDE DEF row, t
    <3> QED BY <1>4, <1>5, NoneAssumption DEF Dense
  <2> HIDE DEF t
  <2> QED BY <1>5, <2>1, DecisionsStayDense
<1>7. k \in Calls /\ k.op = "decide" /\ k.id = id /\ k.stored = row.content
  BY <1>4 DEF Calls
<1>8. call'[c] = k
  BY <1>2 DEF TypeOK
<1>9. Wrote(c)'
  <2>1. writer' = c /\ draft' = t /\ db' = db
    BY <1>2 DEF Stage
  <2>2. \A i \in DecisionIds :
          db.decisions[i] # NoDecision => t.decisions[i].content = db.decisions[i].content
    <3> HIDE DEF row, t
    <3> QED BY <1>4, <1>5
  <2>3. t.decisions[id].content = row.content
    BY <1>5
  <2>4. /\ call'[c].op = "decide" /\ call'[c].id = id /\ call'[c].stored = row.content
    BY <1>7, <1>8
  <2> HIDE DEF row, t, k, IInv
  <2> QED BY <1>5, <2>1, <2>2, <2>3, <2>4 DEF Wrote
<1>10. /\ writer' = c /\ draft' = t /\ db' = db /\ pending' = pending
       /\ readers' = readers \cup {c}
       /\ call' \in [Conns -> Calls \cup {NoCall}]
       /\ Dense(db)' /\ Dense(draft)' /\ CallKnows'
  <2> HIDE DEF k, t, IInv
  <2> QED BY <1>2, <1>6, <1>7, <1>9, StagingKeeps
<1>11. TypeOK'
  BY <1>2, <1>10, ConnsAssumption DEF TypeOK, Dense
<1>12. Honest'
  <2> HIDE DEF k, t, row, IInv
  <2> QED BY <1>1, <1>2, <1>7, <1>10, DecidingIsHonest
<1> QED BY <1>10, <1>11, <1>12

\* The UPDATE of the outcome columns leaves the content.
LEMMA UpdateOutcomeKeeps ==
  ASSUME IInv, NEW c \in Conns, NEW id \in DecisionIds, NEW outcome \in Outcomes,
         UpdateOutcome(c, id, outcome)
  PROVE  IInv'
<1> USE DEF IInv
<1> DEFINE t == [db EXCEPT !.decisions[id].outcome = outcome]
           k == [op |-> "note", id |-> id]
<1>1. View(c) = db /\ call[c] = NoCall
  BY FreshView DEF UpdateOutcome
<1>2. /\ Stage(c, t)
      /\ call' = [call EXCEPT ![c] = k]
      /\ db.decisions[id] # NoDecision
      /\ notes < MaxOutcomes /\ notes' = notes + 1
      /\ UNCHANGED <<told, agreed>>
  BY <1>1 DEF UpdateOutcome
<1>3. db.decisions[id] \in DecisionRow /\ db.decisions \in [DecisionIds -> DecisionRow]
  BY DEF TypeOK, Tables
<1>4. db.decisions[id].content # None
  BY <1>2 DEF Dense
<1>5. /\ t \in Tables /\ t.versions = db.versions
      /\ \A i \in DecisionIds : t.decisions[i].content = db.decisions[i].content
      /\ \A i \in DecisionIds : i # id => t.decisions[i] = db.decisions[i]
  BY <1>3 DEF TypeOK, Tables, DecisionRow
<1>6. Dense(t)
  <2>1. \A i \in DecisionIds : t.decisions[i].content = None => t.decisions[i] = NoDecision
    <3> HIDE DEF t
    <3> QED BY <1>4, <1>5 DEF Dense
  <2> HIDE DEF t
  <2> QED BY <1>5, <2>1, DecisionsStayDense
<1>7. k \in Calls /\ k.op = "note"
  BY DEF Calls
<1>8. call'[c] = k
  BY <1>2 DEF TypeOK
<1>9. Wrote(c)'
  <2>1. writer' = c /\ draft' = t /\ db' = db
    BY <1>2 DEF Stage
  <2>2. call'[c].op = "note"
    BY <1>7, <1>8
  <2> HIDE DEF t, k, IInv
  <2> QED BY <1>5, <2>1, <2>2 DEF Wrote
<1>10. /\ writer' = c /\ draft' = t /\ db' = db /\ pending' = pending
       /\ readers' = readers \cup {c}
       /\ call' \in [Conns -> Calls \cup {NoCall}]
       /\ Dense(db)' /\ Dense(draft)' /\ CallKnows'
  <2> HIDE DEF k, t, IInv
  <2> QED BY <1>2, <1>6, <1>7, <1>9, StagingKeeps
<1>11. TypeOK'
  <2>1. notes' \in 0..MaxOutcomes
    BY <1>2, MaxOutcomesAssumption DEF TypeOK
  <2> QED BY <1>2, <1>10, <2>1, ConnsAssumption DEF TypeOK, Dense
<1>12. Honest'
  <2> HIDE DEF k, t, IInv
  <2> QED BY <1>1, <1>2, <1>7, <1>10, DecidingIsHonest
<1> QED BY <1>10, <1>11, <1>12

\* A commit of decisions keeps every version and every content.
LEMMA DecisionsCommit ==
  ASSUME IInv, NEW c \in Conns, call[c] # NoCall, call[c].op # "register",
         Commit(c), EndCall(c), UNCHANGED <<told, notes>>,
         agreed' \subseteq DecisionIds \X Contents,
         \A a \in agreed' : draft.decisions[a[1]].content = a[2]
  PROVE  IInv'
<1> USE DEF IInv
<1>1. Wrote(c)
  BY DEF CallKnows
<1>2. /\ db' = draft /\ draft' = draft /\ Dense(draft)
      /\ readers' = {} /\ writer' = NoConn /\ pending' = FALSE
      /\ \A e \in Conns : call'[e] = NoCall
      /\ call' \in [Conns -> Calls \cup {NoCall}]
      /\ CallKnows'
  BY <1>1, CommitKeeps
<1>3. TypeOK'
  BY <1>2 DEF TypeOK, Dense
<1>4. Dense(db)' /\ Dense(draft)'
  BY <1>2 DEF Dense
<1>5. Honest'
  <2>1. db'.versions = db.versions
    BY <1>1, <1>2 DEF Wrote
  <2>2. \A b : RowsFor(b)' = RowsFor(b)
    BY <2>1 DEF RowsFor
  <2>3. NoCall.op = "none"
    BY DEF NoCall
  <2>4. \A b \in Descriptors :
          IF told'[b] = "returned" THEN Cardinality(RowsFor(b)') = 1 ELSE RowsFor(b)' = {}
    BY <2>2 DEF Honest
  <2>5. \A a \in agreed' : db'.decisions[a[1]].content = a[2]
    BY <1>2
  <2> QED BY <1>2, <2>3, <2>4, <2>5 DEF Honest
<1> QED BY <1>2, <1>3, <1>4, <1>5

\* What was agreed on is still so in a draft that a call has written.
LEMMA AgreedInDraft ==
  ASSUME IInv, NEW c \in Conns, call[c] # NoCall, call[c].op # "register"
  PROVE  \A a \in agreed : draft.decisions[a[1]].content = a[2]
<1> USE DEF IInv
<1>1. Wrote(c)
  BY DEF CallKnows
<1>2. TAKE a \in agreed
<1>3. a[1] \in DecisionIds /\ a[2] \in Contents /\ db.decisions[a[1]].content = a[2]
  BY DEF TypeOK, Honest
<1>4. db.decisions[a[1]] # NoDecision
  BY <1>3, NoneAssumption DEF NoDecision
<1> QED BY <1>1, <1>3, <1>4 DEF Wrote

\* record_decision() agrees to the row it read back, which its commit publishes.
LEMMA EndDecisionKeeps ==
  ASSUME IInv, NEW c \in Conns, EndDecision(c)
  PROVE  IInv'
<1>1. /\ call[c].op = "decide" /\ Commit(c) /\ EndCall(c)
      /\ agreed' = IF call[c].stored = call[c].content
                     THEN agreed \cup {<<call[c].id, call[c].content>>} ELSE agreed
      /\ UNCHANGED <<told, notes>>
  BY DEF EndDecision
<1>2. call[c] # NoCall /\ call[c].op # "register"
  BY <1>1 DEF NoCall
<1>3. call[c] \in [op: {"decide"}, id: DecisionIds, content: Contents, stored: Contents]
  BY <1>1, CallShapes DEF IInv
<1>4. draft.decisions[call[c].id].content = call[c].stored
  BY <1>1, <1>2 DEF IInv, CallKnows, Wrote
<1>5. agreed' \subseteq DecisionIds \X Contents
  BY <1>1, <1>3 DEF IInv, TypeOK
<1>6. \A a \in agreed : draft.decisions[a[1]].content = a[2]
  BY <1>2, AgreedInDraft
<1>7. \A a \in agreed' : draft.decisions[a[1]].content = a[2]
  BY <1>1, <1>4, <1>6
<1> QED BY <1>1, <1>2, <1>5, <1>7, DecisionsCommit

\* record_outcome() publishes a changed outcome, and agrees to nothing.
LEMMA EndOutcomeKeeps ==
  ASSUME IInv, NEW c \in Conns, EndOutcome(c)
  PROVE  IInv'
<1>1. /\ call[c].op = "note" /\ Commit(c) /\ EndCall(c)
      /\ UNCHANGED <<told, agreed, notes>>
  BY DEF EndOutcome
<1>2. call[c] # NoCall /\ call[c].op # "register"
  BY <1>1 DEF NoCall
<1>3. agreed' \subseteq DecisionIds \X Contents
  BY <1>1 DEF IInv, TypeOK
<1>4. \A a \in agreed' : draft.decisions[a[1]].content = a[2]
  BY <1>1, <1>2, AgreedInDraft
<1> QED BY <1>1, <1>2, <1>3, <1>4, DecisionsCommit

-----------------------------------------------------------------------------
(* The theorems *)

\* The empty file satisfies the invariant.
LEMMA InitHolds == Init => IInv
<1> SUFFICES ASSUME Init PROVE IInv
  OBVIOUS
<1>1. /\ db = [versions |-> {}, decisions |-> [i \in DecisionIds |-> NoDecision]]
      /\ draft = db /\ readers = {} /\ writer = NoConn /\ pending = FALSE
      /\ call = [c \in Conns |-> NoCall]
      /\ told = [d \in Descriptors |-> "none"] /\ agreed = {} /\ notes = 0
  BY DEF Init
<1>2. NoDecision \in DecisionRow
  BY DEF NoDecision, DecisionRow
<1>3. db \in Tables /\ db.versions = {} /\ \A i \in DecisionIds : db.decisions[i] = NoDecision
  BY <1>1, <1>2 DEF Tables
<1>4. TypeOK
  <2>1. call \in [Conns -> Calls \cup {NoCall}]
    BY <1>1
  <2>2. told \in [Descriptors -> {"none", "asked", "returned", "raised"}]
    BY <1>1
  <2>3. notes \in 0..MaxOutcomes
    BY <1>1, MaxOutcomesAssumption
  <2> QED BY <1>1, <1>3, <2>1, <2>2, <2>3 DEF TypeOK
<1>5. Dense(db)
  <2>1. ASSUME NEW name \in Names
        PROVE  /\ IsFiniteSet(RowsOf(db, name))
               /\ VersionsOf(db, name) = 1..Cardinality(RowsOf(db, name))
    <3>1. RowsOf(db, name) = {} /\ VersionsOf(db, name) = {}
      BY <1>3 DEF RowsOf, VersionsOf
    <3> QED BY <3>1, FS_EmptySet
  <2> QED BY <1>3, <2>1 DEF Dense
<1>6. Dense(draft)
  BY <1>1, <1>5
<1>7. NoCall.op = "none" /\ \A c \in Conns : call[c] = NoCall
  BY <1>1 DEF NoCall
<1>8. CallKnows
  BY <1>7 DEF CallKnows
<1>9. Honest
  BY <1>1, <1>3, <1>7 DEF Honest, RowsFor
<1> QED BY <1>4, <1>5, <1>6, <1>8, <1>9 DEF IInv

\* Every step of every connection keeps the invariant.
LEMMA NextKeeps == IInv /\ [Next]_vars => IInv'
<1> SUFFICES ASSUME IInv, [Next]_vars PROVE IInv'
  OBVIOUS
<1>1. CASE UNCHANGED vars
  <2>1. /\ db' = db /\ draft' = draft /\ readers' = readers /\ writer' = writer
        /\ pending' = pending /\ call' = call /\ told' = told /\ agreed' = agreed
        /\ notes' = notes
    BY <1>1 DEF vars
  <2>2. TypeOK'
    BY <2>1 DEF IInv, TypeOK
  <2>3. Dense(db)' /\ Dense(draft)'
    BY <2>1 DEF IInv, Dense
  <2>4. CallKnows'
    BY <2>1 DEF IInv, CallKnows, Waiting, Wrote
  <2>5. Honest'
    BY <2>1 DEF IInv, Honest, RowsFor
  <2> QED BY <2>2, <2>3, <2>4, <2>5 DEF IInv
<1>2. ASSUME NEW c \in Conns,
             \/ \E name \in Names, d \in Descriptors : BeginRegister(c, name, d)
             \/ InsertVersion(c)
             \/ ReturnRegister(c)
             \/ RaiseCall(c)
             \/ CommitBusy(c)
             \/ \E id \in DecisionIds, content \in Contents : InsertDecision(c, id, content)
             \/ EndDecision(c)
             \/ \E id \in DecisionIds, outcome \in Outcomes : UpdateOutcome(c, id, outcome)
             \/ EndOutcome(c)
             \/ Close(c)
      PROVE  IInv'
  BY <1>2, BeginRegisterKeeps, InsertVersionKeeps, ReturnRegisterKeeps, RaiseCallKeeps,
     CommitBusyKeeps, InsertDecisionKeeps, EndDecisionKeeps, UpdateOutcomeKeeps,
     EndOutcomeKeeps, CloseKeeps
<1> QED BY <1>1, <1>2 DEF Next

\* Every reachable state is a state SQLite and the store can be in.
THEOREM RegistryTypeCorrect == Spec => []TypeOK
<1>1. IInv => TypeOK
  BY DEF IInv
<1> QED BY <1>1, InitHolds, NextKeeps, PTL DEF Spec

\* What register() and record_decision() answered stays true of the file, for
\* any number of connections, names and versions.
THEOREM AnswersStayTrue == Spec => []AnswersAreTrue
<1>1. ASSUME IInv
      PROVE  AnswersAreTrue
  <2>1. \A c \in Conns, name \in Names :
          Cardinality({ r \in Snapshot(View(c)) : r.name = name })
            = IF VersionsOf(View(c), name) = {} THEN 0 ELSE 1
    <3> SUFFICES ASSUME NEW c \in Conns, NEW name \in Names
                 PROVE  Cardinality({ r \in Snapshot(View(c)) : r.name = name })
                          = IF VersionsOf(View(c), name) = {} THEN 0 ELSE 1
      OBVIOUS
    <3>1. Dense(View(c))
      BY <1>1 DEF IInv, View
    <3> QED BY <3>1, OneLatest
  <2>2. \A d \in Descriptors :
          /\ told[d] = "returned" => Cardinality(RowsFor(d)) = 1
          /\ told[d] = "raised" => RowsFor(d) = {}
    BY <1>1 DEF IInv, Honest
  <2>3. \A a \in agreed : db.decisions[a[1]].content = a[2]
    BY <1>1 DEF IInv, Honest
  <2> QED BY <2>1, <2>2, <2>3 DEF AnswersAreTrue
<1> QED BY <1>1, InitHolds, NextKeeps, PTL DEF Spec

\* A commit publishes a draft that only adds to the tables.
LEMMA CommitAdds ==
  ASSUME IInv, NEW c \in Conns, call[c] # NoCall, Commit(c),
         call[c].op = "register" => call[c].staged
  PROVE  /\ db.versions \subseteq db'.versions
         /\ \A id \in DecisionIds :
              db.decisions[id] # NoDecision =>
                db'.decisions[id].content = db.decisions[id].content
<1>1. Wrote(c) /\ db' = draft
  BY DEF IInv, CallKnows, Commit
<1>2. CASE call[c].op = "register"
  BY <1>1, <1>2 DEF Wrote
<1>3. CASE call[c].op # "register"
  BY <1>1, <1>3 DEF Wrote
<1> QED BY <1>2, <1>3

\* What HistoryOnlyGrows says of a step.
Grew ==
  /\ db.versions \subseteq db'.versions
  /\ \A name \in Names :
       LET n == LatestVersion(db', name) IN
       /\ VersionsOf(db', name) = 1..n
       /\ Cardinality({ r \in db'.versions : r.name = name }) = n
  /\ \A id \in DecisionIds :
       db.decisions[id] # NoDecision =>
         db'.decisions[id].content = db.decisions[id].content

\* The versions of a name are 1..n for ever, and nothing is rewritten.
THEOREM HistoryIsAppendOnly == Spec => HistoryOnlyGrows
<1>1. ASSUME IInv, IInv', [Next]_vars
      PROVE  Grew
  <2>1. \A name \in Names :
          LET n == LatestVersion(db', name) IN
          /\ VersionsOf(db', name) = 1..n
          /\ Cardinality({ r \in db'.versions : r.name = name }) = n
    <3> SUFFICES ASSUME NEW name \in Names
                 PROVE  LET n == LatestVersion(db', name) IN
                        /\ VersionsOf(db', name) = 1..n
                        /\ Cardinality({ r \in db'.versions : r.name = name }) = n
      OBVIOUS
    <3>1. Dense(db')
      BY <1>1 DEF IInv, Dense, RowsOf, VersionsOf
    <3>2. LatestVersion(db', name) = Cardinality(RowsOf(db', name))
      BY <3>1, LatestCounts
    <3>3. VersionsOf(db', name) = 1..Cardinality(RowsOf(db', name))
      BY <3>1 DEF Dense
    <3> QED BY <3>2, <3>3 DEF RowsOf
  <2>2. /\ db.versions \subseteq db'.versions
        /\ \A id \in DecisionIds :
             db.decisions[id] # NoDecision =>
               db'.decisions[id].content = db.decisions[id].content
    <3>1. CASE db' = db
      BY <3>1
    <3>2. ASSUME NEW c \in Conns, ReturnRegister(c) \/ EndDecision(c) \/ EndOutcome(c)
          PROVE  /\ db.versions \subseteq db'.versions
                 /\ \A id \in DecisionIds :
                      db.decisions[id] # NoDecision =>
                        db'.decisions[id].content = db.decisions[id].content
      <4>1. /\ Commit(c) /\ call[c] # NoCall
            /\ call[c].op = "register" => call[c].staged
        BY <3>2 DEF ReturnRegister, EndDecision, EndOutcome, NoCall
      <4> QED BY <1>1, <4>1, CommitAdds
    <3>3. CASE UNCHANGED vars
      BY <3>1, <3>3 DEF vars
    <3>4. ASSUME NEW c \in Conns,
                 \/ \E name \in Names, d \in Descriptors : BeginRegister(c, name, d)
                 \/ InsertVersion(c)
                 \/ RaiseCall(c)
                 \/ CommitBusy(c)
                 \/ \E id \in DecisionIds, content \in Contents :
                      InsertDecision(c, id, content)
                 \/ \E id \in DecisionIds, outcome \in Outcomes :
                      UpdateOutcome(c, id, outcome)
                 \/ Close(c)
          PROVE  db' = db
      BY <3>4 DEF BeginRegister, InsertVersion, RaiseCall, CommitBusy, InsertDecision,
                  UpdateOutcome, Close, Stage, Rollback
    <3> QED BY <1>1, <3>1, <3>2, <3>3, <3>4 DEF Next
  <2> QED BY <2>1, <2>2 DEF Grew
<1>2. IInv /\ IInv' /\ [Next]_vars => [Grew]_vars
  BY <1>1
<1>3. [Grew]_vars =>
        [/\ db.versions \subseteq db'.versions
         /\ \A name \in Names :
              LET n == LatestVersion(db', name) IN
              /\ VersionsOf(db', name) = 1..n
              /\ Cardinality({ r \in db'.versions : r.name = name }) = n
         /\ \A id \in DecisionIds :
              db.decisions[id] # NoDecision =>
                db'.decisions[id].content = db.decisions[id].content]_vars
  BY DEF Grew
<1> QED BY <1>2, <1>3, InitHolds, NextKeeps, PTL DEF Spec, HistoryOnlyGrows

=============================================================================
