------------------------- MODULE IngestJobsProofs -------------------------
(***************************************************************************)
(* Theorems of IngestJobs for any jobs, candidates, work and batch sizes,  *)
(* however the jobs run next to each other, to governance and to crashes.  *)
(***************************************************************************)
EXTENDS IngestJobs, RecursionFacts, SequenceTheorems, FunctionTheorems, FiniteSetTheorems

-----------------------------------------------------------------------------
(* The inductive invariants *)

Places == {"idle", "collect", "cite", "submit", "planned", "done", "aborted"}

RunState ==
  [ at: Places, mode: {"none", "run", "plan"}, left: Seq(Built),
    writes: Seq(Evidence), planned: Seq(Candidates), seen: SUBSET Keys,
    sent: Nat, duplicates: Nat, incomplete: BOOLEAN ]

KeysOf(xs) == { KeyOf[xs[n]] : n \in DOMAIN xs }

\* What is left to do where: nothing is sent while collecting, nothing is left
\* to collect afterwards, and evidence is written for the last candidate.
RunType(r) ==
  /\ r.seen = KeysOf(r.planned)
  /\ r.sent <= Len(r.planned) /\ r.duplicates <= r.sent
  /\ r.at \in {"collect", "cite"} => r.sent = 0 /\ r.duplicates = 0
  /\ r.at \in {"submit", "done"} => r.left = <<>> /\ r.writes = <<>>
  /\ r.at = "cite" => r.writes # <<>>
  /\ r.writes # <<>> => r.planned # <<>>

TypeInv ==
  /\ life \in [Candidates -> Stages]
  /\ evid \in [Evidence -> EvidenceRow]
  /\ refs \subseteq Citations
  /\ forecast \in [Jobs -> Forecast]
  /\ faults \in 0..MaxFaults
  /\ job \in [Jobs -> RunState]
  /\ \A j \in Jobs : RunType(job[j])

\* The keys of the acceptable candidates among some.
ValidKeys(bs) == { KeyOf[b.cand] : b \in { c \in ToSet(bs) : c.valid } }

\* Every key is planned once, and of a source that did not break off all keys
\* are planned or still to come.
RunKeys(j) ==
  LET r == job[j] IN
  /\ \A m, n \in DOMAIN r.planned : KeyOf[r.planned[m]] = KeyOf[r.planned[n]] => m = n
  /\ r.at \in {"collect", "cite", "submit", "done"} /\ ~r.incomplete =>
       KeysOf(r.planned) \cup ValidKeys(r.left) = ValidKeys(FlattenSeq(Work[j]))
  /\ r.at = "done" => r.sent = Len(r.planned)

KeysInv == \A j \in Jobs : RunKeys(j)

\* What x cites, and the evidence that is still to be written if it is the
\* last one planned.
Citing(cites, r, n) ==
  CitedBy(cites, r.planned[n]) \cup (IF n = Len(r.planned) THEN ToSet(r.writes) ELSE {})

\* An extraction run has cited, or is about to cite, what it plans.
RunCites(j) ==
  LET r == job[j]
      whole == ToSet(FlattenSeq(Work[j]))
  IN /\ ToSet(r.left) \subseteq whole
     /\ r.mode = "run" =>
          \A n \in DOMAIN r.planned :
            life[r.planned[n]] = "absent" =>
              \E b \in whole : /\ b.cand = r.planned[n] /\ b.valid
                               /\ ToSet(b.evidence) \subseteq Citing(refs, r, n)

CitesInv == \A j \in Passages : RunCites(j)

\* What the run should find to be duplicates: what its dry run said and, of an
\* extraction job, what is withdrawn.
Expected(j) ==
  forecast[j].duplicates \cup
    { x \in ToSet(forecast[j].planned) : j \in Passages /\ Withdrawn(x) }

\* The places of the first n planned that are among some candidates.
Foreseen(D, s, n) == { i \in 1..n : s[i] \in D }

\* A forecast is right of the ledger as it is: of all it planned until the run
\* submits, then of what is unsent, and of the count so far.
ForecastHolds(j) ==
  LET r == job[j]
      f == forecast[j]
      D == Expected(j)
  IN /\ D \subseteq ToSet(f.planned)
     /\ r.at \in {"planned", "collect", "cite"} =>
          \A x \in ToSet(f.planned) : x \in D <=> Duplicate(life, x)
     /\ r.at \in {"submit", "done"} /\ r.planned = f.planned =>
          /\ r.duplicates = Cardinality(Foreseen(D, r.planned, r.sent))
          /\ \A n \in r.sent + 1 .. Len(r.planned) :
               r.planned[n] \in D <=> Duplicate(life, r.planned[n])

ForecastInv == \A j \in Jobs : forecast[j].made => ForecastHolds(j)

-----------------------------------------------------------------------------
(* Lists *)

\* The ledger after each prefix of a batch, unfolded.
LEMMA AfterEachUnfolds ==
  ASSUME NEW lives \in [Candidates -> Stages], NEW batch \in Seq(Candidates)
  PROVE  /\ AfterEach(lives, batch) \in [0..Len(batch) -> [Candidates -> Stages]]
         /\ AfterEach(lives, batch)[0] = lives
         /\ \A n \in 1..Len(batch) :
              AfterEach(lives, batch)[n] = Received(AfterEach(lives, batch)[n - 1], batch[n])
<1> DEFINE S == [Candidates -> Stages]
           N == Len(batch)
           step == [n \in 1..N |-> [l \in S |-> Received(l, batch[n])]]
           Good(g) == g = [n \in 0..N |-> IF n = 0 THEN lives ELSE Received(g[n - 1], batch[n])]
           after == AfterEach(lives, batch)
<1>1. N \in Nat /\ \A n \in 1..N : batch[n] \in Candidates
  OBVIOUS
<1>2. \A l \in S, x \in Candidates : Received(l, x) \in S
  BY DEF Received, Stages
<1>3. \E g : Good(g)
  <2>1. Steps(S, N, step) /\ lives \in S
    BY <1>1, <1>2 DEF Steps
  <2>2. PICK g : Follows(S, lives, N, step, g)
    <3> HIDE DEF step, S, N, Good
    <3> QED BY <2>1, StepsCompose
  <2>3. ASSUME NEW n \in 1..N
        PROVE  g[n] = Received(g[n - 1], batch[n])
    <3>1. g[n - 1] \in S
      BY <1>1, <2>2 DEF Follows
    <3> HIDE DEF S
    <3> QED BY <2>2, <3>1 DEF Follows
  <2> HIDE DEF step, S
  <2> QED BY <1>1, <2>2, <2>3 DEF Follows
<1>4. Good(after)
  <2>1. after = CHOOSE g : Good(g)
    BY DEF AfterEach
  <2> QED BY <1>3, <2>1
<1> HIDE DEF after
<1>5. /\ DOMAIN after = 0..N /\ after[0] = lives
      /\ \A n \in 1..N : after[n] = Received(after[n - 1], batch[n])
  BY <1>1, <1>4
<1>6. \A n \in 0..N : after[n] \in S
  <2> DEFINE T == {n \in 0..N : after[n] \in S}
  <2>1. 0 \in T
    BY <1>1, <1>5
  <2>2. ASSUME NEW n \in 1..N, n - 1 \in T
        PROVE  n \in T
    BY <1>1, <1>2, <1>5, <2>2
  <2>3. \A n \in 0..N : n \in T
    <3> HIDE DEF T
    <3> QED BY <1>1, <2>1, <2>2, InductionUpTo
  <2> QED BY <2>3
<1>7. after \in [0..N -> S]
  <2>1. after = [n \in 0..N |-> after[n]]
    BY <1>4
  <2> HIDE DEF S
  <2> QED BY <1>6, <2>1
<1> QED BY <1>5, <1>7 DEF after

\* What a source delivers is work of the job.
LEMMA DeliveredWork ==
  ASSUME NEW j \in Jobs, NEW delivered \in Deliveries(j)
  PROVE  /\ FlattenSeq(delivered) \in Seq(Built)
         /\ ToSet(FlattenSeq(delivered)) \subseteq ToSet(FlattenSeq(Work[j]))
<1> DEFINE W == Work[j]
<1>1. W \in Seq(Seq(Built))
  BY WorkAssumption
<1>2. /\ delivered \in Seq(Seq(Built))
      /\ \A i \in DOMAIN delivered : i \in DOMAIN W /\ delivered[i] \in {<<>>, W[i]}
  <2>1. CASE j \in Passages
    <3>1. PICK lost \in SUBSET DOMAIN W :
            delivered = [i \in DOMAIN W |-> IF i \in lost THEN <<>> ELSE W[i]]
      BY <2>1 DEF Deliveries
    <3>2. \A i \in DOMAIN W : (IF i \in lost THEN <<>> ELSE W[i]) \in Seq(Built)
      BY <1>1
    <3>3. DOMAIN W = 1..Len(W) /\ Len(W) \in Nat
      BY <1>1
    <3>4. delivered \in Seq(Seq(Built))
      <4> DEFINE L == Len(W)
      <4>1. delivered \in [1..L -> Seq(Built)]
        BY <3>1, <3>2, <3>3
      <4>2. L \in Nat
        BY <3>3
      <4> HIDE DEF L
      <4> QED BY <4>1, <4>2, SeqDef
    <3> QED BY <3>1, <3>4
  <2>2. CASE j \notin Passages
    <3>1. PICK n \in 0..Len(W) : delivered = SubSeq(W, 1, n)
      BY <2>2 DEF Deliveries
    <3>2. \A i \in 1..n : W[i] \in Seq(Built)
      BY <1>1
    <3>3. /\ delivered \in Seq(Seq(Built)) /\ Len(delivered) = n
          /\ \A i \in 1..n : delivered[i] = W[i] /\ i \in DOMAIN W
      <4>1. n \in Nat /\ 1 \in Int /\ n <= Len(W) /\ Len(W) \in Nat /\ DOMAIN W = 1..Len(W)
        BY <1>1
      <4> HIDE DEF W
      <4>2. /\ delivered \in Seq(Seq(Built))
            /\ Len(delivered) = IF 1 <= n THEN n - 1 + 1 ELSE 0
            /\ \A i \in 1..n - 1 + 1 : delivered[i] = W[1 + i - 1]
        BY <3>1, <3>2, <4>1, SubSeqProperties
      <4> QED BY <4>1, <4>2
    <3> QED BY <3>3
  <2> QED BY <2>1, <2>2
<1>3. \A i \in DOMAIN delivered : ToSet(delivered[i]) \subseteq ToSet(W[i])
  BY <1>2 DEF ToSet
<1>4. /\ ToSet(FlattenSeq(delivered)) = UNION { ToSet(delivered[i]) : i \in DOMAIN delivered }
      /\ ToSet(FlattenSeq(W)) = UNION { ToSet(W[i]) : i \in DOMAIN W }
      /\ FlattenSeq(delivered) \in Seq(Built)
  <2> HIDE DEF W
  <2> QED BY <1>1, <1>2, FlattenElements
<1> QED BY <1>2, <1>3, <1>4

\* The candidate looked at is one that was delivered.
LEMMA LookedAt ==
  ASSUME TypeInv, NEW j \in Jobs, Collecting(j)
  PROVE  /\ Next1(j) \in ToSet(job[j].left) /\ Next1(j) \in Built
         /\ Tail(job[j].left) \in Seq(Built)
         /\ ToSet(job[j].left) = {Next1(j)} \cup ToSet(Tail(job[j].left))
         /\ Next1(j).cand \in Candidates /\ KeyOf[Next1(j).cand] \in Keys
<1> DEFINE s == job[j].left
<1>1. s \in Seq(Built) /\ s # <<>>
  BY DEF TypeInv, RunState, Collecting
<1>2. /\ Head(s) \in Built /\ Tail(s) \in Seq(Built) /\ Len(Tail(s)) = Len(s) - 1
      /\ \A i \in 1..Len(Tail(s)) : Tail(s)[i] = s[i + 1]
      /\ Head(s) = s[1] /\ Len(s) \in Nat /\ Len(s) > 0 /\ DOMAIN s = 1..Len(s)
      /\ DOMAIN Tail(s) = 1..Len(s) - 1
  <2> HIDE DEF s
  <2> QED BY <1>1, HeadTailProperties
<1>3. ToSet(s) = {Head(s)} \cup ToSet(Tail(s))
  <2> HIDE DEF s
  <2>1. \A i \in DOMAIN s : i = 1 \/ (i - 1 \in DOMAIN Tail(s) /\ s[i] = Tail(s)[i - 1])
    BY <1>2
  <2>2. \A i \in DOMAIN Tail(s) : i + 1 \in DOMAIN s /\ Tail(s)[i] = s[i + 1]
    BY <1>2
  <2>3. ToSet(s) \subseteq {Head(s)} \cup ToSet(Tail(s))
    BY <1>2, <2>1 DEF ToSet
  <2>4. {Head(s)} \cup ToSet(Tail(s)) \subseteq ToSet(s)
    BY <1>2, <2>2 DEF ToSet
  <2> QED BY <2>3, <2>4
<1> QED BY <1>1, <1>2, <1>3, KeyOfAssumption DEF Next1, Built

\* What is planned is what was planned, and one more.
LEMMA Planned ==
  ASSUME NEW s \in Seq(Candidates), NEW x \in Candidates
  PROVE  /\ Append(s, x) \in Seq(Candidates) /\ Append(s, x) # <<>>
         /\ Len(Append(s, x)) = Len(s) + 1
         /\ DOMAIN Append(s, x) = DOMAIN s \cup {Len(s) + 1}
         /\ \A i \in DOMAIN s : Append(s, x)[i] = s[i] /\ i # Len(s) + 1 /\ i \in 1..Len(s)
         /\ Append(s, x)[Len(s) + 1] = x
         /\ KeysOf(Append(s, x)) = KeysOf(s) \cup {KeyOf[x]}
<1>1. /\ Append(s, x) \in Seq(Candidates) /\ Append(s, x) # <<>>
      /\ Len(Append(s, x)) = Len(s) + 1
      /\ DOMAIN Append(s, x) = DOMAIN s \cup {Len(s) + 1}
      /\ \A i \in DOMAIN s : Append(s, x)[i] = s[i] /\ i # Len(s) + 1 /\ i \in 1..Len(s)
      /\ Append(s, x)[Len(s) + 1] = x
  BY AppendProperties
<1> QED BY <1>1 DEF KeysOf

\* The next batch: what is sent of what is unsent.
LEMMA BatchIsNext ==
  ASSUME TypeInv, NEW j \in Jobs
  PROVE  /\ Batch(j) \in Seq(Candidates)
         /\ job[j].sent + Len(Batch(j)) <= Len(job[j].planned)
         /\ \A i \in 1..Len(Batch(j)) : Batch(j)[i] = job[j].planned[job[j].sent + i]
         /\ Batch(j) = <<>> <=> Unsent(j) = <<>>
         /\ Unsent(j) = <<>> <=> job[j].sent = Len(job[j].planned)
<1> DEFINE P == job[j].planned
           N == job[j].sent
           U == Unsent(j)
           B == IF BatchSize[j] < Len(U) THEN BatchSize[j] ELSE Len(U)
<1>1. P \in Seq(Candidates) /\ N \in Nat /\ N <= Len(P)
  BY DEF TypeInv, RunState, RunType
<1>2. /\ U \in Seq(Candidates) /\ Len(U) = Len(P) - N
      /\ \A i \in 1..Len(U) : U[i] = P[N + i]
  <2>1. U = SubSeq(P, N + 1, Len(P))
    BY DEF Unsent
  <2> HIDE DEF P, N, U
  <2>2. N + 1 \in Int /\ Len(P) \in Int /\ \A i \in N + 1 .. Len(P) : P[i] \in Candidates
    BY <1>1
  <2>3. /\ U \in Seq(Candidates)
        /\ Len(U) = IF N + 1 <= Len(P) THEN Len(P) - (N + 1) + 1 ELSE 0
        /\ \A i \in 1 .. Len(P) - (N + 1) + 1 : U[i] = P[N + 1 + i - 1]
    BY <2>1, <2>2, SubSeqProperties
  <2> QED BY <1>1, <2>3
<1>3. B \in Nat /\ B <= Len(U) /\ (B = 0 <=> Len(U) = 0)
  <2>1. BatchSize[j] \in Nat \ {0}
    BY BatchAssumption
  <2> HIDE DEF U
  <2> QED BY <1>2, <2>1
<1>4. /\ Batch(j) \in Seq(Candidates) /\ Len(Batch(j)) = B
      /\ \A i \in 1..B : Batch(j)[i] = U[i]
  <2>1. Batch(j) = SubSeq(U, 1, B)
    BY DEF Batch
  <2> HIDE DEF U, B
  <2>2. 1 \in Int /\ B \in Int /\ \A i \in 1..B : U[i] \in Candidates
    BY <1>2, <1>3
  <2>3. /\ SubSeq(U, 1, B) \in Seq(Candidates)
        /\ Len(SubSeq(U, 1, B)) = IF 1 <= B THEN B - 1 + 1 ELSE 0
        /\ \A i \in 1 .. B - 1 + 1 : SubSeq(U, 1, B)[i] = U[1 + i - 1]
    BY <2>2, SubSeqProperties
  <2> HIDE DEF Batch
  <2> QED BY <1>2, <1>3, <2>1, <2>3
<1>5. \A s \in Seq(Candidates) : s = <<>> <=> Len(s) = 0
  BY EmptySeq
<1> HIDE DEF P, N, U, B
<1>6. /\ N + Len(Batch(j)) <= Len(P)
      /\ \A i \in 1..Len(Batch(j)) : Batch(j)[i] = P[N + i]
  <2>1. Len(P) \in Nat /\ B \in Nat /\ N \in Nat /\ B <= Len(P) - N
    BY <1>1, <1>2, <1>3
  <2>2. \A i \in 1..B : i \in 1..Len(U)
    BY <1>2, <1>3, <2>1
  <2>3. \A i \in 1..B : Batch(j)[i] = P[N + i]
    BY <1>2, <1>4, <2>2
  <2> QED BY <1>4, <2>1, <2>3
<1>7. (Batch(j) = <<>> <=> U = <<>>) /\ (U = <<>> <=> N = Len(P))
  BY <1>1, <1>2, <1>3, <1>4, <1>5
<1> QED BY <1>4, <1>6, <1>7 DEF P, N, U

-----------------------------------------------------------------------------
(* Types *)

\* What a batch makes of the ledger, and the duplicates in it.
After(j) == AfterEach(life, Batch(j))

InBatch(j) == { i \in DOMAIN Batch(j) : Duplicate(After(j)[i - 1], Batch(j)[i]) }

\* A submission moves the ledger along the batch and counts what was there.
LEMMA Submission ==
  ASSUME TypeInv, NEW j \in Jobs, SubmitBatch(j)
  PROVE  /\ life' = After(j)[Len(Batch(j))] /\ life' \in [Candidates -> Stages]
         /\ Cardinality(InBatch(j)) \in Nat /\ Cardinality(InBatch(j)) <= Len(Batch(j))
         /\ IsFiniteSet(InBatch(j))
         /\ job' = [job EXCEPT ![j].at = "submit",
                               ![j].sent = @ + Len(Batch(j)),
                               ![j].duplicates = @ + Cardinality(InBatch(j))]
         /\ Len(Batch(j)) \in Nat /\ Len(Batch(j)) > 0
<1> DEFINE B == Batch(j)
<1>1. B \in Seq(Candidates) /\ life \in [Candidates -> Stages]
  BY BatchIsNext DEF TypeInv
<1>2. Len(B) \in Nat /\ DOMAIN B = 1..Len(B)
  BY <1>1
<1>3. After(j) \in [0..Len(B) -> [Candidates -> Stages]]
  BY <1>1, AfterEachUnfolds DEF After
<1>4. life' = After(j)[Len(B)] /\ life' \in [Candidates -> Stages]
  <2>1. life' = After(j)[Len(B)]
    BY DEF SubmitBatch, After
  <2>2. Len(B) \in 0..Len(B)
    BY <1>2
  <2> HIDE DEF B
  <2> QED BY <1>3, <2>1, <2>2
<1>5. IsFiniteSet(1..Len(B)) /\ Cardinality(1..Len(B)) = Len(B)
  <2> HIDE DEF B
  <2> DEFINE L == Len(B)
  <2>1. 1 \in Int /\ L \in Int /\ L \in Nat
    BY <1>2
  <2> HIDE DEF L
  <2>2. IsFiniteSet(1..L) /\ Cardinality(1..L) = IF 1 > L THEN 0 ELSE L - 1 + 1
    BY <2>1, FS_Interval
  <2>3. Cardinality(1..L) = L
    BY <2>1, <2>2
  <2> QED BY <2>2, <2>3 DEF L
<1>6. InBatch(j) \in SUBSET (1..Len(B))
  BY <1>2 DEF InBatch
<1>7. IsFiniteSet(InBatch(j)) /\ Cardinality(InBatch(j)) <= Len(B)
  <2> HIDE DEF B
  <2> QED BY <1>5, <1>6, FS_Subset
<1>8. Cardinality(InBatch(j)) \in Nat
  BY <1>7, FS_CardinalityType
<1>9. Len(B) > 0
  <2>1. B # <<>>
    BY DEF SubmitBatch
  <2> HIDE DEF B
  <2> QED BY <1>1, <2>1, EmptySeq
<1>10. job' = [job EXCEPT ![j].at = "submit",
                          ![j].sent = @ + Len(Batch(j)),
                          ![j].duplicates = @ + Cardinality(InBatch(j))]
  BY DEF SubmitBatch, InBatch, After
<1> QED BY <1>2, <1>4, <1>7, <1>8, <1>9, <1>10

\* The parts of the type invariant a step of one job has to keep.
LEMMA OneJobMoved ==
  ASSUME TypeInv, NEW j \in Jobs, NEW r \in RunState, RunType(r),
         job' = [job EXCEPT ![j] = r],
         life' \in [Candidates -> Stages], evid' \in [Evidence -> EvidenceRow],
         refs' \subseteq Citations, forecast' \in [Jobs -> Forecast],
         faults' \in 0..MaxFaults
  PROVE  TypeInv'
<1>1. job' \in [Jobs -> RunState]
  BY DEF TypeInv
<1>2. ASSUME NEW k \in Jobs
      PROVE  RunType(job'[k])
  BY DEF TypeInv
<1> QED BY <1>1, <1>2 DEF TypeInv

\* A run that begins, or that is given up, has planned nothing.
LEMMA NothingPlanned ==
  /\ KeysOf(<<>>) = {} /\ Len(<<>>) = 0 /\ {} \subseteq Keys
  /\ <<>> \in Seq(Built) /\ <<>> \in Seq(Evidence) /\ <<>> \in Seq(Candidates)
  /\ \A where \in Places \ {"collect", "cite"} :
       /\ [Idle EXCEPT !.at = where] \in RunState
       /\ RunType([Idle EXCEPT !.at = where])
  /\ Idle \in RunState
<1>1. /\ KeysOf(<<>>) = {} /\ Len(<<>>) = 0 /\ {} \subseteq Keys
      /\ <<>> \in Seq(Built) /\ <<>> \in Seq(Evidence) /\ <<>> \in Seq(Candidates)
  BY DEF KeysOf
<1>2. Idle \in RunState
  BY <1>1 DEF Idle, RunState, Places
<1>3. ASSUME NEW where \in Places \ {"collect", "cite"}
      PROVE  /\ [Idle EXCEPT !.at = where] \in RunState
             /\ RunType([Idle EXCEPT !.at = where])
  <2> DEFINE r == [Idle EXCEPT !.at = where]
  <2>1. r \in RunState
    BY <1>2 DEF RunState
  <2>2. /\ r.at = where /\ r.left = <<>> /\ r.writes = <<>> /\ r.planned = <<>>
        /\ r.seen = {} /\ r.sent = 0 /\ r.duplicates = 0
    BY DEF Idle
  <2> HIDE DEF r
  <2>3. RunType(r)
    BY <1>1, <2>2 DEF RunType
  <2> QED BY <2>1, <2>3 DEF r
<1> QED BY <1>1, <1>2, <1>3

\* The types are inductive.
LEMMA TypeStep ==
  ASSUME TypeInv, [Next]_vars
  PROVE  TypeInv'
<1>1. ASSUME NEW j \in Jobs, NEW mode \in {"run", "plan"},
             NEW delivered \in Deliveries(j), Start(j, mode, delivered)
      PROVE  TypeInv'
  <2> DEFINE r == [Idle EXCEPT !.at = "collect", !.mode = mode,
                               !.left = FlattenSeq(delivered),
                               !.incomplete = delivered # Work[j]]
  <2>1. FlattenSeq(delivered) \in Seq(Built)
    BY DeliveredWork
  <2>2. r \in RunState /\ RunType(r)
    <3>1. r \in RunState
      BY <2>1, NothingPlanned DEF RunState, Places
    <3>2. /\ r.at = "collect" /\ r.writes = <<>> /\ r.planned = <<>> /\ r.seen = {}
          /\ r.sent = 0 /\ r.duplicates = 0
      BY DEF Idle
    <3> HIDE DEF r
    <3> QED BY <3>1, <3>2, NothingPlanned DEF RunType
  <2>3. forecast' \in [Jobs -> Forecast]
    BY <1>1 DEF Start, TypeInv, Forecast, NoForecast
  <2>4. faults' \in 0..MaxFaults
    BY <1>1, BoundAssumption DEF Start, TypeInv
  <2>5. job' = [job EXCEPT ![j] = r]
    BY <1>1 DEF Start
  <2> HIDE DEF r
  <2> QED BY <1>1, <2>2, <2>3, <2>4, <2>5, OneJobMoved DEF Start, TypeInv
<1>2. ASSUME NEW j \in Jobs, Suppress(j) \/ Reject(j)
      PROVE  TypeInv'
  <2> DEFINE r == [job[j] EXCEPT !.left = Tail(@)]
  <2>1. Collecting(j)
    BY <1>2 DEF Suppress, Reject
  <2>2. Tail(job[j].left) \in Seq(Built)
    BY <2>1, LookedAt
  <2>3. r \in RunState /\ RunType(r)
    <3>1. job[j] \in RunState /\ RunType(job[j]) /\ job[j].at = "collect"
      BY <2>1 DEF TypeInv, Collecting, At
    <3>2. r \in RunState
      BY <2>2, <3>1 DEF RunState
    <3>3. /\ r.at = "collect" /\ r.planned = job[j].planned /\ r.seen = job[j].seen
          /\ r.sent = job[j].sent /\ r.duplicates = job[j].duplicates
          /\ r.writes = job[j].writes
      BY <3>1 DEF RunState
    <3> HIDE DEF r
    <3> QED BY <3>1, <3>2, <3>3 DEF RunType
  <2>4. job' = [job EXCEPT ![j] = r]
    BY <1>2 DEF Suppress, Reject, TypeInv
  <2> HIDE DEF r
  <2> QED BY <1>2, <2>3, <2>4, OneJobMoved DEF Suppress, Reject, TypeInv
<1>3. ASSUME NEW j \in Jobs, Admit(j)
      PROVE  TypeInv'
  <2> DEFINE x == Next1(j).cand
             w == IF j \in Passages /\ job[j].mode = "run"
                    THEN Next1(j).evidence ELSE <<>>
             r == [job[j] EXCEPT !.left = Tail(@), !.seen = @ \cup {KeyOf[x]},
                                 !.planned = Append(@, x), !.writes = w]
  <2>1. Collecting(j)
    BY <1>3 DEF Admit
  <2>2. /\ Tail(job[j].left) \in Seq(Built) /\ x \in Candidates
        /\ KeyOf[x] \in Keys /\ Next1(j) \in Built
    BY <2>1, LookedAt
  <2>3. w \in Seq(Evidence)
    BY <2>2 DEF Built
  <2>4. job[j].planned \in Seq(Candidates)
    BY DEF TypeInv, RunState
  <2>5. /\ Append(job[j].planned, x) \in Seq(Candidates)
        /\ Append(job[j].planned, x) # <<>>
        /\ Len(Append(job[j].planned, x)) = Len(job[j].planned) + 1
        /\ KeysOf(Append(job[j].planned, x)) = KeysOf(job[j].planned) \cup {KeyOf[x]}
    BY <2>2, <2>4, Planned
  <2>6. r \in RunState /\ RunType(r)
    <3> HIDE DEF x, w
    <3>1. /\ job[j] \in RunState /\ RunType(job[j]) /\ job[j].at = "collect"
          /\ Len(job[j].planned) \in Nat
      BY <2>1, <2>4 DEF TypeInv, Collecting, At
    <3>2. /\ r.at = "collect" /\ r.mode = job[j].mode /\ r.left = Tail(job[j].left)
          /\ r.writes = w /\ r.planned = Append(job[j].planned, x)
          /\ r.seen = job[j].seen \cup {KeyOf[x]} /\ r.sent = job[j].sent
          /\ r.duplicates = job[j].duplicates /\ r.incomplete = job[j].incomplete
      BY <3>1 DEF RunState
    <3>3. r \in RunState
      BY <2>2, <2>3, <2>5, <3>1 DEF RunState
    <3> HIDE DEF r
    <3> QED BY <2>5, <3>1, <3>2, <3>3 DEF RunType
  <2>7. job' = [job EXCEPT ![j] = r]
    BY <1>3 DEF Admit, TypeInv
  <2> HIDE DEF r
  <2> QED BY <1>3, <2>6, <2>7, OneJobMoved DEF Admit, TypeInv
<1>4. ASSUME NEW j \in Jobs, PutEvidence(j)
      PROVE  TypeInv'
  <2> DEFINE e == Head(job[j].writes)
             r == [job[j] EXCEPT !.at = "cite"]
  <2>1. job[j].writes \in Seq(Evidence) /\ job[j].writes # <<>> /\ job[j].at = "collect"
    BY <1>4 DEF PutEvidence, TypeInv, RunState, At
  <2>2. e \in Evidence
    BY <2>1
  <2>3. evid' \in [Evidence -> EvidenceRow]
    BY <1>4, <2>2 DEF PutEvidence, TypeInv, Stored, EvidenceRow, Forms
  <2>4. r \in RunState /\ RunType(r)
    BY <2>1 DEF TypeInv, RunState, RunType, Places
  <2>5. job' = [job EXCEPT ![j] = r]
    BY <1>4 DEF PutEvidence, TypeInv
  <2> HIDE DEF r
  <2> QED BY <1>4, <2>3, <2>4, <2>5, OneJobMoved DEF PutEvidence, TypeInv
<1>5. ASSUME NEW j \in Jobs, CiteEvidence(j)
      PROVE  TypeInv'
  <2> DEFINE r == [job[j] EXCEPT !.writes = Tail(@), !.at = "collect"]
  <2>1. /\ job[j].writes \in Seq(Evidence) /\ job[j].writes # <<>>
        /\ job[j].planned \in Seq(Candidates) /\ job[j].planned # <<>>
    BY <1>5 DEF CiteEvidence, TypeInv, RunState, RunType, At
  <2>2. /\ Head(job[j].writes) \in Evidence /\ Tail(job[j].writes) \in Seq(Evidence)
        /\ Last(job[j].planned) \in Candidates
    BY <2>1 DEF Last
  <2>3. refs' \subseteq Citations
    BY <1>5, <2>2 DEF CiteEvidence, TypeInv, WithRefs, Citations
  <2>4. r \in RunState /\ RunType(r)
    BY <1>5, <2>1, <2>2 DEF CiteEvidence, TypeInv, RunState, RunType, Places, At
  <2>5. job' = [job EXCEPT ![j] = r]
    BY <1>5 DEF CiteEvidence, TypeInv
  <2> HIDE DEF r
  <2> QED BY <1>5, <2>3, <2>4, <2>5, OneJobMoved DEF CiteEvidence, TypeInv
<1>6. ASSUME NEW j \in Jobs, BuildPlan(j)
      PROVE  TypeInv'
  <2> DEFINE r == [Idle EXCEPT !.at = "planned"]
  <2>1. r \in RunState /\ RunType(r)
    BY NothingPlanned DEF Places
  <2>2. forecast' \in [Jobs -> Forecast]
    <3>1. Predicted(j) \subseteq Candidates /\ job[j].planned \in Seq(Candidates)
      BY DEF Predicted, TypeInv, RunState
    <3> QED BY <1>6, <3>1 DEF BuildPlan, TypeInv, Forecast
  <2> HIDE DEF r
  <2> QED BY <1>6, <2>1, <2>2, OneJobMoved DEF BuildPlan, TypeInv, r
<1>7. ASSUME NEW j \in Jobs, SubmitBatch(j)
      PROVE  TypeInv'
  <2> DEFINE D == Cardinality(InBatch(j))
             N == Len(Batch(j))
             r == [job[j] EXCEPT !.at = "submit", !.sent = @ + N,
                                 !.duplicates = @ + D]
  <2>1. /\ D \in Nat /\ N \in Nat /\ D <= N /\ life' \in [Candidates -> Stages]
        /\ job' = [job EXCEPT ![j].at = "submit", ![j].sent = @ + N, ![j].duplicates = @ + D]
        /\ job[j].sent + N <= Len(job[j].planned)
    BY <1>7, Submission, BatchIsNext
  <2> HIDE DEF D, N
  <2>2. r \in RunState /\ RunType(r)
    <3>1. /\ job[j] \in RunState /\ RunType(job[j]) /\ job[j].at \in {"collect", "submit"}
          /\ job[j].writes = <<>> /\ job[j].left = <<>>
      BY <1>7 DEF TypeInv, RunType, SubmitBatch, Submitting, Collected, At
    <3>2. /\ r.at = "submit" /\ r.left = job[j].left /\ r.writes = job[j].writes
          /\ r.planned = job[j].planned /\ r.seen = job[j].seen
          /\ r.sent = job[j].sent + N /\ r.duplicates = job[j].duplicates + D
      BY <3>1 DEF RunState
    <3>3. /\ job[j].sent \in Nat /\ job[j].duplicates \in Nat
          /\ job[j].duplicates <= job[j].sent /\ Len(job[j].planned) \in Nat
      BY <3>1 DEF RunState, RunType
    <3>4. job[j].sent + N \in Nat /\ job[j].duplicates + D \in Nat /\ job[j] \in RunState
      BY <2>1, <3>1, <3>3
    <3>5. r \in RunState
      BY <3>4 DEF RunState, Places
    <3> HIDE DEF r
    <3> QED BY <2>1, <3>1, <3>2, <3>3, <3>5 DEF RunType
  <2>3. forecast' \in [Jobs -> Forecast]
    BY <1>7 DEF SubmitBatch, LedgerMoved, TypeInv, Forecast, NoForecast
  <2>4. job' = [job EXCEPT ![j] = r]
    BY <2>1 DEF TypeInv
  <2> HIDE DEF r
  <2> QED BY <1>7, <2>1, <2>2, <2>3, <2>4, OneJobMoved DEF SubmitBatch, TypeInv
<1>8. ASSUME NEW j \in Jobs, Finish(j)
      PROVE  TypeInv'
  <2> DEFINE r == [job[j] EXCEPT !.at = "done"]
  <2>1. r \in RunState /\ RunType(r)
    BY <1>8 DEF Finish, TypeInv, RunState, RunType, Places, Submitting, Collected, At
  <2>2. job' = [job EXCEPT ![j] = r]
    BY <1>8 DEF Finish, TypeInv
  <2> HIDE DEF r
  <2> QED BY <1>8, <2>1, <2>2, OneJobMoved DEF Finish, TypeInv
<1>9. ASSUME NEW j \in Jobs, Abort(j)
      PROVE  TypeInv'
  <2> DEFINE r == [Idle EXCEPT !.at = "aborted"]
  <2>1. r \in RunState /\ RunType(r)
    BY NothingPlanned DEF Places
  <2>2. faults' \in 0..MaxFaults
    BY <1>9, BoundAssumption DEF Abort, TypeInv
  <2> HIDE DEF r
  <2> QED BY <1>9, <2>1, <2>2, OneJobMoved DEF Abort, TypeInv, r
<1>10. ASSUME NEW x \in Candidates, Revoke(x)
       PROVE  TypeInv'
  BY <1>10 DEF Revoke, TypeInv, Stages, LedgerMoved, Forecast, NoForecast
<1>11. ASSUME NEW x \in Candidates, Erase(x)
       PROVE  TypeInv'
  BY <1>11 DEF Erase, TypeInv, Stages, LedgerMoved, Forecast, NoForecast, WithoutSubject,
               Redacted, EvidenceRow, Forms
<1>12. CASE UNCHANGED vars
  BY <1>12 DEF vars, TypeInv
<1> QED BY <1>1, <1>2, <1>3, <1>4, <1>5, <1>6, <1>7, <1>8, <1>9, <1>10, <1>11, <1>12
        DEF Next, Step, Run, Plan

\* Initially nothing has run.
LEMMA TypeInit ==
  ASSUME Init
  PROVE  TypeInv
<1>1. Idle \in RunState /\ RunType(Idle)
  BY DEF Idle, RunState, RunType, Places, KeysOf
<1>2. NoForecast \in Forecast /\ faults \in 0..MaxFaults
  BY BoundAssumption DEF Init, NoForecast, Forecast
<1> QED BY <1>1, <1>2 DEF Init, TypeInv, Stages, EvidenceRow, Forms

\* The state is well-typed: keys are reserved for exactly what is planned, and
\* no run sends more than it planned, or counts more duplicates than it sent.
THEOREM IngestTypeCorrect == Spec => []TypeOK
<1>1. TypeInv => TypeOK
  <2> SUFFICES ASSUME TypeInv PROVE TypeOK
    OBVIOUS
  <2>1. ASSUME NEW j \in Jobs
        PROVE  /\ job[j] \in RunState /\ RunType(job[j])
               /\ Len(job[j].planned) \in Nat
    BY DEF TypeInv, RunState
  <2> QED BY <2>1 DEF TypeOK, TypeInv, RunState, RunType, Places, KeysOf
<1> QED BY <1>1, TypeInit, TypeStep, PTL DEF Spec

-----------------------------------------------------------------------------
(* Every key is planned once *)

\* A run that plans and has left what it had, keeps its keys.
LEMMA KeysKept ==
  ASSUME TypeInv, KeysInv, NEW j \in Jobs,
         job'[j].planned = job[j].planned, job'[j].left = job[j].left,
         job'[j].incomplete = job[j].incomplete,
         job[j].at \in {"collect", "cite", "submit", "done"},
         job'[j].at = "done" => job'[j].sent = Len(job'[j].planned)
  PROVE  RunKeys(j)'
BY DEF KeysInv, RunKeys

\* A run that has just been given up or has not begun has planned nothing.
LEMMA KeysOfNothing ==
  ASSUME NEW j \in Jobs, job'[j].planned = <<>>,
         job'[j].at \notin {"collect", "cite", "submit", "done"}
  PROVE  RunKeys(j)'
BY DEF RunKeys

\* A job that does not move keeps its keys.
LEMMA KeysElsewhere ==
  ASSUME TypeInv, KeysInv, NEW j \in Jobs, NEW r, job' = [job EXCEPT ![j] = r], RunKeys(j)'
  PROVE  KeysInv'
<1> SUFFICES ASSUME NEW k \in Jobs, k # j PROVE RunKeys(k)'
  BY DEF KeysInv
<1>1. job'[k] = job[k]
  BY DEF TypeInv
<1> QED BY <1>1 DEF KeysInv, RunKeys

\* Of the keys to come, the one looked at is the first.
LEMMA KeyLookedAt ==
  ASSUME TypeInv, NEW j \in Jobs, Collecting(j)
  PROVE  ValidKeys(job[j].left) =
           ValidKeys(Tail(job[j].left))
           \cup (IF Next1(j).valid THEN {KeyOf[Next1(j).cand]} ELSE {})
<1>1. ToSet(job[j].left) = {Next1(j)} \cup ToSet(Tail(job[j].left))
  BY LookedAt
<1> QED BY <1>1 DEF ValidKeys

\* Each step keeps the keys of the job that takes it.
LEMMA KeysStep ==
  ASSUME TypeInv, KeysInv, [Next]_vars
  PROVE  KeysInv'
<1> USE DEF TypeInv
<1>1. ASSUME NEW j \in Jobs, NEW mode \in {"run", "plan"},
             NEW delivered \in Deliveries(j), Start(j, mode, delivered)
      PROVE  KeysInv'
  <2> DEFINE r == [Idle EXCEPT !.at = "collect", !.mode = mode,
                               !.left = FlattenSeq(delivered),
                               !.incomplete = delivered # Work[j]]
  <2>1. job' = [job EXCEPT ![j] = r]
    BY <1>1 DEF Start
  <2>2. job'[j] = r
    BY <2>1
  <2>3. /\ r.planned = <<>> /\ r.at = "collect" /\ r.left = FlattenSeq(delivered)
        /\ r.incomplete = (delivered # Work[j])
    BY DEF Idle
  <2> HIDE DEF r
  <2>4. RunKeys(j)'
    <3>1. KeysOf(<<>>) = {} /\ DOMAIN (<<>>) = {}
      BY DEF KeysOf
    <3> QED BY <2>2, <2>3, <3>1 DEF RunKeys
  <2> QED BY <2>1, <2>4, KeysElsewhere
<1>2. ASSUME NEW j \in Jobs, Suppress(j) \/ Reject(j)
      PROVE  KeysInv'
  <2> DEFINE r == [job[j] EXCEPT !.left = Tail(@)]
  <2>1. Collecting(j) /\ job' = [job EXCEPT ![j] = r]
    BY <1>2 DEF Suppress, Reject
  <2>2. /\ job'[j].planned = job[j].planned /\ job'[j].left = Tail(job[j].left)
        /\ job'[j].incomplete = job[j].incomplete
        /\ job[j].at = "collect" /\ job'[j].at = "collect"
    BY <2>1 DEF RunState, Collecting, At
  <2>3. KeysOf(job[j].planned) \cup ValidKeys(job[j].left) =
          KeysOf(job[j].planned) \cup ValidKeys(Tail(job[j].left))
    <3>1. KeyOf[Next1(j).cand] \in KeysOf(job[j].planned) \/ ~Next1(j).valid
      BY <1>2 DEF Suppress, Reject, RunType
    <3> QED BY <2>1, <3>1, KeyLookedAt
  <2>4. RunKeys(j)'
    BY <2>2, <2>3 DEF KeysInv, RunKeys
  <2> HIDE DEF r
  <2> QED BY <2>1, <2>4, KeysElsewhere
<1>3. ASSUME NEW j \in Jobs, Admit(j)
      PROVE  KeysInv'
  <2> DEFINE x == Next1(j).cand
             P == job[j].planned
             r == [job[j] EXCEPT !.left = Tail(@), !.seen = @ \cup {KeyOf[x]},
                                 !.planned = Append(@, x),
                                 !.writes = IF j \in Passages /\ job[j].mode = "run"
                                              THEN Next1(j).evidence ELSE <<>>]
  <2>1. Collecting(j) /\ job' = [job EXCEPT ![j] = r]
    BY <1>3 DEF Admit
  <2>2. /\ job'[j].planned = Append(P, x) /\ job'[j].left = Tail(job[j].left)
        /\ job'[j].incomplete = job[j].incomplete
        /\ job[j].at = "collect" /\ job'[j].at = "collect"
    BY <2>1 DEF RunState, Collecting, At
  <2>3. P \in Seq(Candidates) /\ x \in Candidates
    BY <2>1, LookedAt DEF RunState
  <2>4. Next1(j).valid /\ KeyOf[x] \notin KeysOf(P)
    BY <1>3 DEF Admit, RunType
  <2>5. KeysOf(P) \cup ValidKeys(job[j].left) =
          KeysOf(Append(P, x)) \cup ValidKeys(Tail(job[j].left))
    <3>1. KeysOf(Append(P, x)) = KeysOf(P) \cup {KeyOf[x]}
      <4> HIDE DEF x, P
      <4> QED BY <2>3, Planned
    <3>2. ValidKeys(job[j].left) = ValidKeys(Tail(job[j].left)) \cup {KeyOf[x]}
      BY <2>1, <2>4, KeyLookedAt
    <3> QED BY <3>1, <3>2
  <2>6. \A m, n \in DOMAIN Append(P, x) :
          KeyOf[Append(P, x)[m]] = KeyOf[Append(P, x)[n]] => m = n
    <3>1. \A m \in DOMAIN P : KeyOf[P[m]] # KeyOf[x]
      BY <2>4 DEF KeysOf
    <3>2. \A m, n \in DOMAIN P : KeyOf[P[m]] = KeyOf[P[n]] => m = n
      BY DEF KeysInv, RunKeys
    <3> HIDE DEF x, P
    <3>3. /\ DOMAIN Append(P, x) = DOMAIN P \cup {Len(P) + 1}
          /\ \A i \in DOMAIN P : Append(P, x)[i] = P[i]
          /\ Append(P, x)[Len(P) + 1] = x
      BY <2>3, Planned
    <3> QED BY <3>1, <3>2, <3>3
  <2>7. RunKeys(j)'
    <3> HIDE DEF x
    <3> QED BY <2>2, <2>5, <2>6 DEF KeysInv, RunKeys
  <2> HIDE DEF r
  <2> QED BY <2>1, <2>7, KeysElsewhere
<1>4. ASSUME NEW j \in Jobs, PutEvidence(j) \/ CiteEvidence(j) \/ SubmitBatch(j)
      PROVE  KeysInv'
  <2>1. PICK r \in RunState : job' = [job EXCEPT ![j] = r]
    <3>1. job' \in [Jobs -> RunState]
      BY <1>4, TypeStep DEF Next, Step
    <3>2. \A k \in Jobs : k # j => job'[k] = job[k]
      BY <1>4 DEF PutEvidence, CiteEvidence, SubmitBatch
    <3>3. job' = [job EXCEPT ![j] = job'[j]]
      BY <3>1, <3>2
    <3> QED BY <3>1, <3>3
  <2>2. /\ job'[j].planned = job[j].planned /\ job'[j].left = job[j].left
        /\ job'[j].incomplete = job[j].incomplete /\ job'[j].at # "done"
    <3>1. CASE PutEvidence(j)
      BY <3>1 DEF RunState, PutEvidence
    <3>2. CASE CiteEvidence(j)
      BY <3>2 DEF RunState, CiteEvidence
    <3>3. CASE SubmitBatch(j)
      BY <3>3 DEF RunState, SubmitBatch
    <3> QED BY <1>4, <3>1, <3>2, <3>3
  <2>3. job[j].at \in {"collect", "cite", "submit"}
    BY <1>4 DEF PutEvidence, CiteEvidence, SubmitBatch, Submitting, Collected, At
  <2>4. RunKeys(j)'
    BY <2>2, <2>3, KeysKept
  <2> QED BY <2>1, <2>4, KeysElsewhere
<1>5. ASSUME NEW j \in Jobs, BuildPlan(j) \/ Abort(j)
      PROVE  KeysInv'
  <2>1. PICK r \in {[Idle EXCEPT !.at = "planned"], [Idle EXCEPT !.at = "aborted"]} :
          job' = [job EXCEPT ![j] = r]
    BY <1>5 DEF BuildPlan, Abort
  <2>2. job'[j] = r
    BY <2>1
  <2>3. r.planned = <<>> /\ r.at \in {"planned", "aborted"}
    BY DEF Idle
  <2>4. RunKeys(j)'
    BY <2>2, <2>3, KeysOfNothing
  <2> QED BY <2>1, <2>4, KeysElsewhere
<1>6. ASSUME NEW j \in Jobs, Finish(j)
      PROVE  KeysInv'
  <2> DEFINE r == [job[j] EXCEPT !.at = "done"]
  <2>1. job' = [job EXCEPT ![j] = r]
    BY <1>6 DEF Finish
  <2>2. /\ job'[j].planned = job[j].planned /\ job'[j].left = job[j].left
        /\ job'[j].incomplete = job[j].incomplete /\ job'[j].sent = job[j].sent
    BY <2>1 DEF RunState
  <2>3. job[j].at \in {"collect", "submit"} /\ Unsent(j) = <<>>
    BY <1>6 DEF Finish, Submitting, Collected, At
  <2>4. job[j].sent = Len(job[j].planned)
    BY <2>3, BatchIsNext
  <2>5. RunKeys(j)'
    BY <2>2, <2>3, <2>4, KeysKept
  <2> HIDE DEF r
  <2> QED BY <2>1, <2>5, KeysElsewhere
<1>7. ASSUME UNCHANGED job
      PROVE  KeysInv'
  BY <1>7 DEF KeysInv, RunKeys
<1> QED BY <1>1, <1>2, <1>3, <1>4, <1>5, <1>6, <1>7
        DEF Next, Step, Run, Plan, Revoke, Erase, vars

\* Whatever else runs, and whatever fails in between, a run plans each key
\* once, and when it is done over a source that delivered everything it has
\* planned every key of which there was an acceptable candidate.
THEOREM KeysPlannedOnce == Spec => []EveryKeyPlannedOnce
<1>1. Init => KeysInv
  BY DEF Init, Idle, KeysInv, RunKeys
<1>2. TypeInv /\ KeysInv => EveryKeyPlannedOnce
  <2> SUFFICES ASSUME TypeInv, KeysInv, NEW j \in Jobs, At(j, "done"), ~job[j].incomplete
               PROVE  { KeyOf[job[j].planned[n]] : n \in DOMAIN job[j].planned } =
                      { KeyOf[b.cand] : b \in { c \in ToSet(FlattenSeq(Work[j])) : c.valid } }
    BY DEF EveryKeyPlannedOnce, KeysInv, RunKeys
  <2>1. job[j].left = <<>>
    BY DEF TypeInv, RunType, At
  <2>2. ValidKeys(<<>>) = {}
    BY DEF ValidKeys, ToSet
  <2> QED BY <2>1, <2>2 DEF KeysInv, RunKeys, At, KeysOf, ValidKeys
<1> QED BY <1>1, <1>2, TypeInit, TypeStep, KeysStep, PTL DEF Spec

-----------------------------------------------------------------------------
(* Submitting *)

\* Rows that are there stay as they are when a prefix of a batch is sent, the
\* others become live only by being sent.
OnlySentGrow(lives, batch, n) ==
  LET after == AfterEach(lives, batch)[n] IN
  \A x \in Candidates :
    after[x] # lives[x] =>
      lives[x] = "absent" /\ after[x] = "live" /\ \E i \in 1..n : batch[i] = x

\* Whoever shares no key with what was sent is the duplicate it was.
OthersAreAsBefore(lives, batch, n) ==
  \A x \in Candidates :
    (\A i \in 1..n : KeyOf[batch[i]] # KeyOf[x]) =>
      (Duplicate(AfterEach(lives, batch)[n], x) <=> Duplicate(lives, x))

\* What a prefix of a batch does to the ledger.
LEMMA SentPrefix ==
  ASSUME NEW lives \in [Candidates -> Stages], NEW batch \in Seq(Candidates),
         NEW n \in 0..Len(batch)
  PROVE  /\ AfterEach(lives, batch)[n] \in [Candidates -> Stages]
         /\ OnlySentGrow(lives, batch, n)
         /\ OthersAreAsBefore(lives, batch, n)
<1> DEFINE A == AfterEach(lives, batch)
           N == Len(batch)
           Grew(m) == \A x \in Candidates :
                        A[m][x] # lives[x] =>
                          /\ lives[x] = "absent" /\ A[m][x] = "live"
                          /\ \E i \in 1..m : batch[i] = x
           T == { m \in 0..N : Grew(m) }
<1>1. /\ A \in [0..N -> [Candidates -> Stages]] /\ A[0] = lives
      /\ \A m \in 1..N : A[m] = Received(A[m - 1], batch[m])
  BY AfterEachUnfolds
<1>2. N \in Nat /\ \A m \in 1..N : batch[m] \in Candidates
  OBVIOUS
<1> HIDE DEF A, N
<1>3. 0 \in T
  BY <1>1, <1>2
<1>4. ASSUME NEW m \in 1..N, m - 1 \in T
      PROVE  m \in T
  <2>1. /\ A[m] = Received(A[m - 1], batch[m]) /\ Grew(m - 1)
        /\ A[m - 1] \in [Candidates -> Stages] /\ batch[m] \in Candidates
    BY <1>1, <1>2, <1>4
  <2>2. ASSUME NEW x \in Candidates, A[m][x] # lives[x]
        PROVE  lives[x] = "absent" /\ A[m][x] = "live" /\ \E i \in 1..m : batch[i] = x
    <3>1. CASE A[m][x] = A[m - 1][x]
      <4>1. lives[x] = "absent" /\ A[m][x] = "live" /\ \E i \in 1..m-1 : batch[i] = x
        BY <2>1, <2>2, <3>1
      <4> QED BY <4>1
    <3>2. CASE A[m][x] # A[m - 1][x]
      <4>1. x = batch[m] /\ ~Duplicate(A[m - 1], x) /\ A[m][x] = "live"
        BY <2>1, <3>2 DEF Received
      <4>2. A[m - 1][x] = "absent"
        BY <4>1 DEF Duplicate
      <4>3. lives[x] = "absent"
        BY <2>1, <4>2
      <4> QED BY <4>1, <4>3
    <3> QED BY <3>1, <3>2
  <2> QED BY <2>2
<1>5. \A m \in 0..N : m \in T
  <2> HIDE DEF T
  <2> QED BY <1>2, <1>3, <1>4, InductionUpTo
<1>6. n \in 0..N
  BY DEF N
<1>7. A[n] \in [Candidates -> Stages] /\ Grew(n)
  BY <1>1, <1>5, <1>6
<1>8. ASSUME NEW x \in Candidates, \A i \in 1..n : KeyOf[batch[i]] # KeyOf[x]
      PROVE  Duplicate(A[n], x) <=> Duplicate(lives, x)
  <2>1. \A y \in Candidates : KeyOf[y] = KeyOf[x] => A[n][y] = lives[y]
    BY <1>7, <1>8
  <2> QED BY <2>1 DEF Duplicate
<1> QED BY <1>7, <1>8 DEF A, OnlySentGrow, OthersAreAsBefore

\* No step makes a candidate absent, or takes a citation from one that is.
LEMMA OnceKnown ==
  ASSUME TypeInv, [Next]_vars, NEW x \in Candidates
  PROVE  /\ life'[x] = "absent" => life[x] = "absent"
         /\ life'[x] = "absent" => CitedBy(refs, x) \subseteq CitedBy(refs', x)
<1> USE DEF TypeInv
<1>1. ASSUME NEW j \in Jobs, SubmitBatch(j)
      PROVE  life'[x] # life[x] => life[x] = "absent" /\ life'[x] = "live"
  <2>1. /\ Batch(j) \in Seq(Candidates) /\ life' = AfterEach(life, Batch(j))[Len(Batch(j))]
        /\ Len(Batch(j)) \in 0..Len(Batch(j))
    <3>1. Batch(j) \in Seq(Candidates)
      BY BatchIsNext
    <3>2. life' = AfterEach(life, Batch(j))[Len(Batch(j))] /\ Len(Batch(j)) \in Nat
      BY <1>1, Submission DEF After
    <3> QED BY <3>1, <3>2
  <2>2. OnlySentGrow(life, Batch(j), Len(Batch(j)))
    BY <2>1, SentPrefix
  <2> QED BY <2>1, <2>2 DEF OnlySentGrow
<1>2. ASSUME NEW j \in Jobs, Run(j) \/ Plan(j) \/ Step(j) \/ Abort(j), ~SubmitBatch(j)
      PROVE  life' = life /\ refs \subseteq refs'
  BY <1>2 DEF Run, Plan, Step, Start, Suppress, Reject, Admit, PutEvidence, CiteEvidence,
              BuildPlan, Finish, Abort, WithRefs
<1>3. ASSUME NEW j \in Jobs, SubmitBatch(j)
      PROVE  refs' = refs
  BY <1>3 DEF SubmitBatch
<1>4. ASSUME NEW y \in Candidates, Revoke(y)
      PROVE  /\ life' = [life EXCEPT ![y] = "revoked"] /\ life[y] = "live" /\ refs' = refs
  BY <1>4 DEF Revoke
<1>5. ASSUME NEW y \in Candidates, Erase(y)
      PROVE  /\ life' = [life EXCEPT ![y] = "erased"] /\ life[y] \in {"live", "revoked"}
             /\ \A e \in Evidence : x # y /\ <<x, e>> \in refs => <<x, e>> \in refs'
  BY <1>5 DEF Erase, WithoutSubject
<1>6. CASE \E j \in Jobs : SubmitBatch(j)
  BY <1>1, <1>3, <1>6 DEF CitedBy
<1>7. CASE \E j \in Jobs : (Run(j) \/ Plan(j) \/ Step(j) \/ Abort(j)) /\ ~SubmitBatch(j)
  BY <1>2, <1>7 DEF CitedBy
<1>8. CASE \E y \in Candidates : Revoke(y)
  BY <1>4, <1>8 DEF CitedBy
<1>9. CASE \E y \in Candidates : Erase(y)
  BY <1>5, <1>9 DEF CitedBy
<1>10. CASE UNCHANGED vars
  BY <1>10 DEF vars
<1> QED BY <1>6, <1>7, <1>8, <1>9, <1>10 DEF Next

-----------------------------------------------------------------------------
(* Citing *)

\* What is cited, or about to be, after a step in which a run moves no further.
LEMMA CitesKept ==
  ASSUME TypeInv, CitesInv, [Next]_vars, NEW j \in Passages,
         job'[j].planned = job[j].planned, job'[j].mode = job[j].mode,
         ToSet(job'[j].left) \subseteq ToSet(job[j].left),
         job'[j].planned # <<>> =>
           ToSet(job[j].writes) \subseteq
             ToSet(job'[j].writes) \cup CitedBy(refs', Last(job[j].planned))
  PROVE  RunCites(j)'
<1> DEFINE r == job[j]
           whole == ToSet(FlattenSeq(Work[j]))
<1>1. j \in Jobs
  BY JobsAssumption
<1>2. ToSet(job'[j].left) \subseteq whole
  BY DEF CitesInv, RunCites
<1>3. r.planned \in Seq(Candidates)
  BY <1>1 DEF TypeInv, RunState
<1>4. ASSUME r.mode = "run", NEW n \in DOMAIN r.planned, life'[r.planned[n]] = "absent"
      PROVE  \E b \in whole : /\ b.cand = r.planned[n] /\ b.valid
                              /\ ToSet(b.evidence) \subseteq Citing(refs', job'[j], n)
  <2>1. r.planned[n] \in Candidates /\ r.planned # <<>>
    BY <1>3
  <2>2. /\ life[r.planned[n]] = "absent"
        /\ CitedBy(refs, r.planned[n]) \subseteq CitedBy(refs', r.planned[n])
    BY <1>4, <2>1, OnceKnown
  <2>3. PICK b \in whole : /\ b.cand = r.planned[n] /\ b.valid
                           /\ ToSet(b.evidence) \subseteq Citing(refs, r, n)
    BY <1>4, <2>2 DEF CitesInv, RunCites
  <2>4. Citing(refs, r, n) \subseteq Citing(refs', job'[j], n)
    <3>1. n = Len(r.planned) => r.planned[n] = Last(r.planned)
      BY DEF Last
    <3> QED BY <2>1, <2>2, <3>1 DEF Citing
  <2> QED BY <2>3, <2>4
<1> QED BY <1>2, <1>4 DEF RunCites

\* A run that has planned nothing has nothing to cite.
LEMMA CitesOfNothing ==
  ASSUME NEW j \in Passages, job'[j].planned = <<>>,
         ToSet(job'[j].left) \subseteq ToSet(FlattenSeq(Work[j]))
  PROVE  RunCites(j)'
BY DEF RunCites

\* A run that admits a candidate has its evidence still to cite.
LEMMA AdmitCites ==
  ASSUME TypeInv, CitesInv, NEW j \in Passages, Admit(j)
  PROVE  RunCites(j)'
<1> DEFINE x == Next1(j).cand
           P == job[j].planned
           whole == ToSet(FlattenSeq(Work[j]))
           N == Len(P) + 1
<1>1. j \in Jobs /\ Collecting(j)
  BY JobsAssumption DEF Admit
<1>2. P \in Seq(Candidates) /\ job[j].writes = <<>>
  BY <1>1 DEF TypeInv, RunState, Collecting
<1>3. /\ x \in Candidates /\ Next1(j) \in ToSet(job[j].left)
      /\ ToSet(Tail(job[j].left)) \subseteq ToSet(job[j].left)
  BY <1>1, LookedAt
<1>4. /\ job'[j].planned = Append(P, x) /\ job'[j].left = Tail(job[j].left)
      /\ job'[j].mode = job[j].mode /\ Next1(j).valid
      /\ job[j].mode = "run" => job'[j].writes = Next1(j).evidence
      /\ life' = life /\ refs' = refs
  BY <1>1 DEF Admit, TypeInv, RunState
<1>5. ToSet(job[j].left) \subseteq whole
  BY DEF CitesInv, RunCites
<1>6. /\ DOMAIN Append(P, x) = DOMAIN P \cup {N} /\ Len(Append(P, x)) = N
      /\ \A i \in DOMAIN P : Append(P, x)[i] = P[i] /\ i # N
      /\ Append(P, x)[N] = x
  <2> HIDE DEF x, P
  <2> QED BY <1>2, <1>3, Planned
<1> HIDE DEF x, P, N
<1>7. ASSUME job[j].mode = "run", NEW n \in DOMAIN P, life[P[n]] = "absent"
      PROVE  \E b \in whole : /\ b.cand = P[n] /\ b.valid
                              /\ ToSet(b.evidence) \subseteq Citing(refs, job'[j], n)
  <2>1. PICK b \in whole : /\ b.cand = P[n] /\ b.valid
                           /\ ToSet(b.evidence) \subseteq Citing(refs, job[j], n)
    BY <1>7 DEF CitesInv, RunCites, P
  <2>2. Citing(refs, job[j], n) = CitedBy(refs, P[n])
    BY <1>2 DEF Citing, ToSet, P
  <2>3. job'[j].planned[n] = P[n]
    BY <1>4, <1>6
  <2> QED BY <2>1, <2>2, <2>3 DEF Citing
<1>8. job[j].mode = "run" => ToSet(Next1(j).evidence) \subseteq Citing(refs, job'[j], N)
  BY <1>4, <1>6 DEF Citing
<1>9. ASSUME job'[j].mode = "run", NEW n \in DOMAIN job'[j].planned,
             life'[job'[j].planned[n]] = "absent"
      PROVE  \E b \in whole : /\ b.cand = job'[j].planned[n] /\ b.valid
                              /\ ToSet(b.evidence) \subseteq Citing(refs', job'[j], n)
  <2>1. CASE n = N
    BY <1>3, <1>4, <1>5, <1>6, <1>8, <1>9, <2>1 DEF x
  <2>2. CASE n # N
    <3>1. n \in DOMAIN P /\ job'[j].planned[n] = P[n] /\ life[P[n]] = "absent"
      BY <1>4, <1>6, <1>9, <2>2
    <3> QED BY <1>4, <1>7, <1>9, <3>1
  <2> QED BY <2>1, <2>2
<1> QED BY <1>3, <1>4, <1>5, <1>9 DEF RunCites

\* A run that cites a piece of evidence has one less to cite.
LEMMA CiteCites ==
  ASSUME TypeInv, CitesInv, NEW j \in Passages, CiteEvidence(j)
  PROVE  RunCites(j)'
<1> DEFINE w == job[j].writes
<1>1. j \in Jobs
  BY JobsAssumption
<1>2. w \in Seq(Evidence) /\ w # <<>>
  BY <1>1 DEF TypeInv, RunState, RunType, CiteEvidence, At
<1>3. /\ job'[j].planned = job[j].planned /\ job'[j].mode = job[j].mode
      /\ job'[j].left = job[j].left /\ job'[j].writes = Tail(w)
      /\ refs' = refs \cup ({Last(job[j].planned)} \X {Head(w)})
  BY <1>1 DEF CiteEvidence, TypeInv, RunState, WithRefs
<1>4. ToSet(w) = {Head(w)} \cup ToSet(Tail(w)) /\ Head(w) \in Evidence
  <2> HIDE DEF w
  <2>1. /\ Head(w) = w[1] /\ Len(w) \in Nat /\ Len(w) > 0 /\ DOMAIN w = 1..Len(w)
        /\ DOMAIN Tail(w) = 1..Len(w) - 1
        /\ \A i \in 1..Len(w) - 1 : Tail(w)[i] = w[i + 1]
        /\ Head(w) \in Evidence
    BY <1>2, HeadTailProperties
  <2>2. \A i \in DOMAIN w : i = 1 \/ (i - 1 \in DOMAIN Tail(w) /\ w[i] = Tail(w)[i - 1])
    BY <2>1
  <2>3. \A i \in DOMAIN Tail(w) : i + 1 \in DOMAIN w /\ Tail(w)[i] = w[i + 1]
    BY <2>1
  <2>4. ToSet(w) \subseteq {Head(w)} \cup ToSet(Tail(w))
    BY <2>1, <2>2 DEF ToSet
  <2>5. {Head(w)} \cup ToSet(Tail(w)) \subseteq ToSet(w)
    BY <2>1, <2>3 DEF ToSet
  <2> QED BY <2>1, <2>4, <2>5
<1>5. Head(w) \in CitedBy(refs', Last(job[j].planned))
  BY <1>3, <1>4 DEF CitedBy
<1>6. [Next]_vars
  BY <1>1 DEF Next, Step
<1> HIDE DEF w
<1>7. ToSet(w) \subseteq ToSet(job'[j].writes) \cup CitedBy(refs', Last(job[j].planned))
  BY <1>3, <1>4, <1>5
<1> QED BY <1>3, <1>6, <1>7, CitesKept DEF w

\* Every step keeps what the extraction runs have cited or are about to.
LEMMA CitesStep ==
  ASSUME TypeInv, CitesInv, [Next]_vars
  PROVE  CitesInv'
<1> SUFFICES ASSUME NEW p \in Passages PROVE RunCites(p)'
  BY DEF CitesInv
<1> p \in Jobs
  BY JobsAssumption
<1>1. ASSUME job'[p] = job[p]
      PROVE  RunCites(p)'
  BY <1>1, CitesKept
<1>2. ASSUME NEW mode \in {"run", "plan"}, NEW delivered \in Deliveries(p),
             Start(p, mode, delivered)
      PROVE  RunCites(p)'
  <2>1. job'[p].planned = <<>> /\ job'[p].left = FlattenSeq(delivered)
    BY <1>2 DEF Start, TypeInv, Idle
  <2> QED BY <2>1, DeliveredWork, CitesOfNothing
<1>3. ASSUME Suppress(p) \/ Reject(p)
      PROVE  RunCites(p)'
  <2>1. /\ job'[p].planned = job[p].planned /\ job'[p].mode = job[p].mode
        /\ job'[p].left = Tail(job[p].left) /\ job'[p].writes = job[p].writes
        /\ Collecting(p)
    <3>1. /\ job' = [job EXCEPT ![p].left = Tail(@)] /\ Collecting(p)
      BY <1>3 DEF Suppress, Reject
    <3> QED BY <3>1 DEF TypeInv, RunState
  <2>2. ToSet(Tail(job[p].left)) \subseteq ToSet(job[p].left)
    BY <2>1, LookedAt
  <2> QED BY <2>1, <2>2, CitesKept
<1>4. ASSUME PutEvidence(p) \/ SubmitBatch(p) \/ Finish(p)
      PROVE  RunCites(p)'
  <2>1. /\ job'[p].planned = job[p].planned /\ job'[p].mode = job[p].mode
        /\ job'[p].left = job[p].left /\ job'[p].writes = job[p].writes
    BY <1>4 DEF PutEvidence, SubmitBatch, Finish, TypeInv, RunState
  <2> QED BY <2>1, CitesKept
<1>5. ASSUME BuildPlan(p) \/ Abort(p)
      PROVE  RunCites(p)'
  <2>1. job'[p].planned = <<>> /\ job'[p].left = <<>>
    BY <1>5 DEF BuildPlan, Abort, TypeInv, Idle
  <2>2. ToSet(<<>>) = {}
    BY DEF ToSet
  <2> QED BY <2>1, <2>2, CitesOfNothing
<1>6. ASSUME NEW k \in Jobs, k # p, Run(k) \/ Plan(k) \/ Step(k) \/ Abort(k)
      PROVE  job'[p] = job[p]
  BY <1>6 DEF TypeInv, Run, Plan, Step, Start, Suppress, Reject, Admit, PutEvidence,
              CiteEvidence, BuildPlan, SubmitBatch, Finish, Abort
<1>7. ASSUME (\E x \in Candidates : Revoke(x) \/ Erase(x)) \/ UNCHANGED vars
      PROVE  job'[p] = job[p]
  BY <1>7 DEF Revoke, Erase, vars
<1>8. CASE Run(p) \/ Plan(p) \/ Step(p) \/ Abort(p)
  BY <1>2, <1>3, <1>4, <1>5, <1>8, AdmitCites, CiteCites DEF Run, Plan, Step
<1>9. CASE \E k \in Jobs : k # p /\ (Run(k) \/ Plan(k) \/ Step(k) \/ Abort(k))
  BY <1>1, <1>6, <1>9
<1> QED BY <1>1, <1>7, <1>8, <1>9 DEF Next

\* What an extraction run brings into the ledger was planned, and its evidence
\* is cited.
LEMMA BroughtInIsCited ==
  ASSUME TypeInv, CitesInv, NEW j \in Passages, SubmitBatch(j),
         NEW x \in Candidates, life[x] = "absent", life'[x] = "live"
  PROVE  \E b \in ToSet(FlattenSeq(Work[j])) :
           b.cand = x /\ b.valid /\ ToSet(b.evidence) \subseteq CitedBy(refs', x)
<1> DEFINE B == Batch(j)
           P == job[j].planned
           S == job[j].sent
<1>1. j \in Jobs
  BY JobsAssumption
<1>2. /\ B \in Seq(Candidates) /\ S + Len(B) <= Len(P)
      /\ \A i \in 1..Len(B) : B[i] = P[S + i]
      /\ life' = AfterEach(life, B)[Len(B)]
  BY <1>1, BatchIsNext, Submission DEF After
<1>3. /\ P \in Seq(Candidates) /\ S \in Nat /\ refs' = refs
      /\ job[j].writes = <<>> /\ job[j].mode = "run" /\ life \in [Candidates -> Stages]
  BY <1>1 DEF TypeInv, RunState, RunType, SubmitBatch, Submitting, Collected, At
<1>4. PICK i \in 1..Len(B) : B[i] = x
  <2> DEFINE L == Len(B)
  <2>1. L \in 0..Len(B) /\ life' = AfterEach(life, B)[L]
    BY <1>2
  <2>2. life'[x] # life[x]
    OBVIOUS
  <2> HIDE DEF B, P, S, L
  <2>3. \E i \in 1..L : B[i] = x
    <3>1. OnlySentGrow(life, B, L)
      BY <1>2, <1>3, <2>1, SentPrefix
    <3> QED BY <2>1, <2>2, <3>1 DEF OnlySentGrow
  <2> QED BY <2>3 DEF L
<1> HIDE DEF B
<1>5. S + i \in DOMAIN P /\ P[S + i] = x
  <2> HIDE DEF P, S
  <2> QED BY <1>2, <1>3, <1>4
<1>6. PICK b \in ToSet(FlattenSeq(Work[j])) :
        b.cand = x /\ b.valid /\ ToSet(b.evidence) \subseteq Citing(refs, job[j], S + i)
  BY <1>3, <1>5 DEF CitesInv, RunCites
<1>7. Citing(refs, job[j], S + i) = CitedBy(refs, x)
  BY <1>3, <1>5 DEF Citing, ToSet
<1> QED BY <1>3, <1>6, <1>7

\* An extraction run brings nothing into the ledger before all its evidence is
\* cited, also if it was redacted, uncited or ingested by others meanwhile.
THEOREM EvidenceBeforeLedger == Spec => ReceivedIsCited
<1>1. Init => CitesInv
  <2> SUFFICES ASSUME Init, NEW j \in Passages PROVE RunCites(j)
    BY DEF CitesInv
  <2>1. job[j].planned = <<>> /\ job[j].left = <<>>
    BY JobsAssumption DEF Init, Idle
  <2> QED BY <2>1 DEF RunCites, ToSet
<1>2. TypeInv /\ CitesInv /\ [Next]_vars =>
        [\A j \in Passages : job'[j].sent # job[j].sent =>
           \A x \in Candidates : life[x] = "absent" /\ life'[x] = "live" =>
             \E b \in ToSet(FlattenSeq(Work[j])) :
               b.cand = x /\ b.valid /\ ToSet(b.evidence) \subseteq CitedBy(refs', x)]_vars
  <2> SUFFICES ASSUME TypeInv, CitesInv, [Next]_vars, NEW j \in Passages,
                      job'[j].sent # job[j].sent, NEW x \in Candidates,
                      life[x] = "absent", life'[x] = "live"
               PROVE  \E b \in ToSet(FlattenSeq(Work[j])) :
                        b.cand = x /\ b.valid /\ ToSet(b.evidence) \subseteq CitedBy(refs', x)
    OBVIOUS
  <2>1. PICK k \in Jobs : SubmitBatch(k)
    BY DEF Next, Run, Plan, Step, Start, Suppress, Reject, Admit, PutEvidence, CiteEvidence,
           BuildPlan, Finish, Abort, Revoke, Erase, vars, TypeInv
  <2>2. k = j
    BY <2>1, JobsAssumption DEF SubmitBatch, TypeInv
  <2> QED BY <2>1, <2>2, BroughtInIsCited
<1> QED BY <1>1, <1>2, TypeInit, TypeStep, CitesStep, PTL DEF Spec, ReceivedIsCited

-----------------------------------------------------------------------------
(* Counting *)

CountsOn(M, N, E) ==
  Cardinality({ i \in 1..M + N : i \in E }) =
    Cardinality({ i \in 1..M : i \in E }) + Cardinality({ i \in 1..N : M + i \in E })

\* What is counted up to M and from there on is what is counted altogether.
LEMMA CountOn ==
  ASSUME NEW M \in Nat, NEW N \in Nat, NEW E
  PROVE  CountsOn(M, N, E)
<1> DEFINE U == { i \in 1..M : i \in E }
           V == { i \in M + 1..M + N : i \in E }
           W == { i \in 1..N : M + i \in E }
           f == [i \in W |-> M + i]
<1>1. IsFiniteSet(U) /\ IsFiniteSet(V) /\ IsFiniteSet(W)
  <2>1. /\ IsFiniteSet(1..M) /\ IsFiniteSet(1..N) /\ IsFiniteSet(M + 1..M + N)
    <3>1. 1 \in Int /\ M \in Int /\ N \in Int /\ M + 1 \in Int /\ M + N \in Int
      OBVIOUS
    <3> QED BY <3>1, FS_Interval
  <2>2. U \in SUBSET (1..M) /\ V \in SUBSET (M + 1..M + N) /\ W \in SUBSET (1..N)
    OBVIOUS
  <2> HIDE DEF U, V, W
  <2> QED BY <2>1, <2>2, FS_Subset
<1>2. ExistsBijection(W, V)
  <2>1. f \in [W -> V] /\ \A a, b \in W : f[a] = f[b] => a = b
    OBVIOUS
  <2>2. ASSUME NEW v \in V
        PROVE  \E w \in W : f[w] = v
    <3>1. v - M \in W /\ f[v - M] = v
      OBVIOUS
    <3> QED BY <3>1
  <2> HIDE DEF f, V, W
  <2>3. f \in Bijection(W, V)
    BY <2>1, <2>2, Fun_IsBij
  <2> QED BY <2>3 DEF ExistsBijection
<1>3. Cardinality(V) = Cardinality(W)
  <2> HIDE DEF V, W
  <2> QED BY <1>1, <1>2, FS_Bijection
<1>4. U \cap V = {} /\ { i \in 1..M + N : i \in E } = U \cup V
  OBVIOUS
<1>5. Cardinality(U) \in Nat /\ Cardinality(V) \in Nat
  <2> HIDE DEF U, V
  <2> QED BY <1>1, FS_CardinalityType
<1> HIDE DEF U, V, W
<1>6. Cardinality(U \cup V) = Cardinality(U) + Cardinality(V)
  <2>1. Cardinality(U \cup V) = Cardinality(U) + Cardinality(V) - Cardinality(U \cap V)
    BY <1>1, FS_Union
  <2>2. Cardinality(U \cap V) = 0
    BY <1>4, FS_EmptySet
  <2> QED BY <1>5, <2>1, <2>2
<1> QED BY <1>3, <1>4, <1>6 DEF U, W, CountsOn

\* Members of a list without repetitions are counted by their places.
LEMMA CountPlaces ==
  ASSUME NEW X, NEW s \in Seq(X), \A m, n \in DOMAIN s : s[m] = s[n] => m = n,
         NEW D \in SUBSET ToSet(s)
  PROVE  Cardinality({ i \in 1..Len(s) : s[i] \in D }) = Cardinality(D)
<1> DEFINE I == { i \in 1..Len(s) : s[i] \in D }
           f == [i \in I |-> s[i]]
<1>1. IsFiniteSet(I)
  <2>1. 1 \in Int /\ Len(s) \in Int
    OBVIOUS
  <2>2. IsFiniteSet(1..Len(s))
    BY <2>1, FS_Interval
  <2>3. I \in SUBSET (1..Len(s))
    OBVIOUS
  <2> HIDE DEF I
  <2> QED BY <2>2, <2>3, FS_Subset
<1>2. f \in [I -> D] /\ \A a, b \in I : f[a] = f[b] => a = b
  <2>1. I \subseteq DOMAIN s
    OBVIOUS
  <2> QED BY <2>1
<1>3. ASSUME NEW d \in D
      PROVE  \E i \in I : f[i] = d
  <2>1. PICK i \in DOMAIN s : s[i] = d
    BY DEF ToSet
  <2>2. i \in I /\ f[i] = d
    BY <2>1
  <2> QED BY <2>2
<1> HIDE DEF I, f
<1>4. f \in Bijection(I, D)
  BY <1>2, <1>3, Fun_IsBij
<1>5. ExistsBijection(I, D)
  BY <1>4 DEF ExistsBijection
<1>6. Cardinality(I) = Cardinality(D)
  BY <1>1, <1>5, FS_Bijection
<1> QED BY <1>6 DEF I

-----------------------------------------------------------------------------
(* Forecasting *)

\* A forecast is as right as it was where neither it nor the ledger nor the
\* run has moved on.
LEMMA ForecastKept ==
  ASSUME ForecastInv, NEW j \in Jobs, forecast'[j].made,
         forecast'[j] = forecast[j], life' = life,
         \/ job'[j] = job[j]
         \/ /\ job[j].at \in {"planned", "collect", "cite"}
            /\ job'[j].at \in {"planned", "collect", "cite"}
         \/ job'[j].at = "aborted"
  PROVE  ForecastHolds(j)'
<1>1. ForecastHolds(j)
  BY DEF ForecastInv
<1>4. Expected(j)' = Expected(j)
  BY DEF Expected, Withdrawn
<1>2. CASE job'[j] = job[j]
  BY <1>1, <1>2, <1>4 DEF ForecastHolds, Foreseen
<1>3. CASE job'[j] # job[j]
  BY <1>1, <1>3, <1>4 DEF ForecastHolds
<1> QED BY <1>2, <1>3

\* What is planned next, and whether the forecast names it: as the ledger has
\* it; and the count so far is that of the forecast.
LEMMA ForecastOfUnsent ==
  ASSUME TypeInv, ForecastInv, NEW j \in Jobs, forecast[j].made,
         job[j].at \in {"collect", "submit"}, job[j].planned = forecast[j].planned
  PROVE  /\ job[j].duplicates = Cardinality(Foreseen(Expected(j), job[j].planned, job[j].sent))
         /\ \A n \in job[j].sent + 1 .. Len(job[j].planned) :
              job[j].planned[n] \in Expected(j) <=> Duplicate(life, job[j].planned[n])
<1>1. ForecastHolds(j)
  BY DEF ForecastInv
<1>2. CASE job[j].at = "submit"
  BY <1>1, <1>2 DEF ForecastHolds
<1>3. CASE job[j].at = "collect"
  <2>1. /\ job[j].sent = 0 /\ job[j].duplicates = 0 /\ job[j].planned \in Seq(Candidates)
    BY <1>3 DEF TypeInv, RunType, RunState
  <2>2. Foreseen(Expected(j), job[j].planned, 0) = {} /\ Cardinality({}) = 0
    BY FS_EmptySet DEF Foreseen
  <2>3. \A n \in 1..Len(job[j].planned) : job[j].planned[n] \in ToSet(job[j].planned)
    BY <2>1 DEF ToSet
  <2>4. \A x \in ToSet(job[j].planned) : x \in Expected(j) <=> Duplicate(life, x)
    BY <1>1, <1>3 DEF ForecastHolds
  <2>5. \A n \in job[j].sent + 1 .. Len(job[j].planned) : n \in 1..Len(job[j].planned)
    BY <2>1
  <2> QED BY <2>1, <2>2, <2>3, <2>4, <2>5
<1> QED BY <1>2, <1>3

\* A run that sends the next batch finds in it what was forecast, and leaves
\* the forecast of the rest as right as it was.
LEMMA BatchAsForeseen ==
  ASSUME TypeInv, KeysInv, ForecastInv, NEW j \in Jobs, SubmitBatch(j),
         forecast[j].made
  PROVE  ForecastHolds(j)'
<1> DEFINE B == Batch(j)
           N == Len(B)
           P == job[j].planned
           S == job[j].sent
           f == forecast[j]
           D == Expected(j)
<1>1. /\ B \in Seq(Candidates) /\ S + N <= Len(P) /\ N \in Nat
      /\ \A i \in 1..N : B[i] = P[S + i]
      /\ life' = AfterEach(life, B)[N] /\ job[j].duplicates \in Nat
      /\ P \in Seq(Candidates) /\ S \in Nat /\ life \in [Candidates -> Stages]
      /\ \A m, n \in DOMAIN P : KeyOf[P[m]] = KeyOf[P[n]] => m = n
  BY BatchIsNext, Submission DEF After, TypeInv, RunState, KeysInv, RunKeys
<1>2. /\ job'[j].planned = P /\ job'[j].sent = S + N /\ job'[j].at = "submit"
      /\ job'[j].duplicates = job[j].duplicates + Cardinality(InBatch(j))
      /\ forecast'[j] = f
  <2>1. forecast'[j] = f
    BY DEF SubmitBatch, LedgerMoved
  <2>2. job' = [job EXCEPT ![j].at = "submit", ![j].sent = @ + N,
                           ![j].duplicates = @ + Cardinality(InBatch(j))]
    BY Submission
  <2> HIDE DEF N, f
  <2> QED BY <2>1, <2>2 DEF TypeInv, RunState
<1>3. D \subseteq ToSet(f.planned)
  BY DEF ForecastInv, ForecastHolds
<1>5. Expected(j)' = D
  <2>1. N \in 0..Len(B)
    BY <1>1
  <2>2. OnlySentGrow(life, B, N)
    BY <1>1, <2>1, SentPrefix
  <2>3. \A x \in Candidates : Withdrawn(x)' <=> Withdrawn(x)
    <3> HIDE DEF B, N
    <3> QED BY <1>1, <2>2 DEF OnlySentGrow, Withdrawn
  <2>4. ToSet(f.planned) \subseteq Candidates
    BY DEF TypeInv, Forecast, ToSet
  <2> HIDE DEF B, N
  <2> QED BY <1>2, <2>3, <2>4 DEF Expected
<1>4. ASSUME P = f.planned
      PROVE  /\ job'[j].duplicates = Cardinality(Foreseen(D, P, S + N))
             /\ \A n \in job'[j].sent + 1 .. Len(P) :
                  P[n] \in D <=> Duplicate(life', P[n])
  <2>1. /\ job[j].duplicates = Cardinality(Foreseen(D, P, S))
        /\ \A n \in S + 1 .. Len(P) : P[n] \in D <=> Duplicate(life, P[n])
    <3>1. job[j].at \in {"collect", "submit"}
      BY DEF SubmitBatch, Submitting, Collected, At
    <3> QED BY <1>4, <3>1, ForecastOfUnsent
  <2> HIDE DEF B, N, P, S, f, D
  <2>2. ASSUME NEW i \in 1..N
        PROVE  Duplicate(AfterEach(life, B)[i - 1], B[i]) <=> P[S + i] \in D
    <3>1. /\ i - 1 \in 0..Len(B) /\ B[i] \in Candidates
          /\ S + i \in S + 1 .. Len(P)
      BY <1>1 DEF N
    <3>2. ASSUME NEW m \in 1..i - 1
          PROVE  KeyOf[B[m]] # KeyOf[B[i]]
      <4>1. m \in 1..N /\ S + m \in 1..Len(P) /\ S + i \in 1..Len(P) /\ S + m # S + i
        BY <1>1
      <4>2. DOMAIN P = 1..Len(P)
        BY <1>1
      <4>3. B[m] = P[S + m] /\ B[i] = P[S + i]
        BY <1>1, <4>1
      <4>4. \A a, b \in 1..Len(P) : KeyOf[P[a]] = KeyOf[P[b]] => a = b
        BY <1>1, <4>2
      <4> QED BY <4>1, <4>3, <4>4
    <3>3. Duplicate(AfterEach(life, B)[i - 1], B[i]) <=> Duplicate(life, B[i])
      <4>1. OthersAreAsBefore(life, B, i - 1)
        BY <1>1, <3>1, SentPrefix
      <4> QED BY <3>1, <3>2, <4>1 DEF OthersAreAsBefore
    <3> QED BY <1>1, <2>1, <3>1, <3>3
  <2>3. InBatch(j) = { i \in 1..N : P[S + i] \in D }
    <3>1. InBatch(j) = { i \in 1..N : Duplicate(AfterEach(life, B)[i - 1], B[i]) }
      <4>1. DOMAIN B = 1..N
        BY <1>1 DEF N
      <4> QED BY <4>1 DEF InBatch, After, B
    <3> QED BY <2>2, <3>1
  <2>4. Cardinality(Foreseen(D, P, S + N)) =
          Cardinality(Foreseen(D, P, S)) + Cardinality(InBatch(j))
    <3> DEFINE E == { i \in Nat : P[i] \in D }
    <3>1. Foreseen(D, P, S + N) = { i \in 1..S + N : i \in E }
      <4>1. Foreseen(D, P, S + N) = { i \in 1..S + N : P[i] \in D }
        BY <1>2 DEF Foreseen
      <4> QED BY <1>1, <4>1
    <3>2. Foreseen(D, P, S) = { i \in 1..S : i \in E }
      <4>1. Foreseen(D, P, S) = { i \in 1..S : P[i] \in D }
        BY DEF Foreseen, P
      <4> QED BY <1>1, <4>1
    <3>3. InBatch(j) = { i \in 1..N : S + i \in E }
      BY <1>1, <2>3
    <3> HIDE DEF E
    <3>4. CountsOn(S, N, E)
      BY <1>1, CountOn
    <3> QED BY <3>1, <3>2, <3>3, <3>4 DEF CountsOn
  <2>5. ASSUME NEW n \in S + N + 1 .. Len(P)
        PROVE  Duplicate(life', P[n]) <=> Duplicate(life, P[n])
    <3>1. N \in 0..Len(B) /\ P[n] \in Candidates /\ n \in DOMAIN P
      BY <1>1 DEF N
    <3>2. ASSUME NEW m \in 1..N
          PROVE  KeyOf[B[m]] # KeyOf[P[n]]
      <4>1. S + m \in DOMAIN P /\ S + m # n
        BY <1>1
      <4> QED BY <1>1, <3>1, <4>1
    <3>3. OthersAreAsBefore(life, B, N)
      BY <1>1, <3>1, SentPrefix
    <3> QED BY <1>1, <3>1, <3>2, <3>3 DEF OthersAreAsBefore
  <2>6. \A n \in S + N + 1 .. Len(P) : n \in S + 1 .. Len(P)
    BY <1>1
  <2> QED BY <1>1, <1>2, <2>1, <2>4, <2>5, <2>6
<1> HIDE DEF B, N, P, S, f, D
<1> QED BY <1>2, <1>3, <1>4, <1>5 DEF ForecastHolds

\* Every step leaves the forecasts that are made right.
LEMMA ForecastStep ==
  ASSUME TypeInv, KeysInv, ForecastInv, [Next]_vars
  PROVE  ForecastInv'
<1> SUFFICES ASSUME NEW j \in Jobs, forecast'[j].made
             PROVE  ForecastHolds(j)'
  BY DEF ForecastInv
<1> USE DEF TypeInv
<1>1. ASSUME NEW mode \in {"run", "plan"}, NEW delivered \in Deliveries(j),
             Start(j, mode, delivered)
      PROVE  ForecastHolds(j)'
  <2>1. forecast'[j] = forecast[j] /\ At(j, "planned")
    BY <1>1 DEF Start, NoForecast
  <2>2. job'[j].at = "collect" /\ life' = life
    BY <1>1 DEF Start, Idle
  <2> QED BY <2>1, <2>2, ForecastKept DEF At
<1>2. ASSUME \/ Suppress(j) \/ Reject(j) \/ Admit(j) \/ PutEvidence(j) \/ CiteEvidence(j)
      PROVE  ForecastHolds(j)'
  <2>1. forecast' = forecast /\ life' = life /\ job[j].at \in {"collect", "cite"}
    BY <1>2 DEF Suppress, Reject, Admit, PutEvidence, CiteEvidence, Collecting, At
  <2>2. job'[j].at \in {"collect", "cite"}
    BY <1>2, <2>1 DEF Suppress, Reject, Admit, PutEvidence, CiteEvidence, Collecting, At,
                      RunState
  <2> QED BY <2>1, <2>2, ForecastKept
<1>3. ASSUME BuildPlan(j)
      PROVE  ForecastHolds(j)'
  <2>1. /\ forecast'[j].planned = job[j].planned /\ forecast'[j].duplicates = Predicted(j)
        /\ life' = life /\ job'[j].at = "planned"
    BY <1>3 DEF BuildPlan, Idle
  <2>2. Expected(j)' = { x \in ToSet(job[j].planned) : Duplicate(life, x) }
    <3>1. ToSet(job[j].planned) \subseteq Candidates
      BY DEF RunState, ToSet
    <3>2. \A x \in Candidates : Withdrawn(x)' <=> Withdrawn(x)
      BY <2>1 DEF Withdrawn
    <3>3. \A x \in Candidates : life[x] = "absent" \/ life[x] = "live" \/ Withdrawn(x)
      BY DEF Withdrawn, Stages
    <3>4. \A x \in Candidates :
            x \in Predicted(j) <=>
              /\ x \in ToSet(job[j].planned)
              /\ \/ \E y \in Candidates : life[y] = "live" /\ KeyOf[y] = KeyOf[x]
                 \/ j \notin Passages /\ life[x] # "absent"
      BY DEF Predicted, ToSet
    <3>5. Predicted(j) \subseteq Candidates
      BY DEF Predicted
    <3>6. ASSUME NEW x \in Candidates
          PROVE  x \in Expected(j)' <=> x \in ToSet(job[j].planned) /\ Duplicate(life, x)
      <4>1. x \in Expected(j)' <=>
              \/ x \in Predicted(j)
              \/ x \in ToSet(job[j].planned) /\ j \in Passages /\ Withdrawn(x)
        BY <2>1, <3>2 DEF Expected
      <4>2. Withdrawn(x) => life[x] # "absent"
        BY DEF Withdrawn
      <4> QED BY <3>3, <3>4, <4>1, <4>2 DEF Duplicate
    <3>7. Expected(j)' \subseteq Candidates
      BY <2>1, <3>1, <3>5 DEF Expected
    <3> QED BY <3>1, <3>6, <3>7
  <2> QED BY <2>1, <2>2 DEF ForecastHolds
<1>4. ASSUME SubmitBatch(j)
      PROVE  ForecastHolds(j)'
  <2>1. forecast[j].made
    BY <1>4 DEF SubmitBatch, LedgerMoved
  <2> QED BY <1>4, <2>1, BatchAsForeseen
<1>5. ASSUME Finish(j)
      PROVE  ForecastHolds(j)'
  <2>1. /\ forecast' = forecast /\ life' = life /\ job'[j].planned = job[j].planned
        /\ job'[j].sent = job[j].sent /\ job'[j].duplicates = job[j].duplicates
        /\ job'[j].at = "done" /\ job[j].at \in {"collect", "submit"}
    BY <1>5 DEF Finish, Submitting, Collected, At, RunState
  <2>2. Expected(j) \subseteq ToSet(forecast[j].planned) /\ Expected(j)' = Expected(j)
    <3>1. Expected(j)' = Expected(j)
      BY <2>1 DEF Expected, Withdrawn
    <3> QED BY <2>1, <3>1 DEF ForecastInv, ForecastHolds
  <2>3. job[j].planned = forecast[j].planned =>
          /\ job[j].duplicates = Cardinality(Foreseen(Expected(j), job[j].planned, job[j].sent))
          /\ \A n \in job[j].sent + 1 .. Len(job[j].planned) :
               job[j].planned[n] \in Expected(j) <=> Duplicate(life, job[j].planned[n])
    BY <2>1, ForecastOfUnsent
  <2> QED BY <2>1, <2>2, <2>3 DEF ForecastHolds
<1>6. ASSUME Abort(j)
      PROVE  ForecastHolds(j)'
  <2>1. forecast' = forecast /\ life' = life /\ job'[j].at = "aborted"
    BY <1>6 DEF Abort, Idle
  <2> QED BY <2>1, ForecastKept
<1>7. ASSUME NEW k \in Jobs, k # j, Run(k) \/ Plan(k) \/ Step(k) \/ Abort(k)
      PROVE  ForecastHolds(j)'
  <2>1. job'[j] = job[j]
    BY <1>7 DEF Run, Plan, Step, Start, Suppress, Reject, Admit, PutEvidence, CiteEvidence,
                BuildPlan, SubmitBatch, Finish, Abort
  <2>2. forecast'[j] = forecast[j] /\ life' = life
    <3>1. CASE SubmitBatch(k)
      BY <1>7, <3>1 DEF SubmitBatch, LedgerMoved, NoForecast
    <3>2. CASE ~SubmitBatch(k)
      BY <1>7, <3>2 DEF Run, Plan, Step, Start, Suppress, Reject, Admit, PutEvidence,
                        CiteEvidence, BuildPlan, Finish, Abort
    <3> QED BY <3>1, <3>2
  <2> QED BY <2>1, <2>2, ForecastKept
<1>8. ASSUME NEW x \in Candidates, Revoke(x) \/ Erase(x)
      PROVE  ForecastHolds(j)'
  BY <1>8 DEF Revoke, Erase, LedgerMoved, NoForecast
<1>9. CASE UNCHANGED vars
  BY <1>9, ForecastKept DEF vars
<1> QED BY <1>1, <1>2, <1>3, <1>4, <1>5, <1>6, <1>7, <1>8, <1>9 DEF Next, Step, Run, Plan

\* The run of a job whose dry run nothing made stale counts what is expected.
LEMMA RunFindsExpected ==
  ASSUME TypeInv, KeysInv, ForecastInv, NEW j \in Jobs,
         At(j, "done"), forecast[j].made, forecast[j].planned = job[j].planned
  PROVE  job[j].duplicates = Cardinality(Expected(j))
<1> DEFINE P == job[j].planned
           D == Expected(j)
<1>1. /\ P \in Seq(Candidates) /\ job[j].sent = Len(P)
      /\ \A m, n \in DOMAIN P : P[m] = P[n] => m = n
  BY DEF TypeInv, RunState, KeysInv, RunKeys, At
<1>2. /\ D \in SUBSET ToSet(P)
      /\ job[j].duplicates = Cardinality(Foreseen(D, P, job[j].sent))
  BY DEF ForecastInv, ForecastHolds, At
<1>3. Foreseen(D, P, job[j].sent) = { i \in 1..Len(P) : P[i] \in D }
  BY <1>1 DEF Foreseen
<1> HIDE DEF P, D
<1>4. Cardinality({ i \in 1..Len(P) : P[i] \in D }) = Cardinality(D)
  BY <1>1, <1>2, CountPlaces
<1> QED BY <1>2, <1>3, <1>4 DEF D

\* Without a forecast there is nothing to be right.
LEMMA ForecastInit == Init => KeysInv /\ ForecastInv
BY DEF Init, Idle, NoForecast, KeysInv, RunKeys, ForecastInv

\* The plan an operator approves is the plan that runs: if nothing else moves
\* the ledger in between, the run counts the duplicates its dry run predicted,
\* for any records, any batch size and anything withdrawn before.
THEOREM PlannedIsRun == Spec => []PlanPredictsRun
<1>1. TypeInv /\ KeysInv /\ ForecastInv => PlanPredictsRun
  <2> SUFFICES ASSUME TypeInv, KeysInv, ForecastInv, NEW j \in Jobs \ Passages,
                      At(j, "done"), forecast[j].made,
                      forecast[j].planned = job[j].planned
               PROVE  job[j].duplicates = Cardinality(forecast[j].duplicates)
    BY DEF PlanPredictsRun
  <2>1. Expected(j) = forecast[j].duplicates
    BY DEF Expected
  <2>2. job[j].duplicates = Cardinality(Expected(j))
    BY RunFindsExpected
  <2> QED BY <2>1, <2>2
<1> QED BY <1>1, ForecastInit, TypeInit, TypeStep, KeysStep, ForecastStep, PTL DEF Spec

\* What an extraction job's plan misses is what is withdrawn, and that alone:
\* its run counts what the plan predicted and the withdrawn candidates, for
\* any passages and batch size.
THEOREM PlanMissesWithdrawn == Spec => []PlanMissesOnlyWithdrawn
<1>1. TypeInv /\ KeysInv /\ ForecastInv => PlanMissesOnlyWithdrawn
  <2> SUFFICES ASSUME TypeInv, KeysInv, ForecastInv, NEW j \in Passages,
                      At(j, "done"), forecast[j].made,
                      forecast[j].planned = job[j].planned
               PROVE  job[j].duplicates =
                        Cardinality(forecast[j].duplicates \cup
                                    { x \in ToSet(job[j].planned) : Withdrawn(x) })
    BY DEF PlanMissesOnlyWithdrawn
  <2>1. j \in Jobs
    BY JobsAssumption
  <2>2. Expected(j) =
          forecast[j].duplicates \cup { x \in ToSet(job[j].planned) : Withdrawn(x) }
    BY DEF Expected
  <2>3. job[j].duplicates = Cardinality(Expected(j))
    BY <2>1, RunFindsExpected
  <2> QED BY <2>2, <2>3
<1> QED BY <1>1, ForecastInit, TypeInit, TypeStep, KeysStep, ForecastStep, PTL DEF Spec
=============================================================================
