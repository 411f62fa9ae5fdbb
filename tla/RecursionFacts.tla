--------------------------- MODULE RecursionFacts ---------------------------
(***************************************************************************)
(* What the proofs about recursive functions rest on: induction over the   *)
(* members of a set (so that nothing but first-order facts is cited), and  *)
(* that a function defined step by step exists and is what it is written   *)
(* as.  Below, what two operators on lists keep.                           *)
(***************************************************************************)
EXTENDS Integers, FiniteSets, SequencesExt, SequenceTheorems, WellFoundedInduction, TLAPS

\* A set of naturals that is not empty has a least element.
LEMMA LeastMember ==
  ASSUME NEW T \in SUBSET Nat, T # {}
  PROVE  \E m \in T : \A n \in T : m <= n
<1> DEFINE R == OpToRel(<, Nat)
<1>1. IsWellFoundedOn(R, Nat)
  BY NatLessThanWellFounded
<1>2. \E x \in T : \A y \in T : ~ (<<y, x>> \in R)
  <2> HIDE DEF R
  <2> QED BY <1>1, WFMin
<1>3. PICK m \in T : \A y \in T : ~ (<<y, m>> \in R)
  BY <1>2
<1>4. \A y \in T : ~(y < m)
  BY <1>3 DEF OpToRel
<1> QED BY <1>4

\* What holds at 0 and goes on below N holds up to N.
LEMMA InductionUpTo ==
  ASSUME NEW N \in Nat, NEW T, 0 \in T, \A n \in 1..N : n - 1 \in T => n \in T
  PROVE  \A n \in 0..N : n \in T
<1> DEFINE Bad == { n \in 0..N : n \notin T }
<1>1. SUFFICES ASSUME Bad # {} PROVE FALSE
  BY DEF Bad
<1>2. Bad \in SUBSET Nat
  OBVIOUS
<1>3. PICK m \in Bad : \A n \in Bad : m <= n
  <2> HIDE DEF Bad
  <2> QED BY <1>1, <1>2, LeastMember
<1>4. m \in 1..N /\ m - 1 \in 0..N /\ m - 1 < m
  BY <1>3
<1>5. m - 1 \in T
  BY <1>3, <1>4
<1> QED BY <1>3, <1>4, <1>5

\* N steps on the members of S; what following them from s gives.
Steps(S, N, step) == N \in Nat /\ step \in [1..N -> [S -> S]]

Follows(S, s, N, step, g) ==
  g \in [0..N -> S] /\ g[0] = s /\ \A n \in 1..N : g[n] = step[n][g[n - 1]]

\* Steps one after the other lead somewhere.
LEMMA StepsCompose ==
  ASSUME NEW S, NEW s \in S, NEW N, NEW step, Steps(S, N, step)
  PROVE  \E g : Follows(S, s, N, step, g)
<1> USE DEF Steps, Follows
<1> DEFINE T == { m \in 0..N : \E g \in [0..m -> S] :
                    g[0] = s /\ \A n \in 1..m : g[n] = step[n][g[n - 1]] }
<1>1. 0 \in T
  <2> DEFINE g == [k \in 0..0 |-> s]
  <2>1. g \in [0..0 -> S] /\ g[0] = s /\ \A n \in 1..0 : g[n] = step[n][g[n - 1]]
    OBVIOUS
  <2> HIDE DEF g
  <2> QED BY <2>1
<1>2. ASSUME NEW m \in 1..N, m - 1 \in T
      PROVE  m \in T
  <2>1. PICK g \in [0..m-1 -> S] : g[0] = s /\ \A n \in 1..m-1 : g[n] = step[n][g[n - 1]]
    BY <1>2
  <2> DEFINE h == [k \in 0..m |-> IF k = m THEN step[m][g[m - 1]] ELSE g[k]]
  <2>2. h \in [0..m -> S] /\ h[0] = s
    BY <2>1
  <2>3. \A n \in 1..m : h[n] = step[n][h[n - 1]]
    BY <2>1
  <2> HIDE DEF h
  <2> QED BY <2>2, <2>3
<1>3. \A n \in 0..N : n \in T
  <2> HIDE DEF T
  <2> QED BY <1>1, <1>2, InductionUpTo
<1> QED BY <1>3

\* A list written from the front: each place up to N says what it adds and
\* which later place goes on, or -1.
Jumps(N, jump) == N \in Nat /\ \A n \in 0..N : jump[n] = -1 \/ jump[n] \in (n + 1)..N

Written(f, N, head, jump) ==
  f = [n \in 0..N |-> head[n] \o (IF jump[n] = -1 THEN <<>> ELSE f[jump[n]])]

\* There is such a list.
LEMMA JumpsCompose ==
  ASSUME NEW N, NEW head, NEW jump, Jumps(N, jump)
  PROVE  \E f : Written(f, N, head, jump)
<1> USE DEF Jumps, Written
<1> DEFINE at(g, n) == head[n] \o (IF jump[n] = -1 THEN <<>> ELSE g[jump[n]])
           Good(g, m) == g = [n \in m..N |-> at(g, n)]
           T == { k \in 0..(N + 1) : \E g : Good(g, N + 1 - k) }
<1>1. 0 \in T
  <2> DEFINE g == [n \in (N + 1)..N |-> <<>>]
  <2>1. (N + 1)..N = {} /\ N + 1 - 0 = N + 1
    OBVIOUS
  <2>2. Good(g, N + 1)
    BY <2>1
  <2> HIDE DEF Good
  <2> QED BY <2>1, <2>2
<1>2. ASSUME NEW k \in 1..(N + 1), k - 1 \in T
      PROVE  k \in T
  <2> DEFINE m == N + 1 - k
  <2>1. m \in 0..N /\ N + 1 - (k - 1) = m + 1
    OBVIOUS
  <2>2. PICK g : Good(g, m + 1)
    <3> HIDE DEF Good
    <3> QED BY <1>2, <2>1
  <2> HIDE DEF m
  <2> DEFINE h == [n \in m..N |-> IF n = m THEN at(g, m) ELSE g[n]]
  <2>3. /\ h[m] = at(g, m) /\ \A n \in (m + 1)..N : h[n] = g[n] /\ g[n] = at(g, n)
        /\ h = [n \in m..N |-> h[n]]
    <3>1. m \in m..N /\ \A n \in (m + 1)..N : n \in m..N /\ n # m
      BY <2>1
    <3>2. \A n \in (m + 1)..N : g[n] = at(g, n)
      BY <2>2
    <3> HIDE DEF at, Good
    <3> QED BY <3>1, <3>2
  <2> HIDE DEF h
  <2>4. \A n \in m..N : at(h, n) = at(g, n)
    <3> SUFFICES ASSUME NEW n \in m..N, jump[n] # -1
                 PROVE  h[jump[n]] = g[jump[n]]
      OBVIOUS
    <3>1. jump[n] \in (m + 1)..N
      BY <2>1
    <3> QED BY <2>3, <3>1
  <2>5. \A n \in m..N : h[n] = at(h, n)
    <3>1. \A n \in m..N : n = m \/ n \in (m + 1)..N
      BY <2>1
    <3> HIDE DEF at
    <3> QED BY <2>3, <2>4, <3>1
  <2>6. Good(h, m)
    <3> HIDE DEF at
    <3> QED BY <2>3, <2>5
  <2> HIDE DEF Good
  <2> QED BY <2>6 DEF m
<1>3. N + 1 \in T
  <2>1. N + 1 \in Nat /\ N + 1 \in 0..(N + 1)
    OBVIOUS
  <2> HIDE DEF T
  <2>2. \A k \in 0..(N + 1) : k \in T
    BY <1>1, <1>2, <2>1, InductionUpTo
  <2> QED BY <2>1, <2>2
<1>4. \E g : Good(g, 0)
  <2>1. N + 1 - (N + 1) = 0
    OBVIOUS
  <2> HIDE DEF Good
  <2> QED BY <1>3, <2>1
<1> QED BY <1>4

-----------------------------------------------------------------------------
(* Lists *)

\* The elements of a concatenation.
LEMMA ConcatElements ==
  ASSUME NEW X, NEW s \in Seq(X), NEW t \in Seq(X)
  PROVE  s \o t \in Seq(X) /\ ToSet(s \o t) = ToSet(s) \cup ToSet(t)
<1>1. /\ s \o t \in Seq(X) /\ Len(s \o t) = Len(s) + Len(t)
      /\ \A i \in 1..Len(s) + Len(t) :
           (s \o t)[i] = IF i <= Len(s) THEN s[i] ELSE t[i - Len(s)]
  BY ConcatProperties
<1>2. DOMAIN s = 1..Len(s) /\ DOMAIN t = 1..Len(t) /\ DOMAIN (s \o t) = 1..Len(s) + Len(t)
      /\ Len(s) \in Nat /\ Len(t) \in Nat
  BY <1>1
<1>3. ToSet(s \o t) \subseteq ToSet(s) \cup ToSet(t)
  BY <1>1, <1>2 DEF ToSet
<1>4. ASSUME NEW i \in DOMAIN s
      PROVE  s[i] \in ToSet(s \o t)
  <2>1. i \in DOMAIN (s \o t) /\ (s \o t)[i] = s[i]
    BY <1>1, <1>2
  <2> QED BY <2>1 DEF ToSet
<1>5. ASSUME NEW i \in DOMAIN t
      PROVE  t[i] \in ToSet(s \o t)
  <2>1. Len(s) + i \in DOMAIN (s \o t) /\ (s \o t)[Len(s) + i] = t[i]
    BY <1>1, <1>2
  <2> QED BY <2>1 DEF ToSet
<1> QED BY <1>1, <1>3, <1>4, <1>5 DEF ToSet

\* FlattenSeq keeps what is in its sequences, and adds nothing.
LEMMA FlattenElements ==
  ASSUME NEW X, NEW seqs \in Seq(Seq(X))
  PROVE  /\ FlattenSeq(seqs) \in Seq(X)
         /\ ToSet(FlattenSeq(seqs)) = UNION { ToSet(seqs[i]) : i \in DOMAIN seqs }
<1> DEFINE N == Len(seqs)
           Good(f) == f = [i \in 1..N |-> IF i = 1 THEN seqs[i] ELSE f[i - 1] \o seqs[i]]
           flat == CHOOSE f : Good(f)
           Upto(n) == UNION { ToSet(seqs[i]) : i \in 1..n }
<1>1. N \in Nat /\ DOMAIN seqs = 1..N /\ \A i \in 1..N : seqs[i] \in Seq(X)
  OBVIOUS
<1>2. CASE N = 0
  <2>1. FlattenSeq(seqs) = seqs /\ DOMAIN seqs = {} /\ seqs = <<>>
    BY <1>1, <1>2 DEF FlattenSeq
  <2> QED BY <2>1 DEF ToSet
<1>3. CASE N # 0
  <2> DEFINE S == Seq(X)
             step == [n \in 1..N |-> [l \in S |-> l \o seqs[n]]]
  <2>1. \E f : Good(f)
    <3>1. Steps(S, N, step) /\ <<>> \in S
      BY <1>1, ConcatProperties DEF Steps
    <3>2. PICK g : Follows(S, <<>>, N, step, g)
      <4> HIDE DEF step, S, N, Good
      <4> QED BY <3>1, StepsCompose
    <3> DEFINE f == [i \in 1..N |-> g[i]]
    <3>3. ASSUME NEW n \in 1..N
          PROVE  g[n] = g[n - 1] \o seqs[n] /\ g[n - 1] \in S
      <4>1. g[n - 1] \in S /\ g[n] = step[n][g[n - 1]]
        <5>1. n - 1 \in 0..N
          BY <1>1
        <5> HIDE DEF S, step, N, Good, f
        <5> QED BY <3>2, <5>1 DEF Follows
      <4> HIDE DEF S
      <4>2. step[n] = [l \in S |-> l \o seqs[n]]
        OBVIOUS
      <4> HIDE DEF step
      <4> QED BY <4>1, <4>2
    <3>4. g[1] = seqs[1]
      <4>1. 1 \in 1..N /\ g[0] = <<>> /\ 1 - 1 = 0
        BY <1>1, <1>3, <3>2 DEF Follows
      <4>2. g[1] = <<>> \o seqs[1]
        BY <3>3, <4>1
      <4> QED BY <1>1, <4>1, <4>2, ConcatEmptySeq
    <3>5. \A i \in 1..N : f[i] = IF i = 1 THEN seqs[i] ELSE f[i - 1] \o seqs[i]
      <4>1. ASSUME NEW i \in 1..N, i # 1
            PROVE  f[i] = f[i - 1] \o seqs[i]
        <5>1. i - 1 \in 1..N
          BY <1>1, <4>1
        <5> QED BY <3>3, <5>1
      <4> QED BY <3>4, <4>1
    <3>6. Good(f)
      BY <1>1, <3>5
    <3> QED BY <3>6
  <2>2. Good(flat)
    BY <2>1
  <2> HIDE DEF flat
  <2>3. flat[1] = seqs[1] /\ \A i \in 2..N : flat[i] = flat[i - 1] \o seqs[i]
    <3> HIDE DEF S, step
    <3>1. 1 \in 1..N /\ \A i \in 2..N : i \in 1..N /\ i # 1
      BY <1>1, <1>3
    <3>2. \A i \in 1..N : flat[i] = IF i = 1 THEN seqs[i] ELSE flat[i - 1] \o seqs[i]
      BY <2>2
    <3> QED BY <3>1, <3>2
  <2> DEFINE T == {0} \cup { n \in 1..N : flat[n] \in Seq(X) /\ ToSet(flat[n]) = Upto(n) }
  <2>4. 0 \in T
    OBVIOUS
  <2>5. ASSUME NEW n \in 1..N, n - 1 \in T
        PROVE  n \in T
    <3>1. CASE n = 1
      <4>1. Upto(1) = ToSet(seqs[1])
        OBVIOUS
      <4> QED BY <1>1, <2>3, <3>1, <4>1
    <3>2. CASE n # 1
      <4>1. n \in 2..N /\ n - 1 \in 1..N
        BY <3>2
      <4>2. flat[n - 1] \in Seq(X) /\ ToSet(flat[n - 1]) = Upto(n - 1)
        BY <2>5, <4>1
      <4>3. flat[n] = flat[n - 1] \o seqs[n] /\ seqs[n] \in Seq(X)
        BY <1>1, <2>3, <4>1
      <4>4. flat[n] \in Seq(X) /\ ToSet(flat[n]) = ToSet(flat[n - 1]) \cup ToSet(seqs[n])
        BY <4>2, <4>3, ConcatElements
      <4>5. Upto(n) = Upto(n - 1) \cup ToSet(seqs[n])
        <5>1. 1..n = (1..n-1) \cup {n}
          OBVIOUS
        <5> QED BY <5>1
      <4> QED BY <4>2, <4>4, <4>5
    <3> QED BY <3>1, <3>2
  <2>6. N \in T
    <3>1. \A n \in 0..N : n \in T
      <4> HIDE DEF T
      <4> QED BY <1>1, <2>4, <2>5, InductionUpTo
    <3> HIDE DEF T
    <3> QED BY <1>1, <3>1
  <2>7. FlattenSeq(seqs) = flat[N]
    BY <1>3 DEF FlattenSeq, flat
  <2> QED BY <1>1, <1>3, <2>6, <2>7
<1> QED BY <1>2, <1>3
=============================================================================
