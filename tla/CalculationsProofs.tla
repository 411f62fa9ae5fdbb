-------------------------- MODULE CalculationsProofs --------------------------
(***************************************************************************)
(* Theorems of Calculations for any inputs.  A behaviour is one call, so   *)
(* what has to be shown is what the operators compute.                     *)
(***************************************************************************)
EXTENDS Calculations, RecursionFacts, FiniteSetTheorems, SequenceTheorems, TLAPS

\* Which action answers which question.
LEMMA WhoAnswers ==
  ASSUME Next
  PROVE  /\ call'.op = "advise" => Advise
         /\ call'.op = "adjudicate" => Adjudicate
         /\ call'.op = "segment" => Segment
         /\ call'.op = "extract" => Extract
         /\ call'.op = "ingest" => Ingest
         /\ call'.op = "read_both" => ReadBoth
         /\ call'.op = "sync" => Sync
         /\ call'.op = "grade" => Grade
         /\ call'.op = "compare" => Compare
<1>1. Advise => call'.op = "advise"
  BY DEF Advise, Call
<1>2. Adjudicate => call'.op = "adjudicate"
  BY DEF Adjudicate, Call
<1>3. Segment => call'.op = "segment"
  BY DEF Segment, Call
<1>4. Extract => call'.op = "extract"
  BY DEF Extract, Call
<1>5. Ingest => call'.op = "ingest"
  BY DEF Ingest, Call
<1>6. ReadBoth => call'.op = "read_both"
  BY DEF ReadBoth, Call
<1>7. Sync => call'.op = "sync"
  BY DEF Sync, Call
<1>8. Grade => call'.op = "grade"
  BY DEF Grade, Call
<1>9. Compare => call'.op = "compare"
  BY DEF Compare, Call
<1> QED
  BY <1>1, <1>2, <1>3, <1>4, <1>5, <1>6, <1>7, <1>8, <1>9 DEF Next

-----------------------------------------------------------------------------
(* Advice *)

\* Of finitely many things that are all comparable one is above the others.
LEMMA GreatestMember ==
  ASSUME NEW S, IsFiniteSet(S), S # {}, NEW R,
         \A x, y \in S : x # y => <<x, y>> \in R \/ <<y, x>> \in R,
         \A x, y, z \in S : <<x, y>> \in R /\ <<y, z>> \in R /\ x # z => <<x, z>> \in R
  PROVE  \E x \in S : \A y \in S \ {x} : <<x, y>> \in R
<1>1. PICK N \in Nat : ExistsBijection(1..N, S)
  BY FS_NatBijection
<1>2. PICK f \in [1..N -> S] : \A y \in S : \E k \in 1..N : f[k] = y
  BY <1>1 DEF ExistsBijection, Bijection, Surjection
<1> DEFINE Tops(m, i) == \A j \in 1..m : f[j] # f[i] => <<f[i], f[j]>> \in R
           T == { m \in 0..N : m > 0 => \E i \in 1..m : Tops(m, i) }
<1>3. /\ \A m \in 0..N : m \in T <=> (m = 0 \/ \E i \in 1..m : Tops(m, i))
      /\ \A m \in 1..N : f[m] \in S
  <2>1. \A m \in 1..N : f[m] \in S
    OBVIOUS
  <2>2. \A m \in 0..N : m > 0 <=> m # 0
    OBVIOUS
  <2> HIDE DEF Tops
  <2> QED BY <2>1, <2>2
<1> HIDE DEF T
<1>4. ASSUME NEW m \in 1..N, m - 1 \in T
      PROVE  m \in T
  <2>1. \E i \in 1..m : Tops(m, i)
    <3>1. CASE m = 1
      <4>1. Tops(1, 1) /\ 1 \in 1..1
        OBVIOUS
      <4> HIDE DEF Tops
      <4> QED BY <3>1, <4>1
    <3>2. CASE m > 1
      <4>1. m - 1 \in 0..N /\ m - 1 # 0
        BY <3>2
      <4>2. PICK i \in 1..(m - 1) : Tops(m - 1, i)
        BY <1>3, <1>4, <4>1
      <4>3. CASE f[m] = f[i] \/ <<f[i], f[m]>> \in R
        <5>1. Tops(m, i)
          BY <4>2, <4>3
        <5> HIDE DEF Tops
        <5> QED BY <5>1
      <4>4. CASE f[m] # f[i] /\ <<f[m], f[i]>> \in R
        <5>1. ASSUME NEW j \in 1..m, f[j] # f[m]
              PROVE  <<f[m], f[j]>> \in R
          <6>1. j \in 1..(m - 1)
            BY <5>1
          <6>2. f[j] # f[i] => <<f[i], f[j]>> \in R
            BY <4>2, <6>1
          <6>3. f[m] \in S /\ f[i] \in S /\ f[j] \in S
            BY <1>3
          <6> QED BY <4>4, <5>1, <6>2, <6>3
        <5>2. Tops(m, m) /\ m \in 1..m
          BY <5>1
        <5> HIDE DEF Tops
        <5> QED BY <5>2
      <4>5. f[m] \in S /\ f[i] \in S
        BY <1>3
      <4> QED BY <4>3, <4>4, <4>5
    <3> HIDE DEF Tops
    <3> QED BY <3>1, <3>2
  <2> HIDE DEF Tops
  <2> QED BY <1>3, <2>1
<1>5. \A m \in 0..N : m \in T
  <2> HIDE DEF Tops
  <2>1. 0 \in T
    BY <1>3
  <2> QED BY <1>4, <2>1, InductionUpTo
<1>6. N \in 1..N
  BY <1>2
<1>7. PICK i \in 1..N : Tops(N, i)
  <2> HIDE DEF Tops
  <2> QED BY <1>3, <1>5, <1>6
<1>8. \A y \in S \ {f[i]} : <<f[i], y>> \in R
  BY <1>2, <1>7
<1> QED BY <1>3, <1>8

\* The names: one of two comes first, and the order is transitive.
LEMMA NamesAreOrdered ==
  ASSUME NEW a \in Seq(Nat), NEW b \in Seq(Nat), a # b
  PROVE  NegNameBefore(a, b) \/ NegNameBefore(b, a)
<1> DEFINE Diff == { i \in 1..Len(a) : i <= Len(b) /\ a[i] # b[i] }
<1>1. Len(a) \in Nat /\ Len(b) \in Nat
  OBVIOUS
<1>2. \A j \in 1..Len(a) : j <= Len(b) /\ j \notin Diff => a[j] = b[j]
  OBVIOUS
<1>3. CASE Diff = {}
  <2>1. \A j \in 1..Len(a) : j <= Len(b) => a[j] = b[j]
    BY <1>2, <1>3
  <2> HIDE DEF Diff
  <2>2. Len(a) # Len(b)
    BY <2>1, SeqEqual
  <2> QED BY <1>1, <2>1, <2>2 DEF NegNameBefore
<1>4. CASE Diff # {}
  <2>1. PICK i \in Diff : \A n \in Diff : i <= n
    <3>1. Diff \in SUBSET Nat
      OBVIOUS
    <3> HIDE DEF Diff
    <3> QED BY <1>4, <3>1, LeastMember
  <2>2. i \in 1..Len(a) /\ i \in 1..Len(b) /\ a[i] # b[i]
    BY <1>1, <2>1
  <2>3. a[i] > b[i] \/ b[i] > a[i]
    <3>1. a[i] \in Nat /\ b[i] \in Nat
      BY <2>2
    <3> QED BY <2>2, <3>1
  <2>4. ASSUME NEW j \in 1..(i - 1) PROVE a[j] = b[j]
    <3>1. j \in 1..Len(a) /\ j <= Len(b) /\ ~(i <= j)
      BY <1>1, <2>2
    <3> HIDE DEF Diff
    <3> QED BY <1>2, <2>1, <3>1
  <2>5. i <= Len(a) /\ i <= Len(b)
    BY <1>1, <2>2
  <2> HIDE DEF Diff
  <2> QED BY <2>2, <2>3, <2>4, <2>5 DEF NegNameBefore
<1> QED BY <1>3, <1>4

\* Names are in lexicographic order: a name above one above another is above
\* that one.
LEMMA NameOrderIsTransitive ==
  ASSUME NEW a \in Seq(Nat), NEW b \in Seq(Nat), NEW c \in Seq(Nat),
         NegNameBefore(a, b), NegNameBefore(b, c)
  PROVE  NegNameBefore(a, c)
<1> DEFINE Same(p, q, n) == \A j \in 1..n : p[j] = q[j]
           Above(p, q, i) == i <= Len(q) /\ p[i] > q[i] /\ Same(p, q, i - 1)
           Prefix(p, q) == Len(p) < Len(q) /\ Same(p, q, Len(p))
<1>1. \A p, q : NegNameBefore(p, q) <=> (\E i \in 1..Len(p) : Above(p, q, i)) \/ Prefix(p, q)
  BY Zenon DEF NegNameBefore
<1>2. /\ Len(a) \in Nat /\ Len(b) \in Nat /\ Len(c) \in Nat
      /\ \A i \in 1..Len(a) : a[i] \in Nat
      /\ \A i \in 1..Len(b) : b[i] \in Nat
      /\ \A i \in 1..Len(c) : c[i] \in Nat
  OBVIOUS
<1>3. \A m, n \in Int : Same(a, b, m) /\ Same(b, c, n) => \A k \in Int : k <= m /\ k <= n => Same(a, c, k)
  OBVIOUS
<1>4. ASSUME NEW i \in 1..Len(a), NEW k \in 1..Len(b), Above(a, b, i), Above(b, c, k)
      PROVE  \E l \in 1..Len(a) : Above(a, c, l)
  <2>1. /\ i <= Len(b) /\ a[i] > b[i] /\ Same(a, b, i - 1)
        /\ k <= Len(c) /\ b[k] > c[k] /\ Same(b, c, k - 1)
    BY <1>4
  <2>2. (\A j \in 1..(i - 1) : a[j] = b[j]) /\ (\A j \in 1..(k - 1) : b[j] = c[j])
    BY <2>1
  <2> HIDE DEF Same
  <2>3. /\ i \in Nat /\ k \in Nat /\ i >= 1 /\ k >= 1 /\ i <= Len(a) /\ k <= Len(b)
        /\ i - 1 \in Int /\ k - 1 \in Int
    BY <1>2
  <2>4. CASE i < k
    <3>1. i \in 1..(k - 1) /\ i \in 1..Len(a) /\ i <= Len(c) /\ i - 1 <= i - 1 /\ i - 1 <= k - 1
      BY <1>2, <2>1, <2>3, <2>4
    <3>2. a[i] > c[i]
      BY <2>1, <2>2, <3>1
    <3>3. Same(a, c, i - 1)
      BY <1>3, <2>1, <2>3, <3>1
    <3> QED BY <3>1, <3>2, <3>3
  <2>5. CASE k < i
    <3>1. k \in 1..(i - 1) /\ k \in 1..Len(a) /\ k <= Len(c) /\ k - 1 <= k - 1 /\ k - 1 <= i - 1
      BY <1>2, <2>1, <2>3, <2>5
    <3>2. a[k] > c[k]
      BY <2>1, <2>2, <3>1
    <3>3. Same(a, c, k - 1)
      BY <1>3, <2>1, <2>3, <3>1
    <3> QED BY <3>1, <3>2, <3>3
  <2>6. CASE i = k
    <3>1. i \in 1..Len(a) /\ i \in 1..Len(b) /\ i \in 1..Len(c) /\ i - 1 <= i - 1
      BY <1>2, <2>1, <2>3, <2>6
    <3>2. a[i] > c[i]
      <4>1. a[i] \in Nat /\ b[i] \in Nat /\ c[i] \in Nat
        BY <1>2, <3>1
      <4>2. a[i] > b[i] /\ b[i] > c[i]
        BY <2>1, <2>6
      <4>3. \A x, y, z \in Nat : x > y /\ y > z => x > z
        OBVIOUS
      <4> QED BY <4>1, <4>2, <4>3
    <3>3. Same(a, c, i - 1)
      BY <1>3, <2>1, <2>3, <2>6, <3>1
    <3> QED BY <2>1, <2>6, <3>1, <3>2, <3>3
  <2> QED BY <2>3, <2>4, <2>5, <2>6
<1>5. ASSUME NEW i \in 1..Len(a), Above(a, b, i), Prefix(b, c)
      PROVE  Above(a, c, i)
  <2>4. i <= Len(b) /\ Len(b) < Len(c) /\ \A j \in 1..Len(b) : b[j] = c[j]
    BY <1>5
  <2>1. i \in 1..Len(b) /\ i - 1 \in Int /\ i - 1 <= Len(b) /\ i <= Len(c)
    <3> HIDE DEF Above, Same, Prefix
    <3> QED BY <1>2, <2>4
  <2>2. b[i] = c[i]
    BY <2>1, <2>4
  <2>3. Same(a, c, i - 1)
    <3> HIDE DEF Same
    <3> QED BY <1>2, <1>3, <1>5, <2>1
  <2> HIDE DEF Same
  <2> QED BY <1>5, <2>1, <2>2, <2>3
<1>6. ASSUME NEW k \in 1..Len(b), Prefix(a, b), Above(b, c, k)
      PROVE  (\E l \in 1..Len(a) : Above(a, c, l)) \/ Prefix(a, c)
  <2>1. CASE k <= Len(a)
    <3>1. k \in 1..Len(a) /\ k - 1 \in Int /\ k - 1 <= Len(a) /\ Len(a) \in Int
      BY <1>2, <2>1
    <3>2. a[k] = b[k]
      BY <1>6, <3>1
    <3>3. Same(a, c, k - 1)
      <4> HIDE DEF Same
      <4> QED BY <1>3, <1>6, <3>1
    <3> HIDE DEF Same
    <3>4. Above(a, c, k)
      BY <1>6, <3>2, <3>3
    <3> QED BY <3>1, <3>4
  <2>2. CASE k > Len(a)
    <3>1. k - 1 \in Int /\ Len(a) <= k - 1 /\ Len(a) \in Int /\ Len(a) < Len(c)
      BY <1>2, <1>6, <2>2
    <3>2. Same(a, c, Len(a))
      <4> HIDE DEF Same
      <4> QED BY <1>3, <1>6, <3>1
    <3> HIDE DEF Same
    <3> QED BY <3>1, <3>2
  <2> HIDE DEF Same, Above, Prefix
  <2> QED BY <1>2, <2>1, <2>2
<1>7. ASSUME Prefix(a, b), Prefix(b, c)
      PROVE  Prefix(a, c)
  <2>1. Len(a) < Len(c) /\ Len(a) <= Len(b) /\ Len(a) \in Int /\ Len(b) \in Int
    BY <1>2, <1>7
  <2> HIDE DEF Same
  <2> QED BY <1>3, <1>7, <2>1
<1> HIDE DEF Above, Prefix, Same
<1> QED BY <1>1, <1>4, <1>5, <1>6, <1>7

\* What a factor scores.
ScoresType(s) == s \in [AutomatedFactors -> Int \cup {Unknown}]

\* Every automated factor scores a number or Unknown.
LEMMA ScoresAreNumbers ==
  ASSUME NEW p, NEW g, IsFiniteSet(p.terms), IsFiniteSet(g.terms)
  PROVE  ScoresType(Scores(p, g))
<1>1. \A a, b : ClassMatch(a, b) \in Int \cup {Unknown}
  BY ScaleAssumption DEF ClassMatch
<1>2. Jaccard(p.terms, g.terms) \in Int \cup {Unknown}
  <2>1. CASE p.terms \cup g.terms = {}
    BY <2>1 DEF Jaccard
  <2>2. CASE p.terms \cup g.terms # {}
    <3> DEFINE u == p.terms \cup g.terms
               i == p.terms \cap g.terms
    <3>1. IsFiniteSet(u) /\ IsFiniteSet(i)
      BY FS_Union, FS_Intersection
    <3>2. Cardinality(u) \in Nat \ {0} /\ Cardinality(i) \in Nat
      <4> HIDE DEF u, i
      <4> QED BY <2>2, <3>1, FS_CardinalityType, FS_EmptySet DEF u
    <3>3. Scale * Cardinality(i) \in Nat
      <4> HIDE DEF i
      <4> QED BY <3>2, ScaleAssumption
    <3>4. (Scale * Cardinality(i)) \div Cardinality(u) \in Int
      <4> HIDE DEF i, u
      <4> QED BY <3>2, <3>3
    <3>5. Jaccard(p.terms, g.terms) = (Scale * Cardinality(i)) \div Cardinality(u)
      BY <2>2 DEF Jaccard
    <3> HIDE DEF i, u
    <3> QED BY <3>4, <3>5
  <2> QED BY <2>1, <2>2
<1>3. ScoreTenancy(p, g) \in Int \cup {Unknown}
  <2>1. ScoreTenancy(p, g) \in {0, ClassMatch(p.tenancy, g.tenancy)}
    BY Zenon DEF ScoreTenancy
  <2> QED BY <1>1, <2>1
<1>4. ScoreLifecycle(p, g) \in Int \cup {Unknown}
  <2>1. \A x, y \in Int : (x + y) \div 2 \in Int
    OBVIOUS
  <2> DEFINE l == ClassMatch(p.lifecycle, g.lifecycle)
             r == ClassMatch(p.retention, g.retention)
  <2>2. l \in Int \cup {Unknown} /\ r \in Int \cup {Unknown}
    BY <1>1
  <2>3. ScoreLifecycle(p, g) = CASE l = Unknown -> r
                                 [] l # Unknown /\ r = Unknown -> l
                                 [] OTHER -> (l + r) \div 2
    BY DEF ScoreLifecycle
  <2> HIDE DEF l, r
  <2> QED BY <2>1, <2>2, <2>3
<1>5. ScoreCoupling(p, g) \in Int \cup {Unknown}
  <2>1. ScoreCoupling(p, g) \in {Unknown, 0, ClassMatch(p.computed, g.computed)}
    BY Zenon DEF ScoreCoupling
  <2> QED BY <1>1, <2>1
<1> DEFINE score(f) == CASE f = "identity_value" -> ClassMatch(p.authority, g.authority)
                         [] f = "ontology_compatibility" -> Jaccard(p.terms, g.terms)
                         [] f = "tenancy" -> ScoreTenancy(p, g)
                         [] f = "lifecycle" -> ScoreLifecycle(p, g)
                         [] f = "computational_coupling" -> ScoreCoupling(p, g)
<1>6. \A f \in AutomatedFactors : score(f) \in Int \cup {Unknown}
  <2>1. AutomatedFactors = { "identity_value", "ontology_compatibility", "tenancy", "lifecycle",
                             "computational_coupling" }
    BY DEF AutomatedFactors, AUTOMATED_FACTORS
  <2> QED BY <1>1, <1>2, <1>3, <1>4, <1>5, <2>1
<1>7. Scores(p, g) = [f \in AutomatedFactors |-> score(f)]
  BY Zenon DEF Scores
<1> HIDE DEF score
<1> QED BY <1>6, <1>7 DEF ScoresType

\* The scores add up to an integer over the factors that have one.
LEMMA TotalIsNumber ==
  ASSUME NEW s, ScoresType(s)
  PROVE  Total(s) \in Int /\ Cardinality(Scored(s)) \in Nat
<1> DEFINE N == Len(AUTOMATED_FACTORS)
           w(n) == LET v == s[AUTOMATED_FACTORS[n]] IN IF v = Unknown THEN 0 ELSE v
           step == [n \in 1..N |-> [v \in Int |-> v + w(n)]]
           upTo[n \in 0..N] == IF n = 0 THEN 0
                               ELSE LET v == s[AUTOMATED_FACTORS[n]]
                                    IN upTo[n - 1] + IF v = Unknown THEN 0 ELSE v
<1>1. N = 5 /\ \A n \in 1..N : AUTOMATED_FACTORS[n] \in AutomatedFactors
  BY DEF AUTOMATED_FACTORS, AutomatedFactors
<1>2. \A n \in 1..N : w(n) \in Int
  BY <1>1 DEF ScoresType
<1>3. Total(s) = upTo[N]
  BY DEF Total
<1>4. Steps(Int, N, step)
  <2> HIDE DEF w
  <2> QED BY <1>1, <1>2 DEF Steps
<1>5. PICK g : Follows(Int, 0, N, step, g)
  <2> HIDE DEF step, N
  <2> QED BY <1>4, StepsCompose
<1>6. g = [n \in 0..N |-> IF n = 0 THEN 0
                          ELSE LET v == s[AUTOMATED_FACTORS[n]]
                               IN g[n - 1] + IF v = Unknown THEN 0 ELSE v]
  <2>1. g \in [0..N -> Int] /\ g[0] = 0
    BY <1>5 DEF Follows
  <2>2. \A n \in 1..N : g[n] = step[n][g[n - 1]] /\ g[n - 1] \in Int
    BY <1>1, <1>5 DEF Follows
  <2>3. \A n \in 1..N : g[n] = g[n - 1] + w(n)
    <3> HIDE DEF w
    <3> QED BY <2>2 DEF step
  <2> HIDE DEF N, step
  <2> QED BY <1>1, <2>1, <2>3
<1>7. upTo = [n \in 0..N |-> IF n = 0 THEN 0
                             ELSE LET v == s[AUTOMATED_FACTORS[n]]
                                  IN upTo[n - 1] + IF v = Unknown THEN 0 ELSE v]
  <2> HIDE DEF N, step
  <2> QED BY <1>6
<1>8. upTo[N] \in Int
  <2> HIDE DEF upTo, w, step
  <2>1. upTo[0] = 0
    BY <1>1, <1>7
  <2>2. \A n \in 1..N : upTo[n] = upTo[n - 1] + w(n)
    BY <1>1, <1>7 DEF w
  <2> QED BY <1>1, <1>2, <2>1, <2>2
<1>9. Cardinality(Scored(s)) \in Nat
  <2>1. IsFiniteSet(AutomatedFactors)
    <3>1. AutomatedFactors = { "identity_value", "ontology_compatibility", "tenancy",
                               "lifecycle", "computational_coupling" }
      BY <1>1 DEF AutomatedFactors, AUTOMATED_FACTORS
    <3>2. \A S, x : IsFiniteSet(S) => IsFiniteSet(S \cup {x})
      BY FS_AddElement
    <3>3. AutomatedFactors = ((((({} \cup {"identity_value"}) \cup {"ontology_compatibility"})
                                 \cup {"tenancy"}) \cup {"lifecycle"})
                                 \cup {"computational_coupling"})
      BY <3>1
    <3> QED BY <3>2, <3>3, FS_EmptySet
  <2>2. IsFiniteSet(Scored(s))
    BY <2>1, FS_Subset DEF Scored
  <2> QED BY <2>2, FS_CardinalityType
<1> QED BY <1>3, <1>8, <1>9

\* The aggregates are in a line: of two that differ, a third differs from one.
LEMMA FractionsInLine ==
  ASSUME NEW a \in Int, NEW b \in Int, NEW c \in Int,
         NEW m \in Nat \ {0}, NEW n \in Nat \ {0}, NEW k \in Nat \ {0}, a * n < b * m
  PROVE  a * k < c * m \/ c * n < b * k
<1> SUFFICES ASSUME c * m <= a * k, b * k <= c * n PROVE FALSE
  OBVIOUS
<1>1. (c * m) * n <= (a * k) * n
  OBVIOUS
<1>2. (b * k) * m <= (c * n) * m
  OBVIOUS
<1>3. (a * n) * k < (b * m) * k
  OBVIOUS
<1> QED BY <1>1, <1>2, <1>3

\* Lower without its abbreviations.
LEMMA LowerCompares ==
  ASSUME NEW s, NEW t
  PROVE  Lower(s, t) <=>
           IF Cardinality(Scored(s)) = 0 \/ Cardinality(Scored(t)) = 0
             THEN Cardinality(Scored(s)) = 0 /\ Cardinality(Scored(t)) > 0
             ELSE Total(s) * Cardinality(Scored(t)) < Total(t) * Cardinality(Scored(s))
BY DEF Lower

\* Lower is a strict weak order: of two that differ, a third differs from one.
LEMMA LowerIsWeakOrder ==
  ASSUME NEW s, NEW t, NEW u, ScoresType(s), ScoresType(t), ScoresType(u), Lower(s, t)
  PROVE  ~Lower(t, s) /\ (Lower(s, u) \/ Lower(u, t))
<1> DEFINE a == Total(s)
           b == Total(t)
           c == Total(u)
           m == Cardinality(Scored(s))
           n == Cardinality(Scored(t))
           k == Cardinality(Scored(u))
<1>1. /\ a \in Int /\ b \in Int /\ c \in Int /\ m \in Nat /\ n \in Nat /\ k \in Nat
  BY TotalIsNumber
<1>2. /\ Lower(s, t) <=> IF m = 0 \/ n = 0 THEN m = 0 /\ n > 0 ELSE a * n < b * m
      /\ Lower(t, s) <=> IF n = 0 \/ m = 0 THEN n = 0 /\ m > 0 ELSE b * m < a * n
      /\ Lower(s, u) <=> IF m = 0 \/ k = 0 THEN m = 0 /\ k > 0 ELSE a * k < c * m
      /\ Lower(u, t) <=> IF k = 0 \/ n = 0 THEN k = 0 /\ n > 0 ELSE c * n < b * k
  BY LowerCompares
<1>3. a * n \in Int /\ b * m \in Int
  <2> HIDE DEF a, b, m, n
  <2> QED BY <1>1
<1> HIDE DEF a, b, c, m, n, k
<1>4. CASE m = 0 \/ n = 0 \/ k = 0
  BY <1>1, <1>2, <1>3, <1>4
<1>5. CASE m # 0 /\ n # 0 /\ k # 0
  BY <1>1, <1>2, <1>3, <1>5, FractionsInLine
<1> QED BY <1>4, <1>5

\* max() of recommend() has an answer: on a registry that is not empty some
\* graph is above all others.
LEMMA BestIsFound ==
  ASSUME NEW p \in Profiles, NEW r \in Registries, r # {}
  PROVE  Best(p, r) \in r
<1> DEFINE s(g) == Scores(p, g)
           above(g, h) == Lower(s(h), s(g)) \/ (~Lower(s(g), s(h)) /\ NegNameBefore(h.name, g.name))
           R == { x \in r \X r : above(x[1], x[2]) }
<1>1. /\ IsFiniteSet(r)
      /\ \A g \in r : g.name \in Seq(Nat) /\ ScoresType(s(g))
      /\ \A g, h \in r : g # h => g.name # h.name
  BY AdviceAssumption, ScoresAreNumbers
<1>2. \A g, h \in r : <<g, h>> \in R <=> above(g, h)
  OBVIOUS
<1>3. ASSUME NEW g \in r, NEW h \in r, g # h
      PROVE  <<g, h>> \in R \/ <<h, g>> \in R
  <2>1. NegNameBefore(g.name, h.name) \/ NegNameBefore(h.name, g.name)
    BY <1>1, <1>3, NamesAreOrdered
  <2> HIDE DEF R
  <2>2. above(g, h) \/ above(h, g)
    BY <2>1
  <2> HIDE DEF above
  <2> QED BY <1>2, <2>2
<1>4. ASSUME NEW g \in r, NEW h \in r, NEW i \in r, <<g, h>> \in R, <<h, i>> \in R
      PROVE  <<g, i>> \in R
  <2> DEFINE sg == s(g)
             sh == s(h)
             si == s(i)
  <2>1. ScoresType(sg) /\ ScoresType(sh) /\ ScoresType(si)
    BY <1>1
  <2>2. /\ Lower(sh, sg) \/ (~Lower(sg, sh) /\ NegNameBefore(h.name, g.name))
        /\ Lower(si, sh) \/ (~Lower(sh, si) /\ NegNameBefore(i.name, h.name))
    <3>1. above(g, h) /\ above(h, i)
      BY <1>2, <1>4
    <3> QED BY <3>1
  <2> HIDE DEF sg, sh, si
  <2>3. \A x, y, z : ScoresType(x) /\ ScoresType(y) /\ ScoresType(z) /\ Lower(x, y) =>
                       ~Lower(y, x) /\ (Lower(x, z) \/ Lower(z, y))
    BY LowerIsWeakOrder
  <2>4. NegNameBefore(i.name, h.name) /\ NegNameBefore(h.name, g.name) =>
          NegNameBefore(i.name, g.name)
    BY <1>1, NameOrderIsTransitive
  <2>5. Lower(si, sg) \/ (~Lower(sg, si) /\ NegNameBefore(i.name, g.name))
    <3>1. Lower(sh, sg) => Lower(sh, si) \/ Lower(si, sg)
      BY <2>1, <2>3
    <3>2. Lower(si, sh) => Lower(si, sg) \/ Lower(sg, sh)
      BY <2>1, <2>3
    <3>3. Lower(sg, si) => Lower(sg, sh) \/ Lower(sh, si)
      BY <2>1, <2>3
    <3>4. /\ ~(Lower(sg, sh) /\ Lower(sh, sg)) /\ ~(Lower(sh, si) /\ Lower(si, sh))
      BY <2>1, <2>3
    <3> QED BY <2>2, <2>4, <3>1, <3>2, <3>3, <3>4
  <2>6. above(g, i)
    BY <2>5 DEF sg, sh, si
  <2> HIDE DEF above, R
  <2> QED BY <1>2, <2>6
<1>5. PICK g \in r : \A h \in r \ {g} : <<g, h>> \in R
  <2> HIDE DEF R, above, s
  <2>1. \A g, h \in r : g # h => <<g, h>> \in R \/ <<h, g>> \in R
    BY <1>3
  <2>2. \A g, h, i \in r : <<g, h>> \in R /\ <<h, i>> \in R /\ g # i => <<g, i>> \in R
    BY <1>4
  <2>3. \E g \in r : \A h \in r \ {g} : <<g, h>> \in R
    BY <1>1, <2>1, <2>2, GreatestMember
  <2> QED BY <2>3
<1>6. \A h \in r \ {g} : above(g, h)
  <2> HIDE DEF R, above, s
  <2> QED BY <1>2, <1>5
<1>7. Best(p, r) = CHOOSE x \in r : \A h \in r \ {x} : above(x, h)
  BY Zenon DEF Best
<1> HIDE DEF above, s, R
<1> QED BY <1>6, <1>7

\* Extending demands enough factors, and the tenancy and the coupling of the
\* best graph: a score of 0 is below their floors.
LEMMA ExtendIsGuarded ==
  ASSUME NEW p \in Profiles, NEW g, IsFiniteSet(g.terms),
         Classify(Scores(p, g)) = "EXTEND_SAME_PHYSICAL"
  PROVE  /\ p.minors = TRUE => g.minors = TRUE
         /\ p.computed = TRUE => g.computed = TRUE
         /\ g.tenancy = p.tenancy \/ Unknown \in {g.tenancy, p.tenancy}
<1> DEFINE s == Scores(p, g)
<1>1. AboveFloor(s["tenancy"], TenancyFloor) /\ AboveFloor(s["computational_coupling"], CouplingFloor)
  <2> HIDE DEF s
  <2>1. Classify(s) = "EXTEND_SAME_PHYSICAL" =>
          /\ AboveFloor(s["tenancy"], TenancyFloor)
          /\ AboveFloor(s["computational_coupling"], CouplingFloor)
    BY DEF Classify
  <2> QED BY <2>1 DEF s
<1>2. s["tenancy"] = ScoreTenancy(p, g) /\ s["computational_coupling"] = ScoreCoupling(p, g)
  <2>1. "tenancy" \in AutomatedFactors /\ "computational_coupling" \in AutomatedFactors
    BY DEF AutomatedFactors, AUTOMATED_FACTORS
  <2> QED BY <2>1 DEF Scores
<1>3. \A floor \in Nat \ {0} : ~AboveFloor(0, floor)
  BY ScaleAssumption, UnknownAssumption DEF AboveFloor
<1>4. ScoreTenancy(p, g) # 0 /\ ScoreCoupling(p, g) # 0
  BY <1>1, <1>2, <1>3 DEF TenancyFloor, CouplingFloor
<1>5. p.minors = TRUE => g.minors = TRUE
  BY <1>4, Zenon DEF ScoreTenancy
<1>6. p.computed = TRUE => g.computed = TRUE
  <2>1. TRUE # Unknown
    BY UnknownAssumption
  <2>2. ASSUME p.computed = TRUE, g.computed # TRUE
        PROVE  ScoreCoupling(p, g) = 0
    BY <2>1, <2>2 DEF ScoreCoupling
  <2> QED BY <1>4, <2>2
<1>7. ClassMatch(p.tenancy, g.tenancy) # 0
  BY <1>4, <1>5, Zenon DEF ScoreTenancy
<1>8. g.tenancy = p.tenancy \/ Unknown \in {g.tenancy, p.tenancy}
  BY <1>7 DEF ClassMatch
<1> QED BY <1>5, <1>6, <1>8

\* What recommend() answers about a registry that is not empty.
LEMMA AdviceOnBest ==
  ASSUME NEW p, NEW r, r # {}
  PROVE  LET best == Best(p, r)  s == Scores(p, best) IN
         Recommend(p, r) =
           [ outcome |-> IF Cardinality(Scored(s)) < MinScoredFactors
                           THEN "INSUFFICIENT_INFORMATION" ELSE Classify(s),
             target |-> best.name, scored |-> Scored(s) ]
BY Zenon DEF Recommend

\* Data is put into a physical graph only if it is marked for what the data
\* is and two factors speak for it, an extension names one graph of the
\* registry, and the other graphs change nothing: for any profiles, any
\* finite registries and any scale of the scores.
THEOREM AdviceStaysGuarded == Spec => []AdviceIsGuarded
<1>1. Init => AdviceIsGuarded
  BY DEF Init, Nothing, AdviceIsGuarded
<1>2. ASSUME Next PROVE AdviceIsGuarded'
  <2>1. CASE call'.op # "advise"
    BY <2>1 DEF AdviceIsGuarded
  <2>2. CASE call'.op = "advise"
    <3>1. PICK p \in Profiles, r \in Registries :
            call' = [op |-> "advise", given |-> [profile |-> p, registry |-> r],
                     answer |-> Recommend(p, r)]
      BY <1>2, <2>2, WhoAnswers DEF Advise, Call
    <3> DEFINE answer == Recommend(p, r)
               target == { g \in r : g.name = answer.target }
    <3>6. r # {} => target = {Best(p, r)}
      BY BestIsFound, AdviceOnBest, AdviceAssumption
    <3>2. ASSUME answer.outcome = "EXTEND_SAME_PHYSICAL"
          PROVE  /\ Cardinality(answer.scored) >= 2
                 /\ \A g \in target :
                      /\ p.minors = TRUE => g.minors = TRUE
                      /\ p.computed = TRUE => g.computed = TRUE
                      /\ g.tenancy = p.tenancy \/ Unknown \in {g.tenancy, p.tenancy}
      <4>1. r # {}
        BY <3>2 DEF Recommend
      <4> DEFINE best == Best(p, r)
      <4>2. best \in r /\ answer.target = best.name /\ answer.scored = Scored(Scores(p, best))
        BY <4>1, AdviceOnBest, BestIsFound
      <4>3. /\ ~(Cardinality(answer.scored) < MinScoredFactors)
            /\ Classify(Scores(p, best)) = "EXTEND_SAME_PHYSICAL"
        BY <3>2, <4>1, AdviceOnBest
      <4>4. IsFiniteSet(best.terms) /\ \A g \in target : g = best
        BY <4>2, AdviceAssumption
      <4>5. Cardinality(answer.scored) \in Nat
        BY <4>2, <4>4, TotalIsNumber, ScoresAreNumbers, AdviceAssumption
      <4> HIDE DEF answer, best, target
      <4>6. Cardinality(answer.scored) >= 2
        BY <4>3, <4>5 DEF MinScoredFactors
      <4>7. /\ p.minors = TRUE => best.minors = TRUE
            /\ p.computed = TRUE => best.computed = TRUE
            /\ best.tenancy = p.tenancy \/ Unknown \in {best.tenancy, p.tenancy}
        BY <4>3, <4>4, ExtendIsGuarded
      <4> QED BY <4>4, <4>6, <4>7
    <3>3. ToContract(answer).action = "extend" => Cardinality(target) = 1
      <4>1. SUFFICES ASSUME ToContract(answer).action = "extend" PROVE Cardinality(target) = 1
        OBVIOUS
      <4>2. answer.outcome \in ExtendOutcomes
        BY <4>1 DEF ToContract
      <4>3. r # {}
        BY <4>2 DEF Recommend, ExtendOutcomes
      <4>4. target = {Best(p, r)}
        BY <4>3, <3>6
      <4> QED BY <4>4, FS_Singleton
    <3>4. target # {} => Recommend(p, target) = answer
      <4>1. SUFFICES ASSUME target # {} PROVE Recommend(p, target) = answer
        OBVIOUS
      <4>2. r # {}
        BY <4>1
      <4> DEFINE best == Best(p, r)
      <4>3. target = {best}
        BY <4>2, <3>6
      <4>4. Best(p, {best}) = best
        BY DEF Best
      <4> HIDE DEF answer, target
      <4> QED BY <4>2, <4>3, <4>4, AdviceOnBest DEF answer
    <3>5. /\ call'.given.profile = p /\ call'.given.registry = r
          /\ call'.answer = answer
      BY <3>1
    <3> HIDE DEF answer
    <3> QED BY <3>2, <3>3, <3>4, <3>5 DEF AdviceIsGuarded
  <2> QED BY <2>1, <2>2
<1>3. AdviceIsGuarded /\ UNCHANGED call => AdviceIsGuarded'
  BY DEF AdviceIsGuarded
<1> QED BY <1>1, <1>2, <1>3, PTL DEF Spec

-----------------------------------------------------------------------------
(* Passages *)

\* Slices, element by element, and slices of slices.
LEMMA SliceProperties ==
  ASSUME NEW T, NEW text \in Seq(T)
  PROVE  \A a, b \in Int : 0 <= a /\ a <= b /\ b <= Len(text) =>
           /\ Slice(text, a, b) \in Seq(T)
           /\ Len(Slice(text, a, b)) = b - a
           /\ \A i \in 1..(b - a) : Slice(text, a, b)[i] = text[a + i]
<1> SUFFICES ASSUME NEW a \in Int, NEW b \in Int, 0 <= a, a <= b, b <= Len(text)
             PROVE  /\ Slice(text, a, b) \in Seq(T)
                    /\ Len(Slice(text, a, b)) = b - a
                    /\ \A i \in 1..(b - a) : Slice(text, a, b)[i] = text[a + i]
  OBVIOUS
<1> DEFINE m == a + 1
           s == SubSeq(text, m, b)
<1>1. m \in Int /\ \A i \in m..b : text[i] \in T
  OBVIOUS
<1>2. /\ b - m + 1 = b - a
      /\ \A i \in Int : m + i - 1 = a + i
      /\ (IF m <= b THEN b - m + 1 ELSE 0) = b - a
  OBVIOUS
<1>3. Slice(text, a, b) = s
  BY DEF Slice
<1> HIDE DEF m
<1>4. /\ s \in Seq(T)
      /\ Len(s) = IF m <= b THEN b - m + 1 ELSE 0
      /\ \A i \in 1..(b - m + 1) : s[i] = text[m + i - 1]
  BY <1>1, SubSeqProperties
<1> HIDE DEF s
<1>5. \A i \in 1..(b - a) : s[i] = text[a + i]
  BY <1>2, <1>4
<1> QED BY <1>2, <1>3, <1>4, <1>5

\* A slice of a slice is a slice of the text.
LEMMA SliceOfSlice ==
  ASSUME NEW T, NEW text \in Seq(T)
  PROVE  \A a, b, i, j \in Int :
           /\ 0 <= a /\ a <= b /\ b <= Len(text)
           /\ 0 <= i /\ i <= j /\ j <= b - a
           => Slice(Slice(text, a, b), i, j) = Slice(text, a + i, a + j)
<1> DEFINE Sliced(t) == \A a, b \in Int : 0 <= a /\ a <= b /\ b <= Len(t) =>
                          /\ Slice(t, a, b) \in Seq(T)
                          /\ Len(Slice(t, a, b)) = b - a
                          /\ \A k \in 1..(b - a) : Slice(t, a, b)[k] = t[a + k]
<1>1. \A t \in Seq(T) : Sliced(t)
  BY SliceProperties
<1> SUFFICES ASSUME NEW a \in Int, NEW b \in Int, 0 <= a, a <= b, b <= Len(text),
                    NEW i \in Int, NEW j \in Int, 0 <= i, i <= j, j <= b - a
             PROVE  Slice(Slice(text, a, b), i, j) = Slice(text, a + i, a + j)
  OBVIOUS
<1> DEFINE s == Slice(text, a, b)
           c == a + i
           d == a + j
<1> HIDE DEF Sliced
<1>2. Sliced(text)
  BY <1>1
<1>3. /\ s \in Seq(T) /\ Len(s) = b - a
      /\ \A k \in 1..(b - a) : s[k] = text[a + k]
  BY <1>2 DEF Sliced
<1> HIDE DEF s
<1>4. Sliced(s)
  BY <1>1, <1>3
<1>5. /\ Slice(s, i, j) \in Seq(T) /\ Len(Slice(s, i, j)) = j - i
      /\ \A k \in 1..(j - i) : Slice(s, i, j)[k] = s[i + k]
  BY <1>3, <1>4 DEF Sliced
<1>6. /\ c \in Int /\ d \in Int /\ 0 <= c /\ c <= d /\ d <= Len(text) /\ d - c = j - i
      /\ \A k \in 1..(j - i) : i + k \in 1..(b - a) /\ a + (i + k) = c + k
  OBVIOUS
<1> HIDE DEF c, d
<1>7. /\ Slice(text, c, d) \in Seq(T) /\ Len(Slice(text, c, d)) = d - c
      /\ \A k \in 1..(d - c) : Slice(text, c, d)[k] = text[c + k]
  BY <1>2, <1>6 DEF Sliced
<1>8. \A k \in 1..Len(Slice(s, i, j)) : Slice(s, i, j)[k] = Slice(text, c, d)[k]
  <2> SUFFICES ASSUME NEW k \in 1..(j - i) PROVE Slice(s, i, j)[k] = Slice(text, c, d)[k]
    BY <1>5
  <2>1. i + k \in 1..(b - a) /\ a + (i + k) = c + k /\ k \in 1..(d - c)
    BY <1>6
  <2>2. Slice(s, i, j)[k] = s[i + k] /\ s[i + k] = text[a + (i + k)]
    BY <1>3, <1>5, <2>1
  <2>3. Slice(text, c, d)[k] = text[c + k]
    BY <1>7, <2>1
  <2> QED BY <2>1, <2>2, <2>3
<1>9. Slice(s, i, j) = Slice(text, c, d)
  <2> DEFINE x == Slice(s, i, j)
             y == Slice(text, c, d)
  <2>1. x \in Seq(T) /\ y \in Seq(T) /\ Len(x) = Len(y) /\ \A k \in 1..Len(x) : x[k] = y[k]
    BY <1>5, <1>6, <1>7, <1>8
  <2> HIDE DEF x, y
  <2>2. x = y
    BY <2>1, SeqEqual
  <2> QED BY <2>2 DEF x, y
<1> QED BY <1>9 DEF s, c, d

\* Where a quote occurs in a text.
LEMMA OccurrencesAreNat ==
  ASSUME NEW T, NEW text \in Seq(T), NEW Q, NEW quote \in Seq(Q)
  PROVE  \A i \in Occurrences(text, quote) :
           /\ i \in Nat /\ i + Len(quote) \in Nat
           /\ i <= i + Len(quote) /\ i + Len(quote) <= Len(text)
           /\ Slice(text, i, i + Len(quote)) = quote
BY DEF Occurrences

\* The least of a set of numbers is one of them.
LEMMA MinIsMember ==
  ASSUME NEW S \in SUBSET Nat, S # {}
  PROVE  Min(S) \in S /\ \A n \in S : Min(S) <= n
<1>1. \E m \in S : \A n \in S : m <= n
  BY LeastMember
<1> QED BY <1>1 DEF Min

\* So is the greatest of a bounded one.
LEMMA MaxIsMember ==
  ASSUME NEW N \in Nat, NEW S \in SUBSET (0..N), S # {}
  PROVE  Max(S) \in S /\ \A n \in S : Max(S) >= n
<1> DEFINE T == { N - n : n \in S }
<1>1. T \in SUBSET Nat /\ T # {}
  OBVIOUS
<1>2. PICK m \in T : \A n \in T : m <= n
  <2> HIDE DEF T
  <2> QED BY <1>1, LeastMember
<1>3. PICK k \in S : m = N - k
  BY <1>2
<1>4. ASSUME NEW n \in S PROVE k >= n
  <2>1. N - n \in T
    OBVIOUS
  <2>2. N - k <= N - n
    BY <1>2, <1>3, <2>1
  <2> QED BY <2>2
<1>5. \E x \in S : \A y \in S : x >= y
  BY <1>4
<1> QED BY <1>5 DEF Max

\* The offset chosen: an occurrence, one that is claimed already only if all
\* are, and -1 only if there is none.
LEMMA OffsetChosen ==
  ASSUME NEW T, NEW text \in Seq(T), NEW Q, NEW quote \in Seq(Q), NEW used
  PROVE  LET all == Occurrences(text, quote)  at == NextUnusedOffset(text, quote, used) IN
         /\ all = {} => at = -1
         /\ all # {} => at \in all /\ (at \in used => all \subseteq used)
<1> DEFINE all == Occurrences(text, quote)
           at == NextUnusedOffset(text, quote, used)
<1>1. all \in SUBSET Nat
  BY OccurrencesAreNat
<1>2. at = IF all \ used # {} THEN Min(all \ used) ELSE IF all = {} THEN -1 ELSE Min(all)
  BY DEF NextUnusedOffset, First
<1>3. /\ all \ used # {} => Min(all \ used) \in all \ used
      /\ all # {} => Min(all) \in all
  <2> HIDE DEF all
  <2>1. all \ used \in SUBSET Nat
    BY <1>1
  <2> QED BY <1>1, <2>1, MinIsMember
<1> HIDE DEF all, at
<1>4. /\ all = {} => at = -1
      /\ all # {} => at \in all /\ (at \in used => all \subseteq used)
  BY <1>2, <1>3
<1> QED BY <1>4 DEF all, at

\* An entry's quote: not a text, or a text.
QuoteType(quote) == quote \in {Absent, Malformed} \/ quote \in Seq(ToSet(quote))

Quotable(quote) == quote \notin {Absent, Malformed, <<>>}

\* What PopQuote takes from an entry: a span where the quote occurs, claimed;
\* nothing only if it occurs nowhere.
LEMMA PoppedQuote ==
  ASSUME NEW entry, QuoteType(entry.quote), NEW T, NEW chunk, chunk.text \in Seq(T),
         chunk.span.start \in Nat, NEW used
  PROVE  LET popped == PopQuote(entry, chunk, used)
             all == Occurrences(chunk.text, entry.quote)
         IN /\ popped.span = Absent =>
                 popped.claimed = {} /\ (Quotable(entry.quote) => all = {})
            /\ popped.span # Absent =>
                 /\ Quotable(entry.quote) /\ entry.quote \in Seq(ToSet(entry.quote))
                 /\ \E at \in all :
                      /\ popped.span = Span(chunk.span.start + at,
                                            chunk.span.start + at + Len(entry.quote))
                      /\ popped.claimed = {at}
                      /\ at \in used => all \subseteq used
<1> DEFINE popped == PopQuote(entry, chunk, used)
           all == Occurrences(chunk.text, entry.quote)
           at == NextUnusedOffset(chunk.text, entry.quote, used)
           start == chunk.span.start + at
           dropped == [span |-> Absent, claimed |-> {}, warned |-> entry.quote # Absent]
           taken == [span |-> Span(start, start + Len(entry.quote)), claimed |-> {at},
                     warned |-> FALSE]
<1>1. popped = IF ~Quotable(entry.quote) THEN dropped ELSE IF at < 0 THEN dropped ELSE taken
  BY DEF PopQuote, Quotable
<1>2. CASE ~Quotable(entry.quote)
  BY <1>1, <1>2
<1>3. CASE Quotable(entry.quote)
  <2>1. entry.quote \in Seq(ToSet(entry.quote))
    BY <1>3 DEF QuoteType, Quotable
  <2>2. /\ all = {} => at = -1
        /\ all # {} => at \in all /\ (at \in used => all \subseteq used)
    BY <2>1, OffsetChosen
  <2>3. CASE all = {}
    <3>1. popped = dropped
      BY <1>1, <2>2, <2>3
    <3> QED BY <2>3, <3>1
  <2>4. CASE all # {}
    <3>1. at \in Nat
      BY <2>1, <2>2, <2>4, OccurrencesAreNat
    <3>2. popped = taken
      <4> HIDE DEF at, popped, taken, dropped
      <4> QED BY <1>1, <1>3, <3>1
    <3>3. start \in Nat /\ start + Len(entry.quote) \in Nat
      BY <2>1, <3>1
    <3>4. popped.span # Absent
      <4>1. popped.span = [start |-> start, end |-> start + Len(entry.quote)]
        BY <3>2 DEF Span
      <4> HIDE DEF popped, start
      <4> QED BY <3>3, <4>1, ExtractAssumption
    <3>5. popped.span = Span(start, start + Len(entry.quote)) /\ popped.claimed = {at}
      BY <3>2
    <3>6. popped.span = Span(chunk.span.start + at, chunk.span.start + at + Len(entry.quote))
      BY <3>5
    <3> HIDE DEF popped, at, all
    <3>7. \E x \in all : /\ popped.span = Span(chunk.span.start + x,
                                                chunk.span.start + x + Len(entry.quote))
                         /\ popped.claimed = {x} /\ (x \in used => all \subseteq used)
      BY <2>2, <2>4, <3>5, <3>6
    <3> QED BY <1>3, <2>1, <3>4, <3>7 DEF popped, all
  <2> QED BY <2>3, <2>4
<1> QED BY <1>2, <1>3

\* A response that can be parsed, and a chunk.
Parsable(response) ==
  response \in Seq(ToSet(response)) /\ \A i \in DOMAIN response : QuoteType(response[i].quote)

IsChunk(chunk) == chunk.text \in Seq(ToSet(chunk.text)) /\ chunk.span.start \in Nat

\* What an entry claims are offsets.
LEMMA ClaimedAreOffsets ==
  ASSUME NEW entry, QuoteType(entry.quote), NEW chunk, IsChunk(chunk), NEW used
  PROVE  PopQuote(entry, chunk, used).claimed \in SUBSET Int
<1> DEFINE p == PopQuote(entry, chunk, used)
           all == Occurrences(chunk.text, entry.quote)
<1>1. chunk.text \in Seq(ToSet(chunk.text)) /\ chunk.span.start \in Nat
  BY DEF IsChunk
<1>2. /\ p.span = Absent => p.claimed = {}
      /\ p.span # Absent => /\ entry.quote \in Seq(ToSet(entry.quote))
                            /\ \E at \in all : p.claimed = {at}
  BY <1>1, PoppedQuote
<1>3. entry.quote \in Seq(ToSet(entry.quote)) => all \in SUBSET Int
  BY <1>1, OccurrencesAreNat
<1> HIDE DEF p, all
<1>4. p.claimed \in SUBSET Int
  BY <1>2, <1>3
<1> QED BY <1>4 DEF p

\* The item parse() makes of an entry, after what was claimed before it.
ItemOf(entry, chunk, used) ==
  LET popped == PopQuote(entry, chunk, used) IN
  [ confidence |-> entry.confidence, span |-> popped.span, warned |-> popped.warned,
    quote |-> IF popped.span = Absent THEN Absent ELSE entry.quote ]

\* used[i] is what the first i entries claimed.
Claims(response, chunk, used) ==
  /\ used[0] = {}
  /\ \A i \in 1..Len(response) :
       used[i] = used[i - 1] \cup PopQuote(response[i], chunk, used[i - 1]).claimed

\* parse() goes through the entries one after the other.
LEMMA ParseFollows ==
  ASSUME NEW response, Parsable(response), NEW chunk, IsChunk(chunk)
  PROVE  /\ DOMAIN Parse(response, chunk) = 1..Len(response)
         /\ \E used : /\ Claims(response, chunk, used)
                      /\ \A i \in 1..Len(response) :
                           Parse(response, chunk)[i] = ItemOf(response[i], chunk, used[i - 1])
<1> DEFINE N == Len(response)
           pop(n, v) == PopQuote(response[n], chunk, v.used)
           item(n, v) == ItemOf(response[n], chunk, v.used)
           next(n, v) == [items |-> Append(v.items, item(n, v)),
                          used |-> v.used \cup pop(n, v).claimed]
           first == [items |-> <<>>, used |-> {}]
           I == { ItemOf(response[n], chunk, u) : n \in 1..N, u \in SUBSET Int }
           S == [items: Seq(I), used: SUBSET Int]
           step == [n \in 1..N |-> [v \in S |-> next(n, v)]]
           upTo[n \in 0..Len(response)] ==
             IF n = 0
               THEN [items |-> <<>>, used |-> {}]
               ELSE LET popped == PopQuote(response[n], chunk, upTo[n - 1].used)
                        made == [ confidence |-> response[n].confidence,
                                  span |-> popped.span, warned |-> popped.warned,
                                  quote |-> IF popped.span = Absent THEN Absent
                                                                    ELSE response[n].quote ]
                    IN [items |-> Append(upTo[n - 1].items, made),
                        used |-> upTo[n - 1].used \cup popped.claimed]
<1>1. N \in Nat /\ first \in S
  BY DEF Parsable
<1>2. \A n \in 1..N, u \in SUBSET Int : ItemOf(response[n], chunk, u) \in I
  OBVIOUS
<1>3. ASSUME NEW n \in 1..N, NEW v \in S PROVE next(n, v) \in S
  <2>1. v.items \in Seq(I) /\ v.used \in SUBSET Int
    OBVIOUS
  <2>2. item(n, v) \in I
    <3> HIDE DEF I
    <3> QED BY <1>2, <2>1
  <2>3. pop(n, v).claimed \in SUBSET Int
    <3>1. n \in DOMAIN response /\ QuoteType(response[n].quote)
      BY DEF Parsable
    <3> QED BY <3>1, ClaimedAreOffsets
  <2> HIDE DEF I, item, pop
  <2>4. Append(v.items, item(n, v)) \in Seq(I)
    BY <2>1, <2>2
  <2> QED BY <2>1, <2>3, <2>4
<1>4. PICK g : Follows(S, first, N, step, g)
  <2>1. Steps(S, N, step)
    <3> HIDE DEF next, S, N
    <3> QED BY <1>1, <1>3 DEF Steps
  <2> HIDE DEF S, step, N, first
  <2> QED BY <1>1, <2>1, StepsCompose
<1>5. g = [n \in 0..N |-> IF n = 0 THEN first ELSE next(n, g[n - 1])]
  <2> HIDE DEF next, S, N, first, step
  <2>1. g \in [0..N -> S] /\ g[0] = first
    BY <1>4 DEF Follows
  <2>2. \A n \in 1..N : g[n] = step[n][g[n - 1]] /\ g[n - 1] \in S
    BY <1>1, <1>4 DEF Follows
  <2>3. \A n \in 1..N : g[n] = next(n, g[n - 1])
    BY <2>2 DEF step
  <2> QED BY <1>1, <2>1, <2>3
<1>6. upTo = [n \in 0..N |-> IF n = 0 THEN first ELSE next(n, upTo[n - 1])]
  <2>1. upTo = CHOOSE f : f = [n \in 0..N |-> IF n = 0 THEN first ELSE next(n, f[n - 1])]
    BY Zenon DEF ItemOf
  <2> HIDE DEF upTo, next, first, N
  <2> QED BY <1>5, <2>1
<1>7. Parse(response, chunk) = upTo[N].items
  BY DEF Parse
<1> HIDE DEF upTo, next, first, S, step, I, item, pop
<1>8. upTo[0] = first /\ \A n \in 1..N : upTo[n] = next(n, upTo[n - 1])
  <2> HIDE DEF N
  <2> QED BY <1>1, <1>6
<1> DEFINE Good(n) == /\ upTo[n] \in S /\ Len(upTo[n].items) = n
                      /\ \A i \in 1..n : upTo[n].items[i] = item(i, upTo[i - 1])
           G == { n \in 0..N : Good(n) }
<1>9. \A n \in 0..N : n \in G
  <2>1. 0 \in G
    BY <1>1, <1>8 DEF first
  <2>2. ASSUME NEW n \in 1..N, n - 1 \in G PROVE n \in G
    <3>1. Good(n - 1)
      BY <2>2
    <3> DEFINE v == upTo[n - 1]
               x == item(n, v)
    <3>2. v \in S /\ v.items \in Seq(I) /\ Len(v.items) = n - 1 /\ upTo[n] = next(n, v)
      BY <1>8, <3>1 DEF S
    <3>3. upTo[n] \in S /\ x \in I
      <4>1. upTo[n] \in S
        BY <1>3, <3>2
      <4>2. x \in I
        BY <1>2, <3>2 DEF item, S
      <4> QED BY <4>1, <4>2
    <3>4. upTo[n].items = Append(v.items, x)
      BY <3>2 DEF next
    <3> HIDE DEF v, x
    <3>5. /\ Len(upTo[n].items) = n
          /\ upTo[n].items[n] = x
          /\ \A i \in 1..(n - 1) : upTo[n].items[i] = v.items[i]
      BY <3>2, <3>3, <3>4
    <3>6. ASSUME NEW i \in 1..n PROVE upTo[n].items[i] = item(i, upTo[i - 1])
      <4>1. CASE i = n
        BY <3>5, <4>1 DEF v, x
      <4>2. CASE i # n
        <5>1. i \in 1..(n - 1)
          BY <4>2
        <5>2. v.items[i] = item(i, upTo[i - 1])
          BY <3>1, <5>1 DEF v
        <5> QED BY <3>5, <5>1, <5>2
      <4> QED BY <4>1, <4>2
    <3> QED BY <3>3, <3>5, <3>6
  <2> HIDE DEF G, N
  <2> QED BY <1>1, <2>1, <2>2, InductionUpTo
<1> DEFINE used == [n \in 0..N |-> upTo[n].used]
<1>10. Good(N)
  BY <1>1, <1>9
<1>11. DOMAIN Parse(response, chunk) = 1..N
  BY <1>1, <1>7, <1>10 DEF S
<1>12. \A i \in 1..N : i - 1 \in 0..N /\ i \in 0..N /\ used[i - 1] = upTo[i - 1].used
  BY <1>1
<1>13. \A i \in 1..N : Parse(response, chunk)[i] = ItemOf(response[i], chunk, used[i - 1])
  BY <1>7, <1>10, <1>12 DEF item
<1>14. Claims(response, chunk, used)
  <2>1. used[0] = {}
    BY <1>1, <1>8 DEF first
  <2>2. ASSUME NEW i \in 1..N
        PROVE  used[i] = used[i - 1] \cup PopQuote(response[i], chunk, used[i - 1]).claimed
    <3>1. used[i] = next(i, upTo[i - 1]).used
      BY <1>8, <1>12
    <3> QED BY <1>12, <3>1 DEF next, pop
  <2> HIDE DEF used
  <2> QED BY <2>1, <2>2 DEF Claims
<1> HIDE DEF used
<1> QED BY <1>11, <1>13, <1>14

\* What is claimed before an entry are the starts of the earlier quotes.
LEMMA ClaimsAreCited ==
  ASSUME NEW response, Parsable(response), NEW chunk, IsChunk(chunk),
         NEW used, Claims(response, chunk, used)
  PROVE  \A n \in 0..Len(response) :
           /\ \A x \in used[n] : \E c \in 1..n :
                LET popped == PopQuote(response[c], chunk, used[c - 1]) IN
                popped.span # Absent /\ popped.span.start = chunk.span.start + x
           /\ \A c \in 1..n :
                PopQuote(response[c], chunk, used[c - 1]).claimed \subseteq used[n]
<1> DEFINE N == Len(response)
           pop(c) == PopQuote(response[c], chunk, used[c - 1])
           By(c, x) == pop(c).span # Absent /\ pop(c).span.start = chunk.span.start + x
           Good(n) == /\ \A x \in used[n] : \E c \in 1..n : By(c, x)
                      /\ \A c \in 1..n : pop(c).claimed \subseteq used[n]
           G == { n \in 0..N : Good(n) }
<1>1. N \in Nat
  BY DEF Parsable
<1>2. used[0] = {} /\ \A i \in 1..N : used[i] = used[i - 1] \cup pop(i).claimed
  BY DEF Claims
<1>3. ASSUME NEW c \in 1..N, NEW x \in pop(c).claimed PROVE By(c, x)
  <2>1. QuoteType(response[c].quote) /\ chunk.text \in Seq(ToSet(chunk.text)) /\ chunk.span.start \in Nat
    BY DEF Parsable, IsChunk
  <2> DEFINE p == pop(c)
             all == Occurrences(chunk.text, response[c].quote)
  <2>2. /\ p.span = Absent => p.claimed = {}
        /\ p.span # Absent => \E at \in all :
             /\ p.span = Span(chunk.span.start + at,
                              chunk.span.start + at + Len(response[c].quote))
             /\ p.claimed = {at}
    BY <2>1, PoppedQuote
  <2>3. x \in p.claimed
    BY <1>3
  <2> HIDE DEF p, all
  <2>4. p.span # Absent /\ p.span.start = chunk.span.start + x
    <3>1. p.span # Absent
      BY <2>2, <2>3
    <3>2. PICK at \in all : /\ p.span = Span(chunk.span.start + at,
                                             chunk.span.start + at + Len(response[c].quote))
                            /\ p.claimed = {at}
      BY <2>2, <3>1
    <3>3. x = at
      BY <2>3, <3>2
    <3>4. \A m, n : Span(m, n).start = m
      BY DEF Span
    <3> QED BY <3>1, <3>2, <3>3, <3>4
  <2> QED BY <2>4 DEF p
<1> HIDE DEF pop, By
<1>4. \A n \in 0..N : n \in G
  <2>1. 0 \in G
    BY <1>1, <1>2
  <2>2. ASSUME NEW n \in 1..N, n - 1 \in G PROVE n \in G
    <3>1. Good(n - 1)
      BY <2>2
    <3>2. ASSUME NEW x \in used[n] PROVE \E c \in 1..n : By(c, x)
      <4>1. CASE x \in pop(n).claimed
        BY <1>1, <1>3, <4>1
      <4>2. CASE x \in used[n - 1]
        BY <3>1, <4>2
      <4> QED BY <1>2, <3>2, <4>1, <4>2
    <3>3. ASSUME NEW c \in 1..n PROVE pop(c).claimed \subseteq used[n]
      <4>1. CASE c = n
        BY <1>2, <4>1
      <4>2. CASE c # n
        <5>1. c \in 1..(n - 1)
          BY <4>2
        <5> QED BY <1>2, <3>1, <5>1
      <4> QED BY <4>1, <4>2
    <3> QED BY <3>2, <3>3
  <2> HIDE DEF G, N
  <2> QED BY <1>1, <2>1, <2>2, InductionUpTo
<1>5. \A n \in 0..N : Good(n)
  BY <1>4
<1> QED BY <1>5 DEF pop, By

\* A chunk of a text.
ChunkOf(chunk, text, a, b) ==
  /\ text \in Seq(ToSet(text)) /\ a \in Nat /\ b \in Nat /\ a <= b /\ b <= Len(text)
  /\ chunk.span = Span(a, b) /\ chunk.text = Slice(text, a, b)

\* A chunk of a text has a text of its own and starts where its span does.
LEMMA ChunkIsChunk ==
  ASSUME NEW chunk, NEW text, NEW a, NEW b, ChunkOf(chunk, text, a, b)
  PROVE  IsChunk(chunk) /\ chunk.span.start = a /\ chunk.span.end = b
<1>1. text \in Seq(ToSet(text)) /\ a \in Int /\ b \in Int /\ 0 <= a /\ a <= b /\ b <= Len(text)
  BY DEF ChunkOf
<1>2. Slice(text, a, b) \in Seq(ToSet(text))
  BY <1>1, SliceProperties
<1>3. \A T : \A s \in Seq(T) : s \in Seq(ToSet(s))
  BY DEF ToSet
<1>4. chunk.text \in Seq(ToSet(chunk.text))
  BY <1>2, <1>3 DEF ChunkOf
<1> QED BY <1>4 DEF ChunkOf, IsChunk, Span

\* One cited quote: it occurs in the chunk where it is said to, and is
\* claimed twice only if all its occurrences are.
LEMMA PoppedIsAnchored ==
  ASSUME NEW entry, QuoteType(entry.quote), NEW used,
         NEW chunk, NEW text, NEW a, NEW b, ChunkOf(chunk, text, a, b),
         PopQuote(entry, chunk, used).span # Absent
  PROVE  LET span == PopQuote(entry, chunk, used).span IN
         /\ Within(span, chunk.span)
         /\ Slice(text, span.start, span.end) = entry.quote
         /\ span.start - a \in Occurrences(chunk.text, entry.quote)
         /\ PopQuote(entry, chunk, used).claimed = {span.start - a}
         /\ span.start - a \in used => Occurrences(chunk.text, entry.quote) \subseteq used
<1> DEFINE popped == PopQuote(entry, chunk, used)
           span == popped.span
           all == Occurrences(chunk.text, entry.quote)
           L == Len(entry.quote)
<1>1. /\ text \in Seq(ToSet(text)) /\ a \in Nat /\ b \in Nat /\ a <= b /\ b <= Len(text)
      /\ chunk.text = Slice(text, a, b) /\ chunk.span.start = a /\ chunk.span.end = b
      /\ chunk.text \in Seq(ToSet(chunk.text))
  BY ChunkIsChunk DEF ChunkOf, IsChunk
<1>2. /\ entry.quote \in Seq(ToSet(entry.quote))
      /\ \E at \in all : /\ span = Span(a + at, a + at + L)
                         /\ popped.claimed = {at}
                         /\ at \in used => all \subseteq used
  BY <1>1, PoppedQuote
<1>3. PICK at \in all : /\ span = Span(a + at, a + at + L)
                        /\ popped.claimed = {at}
                        /\ at \in used => all \subseteq used
  BY <1>2
<1>4. /\ at \in Nat /\ at + L \in Nat /\ at <= at + L /\ at + L <= Len(chunk.text)
      /\ Slice(chunk.text, at, at + L) = entry.quote
  BY <1>1, <1>2, OccurrencesAreNat
<1>5. Len(chunk.text) = b - a /\ L \in Nat
  BY <1>1, <1>2, SliceProperties
<1> DEFINE e == at + L
<1> HIDE DEF popped, span, all, L
<1>6. /\ e \in Int /\ 0 <= at /\ at <= e /\ e <= b - a /\ a + at + L = a + e
      /\ at \in Int /\ a \in Int /\ b \in Int
      /\ (a + at) - a = at
  BY <1>1, <1>4, <1>5
<1> HIDE DEF e
<1>7. Slice(Slice(text, a, b), at, e) = Slice(text, a + at, a + e)
  <2>1. \A c, d, i, j \in Int :
          /\ 0 <= c /\ c <= d /\ d <= Len(text)
          /\ 0 <= i /\ i <= j /\ j <= d - c
          => Slice(Slice(text, c, d), i, j) = Slice(text, c + i, c + j)
    BY <1>1, SliceOfSlice
  <2> QED BY <1>1, <1>6, <2>1
<1>8. Slice(text, a + at, a + e) = entry.quote
  BY <1>1, <1>4, <1>7 DEF e
<1>9. span.start = a + at /\ span.end = a + e
  BY <1>3, <1>6 DEF Span
<1>10. Within(span, chunk.span)
  BY <1>1, <1>6, <1>9 DEF Within
<1>11. /\ Slice(text, span.start, span.end) = entry.quote
       /\ span.start - a = at
  BY <1>6, <1>8, <1>9
<1> QED BY <1>3, <1>10, <1>11 DEF popped, span, all

\* The candidates made of a response.
CitedBy(response, chunk, score, config) ==
  LET items == Parse(response, chunk) IN
  [ i \in DOMAIN items |-> Finalize(items[i], score, chunk, config) ]

\* What the quotes of one chunk are.
Anchored(cited, response, chunk, text, config) ==
  LET cites(i) == cited[i].span # Absent IN
  /\ \A i \in DOMAIN cited :
       /\ cites(i) => /\ Within(cited[i].span, chunk.span)
                      /\ Slice(text, cited[i].span.start, cited[i].span.end) = response[i].quote
       /\ ~cites(i) /\ Quotable(response[i].quote) =>
            Occurrences(chunk.text, response[i].quote) = {}
       /\ cites(i) => cited[i].refs = << QuoteEvidenceId(chunk, config, cited[i].span) >>
       /\ ~cites(i) => cited[i].refs = <<>>
  /\ \A j \in DOMAIN cited : \A i \in 1..(j - 1) :
       cites(j) /\ cited[i].refs = cited[j].refs =>
         /\ cited[i].quote = cited[j].quote
         /\ \A at \in Occurrences(chunk.text, cited[j].quote) :
              \E c \in 1..(j - 1) : cites(c) /\ cited[c].span.start = chunk.span.start + at

\* The quotes of one chunk are anchored, whatever the response.
LEMMA QuotesOfChunk ==
  ASSUME NEW response, Parsable(response), NEW score, NEW config,
         NEW chunk, NEW text, NEW a, NEW b, ChunkOf(chunk, text, a, b)
  PROVE  Anchored(CitedBy(response, chunk, score, config), response, chunk, text, config)
<1> DEFINE N == Len(response)
           cited == CitedBy(response, chunk, score, config)
           cites(i) == cited[i].span # Absent
           all(i) == Occurrences(chunk.text, response[i].quote)
<1>1. /\ N \in Nat /\ DOMAIN response = 1..N
      /\ \A i \in 1..N : QuoteType(response[i].quote)
  BY DEF Parsable
<1>2. IsChunk(chunk) /\ chunk.span.start = a /\ a \in Nat
  BY ChunkIsChunk DEF ChunkOf
<1>3. PICK used : /\ DOMAIN Parse(response, chunk) = 1..N
                  /\ Claims(response, chunk, used)
                  /\ \A i \in 1..N : Parse(response, chunk)[i] = ItemOf(response[i], chunk, used[i - 1])
  BY <1>2, ParseFollows
<1> DEFINE pop(i) == PopQuote(response[i], chunk, used[i - 1])
<1>4. /\ DOMAIN cited = 1..N
      /\ \A i \in 1..N : cited[i] = Finalize(ItemOf(response[i], chunk, used[i - 1]), score, chunk, config)
  BY <1>3 DEF CitedBy
<1>5. ASSUME NEW i \in 1..N
      PROVE  /\ cited[i].span = pop(i).span
             /\ cites(i) => cited[i].quote = response[i].quote
             /\ cited[i].refs = IF cites(i) THEN << QuoteEvidenceId(chunk, config, cited[i].span) >>
                                            ELSE <<>>
  <2>1. cited[i] = Finalize(ItemOf(response[i], chunk, used[i - 1]), score, chunk, config)
    BY <1>4
  <2> HIDE DEF cited
  <2> QED BY <2>1 DEF Finalize, ItemOf
<1>6. ASSUME NEW i \in 1..N, cites(i)
      PROVE  /\ Within(cited[i].span, chunk.span)
             /\ Slice(text, cited[i].span.start, cited[i].span.end) = response[i].quote
             /\ cited[i].span.start - a \in all(i)
             /\ pop(i).claimed = {cited[i].span.start - a}
             /\ cited[i].span.start - a \in used[i - 1] => all(i) \subseteq used[i - 1]
  <2>1. QuoteType(response[i].quote) /\ pop(i).span # Absent /\ cited[i].span = pop(i).span
    BY <1>1, <1>5, <1>6
  <2> HIDE DEF cited
  <2>2. /\ Within(pop(i).span, chunk.span)
        /\ Slice(text, pop(i).span.start, pop(i).span.end) = response[i].quote
        /\ pop(i).span.start - a \in all(i)
        /\ pop(i).claimed = {pop(i).span.start - a}
        /\ pop(i).span.start - a \in used[i - 1] => all(i) \subseteq used[i - 1]
    BY <2>1, PoppedIsAnchored
  <2> HIDE DEF pop, all
  <2> QED BY <2>1, <2>2
<1>7. ASSUME NEW i \in 1..N, ~cites(i), Quotable(response[i].quote)
      PROVE  all(i) = {}
  <2>1. /\ QuoteType(response[i].quote) /\ pop(i).span = Absent
        /\ chunk.text \in Seq(ToSet(chunk.text)) /\ chunk.span.start \in Nat
    BY <1>1, <1>2, <1>5, <1>7 DEF IsChunk
  <2> QED BY <1>7, <2>1, PoppedQuote
<1>8. \A n \in 0..N :
        /\ \A x \in used[n] : \E c \in 1..n :
             pop(c).span # Absent /\ pop(c).span.start = chunk.span.start + x
        /\ \A c \in 1..n : pop(c).claimed \subseteq used[n]
  BY <1>2, <1>3, ClaimsAreCited
<1> HIDE DEF cited, pop
<1>9. ASSUME NEW j \in 1..N, NEW i \in 1..(j - 1), cites(j), cited[i].refs = cited[j].refs
      PROVE  /\ cited[i].quote = cited[j].quote
             /\ \A at \in all(j) : \E c \in 1..(j - 1) :
                  cites(c) /\ cited[c].span.start = chunk.span.start + at
  <2>1. i \in 1..N /\ j - 1 \in 0..N /\ \A c \in 1..(j - 1) : c \in 1..N
    BY <1>1
  <2>2. /\ cited[j].refs = << QuoteEvidenceId(chunk, config, cited[j].span) >>
        /\ cited[i].refs = IF cites(i) THEN << QuoteEvidenceId(chunk, config, cited[i].span) >>
                                       ELSE <<>>
    BY <1>5, <1>9, <2>1
  <2>3. cites(i)
    <3>1. \A x : <<x>> # <<>>
      OBVIOUS
    <3> QED BY <1>9, <2>2, <3>1
  <2>4. cited[i].span = cited[j].span
    <3>1. QuoteEvidenceId(chunk, config, cited[i].span) = QuoteEvidenceId(chunk, config, cited[j].span)
      <4>1. \A x, y : <<x>> = <<y>> => x = y
        OBVIOUS
      <4> HIDE DEF cites
      <4> QED BY <1>9, <2>2, <2>3, <4>1
    <3> QED BY <3>1 DEF QuoteEvidenceId
  <2>5. response[i].quote = response[j].quote
    BY <1>6, <1>9, <2>1, <2>3, <2>4
  <2>6. cited[i].quote = response[i].quote /\ cited[j].quote = response[j].quote
    BY <1>5, <1>9, <2>1, <2>3
  <2>7. cited[j].span.start - a \in used[j - 1]
    <3>1. pop(i).claimed = {cited[j].span.start - a}
      BY <1>6, <2>1, <2>3, <2>4
    <3>2. pop(i).claimed \subseteq used[j - 1]
      BY <1>8, <2>1
    <3> QED BY <3>1, <3>2
  <2>8. all(j) \subseteq used[j - 1]
    BY <1>6, <1>9, <2>7
  <2>9. ASSUME NEW at \in all(j)
        PROVE  \E c \in 1..(j - 1) : cites(c) /\ cited[c].span.start = chunk.span.start + at
    <3>1. at \in used[j - 1]
      BY <2>8
    <3>2. PICK c \in 1..(j - 1) : pop(c).span # Absent /\ pop(c).span.start = chunk.span.start + at
      BY <1>8, <2>1, <3>1
    <3> QED BY <1>5, <2>1, <3>2
  <2> QED BY <2>5, <2>6, <2>9
<1>10. \A j \in 1..N : cites(j) => cited[j].quote = response[j].quote
  BY <1>5
<1>11. /\ DOMAIN cited = 1..N
       /\ \A i \in 1..N :
            /\ cites(i) => /\ Within(cited[i].span, chunk.span)
                           /\ Slice(text, cited[i].span.start, cited[i].span.end) = response[i].quote
            /\ ~cites(i) /\ Quotable(response[i].quote) => all(i) = {}
            /\ cites(i) => cited[i].refs = << QuoteEvidenceId(chunk, config, cited[i].span) >>
            /\ ~cites(i) => cited[i].refs = <<>>
  BY <1>4, <1>5, <1>6, <1>7
<1>12. \A j \in 1..N : \A i \in 1..(j - 1) :
         cites(j) /\ cited[i].refs = cited[j].refs =>
           /\ cited[i].quote = cited[j].quote
           /\ \A at \in Occurrences(chunk.text, cited[j].quote) :
                \E c \in 1..(j - 1) : cites(c) /\ cited[c].span.start = chunk.span.start + at
  BY <1>9, <1>10
<1>13. Anchored(cited, response, chunk, text, config)
  BY <1>11, <1>12 DEF Anchored
<1> QED BY <1>13 DEF cited

\* A replayed response is one of those recorded.
LEMMA ReplayedWasTold ==
  ASSUME NEW N \in Nat, NEW calls, DOMAIN calls = 1..N, NEW k \in 1..N
  PROVE  \E i \in 1..N : Replay(Recording(calls), calls[k].prompt) = calls[i].response
<1> DEFINE at == { i \in 1..N : calls[i].prompt = calls[k].prompt }
<1>1. at \in SUBSET (0..N) /\ at # {}
  OBVIOUS
<1>2. Max(at) \in at
  <2> HIDE DEF at
  <2> QED BY <1>1, MaxIsMember
<1>3. Replay(Recording(calls), calls[k].prompt) = calls[Max(at)].response
  BY DEF Replay, Recording
<1> QED BY <1>2, <1>3

\* Every quote cited is the exact text of the document where it is said to
\* be, an entry loses its quote only if its chunk does not hold it, and two
\* citations of one evidence id are the same quote, claimed again only after
\* all its occurrences: for any documents, chunks, models and responses.
THEOREM QuotesStayAnchored == Spec => []QuotesAreAnchored
<1>1. Init => QuotesAreAnchored
  BY DEF Init, Nothing, QuotesAreAnchored
<1>2. ASSUME Next PROVE QuotesAreAnchored'
  <2>1. CASE call'.op # "extract"
    BY <2>1 DEF QuotesAreAnchored
  <2>2. CASE call'.op = "extract"
    <3>1. PICK reading \in Readings :
            LET chunks == Chunks(reading.document, reading.spans) IN
            \E told \in [DOMAIN chunks -> Responses] :
              LET recording == Recording([ k \in DOMAIN chunks |->
                                  [prompt |-> chunks[k].text, response |-> told[k]] ])
                  heard == [ k \in DOMAIN chunks |-> Replay(recording, chunks[k].text) ]
              IN call' = [ op |-> "extract",
                           given |-> [document |-> reading.document, chunks |-> chunks,
                                      heard |-> heard],
                           answer |-> [ k \in DOMAIN chunks |->
                                          ExtractResult(heard[k], 0, chunks[k], "extractor") ] ]
      BY <1>2, <2>2, WhoAnswers DEF Extract, Call
    <3> DEFINE text == reading.document.text
               spans == reading.spans
               chunks == Chunks(reading.document, spans)
               N == Len(spans)
    <3>2. PICK told \in [DOMAIN chunks -> Responses] :
            LET recording == Recording([ k \in DOMAIN chunks |->
                                [prompt |-> chunks[k].text, response |-> told[k]] ])
                heard == [ k \in DOMAIN chunks |-> Replay(recording, chunks[k].text) ]
            IN call' = [ op |-> "extract",
                         given |-> [document |-> reading.document, chunks |-> chunks,
                                    heard |-> heard],
                         answer |-> [ k \in DOMAIN chunks |->
                                        ExtractResult(heard[k], 0, chunks[k], "extractor") ] ]
      BY <3>1
    <3> DEFINE calls == [ k \in DOMAIN chunks |-> [prompt |-> chunks[k].text, response |-> told[k]] ]
               heard == [ k \in DOMAIN chunks |-> Replay(Recording(calls), chunks[k].text) ]
               answer == [ k \in DOMAIN chunks |->
                             ExtractResult(heard[k], 0, chunks[k], "extractor") ]
               cited(k) == IF answer[k] = Malformed THEN <<>> ELSE answer[k].candidates
    <3>3. /\ call'.given.document.text = text /\ call'.given.chunks = chunks
          /\ call'.given.heard = heard /\ call'.answer = answer
      BY <3>2
    <3>4. /\ N \in Nat /\ DOMAIN spans = 1..N /\ DOMAIN chunks = 1..N
          /\ text \in Seq(ToSet(text))
      BY ExtractAssumption DEF Chunks
    <3>5. ASSUME NEW k \in 1..N
          PROVE  /\ chunks[k].index = k - 1
                 /\ \E a \in Nat, b \in Nat : ChunkOf(chunks[k], text, a, b)
      <4>1. chunks[k] = [ doc |-> reading.document.id, index |-> k - 1, span |-> spans[k],
                          text |-> Slice(text, spans[k].start, spans[k].end) ]
        BY <3>4 DEF Chunks
      <4>2. PICK a \in 0..Len(text) : \E b \in a..Len(text) : spans[k] = Span(a, b)
        BY <3>4, ExtractAssumption
      <4>3. PICK b \in a..Len(text) : spans[k] = Span(a, b)
        BY <4>2
      <4>4. /\ a \in Nat /\ b \in Nat /\ a <= b /\ b <= Len(text)
            /\ spans[k].start = a /\ spans[k].end = b
        BY <3>4, <4>2, <4>3 DEF Span
      <4> HIDE DEF chunks, text, spans
      <4>5. ChunkOf(chunks[k], text, a, b)
        BY <3>4, <4>1, <4>3, <4>4 DEF ChunkOf
      <4> QED BY <4>1, <4>4, <4>5
    <3>6. ASSUME NEW k \in 1..N PROVE heard[k] \in Responses
      <4>1. DOMAIN calls = 1..N /\ calls[k].prompt = chunks[k].text
        BY <3>4
      <4>2. \A i \in 1..N : calls[i].response \in Responses
        BY <3>4
      <4>3. heard[k] = Replay(Recording(calls), calls[k].prompt)
        BY <3>4, <4>1
      <4> HIDE DEF calls, heard, chunks
      <4>4. PICK i \in 1..N : Replay(Recording(calls), calls[k].prompt) = calls[i].response
        BY <3>4, <4>1, ReplayedWasTold
      <4> QED BY <4>2, <4>3, <4>4
    <3>7. ASSUME NEW k \in 1..N, cited(k) # <<>>
          PROVE  /\ Parsable(heard[k])
                 /\ cited(k) = CitedBy(heard[k], chunks[k], 0, "extractor")
      <4>1. answer[k] = ExtractResult(heard[k], 0, chunks[k], "extractor")
        BY <3>4
      <4> HIDE DEF heard, answer, chunks
      <4>2. ~Raises(heard[k]) /\ answer[k] # Malformed
        BY <3>7, <4>1 DEF ExtractResult
      <4>3. cited(k) = CitedBy(heard[k], chunks[k], 0, "extractor")
        BY <4>1, <4>2 DEF ExtractResult, CitedBy
      <4>4. heard[k] \in Responses \ {Malformed} /\ \A i \in DOMAIN heard[k] : heard[k][i] # Malformed
        BY <3>6, <4>2 DEF Raises
      <4>5. Parsable(heard[k])
        BY <4>4, ExtractAssumption DEF Parsable, QuoteType
      <4> QED BY <4>3, <4>5
    <3> HIDE DEF chunks, heard, answer, calls, text, spans, cited
    <3>8. ASSUME NEW k \in 1..N
          PROVE  Anchored(cited(k), heard[k], chunks[k], text, "extractor")
      <4>1. CASE cited(k) = <<>>
        BY <4>1 DEF Anchored
      <4>2. CASE cited(k) # <<>>
        <5>1. /\ Parsable(heard[k])
              /\ cited(k) = CitedBy(heard[k], chunks[k], 0, "extractor")
          BY <3>7, <4>2
        <5>2. PICK a \in Nat, b \in Nat : ChunkOf(chunks[k], text, a, b)
          BY <3>5
        <5>3. Anchored(CitedBy(heard[k], chunks[k], 0, "extractor"), heard[k], chunks[k], text,
                       "extractor")
          BY <5>1, <5>2, QuotesOfChunk
        <5> QED BY <5>1, <5>3
      <4> QED BY <4>1, <4>2
    <3> DEFINE cites(k, i) == cited(k)[i].span # Absent
    <3>9. ASSUME NEW k \in 1..N, NEW other \in 1..N \ {k}, NEW i \in DOMAIN cited(k),
                 NEW c \in DOMAIN cited(other), cites(k, i)
          PROVE  cited(k)[i].refs # cited(other)[c].refs
      <4>1. cited(k)[i].refs = << QuoteEvidenceId(chunks[k], "extractor", cited(k)[i].span) >>
        BY <3>8, <3>9 DEF Anchored
      <4>2. \/ cited(other)[c].refs = <<>>
            \/ cited(other)[c].refs =
                 << QuoteEvidenceId(chunks[other], "extractor", cited(other)[c].span) >>
        <5>1. other \in 1..N
          OBVIOUS
        <5> QED BY <3>8, <5>1 DEF Anchored
      <4>3. QuoteEvidenceId(chunks[k], "extractor", cited(k)[i].span) #
              QuoteEvidenceId(chunks[other], "extractor", cited(other)[c].span)
        BY <3>5 DEF QuoteEvidenceId
      <4>4. \A x, y : (<<x>> = <<y>> => x = y) /\ <<x>> # <<>>
        OBVIOUS
      <4> QED BY <4>1, <4>2, <4>3, <4>4
    <3>10. DOMAIN answer = 1..N
      BY <3>4 DEF answer
    <3> DEFINE given == call'.given
    <3>11. given.document.text = text /\ given.chunks = chunks /\ given.heard = heard
      BY <3>3
    <3> HIDE DEF given
    <3>12. ASSUME NEW k \in 1..N
           PROVE  /\ \A i \in DOMAIN cited(k) :
                       LET quote == given.heard[k][i].quote  span == cited(k)[i].span IN
                       /\ cites(k, i) => /\ Within(span, given.chunks[k].span)
                                         /\ Slice(given.document.text, span.start, span.end) = quote
                       /\ ~cites(k, i) /\ quote \notin {Absent, Malformed, <<>>} =>
                            Occurrences(given.chunks[k].text, quote) = {}
                  /\ \A j \in DOMAIN cited(k) : \A i \in 1..(j - 1) :
                       cites(k, j) /\ cited(k)[i].refs = cited(k)[j].refs =>
                         /\ cited(k)[i].quote = cited(k)[j].quote
                         /\ \A at \in Occurrences(given.chunks[k].text, cited(k)[j].quote) :
                              \E c \in 1..(j - 1) :
                                /\ cites(k, c)
                                /\ cited(k)[c].span.start = given.chunks[k].span.start + at
                  /\ \A other \in DOMAIN answer \ {k} :
                       \A i \in DOMAIN cited(k), c \in DOMAIN cited(other) :
                         cites(k, i) => cited(k)[i].refs # cited(other)[c].refs
      <4>1. \A other \in DOMAIN answer \ {k} :
              \A i \in DOMAIN cited(k), c \in DOMAIN cited(other) :
                cites(k, i) => cited(k)[i].refs # cited(other)[c].refs
        BY <3>9, <3>10
      <4>2. \A i \in DOMAIN cited(k) :
              LET quote == heard[k][i].quote  span == cited(k)[i].span IN
              /\ cites(k, i) => /\ Within(span, chunks[k].span)
                                /\ Slice(text, span.start, span.end) = quote
              /\ ~cites(k, i) /\ quote \notin {Absent, Malformed, <<>>} =>
                   Occurrences(chunks[k].text, quote) = {}
        BY <3>8 DEF Anchored, Quotable
      <4>3. \A j \in DOMAIN cited(k) : \A i \in 1..(j - 1) :
              cites(k, j) /\ cited(k)[i].refs = cited(k)[j].refs =>
                /\ cited(k)[i].quote = cited(k)[j].quote
                /\ \A at \in Occurrences(chunks[k].text, cited(k)[j].quote) :
                     \E c \in 1..(j - 1) :
                       /\ cites(k, c)
                       /\ cited(k)[c].span.start = chunks[k].span.start + at
        BY <3>8 DEF Anchored
      <4> HIDE DEF cites
      <4>4. \A i \in DOMAIN cited(k) :
              LET quote == given.heard[k][i].quote  span == cited(k)[i].span IN
              /\ cites(k, i) => /\ Within(span, given.chunks[k].span)
                                /\ Slice(given.document.text, span.start, span.end) = quote
              /\ ~cites(k, i) /\ quote \notin {Absent, Malformed, <<>>} =>
                   Occurrences(given.chunks[k].text, quote) = {}
        BY <3>11, <4>2
      <4>5. \A j \in DOMAIN cited(k) : \A i \in 1..(j - 1) :
              cites(k, j) /\ cited(k)[i].refs = cited(k)[j].refs =>
                /\ cited(k)[i].quote = cited(k)[j].quote
                /\ \A at \in Occurrences(given.chunks[k].text, cited(k)[j].quote) :
                     \E c \in 1..(j - 1) :
                       /\ cites(k, c)
                       /\ cited(k)[c].span.start = given.chunks[k].span.start + at
        BY <3>11, <4>3
      <4> QED BY <4>1, <4>4, <4>5
    <3>13. AnchoredIn(given, answer)
      BY <3>10, <3>12, Zenon DEF AnchoredIn, cited
    <3> QED BY <3>3, <3>13 DEF QuotesAreAnchored, given
  <2> QED BY <2>1, <2>2
<1>3. QuotesAreAnchored /\ UNCHANGED call => QuotesAreAnchored'
  BY DEF QuotesAreAnchored
<1> QED BY <1>1, <1>2, <1>3, PTL DEF Spec

-----------------------------------------------------------------------------
(* Chunks *)

\* A list, whatever it lists.
IsList(s) == s \in Seq(ToSet(s))

\* A list with one before it.
LEMMA PrependElements ==
  ASSUME NEW x, NEW s, IsList(s)
  PROVE  LET t == <<x>> \o s IN
         /\ IsList(t) /\ Len(s) \in Nat /\ Len(t) = Len(s) + 1 /\ t[1] = x
         /\ \A i \in 1..Len(s) : t[i + 1] = s[i]
         /\ DOMAIN t = 1..(Len(s) + 1) /\ DOMAIN s = 1..Len(s)
<1> DEFINE X == ToSet(s) \cup {x}
           t == <<x>> \o s
<1>1. s \in Seq(X) /\ <<x>> \in Seq(X) /\ Len(s) \in Nat /\ DOMAIN s = 1..Len(s)
  BY DEF IsList
<1> HIDE DEF X
<1>2. Len(<<x>>) = 1 /\ <<x>>[1] = x
  OBVIOUS
<1>3. /\ t \in Seq(X) /\ Len(t) = Len(<<x>>) + Len(s)
      /\ \A i \in 1..(Len(<<x>>) + Len(s)) :
           t[i] = IF i <= Len(<<x>>) THEN <<x>>[i] ELSE s[i - Len(<<x>>)]
  BY <1>1, ConcatProperties
<1> HIDE DEF t
<1>4. Len(t) = Len(s) + 1 /\ DOMAIN t = 1..(Len(s) + 1)
  BY <1>1, <1>2, <1>3
<1>5. t[1] = x /\ \A i \in 1..Len(s) : t[i + 1] = s[i]
  BY <1>1, <1>2, <1>3
<1>6. IsList(t)
  <2>1. \A T : \A l \in Seq(T) : l \in Seq(ToSet(l))
    BY DEF ToSet
  <2> QED BY <1>3, <2>1 DEF IsList
<1> QED BY <1>1, <1>4, <1>5, <1>6 DEF t

\* How windows follow one another.
WindowsFrom(from, text, window, overlap) ==
  \A start \in 0..(Len(text) + window) : \E end \in 0..Len(text) :
    /\ end <= start + window
    /\ end < Len(text) => end = start + window
    /\ from[start] = << Span(start, end) >> \o
         (IF end >= Len(text) THEN <<>> ELSE from[start + window - overlap])

\* The windows of a document are those from its beginning.
LEMMA WindowsFollow ==
  ASSUME NEW text, IsList(text), text # <<>>,
         NEW window \in Nat \ {0}, NEW overlap \in 0..(window - 1)
  PROVE  \E from : /\ FixedWindows(text, window, overlap) = from[0]
                  /\ WindowsFrom(from, text, window, overlap)
<1> DEFINE L == Len(text)
           M == L + window
           end(s) == Min({s + window, L})
           last(s) == end(s) >= L
           step == window - overlap
           head == [s \in 0..M |-> << Span(s, end(s)) >>]
           jump == [s \in 0..M |-> IF last(s) THEN -1 ELSE s + window - overlap]
           Good(f) == f = [s \in 0..M |->
                             << Span(s, end(s)) >> \o
                               (IF last(s) THEN <<>> ELSE f[s + window - overlap])]
<1>1. L \in Nat /\ M \in Nat /\ step \in 1..window
  BY DEF IsList
<1>2. ASSUME NEW s \in 0..M
      PROVE  /\ end(s) \in 0..L /\ end(s) <= s + window
             /\ end(s) < L => end(s) = s + window
  <2> DEFINE S == {s + window, L}
  <2>1. S \in SUBSET Nat /\ S # {} /\ s + window \in S /\ L \in S
    BY <1>1
  <2> HIDE DEF S
  <2>2. Min(S) \in S /\ \A n \in S : Min(S) <= n
    BY <2>1, MinIsMember
  <2>3. Min(S) = s + window \/ Min(S) = L
    BY <2>2 DEF S
  <2> QED BY <1>1, <2>1, <2>2, <2>3 DEF S
<1> HIDE DEF end
<1>3. \A s \in 0..M : jump[s] = -1 \/ jump[s] \in (s + 1)..M
  <2> SUFFICES ASSUME NEW s \in 0..M, ~last(s)
               PROVE  s + window - overlap \in (s + 1)..M
    OBVIOUS
  <2>1. s + window < L
    BY <1>1, <1>2
  <2> QED BY <1>1, <2>1
<1>4. \E f : Good(f)
  <2>1. PICK f : Written(f, M, head, jump)
    <3>1. Jumps(M, jump)
      BY <1>1, <1>3 DEF Jumps
    <3> HIDE DEF head, jump, M
    <3> QED BY <3>1, JumpsCompose
  <2>2. ASSUME NEW s \in 0..M
        PROVE  head[s] \o (IF jump[s] = -1 THEN <<>> ELSE f[jump[s]])
                 = << Span(s, end(s)) >> \o
                     (IF last(s) THEN <<>> ELSE f[s + window - overlap])
    <3>1. ~last(s) => s + window - overlap # -1
      BY <1>1
    <3>2. head[s] = << Span(s, end(s)) >>
      OBVIOUS
    <3>3. jump[s] = IF last(s) THEN -1 ELSE s + window - overlap
      OBVIOUS
    <3> HIDE DEF head, jump, last
    <3> QED BY <3>1, <3>2, <3>3
  <2>3. Good(f)
    <3> DEFINE at(s) == << Span(s, end(s)) >> \o
                          (IF last(s) THEN <<>> ELSE f[s + window - overlap])
               was(s) == head[s] \o (IF jump[s] = -1 THEN <<>> ELSE f[jump[s]])
    <3>1. f = [s \in 0..M |-> was(s)]
      BY <2>1 DEF Written
    <3>2. \A s \in 0..M : was(s) = at(s)
      BY <2>2
    <3> HIDE DEF at, was
    <3>3. f = [s \in 0..M |-> at(s)]
      BY <3>1, <3>2
    <3> QED BY <3>3 DEF at
  <2> QED BY <2>3
<1> DEFINE from == CHOOSE f : Good(f)
<1>5. Good(from)
  <2> HIDE DEF Good
  <2> QED BY <1>4
<1>6. FixedWindows(text, window, overlap) = from[0]
  BY DEF FixedWindows, end
<1> HIDE DEF from
<1>7. \A s \in 0..M :
        from[s] = << Span(s, end(s)) >> \o
                    (IF last(s) THEN <<>> ELSE from[s + window - overlap])
  BY <1>5
<1>8. WindowsFrom(from, text, window, overlap)
  BY <1>2, <1>7 DEF WindowsFrom
<1> QED BY <1>6, <1>8

\* The windows from an offset on: they go forward, and every stretch of at most
\* overlap + 1 characters from there on is in one of them.
Windows(list, start, length, window, overlap) ==
  /\ IsList(list) /\ list # <<>>
  /\ \A i \in DOMAIN list : list[i].start \in Nat /\ list[i].end \in Nat
  /\ list[1].start = start /\ (list[1].end >= length \/ list[1].end = start + window)
  /\ \A i, j \in DOMAIN list :
       i < j => list[i].start < list[j].start /\ list[i].end < list[j].end
  /\ \A a, b \in Nat :
       start <= a /\ a < b /\ b <= a + overlap + 1 /\ b <= length =>
         \E i \in DOMAIN list : list[i].start <= a /\ b <= list[i].end

\* One window before those it overlaps, or the last one.
LEMMA WindowsExtend ==
  ASSUME NEW length \in Nat, NEW window \in Nat \ {0}, NEW overlap \in 0..(window - 1),
         NEW start \in Nat, NEW end \in Nat, NEW list,
         \/ list = <<>> /\ end >= length
         \/ /\ end < length /\ end = start + window
            /\ Windows(list, start + window - overlap, length, window, overlap)
  PROVE  Windows(<< Span(start, end) >> \o list, start, length, window, overlap)
<1> DEFINE x == Span(start, end)
           t == <<x>> \o list
<1> SUFFICES Windows(t, start, length, window, overlap)
  OBVIOUS
<1>1. x.start = start /\ x.end = end
  BY DEF Span
<1>2. IsList(list)
  <2>1. \A T : <<>> \in Seq(T)
    OBVIOUS
  <2> QED BY <2>1 DEF IsList, Windows
<1>3. /\ IsList(t) /\ Len(list) \in Nat /\ t[1] = x
      /\ \A i \in 1..Len(list) : t[i + 1] = list[i]
      /\ DOMAIN t = 1..(Len(list) + 1) /\ DOMAIN list = 1..Len(list)
  BY <1>2, PrependElements
<1> HIDE DEF x, t
<1>4. \A i \in DOMAIN t : i = 1 \/ (i - 1 \in DOMAIN list /\ t[i] = list[i - 1])
  <2> SUFFICES ASSUME NEW i \in DOMAIN t, i # 1
               PROVE  i - 1 \in DOMAIN list /\ t[i] = list[i - 1]
    OBVIOUS
  <2>1. i - 1 \in 1..Len(list) /\ (i - 1) + 1 = i
    BY <1>3
  <2> QED BY <1>3, <2>1
<1>5. 1 \in DOMAIN t /\ t # <<>>
  BY <1>3
<1>6. CASE list = <<>> /\ end >= length
  <2>1. \A i \in DOMAIN t : i = 1
    BY <1>3, <1>6
  <2> QED BY <1>1, <1>3, <1>5, <1>6, <2>1 DEF Windows
<1>7. CASE /\ end < length /\ end = start + window
           /\ Windows(list, start + window - overlap, length, window, overlap)
  <2> DEFINE next == start + window - overlap
  <2>1. next \in Nat /\ start < next
    OBVIOUS
  <2> HIDE DEF next
  <2>2. Windows(list, next, length, window, overlap)
    BY <1>7 DEF next
  <2>3. 1 \in DOMAIN list /\ \A i \in DOMAIN list : i = 1 \/ 1 < i
    BY <1>3, <2>2 DEF Windows
  <2>4. \A i \in DOMAIN list :
          /\ list[i].start \in Nat /\ list[i].end \in Nat
          /\ start < list[i].start /\ end < list[i].end
    <3>1. /\ list[1].start \in Nat /\ list[1].end \in Nat
          /\ start < list[1].start /\ end < list[1].end
      BY <1>7, <2>1, <2>2, <2>3 DEF Windows
    <3>2. ASSUME NEW i \in DOMAIN list, 1 < i
          PROVE  /\ list[i].start \in Nat /\ list[i].end \in Nat
                 /\ list[1].start < list[i].start /\ list[1].end < list[i].end
      BY <2>2, <2>3, <3>2 DEF Windows
    <3> QED BY <2>3, <3>1, <3>2
  <2>5. \A i \in DOMAIN t : t[i].start \in Nat /\ t[i].end \in Nat
    BY <1>1, <1>3, <1>4, <2>4
  <2>6. ASSUME NEW i \in DOMAIN t, NEW j \in DOMAIN t, i < j
        PROVE  t[i].start < t[j].start /\ t[i].end < t[j].end
    <3>1. i \in Nat /\ j \in Nat /\ 1 <= i /\ j # 1
      BY <1>3, <2>6
    <3>2. j - 1 \in DOMAIN list /\ t[j] = list[j - 1]
      BY <1>4, <3>1
    <3>3. CASE i = 1
      BY <1>1, <1>3, <2>4, <3>2, <3>3
    <3>4. CASE i # 1
      <4>1. i - 1 \in DOMAIN list /\ t[i] = list[i - 1] /\ i - 1 < j - 1
        BY <1>4, <2>6, <3>1, <3>4
      <4> QED BY <2>2, <3>2, <4>1 DEF Windows
    <3> QED BY <3>3, <3>4
  <2>7. ASSUME NEW a \in Nat, NEW b \in Nat,
               start <= a, a < b, b <= a + overlap + 1, b <= length
        PROVE  \E i \in DOMAIN t : t[i].start <= a /\ b <= t[i].end
    <3>1. CASE a < next
      <4>1. b <= end
        BY <1>7, <2>7, <3>1 DEF next
      <4> QED BY <1>1, <1>3, <1>5, <2>7, <4>1
    <3>2. CASE ~(a < next)
      <4>1. PICK i \in DOMAIN list : list[i].start <= a /\ b <= list[i].end
        <5>1. next <= a
          BY <2>1, <3>2
        <5> QED BY <2>2, <2>7, <5>1 DEF Windows
      <4>2. i + 1 \in DOMAIN t /\ t[i + 1] = list[i]
        BY <1>3
      <4> QED BY <4>1, <4>2
    <3> QED BY <3>1, <3>2
  <2> QED BY <1>1, <1>3, <1>5, <1>7, <2>5, <2>6, <2>7 DEF Windows
<1> QED BY <1>6, <1>7

\* The windows of a document that is not empty.
LEMMA WindowsAreGood ==
  ASSUME NEW text, IsList(text), text # <<>>,
         NEW window \in Nat \ {0}, NEW overlap \in 0..(window - 1)
  PROVE  Windows(FixedWindows(text, window, overlap), 0, Len(text), window, overlap)
<1> DEFINE L == Len(text)
           M == L + window
<1>1. L \in Nat /\ M \in Nat
  BY DEF IsList
<1>2. PICK from : /\ FixedWindows(text, window, overlap) = from[0]
                  /\ WindowsFrom(from, text, window, overlap)
  BY WindowsFollow
<1> HIDE DEF L
<1> DEFINE Bad == { s \in 0..M : ~Windows(from[s], s, L, window, overlap) }
<1>3. Bad = {}
  <2> SUFFICES ASSUME Bad # {} PROVE FALSE
    OBVIOUS
  <2>1. Bad \in SUBSET (0..M)
    OBVIOUS
  <2>2. PICK s \in Bad : \A n \in Bad : s >= n
    <3> HIDE DEF Bad, M
    <3> QED BY <1>1, <2>1, MaxIsMember
  <2>3. s \in 0..M /\ s \in Nat
    BY <1>1
  <2>4. PICK end \in 0..L :
          /\ end <= s + window
          /\ end < L => end = s + window
          /\ from[s] = << Span(s, end) >> \o
               (IF end >= L THEN <<>> ELSE from[s + window - overlap])
    BY <1>2, <2>3 DEF WindowsFrom, L
  <2>5. CASE end >= L
    <3>1. from[s] = << Span(s, end) >> \o <<>> /\ end \in Nat
      BY <1>1, <2>4, <2>5
    <3>2. Windows(from[s], s, L, window, overlap)
      BY <1>1, <2>3, <2>5, <3>1, WindowsExtend
    <3> QED BY <3>2
  <2>6. CASE ~(end >= L)
    <3>1. /\ end \in Nat /\ end < L /\ end = s + window
          /\ from[s] = << Span(s, end) >> \o from[s + window - overlap]
      BY <1>1, <2>4, <2>6
    <3>2. s + window - overlap \in 0..M /\ ~(s >= s + window - overlap)
      BY <1>1, <2>3, <3>1
    <3>3. Windows(from[s + window - overlap], s + window - overlap, L, window, overlap)
      BY <2>2, <3>2
    <3>4. Windows(from[s], s, L, window, overlap)
      BY <1>1, <2>3, <3>1, <3>3, WindowsExtend
    <3> QED BY <3>4
  <2> QED BY <2>5, <2>6
<1>4. 0 \in 0..M
  BY <1>1
<1>5. Windows(from[0], 0, L, window, overlap)
  BY <1>3, <1>4
<1> QED BY <1>2, <1>5 DEF L

\* How paragraphs follow one another: boundary is the next blank line, or -1.
Boundary(text, cursor) ==
  First({ i \in Occurrences(text, <<Newline, Newline>>) : i >= cursor })

SegmentEnd(text, cursor) ==
  IF Boundary(text, cursor) = -1 THEN Len(text) ELSE Boundary(text, cursor)

Paragraph(text, cursor) ==
  LET solid == Solid(text, cursor, SegmentEnd(text, cursor)) IN
  IF solid = {} THEN <<>> ELSE << Span(Min(solid), Max(solid) + 1) >>

ParagraphsFrom(from, text) ==
  \A cursor \in 0..(Len(text) + 2) :
    from[cursor] =
      IF cursor >= Len(text)
        THEN <<>>
        ELSE Paragraph(text, cursor)
               \o (IF Boundary(text, cursor) = -1 THEN <<>>
                                                ELSE from[Boundary(text, cursor) + 2])

\* The next blank line is at or after the cursor, and none is between.
LEMMA BoundaryIsNext ==
  ASSUME NEW text, IsList(text), NEW cursor \in Nat
  PROVE  LET b == Boundary(text, cursor)
             all == Occurrences(text, <<Newline, Newline>>)
         IN /\ b = -1 \/ (b \in all /\ b >= cursor /\ b \in Nat /\ b + 2 <= Len(text))
            /\ \A i \in all : i >= cursor => b # -1 /\ b <= i
<1> DEFINE all == Occurrences(text, <<Newline, Newline>>)
           S == { i \in all : i >= cursor }
<1>1. \A i \in all : i \in Nat /\ i + 2 <= Len(text)
  <2>1. Len(<<Newline, Newline>>) = 2 /\ Len(text) \in Nat
    BY DEF IsList
  <2> QED BY <2>1 DEF Occurrences
<1> HIDE DEF all
<1>2. S \in SUBSET Nat
  BY <1>1
<1>3. Boundary(text, cursor) = First(S)
  BY DEF Boundary, all
<1>4. CASE S = {}
  <2>1. First(S) = -1
    BY <1>4 DEF First
  <2> QED BY <1>3, <1>4, <2>1 DEF all
<1>5. CASE S # {}
  <2> HIDE DEF S
  <2>1. First(S) = Min(S) /\ Min(S) \in S /\ \A n \in S : Min(S) <= n
    BY <1>2, <1>5, MinIsMember DEF First
  <2>2. First(S) \in all /\ First(S) >= cursor /\ First(S) \in Nat /\ First(S) + 2 <= Len(text)
    BY <1>1, <2>1 DEF S
  <2>3. \A i \in all : i >= cursor => First(S) # -1 /\ First(S) <= i
    BY <2>1, <2>2 DEF S
  <2> QED BY <1>3, <2>2, <2>3 DEF all
<1> QED BY <1>4, <1>5

\* The paragraphs of a document are those from its beginning.
LEMMA ParagraphsFollow ==
  ASSUME NEW text, IsList(text)
  PROVE  \E from : Paragraphs(text) = from[0] /\ ParagraphsFrom(from, text)
<1> DEFINE L == Len(text)
           M == L + 2
           b(c) == Boundary(text, c)
           head == [c \in 0..M |-> IF c >= L THEN <<>> ELSE Paragraph(text, c)]
           jump == [c \in 0..M |-> IF c >= L \/ b(c) = -1 THEN -1 ELSE b(c) + 2]
           at(f, c) == IF c >= L THEN <<>>
                       ELSE Paragraph(text, c) \o (IF b(c) = -1 THEN <<>> ELSE f[b(c) + 2])
           was(f, c) == head[c] \o (IF jump[c] = -1 THEN <<>> ELSE f[jump[c]])
           Good(f) == f = [c \in 0..M |-> at(f, c)]
<1>1. L \in Nat /\ M \in Nat
  BY DEF IsList
<1> HIDE DEF L
<1>2. \A c \in 0..M : b(c) = -1 \/ (b(c) >= c /\ b(c) \in Nat /\ b(c) + 2 <= L)
  <2>1. \A c \in 0..M : c \in Nat
    BY <1>1
  <2> QED BY <2>1, BoundaryIsNext DEF L
<1> HIDE DEF b
<1>3. Jumps(M, jump)
  <2>1. \A c \in 0..M : jump[c] = -1 \/ jump[c] \in (c + 1)..M
    BY <1>1, <1>2
  <2> HIDE DEF jump, M
  <2> QED BY <1>1, <2>1 DEF Jumps
<1>4. PICK f : Written(f, M, head, jump)
  <2> HIDE DEF head, jump, M
  <2> QED BY <1>3, JumpsCompose
<1>5. \A c \in 0..M : was(f, c) = at(f, c)
  <2> SUFFICES ASSUME NEW c \in 0..M PROVE was(f, c) = at(f, c)
    OBVIOUS
  <2>1. /\ head[c] = IF c >= L THEN <<>> ELSE Paragraph(text, c)
        /\ jump[c] = IF c >= L \/ b(c) = -1 THEN -1 ELSE b(c) + 2
    OBVIOUS
  <2>2. b(c) # -1 => b(c) + 2 # -1
    BY <1>2
  <2>3. <<>> \o <<>> = <<>>
    OBVIOUS
  <2> HIDE DEF head, jump
  <2> QED BY <2>1, <2>2, <2>3
<1>6. \E g : Good(g)
  <2>1. f = [c \in 0..M |-> was(f, c)]
    BY <1>4 DEF Written
  <2> HIDE DEF was, at
  <2>2. f = [c \in 0..M |-> at(f, c)]
    BY <1>5, <2>1
  <2> QED BY <2>2
<1> DEFINE from == CHOOSE g : Good(g)
<1>7. Good(from)
  <2> HIDE DEF Good
  <2> QED BY <1>6
<1>8. Paragraphs(text) = from[0]
  BY DEF Paragraphs, b, L, Boundary, SegmentEnd, Paragraph
<1> HIDE DEF from
<1>9. \A c \in 0..M : from[c] = at(from, c)
  <2> HIDE DEF at, M
  <2> QED BY <1>7
<1>10. ParagraphsFrom(from, text)
  BY <1>9 DEF ParagraphsFrom, L, b
<1> QED BY <1>8, <1>10

\* The paragraphs from a cursor on: not blank at either end, no blank line in
\* one, in order, and every character from there on that is not blank in one.
IsSolid(text, i) == i \in 0..(Len(text) - 1) /\ text[i + 1] \notin Blanks

IsParagraph(text, cursor, p) ==
  /\ p.start \in Nat /\ p.end \in Nat
  /\ cursor <= p.start /\ p.start < p.end /\ p.end <= Len(text)
  /\ IsSolid(text, p.start) /\ IsSolid(text, p.end - 1)
  /\ \A i \in Occurrences(text, <<Newline, Newline>>) : ~(p.start <= i /\ i + 2 <= p.end)

Parts(text, cursor, list) ==
  /\ IsList(list)
  /\ \A p \in DOMAIN list : IsParagraph(text, cursor, list[p])
  /\ \A p, q \in DOMAIN list : p < q => list[p].end <= list[q].start
  /\ \A i \in Nat : cursor <= i /\ IsSolid(text, i) =>
       \E p \in DOMAIN list : list[p].start <= i /\ i < list[p].end

\* A blank line is blank.
LEMMA BlankLineIsBlank ==
  ASSUME NEW text, IsList(text), NEW b \in Occurrences(text, <<Newline, Newline>>)
  PROVE  b \in Nat /\ b + 2 <= Len(text) /\ ~IsSolid(text, b) /\ ~IsSolid(text, b + 1)
<1> DEFINE nn == <<Newline, Newline>>
           T == ToSet(text)
<1>1. Len(nn) = 2 /\ nn[1] = Newline /\ nn[2] = Newline /\ Len(text) \in Nat
  BY DEF IsList
<1> HIDE DEF nn
<1>2. b \in Int /\ 0 <= b /\ b + 2 <= Len(text) /\ Slice(text, b, b + 2) = nn
  BY <1>1 DEF Occurrences, nn
<1>3. text \in Seq(T)
  BY DEF IsList
<1> HIDE DEF T
<1>4. \A i \in 1..(b + 2 - b) : nn[i] = text[b + i]
  <2>1. b + 2 \in Int /\ b <= b + 2
    BY <1>2
  <2> QED BY <1>2, <1>3, <2>1, SliceProperties
<1>5. text[b + 1] = Newline /\ text[(b + 1) + 1] = Newline
  <2>1. 1 \in 1..(b + 2 - b) /\ 2 \in 1..(b + 2 - b) /\ b + 2 = (b + 1) + 1
    BY <1>2
  <2>2. nn[2] = text[b + 2] /\ nn[1] = text[b + 1]
    BY <1>4, <2>1
  <2> QED BY <1>1, <2>1, <2>2
<1> QED BY <1>2, <1>5, NewlineAssumption DEF IsSolid

\* What strip() leaves of a segment, if it leaves anything.
LEMMA ParagraphOfSegment ==
  ASSUME NEW text, IsList(text), NEW cursor \in Nat, cursor < Len(text)
  PROVE  LET e == SegmentEnd(text, cursor)
             list == Paragraph(text, cursor)
         IN /\ e \in Nat /\ e <= Len(text)
            /\ \/ /\ list = <<>>
                  /\ \A i \in Nat : cursor <= i /\ i < e => ~IsSolid(text, i)
               \/ \E p : /\ list = <<p>> /\ IsParagraph(text, cursor, p) /\ p.end <= e
                        /\ \A i \in Nat : cursor <= i /\ i < e /\ IsSolid(text, i) =>
                             p.start <= i /\ i < p.end
<1> DEFINE b == Boundary(text, cursor)
           e == SegmentEnd(text, cursor)
           S == Solid(text, cursor, e)
           L == Len(text)
           nn == Occurrences(text, <<Newline, Newline>>)
<1>1. L \in Nat /\ cursor < L
  BY DEF IsList
<1>2. /\ b = -1 \/ (b \in nn /\ b >= cursor /\ b \in Nat /\ b + 2 <= L)
      /\ \A i \in nn : i >= cursor => b # -1 /\ b <= i
  BY BoundaryIsNext
<1>3. e = IF b = -1 THEN L ELSE b
  BY DEF SegmentEnd
<1>4. \A i \in nn : i \in Nat
  BY BlankLineIsBlank
<1> HIDE DEF b, L, e, nn
<1>5. e \in Nat /\ e <= L /\ cursor <= e
  BY <1>1, <1>2, <1>3
<1>6. \A i \in Nat : i \in S <=> cursor <= i /\ i < e /\ IsSolid(text, i)
  BY <1>1, <1>5 DEF Solid, IsSolid, L
<1>7. S \in SUBSET (0..L)
  BY <1>1, <1>5 DEF Solid
<1>8. Paragraph(text, cursor) = IF S = {} THEN <<>> ELSE << Span(Min(S), Max(S) + 1) >>
  BY DEF Paragraph, e
<1> HIDE DEF S
<1>9. CASE S = {}
  <2>1. \A i \in Nat : cursor <= i /\ i < e => ~IsSolid(text, i)
    BY <1>6, <1>9
  <2> QED BY <1>5, <1>8, <1>9, <2>1 DEF e, L
<1>10. CASE S # {}
  <2> DEFINE low == Min(S)
             high == Max(S)
             p == Span(low, high + 1)
  <2>1. low \in S /\ \A i \in S : low <= i
    <3>1. S \in SUBSET Nat
      BY <1>1, <1>7
    <3> QED BY <1>10, <3>1, MinIsMember
  <2>2. high \in S /\ \A i \in S : high >= i
    BY <1>1, <1>7, <1>10, MaxIsMember
  <2>3. p.start = low /\ p.end = high + 1
    BY DEF Span
  <2>4. Paragraph(text, cursor) = <<p>>
    BY <1>8, <1>10
  <2> HIDE DEF low, high, p
  <2>5. /\ low \in Nat /\ high \in Nat /\ low <= high /\ high < e /\ cursor <= low
        /\ IsSolid(text, low) /\ IsSolid(text, high)
    <3>1. low \in Nat /\ high \in Nat
      BY <1>1, <1>7, <2>1, <2>2
    <3> QED BY <1>6, <2>1, <2>2, <3>1
  <2>6. ASSUME NEW i \in nn, low <= i, i + 2 <= high + 1
        PROVE  FALSE
    <3>1. i \in Nat /\ i >= cursor
      BY <1>4, <2>5, <2>6
    <3>2. b # -1 /\ b <= i
      BY <1>2, <3>1
    <3> QED BY <1>2, <1>3, <2>5, <2>6, <3>1, <3>2
  <2>7. IsParagraph(text, cursor, p)
    <3>1. p.end - 1 = high
      BY <2>3, <2>5
    <3> QED BY <1>5, <2>3, <2>5, <2>6, <3>1 DEF IsParagraph, nn, L
  <2>8. \A i \in Nat : cursor <= i /\ i < e /\ IsSolid(text, i) => p.start <= i /\ i < p.end
    <3> SUFFICES ASSUME NEW i \in Nat, cursor <= i, i < e, IsSolid(text, i)
                 PROVE  p.start <= i /\ i < p.end
      OBVIOUS
    <3>1. i \in S
      BY <1>6
    <3>2. low <= i /\ high >= i
      BY <2>1, <2>2, <3>1
    <3> QED BY <2>3, <2>5, <3>2
  <2>9. p.end <= e
    BY <1>5, <2>3, <2>5
  <2> QED BY <1>5, <2>4, <2>7, <2>8, <2>9 DEF e, L
<1> QED BY <1>9, <1>10

\* A paragraph before those from a later cursor.
LEMMA PartsExtend ==
  ASSUME NEW text, NEW cursor \in Nat, NEW next \in Nat, cursor <= next,
         NEW p, IsParagraph(text, cursor, p), p.end <= next,
         NEW list, Parts(text, next, list),
         \A i \in Nat : cursor <= i /\ i < next /\ IsSolid(text, i) => p.start <= i /\ i < p.end
  PROVE  Parts(text, cursor, <<p>> \o list)
<1> DEFINE t == <<p>> \o list
<1> SUFFICES Parts(text, cursor, t)
  OBVIOUS
<1>1. IsList(list)
  BY DEF Parts
<1>2. /\ IsList(t) /\ Len(list) \in Nat /\ t[1] = p
      /\ \A i \in 1..Len(list) : t[i + 1] = list[i]
      /\ DOMAIN t = 1..(Len(list) + 1) /\ DOMAIN list = 1..Len(list)
  BY <1>1, PrependElements
<1> HIDE DEF t
<1>3. \A i \in DOMAIN t : i = 1 \/ (i - 1 \in DOMAIN list /\ t[i] = list[i - 1])
  <2> SUFFICES ASSUME NEW i \in DOMAIN t, i # 1
               PROVE  i - 1 \in DOMAIN list /\ t[i] = list[i - 1]
    OBVIOUS
  <2>1. i - 1 \in 1..Len(list) /\ (i - 1) + 1 = i
    BY <1>2
  <2> QED BY <1>2, <2>1
<1>4. \A q \in DOMAIN list : IsParagraph(text, next, list[q])
  BY DEF Parts
<1>5. \A q \in DOMAIN list : IsParagraph(text, cursor, list[q]) /\ p.end <= list[q].start
  BY <1>4 DEF IsParagraph
<1>6. \A i \in DOMAIN t : IsParagraph(text, cursor, t[i])
  BY <1>2, <1>3, <1>5
<1>7. ASSUME NEW i \in DOMAIN t, NEW j \in DOMAIN t, i < j
      PROVE  t[i].end <= t[j].start
  <2>1. i \in Nat /\ j \in Nat /\ 1 <= i /\ j # 1
    BY <1>2, <1>7
  <2>2. j - 1 \in DOMAIN list /\ t[j] = list[j - 1]
    BY <1>3, <2>1
  <2>3. CASE i = 1
    BY <1>2, <1>5, <2>2, <2>3
  <2>4. CASE i # 1
    <3>1. i - 1 \in DOMAIN list /\ t[i] = list[i - 1] /\ i - 1 < j - 1
      BY <1>3, <1>7, <2>1, <2>4
    <3> QED BY <2>2, <3>1 DEF Parts
  <2> QED BY <2>3, <2>4
<1>8. ASSUME NEW i \in Nat, cursor <= i, IsSolid(text, i)
      PROVE  \E q \in DOMAIN t : t[q].start <= i /\ i < t[q].end
  <2>1. CASE i < next
    <3>1. 1 \in DOMAIN t
      BY <1>2
    <3> QED BY <1>2, <1>8, <2>1, <3>1
  <2>2. CASE ~(i < next)
    <3>1. PICK q \in DOMAIN list : list[q].start <= i /\ i < list[q].end
      <4>1. next <= i
        BY <2>2
      <4> QED BY <1>8, <4>1 DEF Parts
    <3>2. q + 1 \in DOMAIN t /\ t[q + 1] = list[q]
      BY <1>2
    <3> QED BY <3>1, <3>2
  <2> QED BY <2>1, <2>2
<1> QED BY <1>2, <1>6, <1>7, <1>8 DEF Parts

\* The paragraphs of a document.
LEMMA ParagraphsAreGood ==
  ASSUME NEW text, IsList(text)
  PROVE  Parts(text, 0, Paragraphs(text))
<1> DEFINE L == Len(text)
           M == L + 2
           b(c) == Boundary(text, c)
           e(c) == SegmentEnd(text, c)
           nn == Occurrences(text, <<Newline, Newline>>)
<1>1. L \in Nat /\ M \in Nat
  BY DEF IsList
<1>2. PICK from : Paragraphs(text) = from[0] /\ ParagraphsFrom(from, text)
  BY ParagraphsFollow
<1>3. \A c \in 0..M :
        from[c] = IF c >= L THEN <<>>
                  ELSE Paragraph(text, c) \o (IF b(c) = -1 THEN <<>> ELSE from[b(c) + 2])
  BY <1>2 DEF ParagraphsFrom
<1>4. \A c \in Nat :
        /\ e(c) = IF b(c) = -1 THEN L ELSE b(c)
        /\ b(c) = -1 \/ (b(c) \in nn /\ b(c) >= c /\ b(c) \in Nat /\ b(c) + 2 <= L)
  BY BoundaryIsNext DEF SegmentEnd
<1>5. \A i \in Nat : IsSolid(text, i) => i < L
  BY <1>1 DEF IsSolid
<1>6. \A c \in Nat : c >= L => Parts(text, c, <<>>)
  <2>1. IsList(<<>>) /\ DOMAIN <<>> = {}
    <3>1. \A T : <<>> \in Seq(T)
      OBVIOUS
    <3> QED BY <3>1 DEF IsList
  <2> QED BY <1>1, <1>5, <2>1 DEF Parts
<1>7. \A i \in nn : ~IsSolid(text, i) /\ ~IsSolid(text, i + 1)
  BY BlankLineIsBlank
<1>8. \A c \in Nat : c < L =>
        /\ e(c) \in Nat /\ e(c) <= L
        /\ \/ /\ Paragraph(text, c) = <<>>
              /\ \A i \in Nat : c <= i /\ i < e(c) => ~IsSolid(text, i)
           \/ \E p : /\ Paragraph(text, c) = <<p>> /\ IsParagraph(text, c, p) /\ p.end <= e(c)
                    /\ \A i \in Nat : c <= i /\ i < e(c) /\ IsSolid(text, i) =>
                         p.start <= i /\ i < p.end
  BY ParagraphOfSegment
<1> HIDE DEF L, b, e, nn
<1> DEFINE Bad == { c \in 0..M : ~Parts(text, c, from[c]) }
<1>9. Bad = {}
  <2> SUFFICES ASSUME Bad # {} PROVE FALSE
    OBVIOUS
  <2>1. Bad \in SUBSET (0..M)
    OBVIOUS
  <2>2. PICK c \in Bad : \A d \in Bad : c >= d
    <3> HIDE DEF Bad, M
    <3> QED BY <1>1, <2>1, MaxIsMember
  <2>3. c \in 0..M /\ c \in Nat /\ ~Parts(text, c, from[c])
    BY <1>1
  <2>4. c < L
    BY <1>1, <1>3, <1>6, <2>3
  <2> DEFINE rest == IF b(c) = -1 THEN <<>> ELSE from[b(c) + 2]
             next == IF b(c) = -1 THEN L ELSE b(c) + 2
  <2>5. from[c] = Paragraph(text, c) \o rest
    <3>1. ~(c >= L)
      BY <1>1, <2>3, <2>4
    <3> HIDE DEF M
    <3> QED BY <1>3, <2>3, <3>1
  <2>6. /\ next \in Nat /\ c <= next /\ e(c) <= next /\ e(c) \in Nat
        /\ \A i \in Nat : c <= i /\ i < next /\ IsSolid(text, i) => i < e(c)
    <3>1. CASE b(c) = -1
      BY <1>1, <1>4, <2>3, <2>4, <3>1
    <3>2. CASE b(c) # -1
      <4>1. /\ b(c) \in nn /\ b(c) \in Nat /\ b(c) >= c /\ e(c) = b(c) /\ next = b(c) + 2
        BY <1>4, <2>3, <3>2
      <4>2. ~IsSolid(text, b(c)) /\ ~IsSolid(text, b(c) + 1)
        BY <1>7, <4>1
      <4>3. \A i \in Nat : i < next => i < b(c) \/ i = b(c) \/ i = b(c) + 1
        BY <4>1
      <4> HIDE DEF next
      <4> QED BY <2>3, <4>1, <4>2, <4>3
    <3> QED BY <3>1, <3>2
  <2>7. Parts(text, next, rest)
    <3>1. CASE b(c) = -1
      BY <1>1, <1>6, <3>1
    <3>2. CASE b(c) # -1
      <4>1. b(c) + 2 \in 0..M /\ ~(c >= b(c) + 2)
        BY <1>1, <1>4, <2>3, <3>2
      <4>2. Parts(text, b(c) + 2, from[b(c) + 2])
        BY <2>2, <4>1
      <4> QED BY <3>2, <4>2
    <3> QED BY <3>1, <3>2
  <2> HIDE DEF rest, next, Bad
  <2>8. CASE /\ Paragraph(text, c) = <<>>
             /\ \A i \in Nat : c <= i /\ i < e(c) => ~IsSolid(text, i)
    <3>1. IsList(rest)
      BY <2>7 DEF Parts
    <3>2. from[c] = rest
      BY <2>5, <2>8, <3>1, ConcatEmptySeq DEF IsList
    <3>3. \A p : IsParagraph(text, next, p) => IsParagraph(text, c, p)
      BY <2>3, <2>6 DEF IsParagraph
    <3>4. \A i \in Nat : c <= i /\ IsSolid(text, i) => next <= i
      BY <2>6, <2>8
    <3>5. Parts(text, c, rest)
      BY <2>7, <3>3, <3>4 DEF Parts
    <3> QED BY <2>3, <3>2, <3>5
  <2>9. CASE \E p : /\ Paragraph(text, c) = <<p>> /\ IsParagraph(text, c, p) /\ p.end <= e(c)
                    /\ \A i \in Nat : c <= i /\ i < e(c) /\ IsSolid(text, i) =>
                         p.start <= i /\ i < p.end
    <3>1. PICK p : /\ Paragraph(text, c) = <<p>> /\ IsParagraph(text, c, p) /\ p.end <= e(c)
                   /\ \A i \in Nat : c <= i /\ i < e(c) /\ IsSolid(text, i) =>
                        p.start <= i /\ i < p.end
      BY <2>9
    <3>2. p.end <= next
      BY <2>6, <3>1 DEF IsParagraph
    <3>3. \A i \in Nat : c <= i /\ i < next /\ IsSolid(text, i) => p.start <= i /\ i < p.end
      BY <2>6, <3>1
    <3>4. Parts(text, c, <<p>> \o rest)
      BY <2>3, <2>6, <2>7, <3>1, <3>2, <3>3, PartsExtend
    <3> QED BY <2>3, <2>5, <3>1, <3>4
  <2> QED BY <1>8, <2>3, <2>4, <2>8, <2>9
<1>10. 0 \in 0..M
  BY <1>1
<1> QED BY <1>2, <1>9, <1>10

\* The windows of a document cover it.
LEMMA FixedWindowsCover ==
  ASSUME NEW text, IsList(text), NEW window \in Nat \ {0}, NEW overlap \in 0..(window - 1)
  PROVE  WindowsCover(FixedWindows(text, window, overlap), text, overlap)
<1> DEFINE L == Len(text)
           windows == FixedWindows(text, window, overlap)
<1>1. L \in Nat
  BY DEF IsList
<1>2. (windows = <<>> /\ L = 0) \/ Windows(windows, 0, L, window, overlap)
  <2>1. CASE text = <<>>
    BY <2>1 DEF FixedWindows
  <2>2. CASE text # <<>>
    BY <2>2, WindowsAreGood
  <2> QED BY <2>1, <2>2
<1>3. \A a, c : Span(a, c).start = a /\ Span(a, c).end = c
  BY DEF Span
<1>4. ASSUME NEW a \in 0..L, NEW n \in 1..(overlap + 1), a + n <= L
      PROVE  \E w \in DOMAIN windows : windows[w].start <= a /\ a + n <= windows[w].end
  <2> HIDE DEF L, windows
  <2>1. a \in Nat /\ a + n \in Nat /\ 0 <= a /\ a < a + n /\ a + n <= a + overlap + 1 /\ L # 0
    BY <1>1, <1>4
  <2> QED BY <1>2, <1>4, <2>1 DEF Windows
<1> HIDE DEF windows
<1>5. \A v, w \in DOMAIN windows :
        v # w => /\ ~Within(windows[v], windows[w])
                 /\ v < w => windows[v].start < windows[w].start
  <2> HIDE DEF L
  <2> SUFFICES ASSUME NEW v \in DOMAIN windows, NEW w \in DOMAIN windows, v # w
               PROVE  /\ ~Within(windows[v], windows[w])
                      /\ v < w => windows[v].start < windows[w].start
    OBVIOUS
  <2>1. Windows(windows, 0, L, window, overlap)
    BY <1>2
  <2>2. v \in Nat /\ w \in Nat
    BY <2>1 DEF Windows, IsList
  <2>3. v < w => windows[v].start < windows[w].start /\ windows[v].end < windows[w].end
    BY <2>1 DEF Windows
  <2>4. w < v => windows[w].start < windows[v].start /\ windows[w].end < windows[v].end
    BY <2>1 DEF Windows
  <2>5. /\ windows[v].start \in Nat /\ windows[v].end \in Nat
        /\ windows[w].start \in Nat /\ windows[w].end \in Nat
    BY <2>1 DEF Windows
  <2> QED BY <2>2, <2>3, <2>4, <2>5 DEF Within
<1>6. \A a \in 0..L, n \in 1..(overlap + 1) :
        a + n <= L => \E w \in DOMAIN windows : Within(Span(a, a + n), windows[w])
  <2> HIDE DEF L
  <2> QED BY <1>3, <1>4 DEF Within
<1> QED BY <1>5, <1>6 DEF WindowsCover, windows

\* So do its paragraphs.
LEMMA ParagraphsCoverText ==
  ASSUME NEW text, IsList(text)
  PROVE  ParagraphsCover(Paragraphs(text), text)
<1> DEFINE L == Len(text)
           paragraphs == Paragraphs(text)
           solid == SolidOffsets(text)
           nn == <<Newline, Newline>>
<1>1. L \in Nat
  BY DEF IsList
<1>2. Parts(text, 0, paragraphs)
  BY ParagraphsAreGood
<1>3. \A i : i \in solid <=> IsSolid(text, i)
  BY DEF SolidOffsets, IsSolid
<1> HIDE DEF solid
<1>4. \A a, c : Span(a, c).start = a /\ Span(a, c).end = c
  BY DEF Span
<1>5. \A p \in DOMAIN paragraphs : p \in Nat /\ IsParagraph(text, 0, paragraphs[p])
  BY <1>2 DEF Parts, IsList
<1>6. ASSUME NEW i \in solid
       PROVE  Cardinality({ p \in DOMAIN paragraphs :
                              Within(Span(i, i + 1), paragraphs[p]) }) = 1
  <2> DEFINE holders == { p \in DOMAIN paragraphs : Within(Span(i, i + 1), paragraphs[p]) }
  <2>1. i \in Nat /\ IsSolid(text, i)
    BY <1>1, <1>3 DEF IsSolid
  <2> HIDE DEF paragraphs
  <2>2. PICK p \in DOMAIN paragraphs : paragraphs[p].start <= i /\ i < paragraphs[p].end
    <3>1. 0 <= i
      BY <2>1
    <3> QED BY <1>2, <2>1, <3>1 DEF Parts
  <2>3. \A q \in DOMAIN paragraphs :
          q \in holders <=> paragraphs[q].start <= i /\ i < paragraphs[q].end
    BY <1>4, <1>5, <2>1 DEF Within, IsParagraph
  <2>4. ASSUME NEW q \in holders PROVE q = p
    <3>1. paragraphs[q].start <= i /\ i < paragraphs[q].end /\ q \in DOMAIN paragraphs
      BY <2>3
    <3>2. /\ q < p => paragraphs[q].end <= paragraphs[p].start
          /\ p < q => paragraphs[p].end <= paragraphs[q].start
      BY <1>2, <3>1 DEF Parts
    <3>3. /\ paragraphs[q].start \in Nat /\ paragraphs[q].end \in Nat /\ q \in Nat
          /\ paragraphs[p].start \in Nat /\ paragraphs[p].end \in Nat /\ p \in Nat
      BY <1>5, <3>1 DEF IsParagraph
    <3> QED BY <2>1, <2>2, <3>1, <3>2, <3>3
  <2>5. holders = {p}
    <3>1. p \in holders
      BY <2>2, <2>3
    <3> HIDE DEF holders
    <3> QED BY <2>4, <3>1
  <2> HIDE DEF holders
  <2>6. Cardinality(holders) = 1
    BY <2>5, FS_Singleton
  <2> QED BY <2>6 DEF holders
<1>7. ASSUME NEW p \in DOMAIN paragraphs
       PROVE  /\ {paragraphs[p].start, paragraphs[p].end - 1} \subseteq solid
              /\ Occurrences(Slice(text, paragraphs[p].start, paragraphs[p].end), nn) = {}
  <2> DEFINE s == paragraphs[p].start
             t == paragraphs[p].end
             T == ToSet(text)
             slice == Slice(text, s, t)
  <2> HIDE DEF paragraphs
  <2>1. /\ s \in Nat /\ t \in Nat /\ s < t /\ t <= L
        /\ IsSolid(text, s) /\ IsSolid(text, t - 1)
        /\ \A i \in Occurrences(text, nn) : ~(s <= i /\ i + 2 <= t)
    BY <1>5 DEF IsParagraph
  <2> HIDE DEF s, t
  <2>2. {s, t - 1} \subseteq solid
    BY <1>3, <2>1
  <2>3. Occurrences(slice, nn) = {}
    <3>1. text \in Seq(T)
      BY DEF IsList
    <3> HIDE DEF T
    <3>2. slice \in Seq(T) /\ Len(slice) = t - s
      <4>1. s \in Int /\ t \in Int /\ 0 <= s /\ s <= t /\ t <= Len(text)
        BY <2>1
      <4> QED BY <3>1, <4>1, SliceProperties
    <3> HIDE DEF slice
    <3> SUFFICES ASSUME NEW i \in Occurrences(slice, nn) PROVE FALSE
      OBVIOUS
    <3>3. Len(nn) = 2
      OBVIOUS
    <3> HIDE DEF nn
    <3>4. i \in Int /\ 0 <= i /\ i + 2 <= t - s /\ Slice(slice, i, i + 2) = nn
      BY <2>1, <3>2, <3>3 DEF Occurrences
    <3>5. Slice(slice, i, i + 2) = Slice(text, s + i, s + (i + 2))
      <4>1. /\ s \in Int /\ t \in Int /\ i + 2 \in Int /\ 0 <= s /\ s <= t
            /\ i <= i + 2
        BY <2>1, <3>4
      <4> QED BY <2>1, <3>1, <3>4, <4>1, SliceOfSlice DEF slice
    <3>6. s + i \in Occurrences(text, nn)
      <4>1. s + (i + 2) = (s + i) + 2 /\ s + i \in 0..(L - 2)
        BY <1>1, <2>1, <3>4
      <4> QED BY <3>3, <3>4, <3>5, <4>1 DEF Occurrences
    <3>7. s <= s + i /\ (s + i) + 2 <= t
      BY <2>1, <3>4
    <3> QED BY <2>1, <3>6, <3>7
  <2> QED BY <2>2, <2>3 DEF s, t, slice
<1> HIDE DEF paragraphs
<1> QED BY <1>6, <1>7 DEF ParagraphsCover, solid, paragraphs

\* Chunking loses nothing, whatever the document and the size of the windows:
\* every stretch of up to overlap + 1 characters is whole in one window, and
\* every character that is not blank is in exactly one paragraph.
\* (kgis/extraction/documents.py)
THEOREM ChunksStayCovered == Spec => []ChunksCoverDocument
<1>1. Init => ChunksCoverDocument
  BY DEF Init, Nothing, ChunksCoverDocument
<1>2. ASSUME Next PROVE ChunksCoverDocument'
  <2>1. CASE call'.op # "segment"
    BY <2>1 DEF ChunksCoverDocument
  <2>2. CASE call'.op = "segment"
    <3>1. PICK text \in Texts, window \in 1..MaxWindow : \E overlap \in 0..(window - 1) :
            call' = [ op |-> "segment",
                      given |-> [text |-> text, window |-> window, overlap |-> overlap],
                      answer |-> [ whole |-> WholeDocument(text), paragraphs |-> Paragraphs(text),
                                   windows |-> FixedWindows(text, window, overlap) ] ]
      BY <1>2, <2>2, WhoAnswers DEF Segment, Call
    <3>2. IsList(text) /\ window \in Nat \ {0}
      BY TextsAssumption DEF IsList
    <3>3. PICK overlap \in 0..(window - 1) :
            call' = [ op |-> "segment",
                      given |-> [text |-> text, window |-> window, overlap |-> overlap],
                      answer |-> [ whole |-> WholeDocument(text), paragraphs |-> Paragraphs(text),
                                   windows |-> FixedWindows(text, window, overlap) ] ]
      BY <3>1
    <3>4. /\ call'.given.text = text /\ call'.given.overlap = overlap
          /\ call'.answer.windows = FixedWindows(text, window, overlap)
          /\ call'.answer.paragraphs = Paragraphs(text)
      BY <3>3
    <3>5. /\ WindowsCover(call'.answer.windows, text, overlap)
          /\ ParagraphsCover(call'.answer.paragraphs, text)
      BY <3>2, <3>4, FixedWindowsCover, ParagraphsCoverText
    <3> QED BY <3>4, <3>5 DEF ChunksCoverDocument
  <2> QED BY <2>1, <2>2
<1>3. ASSUME ChunksCoverDocument, UNCHANGED call PROVE ChunksCoverDocument'
  BY <1>3 DEF ChunksCoverDocument
<1> QED BY <1>1, <1>2, <1>3, PTL DEF Spec

-----------------------------------------------------------------------------
(* Records *)

\* A list with one more.
LEMMA AppendElements ==
  ASSUME NEW s, IsList(s), NEW c
  PROVE  /\ IsList(Append(s, c)) /\ ToSet(Append(s, c)) = ToSet(s) \cup {c}
         /\ Len(Append(s, c)) = Len(s) + 1 /\ Len(s) \in Nat
         /\ Keys(Append(s, c)) = Keys(s) \cup {c.key}
<1> DEFINE t == Append(s, c)
<1>1. /\ s \in Seq(ToSet(s) \cup {c}) /\ c \in ToSet(s) \cup {c}
      /\ DOMAIN s = 1..Len(s) /\ Len(s) \in Nat
  BY DEF IsList, ToSet
<1>2. /\ t \in Seq(ToSet(s) \cup {c}) /\ Len(t) = Len(s) + 1
      /\ DOMAIN t = 1..(Len(s) + 1)
      /\ \A i \in 1..Len(s) : t[i] = s[i]
      /\ t[Len(s) + 1] = c
  BY <1>1
<1>3. DOMAIN t = DOMAIN s \cup {Len(s) + 1}
  BY <1>1, <1>2
<1> HIDE DEF t
<1>4. ToSet(t) = ToSet(s) \cup {c}
  BY <1>1, <1>2, <1>3 DEF ToSet
<1>5. Keys(t) = Keys(s) \cup {c.key}
  BY <1>1, <1>2, <1>3 DEF Keys
<1>6. IsList(t)
  BY <1>2, <1>4 DEF IsList
<1> QED BY <1>1, <1>2, <1>4, <1>5, <1>6 DEF t

\* The candidates a report tells of.
Told(r) == ToSet(r.planned) \cup ToSet(r.suppressed) \cup ToSet(r.rejected)

\* A report between two candidates.
Sound(r) ==
  /\ DOMAIN r = DOMAIN EmptyReport
  /\ IsList(r.planned) /\ IsList(r.suppressed) /\ IsList(r.rejected)
  /\ r.built = Len(r.planned) + Len(r.suppressed) + Len(r.rejected)
  /\ IsFiniteSet(Keys(r.planned)) /\ Cardinality(Keys(r.planned)) = Len(r.planned)
  /\ Keys(r.suppressed) \subseteq Keys(r.planned)

\* The counts of records.
SameCounts(r, s) == s.read = r.read /\ s.valid = r.valid /\ s.invalid = r.invalid

\* Admitting a candidate tells of it and keeps the report sound.
LEMMA AdmitIsSound ==
  ASSUME NEW config, NEW r, Sound(r), NEW c
  PROVE  LET s == Admit(config, r, c) IN
         Sound(s) /\ SameCounts(r, s) /\ Told(s) = Told(r) \cup {c}
<1> DEFINE s == Admit(config, r, c)
           counted == [r EXCEPT !.built = @ + 1]
<1>1. /\ DOMAIN r = {"read", "valid", "invalid", "built", "suppressed", "rejected", "planned",
                     "warned", "incomplete"}
      /\ DOMAIN EmptyReport = DOMAIN r
  BY DEF Sound, EmptyReport
<1>2. /\ IsList(r.planned) /\ IsList(r.suppressed) /\ IsList(r.rejected)
      /\ r.built = Len(r.planned) + Len(r.suppressed) + Len(r.rejected)
      /\ Len(r.planned) \in Nat /\ Len(r.suppressed) \in Nat /\ Len(r.rejected) \in Nat
  BY AppendElements DEF Sound
<1>3. /\ IsFiniteSet(Keys(r.planned)) /\ Cardinality(Keys(r.planned)) = Len(r.planned)
      /\ Keys(r.suppressed) \subseteq Keys(r.planned)
  BY DEF Sound
<1>4. /\ DOMAIN counted = DOMAIN r /\ counted.built = r.built + 1
      /\ counted.planned = r.planned /\ counted.suppressed = r.suppressed
      /\ counted.rejected = r.rejected /\ SameCounts(r, counted)
  BY <1>1 DEF SameCounts
<1>5. CASE c.key \in Keys(r.planned)
  <2> DEFINE list == Append(r.suppressed, c)
  <2>1. s = [counted EXCEPT !.suppressed = list]
    BY <1>4, <1>5 DEF Admit
  <2>2. /\ IsList(list) /\ ToSet(list) = ToSet(r.suppressed) \cup {c}
        /\ Len(list) = Len(r.suppressed) + 1 /\ Keys(list) = Keys(r.suppressed) \cup {c.key}
    BY <1>2, AppendElements
  <2> HIDE DEF s, counted, list
  <2>3. /\ DOMAIN s = DOMAIN r /\ s.built = r.built + 1 /\ s.suppressed = list
        /\ s.planned = r.planned /\ s.rejected = r.rejected /\ SameCounts(r, s)
    BY <1>1, <1>4, <2>1 DEF SameCounts
  <2>4. Sound(s)
    BY <1>1, <1>2, <1>3, <1>5, <2>2, <2>3 DEF Sound
  <2>5. Told(s) = Told(r) \cup {c}
    BY <2>2, <2>3 DEF Told
  <2> QED BY <2>3, <2>4, <2>5 DEF s
<1>6. CASE c.key \notin Keys(r.planned) /\ CandidateValid(config, c)
  <2> DEFINE list == Append(r.planned, c)
  <2>1. s = [counted EXCEPT !.planned = list]
    BY <1>4, <1>6 DEF Admit
  <2>2. /\ IsList(list) /\ ToSet(list) = ToSet(r.planned) \cup {c}
        /\ Len(list) = Len(r.planned) + 1 /\ Keys(list) = Keys(r.planned) \cup {c.key}
    BY <1>2, AppendElements
  <2> HIDE DEF s, counted, list
  <2>3. /\ DOMAIN s = DOMAIN r /\ s.built = r.built + 1 /\ s.planned = list
        /\ s.suppressed = r.suppressed /\ s.rejected = r.rejected /\ SameCounts(r, s)
    BY <1>1, <1>4, <2>1 DEF SameCounts
  <2>4. IsFiniteSet(Keys(list)) /\ Cardinality(Keys(list)) = Len(list)
    <3> DEFINE K == Keys(r.planned)
               key == c.key
    <3>1. IsFiniteSet(K) /\ key \notin K /\ Cardinality(K) = Len(r.planned)
      BY <1>3, <1>6
    <3> HIDE DEF K, key
    <3>2. IsFiniteSet(K \cup {key}) /\ Cardinality(K \cup {key}) = Cardinality(K) + 1
      BY <3>1, FS_AddElement
    <3>3. Keys(list) = K \cup {key}
      BY <2>2 DEF K, key
    <3> QED BY <2>2, <3>1, <3>2, <3>3
  <2>5. Sound(s)
    <3>1. s.built = Len(s.planned) + Len(s.suppressed) + Len(s.rejected)
      <4> DEFINE a == Len(r.planned)
                 b == Len(r.suppressed)
                 d == Len(r.rejected)
      <4>1. /\ a \in Nat /\ b \in Nat /\ d \in Nat /\ r.built = a + b + d
            /\ s.built = r.built + 1 /\ Len(s.planned) = a + 1
            /\ Len(s.suppressed) = b /\ Len(s.rejected) = d
        BY <1>2, <2>2, <2>3
      <4> HIDE DEF a, b, d
      <4> QED BY <4>1
    <3>2. Keys(s.suppressed) \subseteq Keys(s.planned)
      BY <1>3, <2>2, <2>3
    <3> QED BY <1>1, <1>2, <2>2, <2>3, <2>4, <3>1, <3>2 DEF Sound
  <2>6. Told(s) = Told(r) \cup {c}
    BY <2>2, <2>3 DEF Told
  <2> QED BY <2>3, <2>5, <2>6 DEF s
<1>7. CASE c.key \notin Keys(r.planned) /\ ~CandidateValid(config, c)
  <2> DEFINE list == Append(r.rejected, c)
  <2>1. s = [counted EXCEPT !.rejected = list]
    BY <1>4, <1>7 DEF Admit
  <2>2. /\ IsList(list) /\ ToSet(list) = ToSet(r.rejected) \cup {c}
        /\ Len(list) = Len(r.rejected) + 1
    BY <1>2, AppendElements
  <2> HIDE DEF s, counted, list
  <2>3. /\ DOMAIN s = DOMAIN r /\ s.built = r.built + 1 /\ s.rejected = list
        /\ s.planned = r.planned /\ s.suppressed = r.suppressed /\ SameCounts(r, s)
    BY <1>1, <1>4, <2>1 DEF SameCounts
  <2>4. Sound(s)
    BY <1>1, <1>2, <1>3, <2>2, <2>3 DEF Sound
  <2>5. Told(s) = Told(r) \cup {c}
    BY <2>2, <2>3 DEF Told
  <2> QED BY <2>3, <2>4, <2>5 DEF s
<1> QED BY <1>5, <1>6, <1>7

\* AdmitAll() takes the candidates one after the other.
LEMMA AdmitAllFollows ==
  ASSUME NEW config, NEW r, NEW candidates, IsList(candidates)
  PROVE  \E upTo : /\ upTo[0] = r /\ AdmitAll(config, r, candidates) = upTo[Len(candidates)]
                   /\ \A n \in 1..Len(candidates) :
                        upTo[n] = Admit(config, upTo[n - 1], candidates[n])
<1> DEFINE N == Len(candidates)
           Good(g, m) == g = [n \in 0..m |-> IF n = 0 THEN r
                                             ELSE Admit(config, g[n - 1], candidates[n])]
           T == { m \in 0..N : \E g : Good(g, m) }
<1>1. N \in Nat
  BY DEF IsList
<1>2. 0 \in T
  <2> DEFINE g == [n \in 0..0 |-> r]
  <2>1. /\ \A n \in 0..0 : g[n] = IF n = 0 THEN r ELSE Admit(config, g[n - 1], candidates[n])
        /\ g = [n \in 0..0 |-> g[n]]
    OBVIOUS
  <2> HIDE DEF g
  <2>2. Good(g, 0)
    BY <2>1, Zenon
  <2> QED BY <1>1, <2>2
<1>3. ASSUME NEW m \in 1..N, m - 1 \in T PROVE m \in T
  <2>1. PICK g : Good(g, m - 1)
    BY <1>3
  <2> DEFINE h == [n \in 0..m |-> IF n = m THEN Admit(config, g[m - 1], candidates[m]) ELSE g[n]]
  <2>2. /\ \A n \in 0..(m - 1) : h[n] = g[n]
        /\ h[m] = Admit(config, g[m - 1], candidates[m])
        /\ DOMAIN h = 0..m /\ h = [n \in 0..m |-> h[n]]
    BY <1>1
  <2>3. \A n \in 0..(m - 1) : g[n] = IF n = 0 THEN r ELSE Admit(config, g[n - 1], candidates[n])
    BY <2>1
  <2> HIDE DEF h
  <2>4. \A n \in 0..m : h[n] = IF n = 0 THEN r ELSE Admit(config, h[n - 1], candidates[n])
    <3> SUFFICES ASSUME NEW n \in 0..m
                 PROVE  h[n] = IF n = 0 THEN r ELSE Admit(config, h[n - 1], candidates[n])
      OBVIOUS
    <3>1. CASE n = 0
      BY <1>1, <2>2, <2>3, <3>1
    <3>2. CASE n \in 1..(m - 1)
      <4>1. n \in 0..(m - 1) /\ n - 1 \in 0..(m - 1) /\ n # 0
        BY <1>1, <3>2
      <4> QED BY <2>2, <2>3, <4>1
    <3>3. CASE n = m
      <4>1. m - 1 \in 0..(m - 1) /\ n # 0
        BY <1>1, <3>3
      <4> QED BY <2>2, <3>3, <4>1
    <3> QED BY <1>1, <3>1, <3>2, <3>3
  <2>5. Good(h, m)
    <3> DEFINE at(n) == IF n = 0 THEN r ELSE Admit(config, h[n - 1], candidates[n])
    <3>1. \A n \in 0..m : h[n] = at(n)
      BY <2>4
    <3> HIDE DEF at
    <3>2. h = [n \in 0..m |-> at(n)]
      BY <2>2, <3>1
    <3> QED BY <3>2 DEF at
  <2>6. m \in 0..N
    BY <1>1
  <2> HIDE DEF Good
  <2> QED BY <2>5, <2>6
<1>4. \E g : Good(g, N)
  <2>1. N \in 0..N
    BY <1>1
  <2>2. N \in T
    <3> HIDE DEF T
    <3> QED BY <1>1, <1>2, <1>3, <2>1, InductionUpTo
  <2> QED BY <2>2
<1> DEFINE upTo == CHOOSE g : Good(g, N)
<1>5. Good(upTo, N)
  <2> HIDE DEF Good
  <2> QED BY <1>4
<1>6. AdmitAll(config, r, candidates) = upTo[N]
  BY DEF AdmitAll
<1> HIDE DEF upTo
<1>7. /\ upTo[0] = r
      /\ \A n \in 1..N : upTo[n] = Admit(config, upTo[n - 1], candidates[n])
  BY <1>1, <1>5
<1> QED BY <1>6, <1>7

\* A row of candidates is told of whole.
LEMMA AdmitAllIsSound ==
  ASSUME NEW config, NEW r, Sound(r), NEW candidates, IsList(candidates)
  PROVE  LET s == AdmitAll(config, r, candidates) IN
         Sound(s) /\ SameCounts(r, s) /\ Told(s) = Told(r) \cup ToSet(candidates)
<1> DEFINE N == Len(candidates)
           s == AdmitAll(config, r, candidates)
           Before(n) == { candidates[i] : i \in 1..n }
<1>1. PICK upTo : /\ upTo[0] = r /\ s = upTo[N]
                  /\ \A n \in 1..N : upTo[n] = Admit(config, upTo[n - 1], candidates[n])
  BY AdmitAllFollows
<1>2. N \in Nat /\ DOMAIN candidates = 1..N
  BY DEF IsList
<1> DEFINE T == { n \in 0..N : /\ Sound(upTo[n]) /\ SameCounts(r, upTo[n])
                               /\ Told(upTo[n]) = Told(r) \cup Before(n) }
<1>3. 0 \in T
  BY <1>1, <1>2 DEF SameCounts
<1>4. ASSUME NEW n \in 1..N, n - 1 \in T PROVE n \in T
  <2>1. /\ Sound(upTo[n - 1]) /\ SameCounts(r, upTo[n - 1])
        /\ Told(upTo[n - 1]) = Told(r) \cup Before(n - 1)
    BY <1>4
  <2>2. /\ Sound(upTo[n]) /\ SameCounts(upTo[n - 1], upTo[n])
        /\ Told(upTo[n]) = Told(upTo[n - 1]) \cup {candidates[n]}
    BY <1>1, <2>1, AdmitIsSound
  <2>3. Before(n) = Before(n - 1) \cup {candidates[n]}
    <3>1. 1..n = 1..(n - 1) \cup {n}
      BY <1>2
    <3> QED BY <3>1
  <2>4. Told(upTo[n]) = Told(r) \cup Before(n)
    <3> HIDE DEF Before
    <3> QED BY <2>1, <2>2, <2>3
  <2>5. SameCounts(r, upTo[n])
    BY <2>1, <2>2 DEF SameCounts
  <2> HIDE DEF Before
  <2> QED BY <1>2, <2>2, <2>4, <2>5
<1>5. N \in T
  <2>1. N \in 0..N
    BY <1>2
  <2> HIDE DEF T
  <2> QED BY <1>2, <1>3, <1>4, <2>1, InductionUpTo
<1>6. Before(N) = ToSet(candidates)
  BY <1>2 DEF ToSet
<1> HIDE DEF Before, s
<1> QED BY <1>1, <1>5, <1>6 DEF s

\* Builders of the three kinds.
BuildersType(builders) ==
  /\ IsList(builders)
  /\ \A b \in DOMAIN builders :
       /\ builders[b].kind \in {"entity", "attribute", "relation"}
       /\ builders[b].kind = "attribute" => IsList(builders[b].attributes)

\* A builder that does not raise makes a list of candidates.
LEMMA BuildsLists ==
  ASSUME NEW builder, NEW record, BuildOne(builder, record) # Null,
         builder.kind \in {"entity", "attribute", "relation"},
         builder.kind = "attribute" => IsList(builder.attributes)
  PROVE  IsList(BuildOne(builder, record))
<1>1. \A x : IsList(<<x>>)
  BY DEF IsList, ToSet
<1>2. CASE builder.kind = "entity"
  <2>1. BuildOne(builder, record) = BuildEntity(builder, record)
    BY <1>2 DEF BuildOne
  <2> QED BY <1>1, <2>1 DEF BuildEntity
<1>3. CASE builder.kind = "relation"
  <2>1. BuildOne(builder, record) = BuildRelation(builder, record)
    BY <1>3 DEF BuildOne
  <2> QED BY <1>1, <2>1 DEF BuildRelation
<1>4. CASE builder.kind = "attribute"
  <2>1. BuildOne(builder, record) = BuildAttributes(builder, record)
    BY <1>4 DEF BuildOne
  <2> DEFINE from == Get(record, builder.from)
             one(name) ==
               [ kind |-> "attribute", term |-> name,
                 key |-> EntityKey(builder.type, record, builder.key)
                           \o << name >> \o PeriodSuffix(from),
                 value |-> Get(record, name) ]
             X == { one(builder.attributes[i]) : i \in DOMAIN builder.attributes }
             parts == [ i \in DOMAIN builder.attributes |->
                          LET name == builder.attributes[i] IN
                          IF Get(record, name) = Null THEN <<>> ELSE << one(name) >> ]
  <2>2. BuildOne(builder, record) = FlattenSeq(parts)
    BY <2>1 DEF BuildAttributes
  <2>3. parts \in Seq(Seq(X))
    <3>1. DOMAIN builder.attributes = 1..Len(builder.attributes) /\ Len(builder.attributes) \in Nat
      BY <1>4 DEF IsList
    <3>2. ASSUME NEW i \in DOMAIN builder.attributes
          PROVE  parts[i] \in Seq(X)
      <4> DEFINE made == one(builder.attributes[i])
      <4>1. made \in X
        OBVIOUS
      <4>2. parts[i] = <<>> \/ parts[i] = << made >>
        OBVIOUS
      <4> HIDE DEF X, made, parts
      <4>3. <<>> \in Seq(X) /\ << made >> \in Seq(X)
        BY <4>1
      <4> QED BY <4>2, <4>3
    <3>3. DOMAIN parts = DOMAIN builder.attributes
      OBVIOUS
    <3>4. parts = [i \in DOMAIN parts |-> parts[i]]
      OBVIOUS
    <3> HIDE DEF X, parts
    <3> QED BY <3>1, <3>2, <3>3, <3>4
  <2> HIDE DEF parts, X
  <2>4. FlattenSeq(parts) \in Seq(X)
    BY <2>3, FlattenElements
  <2> QED BY <2>2, <2>4 DEF IsList, ToSet
<1> QED BY <1>2, <1>3, <1>4

\* So do all the builders of a configuration.
LEMMA BuildIsList ==
  ASSUME NEW builders, BuildersType(builders), NEW record, Build(builders, record) # Null
  PROVE  IsList(Build(builders, record))
<1> DEFINE built == [ b \in DOMAIN builders |-> BuildOne(builders[b], record) ]
           X == UNION { ToSet(built[b]) : b \in DOMAIN builders }
<1>1. /\ Build(builders, record) = FlattenSeq(built)
      /\ \A b \in DOMAIN builders : built[b] # Null
  BY DEF Build, Composite
<1>2. built \in Seq(Seq(X))
  <2>1. DOMAIN builders = 1..Len(builders) /\ Len(builders) \in Nat
    BY DEF BuildersType, IsList
  <2>2. ASSUME NEW b \in DOMAIN builders
        PROVE  built[b] \in Seq(X)
    <3>1. built[b] \in Seq(ToSet(built[b]))
      BY <1>1, BuildsLists DEF BuildersType, IsList
    <3>2. ToSet(built[b]) \subseteq X
      OBVIOUS
    <3> HIDE DEF X, built
    <3> QED BY <3>1, <3>2
  <2>3. DOMAIN built = DOMAIN builders /\ built = [b \in DOMAIN built |-> built[b]]
    OBVIOUS
  <2> HIDE DEF X, built
  <2> QED BY <2>1, <2>2, <2>3
<1> HIDE DEF built, X
<1>3. FlattenSeq(built) \in Seq(X)
  BY <1>2, FlattenElements
<1> QED BY <1>1, <1>3 DEF IsList, ToSet

\* A source whose record is valid and can be built.
Usable(config, source) ==
  LET record == Normalize(source, config.schema) IN
  RecordValid(record, config.builders) /\ Build(config.builders, record) # Null

\* A record is counted once, and its candidates told of if there are any.
LEMMA TakeIsSound ==
  ASSUME NEW config, BuildersType(config.builders), NEW r, Sound(r),
         r.read \in Nat, r.valid \in Nat, r.invalid \in Nat, NEW source
  PROVE  LET s == TakeRecord(config, r, source)
             record == Normalize(source, config.schema)
         IN /\ Sound(s)
            /\ s.read = r.read + 1
            /\ Usable(config, source) =>
                 /\ s.valid = r.valid + 1 /\ s.invalid = r.invalid
                 /\ Told(s) = Told(r) \cup ToSet(Build(config.builders, record))
            /\ ~Usable(config, source) =>
                 /\ s.valid = r.valid /\ s.invalid = r.invalid + 1
                 /\ Told(s) = Told(r)
<1> DEFINE record == Normalize(source, config.schema)
           usable == Usable(config, source)
           built == IF RecordValid(record, config.builders)
                      THEN Build(config.builders, record) ELSE Null
           seen == [r EXCEPT !.read = @ + 1,
                      !.warned = @ + Len(record.issues) - Cardinality(RecordErrors(record))]
           counted == [seen EXCEPT !.valid = @ + 1]
           refused == [seen EXCEPT !.invalid = @ + 1]
           s == TakeRecord(config, r, source)
<1>1. /\ DOMAIN r = {"read", "valid", "invalid", "built", "suppressed", "rejected", "planned",
                     "warned", "incomplete"}
      /\ DOMAIN EmptyReport = DOMAIN r
  BY DEF Sound, EmptyReport
<1>2. s = IF built = Null THEN refused ELSE AdmitAll(config, counted, built)
  BY DEF TakeRecord, TakeNormalized
<1>3. /\ usable <=> built # Null
      /\ usable => built = Build(config.builders, record)
  BY DEF Usable
<1>4. /\ DOMAIN counted = DOMAIN r /\ counted.planned = r.planned /\ counted.built = r.built
      /\ counted.suppressed = r.suppressed /\ counted.rejected = r.rejected
      /\ counted.read = r.read + 1 /\ counted.valid = r.valid + 1
      /\ counted.invalid = r.invalid
  BY <1>1
<1>5. /\ DOMAIN refused = DOMAIN r /\ refused.planned = r.planned /\ refused.built = r.built
      /\ refused.suppressed = r.suppressed /\ refused.rejected = r.rejected
      /\ refused.read = r.read + 1 /\ refused.valid = r.valid
      /\ refused.invalid = r.invalid + 1
  BY <1>1
<1> HIDE DEF built, seen, counted, refused, s
<1>6. CASE usable
  <2>1. Sound(counted) /\ Told(counted) = Told(r)
    BY <1>4 DEF Sound, Told
  <2>2. IsList(built)
    BY <1>3, <1>6, BuildIsList
  <2>3. /\ Sound(s) /\ SameCounts(counted, s)
        /\ Told(s) = Told(counted) \cup ToSet(built)
    BY <1>2, <1>3, <1>6, <2>1, <2>2, AdmitAllIsSound
  <2> HIDE DEF record
  <2> QED BY <1>3, <1>4, <1>6, <2>1, <2>3 DEF SameCounts, s, record
<1>7. CASE ~usable
  <2>1. s = refused
    BY <1>2, <1>3, <1>7
  <2>2. Sound(s) /\ Told(s) = Told(r)
    BY <1>5, <2>1 DEF Sound, Told
  <2> QED BY <1>5, <1>7, <2>1, <2>2 DEF s
<1> QED BY <1>6, <1>7

\* Collect() takes the sources one after the other.
LEMMA CollectFollows ==
  ASSUME NEW config, NEW sources, NEW fails, IsList(sources)
  PROVE  \E upTo : /\ upTo[0] = EmptyReport
                   /\ Collect(config, sources, fails)
                        = [upTo[Len(sources)] EXCEPT !.incomplete = fails]
                   /\ \A n \in 1..Len(sources) :
                        upTo[n] = TakeRecord(config, upTo[n - 1], sources[n])
<1> DEFINE N == Len(sources)
           Good(g, m) == g = [n \in 0..m |-> IF n = 0 THEN EmptyReport
                                             ELSE TakeRecord(config, g[n - 1], sources[n])]
           T == { m \in 0..N : \E g : Good(g, m) }
<1>1. N \in Nat
  BY DEF IsList
<1>2. 0 \in T
  <2> DEFINE g == [n \in 0..0 |-> EmptyReport]
  <2>1. /\ \A n \in 0..0 : g[n] = IF n = 0 THEN EmptyReport
                                  ELSE TakeRecord(config, g[n - 1], sources[n])
        /\ g = [n \in 0..0 |-> g[n]]
    OBVIOUS
  <2> HIDE DEF g
  <2>2. Good(g, 0)
    BY <2>1, Zenon
  <2> QED BY <1>1, <2>2
<1>3. ASSUME NEW m \in 1..N, m - 1 \in T PROVE m \in T
  <2>1. PICK g : Good(g, m - 1)
    BY <1>3
  <2> DEFINE h == [n \in 0..m |-> IF n = m THEN TakeRecord(config, g[m - 1], sources[m]) ELSE g[n]]
  <2>2. /\ \A n \in 0..(m - 1) : h[n] = g[n]
        /\ h[m] = TakeRecord(config, g[m - 1], sources[m])
        /\ DOMAIN h = 0..m /\ h = [n \in 0..m |-> h[n]]
    BY <1>1
  <2>3. \A n \in 0..(m - 1) :
          g[n] = IF n = 0 THEN EmptyReport ELSE TakeRecord(config, g[n - 1], sources[n])
    BY <2>1
  <2> HIDE DEF h
  <2>4. \A n \in 0..m :
          h[n] = IF n = 0 THEN EmptyReport ELSE TakeRecord(config, h[n - 1], sources[n])
    <3> SUFFICES ASSUME NEW n \in 0..m
                 PROVE  h[n] = IF n = 0 THEN EmptyReport
                               ELSE TakeRecord(config, h[n - 1], sources[n])
      OBVIOUS
    <3>1. CASE n = 0
      BY <1>1, <2>2, <2>3, <3>1
    <3>2. CASE n \in 1..(m - 1)
      <4>1. n \in 0..(m - 1) /\ n - 1 \in 0..(m - 1) /\ n # 0
        BY <1>1, <3>2
      <4> QED BY <2>2, <2>3, <4>1
    <3>3. CASE n = m
      <4>1. m - 1 \in 0..(m - 1) /\ n # 0
        BY <1>1, <3>3
      <4> QED BY <2>2, <3>3, <4>1
    <3> QED BY <1>1, <3>1, <3>2, <3>3
  <2>5. Good(h, m)
    <3> DEFINE at(n) == IF n = 0 THEN EmptyReport ELSE TakeRecord(config, h[n - 1], sources[n])
    <3>1. \A n \in 0..m : h[n] = at(n)
      BY <2>4
    <3> HIDE DEF at
    <3>2. h = [n \in 0..m |-> at(n)]
      BY <2>2, <3>1
    <3> QED BY <3>2 DEF at
  <2>6. m \in 0..N
    BY <1>1
  <2> HIDE DEF Good
  <2> QED BY <2>5, <2>6
<1>4. \E g : Good(g, N)
  <2>1. N \in 0..N
    BY <1>1
  <2>2. N \in T
    <3> HIDE DEF T
    <3> QED BY <1>1, <1>2, <1>3, <2>1, InductionUpTo
  <2> QED BY <2>2
<1> DEFINE upTo == CHOOSE g : Good(g, N)
<1>5. Good(upTo, N)
  <2> HIDE DEF Good
  <2> QED BY <1>4
<1>6. Collect(config, sources, fails) = [upTo[N] EXCEPT !.incomplete = fails]
  BY DEF Collect
<1> HIDE DEF upTo
<1>7. /\ upTo[0] = EmptyReport
      /\ \A n \in 1..N : upTo[n] = TakeRecord(config, upTo[n - 1], sources[n])
  BY <1>1, <1>5
<1> QED BY <1>6, <1>7

\* The sources that are, and the candidates made of them.
UsableIn(config, sources) == { i \in DOMAIN sources : Usable(config, sources[i]) }

MadeOf(config, sources) ==
  UNION { ToSet(Build(config.builders, Normalize(sources[i], config.schema))) :
          i \in UsableIn(config, sources) }

\* The report of a run: what it counts and tells of is what the sources give.
LEMMA CollectIsSound ==
  ASSUME NEW config, NEW sources, NEW fails, BuildersType(config.builders), IsList(sources)
  PROVE  LET s == Collect(config, sources, fails) IN
         /\ Sound(s)
         /\ s.incomplete = fails
         /\ s.valid = Cardinality(UsableIn(config, sources)) /\ s.valid + s.invalid = s.read
         /\ Told(s) = MadeOf(config, sources)
<1> DEFINE N == Len(sources)
           s == Collect(config, sources, fails)
           made(i) == ToSet(Build(config.builders, Normalize(sources[i], config.schema)))
           Taken(n) == { i \in 1..n : Usable(config, sources[i]) }
           Made(n) == UNION { made(i) : i \in Taken(n) }
<1>1. PICK upTo : /\ upTo[0] = EmptyReport
                  /\ Collect(config, sources, fails)
                       = [upTo[Len(sources)] EXCEPT !.incomplete = fails]
                  /\ \A n \in 1..Len(sources) :
                       upTo[n] = TakeRecord(config, upTo[n - 1], sources[n])
  BY CollectFollows
<1>2. N \in Nat /\ DOMAIN sources = 1..N
  BY DEF IsList
<1> DEFINE Good(n) == /\ Sound(upTo[n])
                      /\ upTo[n].valid \in Nat /\ upTo[n].invalid \in Nat
                      /\ upTo[n].read = upTo[n].valid + upTo[n].invalid
                      /\ IsFiniteSet(Taken(n)) /\ upTo[n].valid = Cardinality(Taken(n))
                      /\ Told(upTo[n]) = Made(n)
           T == { n \in 0..N : Good(n) }
<1>3. 0 \in T
  <2>1. ToSet(<<>>) = {} /\ Keys(<<>>) = {} /\ IsList(<<>>) /\ Len(<<>>) = 0
    BY DEF ToSet, Keys, IsList
  <2>2. IsFiniteSet({}) /\ Cardinality({}) = 0
    BY FS_EmptySet
  <2>3. Sound(EmptyReport) /\ Told(EmptyReport) = {}
    <3>1. /\ EmptyReport.planned = <<>> /\ EmptyReport.suppressed = <<>>
          /\ EmptyReport.rejected = <<>> /\ EmptyReport.built = 0
      BY DEF EmptyReport
    <3> QED BY <2>1, <2>2, <3>1 DEF Sound, Told
  <2>4. Taken(0) = {}
    OBVIOUS
  <2>5. Good(0)
    BY <1>1, <2>2, <2>3, <2>4 DEF EmptyReport
  <2> QED BY <1>2, <2>5
<1>4. ASSUME NEW n \in 1..N, n - 1 \in T PROVE n \in T
  <2> DEFINE r == upTo[n - 1]
             t == upTo[n]
  <2>1. /\ Sound(r) /\ r.valid \in Nat /\ r.invalid \in Nat
        /\ r.read = r.valid + r.invalid
        /\ IsFiniteSet(Taken(n - 1)) /\ r.valid = Cardinality(Taken(n - 1))
        /\ Told(r) = Made(n - 1)
    BY <1>4
  <2>2. /\ Sound(t)
        /\ t.read = r.read + 1
        /\ Usable(config, sources[n]) =>
             /\ t.valid = r.valid + 1 /\ t.invalid = r.invalid
             /\ Told(t) = Told(r) \cup made(n)
        /\ ~Usable(config, sources[n]) =>
             /\ t.valid = r.valid /\ t.invalid = r.invalid + 1
             /\ Told(t) = Told(r)
    <3>1. t = TakeRecord(config, r, sources[n])
      BY <1>1
    <3>2. Sound(r) /\ r.read \in Nat /\ r.valid \in Nat /\ r.invalid \in Nat
      BY <2>1
    <3> HIDE DEF r, t
    <3>3. LET u == TakeRecord(config, r, sources[n]) IN
          /\ Sound(u)
          /\ u.read = r.read + 1
          /\ Usable(config, sources[n]) =>
               /\ u.valid = r.valid + 1 /\ u.invalid = r.invalid
               /\ Told(u) = Told(r) \cup made(n)
          /\ ~Usable(config, sources[n]) =>
               /\ u.valid = r.valid /\ u.invalid = r.invalid + 1
               /\ Told(u) = Told(r)
      BY <3>2, TakeIsSound
    <3> QED BY <3>1, <3>3
  <2>3. 1..n = 1..(n - 1) \cup {n} /\ n \notin 1..(n - 1)
    BY <1>2
  <2>4. CASE Usable(config, sources[n])
    <3>1. Taken(n) = Taken(n - 1) \cup {n} /\ n \notin Taken(n - 1)
      BY <2>3, <2>4
    <3>2. Made(n) = Made(n - 1) \cup made(n)
      <4> HIDE DEF made, Taken
      <4> QED BY <3>1
    <3> HIDE DEF Taken, Made, made
    <3>3. IsFiniteSet(Taken(n)) /\ Cardinality(Taken(n)) = Cardinality(Taken(n - 1)) + 1
      <4> DEFINE S == Taken(n - 1)
      <4>1. IsFiniteSet(S) /\ Taken(n) = S \cup {n} /\ n \notin S
        BY <2>1, <3>1
      <4> HIDE DEF S
      <4>2. IsFiniteSet(S \cup {n}) /\ Cardinality(S \cup {n}) = Cardinality(S) + 1
        BY <4>1, FS_AddElement
      <4> QED BY <4>1, <4>2 DEF S
    <3>4. /\ Sound(t) /\ t.valid \in Nat /\ t.invalid \in Nat
          /\ t.read = t.valid + t.invalid
          /\ IsFiniteSet(Taken(n)) /\ t.valid = Cardinality(Taken(n))
          /\ Told(t) = Made(n)
      <4> HIDE DEF r, t
      <4> QED BY <2>1, <2>2, <2>4, <3>2, <3>3
    <3> QED BY <1>2, <3>4
  <2>5. CASE ~Usable(config, sources[n])
    <3>1. Taken(n) = Taken(n - 1)
      BY <2>3, <2>5
    <3>2. Made(n) = Made(n - 1)
      <4> HIDE DEF made, Taken
      <4> QED BY <3>1
    <3> HIDE DEF Taken, Made, made
    <3>3. /\ Sound(t) /\ t.valid \in Nat /\ t.invalid \in Nat
          /\ t.read = t.valid + t.invalid
          /\ IsFiniteSet(Taken(n)) /\ t.valid = Cardinality(Taken(n))
          /\ Told(t) = Made(n)
      <4> HIDE DEF r, t
      <4> QED BY <2>1, <2>2, <2>5, <3>1, <3>2
    <3> QED BY <1>2, <3>3
  <2> QED BY <2>4, <2>5
<1>5. Good(N)
  <2>1. N \in 0..N
    BY <1>2
  <2>2. N \in T
    <3> HIDE DEF T
    <3> QED BY <1>2, <1>3, <1>4, <2>1, InductionUpTo
  <2> QED BY <2>2
<1> DEFINE r == upTo[N]
<1>6. /\ DOMAIN r = {"read", "valid", "invalid", "built", "suppressed", "rejected", "planned",
                     "warned", "incomplete"}
      /\ DOMAIN EmptyReport = DOMAIN r
  BY <1>5 DEF Sound, EmptyReport
<1>7. /\ DOMAIN s = DOMAIN r /\ s.planned = r.planned /\ s.built = r.built
      /\ s.suppressed = r.suppressed /\ s.rejected = r.rejected
      /\ s.read = r.read /\ s.valid = r.valid /\ s.invalid = r.invalid
      /\ s.incomplete = fails
  BY <1>1, <1>6
<1> HIDE DEF s, r
<1>8. Sound(s) /\ Told(s) = Told(r)
  <2>1. Sound(r)
    BY <1>5 DEF r
  <2> QED BY <1>7, <2>1 DEF Sound, Told
<1>9. UsableIn(config, sources) = Taken(N) /\ MadeOf(config, sources) = Made(N)
  BY <1>2 DEF UsableIn, MadeOf
<1>10. /\ s.valid = Cardinality(Taken(N)) /\ s.valid + s.invalid = s.read
       /\ Told(s) = Made(N)
  <2> HIDE DEF Taken, Made
  <2> QED BY <1>5, <1>7, <1>8 DEF r
<1> HIDE DEF Taken, Made, Good
<1> QED BY <1>7, <1>8, <1>9, <1>10 DEF s

\* Every source and every candidate is accounted for: what was built is what
\* was planned, suppressed or rejected, keys are planned once, what the
\* ontology does not declare is never silently planned, and a successful
\* report has planned the key of everything: for any schemas, builders, rows
\* and vocabularies.
THEOREM RecordsStayAccounted == Spec => []RecordsAreAccounted
<1>1. Init => RecordsAreAccounted
  BY DEF Init, Nothing, RecordsAreAccounted
<1>2. ASSUME Next PROVE RecordsAreAccounted'
  <2>1. CASE call'.op # "ingest"
    BY <2>1 DEF RecordsAreAccounted
  <2>2. CASE call'.op = "ingest"
    <3>1. PICK config \in Configs, n \in 0..MaxRows, fails \in BOOLEAN :
            \E rows \in [ 1..n -> Rows ] :
              LET sources == [ i \in 1..n |-> JsonRecord(i, rows[i]) ] IN
              call' = [ op |-> "ingest",
                        given |-> [config |-> config, sources |-> sources, fails |-> fails],
                        answer |-> Collect(config, sources, fails) ]
      BY <1>2, <2>2, WhoAnswers DEF Ingest, Call
    <3>2. PICK rows \in [ 1..n -> Rows ] :
            LET sources == [ i \in 1..n |-> JsonRecord(i, rows[i]) ] IN
            call' = [ op |-> "ingest",
                      given |-> [config |-> config, sources |-> sources, fails |-> fails],
                      answer |-> Collect(config, sources, fails) ]
      BY <3>1
    <3> DEFINE sources == [ i \in 1..n |-> JsonRecord(i, rows[i]) ]
               report == Collect(config, sources, fails)
    <3>3. /\ call'.given.config = config /\ call'.given.sources = sources
          /\ call'.given.fails = fails /\ call'.answer = report
      BY <3>2
    <3>4. IsList(sources)
      <4>1. n \in Nat
        BY IngestAssumption
      <4> QED BY <4>1 DEF IsList, ToSet
    <3>5. BuildersType(config.builders)
      BY IngestAssumption DEF BuildersType, IsList
    <3> HIDE DEF sources
    <3>6. /\ Sound(report)
          /\ report.incomplete = fails
          /\ report.valid = Cardinality(UsableIn(config, sources))
          /\ report.valid + report.invalid = report.read
          /\ Told(report) = MadeOf(config, sources)
      BY <3>4, <3>5, CollectIsSound
    <3> HIDE DEF report
    <3>7. /\ report.built = Len(report.planned) + Len(report.suppressed) + Len(report.rejected)
          /\ Cardinality(Keys(report.planned)) = Len(report.planned)
          /\ Keys(report.suppressed) \subseteq Keys(report.planned)
      BY <3>6 DEF Sound
    <3>8. ASSUME NEW c \in Told(report), ~Declares(config.ontology, c)
          PROVE  \/ c \in ToSet(report.rejected) \cup ToSet(report.suppressed)
                 \/ c.term \in Coverage(config, report).unknown
      <4>1. CASE c \in ToSet(report.planned)
        <5>1. PICK j \in DOMAIN report.planned : report.planned[j] = c
          BY <4>1 DEF ToSet
        <5> QED BY <3>8, <5>1 DEF Coverage
      <4> QED BY <3>8, <4>1 DEF Told
    <3>9. ASSUME Succeeded(report), NEW c \in Told(report)
          PROVE  c.key \in Keys(report.planned) /\ ~fails
      <4>1. report.rejected = <<>> /\ ~report.incomplete
        BY <3>9 DEF Succeeded
      <4>2. ToSet(report.rejected) = {}
        BY <4>1 DEF ToSet
      <4>3. \A list : c \in ToSet(list) => c.key \in Keys(list)
        BY DEF ToSet, Keys
      <4> QED BY <3>6, <3>7, <4>1, <4>2, <4>3 DEF Told
    <3>10. /\ report.valid = Cardinality({ i \in DOMAIN sources :
               /\ RecordValid(Normalize(sources[i], config.schema), config.builders)
               /\ Build(config.builders, Normalize(sources[i], config.schema)) # Null })
          /\ Told(report) = UNION { ToSet(Build(config.builders,
                                                Normalize(sources[i], config.schema))) :
               i \in { k \in DOMAIN sources :
                 /\ RecordValid(Normalize(sources[k], config.schema), config.builders)
                 /\ Build(config.builders, Normalize(sources[k], config.schema)) # Null } }
      BY <3>6 DEF UsableIn, MadeOf, Usable
    <3>11. RecordsAreAccounted'
      BY <3>3, <3>6, <3>7, <3>8, <3>9, <3>10 DEF RecordsAreAccounted, Told
    <3> QED BY <3>11
  <2> QED BY <2>1, <2>2
<1>3. RecordsAreAccounted /\ UNCHANGED call => RecordsAreAccounted'
  BY DEF RecordsAreAccounted
<1> QED BY <1>1, <1>2, <1>3, PTL DEF Spec

-----------------------------------------------------------------------------
(* Adjudication *)

\* t is no better than s on any axis.
NoBetter(s, t) ==
  /\ t.extraction <= s.extraction /\ t.reliability <= s.reliability /\ t.risk >= s.risk
  /\ t.identity = Unstated <=> s.identity = Unstated
  /\ s.identity # Unstated => t.identity <= s.identity

\* Severities are comparable, and of two routes the severer counts.
LEMMA SeverityOrder ==
  ASSUME NEW a \in AdjudicationRoute, NEW b \in AdjudicationRoute
  PROVE  /\ RouteSeverity(a) \in 0..2
         /\ MoreConservative(a, b) \in AdjudicationRoute
         /\ RouteSeverity(MoreConservative(a, b)) >= RouteSeverity(a)
         /\ RouteSeverity(MoreConservative(a, b)) >= RouteSeverity(b)
         /\ MoreConservative(a, b) \in {a, b}
  BY DEF AdjudicationRoute, RouteSeverity, MoreConservative

\* A step on one axis is no better.
LEMMA StepsAreNoBetter ==
  ASSUME NEW s \in CandidateScores, NEW t \in StepsWorse(s)
  PROVE  t \in CandidateScores /\ NoBetter(s, t)
<1>1. /\ s.extraction \in Int /\ s.reliability \in Int /\ s.risk \in Int
      /\ s.identity \in Int \cup {Unstated}
  BY TopAssumption DEF CandidateScores, Score
<1>2. t \in CandidateScores
  BY DEF StepsWorse
<1>3. \/ t = [s EXCEPT !.extraction = @ - 1]
      \/ t = [s EXCEPT !.reliability = @ - 1]
      \/ t = [s EXCEPT !.risk = @ + 1]
      \/ t = [s EXCEPT !.identity = IF @ = Unstated THEN @ ELSE @ - 1]
  BY DEF StepsWorse
<1>4. /\ t.extraction \in {s.extraction, s.extraction - 1}
      /\ t.reliability \in {s.reliability, s.reliability - 1}
      /\ t.risk \in {s.risk, s.risk + 1}
      /\ t.identity = s.identity \/ t.identity = IF s.identity = Unstated THEN Unstated
                                                                        ELSE s.identity - 1
  BY <1>3 DEF CandidateScores
<1>5. /\ t.extraction <= s.extraction /\ t.reliability <= s.reliability
      /\ t.risk >= s.risk
  BY <1>1, <1>4
<1>6. CASE s.identity = Unstated
  BY <1>2, <1>4, <1>5, <1>6 DEF NoBetter
<1>7. CASE s.identity # Unstated
  <2>1. s.identity \in Int /\ s.identity - 1 \in Int
    BY <1>1, <1>7
  <2>2. t.identity \in Int /\ t.identity <= s.identity
    BY <1>4, <1>7, <2>1
  <2>3. t.identity # Unstated
    BY <2>2, UnstatedAssumption
  <2> QED BY <1>2, <1>5, <1>7, <2>2, <2>3 DEF NoBetter
<1> QED BY <1>6, <1>7

\* Worse scores: the floor that risk sets does not fall.
LEMMA RiskFloorRises ==
  ASSUME NEW p \in Policy, NEW s \in CandidateScores, NEW t \in CandidateScores,
         NoBetter(s, t)
  PROVE  /\ RiskFloor(p, s) \in AdjudicationRoute /\ RiskFloor(p, t) \in AdjudicationRoute
         /\ RouteSeverity(RiskFloor(p, t)) >= RouteSeverity(RiskFloor(p, s))
         /\ RiskFloor(p, s) = "AUTO" => s.risk <= p.autoRisk
<1>1. /\ s.risk \in Int /\ t.risk \in Int /\ p.autoRisk \in Int /\ p.humanRisk \in Int
      /\ p.humanRisk >= p.autoRisk /\ t.risk >= s.risk
  BY TopAssumption DEF CandidateScores, Policy, Score, NoBetter
<1>2. RiskFloor(p, s) = IF s.risk > p.humanRisk THEN "HUMAN"
                        ELSE IF s.risk > p.autoRisk THEN "LLM_ASSESS" ELSE "AUTO"
  BY <1>1 DEF RiskFloor
<1>3. RiskFloor(p, t) = IF t.risk > p.humanRisk THEN "HUMAN"
                        ELSE IF t.risk > p.autoRisk THEN "LLM_ASSESS" ELSE "AUTO"
  BY <1>1 DEF RiskFloor
<1> QED BY <1>1, <1>2, <1>3 DEF AdjudicationRoute, RouteSeverity

\* Nor does the identity gate open to worse scores, and it is shut to an
\* unresolved identity unless the policy does not ask.
LEMMA GateStaysShut ==
  ASSUME NEW p \in Policy, NEW s \in CandidateScores, NEW t \in CandidateScores,
         NoBetter(s, t), NEW d \in IdentityDisposition
  PROVE  /\ IdentityGateOk(p, t, d) => IdentityGateOk(p, s, d)
         /\ IdentityGateOk(p, s, "UNRESOLVED") => IdentityGateOk(p, s, d)
<1>1. /\ p.autoIdentity \in Int
      /\ s.identity # Unstated => s.identity \in Int /\ t.identity \in Int
  BY TopAssumption DEF CandidateScores, Policy, Score, NoBetter
<1>2. IdentityConfidenceMeetsThreshold(p, t) => IdentityConfidenceMeetsThreshold(p, s)
  BY <1>1 DEF NoBetter, IdentityConfidenceMeetsThreshold
<1>3. t.identity = Unstated <=> s.identity = Unstated
  BY DEF NoBetter
<1> QED BY <1>2, <1>3 DEF IdentityGateOk

\* Nor is the route that the extraction earns more permissive.
LEMMA ExtractionRouteRises ==
  ASSUME NEW p \in Policy, NEW s \in CandidateScores, NEW t \in CandidateScores,
         NoBetter(s, t), NEW d \in IdentityDisposition, NEW e \in IdentityDisposition,
         e \in {d, "UNRESOLVED"}
  PROVE  /\ ExtractionRoute(p, s, d) \in AdjudicationRoute
         /\ ExtractionRoute(p, t, e) \in AdjudicationRoute
         /\ RouteSeverity(ExtractionRoute(p, t, e)) >= RouteSeverity(ExtractionRoute(p, s, d))
<1> DEFINE auto(u, f) == /\ u.extraction >= p.autoExtraction
                         /\ u.reliability >= p.autoReliability
                         /\ IdentityGateOk(p, u, f)
           assess(u) == u.extraction >= p.assessExtraction
<1>1. /\ s.extraction \in Int /\ t.extraction \in Int /\ s.reliability \in Int
      /\ t.reliability \in Int /\ p.autoExtraction \in Int /\ p.assessExtraction \in Int
      /\ p.autoReliability \in Int
      /\ t.extraction <= s.extraction /\ t.reliability <= s.reliability
      /\ p.autoExtraction >= p.assessExtraction
  BY TopAssumption DEF CandidateScores, Policy, Score, NoBetter
<1>2. IdentityGateOk(p, t, e) => IdentityGateOk(p, s, d)
  <2>1. IdentityGateOk(p, t, e) => IdentityGateOk(p, s, e)
    BY GateStaysShut
  <2> QED BY <2>1, GateStaysShut
<1>3. (auto(t, e) => auto(s, d)) /\ (assess(t) => assess(s))
  BY <1>1, <1>2
<1>4. /\ ExtractionRoute(p, s, d) = IF auto(s, d) THEN "AUTO"
                                    ELSE IF assess(s) THEN "LLM_ASSESS" ELSE "HUMAN"
      /\ ExtractionRoute(p, t, e) = IF auto(t, e) THEN "AUTO"
                                    ELSE IF assess(t) THEN "LLM_ASSESS" ELSE "HUMAN"
  BY Zenon DEF ExtractionRoute
<1>5. auto(t, e) => assess(t)
  BY <1>1
<1> HIDE DEF auto, assess
<1> QED BY <1>3, <1>4, <1>5 DEF AdjudicationRoute, RouteSeverity

\* The routes of two questions of which one is no better.
LEMMA RouteRises ==
  ASSUME NEW p \in Policy, NEW s \in CandidateScores, NEW t \in CandidateScores,
         NoBetter(s, t), NEW d \in IdentityDisposition, NEW e \in IdentityDisposition,
         e \in {d, "UNRESOLVED"}
  PROVE  /\ RouteSeverity(Route(p, t, e)) >= RouteSeverity(Route(p, s, d))
         /\ Route(p, s, d) = "AUTO" => s.risk <= p.autoRisk
<1> DEFINE f == RiskFloor(p, s)
           g == RiskFloor(p, t)
           a == ExtractionRoute(p, s, d)
           b == ExtractionRoute(p, t, e)
<1>1. /\ f \in AdjudicationRoute /\ g \in AdjudicationRoute
      /\ RouteSeverity(g) >= RouteSeverity(f)
      /\ f = "AUTO" => s.risk <= p.autoRisk
  BY RiskFloorRises
<1>2. /\ a \in AdjudicationRoute /\ b \in AdjudicationRoute
      /\ RouteSeverity(b) >= RouteSeverity(a)
  BY ExtractionRouteRises
<1>3. Route(p, s, d) = MoreConservative(f, a) /\ Route(p, t, e) = MoreConservative(g, b)
  BY DEF Route, Combined
<1> HIDE DEF f, g, a, b
<1>4. /\ MoreConservative(f, a) \in {f, a}
      /\ RouteSeverity(MoreConservative(g, b)) >= RouteSeverity(g)
      /\ RouteSeverity(MoreConservative(g, b)) >= RouteSeverity(b)
      /\ MoreConservative(g, b) \in {g, b}
      /\ RouteSeverity(f) \in 0..2 /\ RouteSeverity(g) \in 0..2
      /\ RouteSeverity(a) \in 0..2 /\ RouteSeverity(b) \in 0..2
  BY <1>1, <1>2, SeverityOrder
<1>5. RouteSeverity(MoreConservative(g, b)) >= RouteSeverity(MoreConservative(f, a))
  BY <1>1, <1>2, <1>4
<1>6. MoreConservative(f, a) = "AUTO" => f = "AUTO"
  BY <1>1, <1>2 DEF MoreConservative, AdjudicationRoute, RouteSeverity
<1> QED BY <1>1, <1>3, <1>5, <1>6

\* Worse scores never reach a more permissive route, an unresolved identity
\* never a more permissive one than a resolved or new one, and what is riskier
\* than the policy allows is not applied unseen: for any scale of scores and
\* any policies that pass the validator.
THEOREM RoutesAreMonotone == Spec => []RoutingIsMonotone
<1>1. Init => RoutingIsMonotone
  BY DEF Init, Nothing, RoutingIsMonotone
<1>2. ASSUME Next PROVE RoutingIsMonotone'
  <2>1. CASE call'.op # "adjudicate"
    BY <2>1 DEF RoutingIsMonotone
  <2>2. CASE call'.op = "adjudicate"
    <3>1. PICK p \in Policies, s \in CandidateScores, d \in IdentityDisposition :
            call' = [ op |-> "adjudicate",
                      given |-> [policy |-> p, scores |-> s, disposition |-> d],
                      answer |-> Route(p, s, d) ]
      BY <1>2, <2>2, WhoAnswers DEF Adjudicate, Call
    <3>2. p \in Policy /\ "UNRESOLVED" \in IdentityDisposition
      BY PoliciesAssumption DEF IdentityDisposition
    <3>3. NoBetter(s, s)
      BY TopAssumption DEF NoBetter, CandidateScores, Score
    <3>4. \A t \in StepsWorse(s) : RouteSeverity(Route(p, t, d)) >= RouteSeverity(Route(p, s, d))
      BY <3>2, StepsAreNoBetter, RouteRises
    <3>5. /\ RouteSeverity(Route(p, s, "UNRESOLVED")) >= RouteSeverity(Route(p, s, d))
          /\ Route(p, s, d) = "AUTO" => s.risk <= p.autoRisk
      BY <3>2, <3>3, RouteRises
    <3>6. /\ call'.given.policy = p /\ call'.given.scores = s
          /\ call'.given.disposition = d /\ call'.answer = Route(p, s, d)
      BY <3>1
    <3> QED BY <3>4, <3>5, <3>6 DEF RoutingIsMonotone
  <2> QED BY <2>1, <2>2
<1>3. RoutingIsMonotone /\ UNCHANGED call => RoutingIsMonotone'
  BY DEF RoutingIsMonotone
<1> QED BY <1>1, <1>2, <1>3, PTL DEF Spec

-----------------------------------------------------------------------------
(* Scores *)

\* A list with an element at its end.
LEMMA ListAppend ==
  ASSUME NEW s, IsList(s), NEW x
  PROVE  /\ Len(s) \in Nat /\ DOMAIN s = 1..Len(s)
         /\ IsList(Append(s, x))
         /\ DOMAIN Append(s, x) = DOMAIN s \cup {Len(s) + 1}
         /\ Len(s) + 1 \notin DOMAIN s
         /\ \A i \in DOMAIN s : Append(s, x)[i] = s[i]
         /\ Append(s, x)[Len(s) + 1] = x
<1> DEFINE S == ToSet(s) \cup {x}
<1>1. s \in Seq(S)
  BY DEF IsList, ToSet
<1>2. x \in S
  OBVIOUS
<1> HIDE DEF S
<1>3. Len(s) \in Nat /\ DOMAIN s = 1..Len(s)
  BY <1>1
<1>4. Append(s, x) \in Seq(S) /\ Len(Append(s, x)) = Len(s) + 1
  BY <1>1, <1>2
<1>5. \A i \in 1..Len(s) : Append(s, x)[i] = s[i]
  BY <1>1, <1>2
<1>6. Append(s, x)[Len(s) + 1] = x
  BY <1>1, <1>2
<1>7. DOMAIN Append(s, x) = 1..(Len(s) + 1)
  BY <1>4
<1>8. 1..(Len(s) + 1) = 1..Len(s) \cup {Len(s) + 1} /\ Len(s) + 1 \notin 1..Len(s)
  BY <1>3
<1>9. IsList(Append(s, x))
  <2>1. \A i \in 1..Len(Append(s, x)) : Append(s, x)[i] \in ToSet(Append(s, x))
    BY <1>4 DEF ToSet
  <2> QED BY <1>4, <2>1 DEF IsList
<1> QED
  BY <1>3, <1>5, <1>6, <1>7, <1>8, <1>9

\* The positions of one category among finitely many.
LEMMA KindsAreFinite ==
  ASSUME NEW candidates, IsList(candidates), NEW kind
  PROVE  IsFiniteSet(OfKind(candidates, kind))
<1>1. DOMAIN candidates = 1..Len(candidates) /\ Len(candidates) \in Nat
  BY DEF IsList
<1>2. IsFiniteSet(1..Len(candidates))
  BY <1>1, FS_Interval
<1> QED
  BY <1>1, <1>2, FS_Subset DEF OfKind

\* The true positives of a category are some of what was produced of it.
LEMMA TruePositivesAreProduced ==
  ASSUME NEW gold, NEW output, IsList(output.candidates), NEW kind
  PROVE  LET match == Match(gold, output, kind)
             produced == Cardinality(OfKind(output.candidates, kind))
         IN /\ produced \in Nat
            /\ match.tp \in 0..produced
            /\ match.fp = produced - match.tp
            /\ match.fn = Cardinality(OfKind(gold.items, kind)) - match.tp
<1> DEFINE produced == OfKind(output.candidates, kind)
           matched == Matched(gold.items, output.candidates)
           hit == { j \in produced : matched[j] # {} }
<1>1. IsFiniteSet(produced)
  BY KindsAreFinite
<1>2. IsFiniteSet(hit) /\ Cardinality(hit) <= Cardinality(produced)
  BY <1>1, FS_Subset
<1>3. Cardinality(hit) \in Nat /\ Cardinality(produced) \in Nat
  BY <1>1, <1>2, FS_CardinalityType
<1>4. Match(gold, output, kind).tp = Cardinality(hit)
  BY DEF Match, TruePositives
<1> HIDE DEF hit
<1> QED
  BY <1>2, <1>3, <1>4 DEF Match

\* A candidate repeated at the end of an output matches nothing, and takes
\* nothing from the others.
LEMMA PaddedMatch ==
  ASSUME NEW gold, NEW output, NEW padded, IsList(output.candidates),
         NEW j \in DOMAIN output.candidates,
         padded.candidates = Append(output.candidates, output.candidates[j]),
         NEW kind
  PROVE  LET was == Match(gold, output, kind)
             is == Match(gold, padded, kind)
         IN /\ is.tp = was.tp /\ is.fn = was.fn
            /\ is.fp = was.fp + (IF kind = output.candidates[j].fact.kind THEN 1 ELSE 0)
<1> DEFINE old == output.candidates
           new == padded.candidates
           n == Len(old)
           again == kind = old[j].fact.kind
<1>1. /\ n \in Nat /\ DOMAIN old = 1..n
      /\ IsList(new) /\ DOMAIN new = DOMAIN old \cup {n + 1} /\ n + 1 \notin DOMAIN old
      /\ \A i \in DOMAIN old : new[i] = old[i]
      /\ new[n + 1] = old[j]
  BY ListAppend
<1>2. OfKind(new, kind) = OfKind(old, kind) \cup (IF again THEN {n + 1} ELSE {})
  <2> HIDE DEF old, new, n
  <2>1. \A i \in DOMAIN old : i \in OfKind(new, kind) <=> i \in OfKind(old, kind)
    BY <1>1 DEF OfKind
  <2>2. n + 1 \in OfKind(new, kind) <=> again
    BY <1>1 DEF OfKind
  <2>3. OfKind(new, kind) \subseteq DOMAIN new /\ OfKind(old, kind) \subseteq DOMAIN old
    BY DEF OfKind
  <2> QED BY <1>1, <2>1, <2>2, <2>3
<1>3. \A i \in DOMAIN old : Matched(gold.items, new)[i] = Matched(gold.items, old)[i]
  <2> TAKE i \in DOMAIN old
  <2>1. i \in DOMAIN new /\ new[i] = old[i]
    BY <1>1
  <2>2. \A k \in 1..(i - 1) : k \in DOMAIN old /\ new[k] = old[k]
    BY <1>1
  <2> HIDE DEF old, new, n
  <2> QED BY <2>1, <2>2 DEF Matched
<1>4. Matched(gold.items, new)[n + 1] = {}
  <2>1. j \in 1..(n + 1 - 1) /\ n + 1 \in DOMAIN new
    BY <1>1
  <2>2. new[j] = new[n + 1]
    BY <1>1
  <2> HIDE DEF old, new
  <2>3. Matched(gold.items, new)[n + 1]
          = { i \in DOMAIN gold.items :
                /\ gold.items[i].fact = new[n + 1].fact
                /\ \A k \in 1..(n + 1 - 1) : new[k].fact # new[n + 1].fact }
    BY <2>1 DEF Matched
  <2> QED BY <2>1, <2>2, <2>3
<1> DEFINE hit(list) == { i \in OfKind(list, kind) : Matched(gold.items, list)[i] # {} }
<1>5. hit(new) = hit(old)
  <2>1. OfKind(old, kind) \subseteq DOMAIN old
    BY DEF OfKind
  <2> HIDE DEF old, new, n
  <2> QED BY <1>2, <1>3, <1>4, <2>1
<1>6. Match(gold, padded, kind).tp = Match(gold, output, kind).tp
  BY <1>5 DEF Match, TruePositives
<1>7. Cardinality(OfKind(new, kind)) = Cardinality(OfKind(old, kind)) + (IF again THEN 1 ELSE 0)
  <2>1. IsFiniteSet(OfKind(old, kind)) /\ n + 1 \notin OfKind(old, kind)
    BY <1>1, KindsAreFinite DEF OfKind
  <2>2. Cardinality(OfKind(old, kind)) \in Nat
    BY <2>1, FS_CardinalityType
  <2> HIDE DEF old, new, n
  <2>3. CASE again
    BY <1>2, <2>1, <2>3, FS_AddElement
  <2>4. CASE ~again
    <3>1. OfKind(new, kind) = OfKind(old, kind)
      BY <1>2, <2>4
    <3> HIDE DEF again
    <3> QED BY <3>1, <2>2, <2>4
  <2> HIDE DEF again
  <2> QED BY <2>3, <2>4
<1>8. Cardinality(OfKind(old, kind)) \in Nat /\ Match(gold, output, kind).tp \in Nat
  <2>1. /\ Cardinality(OfKind(output.candidates, kind)) \in Nat
        /\ Match(gold, output, kind).tp \in 0..Cardinality(OfKind(output.candidates, kind))
    BY TruePositivesAreProduced
  <2> QED BY <2>1
<1>9. /\ Match(gold, output, kind).fp = Cardinality(OfKind(old, kind)) - Match(gold, output, kind).tp
      /\ Match(gold, padded, kind).fp = Cardinality(OfKind(new, kind)) - Match(gold, padded, kind).tp
      /\ Match(gold, output, kind).fn
           = Cardinality(OfKind(gold.items, kind)) - Match(gold, output, kind).tp
      /\ Match(gold, padded, kind).fn
           = Cardinality(OfKind(gold.items, kind)) - Match(gold, padded, kind).tp
  <2>1. IsList(padded.candidates)
    BY <1>1
  <2> HIDE DEF old, new
  <2> QED BY <2>1, TruePositivesAreProduced DEF old, new
<1> HIDE DEF old, new, again
<1>10. Match(gold, padded, kind).fn = Match(gold, output, kind).fn
  BY <1>6, <1>9
<1>11. Match(gold, padded, kind).fp = Match(gold, output, kind).fp + (IF again THEN 1 ELSE 0)
  BY <1>6, <1>7, <1>8, <1>9
<1> QED
  BY <1>6, <1>10, <1>11 DEF old, again

\* Precision with one more false positive is no higher.
LEMMA PrecisionFalls ==
  ASSUME NEW was, NEW is, was.tp \in Nat, was.fp \in Int, was.tp + was.fp \in Nat \ {0},
         is.tp = was.tp, is.fp = was.fp + 1, is.fn = was.fn
  PROVE  /\ PRF(is).recall = PRF(was).recall
         /\ RateAtMost(PRF(is).precision, PRF(was).precision)
<1>1. PRF(is).recall = PRF(was).recall
  BY DEF PRF
<1>2. PRF(was).precision = <<was.tp, was.tp + was.fp>>
  BY UnmeasuredAssumption DEF PRF, Rate
<1>3. is.tp + is.fp = was.tp + was.fp + 1 /\ is.tp + is.fp \notin {0, Unmeasured}
  BY UnmeasuredAssumption
<1>4. PRF(is).precision = <<was.tp, was.tp + was.fp + 1>>
  BY <1>3 DEF PRF, Rate
<1>5. \A n, m \in Nat : n * m <= n * (m + 1)
  <2> TAKE n, m \in Nat
  <2>1. n * (m + 1) = n * m + n
    OBVIOUS
  <2>2. n * m \in Int
    OBVIOUS
  <2> QED BY <2>1, <2>2
<1>6. was.tp * (was.tp + was.fp) <= was.tp * (was.tp + was.fp + 1)
  BY <1>5
<1> QED
  BY <1>1, <1>2, <1>4, <1>6 DEF RateAtMost

\* What only a SUPPORTS grounds is at most what any grounding grounds.
LEMMA UnverifiedIsMore ==
  ASSUME NEW output, IsList(output.candidates)
  PROVE  UnverifiedAssertions(output) >= UnsupportedAssertions(output)
<1> DEFINE by(relationships) ==
             { j \in DOMAIN output.candidates :
                 \A r \in PresentRefs(output, output.candidates[j]) :
                   r.relationship \notin relationships }
<1>1. by(Groundings) \subseteq by({"SUPPORTS"})
  BY DEF Groundings
<1>2. IsFiniteSet(DOMAIN output.candidates)
  BY FS_Interval DEF IsList
<1>3. IsFiniteSet(by({"SUPPORTS"}))
  BY <1>2, FS_Subset
<1>4. /\ Cardinality(by(Groundings)) <= Cardinality(by({"SUPPORTS"}))
      /\ Cardinality(by(Groundings)) \in Nat /\ Cardinality(by({"SUPPORTS"})) \in Nat
  BY <1>1, <1>3, FS_Subset, FS_CardinalityType
<1> QED
  BY <1>4 DEF UnverifiedAssertions, UnsupportedAssertions, UngroundedBy

\* What grading computes of an output.
LEMMA GradeOf ==
  ASSUME NEW output, NEW gold, NEW ontology
  PROVE  LET is == EvaluateExtraction(output, gold, ontology) IN
         /\ \A kind \in Categories : is.prf[kind] = PRF(Match(gold, output, kind))
         /\ is.hallucinations = Match(gold, output, "entity").fp + Match(gold, output, "relation").fp
                                  + Match(gold, output, "attribute").fp
         /\ is.unsupported = UnsupportedAssertions(output)
         /\ is.unverified = UnverifiedAssertions(output)
         /\ is.cost = output.cost
<1> DEFINE match == [ kind \in Categories |-> Match(gold, output, kind) ]
<1>1. \A kind \in Categories : match[kind] = Match(gold, output, kind)
  OBVIOUS
<1>2. "entity" \in Categories /\ "relation" \in Categories /\ "attribute" \in Categories
  BY DEF Categories
<1> QED
  BY <1>1, <1>2 DEF EvaluateExtraction

\* Emitting a candidate again scores no better.
LEMMA PaddingScores ==
  ASSUME NEW output \in Outputs, NEW gold, NEW ontology
  PROVE  PaddingNeverHelps([gold |-> gold, output |-> output, ontology |-> ontology],
                           EvaluateExtraction(output, gold, ontology))
<1>1. /\ IsList(output.candidates)
      /\ \A j \in DOMAIN output.candidates : output.candidates[j].fact.kind \in Categories
  BY EvaluationAssumption DEF IsList
<1> DEFINE again(j) == output.candidates[j]
           padded(j) == [output EXCEPT !.candidates = Append(@, again(j))]
           was == EvaluateExtraction(output, gold, ontology)
           is(j) == EvaluateExtraction(padded(j), gold, ontology)
<1>2. \A j \in DOMAIN output.candidates :
        /\ is(j).hallucinations = was.hallucinations + 1
        /\ is(j).prf[again(j).fact.kind].recall = was.prf[again(j).fact.kind].recall
        /\ RateAtMost(is(j).prf[again(j).fact.kind].precision,
                      was.prf[again(j).fact.kind].precision)
        /\ is(j).unverified >= is(j).unsupported
  <2> TAKE j \in DOMAIN output.candidates
  <2>1. padded(j).candidates = Append(output.candidates, output.candidates[j])
    <3>1. output = [ candidates |-> output.candidates, evidence |-> output.evidence,
                     attempted |-> output.attempted, abstained |-> output.abstained,
                     failed |-> output.failed, cost |-> output.cost ]
      BY EvaluationAssumption
    <3>2. "candidates" \in DOMAIN output
      BY <3>1
    <3> QED BY <3>2
  <2> DEFINE kind == output.candidates[j].fact.kind
             before(k) == Match(gold, output, k)
             after(k) == Match(gold, padded(j), k)
  <2>2. kind \in Categories
    BY <1>1
  <2>3. \A k \in Categories :
          /\ before(k).tp \in Nat /\ before(k).fp \in Int
          /\ before(k).tp + before(k).fp = Cardinality(OfKind(output.candidates, k))
          /\ after(k).tp = before(k).tp /\ after(k).fn = before(k).fn
          /\ after(k).fp = before(k).fp + (IF k = kind THEN 1 ELSE 0)
    <3> TAKE k \in Categories
    <3> HIDE DEF padded, again
    <3>1. /\ after(k).tp = before(k).tp /\ after(k).fn = before(k).fn
          /\ after(k).fp = before(k).fp + (IF k = kind THEN 1 ELSE 0)
      BY <1>1, <2>1, PaddedMatch
    <3>2. /\ Cardinality(OfKind(output.candidates, k)) \in Nat
          /\ before(k).tp \in 0..Cardinality(OfKind(output.candidates, k))
          /\ before(k).fp = Cardinality(OfKind(output.candidates, k)) - before(k).tp
      BY <1>1, TruePositivesAreProduced
    <3> HIDE DEF before, after
    <3> QED BY <3>1, <3>2
  <2>4. before(kind).tp + before(kind).fp \in Nat \ {0}
    <3>1. j \in OfKind(output.candidates, kind) /\ IsFiniteSet(OfKind(output.candidates, kind))
      BY <1>1, KindsAreFinite DEF OfKind
    <3>2. Cardinality(OfKind(output.candidates, kind)) \in Nat \ {0}
      BY <3>1, FS_CardinalityType, FS_EmptySet
    <3> QED BY <2>2, <2>3, <3>2
  <2>5. /\ PRF(after(kind)).recall = PRF(before(kind)).recall
        /\ RateAtMost(PRF(after(kind)).precision, PRF(before(kind)).precision)
    <3>1. /\ before(kind).tp \in Nat /\ before(kind).fp \in Int
          /\ after(kind).tp = before(kind).tp /\ after(kind).fn = before(kind).fn
          /\ after(kind).fp = before(kind).fp + 1
      BY <2>2, <2>3
    <3> HIDE DEF before, after
    <3> QED BY <3>1, <2>4, PrecisionFalls
  <2>6. /\ is(j).prf[kind] = PRF(after(kind)) /\ was.prf[kind] = PRF(before(kind))
        /\ is(j).hallucinations = after("entity").fp + after("relation").fp + after("attribute").fp
        /\ was.hallucinations
             = before("entity").fp + before("relation").fp + before("attribute").fp
        /\ is(j).unsupported = UnsupportedAssertions(padded(j))
        /\ is(j).unverified = UnverifiedAssertions(padded(j))
    <3> HIDE DEF padded
    <3> QED BY <2>2, GradeOf
  <2>7. is(j).hallucinations = was.hallucinations + 1
    <3> HIDE DEF is, was, after, before, kind
    <3> QED BY <2>2, <2>3, <2>6 DEF Categories
  <2>8. is(j).unverified >= is(j).unsupported
    <3>1. IsList(padded(j).candidates)
      BY <1>1, <2>1, ListAppend
    <3> HIDE DEF padded, is
    <3> QED BY <2>6, <3>1, UnverifiedIsMore
  <2> HIDE DEF is, was, after, before, padded
  <2> QED BY <2>5, <2>6, <2>7, <2>8
<1> QED
  BY <1>2 DEF PaddingNeverHelps

\* What compare_arms found when it says that the enhanced arm is better.
LEMMA ImprovementMeans ==
  ASSUME NEW gold, NEW baseline, NEW enhanced, NEW kind, NEW field, NEW minItems,
         "IMPROVEMENT" \in CompareArms(baseline, enhanced, gold, kind, field, minItems)
  PROVE  LET base == Match(gold, baseline, kind).goldHits
             enh == Match(gold, enhanced, kind).goldHits
         IN /\ GuardrailConcerns(EvaluateExtraction(baseline, gold, Unmeasured),
                                 EvaluateExtraction(enhanced, gold, Unmeasured)) = {}
            /\ DOMAIN base = DOMAIN enh /\ ~(Cardinality(DOMAIN base) < minItems)
            /\ \E i \in DOMAIN base : \E lower, upper \in -1..1 :
                 0 < lower /\ lower <= upper /\ enh[i] - base[i] >= upper
<1> DEFINE base == Match(gold, baseline, kind).goldHits
           enh == Match(gold, enhanced, kind).goldHits
           concerns == GuardrailConcerns(EvaluateExtraction(baseline, gold, Unmeasured),
                                         EvaluateExtraction(enhanced, gold, Unmeasured))
           measurable == Unmeasured \notin { EvaluateExtraction(baseline, gold, Unmeasured).prf[kind][field],
                                             EvaluateExtraction(enhanced, gold, Unmeasured).prf[kind][field] }
           verdict(ci) ==
             IF ~measurable \/ field # "recall" \/ ci = Unmeasured
               THEN "INSUFFICIENT_EVIDENCE"
               ELSE CASE ci.upper < 0 -> "REGRESSION"
                      [] ci.lower > 0 /\ concerns = {} -> "IMPROVEMENT"
                      [] OTHER -> "NO_IMPROVEMENT"
<1>1. PICK ci \in DiffIntervals(base, enh, minItems) : verdict(ci) = "IMPROVEMENT"
  BY DEF CompareArms
<1>2. ci # Unmeasured /\ ci.lower > 0 /\ concerns = {}
  <2> HIDE DEF concerns, measurable, base, enh
  <2>1. ci # Unmeasured
    BY <1>1
  <2>2. CASE ci.upper < 0
    BY <1>1, <2>1, <2>2
  <2>3. CASE ~(ci.upper < 0)
    BY <1>1, <2>1, <2>3
  <2> QED BY <2>1, <2>2, <2>3
<1> HIDE DEF base, enh, concerns, verdict
<1>3. /\ DOMAIN base = DOMAIN enh /\ ~(Cardinality(DOMAIN base) < minItems)
      /\ ci \in [lower: -1..1, upper: -1..1] /\ ci.lower <= ci.upper
      /\ \E d \in { enh[i] - base[i] : i \in DOMAIN base } : d >= ci.upper
  BY <1>1, <1>2 DEF DiffIntervals
<1>4. ci.lower \in -1..1 /\ ci.upper \in -1..1
  BY <1>3
<1>5. PICK i \in DOMAIN base : enh[i] - base[i] >= ci.upper
  BY <1>3
<1> QED
  BY <1>2, <1>3, <1>4, <1>5 DEF base, enh, concerns

\* The counts of an arm are numbers, and what it leaves unsupported is what
\* no reference to present evidence grounds.
LEMMA CountsOfArm ==
  ASSUME NEW gold, NEW output, IsList(output.candidates), NEW ontology
  PROVE  LET is == EvaluateExtraction(output, gold, ontology) IN
         /\ is.hallucinations \in Int
         /\ is.unsupported \in Nat
         /\ is.unsupported = Cardinality(Ungrounded(output))
<1>1. \A kind : Match(gold, output, kind).fp \in Int
  <2> TAKE kind
  <2>1. /\ Cardinality(OfKind(output.candidates, kind)) \in Nat
        /\ Match(gold, output, kind).tp \in 0..Cardinality(OfKind(output.candidates, kind))
        /\ Match(gold, output, kind).fp
             = Cardinality(OfKind(output.candidates, kind)) - Match(gold, output, kind).tp
    BY TruePositivesAreProduced
  <2> QED BY <2>1
<1>2. EvaluateExtraction(output, gold, ontology).hallucinations \in Int
  <2>1. EvaluateExtraction(output, gold, ontology).hallucinations
          = Match(gold, output, "entity").fp + Match(gold, output, "relation").fp
              + Match(gold, output, "attribute").fp
    BY GradeOf
  <2> QED BY <1>1, <2>1
<1>3. EvaluateExtraction(output, gold, ontology).unsupported = UnsupportedAssertions(output)
  BY GradeOf
<1>4. Ungrounded(output)
        = { j \in DOMAIN output.candidates :
              \A r \in PresentRefs(output, output.candidates[j]) :
                r.relationship \notin Groundings }
  BY DEF Ungrounded, PresentRefs
<1>5. UnsupportedAssertions(output) = Cardinality(Ungrounded(output))
  BY <1>4 DEF UnsupportedAssertions, UngroundedBy
<1>6. Cardinality(Ungrounded(output)) \in Nat
  <2>1. IsFiniteSet(DOMAIN output.candidates) /\ Ungrounded(output) \subseteq DOMAIN output.candidates
    BY FS_Interval DEF IsList, Ungrounded
  <2> QED BY <2>1, FS_Subset, FS_CardinalityType
<1> QED
  BY <1>2, <1>3, <1>5, <1>6

\* An improvement is earned.
LEMMA ImprovementIsEarned ==
  ASSUME NEW gold \in GoldSets, NEW baseline \in Arms, NEW enhanced \in Arms, NEW field,
         NEW minItems \in Int,
         "IMPROVEMENT" \in CompareArms(baseline, enhanced, gold, "entity", field, minItems)
  PROVE  WinIsEarned([ gold |-> gold, baseline |-> baseline, enhanced |-> enhanced,
                       field |-> field, minItems |-> minItems ])
<1> DEFINE base == Match(gold, baseline, "entity").goldHits
           enh == Match(gold, enhanced, "entity").goldHits
           was == EvaluateExtraction(baseline, gold, Unmeasured)
           is == EvaluateExtraction(enhanced, gold, Unmeasured)
<1>1. /\ GuardrailConcerns(was, is) = {}
      /\ DOMAIN base = DOMAIN enh /\ ~(Cardinality(DOMAIN base) < minItems)
      /\ \E i \in DOMAIN base : \E lower, upper \in -1..1 :
           0 < lower /\ lower <= upper /\ enh[i] - base[i] >= upper
  BY ImprovementMeans
<1>2. IsList(baseline.candidates) /\ IsList(enhanced.candidates) /\ IsList(gold.items)
  BY EvaluationAssumption DEF IsList
<1>3. \A i \in DOMAIN base : base[i] \in {0, 1}
  BY DEF Match
<1>4. \A i \in DOMAIN enh : enh[i] \in {0, 1}
  BY DEF Match
<1>5. \E i \in DOMAIN enh : enh[i] = 1 /\ base[i] = 0
  <2> HIDE DEF base, enh
  <2>1. PICK i \in DOMAIN base : \E lower, upper \in -1..1 :
          0 < lower /\ lower <= upper /\ enh[i] - base[i] >= upper
    BY <1>1
  <2>2. i \in DOMAIN enh /\ base[i] \in {0, 1} /\ enh[i] \in {0, 1}
    BY <1>1, <1>3, <1>4
  <2>3. enh[i] = 1 /\ base[i] = 0
    BY <2>1, <2>2
  <2> QED BY <2>2, <2>3
<1>6. Cardinality(DOMAIN enh) >= minItems
  <2>1. DOMAIN enh = OfKind(gold.items, "entity")
    BY DEF Match
  <2>2. Cardinality(DOMAIN enh) \in Nat
    BY <1>2, <2>1, KindsAreFinite, FS_CardinalityType
  <2> HIDE DEF base, enh
  <2> QED BY <1>1, <2>2
<1>7. /\ was.hallucinations \in Int /\ is.hallucinations \in Int
      /\ was.unsupported \in Nat /\ is.unsupported \in Nat
      /\ was.unsupported = Cardinality(Ungrounded(baseline))
      /\ is.unsupported = Cardinality(Ungrounded(enhanced))
      /\ was.cost = baseline.cost /\ is.cost = enhanced.cost
  <2>1. /\ was.hallucinations \in Int /\ was.unsupported \in Nat
        /\ was.unsupported = Cardinality(Ungrounded(baseline))
    BY <1>2, CountsOfArm
  <2>2. /\ is.hallucinations \in Int /\ is.unsupported \in Nat
        /\ is.unsupported = Cardinality(Ungrounded(enhanced))
    BY <1>2, CountsOfArm
  <2>3. was.cost = baseline.cost /\ is.cost = enhanced.cost
    BY GradeOf
  <2> QED BY <2>1, <2>2, <2>3
<1>8. /\ is.hallucinations <= was.hallucinations
      /\ is.unsupported <= was.unsupported
      /\ \A m \in {"usd", "seconds"} :
           Unmeasured \in {was.cost[m], is.cost[m]} \/ is.cost[m] <= was.cost[m]
  <2>1. /\ ~(is.hallucinations > was.hallucinations)
        /\ ~(is.unsupported > was.unsupported)
        /\ ~Rose(was.cost.usd, is.cost.usd) /\ ~Rose(was.cost.seconds, is.cost.seconds)
    <3> HIDE DEF was, is
    <3> QED BY <1>1 DEF GuardrailConcerns
  <2>2. /\ was.cost.usd \in Int \cup {Unmeasured} /\ is.cost.usd \in Int \cup {Unmeasured}
        /\ was.cost.seconds \in Int \cup {Unmeasured}
        /\ is.cost.seconds \in Int \cup {Unmeasured}
    BY <1>7, EvaluationAssumption
  <2> HIDE DEF was, is
  <2>3. ASSUME NEW a \in Int \cup {Unmeasured}, NEW b \in Int \cup {Unmeasured}, ~Rose(a, b)
        PROVE  Unmeasured \in {a, b} \/ b <= a
    BY <2>3 DEF Rose
  <2>4. /\ Unmeasured \in {was.cost.usd, is.cost.usd} \/ is.cost.usd <= was.cost.usd
        /\ Unmeasured \in {was.cost.seconds, is.cost.seconds}
             \/ is.cost.seconds <= was.cost.seconds
    BY <2>1, <2>2, <2>3
  <2> QED BY <1>7, <2>1, <2>4
<1> QED
  BY <1>5, <1>6, <1>7, <1>8 DEF WinIsEarned

\* An arm gains nothing by emitting what it emitted, and a verdict of an
\* improvement is earned, whatever the gold set, the arms and the bootstrap.
THEOREM ScoresStayEarned == Spec => []ScoresAreEarned
<1>1. Init => ScoresAreEarned
  BY DEF Init, Nothing, ScoresAreEarned
<1>2. ScoresAreEarned /\ [Next]_call => ScoresAreEarned'
  <2> SUFFICES ASSUME ScoresAreEarned, [Next]_call
               PROVE  ScoresAreEarned'
    OBVIOUS
  <2>1. CASE UNCHANGED call
    BY <2>1 DEF ScoresAreEarned
  <2>2. CASE Next
    <3>1. call'.op = "grade" => PaddingNeverHelps(call'.given, call'.answer)
      <4> SUFFICES ASSUME call'.op = "grade"
                   PROVE  PaddingNeverHelps(call'.given, call'.answer)
        OBVIOUS
      <4>1. Grade
        BY <2>2, WhoAnswers
      <4>2. PICK gold \in GoldSets, output \in Outputs : \E ontology :
              Call("grade", [gold |-> gold, output |-> output, ontology |-> ontology],
                   EvaluateExtraction(output, gold, ontology))
        BY <4>1 DEF Grade
      <4>3. PICK ontology :
              Call("grade", [gold |-> gold, output |-> output, ontology |-> ontology],
                   EvaluateExtraction(output, gold, ontology))
        BY <4>2
      <4>4. /\ call'.given = [gold |-> gold, output |-> output, ontology |-> ontology]
            /\ call'.answer = EvaluateExtraction(output, gold, ontology)
        BY <4>3 DEF Call
      <4> QED BY <4>4, PaddingScores
    <3>2. call'.op = "compare" /\ "IMPROVEMENT" \in call'.answer => WinIsEarned(call'.given)
      <4> SUFFICES ASSUME call'.op = "compare", "IMPROVEMENT" \in call'.answer
                   PROVE  WinIsEarned(call'.given)
        OBVIOUS
      <4>1. Compare
        BY <2>2, WhoAnswers
      <4>2. PICK gold \in GoldSets, baseline \in Arms, enhanced \in Arms :
            \E field \in {"recall", "precision"}, minItems \in 1..2 :
              Call("compare", [ gold |-> gold, baseline |-> baseline, enhanced |-> enhanced,
                                field |-> field, minItems |-> minItems ],
                   CompareArms(baseline, enhanced, gold, "entity", field, minItems))
        BY <4>1 DEF Compare
      <4>3. PICK field \in {"recall", "precision"}, minItems \in 1..2 :
              Call("compare", [ gold |-> gold, baseline |-> baseline, enhanced |-> enhanced,
                                field |-> field, minItems |-> minItems ],
                   CompareArms(baseline, enhanced, gold, "entity", field, minItems))
        BY <4>2
      <4>4. /\ call'.given = [ gold |-> gold, baseline |-> baseline, enhanced |-> enhanced,
                               field |-> field, minItems |-> minItems ]
            /\ call'.answer = CompareArms(baseline, enhanced, gold, "entity", field, minItems)
        BY <4>3 DEF Call
      <4> QED BY <4>4, ImprovementIsEarned
    <3> QED BY <3>1, <3>2 DEF ScoresAreEarned
  <2> QED BY <2>1, <2>2
<1> QED
  BY <1>1, <1>2, PTL DEF Spec

-----------------------------------------------------------------------------
(* Snapshots *)

\* The rows of a snapshot are those of the table: they can be put in order.
LEMMA SnapshotHoldsTable ==
  ASSUME NEW table \in Tables
  PROVE  LET rows == OpenSnapshot(table, KeyColumn) IN
         rows \in [ 1..Cardinality(table) -> table ] /\ ToSet(rows) = table
<1> DEFINE N == Cardinality(table)
           key == [ r \in table |-> KeyOf(r, KeyColumn) ]
           Upto(r) == { s \in table : key[s] <= key[r] }
           rank == [ r \in table |-> Cardinality(Upto(r)) ]
<1>1. /\ IsFiniteSet(table) /\ N \in Nat
      /\ \A r \in table : key[r] \in Int
      /\ \A r, s \in table : key[r] = key[s] => r = s
  BY TablesAssumption, FS_CardinalityType
<1>2. \A r \in table : IsFiniteSet(Upto(r)) /\ Cardinality(Upto(r)) \in 1..N
  <2> TAKE r \in table
  <2> HIDE DEF key
  <2>1. r \in Upto(r) /\ Upto(r) \in SUBSET table
    BY <1>1
  <2>2. IsFiniteSet(Upto(r)) /\ Cardinality(Upto(r)) <= N
    BY <1>1, <2>1, FS_Subset
  <2>3. Cardinality(Upto(r)) \in Nat /\ Cardinality(Upto(r)) # 0
    BY <2>1, <2>2, FS_CardinalityType, FS_EmptySet
  <2> HIDE DEF Upto
  <2> QED BY <1>1, <2>2, <2>3
<1>3. rank \in [ table -> 1..N ]
  BY <1>2
<1>4. \A r, s \in table : key[r] < key[s] => rank[r] < rank[s]
  <2> SUFFICES ASSUME NEW r \in table, NEW s \in table, key[r] < key[s]
               PROVE  Cardinality(Upto(r)) < Cardinality(Upto(s))
    OBVIOUS
  <2> HIDE DEF key
  <2>1. Upto(r) \in SUBSET Upto(s)
    BY <1>1
  <2>2. s \in Upto(s) /\ s \notin Upto(r)
    BY <1>1
  <2>3. /\ Cardinality(Upto(r)) <= Cardinality(Upto(s))
        /\ Cardinality(Upto(r)) # Cardinality(Upto(s))
    BY <1>2, <2>1, <2>2, FS_Subset
  <2>4. Cardinality(Upto(r)) \in Nat /\ Cardinality(Upto(s)) \in Nat
    BY <1>2
  <2> QED BY <2>3, <2>4
<1> HIDE DEF key, rank
<1>5. \A r, s \in table : rank[r] = rank[s] => r = s
  <2> TAKE r, s \in table
  <2>1. key[r] < key[s] \/ key[s] < key[r] \/ key[r] = key[s]
    BY <1>1
  <2>2. rank[r] \in Int /\ rank[s] \in Int
    BY <1>3
  <2> QED BY <1>1, <1>4, <2>1, <2>2
<1>6. rank \in Surjection(table, 1..N)
  <2>1. rank \in Injection(table, 1..N)
    BY <1>3, <1>5 DEF Injection, IsInjective
  <2>2. IsFiniteSet(1..N) /\ Cardinality(1..N) = N
    BY <1>1, FS_Interval
  <2> QED BY <2>1, <2>2, FS_Injection
<1> DEFINE rows == [ n \in 1..N |-> CHOOSE r \in table : rank[r] = n ]
<1>7. \A n \in 1..N : rows[n] \in table /\ rank[rows[n]] = n
  BY <1>6 DEF Surjection
<1>8. \A r \in table : rows[rank[r]] = r /\ rank[r] \in 1..N
  <2> HIDE DEF rows
  <2> QED BY <1>3, <1>5, <1>7
<1>9. rows \in [ 1..N -> table ] /\ DOMAIN rows = 1..N
  BY <1>7
<1> HIDE DEF rows
<1>10. ToSet(rows) = table
  BY <1>7, <1>8, <1>9 DEF ToSet
<1>11. \A i, j \in DOMAIN rows : i < j => KeyOf(rows[i], KeyColumn) <= KeyOf(rows[j], KeyColumn)
  <2> TAKE i, j \in DOMAIN rows
  <2>1. /\ i \in Int /\ j \in Int /\ rows[i] \in table /\ rows[j] \in table
        /\ rank[rows[i]] = i /\ rank[rows[j]] = j
    BY <1>7, <1>9
  <2>2. key[rows[j]] < key[rows[i]] => j < i
    BY <1>4, <2>1
  <2>3. key[rows[i]] = KeyOf(rows[i], KeyColumn) /\ key[rows[j]] = KeyOf(rows[j], KeyColumn)
    BY <2>1 DEF key
  <2>4. key[rows[i]] \in Int /\ key[rows[j]] \in Int
    BY <1>1, <2>1
  <2> QED BY <2>1, <2>2, <2>3, <2>4
<1> QED
  BY <1>9, <1>10, <1>11 DEF OpenSnapshot

\* The coordinates of a row.
Coordinates(row) == StructuredRecord(1, row, <<KeyColumn>>).fragment

\* Coordinates do not depend on where the row is read, and tell the key.
LEMMA CoordinatesTellKey ==
  /\ \A i, row : StructuredRecord(i, row, <<KeyColumn>>).fragment = Coordinates(row)
  /\ \A table \in Tables : \A r, s \in table : Coordinates(r) = Coordinates(s) => r = s
<1>1. \A i, row : StructuredRecord(i, row, <<KeyColumn>>).fragment
                    = [ k \in DOMAIN <<KeyColumn>> |->
                          << <<KeyColumn>>[k],
                             { row[c].raw.text : c \in { d \in DOMAIN row :
                                              row[d].header = <<KeyColumn>>[k] } } >> ]
  BY DEF StructuredRecord
<1> DEFINE keyCells(row) == { i \in DOMAIN row : row[i].header = KeyColumn }
           keys(row) == { row[i].raw.text : i \in keyCells(row) }
<1>2. \A table \in Tables : \A row \in table :
        \E text : /\ keys(row) = {text}
                  /\ KeyOf(row, KeyColumn) = Means[text].int
  <2> TAKE table \in Tables
  <2> TAKE row \in table
  <2>1. row \in Seq(ToSet(row)) /\ Cardinality(keyCells(row)) = 1
    BY TablesAssumption
  <2>2. DOMAIN row = 1..Len(row) /\ Len(row) \in Nat
    BY <2>1
  <2>3. IsFiniteSet(keyCells(row))
    <3>1. IsFiniteSet(1..Len(row)) /\ keyCells(row) \in SUBSET (1..Len(row))
      BY <2>2, FS_Interval
    <3> HIDE DEF keyCells
    <3> QED BY <3>1, FS_Subset
  <2>4. PICK i : keyCells(row) = {i}
    BY <2>1, <2>3, FS_Singleton
  <2>5. keys(row) = {row[i].raw.text}
    BY <2>4
  <2>6. i \in DOMAIN row /\ row[i].header = KeyColumn
    BY <2>4
  <2>7. \A c \in ToSet(row) : c.header = KeyColumn <=> c = row[i]
    BY <2>4, <2>6 DEF ToSet
  <2>8. (CHOOSE c \in ToSet(row) : c.header = KeyColumn) = row[i]
    <3>1. row[i] \in ToSet(row)
      BY <2>6 DEF ToSet
    <3> QED BY <2>7, <3>1
  <2> QED BY <2>5, <2>8 DEF KeyOf
<1>3. \A table \in Tables : \A r, s \in table : Coordinates(r) = Coordinates(s) => r = s
  <2> SUFFICES ASSUME NEW table \in Tables, NEW r \in table, NEW s \in table,
                      Coordinates(r) = Coordinates(s)
               PROVE  r = s
    OBVIOUS
  <2>1. \A row : Coordinates(row)[1][2] = keys(row)
    <3> TAKE row
    <3>1. /\ 1 \in DOMAIN <<KeyColumn>> /\ <<KeyColumn>>[1] = KeyColumn
          /\ Coordinates(row)
               = [ k \in DOMAIN <<KeyColumn>> |->
                     << <<KeyColumn>>[k],
                        { row[c].raw.text : c \in { d \in DOMAIN row :
                                         row[d].header = <<KeyColumn>>[k] } } >> ]
      BY <1>1 DEF Coordinates
    <3> QED BY <3>1
  <2> HIDE DEF keys
  <2>2. keys(r) = keys(s)
    <3>1. Coordinates(r)[1][2] = Coordinates(s)[1][2]
      OBVIOUS
    <3> QED BY <2>1, <3>1
  <2>3. KeyOf(r, KeyColumn) = KeyOf(s, KeyColumn)
    BY <1>2, <2>2
  <2> QED BY <2>3, TablesAssumption
<1>4. \A i, row : StructuredRecord(i, row, <<KeyColumn>>).fragment = Coordinates(row)
  BY <1>1 DEF Coordinates
<1> QED BY <1>3, <1>4

\* The records of a snapshot are the rows of the table, each with its own
\* coordinates and the rows it was read among.
LEMMA SnapshotRecords ==
  ASSUME NEW table \in Tables
  PROVE  LET rows == OpenSnapshot(table, KeyColumn) IN
         \A r \in ReadSnapshot(table) :
           /\ r.cells \in table
           /\ r = [ cells |-> r.cells, fragment |-> Coordinates(r.cells),
                    evidence |-> <<Coordinates(r.cells), rows>> ]
<1> DEFINE rows == OpenSnapshot(table, KeyColumn)
<1> SUFFICES ASSUME NEW r \in ReadSnapshot(table)
             PROVE  /\ r.cells \in table
                    /\ r = [ cells |-> r.cells, fragment |-> Coordinates(r.cells),
                             evidence |-> <<Coordinates(r.cells), rows>> ]
  OBVIOUS
<1>1. rows \in [ 1..Cardinality(table) -> table ]
  BY SnapshotHoldsTable
<1>2. PICK i \in DOMAIN rows :
        r = [ cells |-> rows[i],
              fragment |-> StructuredRecord(i, rows[i], <<KeyColumn>>).fragment,
              evidence |-> SourceEvidenceId(
                             StructuredRecord(i, rows[i], <<KeyColumn>>).fragment, rows) ]
  BY DEF ReadSnapshot
<1> HIDE DEF rows
<1>3. StructuredRecord(i, rows[i], <<KeyColumn>>).fragment = Coordinates(rows[i])
  BY CoordinatesTellKey
<1>4. r = [ cells |-> rows[i], fragment |-> Coordinates(rows[i]),
            evidence |-> <<Coordinates(rows[i]), rows>> ]
  BY <1>2, <1>3 DEF SourceEvidenceId
<1> QED BY <1>1, <1>4

\* A row keeps its coordinates between two reads of a source, and evidence
\* tells the reads apart.
LEMMA SyncKeepsCoordinates ==
  ASSUME NEW before \in Tables, NEW after \in Tables
  PROVE  KeepsCoordinates([before |-> before, after |-> after],
                          [before |-> ReadSnapshot(before), after |-> ReadSnapshot(after)])
<1> DEFINE was == OpenSnapshot(before, KeyColumn)
           is == OpenSnapshot(after, KeyColumn)
<1>1. /\ \A r \in ReadSnapshot(before) :
           /\ r.cells \in before
           /\ r = [ cells |-> r.cells, fragment |-> Coordinates(r.cells),
                    evidence |-> <<Coordinates(r.cells), was>> ]
      /\ \A r \in ReadSnapshot(after) :
           /\ r.cells \in after
           /\ r = [ cells |-> r.cells, fragment |-> Coordinates(r.cells),
                    evidence |-> <<Coordinates(r.cells), is>> ]
  BY SnapshotRecords
<1>2. ToSet(was) = before /\ ToSet(is) = after
  BY SnapshotHoldsTable
<1> HIDE DEF was, is
<1>3. ASSUME NEW r \in ReadSnapshot(before), NEW s \in ReadSnapshot(after)
      PROVE  /\ r.cells = s.cells => r.fragment = s.fragment
             /\ r.evidence = s.evidence => r.cells = s.cells /\ before = after
  <2>1. /\ r.fragment = Coordinates(r.cells) /\ r.evidence = <<Coordinates(r.cells), was>>
        /\ s.fragment = Coordinates(s.cells) /\ s.evidence = <<Coordinates(s.cells), is>>
        /\ r.cells \in before /\ s.cells \in after
    BY <1>1
  <2>2. r.evidence = s.evidence => was = is /\ Coordinates(r.cells) = Coordinates(s.cells)
    BY <2>1
  <2>3. r.evidence = s.evidence => before = after
    BY <1>2, <2>2
  <2> QED BY <2>1, <2>2, <2>3, CoordinatesTellKey
<1>4. ASSUME NEW r \in ReadSnapshot(before), NEW s \in ReadSnapshot(before),
             r.fragment = s.fragment
      PROVE  r = s
  <2>1. /\ r = [ cells |-> r.cells, fragment |-> Coordinates(r.cells),
                 evidence |-> <<Coordinates(r.cells), was>> ]
        /\ s = [ cells |-> s.cells, fragment |-> Coordinates(s.cells),
                 evidence |-> <<Coordinates(s.cells), was>> ]
        /\ r.cells \in before /\ s.cells \in before
    BY <1>1
  <2>2. r.fragment = Coordinates(r.cells) /\ s.fragment = Coordinates(s.cells)
    BY <2>1
  <2>3. r.cells = s.cells
    BY <1>4, <2>1, <2>2, CoordinatesTellKey
  <2> QED BY <2>1, <2>3
<1> QED
  BY <1>3, <1>4 DEF KeepsCoordinates

-----------------------------------------------------------------------------
(* Two formats *)

\* The value a CSV file holds for a field is the text of the JSON value.
LEMMA LookupAsText ==
  ASSUME NEW row, IsList(row), NEW field, IsList(field.sources)
  PROVE  LET raw == Lookup(row, field) IN
         /\ Lookup(AsText(row), field) = IF raw = Null THEN Null ELSE Raw("str", raw.text)
         /\ raw = Null \/ \E i \in DOMAIN row : raw = row[i].raw
<1> DEFINE under(cells, key) == { i \in DOMAIN cells : Fold[cells[i].header] = Fold[key] }
           answering(cells) == { k \in DOMAIN field.sources : under(cells, field.sources[k]) # {} }
           place(cells) == Max(under(cells, field.sources[Min(answering(cells))]))
<1>1. /\ DOMAIN row = 1..Len(row) /\ Len(row) \in Nat
      /\ DOMAIN field.sources = 1..Len(field.sources) /\ Len(field.sources) \in Nat
  BY DEF IsList
<1>2. /\ DOMAIN AsText(row) = DOMAIN row
      /\ \A i \in DOMAIN row :
           /\ AsText(row)[i].header = row[i].header
           /\ AsText(row)[i].raw = IF row[i].raw = Null THEN Null ELSE Raw("str", row[i].raw.text)
  BY DEF AsText
<1>3. \A key : under(AsText(row), key) = under(row, key)
  BY <1>2
<1>4. answering(AsText(row)) = answering(row)
  <2> HIDE DEF under
  <2> QED BY <1>3
<1>5. place(AsText(row)) = place(row)
  <2> HIDE DEF under, answering
  <2> QED BY <1>3, <1>4
<1>6. \A cells : Lookup(cells, field) = IF answering(cells) = {} THEN Null
                                        ELSE cells[place(cells)].raw
  BY DEF Lookup
<1>7. CASE answering(row) = {}
  <2> HIDE DEF answering, place
  <2> QED BY <1>4, <1>6, <1>7
<1>8. CASE answering(row) # {}
  <2>1. Min(answering(row)) \in answering(row)
    <3>1. answering(row) \in SUBSET Nat
      BY <1>1
    <3> HIDE DEF answering
    <3> QED BY <1>8, <3>1, MinIsMember
  <2> DEFINE S == under(row, field.sources[Min(answering(row))])
  <2>2. S # {}
    <3> HIDE DEF under
    <3> QED BY <2>1
  <2>3. S \in SUBSET (0..Len(row))
    BY <1>1
  <2>4. Max(S) \in S
    <3> HIDE DEF S
    <3> QED BY <1>1, <2>2, <2>3, MaxIsMember
  <2>5. place(row) \in DOMAIN row
    BY <2>4
  <2> HIDE DEF answering, place
  <2> QED BY <1>2, <1>4, <1>5, <1>6, <1>8, <2>5
<1> QED BY <1>7, <1>8

\* A typed value and its text are coerced alike where both can be.
LEMMA CoercionsAgree ==
  ASSUME NEW raw, Writes(raw), NEW type \in {"str", "int", "float", "bool", "datetime"},
         Coerce(raw, type) # Null, Coerce(Raw("str", raw.text), type) # Null
  PROVE  Coerce(raw, type) = Coerce(Raw("str", raw.text), type)
<1> DEFINE text == Raw("str", raw.text)
           m == Means[raw.text]
<1>1. text.type = "str" /\ text.text = raw.text
  BY DEF Raw
<1> HIDE DEF text
<1>2. CASE raw.type = "str"
  BY <1>2 DEF Writes, text
<1>3. CASE raw.type # "str"
  <2>1. CASE type = "str"
    <3>1. Coerce(raw, type) = CoerceStr(raw) /\ Coerce(text, type) = CoerceStr(text)
      BY <2>1 DEF Coerce
    <3>2. raw.type \in {"int", "float"}
      BY <1>3, <3>1 DEF CoerceStr, Writes, text
    <3>3. CoerceStr(raw) = Value("str", raw.text)
      BY <3>2 DEF CoerceStr
    <3>4. CoerceStr(text) = Value("str", m.strip)
      BY <1>1 DEF CoerceStr
    <3>5. m.strip = raw.text
      BY <3>2 DEF Writes
    <3> QED BY <3>1, <3>3, <3>4, <3>5 DEF text
  <2>2. CASE type = "int"
    <3>1. Coerce(raw, type) = CoerceInt(raw) /\ Coerce(text, type) = CoerceInt(text)
      BY <2>2 DEF Coerce
    <3>2. raw.type \in {"int", "float"}
      BY <1>3, <3>1 DEF CoerceInt, Writes, text
    <3>3. CoerceInt(raw) = Value("int", m.float \div 10)
      BY <3>1, <3>2 DEF CoerceInt
    <3>4. CoerceInt(text) = Value("int", m.int) /\ m.int # Null
      BY <1>1, <3>1 DEF CoerceInt, text
    <3>5. m.int = m.float \div 10
      BY <3>2, <3>4 DEF Writes
    <3> QED BY <3>1, <3>3, <3>4, <3>5 DEF text
  <2>3. CASE type = "float"
    <3>1. Coerce(raw, type) = CoerceFloat(raw) /\ Coerce(text, type) = CoerceFloat(text)
      BY <2>3 DEF Coerce
    <3>2. CoerceFloat(raw) = Value("float", m.float)
      BY <3>1 DEF CoerceFloat
    <3>3. CoerceFloat(text) = Value("float", m.float)
      BY <1>1, <3>1 DEF CoerceFloat, text
    <3> QED BY <3>1, <3>2, <3>3 DEF text
  <2>4. CASE type = "bool"
    <3>1. Coerce(raw, type) = CoerceBool(raw) /\ Coerce(text, type) = CoerceBool(text)
      BY <2>4 DEF Coerce
    <3>2. CoerceBool(text) = Value("bool", m.bool)
      BY <1>1, <3>1 DEF CoerceBool, text
    <3>3. CASE raw.type = "bool"
      BY <3>1, <3>2, <3>3 DEF CoerceBool, text
    <3>4. CASE raw.type = "int"
      <4>1. raw.text \in {"0", "1"} /\ CoerceBool(raw) = Value("bool", raw.text = "1")
        BY <3>1, <3>4 DEF CoerceBool
      <4>2. m.bool = (raw.text = "1")
        BY <3>4, <4>1 DEF Writes
      <4> QED BY <3>1, <3>2, <4>1, <4>2 DEF text
    <3>5. CASE raw.type = "float"
      BY <3>1, <3>5 DEF CoerceBool
    <3> QED BY <1>3, <3>3, <3>4, <3>5 DEF Writes
  <2>5. CASE type = "datetime"
    BY <1>3, <2>5 DEF Coerce, CoerceDatetime
  <2> QED BY <2>1, <2>2, <2>3, <2>4, <2>5
<1> QED BY <1>2, <1>3

\* A field that reads without an error has a value where it is not absent.
LEMMA FieldReads ==
  ASSUME NEW record, NEW field,
         \A n \in DOMAIN ReadField(record, field).issues :
           ReadField(record, field).issues[n].code \in Warnings
  PROVE  LET raw == Lookup(record.cells, field) IN
         /\ IsAbsent(raw, field) => ReadField(record, field).value = field.default
         /\ ~IsAbsent(raw, field) =>
              /\ ReadField(record, field).value = Coerce(raw, field.type)
              /\ Coerce(raw, field.type) # Null
<1> DEFINE raw == Lookup(record.cells, field)
<1>1. CASE IsAbsent(raw, field)
  <2>1. ReadField(record, field).value = field.default
    <3> HIDE DEF raw
    <3> QED BY <1>1 DEF ReadField, raw
  <2> QED BY <1>1, <2>1
<1>2. CASE ~IsAbsent(raw, field)
  <2>1. ReadField(record, field).value = Coerce(raw, field.type)
    BY <1>2 DEF ReadField
  <2>2. SUFFICES ASSUME Coerce(raw, field.type) = Null PROVE FALSE
    BY <1>2, <2>1
  <2>3. ReadField(record, field).issues = << Issue("coercion_failed", field.name) >>
    BY <1>2, <2>2 DEF ReadField
  <2>4. 1 \in DOMAIN ReadField(record, field).issues
        /\ ReadField(record, field).issues[1].code = "coercion_failed"
    BY <2>3 DEF Issue
  <2> QED BY <2>4 DEF Warnings
<1> QED BY <1>1, <1>2

\* A field reads the same from a row and from its text, unless one refuses it.
LEMMA FieldsAgree ==
  ASSUME NEW row \in Facts, NEW field,
         field.type \in {"str", "int", "float", "bool", "datetime"}, IsList(field.sources),
         NEW json, json.cells = row, NEW csv, csv.cells = AsText(row),
         \A n \in DOMAIN ReadField(json, field).issues :
           ReadField(json, field).issues[n].code \in Warnings,
         \A n \in DOMAIN ReadField(csv, field).issues :
           ReadField(csv, field).issues[n].code \in Warnings
  PROVE  ReadField(json, field).value = ReadField(csv, field).value
<1> DEFINE raw == Lookup(row, field)
           text == Lookup(AsText(row), field)
<1>1. /\ text = IF raw = Null THEN Null ELSE Raw("str", raw.text)
      /\ raw = Null \/ Writes(raw)
  <2>1. IsList(row) /\ \A i \in DOMAIN row : row[i].raw = Null \/ Writes(row[i].raw)
    BY FactsAssumption DEF IsList
  <2>2. /\ text = IF raw = Null THEN Null ELSE Raw("str", raw.text)
        /\ raw = Null \/ \E i \in DOMAIN row : raw = row[i].raw
    BY <2>1, LookupAsText
  <2> HIDE DEF raw, text
  <2> QED BY <2>1, <2>2
<1>2. /\ IsAbsent(raw, field) => ReadField(json, field).value = field.default
      /\ ~IsAbsent(raw, field) => /\ ReadField(json, field).value = Coerce(raw, field.type)
                                  /\ Coerce(raw, field.type) # Null
  BY FieldReads
<1>3. /\ IsAbsent(text, field) => ReadField(csv, field).value = field.default
      /\ ~IsAbsent(text, field) => /\ ReadField(csv, field).value = Coerce(text, field.type)
                                   /\ Coerce(text, field.type) # Null
  BY FieldReads
<1> HIDE DEF raw, text
<1>4. CASE raw = Null
  BY <1>1, <1>2, <1>3, <1>4 DEF IsAbsent
<1>5. CASE raw # Null
  <2>1. /\ Writes(raw) /\ text = Raw("str", raw.text) /\ text # Null
        /\ text.type = "str" /\ text.text = raw.text
    BY <1>1, <1>5 DEF Writes, Raw
  <2>2. IsAbsent(raw, field) <=> IsAbsent(text, field)
    <3>1. CASE raw.type = "str"
      <4>1. text = raw
        BY <2>1, <3>1 DEF Writes
      <4> QED BY <4>1
    <3>2. CASE raw.type # "str"
      <4>1. ~IsAbsent(raw, field)
        BY <1>5, <3>2 DEF IsAbsent
      <4>2. ~IsAbsent(text, field)
        BY <2>1, <3>2 DEF IsAbsent, Writes
      <4> QED BY <4>1, <4>2
    <3> QED BY <3>1, <3>2
  <2>3. ~IsAbsent(raw, field) => Coerce(raw, field.type) = Coerce(text, field.type)
    BY <1>2, <1>3, <2>1, <2>2, CoercionsAgree
  <2> QED BY <1>2, <1>3, <2>2, <2>3
<1> QED BY <1>4, <1>5

\* A record without errors read each of its fields without one.
LEMMA ErrorFreeFields ==
  ASSUME NEW record, IsList(record.issues), NEW schema, IsList(schema),
         RecordErrors(Normalize(record, schema)) = {}, NEW i \in DOMAIN schema
  PROVE  \A n \in DOMAIN ReadField(record, schema[i]).issues :
           ReadField(record, schema[i]).issues[n].code \in Warnings
<1> DEFINE read == [ k \in DOMAIN schema |-> ReadField(record, schema[k]).issues ]
           X == ToSet(record.issues) \cup UNION { ToSet(read[k]) : k \in DOMAIN schema }
<1>1. \A k \in DOMAIN schema : IsList(read[k])
  <2> TAKE k \in DOMAIN schema
  <2>1. \/ read[k] = <<>>
        \/ \E x : read[k] = <<x>>
    BY DEF ReadField
  <2> HIDE DEF read
  <2>2. IsList(<<>>) /\ \A x : IsList(<<x>>)
    BY DEF IsList, ToSet
  <2> QED BY <2>1, <2>2
<1>2. read \in Seq(Seq(X))
  <2>1. DOMAIN schema = 1..Len(schema) /\ Len(schema) \in Nat
    BY DEF IsList
  <2>2. ASSUME NEW k \in DOMAIN schema
        PROVE  read[k] \in Seq(X)
    <3>1. ToSet(read[k]) \subseteq X
      OBVIOUS
    <3>2. read[k] \in Seq(ToSet(read[k]))
      BY <1>1 DEF IsList
    <3> HIDE DEF X, read
    <3> QED BY <3>1, <3>2
  <2>3. DOMAIN read = DOMAIN schema /\ read = [ k \in DOMAIN read |-> read[k] ]
    OBVIOUS
  <2> HIDE DEF X, read
  <2> QED BY <2>1, <2>2, <2>3
<1>3. record.issues \in Seq(X)
  <2>1. record.issues \in Seq(ToSet(record.issues)) /\ ToSet(record.issues) \subseteq X
    BY DEF IsList
  <2> HIDE DEF X
  <2> QED BY <2>1
<1>4. Normalize(record, schema).issues = record.issues \o FlattenSeq(read)
  BY DEF Normalize
<1>5. ToSet(read[i]) \subseteq ToSet(Normalize(record, schema).issues)
  <2>1. FlattenSeq(read) \in Seq(X)
        /\ ToSet(FlattenSeq(read)) = UNION { ToSet(read[k]) : k \in DOMAIN read }
    <3> HIDE DEF X, read
    <3> QED BY <1>2, FlattenElements
  <2>2. ToSet(record.issues \o FlattenSeq(read)) = ToSet(record.issues) \cup ToSet(FlattenSeq(read))
    <3> HIDE DEF X, read
    <3> QED BY <1>3, <2>1, ConcatElements
  <2>3. i \in DOMAIN read
    OBVIOUS
  <2> HIDE DEF X, read
  <2> QED BY <1>4, <2>1, <2>2, <2>3
<1>6. \A x \in ToSet(Normalize(record, schema).issues) : x.code \in Warnings
  BY DEF RecordErrors, ToSet
<1> QED BY <1>5, <1>6 DEF ToSet

\* Records with the same values build the same.
LEMMA BuildFromValues ==
  ASSUME NEW builders, NEW a, NEW b, a.values = b.values
  PROVE  Build(builders, a) = Build(builders, b)
<1>1. \A name : Get(a, name) = Get(b, name) /\ Text(a, name) = Text(b, name)
  BY DEF Get, Text
<1>2. \A type, field : EntityKey(type, a, field) = EntityKey(type, b, field)
  BY <1>1 DEF EntityKey
<1>3. \A builder : BuildEntity(builder, a) = BuildEntity(builder, b)
  BY <1>1, <1>2 DEF BuildEntity
<1>4. \A builder : BuildAttributes(builder, a) = BuildAttributes(builder, b)
  <2> TAKE builder
  <2> DEFINE entry(c, i) ==
               IF Get(c, builder.attributes[i]) = Null THEN <<>>
                 ELSE << [ kind |-> "attribute", term |-> builder.attributes[i],
                           key |-> EntityKey(builder.type, c, builder.key)
                                     \o << builder.attributes[i] >>
                                     \o PeriodSuffix(Get(c, builder.from)),
                           value |-> Get(c, builder.attributes[i]) ] >>
             list(c) == FlattenSeq([ i \in DOMAIN builder.attributes |-> entry(c, i) ])
  <2>1. \A c : BuildAttributes(builder, c) =
          IF \/ Text(c, builder.key) = Null
             \/ RefusedPeriod(Get(c, builder.from), Get(c, builder.to))
            THEN Null ELSE list(c)
    BY DEF BuildAttributes
  <2>2. \A i : entry(a, i) = entry(b, i)
    <3> TAKE i
    <3>1. /\ Get(a, builder.attributes[i]) = Get(b, builder.attributes[i])
          /\ Get(a, builder.from) = Get(b, builder.from)
          /\ EntityKey(builder.type, a, builder.key) = EntityKey(builder.type, b, builder.key)
      BY <1>1, <1>2
    <3> QED BY <3>1
  <2>3. list(a) = list(b)
    <3> HIDE DEF entry
    <3> QED BY <2>2
  <2> HIDE DEF list
  <2> QED BY <1>1, <2>1, <2>3
<1>5. \A builder : BuildRelation(builder, a) = BuildRelation(builder, b)
  <2> TAKE builder
  <2>1. /\ Text(a, builder.key) = Text(b, builder.key)
        /\ Text(a, builder.object) = Text(b, builder.object)
        /\ Get(a, builder.from) = Get(b, builder.from)
        /\ Get(a, builder.to) = Get(b, builder.to)
        /\ EntityKey(builder.type, a, builder.key) = EntityKey(builder.type, b, builder.key)
        /\ EntityKey(builder.objectType, a, builder.object)
             = EntityKey(builder.objectType, b, builder.object)
    BY <1>1, <1>2
  <2> QED BY <2>1 DEF BuildRelation
<1>6. \A builder : BuildOne(builder, a) = BuildOne(builder, b)
  BY <1>3, <1>4, <1>5 DEF BuildOne
<1> QED BY <1>6 DEF Build

\* What is planned of a row depends on what was planned before it alone.
LEMMA PlannedOfRow ==
  ASSUME NEW config, NEW candidates, IsList(candidates), NEW r, NEW s,
         "planned" \in DOMAIN r, "planned" \in DOMAIN s, r.planned = s.planned
  PROVE  AdmitAll(config, r, candidates).planned = AdmitAll(config, s, candidates).planned
<1> DEFINE N == Len(candidates)
<1>1. PICK a : /\ a[0] = r /\ AdmitAll(config, r, candidates) = a[N]
               /\ \A n \in 1..N : a[n] = Admit(config, a[n - 1], candidates[n])
  BY AdmitAllFollows
<1>2. PICK b : /\ b[0] = s /\ AdmitAll(config, s, candidates) = b[N]
               /\ \A n \in 1..N : b[n] = Admit(config, b[n - 1], candidates[n])
  BY AdmitAllFollows
<1> DEFINE T == { n \in 0..N : /\ "planned" \in DOMAIN a[n] /\ "planned" \in DOMAIN b[n]
                               /\ a[n].planned = b[n].planned }
<1>3. N \in Nat
  BY DEF IsList
<1>4. 0 \in T
  BY <1>1, <1>2, <1>3
<1>5. ASSUME NEW n \in 1..N, n - 1 \in T
      PROVE  n \in T
  <2>1. \A report : "planned" \in DOMAIN report =>
          LET admitted == Admit(config, report, candidates[n]) IN
          /\ "planned" \in DOMAIN admitted
          /\ admitted.planned =
               IF candidates[n].key \notin Keys(report.planned)
                    /\ CandidateValid(config, candidates[n])
                 THEN Append(report.planned, candidates[n]) ELSE report.planned
    BY DEF Admit
  <2>2. /\ "planned" \in DOMAIN a[n - 1] /\ "planned" \in DOMAIN b[n - 1]
        /\ a[n - 1].planned = b[n - 1].planned
    BY <1>5
  <2>3. a[n] = Admit(config, a[n - 1], candidates[n]) /\ b[n] = Admit(config, b[n - 1], candidates[n])
    BY <1>1, <1>2
  <2>4. /\ "planned" \in DOMAIN a[n] /\ "planned" \in DOMAIN b[n]
        /\ a[n].planned = b[n].planned
    BY <2>1, <2>2, <2>3
  <2> QED BY <1>3, <2>4
<1>6. N \in T
  <2>1. \A n \in 0..N : n \in T
    <3> HIDE DEF T, N
    <3> QED BY <1>3, <1>4, <1>5, InductionUpTo
  <2> QED BY <1>3, <2>1
<1> QED BY <1>1, <1>2, <1>6

\* The report of a run over one record.
LEMMA ReportOfRecord ==
  ASSUME NEW config, BuildersType(config.builders), NEW source
  PROVE  LET report == Collect(config, <<source>>, FALSE)
             record == Normalize(source, config.schema)
         IN /\ ~Usable(config, source) => report.invalid = 1
            /\ Usable(config, source) =>
                 \E r : /\ "planned" \in DOMAIN r /\ r.planned = <<>>
                        /\ report.planned
                             = AdmitAll(config, r, Build(config.builders, record)).planned
<1> DEFINE record == Normalize(source, config.schema)
           taken == TakeRecord(config, EmptyReport, source)
<1>1. Sound(EmptyReport) /\ EmptyReport.read = 0 /\ EmptyReport.valid = 0 /\ EmptyReport.invalid = 0
  <2>1. IsList(<<>>) /\ Keys(<<>>) = {} /\ Len(<<>>) = 0
    BY DEF IsList, Keys, ToSet
  <2>2. /\ EmptyReport.planned = <<>> /\ EmptyReport.suppressed = <<>>
        /\ EmptyReport.rejected = <<>> /\ EmptyReport.built = 0
        /\ EmptyReport.read = 0 /\ EmptyReport.valid = 0 /\ EmptyReport.invalid = 0
    BY DEF EmptyReport
  <2> QED BY <2>1, <2>2, FS_EmptySet DEF Sound
<1>2. Collect(config, <<source>>, FALSE) = [taken EXCEPT !.incomplete = FALSE]
  <2>1. IsList(<<source>>) /\ Len(<<source>>) = 1 /\ <<source>>[1] = source
    BY DEF IsList, ToSet
  <2>2. PICK upTo : /\ upTo[0] = EmptyReport
                    /\ Collect(config, <<source>>, FALSE)
                         = [upTo[Len(<<source>>)] EXCEPT !.incomplete = FALSE]
                    /\ \A n \in 1..Len(<<source>>) :
                         upTo[n] = TakeRecord(config, upTo[n - 1], <<source>>[n])
    <3> DEFINE sources == <<source>>
               fails == FALSE
    <3>1. IsList(sources)
      BY <2>1
    <3> HIDE DEF sources, fails
    <3>2. \E upTo : /\ upTo[0] = EmptyReport
                    /\ Collect(config, sources, fails)
                         = [upTo[Len(sources)] EXCEPT !.incomplete = fails]
                    /\ \A n \in 1..Len(sources) :
                         upTo[n] = TakeRecord(config, upTo[n - 1], sources[n])
      BY <3>1, CollectFollows
    <3> QED BY <3>2 DEF sources, fails
  <2>3. upTo[1] = taken
    BY <2>1, <2>2
  <2> HIDE DEF taken
  <2> QED BY <2>1, <2>2, <2>3
<1>3. /\ Sound(taken)
      /\ ~Usable(config, source) => taken.invalid = 1
  <2> HIDE DEF taken
  <2>1. /\ Sound(taken)
        /\ ~Usable(config, source) => taken.invalid = EmptyReport.invalid + 1
    BY <1>1, TakeIsSound DEF taken
  <2> QED BY <1>1, <2>1
<1>4. /\ Collect(config, <<source>>, FALSE).planned = taken.planned
      /\ Collect(config, <<source>>, FALSE).invalid = taken.invalid
  <2>1. {"planned", "invalid"} \subseteq DOMAIN taken
    BY <1>3 DEF Sound, EmptyReport
  <2> HIDE DEF taken
  <2> QED BY <1>2, <2>1
<1>5. ASSUME Usable(config, source)
      PROVE  \E r : /\ "planned" \in DOMAIN r /\ r.planned = <<>>
                    /\ taken.planned = AdmitAll(config, r, Build(config.builders, record)).planned
  <2> DEFINE seen == [EmptyReport EXCEPT !.read = @ + 1,
                        !.warned = @ + Len(record.issues) - Cardinality(RecordErrors(record))]
             r == [seen EXCEPT !.valid = @ + 1]
  <2>1. "planned" \in DOMAIN r /\ r.planned = <<>>
    BY DEF EmptyReport
  <2>2. taken = AdmitAll(config, r, Build(config.builders, record))
    BY <1>5 DEF Usable, TakeRecord, TakeNormalized
  <2> HIDE DEF r, taken, record
  <2> QED BY <2>1, <2>2
<1> HIDE DEF taken, record
<1> QED BY <1>3, <1>4, <1>5 DEF record

\* CSV and JSON of a row give the same candidates, or one refuses it.
LEMMA FormatsAgree ==
  ASSUME NEW config \in FactConfigs, NEW row \in Facts, NEW surplus
  PROVE  SameInBothFormats([ json |-> Collect(config, << JsonRecord(1, row) >>, FALSE),
                             csv |-> Collect(config, << CsvRecord(1, AsText(row), surplus) >>, FALSE) ])
<1> DEFINE json == JsonRecord(1, row)
           csv == CsvRecord(1, AsText(row), surplus)
           schema == config.schema
           read(source) == Normalize(source, schema)
           report(source) == Collect(config, <<source>>, FALSE)
<1>1. BuildersType(config.builders)
  BY IngestAssumption DEF BuildersType, IsList
<1>2. /\ IsList(schema)
      /\ \A i \in DOMAIN schema :
           /\ schema[i].type \in {"str", "int", "float", "bool", "datetime"}
           /\ IsList(schema[i].sources)
  BY IngestAssumption DEF IsList
<1>3. json.cells = row /\ IsList(json.issues)
  BY FactsAssumption DEF JsonRecord, IsList, ToSet
<1>4. csv.cells = AsText(row) /\ IsList(csv.issues)
  <2>1. \A x, y : IsList(<<>> \o <<>>) /\ IsList(<<x>> \o <<>>) /\ IsList(<<>> \o <<y>>)
                    /\ IsList(<<x>> \o <<y>>)
    BY DEF IsList, ToSet
  <2> QED BY <2>1 DEF CsvRecord
<1> HIDE DEF json, csv
<1>5. CASE ~Usable(config, json) \/ ~Usable(config, csv)
  <2>1. 1 \in {report(csv).invalid, report(json).invalid}
    BY <1>1, <1>5, ReportOfRecord
  <2> QED BY <2>1 DEF SameInBothFormats, json, csv
<1>6. CASE Usable(config, json) /\ Usable(config, csv)
  <2>1. RecordErrors(read(json)) = {} /\ RecordErrors(read(csv)) = {}
    BY <1>6 DEF Usable, RecordValid
  <2>2. \A i \in DOMAIN schema :
          ReadField(json, schema[i]).value = ReadField(csv, schema[i]).value
    <3> TAKE i \in DOMAIN schema
    <3>1. \A n \in DOMAIN ReadField(json, schema[i]).issues :
            ReadField(json, schema[i]).issues[n].code \in Warnings
      BY <1>2, <1>3, <2>1, ErrorFreeFields
    <3>2. \A n \in DOMAIN ReadField(csv, schema[i]).issues :
            ReadField(csv, schema[i]).issues[n].code \in Warnings
      BY <1>2, <1>4, <2>1, ErrorFreeFields
    <3> HIDE DEF schema
    <3> QED BY <1>2, <1>3, <1>4, <3>1, <3>2, FieldsAgree
  <2>3. read(json).values = read(csv).values
    <3> DEFINE names == { schema[i].name : i \in DOMAIN schema }
               field(name) == schema[CHOOSE i \in DOMAIN schema : schema[i].name = name]
    <3>1. \A name \in names : \E i \in DOMAIN schema : field(name) = schema[i]
      <4> TAKE name \in names
      <4>1. \E i \in DOMAIN schema : schema[i].name = name
        OBVIOUS
      <4> HIDE DEF schema
      <4> QED BY <4>1
    <3>2. \A source : read(source).values
                        = [ name \in names |-> ReadField(source, field(name)).value ]
      BY DEF Normalize
    <3> HIDE DEF names, field, schema, read
    <3>3. \A name \in names : ReadField(json, field(name)).value = ReadField(csv, field(name)).value
      BY <2>2, <3>1
    <3> QED BY <3>2, <3>3
  <2>4. Build(config.builders, read(json)) = Build(config.builders, read(csv))
    <3> HIDE DEF read
    <3> QED BY <2>3, BuildFromValues
  <2>5. IsList(Build(config.builders, read(json)))
    BY <1>1, <1>6, BuildIsList DEF Usable
  <2>6. PICK r : /\ "planned" \in DOMAIN r /\ r.planned = <<>>
                 /\ report(json).planned
                      = AdmitAll(config, r, Build(config.builders, read(json))).planned
    BY <1>1, <1>6, ReportOfRecord
  <2>7. PICK s : /\ "planned" \in DOMAIN s /\ s.planned = <<>>
                 /\ report(csv).planned
                      = AdmitAll(config, s, Build(config.builders, read(csv))).planned
    BY <1>1, <1>6, ReportOfRecord
  <2>8. report(json).planned = report(csv).planned
    <3> HIDE DEF report, read
    <3> QED BY <2>4, <2>5, <2>6, <2>7, PlannedOfRow
  <2> QED BY <2>8 DEF SameInBothFormats, json, csv
<1> QED BY <1>5, <1>6

\* A row has one identity in either format, and between two reads of the
\* source it comes from, whatever the rows, schemas, builders and tables.
THEOREM IdentitiesStayStable == Spec => []IdentityIsStable
<1>1. Init => IdentityIsStable
  BY DEF Init, Nothing, IdentityIsStable
<1>2. IdentityIsStable /\ [Next]_call => IdentityIsStable'
  <2> SUFFICES ASSUME IdentityIsStable, [Next]_call
               PROVE  IdentityIsStable'
    OBVIOUS
  <2>1. CASE UNCHANGED call
    BY <2>1 DEF IdentityIsStable
  <2>2. CASE Next
    <3>1. call'.op = "read_both" => SameInBothFormats(call'.answer)
      <4> SUFFICES ASSUME call'.op = "read_both"
                   PROVE  SameInBothFormats(call'.answer)
        OBVIOUS
      <4>1. ReadBoth
        BY <2>2, WhoAnswers
      <4>2. PICK config \in FactConfigs, row \in Facts, surplus \in BOOLEAN :
              Call("read_both", [config |-> config, row |-> row],
                   [ json |-> Collect(config, << JsonRecord(1, row) >>, FALSE),
                     csv |-> Collect(config, << CsvRecord(1, AsText(row), surplus) >>, FALSE) ])
        BY <4>1 DEF ReadBoth
      <4>3. call'.answer
              = [ json |-> Collect(config, << JsonRecord(1, row) >>, FALSE),
                  csv |-> Collect(config, << CsvRecord(1, AsText(row), surplus) >>, FALSE) ]
        BY <4>2 DEF Call
      <4> QED BY <4>3, FormatsAgree
    <3>2. call'.op = "sync" => KeepsCoordinates(call'.given, call'.answer)
      <4> SUFFICES ASSUME call'.op = "sync"
                   PROVE  KeepsCoordinates(call'.given, call'.answer)
        OBVIOUS
      <4>1. Sync
        BY <2>2, WhoAnswers
      <4>2. PICK before \in Tables, after \in Tables :
              Call("sync", [before |-> before, after |-> after],
                   [before |-> ReadSnapshot(before), after |-> ReadSnapshot(after)])
        BY <4>1 DEF Sync
      <4>3. /\ call'.given = [before |-> before, after |-> after]
            /\ call'.answer = [before |-> ReadSnapshot(before), after |-> ReadSnapshot(after)]
        BY <4>2 DEF Call
      <4> QED BY <4>3, SyncKeepsCoordinates
    <3> QED BY <3>1, <3>2 DEF IdentityIsStable
  <2> QED BY <2>1, <2>2
<1> QED
  BY <1>1, <1>2, PTL DEF Spec
=============================================================================
