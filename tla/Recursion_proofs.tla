-------------------------- MODULE Recursion_proofs --------------------------
(***************************************************************************)
(* Induction over the naturals, and functions defined by recursion, in     *)
(* terms of sets and functions: the theorems of NaturalsInduction take an  *)
(* operator as a parameter, these have none and can be cited.  With them,  *)
(* what is proved of sequences and of ranks in an order.                   *)
(***************************************************************************)
EXTENDS Ordered, SequencesExt, FiniteSetTheorems, WellFoundedInduction, TLAPS

\* A non-empty set of naturals has a least element: the sets 0..n are finite,
\* and inclusion is well-founded on finite sets.
LEMMA LeastNatural ==
  ASSUME NEW S \in SUBSET Nat, S # {}
  PROVE  \E x \in S : \A y \in S : x <= y
<1> DEFINE R == StrictSubsetOrdering(Nat)
           F == FiniteSubsetsOf(Nat)
           T == {0 .. n : n \in S}
<1>1. IsWellFoundedOn(R, F)
  BY FS_StrictSubsetOrderingWellFounded
<1>2. T \subseteq F /\ T # {}
  <2>1. \A n \in S : n \in Int /\ IsFiniteSet(0 .. n)
    BY FS_Interval
  <2>2. \A n \in S : 0 .. n \in SUBSET Nat
    OBVIOUS
  <2> QED
    BY <2>1, <2>2, Zenon DEF FiniteSubsetsOf
<1>3. ASSUME NEW x \in S, NEW y \in S, y < x
      PROVE  <<0 .. y, 0 .. x>> \in R
  <2>1. 0 .. y \subseteq 0 .. x /\ x \in 0 .. x /\ x \notin 0 .. y
    BY <1>3
  <2>2. 0 .. y \in SUBSET Nat /\ 0 .. x \in SUBSET Nat
    OBVIOUS
  <2> QED
    BY <2>1, <2>2 DEF StrictSubsetOrdering
<1> HIDE DEF R, F
<1>4. PICK I \in T : \A J \in T : ~ (<<J, I>> \in R)
  BY <1>1, <1>2, WFMin
<1>5. PICK x \in S : I = 0 .. x
  BY <1>4
<1>6. \A y \in S : ~ (y < x)
  BY <1>3, <1>4, <1>5
<1> QED
  BY <1>5, <1>6

\* Induction: a set of naturals that has 0, and with a number the next one, has
\* all.
LEMMA Induction ==
  ASSUME NEW S \in SUBSET Nat, 0 \in S, \A n \in S : n + 1 \in S
  PROVE  S = Nat
<1> SUFFICES ASSUME Nat \ S # {} PROVE FALSE
  OBVIOUS
<1>1. PICK x \in Nat \ S : \A y \in Nat \ S : x <= y
  BY LeastNatural
<1>2. x # 0 /\ x - 1 \in Nat
  BY <1>1
<1>3. x - 1 \in S
  BY <1>1, <1>2
<1> QED
  BY <1>1, <1>3

\* Of finitely many things that are numbered one has the greatest number: the
\* things with greater numbers than an other's get fewer.
LEMMA GreatestExists ==
  ASSUME NEW S, IsFiniteSet(S), S # {}, NEW number \in [S -> Nat]
  PROVE  \E x \in S : \A y \in S : number[y] <= number[x]
<1> DEFINE Above(x) == {y \in S : number[y] > number[x]}
           R == StrictSubsetOrdering(S)
           F == FiniteSubsetsOf(S)
           T == {Above(x) : x \in S}
<1>1. IsWellFoundedOn(R, F)
  BY FS_StrictSubsetOrderingWellFounded
<1>2. T \subseteq F /\ T # {}
  <2>1. \A x \in S : Above(x) \in SUBSET S
    OBVIOUS
  <2>2. \A x \in S : IsFiniteSet(Above(x))
    BY <2>1, FS_Subset
  <2> HIDE DEF Above
  <2> QED
    BY <2>1, <2>2, Zenon DEF FiniteSubsetsOf
<1>3. ASSUME NEW x \in S, NEW y \in Above(x)
      PROVE  <<Above(y), Above(x)>> \in R
  <2>1. Above(y) \subseteq Above(x) /\ y \notin Above(y)
    OBVIOUS
  <2>2. Above(y) \in SUBSET S /\ Above(x) \in SUBSET S
    OBVIOUS
  <2> QED
    BY <1>3, <2>1, <2>2 DEF StrictSubsetOrdering
<1> HIDE DEF R, F
<1>4. PICK I \in T : \A J \in T : ~ (<<J, I>> \in R)
  BY <1>1, <1>2, WFMin
<1>5. PICK x \in S : I = Above(x)
  BY <1>4
<1>6. ASSUME NEW y \in Above(x) PROVE FALSE
  <2>1. y \in S /\ Above(y) \in T
    OBVIOUS
  <2>2. <<Above(y), Above(x)>> \in R
    BY <1>3
  <2> HIDE DEF Above, T
  <2> QED
    BY <1>4, <1>5, <2>1, <2>2
<1>7. ASSUME NEW y \in S PROVE number[y] <= number[x]
  <2>1. ~(number[y] > number[x]) /\ number[x] \in Nat /\ number[y] \in Nat
    BY <1>6
  <2> QED
    BY <2>1
<1> QED
  BY <1>7

\* A finite set of numbers can be put in order: its greatest number comes last.
LEMMA InOrderLists ==
  ASSUME NEW S \in SUBSET Nat, IsFiniteSet(S)
  PROVE  Enumerates(InOrder(S), S)
<1> DEFINE Good(n) == \A X \in SUBSET Nat : IsFiniteSet(X) /\ Cardinality(X) = n =>
                        \E s : Enumerates(s, X)
           G == {n \in Nat : Good(n)}
<1>1. G = Nat
  <2>1. Good(0)
    <3>1. ASSUME NEW X \in SUBSET Nat, IsFiniteSet(X), Cardinality(X) = 0 PROVE Enumerates(<<>>, X)
      <4>1. X = {}
        BY <3>1, FS_EmptySet
      <4> QED
        BY <3>1, <4>1 DEF Enumerates
    <3> QED
      BY <3>1
  <2>2. ASSUME NEW n \in Nat, Good(n) PROVE Good(n + 1)
    <3>1. SUFFICES ASSUME NEW X \in SUBSET Nat, IsFiniteSet(X), Cardinality(X) = n + 1
                   PROVE  \E s : Enumerates(s, X)
      OBVIOUS
    <3> DEFINE number == [x \in X |-> x]
    <3>2. X # {}
      BY <3>1, FS_EmptySet
    <3>3. PICK m \in X : \A y \in X : y <= m
      <4>1. PICK m \in X : \A y \in X : number[y] <= number[m]
        BY <3>1, <3>2, GreatestExists
      <4> QED
        BY <4>1
    <3>4. IsFiniteSet(X \ {m}) /\ Cardinality(X \ {m}) = n
      <4>1. IsFiniteSet(X \ {m}) /\ Cardinality(X \ {m}) = Cardinality(X) - 1
        BY <3>1, FS_RemoveElement
      <4> QED
        BY <3>1, <4>1
    <3>5. PICK s : Enumerates(s, X \ {m})
      BY <2>2, <3>4
    <3> DEFINE t == [j \in 1..n+1 |-> IF j <= n THEN s[j] ELSE m]
    <3>6. s \in [1..n -> X \ {m}] /\ {s[j] : j \in 1..n} = X \ {m}
      BY <3>4, <3>5 DEF Enumerates
    <3>7. t \in [1..n+1 -> X] /\ {t[j] : j \in 1..n+1} = X
      <4>1. \A j \in 1..n : t[j] = s[j]
        OBVIOUS
      <4>2. t[n + 1] = m /\ n + 1 \in 1..n+1
        OBVIOUS
      <4>3. t \in [1..n+1 -> X]
        BY <3>3, <3>6
      <4>4. ASSUME NEW x \in X PROVE \E j \in 1..n+1 : t[j] = x
        <5>1. CASE x = m
          BY <4>2, <5>1
        <5>2. CASE x # m
          <6>1. PICK j \in 1..n : s[j] = x
            BY <3>6, <5>2
          <6>2. j \in 1..n+1 /\ t[j] = x
            BY <4>1, <6>1
          <6> QED
            BY <6>2
        <5> QED
          BY <5>1, <5>2
      <4> HIDE DEF t
      <4> QED
        BY <4>3, <4>4
    <3>8. \A j, k \in 1..n+1 : j < k => t[j] < t[k]
      <4>1. ASSUME NEW j \in 1..n+1, NEW k \in 1..n+1, j < k PROVE t[j] < t[k]
        <5>1. CASE k <= n
          <6>1. \A i, l \in 1..n : i < l => s[i] < s[l]
            BY <3>5, <3>6 DEF Enumerates
          <6>2. j \in 1..n /\ k \in 1..n /\ t[j] = s[j] /\ t[k] = s[k]
            BY <4>1, <5>1
          <6> QED
            BY <4>1, <6>1, <6>2
        <5>2. CASE k = n + 1
          <6>1. s[j] \in X \ {m} /\ t[j] = s[j] /\ t[k] = m
            BY <3>6, <4>1, <5>2
          <6>2. s[j] <= m /\ s[j] # m /\ s[j] \in Nat /\ m \in Nat
            BY <3>3, <6>1
          <6> HIDE DEF t
          <6> QED
            BY <6>1, <6>2
        <5> QED
          BY <5>1, <5>2
      <4> QED
        BY <4>1
    <3>9. Enumerates(t, X)
      <4> HIDE DEF t
      <4> QED
        BY <3>1, <3>7, <3>8 DEF Enumerates
    <3> QED
      BY <3>9
  <2> HIDE DEF Good
  <2>3. 0 \in G /\ \A n \in G : n + 1 \in G
    BY <2>1, <2>2
  <2> QED
    BY <2>3, Induction
<1>2. Cardinality(S) \in Nat
  BY FS_CardinalityType
<1>3. PICK s : Enumerates(s, S)
  BY <1>1, <1>2
<1>4. s \in [1..Cardinality(S) -> S]
  BY <1>3 DEF Enumerates
<1> QED
  BY <1>3, <1>4 DEF InOrder

\* The values of f are those a first one and a step to the next lead to.
Follows(f, base, step) ==
  f[0] = base /\ \A n \in Nat : f[n + 1] = step[<<n, f[n]>>]

\* Recursion: a first value and a step from each value to the next determine a
\* sequence of values.
LEMMA Recursion ==
  ASSUME NEW T, NEW base \in T, NEW step \in [Nat \X T -> T]
  PROVE  \E f \in [Nat -> T] : Follows(f, base, step)
<1> DEFINE Starts(n, f) == /\ f \in [0 .. n -> T] /\ f[0] = base
                           /\ \A k \in 0 .. n : k + 1 <= n => f[k + 1] = step[<<k, f[k]>>]
           Has == {n \in Nat : \E f : Starts(n, f)}
           Same == {n \in Nat : \A m \in Nat : \A f, g :
                      Starts(m, f) /\ Starts(m, g) /\ n <= m => f[n] = g[n]}
<1>1. Has = Nat
  <2>1. 0 \in Has
    <3>1. Starts(0, [k \in 0 .. 0 |-> base])
      OBVIOUS
    <3> QED
      BY <3>1
  <2>2. ASSUME NEW n \in Has PROVE n + 1 \in Has
    <3>1. PICK f : Starts(n, f)
      BY <2>2
    <3> DEFINE g == [k \in 0 .. n + 1 |-> IF k <= n THEN f[k] ELSE step[<<n, f[n]>>]]
    <3>2. Starts(n + 1, g)
      <4>1. f[n] \in T /\ <<n, f[n]>> \in Nat \X T
        BY <3>1
      <4>2. g \in [0 .. n + 1 -> T] /\ g[0] = base
        BY <3>1, <4>1
      <4>3. ASSUME NEW k \in 0 .. n + 1, k + 1 <= n + 1 PROVE g[k + 1] = step[<<k, g[k]>>]
        <5>1. CASE k + 1 <= n
          BY <3>1, <4>3, <5>1
        <5>2. CASE k = n
          BY <3>1, <4>3, <5>2
        <5> QED
          BY <4>3, <5>1, <5>2
      <4> QED
        BY <4>2, <4>3
    <3> HIDE DEF Starts, g
    <3> QED
      BY <3>2
  <2> HIDE DEF Has
  <2>3. Has \in SUBSET Nat
    BY DEF Has
  <2> QED
    BY <2>1, <2>2, <2>3, Induction
<1>2. Same = Nat
  <2>1. 0 \in Same
    OBVIOUS
  <2>2. ASSUME NEW n \in Same PROVE n + 1 \in Same
    <3>1. SUFFICES ASSUME NEW m \in Nat, NEW f, NEW g,
                          Starts(m, f), Starts(m, g), n + 1 <= m
                   PROVE  f[n + 1] = g[n + 1]
      BY <2>2
    <3>2. f[n] = g[n] /\ n \in 0 .. m
      BY <2>2, <3>1
    <3> QED
      BY <3>1, <3>2
  <2> HIDE DEF Same
  <2>3. Same \in SUBSET Nat
    BY DEF Same
  <2> QED
    BY <2>1, <2>2, <2>3, Induction
<1> DEFINE upTo == [n \in Nat |-> CHOOSE f : Starts(n, f)]
           all == [n \in Nat |-> upTo[n][n]]
<1>3. \A n \in Nat : Starts(n, upTo[n])
  <2>1. \A n \in Nat : \E f : Starts(n, f)
    BY <1>1
  <2> HIDE DEF Starts
  <2> QED
    BY <2>1
<1> HIDE DEF upTo
<1>4. all[0] = base
  BY <1>3
<1>5. all \in [Nat -> T]
  BY <1>3
<1>6. ASSUME NEW n \in Nat PROVE all[n + 1] = step[<<n, all[n]>>]
  <2> DEFINE g == [k \in 0 .. n |-> upTo[n + 1][k]]
  <2>1. Starts(n + 1, upTo[n + 1])
    BY <1>3
  <2>2. Starts(n, g)
    BY <2>1
  <2>3. Starts(n, upTo[n])
    BY <1>3
  <2>4. upTo[n][n] = g[n]
    <3> HIDE DEF Starts, g
    <3>1. n \in Same
      BY <1>2
    <3> QED
      BY <2>2, <2>3, <3>1
  <2>5. upTo[n + 1][n + 1] = step[<<n, upTo[n + 1][n]>>]
    BY <2>1
  <2> QED
    BY <2>4, <2>5
<1> QED
  BY <1>4, <1>5, <1>6 DEF Follows

\* The sums of a sequence of integers.
LEMMA Sums ==
  ASSUME NEW d \in [Nat -> Int]
  PROVE  \E f \in [Nat -> Int] : f[0] = 0 /\ \A n \in Nat : f[n + 1] = f[n] + d[n]
<1> DEFINE T == Int
           step == [p \in Nat \X T |-> p[2] + d[p[1]]]
<1>1. step \in [Nat \X T -> T] /\ 0 \in T
  OBVIOUS
<1>2. ASSUME NEW n \in Nat, NEW x \in T PROVE step[<<n, x>>] = x + d[n]
  <2>1. <<n, x>> \in Nat \X T
    OBVIOUS
  <2> QED
    BY <2>1
<1> HIDE DEF step, T
<1>3. PICK f \in [Nat -> T] : Follows(f, 0, step)
  BY <1>1, Recursion
<1>4. f \in [Nat -> Int] /\ f[0] = 0
  BY <1>3 DEF Follows, T
<1>5. \A n \in Nat : f[n + 1] = f[n] + d[n]
  BY <1>2, <1>3 DEF Follows
<1> QED
  BY <1>4, <1>5

-----------------------------------------------------------------------------
(* Sequences, and what is put in order by another relation.                *)

\* Sequences of the same elements are the same.
LEMMA SameElements ==
  ASSUME NEW T, NEW a \in Seq(T), NEW b \in Seq(T), Len(a) = Len(b),
         \A k \in 1..Len(a) : a[k] = b[k]
  PROVE  a = b
  OBVIOUS

\* All but the last element.
LEMMA FrontElements ==
  ASSUME NEW T, NEW s \in Seq(T), s # <<>>
  PROVE  /\ SubSeq(s, 1, Len(s) - 1) \in Seq(T)
         /\ Len(SubSeq(s, 1, Len(s) - 1)) = Len(s) - 1
         /\ \A n \in 1..Len(s)-1 : SubSeq(s, 1, Len(s) - 1)[n] = s[n]
<1>1. Len(s) \in Nat /\ Len(s) >= 1 /\ \A n \in 1..Len(s) : s[n] \in T
  OBVIOUS
<1>2. PICK k \in Nat : k = Len(s) - 1
  BY <1>1
<1>3. SubSeq(s, 1, k) \in Seq(T) /\ Len(SubSeq(s, 1, k)) = k
      /\ \A n \in 1..k : SubSeq(s, 1, k)[n] = s[n]
  BY <1>1, <1>2
<1> QED
  BY <1>2, <1>3

\* Each thing has its own rank among finitely many that are in order.
LEMMA RanksAreNumbers ==
  ASSUME NEW S, IsFiniteSet(S), NEW R,
         \A l \in S : <<l, l>> \notin R,
         \A l, m, n \in S : <<l, m>> \in R /\ <<m, n>> \in R => <<l, n>> \in R,
         \A l, m \in S : l = m \/ <<l, m>> \in R \/ <<m, l>> \in R,
         NEW rank, rank = [l \in S |-> Cardinality({m \in S : <<m, l>> \in R})]
  PROVE  /\ Cardinality(S) \in Nat
         /\ \A l \in S : rank[l] \in 0..Cardinality(S)-1
         /\ \A k \in 0..Cardinality(S)-1 : \E l \in S : rank[l] = k
         /\ \A l, m \in S : <<l, m>> \in R <=> rank[l] < rank[m]
<1> DEFINE Lower(l) == {m \in S : <<m, l>> \in R}
           N == Cardinality(S)
<1>1. N \in Nat
  BY FS_CardinalityType
<1>2. \A l \in S : IsFiniteSet(Lower(l)) /\ Cardinality(Lower(l)) \in Nat
  BY FS_Subset, FS_CardinalityType
<1>3. ASSUME NEW l \in S, NEW m \in S, <<l, m>> \in R
      PROVE  Cardinality(Lower(l)) < Cardinality(Lower(m))
  <2>1. Lower(l) \in SUBSET Lower(m) /\ l \in Lower(m) /\ l \notin Lower(l)
    BY <1>3
  <2>2. Lower(l) # Lower(m)
    BY <2>1
  <2> HIDE DEF Lower
  <2>3. /\ Cardinality(Lower(l)) <= Cardinality(Lower(m))
        /\ Cardinality(Lower(m)) = Cardinality(Lower(l)) => Lower(m) = Lower(l)
    BY <1>2, <2>1, FS_Subset
  <2> QED
    BY <1>2, <2>2, <2>3
<1>4. \A l \in S : Cardinality(Lower(l)) < N
  <2> TAKE l \in S
  <2>1. Lower(l) \in SUBSET S /\ l \notin Lower(l)
    OBVIOUS
  <2> HIDE DEF Lower
  <2>2. /\ Cardinality(Lower(l)) <= N
        /\ N = Cardinality(Lower(l)) => S = Lower(l)
    BY <2>1, FS_Subset
  <2> QED
    BY <1>1, <1>2, <2>1, <2>2
<1>5. \A l \in S : rank[l] = Cardinality(Lower(l))
  OBVIOUS
<1> HIDE DEF Lower
<1>6. \A l, m \in S : <<l, m>> \in R => rank[l] < rank[m]
  BY <1>3, <1>5
<1>7. \A l, m \in S : <<l, m>> \in R <=> rank[l] < rank[m]
  <2> SUFFICES ASSUME NEW l \in S, NEW m \in S, rank[l] < rank[m] PROVE <<l, m>> \in R
    BY <1>6
  <2>1. rank[l] \in Nat /\ rank[m] \in Nat
    BY <1>2, <1>5
  <2>2. ~(rank[l] < rank[l]) /\ ~(rank[m] < rank[l])
    BY <2>1
  <2>3. l # m /\ <<m, l>> \notin R
    BY <1>6, <2>2
  <2> QED
    BY <2>3
<1>8. \A l \in S : rank[l] \in 0..N-1
  BY <1>1, <1>2, <1>4, <1>5
<1>9. rank \in Injection(S, 0..N-1)
  <2>1. rank \in [S -> 0..N-1]
    BY <1>8
  <2>2. \A l, m \in S : rank[l] = rank[m] => l = m
    <3> TAKE l, m \in S
    <3>1. rank[l] \in Nat /\ rank[m] \in Nat
      BY <1>2, <1>5
    <3>2. rank[l] = rank[m] => ~(rank[l] < rank[m]) /\ ~(rank[m] < rank[l])
      BY <3>1
    <3> QED
      BY <1>6, <3>2
  <2> QED
    BY <2>1, <2>2 DEF Injection, IsInjective
<1>10. IsFiniteSet(0..N-1) /\ Cardinality(0..N-1) = N
  <2>1. 0 \in Int /\ N - 1 \in Int
    BY <1>1
  <2>2. /\ IsFiniteSet(0..N-1)
        /\ Cardinality(0..N-1) = IF 0 > N - 1 THEN 0 ELSE N - 1 - 0 + 1
    BY <2>1, FS_Interval
  <2> QED
    BY <1>1, <2>2
<1>11. rank \in Surjection(S, 0..N-1)
  BY <1>9, <1>10, FS_Injection
<1>12. \A k \in 0..N-1 : \E l \in S : rank[l] = k
  BY <1>11 DEF Surjection
<1> QED
  BY <1>1, <1>7, <1>8, <1>12

-----------------------------------------------------------------------------
(* Sequences, one after the other and taken apart.                         *)

\* What is in a sequence stands somewhere in it.
LEMMA Indexed ==
  ASSUME NEW T, NEW s \in Seq(T)
  PROVE  /\ \A n \in 1..Len(s) : s[n] \in ToSet(s)
         /\ \A l \in ToSet(s) : \E n \in 1..Len(s) : s[n] = l
<1>1. DOMAIN s = 1..Len(s)
  OBVIOUS
<1> QED
  BY <1>1, Zenon DEF ToSet

\* A sequence of one element.
LEMMA OneElement ==
  ASSUME NEW l
  PROVE  /\ Len(<<l>>) = 1 /\ <<l>>[1] = l /\ ToSet(<<l>>) = {l}
         /\ \A T : l \in T => <<l>> \in Seq(T)
<1>1. DOMAIN <<l>> = {1} /\ Len(<<l>>) = 1 /\ <<l>>[1] = l
  OBVIOUS
<1>2. ToSet(<<l>>) = {l}
  BY <1>1 DEF ToSet
<1> QED
  BY <1>1, <1>2

\* The first element of a sequence, and the rest.
LEMMA FirstAndRest ==
  ASSUME NEW T, NEW s \in Seq(T), s # <<>>
  PROVE  /\ Len(s) \in Nat /\ Len(s) >= 1 /\ Head(s) = s[1] /\ s[1] \in T
         /\ Tail(s) \in Seq(T) /\ Len(Tail(s)) = Len(s) - 1
         /\ \A n \in 1..Len(Tail(s)) : n + 1 \in 1..Len(s) /\ Tail(s)[n] = s[n + 1]
         /\ \A n \in 2..Len(s) : n - 1 \in 1..Len(Tail(s)) /\ Tail(s)[n - 1] = s[n]
OBVIOUS

\* A sequence without its last element.
LEMMA FrontLists ==
  ASSUME NEW T, NEW s \in Seq(T), s # <<>>
  PROVE  /\ s[Len(s)] \in T
         /\ Front(s) \in Seq(T) /\ Len(Front(s)) = Len(s) - 1
         /\ \A n \in 1..Len(Front(s)) : n \in 1..Len(s) /\ Front(s)[n] = s[n]
<1> DEFINE N == Len(s) - 1
           f == SubSeq(s, 1, N)
<1>1. Len(s) \in Nat /\ Len(s) >= 1 /\ N \in Nat /\ DOMAIN s = 1..Len(s)
  OBVIOUS
<1>2. \A n \in 1..N : n \in 1..Len(s) /\ s[n] \in T
  BY <1>1
<1>3. f = [n \in 1..N |-> s[n]]
  OBVIOUS
<1>4. f \in [1..N -> T]
  BY <1>2, <1>3
<1>5. f \in Seq(T) /\ Len(f) = N
  BY <1>1, <1>3, <1>4
<1>6. \A n \in 1..Len(f) : n \in 1..Len(s) /\ f[n] = s[n]
  BY <1>2, <1>3, <1>5
<1>7. s[Len(s)] \in T
  BY <1>1
<1> QED
  BY <1>5, <1>6, <1>7 DEF Front

\* A sequence with one more element.
LEMMA AppendLists ==
  ASSUME NEW T, NEW s \in Seq(T), NEW l \in T
  PROVE  /\ Append(s, l) \in Seq(T) /\ Len(Append(s, l)) = Len(s) + 1
         /\ Append(s, l)[Len(s) + 1] = l
         /\ \A n \in 1..Len(s) : Append(s, l)[n] = s[n]
         /\ \A n \in 1..Len(s)+1 : n \in 1..Len(s) \/ n = Len(s) + 1
OBVIOUS

\* What is in two sequences, one after the other.
LEMMA JoinedElements ==
  ASSUME NEW T, NEW s \in Seq(T), NEW t \in Seq(T)
  PROVE  /\ s \o t \in Seq(T) /\ Len(s \o t) = Len(s) + Len(t)
         /\ \A n \in 1..Len(s) : (s \o t)[n] = s[n]
         /\ \A n \in 1..Len(t) : (s \o t)[Len(s) + n] = t[n]
         /\ \A n \in 1..Len(s)+Len(t) : n \in 1..Len(s) \/ n - Len(s) \in 1..Len(t)
         /\ ToSet(s \o t) = ToSet(s) \cup ToSet(t)
<1>1. /\ Len(s) \in Nat /\ Len(t) \in Nat /\ DOMAIN s = 1..Len(s) /\ DOMAIN t = 1..Len(t)
      /\ s \o t \in Seq(T) /\ Len(s \o t) = Len(s) + Len(t)
      /\ DOMAIN (s \o t) = 1..Len(s)+Len(t)
      /\ \A n \in 1..Len(s) : (s \o t)[n] = s[n]
  OBVIOUS
<1>2. \A n \in 1..Len(t) : (s \o t)[Len(s) + n] = t[n]
  BY <1>1
<1>3. \A n \in 1..Len(s)+Len(t) :
        n \in 1..Len(s) \/ (n - Len(s) \in 1..Len(t) /\ n = Len(s) + (n - Len(s)))
  BY <1>1
<1> DEFINE u == s \o t
<1>4. ToSet(u) \subseteq ToSet(s) \cup ToSet(t)
  <2> SUFFICES ASSUME NEW n \in 1..Len(s)+Len(t) PROVE u[n] \in ToSet(s) \cup ToSet(t)
    BY <1>1 DEF ToSet
  <2>1. CASE n \in 1..Len(s)
    BY <1>1, <2>1 DEF ToSet
  <2>2. CASE n - Len(s) \in 1..Len(t) /\ n = Len(s) + (n - Len(s))
    BY <1>1, <1>2, <2>2 DEF ToSet
  <2> QED
    BY <1>3, <2>1, <2>2
<1>5. \A n \in 1..Len(s) : s[n] \in ToSet(u)
  <2>1. \A n \in 1..Len(s) : n \in DOMAIN u /\ u[n] = s[n]
    BY <1>1
  <2> HIDE DEF u
  <2> QED
    BY <2>1 DEF ToSet
<1>6. \A n \in 1..Len(t) : t[n] \in ToSet(u)
  <2>1. \A n \in 1..Len(t) : Len(s) + n \in DOMAIN u /\ u[Len(s) + n] = t[n]
    BY <1>1, <1>2
  <2> HIDE DEF u
  <2> QED
    BY <2>1 DEF ToSet
<1> HIDE DEF u
<1>7. ToSet(s) \cup ToSet(t) \subseteq ToSet(u)
  BY <1>1, <1>5, <1>6 DEF ToSet
<1> QED
  BY <1>1, <1>2, <1>3, <1>4, <1>7 DEF u

\* Blocks of some kind: one after the other they make one of that kind.
AreBlocks(ss, W, T) ==
  /\ ss \in Seq(W) /\ W \subseteq Seq(T)
  /\ <<>> \in W /\ \A s, t \in W : s \o t \in W

\* FlattenSeq puts one block after the other.
LEMMA FlattenedSteps ==
  ASSUME NEW T, NEW W, NEW ss, AreBlocks(ss, W, T)
  PROVE  \E f \in [0..Len(ss) -> W] :
           /\ f[0] = <<>> /\ f[Len(ss)] = FlattenSeq(ss)
           /\ \A i \in 1..Len(ss) : f[i] = f[i - 1] \o ss[i]
<1>0. Len(ss) \in Nat /\ DOMAIN ss = 1..Len(ss) /\ \A n \in 1..Len(ss) : ss[n] \in W
  BY DEF AreBlocks
<1>1. CASE Len(ss) = 0
  <2>0. <<>> \in W /\ ss \in Seq(W)
    BY DEF AreBlocks
  <2>1. ss = <<>> /\ FlattenSeq(ss) = ss
    BY <1>1, <2>0 DEF FlattenSeq
  <2> DEFINE f == [i \in 0..0 |-> <<>>]
  <2>2. f \in [0..0 -> W] /\ f[0] = <<>> /\ 1..0 = {}
    BY <2>0
  <2> HIDE DEF f
  <2> QED
    BY <1>1, <2>1, <2>2
<1>2. CASE Len(ss) # 0
  <2>0. Len(ss) \in Nat /\ Len(ss) >= 1
    <3>1. Len(ss) \in Nat
      BY <1>0
    <3> QED
      BY <1>2, <3>1
  <2>1. PICK N \in Nat : N = Len(ss) /\ N >= 1
    BY <2>0
  <2> DEFINE Body(flat) == [i \in 1..N |-> IF i = 1 THEN ss[i] ELSE flat[i - 1] \o ss[i]]
             step == [p \in Nat \X W |-> IF p[1] + 2 <= N THEN p[2] \o ss[p[1] + 2] ELSE p[2]]
             h == CHOOSE flat : flat = Body(flat)
  <2>2. FlattenSeq(ss) = h[N]
    BY <1>2, <2>1 DEF FlattenSeq
  <2>3. PICK f \in [Nat -> W] : Follows(f, ss[1], step)
    <3>1. ss[1] \in W
      BY <1>0, <2>1
    <3>2. step \in [Nat \X W -> W]
      <4>1. ASSUME NEW p \in Nat \X W
            PROVE  (IF p[1] + 2 <= N THEN p[2] \o ss[p[1] + 2] ELSE p[2]) \in W
        <5>1. p[1] \in Nat /\ p[2] \in W
          OBVIOUS
        <5>2. p[1] + 2 <= N => ss[p[1] + 2] \in W
          BY <1>0, <2>1, <5>1
        <5>3. p[1] + 2 <= N => p[2] \o ss[p[1] + 2] \in W
          BY <5>1, <5>2 DEF AreBlocks
        <5> QED
          BY <5>1, <5>3
      <4> QED
        BY <4>1
    <3> HIDE DEF step
    <3> QED
      BY <3>1, <3>2, Recursion
  <2> DEFINE g == [i \in 1..N |-> f[i - 1]]
  <2>4. g = Body(g)
    <3>1. ASSUME NEW i \in 1..N PROVE g[i] = Body(g)[i]
      <4>1. CASE i = 1
        <5>1. g[i] = ss[1] /\ Body(g)[i] = ss[1]
          BY <2>1, <2>3, <4>1 DEF Follows
        <5> QED
          BY <5>1
      <4>2. CASE i # 1
        <5>1. i - 2 \in Nat /\ i - 2 + 1 = i - 1 /\ i - 2 + 2 = i /\ i - 1 \in 1..N /\ i - 1 - 1 = i - 2
          BY <2>1, <4>2
        <5>2. f[i - 1] = step[<<i - 2, f[i - 2]>>]
          BY <2>3, <5>1 DEF Follows
        <5>3. <<i - 2, f[i - 2]>> \in Nat \X W
          BY <2>3, <5>1
        <5>4. step[<<i - 2, f[i - 2]>>] = f[i - 2] \o ss[i]
          <6>1. step[<<i - 2, f[i - 2]>>] =
                  IF i - 2 + 2 <= N THEN f[i - 2] \o ss[i - 2 + 2] ELSE f[i - 2]
            BY <5>3
          <6> HIDE DEF step
          <6>2. i - 2 + 2 = i /\ i <= N
            BY <5>1
          <6> QED
            BY <6>1, <6>2
        <5>5. g[i] = f[i - 1] /\ g[i - 1] = f[i - 2]
          BY <5>1
        <5> HIDE DEF g, step
        <5>6. Body(g)[i] = g[i - 1] \o ss[i]
          BY <4>2
        <5> QED
          BY <5>2, <5>4, <5>5, <5>6
      <4> QED
        BY <4>1, <4>2
    <3> QED
      BY <3>1
  <2>5. h = Body(h)
    <3> HIDE DEF g, Body
    <3> QED
      BY <2>4
  <2> HIDE DEF h, step
  <2>6. h[1] = ss[1] /\ \A i \in 1..N : i + 1 <= N => h[i + 1] = h[i] \o ss[i + 1]
    <3>1. \A i \in 1..N : h[i] = Body(h)[i]
      BY <2>5
    <3>2. \A i \in 1..N : h[i] = IF i = 1 THEN ss[i] ELSE h[i - 1] \o ss[i]
      BY <3>1
    <3>3. ASSUME NEW i \in 1..N, i + 1 <= N PROVE h[i + 1] = h[i] \o ss[i + 1]
      <4>1. PICK k \in 1..N : k = i + 1 /\ k # 1 /\ k - 1 = i
        BY <2>1, <3>3
      <4>2. h[k] = h[k - 1] \o ss[k]
        BY <3>2, <4>1, Zenon
      <4> QED
        BY <4>1, <4>2, Zenon
    <3>4. h[1] = ss[1]
      <4>1. 1 \in 1..N
        BY <2>1
      <4> QED
        BY <3>2, <4>1, Zenon
    <3> QED
      BY <3>3, <3>4, Zenon
  <2> HIDE DEF Body
  <2>7. \A i \in 1..N : h[i] \in W /\ ss[i] \in W
    <3> DEFINE K == {i \in Nat : i + 1 <= N => h[i + 1] \in W}
    <3>1. 0 \in K
      BY <1>0, <2>1, <2>6
    <3>2. ASSUME NEW i \in K PROVE i + 1 \in K
      <4> SUFFICES ASSUME i + 1 + 1 <= N PROVE h[i + 1 + 1] \in W
        OBVIOUS
      <4>1. PICK j \in 1..N : j = i + 1 /\ j + 1 <= N /\ j + 1 \in 1..N
        BY <2>1
      <4>2. h[j] \in W
        BY <4>1
      <4>3. h[j + 1] = h[j] \o ss[j + 1] /\ ss[j + 1] \in W
        BY <1>0, <2>1, <2>6, <4>1
      <4>4. h[j + 1] \in W
        BY <4>2, <4>3 DEF AreBlocks
      <4> QED
        BY <4>1, <4>4, Zenon
    <3>3. K \in SUBSET Nat
      OBVIOUS
    <3> HIDE DEF K
    <3>4. K = Nat
      BY <3>1, <3>2, <3>3, Induction
    <3>5. ASSUME NEW i \in 1..N PROVE h[i] \in W
      <4>1. i - 1 \in K /\ i - 1 + 1 = i /\ i <= N
        BY <2>1, <3>4
      <4>2. i - 1 + 1 <= N => h[i - 1 + 1] \in W
        BY <4>1, Zenon DEF K
      <4> QED
        BY <4>1, <4>2
    <3> QED
      BY <1>0, <2>1, <3>5
  <2> DEFINE H == [i \in 0..N |-> IF i = 0 THEN <<>> ELSE h[i]]
  <2>8. <<>> \in W
    BY DEF AreBlocks
  <2>9. H \in [0..N -> W] /\ H[0] = <<>> /\ H[N] = h[N]
    BY <2>1, <2>7, <2>8
  <2>10. ASSUME NEW i \in 1..N PROVE H[i] = H[i - 1] \o ss[i]
    <3>1. CASE i = 1
      <4>1. H[i] = ss[1] /\ H[i - 1] = <<>>
        BY <2>1, <2>6, <3>1
      <4>2. ss[1] \in Seq(T)
        <5>1. ss[1] \in W
          BY <1>0, <2>1
        <5> QED
          BY <5>1 DEF AreBlocks
      <4> HIDE DEF H
      <4> QED
        BY <3>1, <4>1, <4>2
    <3>2. CASE i # 1
      <4>1. PICK k \in 1..N : k + 1 = i
        <5>1. i - 1 \in 1..N /\ i - 1 + 1 = i
          BY <3>2
        <5> QED
          BY <5>1
      <4>2. k + 1 <= N /\ i - 1 = k /\ i # 0 /\ k # 0 /\ i \in 0..N /\ k \in 0..N
        BY <4>1
      <4>3. H[i] = h[i] /\ H[i - 1] = h[k]
        BY <4>2
      <4> HIDE DEF H
      <4>4. h[k + 1] = h[k] \o ss[k + 1]
        BY <2>6, <4>2
      <4> QED
        BY <4>1, <4>3, <4>4, Zenon
    <3> QED
      BY <3>1, <3>2
  <2> HIDE DEF H
  <2> QED
    BY <2>1, <2>2, <2>9, <2>10
<1> QED
  BY <1>1, <1>2

\* The lines of several blocks are those of each, and what every block has and
\* two that follow each other keep, all have.
LEMMA Flattened ==
  ASSUME NEW T, NEW W, NEW ss, AreBlocks(ss, W, T)
  PROVE  /\ FlattenSeq(ss) \in W
         /\ ToSet(FlattenSeq(ss)) = UNION {ToSet(ss[n]) : n \in DOMAIN ss}
<1>0. DOMAIN ss = 1..Len(ss) /\ \A n \in 1..Len(ss) : ss[n] \in W
  BY DEF AreBlocks
<1>1. PICK N \in Nat : N = Len(ss)
  BY DEF AreBlocks
<1>2. PICK f \in [0..N -> W] :
         /\ f[0] = <<>> /\ f[N] = FlattenSeq(ss)
         /\ \A i \in 1..N : f[i] = f[i - 1] \o ss[i]
  <2>1. \E f \in [0..Len(ss) -> W] :
          /\ f[0] = <<>> /\ f[Len(ss)] = FlattenSeq(ss)
          /\ \A i \in 1..Len(ss) : f[i] = f[i - 1] \o ss[i]
    BY FlattenedSteps, Zenon
  <2> QED
    BY <1>1, <2>1, Zenon
<1> DEFINE Holds(i) == ToSet(f[i]) = UNION {ToSet(ss[n]) : n \in 1..i}
           K == {i \in Nat : i <= N => Holds(i)}
<1>3. 0 \in K
  <2>1. UNION {ToSet(ss[n]) : n \in 1..0} = {} /\ ToSet(<<>>) = {}
    BY DEF ToSet
  <2> QED
    BY <1>2, <2>1
<1>4. ASSUME NEW i \in K PROVE i + 1 \in K
  <2> SUFFICES ASSUME i + 1 <= N PROVE Holds(i + 1)
    OBVIOUS
  <2>1. i + 1 \in 1..N /\ i + 1 - 1 = i /\ i \in 0..N
    BY <1>1
  <2>2. Holds(i)
    BY <2>1
  <2>3. f[i + 1] = f[i] \o ss[i + 1]
    <3>1. PICK j \in 1..N : j = i + 1 /\ j - 1 = i
      BY <2>1
    <3>2. f[j] = f[j - 1] \o ss[j]
      BY <1>2, Zenon
    <3> QED
      BY <3>1, <3>2, Zenon
  <2>4. f[i] \in Seq(T) /\ ss[i + 1] \in Seq(T)
    BY <1>0, <1>1, <1>2, <2>1 DEF AreBlocks
  <2>5. ToSet(f[i + 1]) = ToSet(f[i]) \cup ToSet(ss[i + 1])
    BY <2>3, <2>4, JoinedElements
  <2>6. 1..i+1 = 1..i \cup {i + 1}
    BY <2>1
  <2>7. UNION {ToSet(ss[n]) : n \in 1..i+1} = (UNION {ToSet(ss[n]) : n \in 1..i}) \cup ToSet(ss[i + 1])
    BY <2>6
  <2> QED
    BY <2>2, <2>5, <2>7
<1> HIDE DEF Holds
<1>5. K = Nat
  <2>1. K \in SUBSET Nat
    OBVIOUS
  <2> HIDE DEF K
  <2> QED
    BY <1>3, <1>4, <2>1, Induction
<1>6. Holds(N) /\ N \in 0..N
  BY <1>1, <1>5
<1> QED
  BY <1>0, <1>1, <1>2, <1>6 DEF Holds

\* The k-th element of flat is the at[k]-th one of the from[k]-th block: each
\* element of a block is there, and they are in their order.
Unfolds(flat, ss, n, from, at) ==
  /\ \A k \in 1..Len(flat) :
       /\ from[k] \in 1..n /\ at[k] \in 1..Len(ss[from[k]])
       /\ flat[k] = ss[from[k]][at[k]]
  /\ \A k, l \in 1..Len(flat) :
       k < l => from[k] < from[l] \/ (from[k] = from[l] /\ at[k] < at[l])
  /\ \A i \in 1..n : \A j \in 1..Len(ss[i]) :
       \E k \in 1..Len(flat) : from[k] = i /\ at[k] = j

\* So it is with what FlattenSeq makes of blocks.
LEMMA FlattenedPlaces ==
  ASSUME NEW T, NEW ss \in Seq(Seq(T))
  PROVE  /\ FlattenSeq(ss) \in Seq(T)
         /\ \E from, at \in [1..Len(FlattenSeq(ss)) -> Nat] :
              Unfolds(FlattenSeq(ss), ss, Len(ss), from, at)
<1>0. DOMAIN ss = 1..Len(ss) /\ \A n \in 1..Len(ss) : ss[n] \in Seq(T)
  OBVIOUS
<1>1. PICK N \in Nat : N = Len(ss)
  OBVIOUS
<1> DEFINE W == Seq(T)
<1>2. AreBlocks(ss, W, T)
  <2>1. <<>> \in W /\ \A s, t \in W : s \o t \in W
    OBVIOUS
  <2> QED
    BY <2>1 DEF AreBlocks
<1>3. PICK f \in [0..N -> W] :
         /\ f[0] = <<>> /\ f[N] = FlattenSeq(ss)
         /\ \A i \in 1..N : f[i] = f[i - 1] \o ss[i]
  <2>1. \E f \in [0..Len(ss) -> W] :
          /\ f[0] = <<>> /\ f[Len(ss)] = FlattenSeq(ss)
          /\ \A i \in 1..Len(ss) : f[i] = f[i - 1] \o ss[i]
    BY <1>2, FlattenedSteps, Zenon
  <2> QED
    BY <1>1, <2>1, Zenon
<1> HIDE DEF W
<1> DEFINE Holds(i) == \E from, at \in [1..Len(f[i]) -> Nat] : Unfolds(f[i], ss, i, from, at)
           K == {i \in Nat : i <= N => Holds(i)}
<1>4. 0 \in K
  <2>1. Len(f[0]) = 0 /\ 1..0 = {}
    BY <1>3
  <2> DEFINE none == [k \in 1..Len(f[0]) |-> 0]
  <2>2. none \in [1..Len(f[0]) -> Nat]
    BY <2>1
  <2>3. Unfolds(f[0], ss, 0, none, none)
    BY <2>1 DEF Unfolds
  <2> HIDE DEF none
  <2> QED
    BY <2>2, <2>3
<1> HIDE DEF Holds
<1>5. ASSUME NEW i \in K PROVE i + 1 \in K
  <2> SUFFICES ASSUME i + 1 <= N PROVE Holds(i + 1)
    OBVIOUS
  <2>1. i \in Nat /\ i + 1 \in 1..N /\ i + 1 - 1 = i /\ i \in 0..N /\ i + 1 \in 0..N
    BY <1>1
  <2>2. PICK s \in Seq(T) : s = f[i]
    BY <1>3, <2>1 DEF W
  <2>3. PICK t \in Seq(T) : t = ss[i + 1]
    BY <1>0, <1>1, <2>1
  <2>4. PICK u : u = f[i + 1]
    OBVIOUS
  <2>5. u = s \o t
    <3>1. PICK j \in 1..N : j = i + 1 /\ j - 1 = i
      BY <2>1
    <3>2. f[j] = f[j - 1] \o ss[j]
      BY <1>3, Zenon
    <3> QED
      BY <2>2, <2>3, <2>4, <3>1, <3>2, Zenon
  <2>6. PICK m \in Nat : m = Len(s)
    OBVIOUS
  <2>7. PICK l \in Nat : l = Len(t)
    OBVIOUS
  <2>8. /\ Len(u) = m + l
        /\ \A k \in 1..m : u[k] = s[k]
        /\ \A k \in 1..l : u[m + k] = t[k]
        /\ \A k \in 1..m+l : k \in 1..m \/ k - m \in 1..l
    BY <2>5, <2>6, <2>7, JoinedElements
  <2>9. PICK from \in [1..m -> Nat], at \in [1..m -> Nat] : Unfolds(s, ss, i, from, at)
    <3>1. i <= N
      BY <2>1
    <3>2. Holds(i)
      BY <3>1
    <3> QED
      BY <2>2, <2>6, <3>2, Zenon DEF Holds
  <2> DEFINE from2 == [k \in 1..m+l |-> IF k \in 1..m THEN from[k] ELSE i + 1]
             at2 == [k \in 1..m+l |-> IF k \in 1..m THEN at[k] ELSE k - m]
  <2>10. from2 \in [1..m+l -> Nat] /\ at2 \in [1..m+l -> Nat]
    <3>1. \A k \in 1..m+l : k \notin 1..m => k - m \in Nat
      BY <2>1
    <3> QED
      BY <2>1, <3>1
  <2>11. \A k \in 1..m : k \in 1..m+l /\ from2[k] = from[k] /\ at2[k] = at[k]
    OBVIOUS
  <2>12. \A k \in 1..l : m + k \in 1..m+l /\ from2[m + k] = i + 1 /\ at2[m + k] = k
    OBVIOUS
  <2>13. \A k \in 1..m+l : k \in 1..m \/ \E j \in 1..l : k = m + j
    <3> TAKE k \in 1..m+l
    <3>1. CASE k \notin 1..m
      <4>1. k - m \in 1..l /\ k = m + (k - m)
        BY <3>1
      <4> QED
        BY <4>1
    <3> QED
      BY <3>1
  <2> HIDE DEF from2, at2
  <2>14. /\ \A k \in 1..m : /\ from[k] \in 1..i /\ at[k] \in 1..Len(ss[from[k]])
                            /\ s[k] = ss[from[k]][at[k]]
         /\ \A k, j \in 1..m : k < j => from[k] < from[j] \/ (from[k] = from[j] /\ at[k] < at[j])
         /\ \A n \in 1..i : \A j \in 1..Len(ss[n]) :
              \E k \in 1..m : from[k] = n /\ at[k] = j
    <3>1. Len(s) = m
      BY <2>6
    <3> QED
      BY <2>9, <3>1, ZenonT(40) DEF Unfolds
  <2>15. ASSUME NEW k \in 1..m+l
         PROVE  /\ from2[k] \in 1..i+1 /\ at2[k] \in 1..Len(ss[from2[k]])
                /\ u[k] = ss[from2[k]][at2[k]]
    <3>1. CASE k \in 1..m
      <4>1. 1..i \in SUBSET (1..i+1)
        BY <2>1
      <4> QED
        BY <2>8, <2>11, <2>14, <3>1, <4>1, Zenon
    <3>2. ASSUME NEW j \in 1..l, k = m + j
          PROVE  /\ from2[k] \in 1..i+1 /\ at2[k] \in 1..Len(ss[from2[k]])
                 /\ u[k] = ss[from2[k]][at2[k]]
      <4>1. i + 1 \in 1..i+1
        BY <2>1
      <4>2. from2[k] = i + 1 /\ at2[k] = j /\ u[k] = t[j]
        BY <2>8, <2>12, <3>2, Zenon
      <4> QED
        BY <2>3, <2>7, <4>1, <4>2, Zenon
    <3> QED
      BY <2>13, <3>1, <3>2, Zenon
  <2>16. ASSUME NEW k \in 1..m+l, NEW j \in 1..m+l, k < j
         PROVE  from2[k] < from2[j] \/ (from2[k] = from2[j] /\ at2[k] < at2[j])
    <3>1. CASE k \in 1..m /\ j \in 1..m
      BY <2>11, <2>14, <2>16, <3>1, Zenon
    <3>2. ASSUME k \in 1..m, NEW q \in 1..l, j = m + q
          PROVE  from2[k] < from2[j]
      <4>1. from2[k] = from[k] /\ from[k] \in 1..i /\ from2[j] = i + 1
        BY <2>11, <2>12, <2>14, <3>2, Zenon
      <4> QED
        BY <2>1, <4>1
    <3>3. ASSUME NEW p \in 1..l, NEW q \in 1..l, k = m + p, j = m + q
          PROVE  from2[k] = from2[j] /\ at2[k] < at2[j]
      <4>1. p < q
        BY <2>16, <3>3
      <4>2. from2[k] = i + 1 /\ from2[j] = i + 1 /\ at2[k] = p /\ at2[j] = q
        BY <2>12, <3>3, Zenon
      <4> QED
        BY <4>1, <4>2, Zenon
    <3>4. ASSUME NEW p \in 1..l, k = m + p, j \in 1..m PROVE FALSE
      BY <2>16, <3>4
    <3> QED
      BY <2>13, <3>1, <3>2, <3>3, <3>4, Zenon
  <2>17. ASSUME NEW n \in 1..i+1, NEW j \in 1..Len(ss[n])
         PROVE  \E k \in 1..m+l : from2[k] = n /\ at2[k] = j
    <3>1. CASE n \in 1..i
      <4>1. PICK k \in 1..m : from[k] = n /\ at[k] = j
        BY <2>14, <3>1
      <4> QED
        BY <2>11, <4>1, Zenon
    <3>2. CASE n = i + 1
      <4>1. j \in 1..l
        BY <2>3, <2>7, <3>2, Zenon
      <4> QED
        BY <2>12, <3>2, <4>1, Zenon
    <3>3. n \in 1..i \/ n = i + 1
      BY <2>1
    <3> QED
      BY <3>1, <3>2, <3>3
  <2>18. Unfolds(u, ss, i + 1, from2, at2)
    <3>1. PICK h : h = i + 1
      OBVIOUS
    <3>2. PICK len : len = m + l
      OBVIOUS
    <3>3. Len(u) = len
      BY <2>8, <3>2, Zenon
    <3>4. \A k \in 1..len : /\ from2[k] \in 1..h /\ at2[k] \in 1..Len(ss[from2[k]])
                            /\ u[k] = ss[from2[k]][at2[k]]
      BY <2>15, <3>1, <3>2, Zenon
    <3>5. \A k, j \in 1..len :
            k < j => from2[k] < from2[j] \/ (from2[k] = from2[j] /\ at2[k] < at2[j])
      BY <2>16, <3>2, Zenon
    <3>6. \A n \in 1..h : \A j \in 1..Len(ss[n]) : \E k \in 1..len : from2[k] = n /\ at2[k] = j
      BY <2>17, <3>1, <3>2, Zenon
    <3>7. Unfolds(u, ss, h, from2, at2)
      BY ONLY <3>3, <3>4, <3>5, <3>6, SMTT(60) DEF Unfolds
    <3> QED
      BY <3>1, <3>7, Zenon
  <2> QED
    BY <2>4, <2>8, <2>10, <2>18, Zenon DEF Holds
<1>6. K = Nat
  <2>1. K \in SUBSET Nat
    OBVIOUS
  <2> HIDE DEF K
  <2> QED
    BY <1>4, <1>5, <2>1, Induction
<1>7. Holds(N) /\ N \in 0..N
  BY <1>1, <1>6
<1>8. FlattenSeq(ss) \in Seq(T)
  BY <1>3, <1>7 DEF W
<1> QED
  BY <1>1, <1>3, <1>7, <1>8, Zenon DEF Holds

\* t has the elements of s at the places S, the j-th of them from the place at[j].
PickedBy(t, s, at, S) ==
  /\ \A j \in 1..Len(t) : t[j] = s[at[j]]
  /\ \A j, k \in 1..Len(t) : j < k => at[j] < at[k]
  /\ \A n \in S : \E j \in 1..Len(t) : at[j] = n

\* What Those picks of a list.
LEMMA ThoseLists ==
  ASSUME NEW T, NEW s \in Seq(T), NEW S \in SUBSET (1..Len(s))
  PROVE  /\ Those(s, S) \in Seq(T)
         /\ \E at \in [1..Len(Those(s, S)) -> S] : PickedBy(Those(s, S), s, at, S)
<1> DEFINE at == InOrder(S)
           n == Cardinality(S)
           t == [j \in DOMAIN at |-> s[at[j]]]
<1>1. Len(s) \in Nat /\ \A k \in 1..Len(s) : s[k] \in T
  OBVIOUS
<1>2. S \in SUBSET Nat /\ IsFiniteSet(S)
  <2>1. 1..Len(s) \in SUBSET Nat /\ IsFiniteSet(1..Len(s))
    BY <1>1, FS_Interval
  <2> QED
    BY <2>1, FS_Subset
<1>3. Enumerates(at, S) /\ n \in Nat
  BY <1>2, InOrderLists, FS_CardinalityType
<1> HIDE DEF at, n
<1>4. at \in [1..n -> S] /\ {at[j] : j \in 1..n} = S /\ DOMAIN at = 1..n
      /\ \A j, k \in 1..n : j < k => at[j] < at[k]
  BY <1>3 DEF Enumerates, n
<1>5. \A j \in 1..n : s[at[j]] \in T
  BY <1>1, <1>4
<1>6. t \in Seq(T) /\ Len(t) = n /\ \A j \in 1..n : t[j] = s[at[j]]
  <2>1. t = [j \in 1..n |-> s[at[j]]]
    BY <1>4
  <2> HIDE DEF t
  <2> QED
    BY <1>3, <1>5, <2>1
<1>7. Those(s, S) = t
  BY DEF Those, at
<1> HIDE DEF t
<1>8. \A l \in S : \E j \in 1..n : at[j] = l
  BY <1>4
<1>9. /\ Len(t) = n /\ at \in [1..n -> S]
      /\ \A j \in 1..n : t[j] = s[at[j]]
      /\ \A j, k \in 1..n : j < k => at[j] < at[k]
      /\ \A l \in S : \E j \in 1..n : at[j] = l
  BY <1>4, <1>6, <1>8, Zenon
<1>10. t \in Seq(T)
  BY <1>6
<1>11. PickedBy(t, s, at, S)
  BY <1>9, Zenon DEF PickedBy
<1> QED
  BY <1>7, <1>9, <1>10, <1>11, Zenon
=============================================================================
