----------------------------- MODULE ListProofs -----------------------------
(***************************************************************************)
(* Facts about numbers and lists that the proofs of several components     *)
(* cite.  Induction is by the least counterexample.                        *)
(***************************************************************************)
EXTENDS ListOps, Functions, FiniteSetsExt, FiniteSetTheorems, NaturalsInduction,
        WellFoundedInduction, TLAPS

\* Each set of numbers has a least one, ...
THEOREM LeastOne ==
  ASSUME NEW S \in SUBSET Nat, S # {}
  PROVE  \E k \in S : \A j \in S : k <= j
<1> DEFINE R == {ss \in Nat \X Nat : ss[1] < ss[2]}
<1>1. IsWellFoundedOn(R, Nat)
  BY NatLessThanWellFounded DEF OpToRel
<1>2. \A j, k \in Nat : <<j, k>> \in R <=> j < k
  OBVIOUS
<1> HIDE DEF R
<1>3. PICK k \in S : \A j \in S : ~(<<j, k>> \in R)
  BY <1>1, WFMin
<1>4. \A j \in S : ~(j < k)
  BY <1>2, <1>3
<1>5. \A j \in S : k <= j
  BY <1>4
<1> QED BY <1>5

\* ... and a greatest one, if there is a bound.
THEOREM GreatestOne ==
  ASSUME NEW S \in SUBSET Nat, S # {}, NEW n \in Nat, \A j \in S : j <= n
  PROVE  \E k \in S : \A j \in S : j <= k
<1> DEFINE D == {n - j : j \in S}
<1>1. D \in SUBSET Nat /\ D # {}
  <2>1. \A j \in S : n - j \in Nat
    OBVIOUS
  <2> QED BY <2>1
<1>2. PICK d \in D : \A e \in D : d <= e
  BY <1>1, LeastOne
<1>3. PICK k \in S : d = n - k
  OBVIOUS
<1>4. ASSUME NEW j \in S PROVE j <= k
  <2>1. n - j \in D
    OBVIOUS
  <2> HIDE DEF D
  <2>2. n - k <= n - j
    BY <1>2, <1>3, <2>1
  <2> QED BY <2>2
<1> QED BY <1>4

THEOREM MinIsLeast ==
  ASSUME NEW S \in SUBSET Nat, S # {}
  PROVE  Min(S) \in S /\ \A j \in S : Min(S) <= j
BY LeastOne DEF Min

THEOREM MaxIsGreatest ==
  ASSUME NEW S \in SUBSET Nat, S # {}, NEW n \in Nat, \A j \in S : j <= n
  PROVE  Max(S) \in S /\ \A j \in S : j <= Max(S)
<1>1. \E k \in S : \A j \in S : k >= j
  BY GreatestOne
<1> QED BY <1>1 DEF Max

\* f has the value a at 0 and, at each n, what the step G makes of the value before.
Recursion(f, N, A, a, G) ==
  f \in [0..N -> A] /\ f[0] = a /\ \A n \in 1..N : f[n] = G[n][f[n - 1]]

\* A function on 0..N may be given by its value at 0 and, at each n, by a step G
\* from its value at n - 1.  Each recursive function of the models is one.
THEOREM RecursionExists ==
  ASSUME NEW N \in Nat, NEW A, NEW a \in A, NEW G \in [1..N -> [A -> A]]
  PROVE  \E f : Recursion(f, N, A, a, G)
<1> DEFINE AsFar(f, n) == /\ f \in [0..n -> A] /\ f[0] = a
                          /\ \A k \in 1..n : f[k] = G[k][f[k - 1]]
           Bad == {n \in 0..N : ~\E f : AsFar(f, n)}
<1>1. Bad = {}
  <2> SUFFICES ASSUME Bad # {} PROVE FALSE
    OBVIOUS
  <2>1. Bad \in SUBSET Nat
    OBVIOUS
  <2>2. PICK n \in Bad : \A m \in Bad : n <= m
    <3> HIDE DEF Bad
    <3> QED BY <2>1, LeastOne
  <2>3. CASE n = 0
    <3>1. AsFar([k \in 0..0 |-> a], 0)
      OBVIOUS
    <3> HIDE DEF AsFar
    <3> QED BY <2>3, <3>1
  <2>4. CASE n # 0
    <3>0. n \in Nat /\ n - 1 \in 0..N /\ n \in 1..N
      BY <2>2, <2>4
    <3>1. n \in Nat /\ n - 1 \in 0..N /\ n \in 1..N /\ n - 1 \notin Bad
      <4> HIDE DEF Bad
      <4> QED BY <2>2, <3>0
    <3>2. PICK f : AsFar(f, n - 1)
      <4> HIDE DEF AsFar
      <4> QED BY <3>1
    <3>3. f[n - 1] \in A
      BY <3>1, <3>2
    <3> DEFINE g == [k \in 0..n |-> IF k = n THEN G[n][f[n - 1]] ELSE f[k]]
    <3>4. G[n][f[n - 1]] \in A
      BY <3>1, <3>3
    <3>5. g \in [0..n -> A]
      BY <3>1, <3>2, <3>4
    <3>6. g[n] = G[n][f[n - 1]] /\ \A k \in 0..(n - 1) : g[k] = f[k]
      BY <3>1
    <3> HIDE DEF g
    <3>7. g[0] = a
      BY <3>1, <3>2, <3>6
    <3>8. ASSUME NEW k \in 1..n PROVE g[k] = G[k][g[k - 1]]
      <4>1. CASE k = n
        BY <3>1, <3>6, <4>1
      <4>2. CASE k # n
        <5>1. k \in 1..(n - 1) /\ k \in 0..(n - 1) /\ k - 1 \in 0..(n - 1)
          BY <3>1, <4>2
        <5>2. f[k] = G[k][f[k - 1]]
          BY <3>2, <5>1
        <5> QED BY <3>6, <5>1, <5>2
      <4> QED BY <4>1, <4>2
    <3>9. AsFar(g, n)
      BY <3>5, <3>7, <3>8
    <3> HIDE DEF AsFar
    <3> QED BY <3>9
  <2> QED BY <2>3, <2>4
<1>2. PICK f : AsFar(f, N)
  <2>1. N \in 0..N
    OBVIOUS
  <2> HIDE DEF AsFar
  <2> QED BY <1>1, <2>1
<1> QED BY <1>2 DEF Recursion

\* The elements of a concatenation.
THEOREM RangeOfConcat ==
  ASSUME NEW S, NEW s \in Seq(S), NEW t \in Seq(S)
  PROVE  s \o t \in Seq(S) /\ Range(s \o t) = Range(s) \cup Range(t)
<1> DEFINE r == s \o t
<1>1. /\ r \in Seq(S) /\ Len(r) = Len(s) + Len(t)
      /\ \A i \in 1..Len(s) : r[i] = s[i]
      /\ \A i \in 1..Len(t) : r[Len(s) + i] = t[i]
  OBVIOUS
<1>2. /\ DOMAIN r = 1..Len(r) /\ DOMAIN s = 1..Len(s) /\ DOMAIN t = 1..Len(t)
      /\ Len(s) \in Nat /\ Len(t) \in Nat
  BY <1>1
<1> HIDE DEF r
<1>3. ASSUME NEW i \in 1..Len(r) PROVE r[i] \in Range(s) \cup Range(t)
  <2>1. CASE i <= Len(s)
    BY <1>1, <1>2, <2>1 DEF Range
  <2>2. CASE i > Len(s)
    <3>1. i - Len(s) \in 1..Len(t) /\ i = Len(s) + (i - Len(s))
      BY <1>1, <1>2, <2>2
    <3>2. r[i] = t[i - Len(s)]
      BY <1>1, <3>1
    <3> QED BY <1>2, <3>1, <3>2 DEF Range
  <2> QED BY <1>2, <2>1, <2>2
<1>4. ASSUME NEW i \in 1..Len(s) PROVE s[i] \in Range(r)
  <2>1. i \in 1..Len(r)
    BY <1>1, <1>2
  <2> QED BY <1>1, <1>2, <2>1 DEF Range
<1>5. ASSUME NEW i \in 1..Len(t) PROVE t[i] \in Range(r)
  <2>1. Len(s) + i \in 1..Len(r)
    BY <1>1, <1>2
  <2> QED BY <1>1, <1>2, <2>1 DEF Range
<1>6. Range(r) \subseteq Range(s) \cup Range(t)
  BY <1>2, <1>3 DEF Range
<1>7. Range(s) \subseteq Range(r) /\ Range(t) \subseteq Range(r)
  BY <1>2, <1>4, <1>5 DEF Range
<1> QED BY <1>1, <1>6, <1>7 DEF r

\* Of more names than a list has elements, one is not in the list.
THEOREM OneIsFree ==
  ASSUME NEW T, NEW s \in Seq(T), NEW name,
         \A x, y \in 2..(Len(s) + 2) : name[x] = name[y] => x = y
  PROVE  \E k \in 2..(Len(s) + 2) : \A i \in DOMAIN s : s[i] # name[k]
<1> DEFINE S == 2..(Len(s) + 2)
           At(k) == CHOOSE i \in DOMAIN s : s[i] = name[k]
           f == [k \in S |-> At(k)]
<1> SUFFICES ASSUME \A k \in S : \E i \in DOMAIN s : s[i] = name[k]
             PROVE  FALSE
  OBVIOUS
<1>1. Len(s) \in Nat /\ DOMAIN s = 1..Len(s)
  OBVIOUS
<1>2. \A k \in S : At(k) \in 1..Len(s) /\ s[At(k)] = name[k]
  <2> HIDE DEF S
  <2> QED BY <1>1
<1>3. f \in [S -> 1..Len(s)] /\ \A k \in S : f[k] = At(k)
  <2> HIDE DEF S, At
  <2> QED BY <1>2
<1>4. IsFiniteSet(S) /\ Cardinality(S) = Len(s) + 1
  <2>1. /\ 2 \in Int /\ Len(s) + 2 \in Int /\ ~(2 > Len(s) + 2)
        /\ (Len(s) + 2) - 2 + 1 = Len(s) + 1
    BY <1>1
  <2>2. /\ IsFiniteSet(2..(Len(s) + 2))
        /\ Cardinality(2..(Len(s) + 2)) = (Len(s) + 2) - 2 + 1
    BY <2>1, FS_Interval
  <2> QED BY <2>1, <2>2
<1>5. IsFiniteSet(1..Len(s)) /\ Cardinality(1..Len(s)) = Len(s)
  <2>1. 1 \in Int /\ Len(s) \in Int
    BY <1>1
  <2>2. /\ IsFiniteSet(1..Len(s))
        /\ Cardinality(1..Len(s)) = IF 1 > Len(s) THEN 0 ELSE Len(s) - 1 + 1
    BY <2>1, FS_Interval
  <2> QED BY <1>1, <2>2
<1>6. Cardinality(1..Len(s)) < Cardinality(S)
  BY <1>1, <1>4, <1>5
<1> HIDE DEF f
<1>7. PICK x, y \in S : x # y /\ f[x] = f[y]
  <2> HIDE DEF S
  <2> QED BY <1>3, <1>4, <1>5, <1>6, FS_PigeonHole
<1>8. name[x] = name[y]
  BY <1>2, <1>3, <1>7
<1> QED BY <1>7, <1>8

-----------------------------------------------------------------------------
(* Only.                                                                   *)

\* The recursive function inside Only.
OnlyUpTo(s, T) ==
  LET upTo[n \in 0..Len(s)] ==
        IF n = 0 THEN <<>>
        ELSE IF s[n] \in T THEN Append(upTo[n - 1], s[n]) ELSE upTo[n - 1]
  IN upTo

LEMMA OnlyUpToExists ==
  ASSUME NEW S, NEW s \in Seq(S), NEW T
  PROVE  /\ OnlyUpTo(s, T)[0] = <<>>
         /\ \A k \in 1..Len(s) :
              OnlyUpTo(s, T)[k] = IF s[k] \in T THEN Append(OnlyUpTo(s, T)[k - 1], s[k])
                                  ELSE OnlyUpTo(s, T)[k - 1]
<1> DEFINE N == Len(s)
           step(n, r) == IF s[n] \in T THEN Append(r, s[n]) ELSE r
           G == [n \in 1..N |-> [r \in Seq(S) |-> step(n, r)]]
           unfold(f) == [n \in 0..N |-> IF n = 0 THEN <<>> ELSE step(n, f[n - 1])]
<1>1. N \in Nat /\ <<>> \in Seq(S)
  OBVIOUS
<1>2. \A n \in 1..N, r \in Seq(S) : step(n, r) \in Seq(S) /\ G[n][r] = step(n, r)
  <2>1. \A n \in 1..N : s[n] \in S
    OBVIOUS
  <2> QED BY <2>1
<1>3. G \in [1..N -> [Seq(S) -> Seq(S)]]
  BY <1>2
<1> HIDE DEF G, step, N
<1>4. PICK f \in [0..N -> Seq(S)] : f[0] = <<>> /\ \A n \in 1..N : f[n] = G[n][f[n - 1]]
  <2>1. PICK f : Recursion(f, N, Seq(S), <<>>, G)
    BY <1>1, <1>3, RecursionExists
  <2> QED BY <2>1 DEF Recursion
<1>5. \A n \in 1..N : f[n] = step(n, f[n - 1])
  <2> TAKE n \in 1..N
  <2>1. n - 1 \in 0..N
    BY <1>1
  <2> QED BY <1>2, <1>4, <2>1
<1>6. \A n \in 0..N : f[n] = IF n = 0 THEN <<>> ELSE step(n, f[n - 1])
  <2> TAKE n \in 0..N
  <2>1. n = 0 \/ n \in 1..N
    BY <1>1
  <2> QED BY <1>4, <1>5, <2>1
<1>7. f = unfold(f)
  BY <1>4, <1>6
<1>8. OnlyUpTo(s, T) = CHOOSE g : g = unfold(g)
  BY DEF OnlyUpTo, step, N
<1> DEFINE h == OnlyUpTo(s, T)
<1>9. h = unfold(h)
  <2> HIDE DEF unfold
  <2> QED BY <1>7, <1>8
<1> HIDE DEF h
<1>10. \A n \in 0..N : h[n] = IF n = 0 THEN <<>> ELSE step(n, h[n - 1])
  BY <1>9
<1>11. h[0] = <<>>
  BY <1>1, <1>10
<1>12. \A n \in 1..N : h[n] = step(n, h[n - 1])
  <2> TAKE n \in 1..N
  <2>1. n \in 0..N /\ n # 0
    BY <1>1
  <2> QED BY <1>10, <2>1
<1> QED BY <1>11, <1>12 DEF h, step, N

\* Only keeps the elements that are in T, each as often as it was there.
THEOREM OnlyProperties ==
  ASSUME NEW S, NEW s \in Seq(S), NEW T
  PROVE  /\ Only(s, T) \in Seq(S)
         /\ Len(Only(s, T)) <= Len(s)
         /\ \A x : (\E i \in DOMAIN Only(s, T) : Only(s, T)[i] = x)
                     <=> x \in T /\ \E i \in DOMAIN s : s[i] = x
         /\ (\A i, j \in DOMAIN s : s[i] = s[j] => i = j) =>
              \A i, j \in DOMAIN Only(s, T) : Only(s, T)[i] = Only(s, T)[j] => i = j
<1> DEFINE f == OnlyUpTo(s, T)
           Distinct(r) == \A i, j \in 1..Len(r) : r[i] = r[j] => i = j
           Good(r, n) == /\ r \in Seq(S) /\ Len(r) <= n
                         /\ \A x : (\E i \in 1..Len(r) : r[i] = x)
                                     <=> x \in T /\ \E i \in 1..n : s[i] = x
                         /\ Distinct(s) => Distinct(r)
<1>1. f[0] = <<>> /\ \A k \in 1..Len(s) : f[k] = IF s[k] \in T THEN Append(f[k - 1], s[k]) ELSE f[k - 1]
  BY OnlyUpToExists
<1>2. Only(s, T) = f[Len(s)]
  BY DEF Only, OnlyUpTo
<1> HIDE DEF f
<1>3. Good(f[0], 0)
  BY <1>1
<1>4. ASSUME NEW n \in 1..Len(s), Good(f[n - 1], n - 1)
      PROVE  Good(f[n], n)
  <2> DEFINE r == f[n - 1]
  <2>1. /\ r \in Seq(S) /\ Len(r) <= n - 1
        /\ \A x : (\E i \in 1..Len(r) : r[i] = x) <=> x \in T /\ \E i \in 1..(n - 1) : s[i] = x
        /\ Distinct(s) => Distinct(r)
    BY <1>4
  <2>2. f[n] = IF s[n] \in T THEN Append(r, s[n]) ELSE r
    BY <1>1
  <2> HIDE DEF r
  <2>3. CASE s[n] \notin T
    <3>1. \A x : x \in T => ((\E i \in 1..n : s[i] = x) <=> (\E i \in 1..(n - 1) : s[i] = x))
      BY <2>3
    <3>2. Good(r, n)
      BY <2>1, <3>1
    <3> HIDE DEF Good
    <3> QED BY <2>2, <2>3, <3>2
  <2>4. CASE s[n] \in T
    <3> DEFINE q == Append(r, s[n])
    <3>1. /\ q \in Seq(S) /\ Len(q) = Len(r) + 1
          /\ \A i \in 1..Len(r) : q[i] = r[i]
          /\ q[Len(r) + 1] = s[n]
      BY <2>1
    <3> HIDE DEF q
    <3>2. ASSUME NEW i \in 1..Len(q) PROVE i = Len(q) \/ i \in 1..Len(r)
      BY <2>1, <3>1
    <3>3. \A x : (\E i \in 1..Len(q) : q[i] = x) <=> x \in T /\ \E i \in 1..n : s[i] = x
      <4> TAKE x
      <4>1. ASSUME NEW i \in 1..Len(q), q[i] = x
            PROVE  x \in T /\ \E k \in 1..n : s[k] = x
        <5>1. CASE i = Len(q)
          BY <2>4, <3>1, <4>1, <5>1
        <5>2. CASE i \in 1..Len(r)
          <6>1. r[i] = x
            BY <3>1, <4>1, <5>2
          <6>2. x \in T /\ \E k \in 1..(n - 1) : s[k] = x
            BY <2>1, <5>2, <6>1
          <6> QED BY <6>2
        <5> QED BY <3>2, <5>1, <5>2
      <4>2. ASSUME x \in T, NEW k \in 1..n, s[k] = x
            PROVE  \E i \in 1..Len(q) : q[i] = x
        <5>1. CASE k = n
          BY <2>1, <3>1, <4>2, <5>1
        <5>2. CASE k # n
          <6>1. PICK i \in 1..Len(r) : r[i] = x
            BY <2>1, <4>2, <5>2
          <6> QED BY <2>1, <3>1, <6>1
        <5> QED BY <5>1, <5>2
      <4> QED BY <4>1, <4>2
    <3>4. ASSUME Distinct(s), NEW i \in 1..Len(r) PROVE r[i] # s[n]
      <4>1. PICK k \in 1..(n - 1) : s[k] = r[i]
        BY <2>1
      <4>2. k \in 1..Len(s) /\ n \in 1..Len(s) /\ k # n
        BY <4>1
      <4> QED BY <3>4, <4>1, <4>2
    <3>5. Distinct(s) => Distinct(q)
      <4> SUFFICES ASSUME Distinct(s), NEW i \in 1..Len(q), NEW j \in 1..Len(q), q[i] = q[j]
                   PROVE  i = j
        OBVIOUS
      <4>1. CASE i \in 1..Len(r) /\ j \in 1..Len(r)
        <5>1. r[i] = r[j]
          BY <3>1, <4>1
        <5> QED BY <2>1, <4>1, <5>1
      <4>2. CASE i = Len(q) /\ j \in 1..Len(r)
        BY <3>1, <3>4, <4>2
      <4>3. CASE j = Len(q) /\ i \in 1..Len(r)
        BY <3>1, <3>4, <4>3
      <4> QED BY <3>2, <4>1, <4>2, <4>3
    <3>6. Good(q, n)
      BY <2>1, <3>1, <3>3, <3>5
    <3>7. f[n] = q
      BY <2>2, <2>4 DEF q
    <3> HIDE DEF Good
    <3> QED BY <3>6, <3>7
  <2> QED BY <2>3, <2>4
<1>5. Good(f[Len(s)], Len(s))
  <2> HIDE DEF Good
  <2> DEFINE Bad == {n \in 0..Len(s) : ~Good(f[n], n)}
  <2> SUFFICES ASSUME Bad # {} PROVE FALSE
    OBVIOUS
  <2>1. PICK n \in Bad : \A m \in Bad : n <= m
    <3>1. Bad \in SUBSET Nat
      OBVIOUS
    <3> HIDE DEF Bad
    <3> QED BY <3>1, LeastOne
  <2>2. n # 0
    BY <1>3
  <2>3. n \in 1..Len(s) /\ n - 1 \in 0..Len(s) /\ n - 1 \notin Bad
    BY <2>1, <2>2
  <2>4. Good(f[n - 1], n - 1)
    BY <2>3
  <2> QED BY <1>4, <2>3, <2>4
<1>6. DOMAIN s = 1..Len(s) /\ DOMAIN f[Len(s)] = 1..Len(f[Len(s)])
  BY <1>5
<1> QED BY <1>2, <1>5, <1>6

\* Of a list whose first n elements are in T and whose other ones are not, Only
\* keeps just these first ones, at their places.
THEOREM OnlyKeepsAPrefix ==
  ASSUME NEW S, NEW s \in Seq(S), NEW T, NEW n \in 0..Len(s),
         \A i \in 1..Len(s) : s[i] \in T <=> i <= n
  PROVE  Len(Only(s, T)) = n /\ \A i \in 1..n : Only(s, T)[i] = s[i]
<1> DEFINE f == OnlyUpTo(s, T)
           upTo(k) == IF k <= n THEN k ELSE n
           Good(k) == /\ f[k] \in Seq(S) /\ Len(f[k]) = upTo(k)
                      /\ \A i \in 1..upTo(k) : f[k][i] = s[i]
<1>1. f[0] = <<>> /\ \A k \in 1..Len(s) : f[k] = IF s[k] \in T THEN Append(f[k - 1], s[k]) ELSE f[k - 1]
  BY OnlyUpToExists
<1>2. Only(s, T) = f[Len(s)]
  BY DEF Only, OnlyUpTo
<1>3. n \in Nat /\ Len(s) \in Nat /\ n <= Len(s)
  OBVIOUS
<1> HIDE DEF f
<1>4. Good(0)
  BY <1>1, <1>3
<1>5. ASSUME NEW k \in 1..Len(s), Good(k - 1) PROVE Good(k)
  <2> DEFINE r == f[k - 1]
  <2>1. CASE k <= n
    <3>1. f[k] = Append(r, s[k]) /\ upTo(k) = k /\ upTo(k - 1) = k - 1
      <4>1. s[k] \in T /\ k - 1 <= n
        BY <1>3, <2>1
      <4>2. f[k] = Append(r, s[k])
        BY <1>1, <4>1
      <4> QED BY <2>1, <4>1, <4>2
    <3>2. r \in Seq(S) /\ Len(r) = k - 1 /\ (\A i \in 1..(k - 1) : r[i] = s[i]) /\ s[k] \in S
      BY <1>5, <3>1
    <3> HIDE DEF r
    <3>3. /\ Append(r, s[k]) \in Seq(S) /\ Len(Append(r, s[k])) = k
          /\ \A i \in 1..(k - 1) : Append(r, s[k])[i] = r[i]
          /\ Append(r, s[k])[k] = s[k]
      BY <3>2
    <3>4. \A i \in 1..k : Append(r, s[k])[i] = s[i]
      BY <3>2, <3>3
    <3> QED BY <3>1, <3>3, <3>4
  <2>2. CASE ~(k <= n)
    <3>1. f[k] = r /\ upTo(k) = n /\ upTo(k - 1) = n
      BY <1>1, <1>3, <2>2
    <3> QED BY <1>5, <3>1
  <2> QED BY <2>1, <2>2
<1>6. Good(Len(s))
  <2> HIDE DEF Good
  <2> DEFINE Bad == {k \in 0..Len(s) : ~Good(k)}
  <2> SUFFICES ASSUME Bad # {} PROVE FALSE
    BY <1>3
  <2>1. PICK k \in Bad : \A m \in Bad : k <= m
    <3>1. Bad \in SUBSET Nat
      OBVIOUS
    <3> HIDE DEF Bad
    <3> QED BY <3>1, LeastOne
  <2>2. k # 0
    BY <1>4
  <2>3. k \in 1..Len(s) /\ k - 1 \in 0..Len(s) /\ k - 1 \notin Bad
    BY <2>1, <2>2
  <2>4. Good(k - 1)
    BY <2>3
  <2> QED BY <1>5, <2>3, <2>4
<1>7. upTo(Len(s)) = n
  BY <1>3
<1> QED BY <1>2, <1>6, <1>7
=============================================================================
