---------------------------- MODULE SequenceProofs ----------------------------
(***************************************************************************)
(* What Selection keeps, of every sequence, and how Arranged orders a set.  *)
(* Recursion is followed by an induction over a set of numbers, which needs *)
(* no predicate as parameter.                                              *)
(***************************************************************************)
EXTENDS Selection, Arrangement, FiniteSetTheorems, WellFoundedInduction, TLAPS

\* A set of natural numbers that is not empty has a least element.
LEMMA LeastExists ==
  ASSUME NEW S \in SUBSET Nat, S # {}
  PROVE  \E x \in S : \A y \in S : x <= y
<1> DEFINE R == {p \in Nat \X Nat : p[1] < p[2]}
<1>1. IsWellFoundedOn(R, Nat)
  BY NatLessThanWellFounded DEF OpToRel
<1> HIDE DEF R
<1>2. PICK x \in S : \A y \in S : ~(<<y, x>> \in R)
  BY <1>1, WFMin
<1>3. ASSUME NEW y \in S PROVE x <= y
  <2>1. x \in Nat /\ y \in Nat /\ ~(<<y, x>> \in R)
    BY <1>2
  <2> QED
    BY <2>1 DEF R
<1> QED
  BY <1>2, <1>3

\* Induction, over sets instead of predicates.
LEMMA Induction ==
  ASSUME NEW S \in SUBSET Nat, 0 \in S, \A n \in S : n + 1 \in S
  PROVE  S = Nat
<1> SUFFICES ASSUME Nat \ S # {} PROVE FALSE
  OBVIOUS
<1>1. PICK x \in Nat \ S : \A y \in Nat \ S : x <= y
  BY LeastExists
<1>2. x # 0 /\ x - 1 \in Nat
  OBVIOUS
<1>3. x - 1 \in S
  BY <1>1, <1>2
<1> QED
  BY <1>2, <1>3

-----------------------------------------------------------------------------
\* What the n-th value of the recursion is made of, f being the ones before.
Step(s, places, f, n) ==
  IF n = 0 THEN <<>>
  ELSE IF n \in places THEN Append(f[n - 1], s[n]) ELSE f[n - 1]

Solves(f, s, places, m) == f = [n \in 0..m |-> Step(s, places, f, n)]

\* The recursion has a solution.
LEMMA SelectionExists ==
  ASSUME NEW s, NEW places, NEW m \in Nat
  PROVE  \E f : Solves(f, s, places, m)
<1> DEFINE S == {k \in Nat : \E f : Solves(f, s, places, k)}
<1>1. 0 \in S
  <2> DEFINE f == [n \in 0..0 |-> <<>>]
  <2>1. Solves(f, s, places, 0)
    BY DEF Step, Solves
  <2> QED
    BY <2>1
<1>2. ASSUME NEW k \in S PROVE k + 1 \in S
  <2>1. PICK f : Solves(f, s, places, k)
    OBVIOUS
  <2> DEFINE g == [n \in 0..(k + 1) |-> IF n = k + 1 THEN Step(s, places, f, n) ELSE f[n]]
  <2>2. k \in Nat /\ \A n \in 0..(k + 1) : n # k + 1 => n \in 0..k
    OBVIOUS
  <2>3. \A n \in 0..k : g[n] = f[n] /\ f[n] = Step(s, places, f, n)
    BY <2>1, SMTT(30) DEF Solves
  <2>4. g[k + 1] = Step(s, places, f, k + 1)
    BY <2>2
  <2> HIDE DEF g
  <2>5. ASSUME NEW n \in 0..(k + 1) PROVE g[n] = Step(s, places, g, n)
    <3>1. n = 0 \/ g[n - 1] = f[n - 1]
      BY <2>2, <2>3
    <3> QED
      BY <2>2, <2>3, <2>4, <3>1 DEF Step
  <2>6. Solves(g, s, places, k + 1)
    BY <2>5 DEF Solves, g
  <2> QED
    BY <2>2, <2>6
<1>3. S \in SUBSET Nat
  OBVIOUS
<1> HIDE DEF S
<1>4. S = Nat
  BY <1>1, <1>2, <1>3, Induction
<1> QED
  BY <1>4 DEF S

\* The recursion unfolds.
LEMMA SelectionUnfolds ==
  ASSUME NEW S, NEW s \in Seq(S), NEW places
  PROVE  \E f : /\ AtPlaces(s, places) = f[Len(s)]
                /\ \A n \in 0..Len(s) : f[n] = Step(s, places, f, n)
<1> DEFINE f == CHOOSE f : Solves(f, s, places, Len(s))
<1>1. Solves(f, s, places, Len(s))
  BY SelectionExists
<1>2. AtPlaces(s, places) = f[Len(s)]
  BY DEF AtPlaces, Step, Solves
<1> HIDE DEF f
<1> QED
  BY <1>1, <1>2 DEF Solves

\* r is made of the calls among the first n of s that are of these kinds, by
\* their places e.
Selects(e, r, s, n, kinds) ==
  /\ e \in [1..Len(r) -> 1..n]
  /\ \A i \in 1..Len(r) : r[i] = s[e[i]] /\ s[e[i]].kind \in kinds
  /\ \A i, j \in 1..Len(r) : i < j => e[i] < e[j]
  /\ \A k \in 1..n : s[k].kind \in kinds => \E i \in 1..Len(r) : e[i] = k

SelectsSome(r, s, n, kinds) == \E e : Selects(e, r, s, n, kinds)

\* A call that is not of these kinds changes nothing; another one is appended.
LEMMA SelectsNext ==
  ASSUME NEW S, NEW s \in Seq(S), NEW kinds, NEW n \in Nat, n + 1 <= Len(s),
         NEW r \in Seq(S), SelectsSome(r, s, n, kinds)
  PROVE  IF s[n + 1].kind \in kinds
           THEN SelectsSome(Append(r, s[n + 1]), s, n + 1, kinds)
           ELSE SelectsSome(r, s, n + 1, kinds)
<1>1. PICK e : Selects(e, r, s, n, kinds)
  BY DEF SelectsSome
<1>2. CASE s[n + 1].kind \notin kinds
  <2>1. e \in [1..Len(r) -> 1..(n + 1)]
    BY <1>1 DEF Selects
  <2>2. \A k \in 1..(n + 1) : k \in 1..n \/ k = n + 1
    OBVIOUS
  <2>3. Selects(e, r, s, n + 1, kinds)
    BY <1>1, <1>2, <2>1, <2>2 DEF Selects
  <2> QED
    BY <1>2, <2>3 DEF SelectsSome
<1>3. CASE s[n + 1].kind \in kinds
  <2> DEFINE c == s[n + 1]
             q == Append(r, c)
             m == Len(r)
             d == [i \in 1..(m + 1) |-> IF i = m + 1 THEN n + 1 ELSE e[i]]
  <2>1. /\ Len(q) = m + 1 /\ m \in Nat /\ q[m + 1] = c
        /\ \A i \in 1..m : q[i] = r[i]
    OBVIOUS
  <2>2. \A i \in 1..(m + 1) : i \in 1..m \/ i = m + 1
    BY <2>1
  <2>3. d[m + 1] = n + 1 /\ \A i \in 1..m : d[i] = e[i] /\ e[i] \in 1..n
    BY <1>1, <2>1 DEF Selects
  <2>4. DOMAIN d = 1..(m + 1) /\ d = [i \in 1..(m + 1) |-> d[i]]
    OBVIOUS
  <2> HIDE DEF q, d, m
  <2>5. \A i \in 1..(m + 1) : d[i] \in 1..(n + 1)
    BY <2>2, <2>3
  <2>6. d \in [1..Len(q) -> 1..(n + 1)]
    BY <2>1, <2>4, <2>5
  <2>7. \A i \in 1..Len(q) : q[i] = s[d[i]] /\ s[d[i]].kind \in kinds
    BY <1>1, <1>3, <2>1, <2>2, <2>3 DEF Selects, m
  <2>8. \A i, j \in 1..Len(q) : i < j => d[i] < d[j]
    <3> SUFFICES ASSUME NEW i \in 1..(m + 1), NEW j \in 1..(m + 1), i < j PROVE d[i] < d[j]
      BY <2>1
    <3>1. i \in 1..m
      BY <2>1
    <3> QED
      BY <1>1, <2>2, <2>3, <3>1, SMTT(30) DEF Selects, m
  <2>9. \A k \in 1..(n + 1) : s[k].kind \in kinds => \E i \in 1..Len(q) : d[i] = k
    <3> SUFFICES ASSUME NEW k \in 1..(n + 1), s[k].kind \in kinds
                 PROVE  \E i \in 1..(m + 1) : d[i] = k
      BY <2>1
    <3>1. CASE k = n + 1
      BY <2>1, <2>3, <3>1
    <3>2. CASE k \in 1..n
      <4>1. PICK i \in 1..m : e[i] = k
        BY <1>1, <3>2 DEF Selects, m
      <4>2. d[i] = k
        BY <2>3, <4>1
      <4>3. i \in 1..(m + 1)
        BY <2>1
      <4> QED
        BY <4>2, <4>3
    <3> QED
      BY <3>1, <3>2
  <2>10. Selects(d, q, s, n + 1, kinds)
    BY <2>6, <2>7, <2>8, <2>9 DEF Selects
  <2> QED
    BY <1>3, <2>10 DEF SelectsSome, q
<1> QED
  BY <1>2, <1>3

\* The calls of these kinds, all of them and no others, in their order.
LEMMA SelectionIsOrdered ==
  ASSUME NEW S, NEW s \in Seq(S), NEW kinds
  PROVE  /\ OfKind(s, kinds) \in Seq(S)
         /\ \E e : Selects(e, OfKind(s, kinds), s, Len(s), kinds)
<1> DEFINE places == {i \in 1..Len(s) : s[i].kind \in kinds}
<1>0. PICK f : /\ AtPlaces(s, places) = f[Len(s)]
               /\ \A n \in 0..Len(s) : f[n] = Step(s, places, f, n)
  BY SelectionUnfolds
<1>1. OfKind(s, kinds) = f[Len(s)]
  BY <1>0 DEF OfKind
<1> DEFINE G == {n \in Nat : n <= Len(s) => f[n] \in Seq(S) /\ SelectsSome(f[n], s, n, kinds)}
<1>2. 0 \in G
  <2>1. f[0] = <<>>
    BY <1>0 DEF Step
  <2>2. Selects(<<>>, <<>>, s, 0, kinds)
    BY DEF Selects
  <2>3. SelectsSome(f[0], s, 0, kinds)
    BY <2>1, <2>2 DEF SelectsSome
  <2>4. f[0] \in Seq(S)
    BY <2>1
  <2> QED
    BY <2>3, <2>4
<1>3. ASSUME NEW n \in G PROVE n + 1 \in G
  <2> SUFFICES ASSUME n + 1 <= Len(s)
               PROVE  f[n + 1] \in Seq(S) /\ SelectsSome(f[n + 1], s, n + 1, kinds)
    OBVIOUS
  <2>1. n \in Nat /\ f[n] \in Seq(S) /\ SelectsSome(f[n], s, n, kinds)
    OBVIOUS
  <2>2. f[n + 1] = IF s[n + 1].kind \in kinds THEN Append(f[n], s[n + 1]) ELSE f[n]
    BY <1>0, <2>1 DEF Step
  <2>3. s[n + 1] \in S
    BY <2>1
  <2> QED
    BY <2>1, <2>2, <2>3, SelectsNext
<1>4. G \in SUBSET Nat
  OBVIOUS
<1>5. Len(s) \in G => f[Len(s)] \in Seq(S) /\ SelectsSome(f[Len(s)], s, Len(s), kinds)
  OBVIOUS
<1> HIDE DEF G
<1>6. G = Nat
  BY <1>2, <1>3, <1>4, Induction
<1> QED
  BY <1>1, <1>5, <1>6 DEF SelectsSome

\* All places: the whole sequence.
LEMMA AllPlaces ==
  ASSUME NEW S, NEW s \in Seq(S), NEW places, 1..Len(s) \subseteq places
  PROVE  AtPlaces(s, places) = s
<1>1. PICK f : /\ AtPlaces(s, places) = f[Len(s)]
               /\ \A n \in 0..Len(s) : f[n] = Step(s, places, f, n)
  BY SelectionUnfolds
<1> DEFINE G == {n \in Nat : n <= Len(s) => f[n] = SubSeq(s, 1, n)}
<1>2. 0 \in G
  <2>1. f[0] = <<>> /\ SubSeq(s, 1, 0) = <<>>
    BY <1>1 DEF Step
  <2> QED
    BY <2>1
<1>3. ASSUME NEW n \in G PROVE n + 1 \in G
  <2> SUFFICES ASSUME n + 1 <= Len(s) PROVE f[n + 1] = SubSeq(s, 1, n + 1)
    OBVIOUS
  <2>1. n \in Nat /\ n + 1 \in 1..Len(s) /\ n + 1 \in 0..Len(s)
    OBVIOUS
  <2>2. f[n + 1] = Step(s, places, f, n + 1) /\ n + 1 \in places
    BY <1>1, <2>1
  <2>3. f[n + 1] = Append(f[n], s[n + 1])
    BY <2>1, <2>2 DEF Step
  <2>4. f[n] = SubSeq(s, 1, n)
    BY <2>1
  <2> QED
    BY <2>1, <2>3, <2>4
<1>4. G \in SUBSET Nat
  OBVIOUS
<1>5. Len(s) \in G => f[Len(s)] = SubSeq(s, 1, Len(s))
  OBVIOUS
<1> HIDE DEF G
<1>6. G = Nat
  BY <1>2, <1>3, <1>4, Induction
<1>7. SubSeq(s, 1, Len(s)) = s
  OBVIOUS
<1> QED
  BY <1>1, <1>5, <1>6, <1>7

-----------------------------------------------------------------------------
(* What Arranged gives.                                                    *)

\* A strict order of all of S.
Orders(before, S) ==
  /\ \A x \in S : x \notin before[x]
  /\ \A x, y \in S : x # y => x \in before[y] \/ y \in before[x]
  /\ \A x, y, z \in S : x \in before[y] /\ y \in before[z] => x \in before[z]

\* All elements, each once, in their order: how many are before it differs from
\* element to element, so that there is one for each number.
LEMMA ArrangedInOrder ==
  ASSUME NEW S, IsFiniteSet(S), NEW before, Orders(before, S)
  PROVE  LET s == Arranged(S, before)
         IN  /\ Len(s) = Cardinality(S) /\ s \in Seq(S)
             /\ \A i, j \in 1..Len(s) : i < j => s[i] \in before[s[j]]
             /\ \A i, j \in 1..Len(s) : s[i] = s[j] => i = j
             /\ \A x \in S : \E i \in 1..Len(s) : s[i] = x
<1> DEFINE s == Arranged(S, before)
           n == Cardinality(S)
           Ahead(x) == S \cap before[x]
           rank == [x \in S |-> Cardinality(Ahead(x))]
<1>1. n \in Nat /\ IsFiniteSet(0..(n - 1)) /\ Cardinality(0..(n - 1)) = n
  <2>1. n \in Nat
    BY FS_CardinalityType
  <2> HIDE DEF n
  <2>2. n - 1 \in Int /\ 0 \in Int /\ (0 > n - 1 => n = 0)
    BY <2>1
  <2>3. IsFiniteSet(0..(n - 1)) /\ Cardinality(0..(n - 1)) = IF 0 > n - 1 THEN 0 ELSE n - 1 - 0 + 1
    BY <2>2, FS_Interval
  <2> QED
    BY <2>1, <2>2, <2>3
<1>2. \A x \in S : IsFiniteSet(Ahead(x)) /\ rank[x] \in Nat
  <2> SUFFICES ASSUME NEW x \in S PROVE IsFiniteSet(Ahead(x)) /\ Cardinality(Ahead(x)) \in Nat
    OBVIOUS
  <2> QED
    BY FS_Subset, FS_CardinalityType
<1>3. ASSUME NEW x \in S PROVE rank[x] \in 0..(n - 1)
  <2>1. Ahead(x) \in SUBSET S /\ Ahead(x) # S
    BY DEF Orders
  <2>2. Cardinality(Ahead(x)) <= n /\ Cardinality(Ahead(x)) # n
    BY <2>1, FS_Subset
  <2> QED
    BY <1>1, <1>2, <2>2
<1>4. ASSUME NEW x \in S, NEW y \in S, x \in before[y] PROVE rank[x] < rank[y]
  <2>1. Ahead(x) \in SUBSET Ahead(y) /\ Ahead(x) # Ahead(y)
    BY <1>4 DEF Orders
  <2>2. Cardinality(Ahead(x)) <= Cardinality(Ahead(y)) /\ Cardinality(Ahead(x)) # Cardinality(Ahead(y))
    BY <1>2, <2>1, FS_Subset
  <2>3. rank[x] = Cardinality(Ahead(x)) /\ rank[y] = Cardinality(Ahead(y))
    OBVIOUS
  <2> HIDE DEF rank, Ahead
  <2> QED
    BY <1>2, <2>2, <2>3
<1> HIDE DEF rank
<1>5. \A x, y \in S : x \in before[y] => rank[x] < rank[y]
  BY <1>4
<1>6. \A x \in S : rank[x] \in Nat
  BY <1>2
<1>7. \A x, y \in S : rank[x] = rank[y] => x = y
  BY <1>5, <1>6 DEF Orders
<1>8. \A i \in 0..(n - 1) : \E x \in S : rank[x] = i
  <2>1. rank \in [S -> 0..(n - 1)]
    BY <1>3 DEF rank
  <2>2. rank \in Injection(S, 0..(n - 1))
    BY <1>7, <2>1 DEF Injection, IsInjective
  <2>3. rank \in Surjection(S, 0..(n - 1))
    BY <1>1, <2>2, FS_Injection
  <2> QED
    BY <2>3 DEF Surjection
<1>9. \A i \in 1..n : s[i] \in S /\ rank[s[i]] = i - 1
  <2>1. ASSUME NEW i \in 1..n PROVE s[i] \in S /\ rank[s[i]] = i - 1
    <3>1. i - 1 \in 0..(n - 1)
      BY <1>1
    <3>2. \E x \in S : Cardinality(S \cap before[x]) = i - 1
      BY <1>8, <3>1 DEF rank
    <3>3. s[i] = CHOOSE x \in S : Cardinality(S \cap before[x]) = i - 1
      BY DEF Arranged
    <3> QED
      BY <3>2, <3>3 DEF rank
  <2> QED
    BY <2>1
<1>10. s = [i \in 1..n |-> s[i]]
  <2> DEFINE at(i) == CHOOSE x \in S : Cardinality(S \cap before[x]) = i - 1
  <2>1. s = [i \in 1..n |-> at(i)]
    BY DEF Arranged
  <2> HIDE DEF s, n, at
  <2> QED
    BY <2>1
<1> HIDE DEF s, n
<1>11. s \in Seq(S) /\ Len(s) = n
  BY <1>1, <1>9, <1>10
<1>12. \A i, j \in 1..n : i < j => s[i] \in before[s[j]]
  <2> SUFFICES ASSUME NEW i \in 1..n, NEW j \in 1..n, i < j PROVE s[i] \in before[s[j]]
    OBVIOUS
  <2>1. s[i] \in S /\ s[j] \in S /\ rank[s[i]] < rank[s[j]]
    BY <1>1, <1>9
  <2> QED
    BY <1>5, <1>6, <2>1 DEF Orders
<1>13. \A i, j \in 1..n : s[i] = s[j] => i = j
  BY <1>1, <1>9
<1>14. \A x \in S : \E i \in 1..n : s[i] = x
  <2> SUFFICES ASSUME NEW x \in S PROVE \E i \in 1..n : s[i] = x
    OBVIOUS
  <2>1. rank[x] + 1 \in 1..n
    BY <1>1, <1>3
  <2>2. rank[s[rank[x] + 1]] = rank[x] /\ s[rank[x] + 1] \in S
    BY <1>6, <1>9, <2>1
  <2> QED
    BY <1>7, <2>1, <2>2
<1> QED
  BY <1>11, <1>12, <1>13, <1>14 DEF s, n

-----------------------------------------------------------------------------
(* Short sequences, as calls are made one or two at a time.                *)

LEMMA Concatenation ==
  ASSUME NEW S, NEW s \in Seq(S), NEW t \in Seq(S)
  PROVE  /\ s \o t \in Seq(S) /\ Len(s \o t) = Len(s) + Len(t)
         /\ \A i \in 1..Len(s) : (s \o t)[i] = s[i]
         /\ \A i \in 1..Len(t) : (s \o t)[Len(s) + i] = t[i]
  OBVIOUS

LEMMA TailIsShorter ==
  ASSUME NEW S, NEW s \in Seq(S), s # <<>>
  PROVE  /\ Tail(s) \in Seq(S) /\ Len(Tail(s)) = Len(s) - 1
         /\ \A i \in 1..(Len(s) - 1) : Tail(s)[i] = s[i + 1]
  OBVIOUS

LEMMA EmptyHasNone ==
  ASSUME NEW S, NEW s \in Seq(S)
  PROVE  (s = <<>> <=> Len(s) = 0) /\ <<>> \o s = s /\ s \o <<>> = s
  OBVIOUS

\* Two sequences of one element each.
LEMMA Pair ==
  ASSUME NEW S, NEW a \in S, NEW b \in S
  PROVE  <<a>> \o <<b>> = <<a, b>>
<1> DEFINE s == <<a>>
           t == <<b>>
           v == <<a, b>>
<1>1. s \in Seq(S) /\ t \in Seq(S) /\ Len(s) = 1 /\ Len(t) = 1 /\ s[1] = a /\ t[1] = b
  OBVIOUS
<1>2. v \in Seq(S) /\ Len(v) = 2 /\ v[1] = a /\ v[2] = b
  OBVIOUS
<1> HIDE DEF s, t, v
<1> DEFINE r == s \o t
<1>3. r \in Seq(S) /\ Len(r) = 1 + 1
  BY <1>1, Concatenation
<1>4. r[1] = a /\ r[1 + 1] = b
  BY <1>1, Concatenation
<1> HIDE DEF r
<1>5. \A i \in 1..2 : r[i] = v[i]
  BY <1>2, <1>4
<1>6. r = [i \in 1..2 |-> r[i]] /\ v = [i \in 1..2 |-> v[i]]
  BY <1>2, <1>3
<1> QED
  BY <1>5, <1>6 DEF s, t, v, r

-----------------------------------------------------------------------------
LEMMA NothingSelected ==
  ASSUME NEW kinds
  PROVE  OfKind(<<>>, kinds) = <<>>
<1> DEFINE r == OfKind(<<>>, kinds)
<1>1. <<>> \in Seq({0}) /\ Len(<<>>) = 0
  OBVIOUS
<1>2. r \in Seq({0}) /\ \E e : Selects(e, r, <<>>, Len(<<>>), kinds)
  BY <1>1, SelectionIsOrdered
<1>3. PICK e : e \in [1..Len(r) -> 1..0]
  BY <1>1, <1>2 DEF Selects
<1> HIDE DEF r
<1>4. Len(r) = 0
  <2> SUFFICES ASSUME Len(r) # 0 PROVE FALSE
    OBVIOUS
  <2>1. 1 \in 1..Len(r)
    BY <1>2
  <2>2. e[1] \in 1..0
    BY <1>3, <2>1
  <2> QED
    BY <2>2
<1>5. r = <<>>
  BY <1>2, <1>4, EmptyHasNone
<1> QED
  BY <1>5 DEF r
=============================================================================
