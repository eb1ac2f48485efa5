--------------------------- MODULE AdaptiveProofs ---------------------------
(***************************************************************************)
(* What a run of differentiated sheets remembers and what it may hand out, *)
(* for any class, textbook, models' answers and any number of teachers,    *)
(* clicks and regenerations.                                               *)
(***************************************************************************)
EXTENDS Adaptive, FiniteSetTheorems, SequenceTheorems, WellFoundedInduction,
        TLAPS

-----------------------------------------------------------------------------
(* Recursion and induction up to a bound                                   *)

\* What is numbered has a first.
LEMMA First ==
    ASSUME NEW S \in SUBSET Nat, S # {}
    PROVE  \E m \in S : \A n \in S : m <= n
<1> DEFINE Below == {pair \in Nat \X Nat : pair[1] < pair[2]}
<1>1. IsWellFoundedOn(Below, Nat)
  BY NatLessThanWellFounded DEF OpToRel
<1>2. PICK m \in S : \A n \in S : ~ (<<n, m>> \in Below)
  <2> HIDE DEF Below
  <2> QED
    BY <1>1, S \subseteq Nat, S # {}, WFMin
<1>3. \A n \in S : m <= n
  <2> SUFFICES ASSUME NEW n \in S, n < m PROVE FALSE
    OBVIOUS
  <2>1. <<n, m>> \in Below
    OBVIOUS
  <2> QED
    BY <1>2, <2>1
<1> QED
  BY <1>3

\* What holds of zero and of each number after one of which it holds.
LEMMA Induction ==
    ASSUME NEW N \in Nat, NEW S, 0 \in S,
           \A n \in 1 .. N : n - 1 \in S => n \in S
    PROVE  \A n \in 0 .. N : n \in S
<1> DEFINE Out == {n \in 0 .. N : n \notin S}
<1> SUFFICES ASSUME Out # {} PROVE FALSE
  OBVIOUS
<1>1. Out \in SUBSET Nat
  OBVIOUS
<1>2. PICK n \in Out : \A m \in Out : n <= m
  <2> HIDE DEF Out
  <2> QED
    BY <1>1, First
<1>3. n \in 1 .. N /\ n - 1 \in 0 .. N
  OBVIOUS
<1>4. n - 1 \notin Out
  BY <1>2, <1>3
<1> QED
  BY <1>3, <1>4

\* A recursion over 1 .. N that stays in a set has a solution.
Steps(N, S) == [1 .. N -> [S -> S]]
Recurs(f, N, S, start, step) ==
    /\ f \in [0 .. N -> S]
    /\ f[0] = start /\ \A k \in 1 .. N : f[k] = step[k][f[k - 1]]

LEMMA Recursion ==
    ASSUME NEW N \in Nat, NEW S, NEW start \in S, NEW step \in Steps(N, S)
    PROVE  \E f : Recurs(f, N, S, start, step)
<1> DEFINE Solves(f, n) == /\ f[0] = start
                           /\ \A k \in 1 .. n : f[k] = step[k][f[k - 1]]
           Solved == {n \in 0 .. N : \E f \in [0 .. n -> S] : Solves(f, n)}
<1> USE DEF Steps
<1>1. 0 \in Solved
  <2> DEFINE g == [k \in 0 .. 0 |-> start]
  <2>1. g \in [0 .. 0 -> S] /\ Solves(g, 0)
    OBVIOUS
  <2>2. \E f \in [0 .. 0 -> S] : Solves(f, 0)
    BY <2>1
  <2> HIDE DEF Solves
  <2> QED
    BY <2>2
<1>2. ASSUME NEW n \in 1 .. N, n - 1 \in Solved PROVE n \in Solved
  <2>1. PICK f \in [0 .. n - 1 -> S] : Solves(f, n - 1)
    BY <1>2
  <2> DEFINE g == [k \in 0 .. n |-> IF k = n THEN step[n][f[n - 1]] ELSE f[k]]
  <2>2. n - 1 \in 0 .. n - 1 /\ \A k \in 0 .. n : k # n => k \in 0 .. n - 1
    OBVIOUS
  <2>3. step[n][f[n - 1]] \in S
    BY <2>2
  <2>4. g \in [0 .. n -> S]
    BY <2>2, <2>3
  <2>5. g[0] = start
    BY <2>1
  <2>6. ASSUME NEW k \in 1 .. n PROVE g[k] = step[k][g[k - 1]]
    <3>1. k \in 0 .. n /\ k - 1 \in 0 .. n /\ k - 1 # n
      OBVIOUS
    <3>2. g[k - 1] = f[k - 1]
      BY <3>1
    <3>3. CASE k = n
      BY <3>1, <3>2, <3>3
    <3>4. CASE k # n
      <4>1. k \in 1 .. n - 1 /\ g[k] = f[k]
        BY <3>1, <3>4
      <4> QED
        BY <2>1, <3>2, <4>1
    <3> QED
      BY <3>3, <3>4
  <2>7. Solves(g, n)
    BY <2>5, <2>6
  <2>8. \E h \in [0 .. n -> S] : Solves(h, n)
    <3> HIDE DEF g, Solves
    <3> QED
      BY <2>4, <2>7
  <2>9. n \in 0 .. N
    OBVIOUS
  <2> HIDE DEF Solves
  <2> QED
    BY <2>8, <2>9
<1>3. N \in Solved
  <2> HIDE DEF Solved
  <2>1. \A n \in 1 .. N : n - 1 \in Solved => n \in Solved
    BY <1>2
  <2>2. \A n \in 0 .. N : n \in Solved
    BY <1>1, <2>1, Induction
  <2> QED
    BY <2>2
<1> QED
  BY <1>3 DEF Recurs

\* What starts there and takes those steps as long as it stays in the set does.
IsOver(f, S) == f = [x \in S |-> f[x]]

LEMMA Computed ==
    ASSUME NEW N \in Nat, NEW S, NEW start \in S, NEW step \in Steps(N, S),
           NEW f, IsOver(f, 0 .. N), f[0] = start,
           \A k \in 1 .. N : f[k - 1] \in S => f[k] = step[k][f[k - 1]]
    PROVE  Recurs(f, N, S, start, step)
<1> DEFINE In == {k \in 0 .. N : f[k] \in S}
<1>1. ASSUME NEW k \in 1 .. N, k - 1 \in In PROVE k \in In
  <2>1. step[k] \in [S -> S] /\ f[k - 1] \in S
    BY <1>1 DEF Steps
  <2> QED
    BY <2>1
<1>2. 0 \in In
  OBVIOUS
<1>3. \A k \in 0 .. N : k \in In
  <2> HIDE DEF In
  <2> QED
    BY <1>1, <1>2, Induction
<1>4. f \in [0 .. N -> S]
  BY <1>3 DEF IsOver
<1>5. \A k \in 1 .. N : k - 1 \in 0 .. N
  OBVIOUS
<1> QED
  BY <1>4, <1>5 DEF Recurs

-----------------------------------------------------------------------------
(* Ordering                                                                *)

Keys(m) == {key \in Seq(Int) : Len(key) = m}

\* Tuples of one length come one before the other, or are the same.
LEMMA BeforeIrreflexive ==
    ASSUME NEW m \in Nat, NEW a \in Keys(m)
    PROVE  ~Before(a, a)
  BY DEF Before, Keys

LEMMA BeforeTransitive ==
    ASSUME NEW m \in Nat, NEW a \in Keys(m), NEW b \in Keys(m), NEW c \in Keys(m),
           Before(a, b), Before(b, c)
    PROVE  Before(a, c)
<1>1. PICK i \in 1 .. m : a[i] < b[i] /\ \A j \in 1 .. i - 1 : a[j] = b[j]
  BY DEF Before, Keys
<1>2. PICK k \in 1 .. m : b[k] < c[k] /\ \A j \in 1 .. k - 1 : b[j] = c[j]
  BY DEF Before, Keys
<1>3. /\ DOMAIN a = 1 .. m
      /\ \A j \in 1 .. m : a[j] \in Int /\ b[j] \in Int /\ c[j] \in Int
  BY DEF Keys
<1>4. CASE i < k
  <2>1. a[i] < c[i] /\ \A j \in 1 .. i - 1 : a[j] = c[j]
    BY <1>1, <1>2, <1>3, <1>4
  <2> QED
    BY <1>3, <2>1 DEF Before
<1>5. CASE i = k
  <2>1. a[i] < c[i] /\ \A j \in 1 .. i - 1 : a[j] = c[j]
    BY <1>1, <1>2, <1>3, <1>5
  <2> QED
    BY <1>3, <2>1 DEF Before
<1>6. CASE k < i
  <2>1. a[k] < c[k] /\ \A j \in 1 .. k - 1 : a[j] = c[j]
    BY <1>1, <1>2, <1>3, <1>6
  <2> QED
    BY <1>3, <2>1 DEF Before
<1> QED
  BY <1>4, <1>5, <1>6

LEMMA BeforeTotal ==
    ASSUME NEW m \in Nat, NEW a \in Keys(m), NEW b \in Keys(m)
    PROVE  a = b \/ Before(a, b) \/ Before(b, a)
<1> DEFINE Differ == {i \in 1 .. m : a[i] # b[i]}
<1>1. /\ DOMAIN a = 1 .. m /\ DOMAIN b = 1 .. m
      /\ \A j \in 1 .. m : a[j] \in Int /\ b[j] \in Int
      /\ a = [j \in 1 .. m |-> a[j]] /\ b = [j \in 1 .. m |-> b[j]]
  BY DEF Keys
<1>2. CASE Differ = {}
  <2>1. a = b
    BY <1>1, <1>2
  <2> QED
    BY <2>1
<1>3. CASE Differ # {}
  <2>1. Differ \in SUBSET Nat
    OBVIOUS
  <2>2. PICK i \in Differ : \A j \in Differ : i <= j
    <3> HIDE DEF Differ
    <3> QED
      BY <1>3, <2>1, First
  <2>3. i \in 1 .. m /\ a[i] # b[i] /\ \A j \in 1 .. i - 1 : a[j] = b[j]
    BY <2>2
  <2>4. a[i] < b[i] \/ b[i] < a[i]
    BY <1>1, <2>3
  <2> QED
    BY <1>1, <2>3, <2>4 DEF Before
<1> QED
  BY <1>2, <1>3

LEMMA Interval ==
    ASSUME NEW n \in Nat
    PROVE  IsFiniteSet(1 .. n) /\ Cardinality(1 .. n) = n
<1>1. 1 \in Int /\ n \in Int
  OBVIOUS
<1> QED
  BY <1>1, FS_Interval

IsOrder(S, order) ==
    /\ \A x \in S : <<x, x>> \notin order
    /\ \A x, y, z \in S :
         <<x, y>> \in order /\ <<y, z>> \in order => <<x, z>> \in order
    /\ \A x, y \in S : x = y \/ <<x, y>> \in order \/ <<y, x>> \in order

\* Each of a set has its place in an order of it: the one after as many as are
\* before it, so that nothing is before the first.
Places(place, S, order) ==
    /\ place \in Bijection(1 .. Cardinality(S), S)
    /\ 1 \in 1 .. Cardinality(S) => \A x \in S : <<x, place[1]>> \notin order
    /\ \A n \in 1 .. Cardinality(S) :
         Cardinality({y \in S : <<y, place[n]>> \in order}) = n - 1

LEMMA InOrderPlaces ==
    ASSUME NEW S, IsFiniteSet(S), NEW order, IsOrder(S, order)
    PROVE  Places(InOrder(S, order), S, order)
<1> DEFINE N == Cardinality(S)
           before(x) == {y \in S : <<y, x>> \in order}
           rank == [x \in S |-> Cardinality(before(x)) + 1]
<1>1. N \in Nat
  BY FS_CardinalityType
<1>2. ASSUME NEW x \in S
      PROVE  IsFiniteSet(before(x)) /\ Cardinality(before(x)) \in 0 .. N - 1
  <2>1. before(x) \in SUBSET S
    OBVIOUS
  <2>2. before(x) # S
    BY DEF IsOrder
  <2>3. IsFiniteSet(before(x)) /\ Cardinality(before(x)) <= N
        /\ (N = Cardinality(before(x)) => S = before(x))
    <3> HIDE DEF before
    <3> QED
      BY <2>1, FS_Subset
  <2>4. Cardinality(before(x)) \in Nat
    BY <2>3, FS_CardinalityType
  <2> QED
    BY <1>1, <2>2, <2>3, <2>4
<1>3. ASSUME NEW x \in S, NEW y \in S, <<x, y>> \in order
      PROVE  Cardinality(before(x)) # Cardinality(before(y))
  <2>1. before(x) \in SUBSET before(y) /\ x \in before(y) /\ x \notin before(x)
    BY <1>3 DEF IsOrder
  <2>2. IsFiniteSet(before(y))
    BY <1>2
  <2> HIDE DEF before
  <2>3. Cardinality(before(x)) = Cardinality(before(y)) => before(x) = before(y)
    BY <2>1, <2>2, FS_Subset
  <2> QED
    BY <2>1, <2>3
<1>4. \A x, y \in S : Cardinality(before(x)) = Cardinality(before(y)) => x = y
  <2> HIDE DEF before
  <2> QED
    BY <1>3 DEF IsOrder
<1>5. rank \in Injection(S, 1 .. N)
  <2> HIDE DEF before, N
  <2>1. \A x \in S : Cardinality(before(x)) + 1 \in 1 .. N
    BY <1>1, <1>2
  <2>2. \A x \in S : Cardinality(before(x)) \in Int
    BY <1>1, <1>2
  <2>3. rank \in [S -> 1 .. N]
    BY <2>1
  <2>4. \A x, y \in S : rank[x] = rank[y] => x = y
    BY <1>4, <2>2
  <2> QED
    BY <2>3, <2>4 DEF Injection, IsInjective
<1>6. \A n \in 1 .. N : \E x \in S : rank[x] = n
  <2>2. IsFiniteSet(1 .. N) /\ Cardinality(1 .. N) = N
    BY <1>1, Interval
  <2> HIDE DEF rank
  <2>3. rank \in Surjection(S, 1 .. N)
    BY <1>5, <2>2, FS_Injection
  <2> QED
    BY <2>3 DEF Surjection
<1> DEFINE at(n) == CHOOSE x \in S : Cardinality(before(x)) = n - 1
<1>7. \A n \in 1 .. N : at(n) \in S /\ Cardinality(before(at(n))) = n - 1
  <2>1. \A n \in 1 .. N : \E x \in S : Cardinality(before(x)) = n - 1
    <3> HIDE DEF before, N
    <3>1. \A x \in S : Cardinality(before(x)) \in Int
      BY <1>1, <1>2
    <3> QED
      BY <1>6, <3>1
  <2> HIDE DEF before
  <2> QED
    BY <2>1
<1> DEFINE place == [n \in 1 .. N |-> at(n)]
<1>8. InOrder(S, order) = place
  BY DEF InOrder
<1>9. place \in Bijection(1 .. N, S)
  <2> HIDE DEF at, before
  <2>1. place \in [1 .. N -> S]
    BY <1>7
  <2>2. \A i, j \in 1 .. N : place[i] = place[j] => i = j
    BY <1>7
  <2>3. \A x \in S : Cardinality(before(x)) \in 0 .. N - 1
    BY <1>2
  <2>4. \A x \in S : \E n \in 1 .. N : place[n] = x
    <3> SUFFICES ASSUME NEW x \in S PROVE \E n \in 1 .. N : place[n] = x
      OBVIOUS
    <3>1. PICK n \in 1 .. N : n - 1 = Cardinality(before(x))
      <4> DEFINE k == Cardinality(before(x))
      <4>1. k \in 0 .. N - 1
        BY <2>3
      <4> HIDE DEF N, k
      <4>2. k + 1 \in 1 .. N /\ k + 1 - 1 = k
        BY <1>1, <4>1
      <4>3. \E n \in 1 .. N : n - 1 = k
        BY <1>1, <4>1, <4>2
      <4> QED
        BY <4>3 DEF k
    <3>2. at(n) = x
      BY <1>4, <1>7, <3>1
    <3> QED
      BY <3>2
  <2> QED
    BY <2>1, <2>2, <2>4 DEF Bijection, Injection, Surjection, IsInjective
<1>10. 1 \in 1 .. N => \A x \in S : <<x, at(1)>> \notin order
  <2> SUFFICES ASSUME 1 \in 1 .. N PROVE before(at(1)) = {}
    OBVIOUS
  <2>1. at(1) \in S /\ Cardinality(before(at(1))) = 0
    <3> HIDE DEF at, before
    <3> QED
      BY <1>7
  <2>2. IsFiniteSet(before(at(1)))
    BY <1>2, <2>1
  <2> HIDE DEF at, before
  <2> QED
    BY <2>1, <2>2, FS_EmptySet
<1>11. \A n \in 1 .. N : Cardinality(before(place[n])) = n - 1
  <2>1. \A n \in 1 .. N : place[n] = at(n)
    OBVIOUS
  <2> HIDE DEF at, place, before
  <2> QED
    BY <1>7, <2>1
<1> QED
  BY <1>8, <1>9, <1>10, <1>11 DEF Places

At(s, I) == {s[i] : i \in I}

\* A sequence that has what another has at some places, each place once.
Drawn(t, s, I) ==
    \E n \in Nat : \E place \in Bijection(1 .. n, I) :
        t = [k \in 1 .. n |-> s[place[k]]]

LEMMA DrawnIs ==
    ASSUME NEW V, NEW s \in Seq(V), NEW I \in SUBSET (1 .. Len(s)), NEW t,
           Drawn(t, s, I)
    PROVE  /\ t \in Seq(V) /\ Len(t) = Cardinality(I)
           /\ Range(t) = At(s, I)
           /\ IsInjective(s) => IsInjective(t)
           /\ I # {} => t # <<>>
<1>0. PICK n \in Nat : \E place \in Bijection(1 .. n, I) :
        t = [k \in 1 .. n |-> s[place[k]]]
  BY DEF Drawn
<1>1. PICK place \in Bijection(1 .. n, I) : t = [k \in 1 .. n |-> s[place[k]]]
  BY <1>0
<1>2. /\ place \in [1 .. n -> I]
      /\ \A i, j \in 1 .. n : place[i] = place[j] => i = j
      /\ \A x \in I : \E i \in 1 .. n : place[i] = x
  BY DEF Bijection, Injection, Surjection, IsInjective
<1>3. /\ DOMAIN s = 1 .. Len(s) /\ DOMAIN t = 1 .. n
      /\ \A i \in 1 .. n : t[i] = s[place[i]] /\ place[i] \in 1 .. Len(s)
  <2>1. \A i \in 1 .. n : place[i] \in 1 .. Len(s)
    BY <1>2
  <2>2. DOMAIN s = 1 .. Len(s)
    OBVIOUS
  <2> QED
    BY <1>1, <2>1, <2>2
<1>4. t \in Seq(V) /\ Len(t) = n
  BY <1>1, <1>3
<1>5. Cardinality(I) = n
  <2>1. ExistsBijection(1 .. n, I)
    BY DEF ExistsBijection
  <2> QED
    BY <2>1, FS_CountingElements
<1>6. Range(t) = At(s, I)
  BY <1>2, <1>3 DEF Range, At
<1>7. IsInjective(s) => IsInjective(t)
  BY <1>2, <1>3 DEF IsInjective
<1>8. I # {} => t # <<>>
  <2>1. I # {} => \E i \in 1 .. n : TRUE
    BY <1>2
  <2>2. I # {} => n # 0
    BY <2>1
  <2> QED
    BY <1>4, <2>2
<1> QED
  BY <1>4, <1>5, <1>6, <1>7, <1>8

LEMMA PlacesDraw ==
    ASSUME NEW s, NEW S, IsFiniteSet(S), NEW order, NEW place,
           Places(place, S, order)
    PROVE  Drawn([n \in DOMAIN place |-> s[place[n]]], s, S)
<1>1. Cardinality(S) \in Nat
  BY FS_CardinalityType
<1>2. place \in Bijection(1 .. Cardinality(S), S)
  BY DEF Places
<1>3. DOMAIN place = 1 .. Cardinality(S)
  BY <1>2 DEF Bijection, Injection
<1>4. [n \in DOMAIN place |-> s[place[n]]]
        = [n \in 1 .. Cardinality(S) |-> s[place[n]]]
  BY <1>3
<1> QED
  BY <1>1, <1>2, <1>4 DEF Drawn

\* Some of the places of a sequence are drawn in their order.
LEMMA AscendingPlaces ==
    ASSUME NEW n \in Nat, NEW I \in SUBSET (1 .. n)
    PROVE  IsFiniteSet(I) /\ Places(Ascending(I), I, Smaller(I))
<1>1. IsFiniteSet(I)
  <2>2. IsFiniteSet(1 .. n)
    BY Interval
  <2> QED
    BY <2>2, FS_Subset
<1>2. IsOrder(I, Smaller(I))
  BY DEF IsOrder, Smaller
<1> QED
  BY <1>1, <1>2, InOrderPlaces DEF Ascending

\* Of two places in ascending order, the smaller comes first.
LEMMA AscendingIncreases ==
    ASSUME NEW n \in Nat, NEW I \in SUBSET (1 .. n), NEW nth, nth = Ascending(I),
           NEW a \in 1 .. Cardinality(I), NEW b \in 1 .. Cardinality(I),
           nth[a] < nth[b]
    PROVE  a < b
<1>1. IsFiniteSet(I) /\ Places(nth, I, Smaller(I))
  BY AscendingPlaces
<1> DEFINE before(x) == {y \in I : <<y, x>> \in Smaller(I)}
<1>2. Cardinality(before(nth[a])) = a - 1 /\ Cardinality(before(nth[b])) = b - 1
  BY <1>1 DEF Places
<1>3. nth[a] \in I /\ nth[b] \in I
  BY <1>1 DEF Places, Bijection, Injection
<1>4. \A x \in I : \A y : y \in before(x) <=> y \in I /\ y < x
  BY DEF Smaller
<1>5. IsFiniteSet(before(nth[b]))
  <2>1. before(nth[b]) \in SUBSET I
    OBVIOUS
  <2> QED
    BY <1>1, <2>1, FS_Subset
<1> HIDE DEF before
<1>6. /\ before(nth[a]) \in SUBSET before(nth[b])
      /\ nth[a] \in before(nth[b]) /\ nth[a] \notin before(nth[a])
  <2>1. \A x \in I : x \in Int
    OBVIOUS
  <2>2. nth[a] \in Int /\ nth[b] \in Int
    BY <1>3, <2>1
  <2>3. \A y : y \in before(nth[a]) => y \in before(nth[b])
    <3> TAKE y
    <3> HAVE y \in before(nth[a])
    <3>1. y \in I /\ y < nth[a]
      BY <1>3, <1>4
    <3>2. y \in I /\ y < nth[b]
      BY <2>1, <2>2, <3>1
    <3> QED
      BY <1>3, <1>4, <3>2
  <2>4. nth[a] \in before(nth[b]) /\ nth[a] \notin before(nth[a])
    BY <1>3, <1>4, <2>2
  <2> QED
    BY <2>3, <2>4
<1>7. /\ Cardinality(before(nth[a])) <= Cardinality(before(nth[b]))
      /\ Cardinality(before(nth[b])) # Cardinality(before(nth[a]))
  BY <1>5, <1>6, FS_Subset
<1>8. PICK k : k = Cardinality(I)
  OBVIOUS
<1>9. k \in Nat
  BY <1>1, <1>8, FS_CardinalityType
<1> QED
  BY <1>2, <1>7, <1>8, <1>9

LEMMA ThoseAreDrawn ==
    ASSUME NEW V, NEW s \in Seq(V), NEW I \in SUBSET (1 .. Len(s))
    PROVE  Drawn(Those(s, I), s, I)
<1>1. Len(s) \in Nat
  OBVIOUS
<1>2. IsFiniteSet(I) /\ Places(Ascending(I), I, Smaller(I))
  BY <1>1, AscendingPlaces
<1> QED
  BY <1>2, PlacesDraw DEF Those

\* A sort keeps what it sorts, and puts a least key first.
LEMMA SortedIsDrawn ==
    ASSUME NEW V, NEW s \in Seq(V), NEW m \in Nat, NEW keys,
           DOMAIN keys = 1 .. Len(s), \A i \in 1 .. Len(s) : keys[i] \in Keys(m)
    PROVE  /\ Drawn(SortedBy(s, keys), s, 1 .. Len(s))
           /\ s # <<>> => \E p \in 1 .. Len(s) :
                            /\ SortedBy(s, keys)[1] = s[p]
                            /\ \A i \in 1 .. Len(s) : ~Before(keys[i], keys[p])
<1> DEFINE D == 1 .. Len(s)
           place == InOrder(D, ByKey(keys))
<1>0. DOMAIN keys = D
  OBVIOUS
<1>1. IsFiniteSet(D) /\ Cardinality(D) = Len(s) /\ Len(s) \in Nat
  <2>1. Len(s) \in Nat
    OBVIOUS
  <2> QED
    BY <2>1, Interval
<1>2. \A i, j \in D : <<i, j>> \in ByKey(keys) <=>
        Before(keys[i], keys[j]) \/ (keys[i] = keys[j] /\ i < j)
  BY <1>0 DEF ByKey
<1>3. IsOrder(D, ByKey(keys))
  <2>1. \A i \in D : <<i, i>> \notin ByKey(keys)
    BY <1>2, BeforeIrreflexive
  <2>2. ASSUME NEW i \in D, NEW j \in D, NEW k \in D,
               <<i, j>> \in ByKey(keys), <<j, k>> \in ByKey(keys)
        PROVE  <<i, k>> \in ByKey(keys)
    <3>1. keys[i] \in Keys(m) /\ keys[j] \in Keys(m) /\ keys[k] \in Keys(m)
      OBVIOUS
    <3>2. Before(keys[i], keys[j]) /\ Before(keys[j], keys[k])
            => Before(keys[i], keys[k])
      BY <3>1, BeforeTransitive
    <3>3. i < j /\ j < k => i < k
      OBVIOUS
    <3> QED
      BY <1>2, <2>2, <3>2, <3>3
  <2>3. ASSUME NEW i \in D, NEW j \in D
        PROVE  i = j \/ <<i, j>> \in ByKey(keys) \/ <<j, i>> \in ByKey(keys)
    <3>1. keys[i] \in Keys(m) /\ keys[j] \in Keys(m)
      OBVIOUS
    <3>2. keys[i] = keys[j] \/ Before(keys[i], keys[j]) \/ Before(keys[j], keys[i])
      BY <3>1, BeforeTotal
    <3>3. i = j \/ i < j \/ j < i
      OBVIOUS
    <3> QED
      BY <1>2, <3>2, <3>3
  <2> HIDE DEF D
  <2> QED
    BY <2>1, <2>2, <2>3 DEF IsOrder
<1>4. Places(place, D, ByKey(keys))
  <2> HIDE DEF D
  <2> QED
    BY <1>1, <1>3, InOrderPlaces
<1>5. SortedBy(s, keys) = [n \in DOMAIN place |-> s[place[n]]]
  BY <1>0 DEF SortedBy
<1>6. Drawn(SortedBy(s, keys), s, D)
  <2> HIDE DEF D, place
  <2> QED
    BY <1>1, <1>4, <1>5, PlacesDraw
<1>7. ASSUME s # <<>>
      PROVE  \E p \in D : /\ SortedBy(s, keys)[1] = s[p]
                          /\ \A i \in D : ~Before(keys[i], keys[p])
  <2>1. 1 \in 1 .. Len(s) /\ 1 \in 1 .. Cardinality(D)
    BY <1>1, <1>7
  <2> HIDE DEF D, place
  <2>2. place \in [1 .. Cardinality(D) -> D]
    BY <1>4 DEF Places, Bijection, Injection
  <2>3. place[1] \in D /\ SortedBy(s, keys)[1] = s[place[1]]
    BY <1>5, <2>1, <2>2
  <2>4. \A i \in D : <<i, place[1]>> \notin ByKey(keys)
    BY <1>4, <2>1 DEF Places
  <2> QED
    BY <1>2, <2>3, <2>4
<1> QED
  BY <1>6, <1>7

\* What is sorted is the same, each once.
LEMMA SortedIs ==
    ASSUME NEW V, NEW s \in Seq(V), NEW m \in Nat, NEW keys,
           DOMAIN keys = 1 .. Len(s), \A i \in 1 .. Len(s) : keys[i] \in Keys(m)
    PROVE  /\ SortedBy(s, keys) \in Seq(V) /\ Len(SortedBy(s, keys)) = Len(s)
           /\ Range(SortedBy(s, keys)) = Range(s)
           /\ IsInjective(s) => IsInjective(SortedBy(s, keys))
<1>1. Drawn(SortedBy(s, keys), s, 1 .. Len(s))
  BY SortedIsDrawn
<1>2. Len(s) \in Nat /\ DOMAIN s = 1 .. Len(s)
  OBVIOUS
<1>3. Cardinality(1 .. Len(s)) = Len(s)
  BY <1>2, Interval
<1>4. At(s, 1 .. Len(s)) = Range(s)
  BY <1>2 DEF Range, At
<1>5. 1 .. Len(s) \in SUBSET (1 .. Len(s))
  OBVIOUS
<1>6. PICK t : t = SortedBy(s, keys)
  OBVIOUS
<1>7. /\ t \in Seq(V) /\ Len(t) = Cardinality(1 .. Len(s))
      /\ Range(t) = At(s, 1 .. Len(s))
      /\ IsInjective(s) => IsInjective(t)
  BY <1>1, <1>5, <1>6, DrawnIs
<1> QED
  BY <1>3, <1>4, <1>6, <1>7

-----------------------------------------------------------------------------
(* What pupils and groups are sorted by                                    *)

Known == {s \in Signals : s.band \in Range(TargetBands)}

LEMMA KnownIs ==
    ASSUME NEW s \in Known
    PROVE  BandPriority[s.band] \in Int /\ s.score \in Int
<1>1. s.band \in Range(TargetBands) /\ s.score \in Int
  BY DEF Known, Signals
<1>2. \E i \in DOMAIN TargetBands : TargetBands[i] = s.band
  BY <1>1 DEF Range
<1>3. DOMAIN TargetBands \subseteq Int
  BY DEF TargetBands
<1> QED
  BY <1>1, <1>2, <1>3 DEF BandPriority

LEMMA LeadingIs ==
    ASSUME NEW V, NEW s \in Seq(V), NEW n \in Nat
    PROVE  Leading(s, n) \in Seq(V) /\ Len(Leading(s, n)) <= n
<1> DEFINE k == IF n < Len(s) THEN n ELSE Len(s)
<1>1. k \in Nat /\ k <= Len(s) /\ k <= n /\ Len(s) \in Nat
  OBVIOUS
<1>2. SubSeq(s, 1, k) \in Seq(V) /\ Len(SubSeq(s, 1, k)) = k
  <2> HIDE DEF k
  <2>1. \A i \in 1 .. k : s[i] \in V
    BY <1>1
  <2> QED
    BY <1>1, <2>1
<1> QED
  BY <1>1, <1>2 DEF Leading

LEMMA ThoseIs ==
    ASSUME NEW V, NEW s \in Seq(V), NEW I \in SUBSET (1 .. Len(s))
    PROVE  /\ Those(s, I) \in Seq(V) /\ Len(Those(s, I)) = Cardinality(I)
           /\ Range(Those(s, I)) = At(s, I)
           /\ IsInjective(s) => IsInjective(Those(s, I))
           /\ I # {} => Those(s, I) # <<>>
<1>1. PICK t : t = Those(s, I)
  OBVIOUS
<1>2. Drawn(t, s, I)
  BY <1>1, ThoseAreDrawn
<1>3. /\ t \in Seq(V) /\ Len(t) = Cardinality(I)
      /\ Range(t) = At(s, I)
      /\ IsInjective(s) => IsInjective(t)
      /\ I # {} => t # <<>>
  BY <1>2, DrawnIs
<1> QED
  BY <1>1, <1>3

\* A pupil's gaps are among what is known of the pupil.
LEMMA GapsAreKnown ==
    ASSUME NEW signals \in Seq(Signals)
    PROVE  PickGaps(signals) \in Seq(Known)
<1> DEFINE I      == {i \in DOMAIN signals : signals[i].band # "none"}
           known  == Those(signals, I)
           keys   == [i \in DOMAIN known |->
                       <<BandPriority[known[i].band], known[i].score>>]
           scored == SortedBy(known, keys)
           solid  == {i \in DOMAIN scored : scored[i].band = "solid"}
           gaps   == Those(scored, DOMAIN scored \ solid)
           taken  == Leading(gaps, MaxTargets)
           room   == MaxTargets - Len(taken)
           allowed == IF taken = <<>> \/ room < MaxStretch THEN room
                                                           ELSE MaxStretch
<1>1. known \in Seq(Known)
  <2>1. I \in SUBSET (1 .. Len(signals))
    OBVIOUS
  <2>2. At(signals, I) \subseteq Known
    <3> SUFFICES ASSUME NEW i \in I PROVE signals[i] \in Known
      BY DEF At
    <3>1. signals[i] \in Signals /\ signals[i].band # "none"
      OBVIOUS
    <3>2. signals[i].band \in Range(TargetBands) \union {"none"}
      BY <3>1 DEF Signals
    <3> QED
      BY <3>1, <3>2 DEF Known
  <2> HIDE DEF I
  <2>3. known \in Seq(Signals) /\ Range(known) \subseteq Known
    BY <2>1, <2>2, ThoseIs
  <2> HIDE DEF known
  <2>4. \A i \in 1 .. Len(known) : known[i] \in Known
    BY <2>3 DEF Range
  <2> QED
    BY <2>3, <2>4
<1> HIDE DEF known
<1>2. scored \in Seq(Known)
  <2>1. DOMAIN keys = 1 .. Len(known)
    BY <1>1
  <2>2. \A i \in 1 .. Len(known) : keys[i] \in Keys(2)
    <3> SUFFICES ASSUME NEW i \in 1 .. Len(known) PROVE keys[i] \in Keys(2)
      OBVIOUS
    <3>1. known[i] \in Known
      BY <1>1
    <3>2. BandPriority[known[i].band] \in Int /\ known[i].score \in Int
      BY <3>1, KnownIs
    <3>3. keys[i] = <<BandPriority[known[i].band], known[i].score>>
      BY <2>1
    <3> QED
      BY <3>2, <3>3 DEF Keys
  <2>3. 2 \in Nat
    OBVIOUS
  <2> HIDE DEF keys
  <2> QED
    BY <1>1, <2>1, <2>2, <2>3, SortedIs
<1> HIDE DEF scored
<1>3. DOMAIN scored \ solid \in SUBSET (1 .. Len(scored)) /\ solid \in SUBSET (1 .. Len(scored))
  BY <1>2
<1> HIDE DEF solid
<1>4. gaps \in Seq(Known) /\ Those(scored, solid) \in Seq(Known)
  BY <1>2, <1>3, ThoseIs
<1> HIDE DEF gaps
<1>5. MaxTargets \in Nat /\ MaxStretch \in Nat
  BY TargetingAssumption
<1>6. taken \in Seq(Known) /\ Len(taken) <= MaxTargets
  BY <1>4, <1>5, LeadingIs
<1> HIDE DEF taken
<1>7. allowed \in Nat
  BY <1>5, <1>6
<1> HIDE DEF allowed
<1>8. Leading(Those(scored, solid), allowed) \in Seq(Known)
  BY <1>4, <1>7, LeadingIs
<1>9. taken \o Leading(Those(scored, solid), allowed) \in Seq(Known)
  BY <1>6, <1>8
<1>10. PickGaps(signals) = taken \o Leading(Those(scored, solid), allowed)
  BY DEF PickGaps, taken, gaps, solid, scored, known, allowed
<1> QED
  BY <1>9, <1>10

\* The gaps of some pupils.
GapsOfAll(gaps, R) == \A s \in R : gaps[s] \in Seq(Known)

LEMMA SeverityIs ==
    ASSUME NEW R, NEW gaps, GapsOfAll(gaps, R), NEW s \in R
    PROVE  Severity(gaps, s)[1] \in Int /\ Severity(gaps, s)[2] \in Int
<1>1. gaps[s] \in Seq(Known)
  BY DEF GapsOfAll
<1>2. CASE gaps[s] = <<>>
  BY <1>2 DEF Severity, TargetBands
<1>3. CASE gaps[s] # <<>>
  <2>1. gaps[s][1] \in Known
    BY <1>1, <1>3
  <2>2. BandPriority[gaps[s][1].band] \in Int /\ gaps[s][1].score \in Int
    BY <2>1, KnownIs
  <2> QED
    BY <1>3, <2>2 DEF Severity
<1> QED
  BY <1>2, <1>3

\* Pupils ranked are the same pupils.
LEMMA RankedIs ==
    ASSUME NEW R \in SUBSET Int, NEW gaps, GapsOfAll(gaps, R), NEW b \in Seq(R)
    PROVE  /\ Ranked(b, gaps) \in Seq(R) /\ Len(Ranked(b, gaps)) = Len(b)
           /\ Range(Ranked(b, gaps)) = Range(b)
           /\ IsInjective(b) => IsInjective(Ranked(b, gaps))
<1> DEFINE keys == [i \in DOMAIN b |-> RankOf(gaps, b[i])]
<1>1. DOMAIN keys = 1 .. Len(b)
  OBVIOUS
<1>2. ASSUME NEW i \in 1 .. Len(b) PROVE keys[i] \in Keys(3)
  <2>1. b[i] \in R
    BY DOMAIN b = 1 .. Len(b)
  <2>4. b[i] \in Int
    BY <2>1
  <2>2. Severity(gaps, b[i])[1] \in Int /\ Severity(gaps, b[i])[2] \in Int
    BY <2>1, SeverityIs
  <2>3. keys[i] = <<Severity(gaps, b[i])[1], Severity(gaps, b[i])[2], b[i]>>
    BY <1>1 DEF RankOf
  <2> HIDE DEF keys
  <2> QED
    BY <2>2, <2>3, <2>4 DEF Keys
<1>3. 3 \in Nat
  OBVIOUS
<1>4. Ranked(b, gaps) = SortedBy(b, keys)
  BY DEF Ranked
<1> HIDE DEF keys
<1> QED
  BY <1>1, <1>2, <1>3, <1>4, SortedIs


\* What is summed or multiplied is a number.
LEMMA SumIsInt ==
    ASSUME NEW numbers \in Seq(Int)
    PROVE  Sum(numbers) \in Int
<1> DEFINE N == Len(numbers)
           S == Int
           start == 0
           step == [k \in 1 .. N |-> [x \in S |-> x + numbers[k]]]
           body(f) == [n \in 0 .. N |-> IF n = 0 THEN start ELSE f[n - 1] + numbers[n]]
           upTo == CHOOSE f : f = body(f)
<1>1. N \in Nat /\ start \in S /\ \A k \in 1 .. N, x \in S : x + numbers[k] \in S
  OBVIOUS
<1> HIDE DEF N, S, start
<1>2. step \in Steps(N, S)
  BY <1>1 DEF Steps
<1>3. \A k \in 1 .. N : k - 1 \in 0 .. N /\ k # 0 /\ k \in 0 .. N
  BY <1>1
<1>4. PICK f : Recurs(f, N, S, start, step)
  <2> HIDE DEF step
  <2> QED
    BY <1>1, <1>2, Recursion
<1>5. f = body(f)
  <2>1. \A k \in 0 .. N : k # 0 => k \in 1 .. N
    BY <1>1
  <2>2. ASSUME NEW n \in 1 .. N PROVE f[n] = f[n - 1] + numbers[n]
    <3>1. f[n - 1] \in S /\ f[n] = step[n][f[n - 1]]
      BY <1>3, <1>4 DEF Recurs
    <3> QED
      BY <3>1
  <2>3. f[0] = start /\ f \in [0 .. N -> S]
    BY <1>4 DEF Recurs
  <2> QED
    BY <2>1, <2>2, <2>3
<1>6. upTo = body(upTo)
  <2> HIDE DEF body
  <2> QED
    BY <1>5
<1> HIDE DEF upTo
<1>7. Recurs(upTo, N, S, start, step)
  <2>1. IsOver(upTo, 0 .. N)
    <3>1. DOMAIN upTo = 0 .. N
      BY <1>6
    <3> QED
      BY <1>6, <3>1 DEF IsOver
  <2>2. upTo[0] = start
    BY <1>1, <1>6
  <2>3. ASSUME NEW n \in 1 .. N, upTo[n - 1] \in S PROVE upTo[n] = step[n][upTo[n - 1]]
    <3>1. upTo[n] = upTo[n - 1] + numbers[n]
      BY <1>3, <1>6
    <3> QED
      BY <2>3, <3>1
  <2> HIDE DEF step, body
  <2> QED
    BY <1>1, <1>2, <2>1, <2>2, <2>3, Computed
<1>8. upTo[N] \in Int
  <2>1. N \in 0 .. N
    BY <1>1
  <2> QED
    BY <1>7, <2>1 DEF Recurs, S
<1> QED
  BY <1>8 DEF Sum, upTo, N, start

LEMMA SharedIsNat ==
    ASSUME NEW V, NEW buckets \in Seq(Seq(V))
    PROVE  Shared(buckets) \in Nat
<1> DEFINE N == Len(buckets)
           S == Nat
           start == 1
           step == [k \in 1 .. N |-> [x \in S |-> x * Len(buckets[k])]]
           body(f) == [n \in 0 .. N |-> IF n = 0 THEN start ELSE f[n - 1] * Len(buckets[n])]
           upTo == CHOOSE f : f = body(f)
<1>1. N \in Nat /\ start \in S /\ \A k \in 1 .. N, x \in S : x * Len(buckets[k]) \in S
  <2>1. \A k \in 1 .. Len(buckets) : Len(buckets[k]) \in Nat
    OBVIOUS
  <2>2. \A x, y \in Nat : x * y \in Nat
    OBVIOUS
  <2> QED
    BY <2>1, <2>2
<1> HIDE DEF N, S, start
<1>2. step \in Steps(N, S)
  BY <1>1 DEF Steps
<1>3. \A k \in 1 .. N : k - 1 \in 0 .. N /\ k # 0 /\ k \in 0 .. N
  BY <1>1
<1>4. PICK f : Recurs(f, N, S, start, step)
  <2> HIDE DEF step
  <2> QED
    BY <1>1, <1>2, Recursion
<1>5. f = body(f)
  <2>1. \A k \in 0 .. N : k # 0 => k \in 1 .. N
    BY <1>1
  <2>2. ASSUME NEW n \in 1 .. N PROVE f[n] = f[n - 1] * Len(buckets[n])
    <3>1. f[n - 1] \in S /\ f[n] = step[n][f[n - 1]]
      BY <1>3, <1>4 DEF Recurs
    <3> QED
      BY <3>1
  <2>3. f[0] = start /\ f \in [0 .. N -> S]
    BY <1>4 DEF Recurs
  <2> QED
    BY <2>1, <2>2, <2>3
<1>6. upTo = body(upTo)
  <2> HIDE DEF body
  <2> QED
    BY <1>5
<1> HIDE DEF upTo
<1>7. Recurs(upTo, N, S, start, step)
  <2>1. IsOver(upTo, 0 .. N)
    <3>1. DOMAIN upTo = 0 .. N
      BY <1>6
    <3> QED
      BY <1>6, <3>1 DEF IsOver
  <2>2. upTo[0] = start
    BY <1>1, <1>6
  <2>3. ASSUME NEW n \in 1 .. N, upTo[n - 1] \in S PROVE upTo[n] = step[n][upTo[n - 1]]
    <3>1. upTo[n] = upTo[n - 1] * Len(buckets[n])
      BY <1>3, <1>6
    <3> QED
      BY <2>3, <3>1
  <2> HIDE DEF step, body
  <2> QED
    BY <1>1, <1>2, <2>1, <2>2, <2>3, Computed
<1>8. upTo[N] \in Nat
  <2>1. N \in 0 .. N
    BY <1>1
  <2> QED
    BY <1>7, <2>1 DEF Recurs, S
<1> QED
  BY <1>8 DEF Shared, upTo, N, start

\* The severities of a group come one before the other or are the same.
LEMMA AverageIs ==
    ASSUME NEW R \in SUBSET Int, NEW gaps, GapsOfAll(gaps, R), NEW b \in Seq(R),
           b # <<>>, NEW shared \in Nat
    PROVE  AverageSeverity(gaps, b, shared) \in Keys(2)
<1> DEFINE sum(k) == Sum([i \in DOMAIN b |-> Severity(gaps, b[i])[k]])
           share == shared \div Len(b)
<1>1. share \in Int
  <2>1. Len(b) \in Nat /\ Len(b) > 0
    OBVIOUS
  <2> QED
    BY <2>1
<1>2. ASSUME NEW k \in {1, 2} PROVE sum(k) \in Int
  <2>1. \A i \in 1 .. Len(b) : Severity(gaps, b[i])[k] \in Int
    <3> SUFFICES ASSUME NEW i \in 1 .. Len(b) PROVE Severity(gaps, b[i])[k] \in Int
      OBVIOUS
    <3>1. b[i] \in R
      BY DOMAIN b = 1 .. Len(b)
    <3> QED
      BY <3>1, SeverityIs
  <2> DEFINE numbers == [i \in DOMAIN b |-> Severity(gaps, b[i])[k]]
  <2>2. numbers \in Seq(Int)
    BY <2>1
  <2> HIDE DEF numbers
  <2>3. Sum(numbers) \in Int
    BY <2>2, SumIsInt
  <2> QED
    BY <2>3 DEF numbers
<1>3. AverageSeverity(gaps, b, shared) = <<sum(1) * share, sum(2) * share>>
  BY DEF AverageSeverity
<1>4. sum(1) \in Int /\ sum(2) \in Int
  BY <1>2
<1> HIDE DEF sum, share
<1>5. sum(1) * share \in Int /\ sum(2) * share \in Int
  BY <1>1, <1>4
<1> QED
  BY <1>3, <1>5 DEF Keys

-----------------------------------------------------------------------------
(* Groups that divide a class                                              *)

Buckets(R) == {b \in Seq(Seq(R)) : /\ Divides(b, R)
                                   /\ \A i \in DOMAIN b : b[i] # <<>>}

\* The same groups in another order divide the class as well.
LEMMA BucketsDrawn ==
    ASSUME NEW R, NEW b \in Buckets(R), NEW t, Drawn(t, b, 1 .. Len(b))
    PROVE  t \in Buckets(R) /\ Len(t) = Len(b)
<1>1. /\ b \in Seq(Seq(R)) /\ Len(b) \in Nat /\ DOMAIN b = 1 .. Len(b)
      /\ Divides(b, R) /\ \A i \in 1 .. Len(b) : b[i] # <<>>
  BY DEF Buckets
<1>2. 1 .. Len(b) \in SUBSET (1 .. Len(b))
  OBVIOUS
<1>3. t \in Seq(Seq(R)) /\ Len(t) = Cardinality(1 .. Len(b))
  <2>1. PICK V : V = Seq(R)
    OBVIOUS
  <2>2. PICK I : I = 1 .. Len(b)
    OBVIOUS
  <2>3. t \in Seq(V) /\ Len(t) = Cardinality(I)
    BY <1>1, <1>2, <2>1, <2>2, DrawnIs
  <2> QED
    BY <2>1, <2>2, <2>3
<1>4. Len(t) = Len(b) /\ DOMAIN t = 1 .. Len(b)
  BY <1>1, <1>3, Interval
<1>5. PICK n \in Nat : \E place \in Bijection(1 .. n, 1 .. Len(b)) :
        t = [k \in 1 .. n |-> b[place[k]]]
  BY DEF Drawn
<1>6. PICK place \in Bijection(1 .. n, 1 .. Len(b)) :
        t = [k \in 1 .. n |-> b[place[k]]]
  BY <1>5
<1>7. n = Len(b)
  <2>1. 1 .. n = 1 .. Len(b)
    BY <1>4, <1>6
  <2>2. Cardinality(1 .. n) = n /\ Cardinality(1 .. Len(b)) = Len(b)
    BY <1>1, Interval
  <2> QED
    BY <2>1, <2>2
<1>8. /\ \A i \in 1 .. n : place[i] \in 1 .. n
      /\ \A i, j \in 1 .. n : place[i] = place[j] => i = j
      /\ \A x \in 1 .. n : \E i \in 1 .. n : place[i] = x
  BY <1>7 DEF Bijection, Injection, Surjection, IsInjective
<1>9. \A i \in 1 .. n : t[i] = b[place[i]]
  BY <1>6
<1>10. Divides(t, R)
  <2>1. \A i \in 1 .. n : IsInjective(t[i])
    BY <1>1, <1>7, <1>8, <1>9 DEF Divides
  <2>2. \A i, j \in 1 .. n : i # j => Range(t[i]) \cap Range(t[j]) = {}
    <3> SUFFICES ASSUME NEW i \in 1 .. n, NEW j \in 1 .. n, i # j
                 PROVE  Range(b[place[i]]) \cap Range(b[place[j]]) = {}
      BY <1>9
    <3>1. place[i] # place[j] /\ place[i] \in DOMAIN b /\ place[j] \in DOMAIN b
      BY <1>1, <1>7, <1>8
    <3> QED
      BY <1>1, <3>1 DEF Divides
  <2>3. UNION {Range(t[i]) : i \in 1 .. n} = UNION {Range(b[i]) : i \in 1 .. n}
    <3>1. ASSUME NEW i \in 1 .. n
          PROVE  Range(t[i]) \in {Range(b[k]) : k \in 1 .. n}
      BY <1>8, <1>9
    <3>2. ASSUME NEW k \in 1 .. n
          PROVE  Range(b[k]) \in {Range(t[i]) : i \in 1 .. n}
      <4>1. PICK i \in 1 .. n : place[i] = k
        BY <1>8
      <4> QED
        BY <1>9, <4>1
    <3> QED
      BY <3>1, <3>2
  <2>4. UNION {Range(b[i]) : i \in 1 .. n} = R
    BY <1>1, <1>7 DEF Divides
  <2> QED
    BY <1>4, <1>7, <2>1, <2>2, <2>3, <2>4 DEF Divides
<1>11. \A i \in 1 .. n : t[i] # <<>>
  <2> SUFFICES ASSUME NEW i \in 1 .. n PROVE b[place[i]] # <<>>
    BY <1>9
  <2> QED
    BY <1>1, <1>7, <1>8
<1> QED
  BY <1>3, <1>4, <1>7, <1>10, <1>11 DEF Buckets

\* What divides a class, said of its places.
LEMMA BucketsAre ==
    ASSUME NEW R, NEW n \in Nat, NEW t \in Seq(Seq(R)), Len(t) = n,
           \A i \in 1 .. n : IsInjective(t[i]) /\ t[i] # <<>>,
           \A i, j \in 1 .. n : i # j => Range(t[i]) \cap Range(t[j]) = {},
           \A x \in R : \E i \in 1 .. n : x \in Range(t[i])
    PROVE  t \in Buckets(R)
<1>1. DOMAIN t = 1 .. n
  OBVIOUS
<1>2. \A i \in 1 .. n : Range(t[i]) \subseteq R
  BY <1>1 DEF Range
<1>3. UNION {Range(t[i]) : i \in 1 .. n} = R
  BY <1>2
<1> QED
  BY <1>1, <1>3 DEF Buckets, Divides

LEMMA BucketIs ==
    ASSUME NEW R, NEW t \in Buckets(R)
    PROVE  /\ t \in Seq(Seq(R)) /\ Len(t) \in Nat /\ DOMAIN t = 1 .. Len(t)
           /\ \A i \in 1 .. Len(t) :
                /\ t[i] \in Seq(R) /\ IsInjective(t[i]) /\ t[i] # <<>>
                /\ Range(t[i]) \subseteq R
           /\ \A i, j \in 1 .. Len(t) : i # j => Range(t[i]) \cap Range(t[j]) = {}
           /\ \A x \in R : \E i \in 1 .. Len(t) : x \in Range(t[i])
<1>1. t \in Seq(Seq(R)) /\ Len(t) \in Nat /\ DOMAIN t = 1 .. Len(t)
  BY DEF Buckets
<1>2. \A i \in 1 .. Len(t) : t[i] \in Seq(R) /\ t[i] # <<>>
  <2>1. \A i \in DOMAIN t : t[i] # <<>>
    BY DEF Buckets
  <2>2. \A i \in 1 .. Len(t) : t[i] \in Seq(R)
    BY <1>1
  <2> QED
    BY <1>1, <2>1, <2>2
<1>3. \A i \in 1 .. Len(t) : Range(t[i]) \subseteq R
  BY <1>2 DEF Range
<1>4. Divides(t, R)
  BY DEF Buckets
<1>5. \A x \in R : \E i \in 1 .. Len(t) : x \in Range(t[i])
  BY <1>1, <1>4 DEF Divides
<1> QED
  BY <1>1, <1>2, <1>3, <1>4, <1>5 DEF Divides

LEMMA ConcatIs ==
    ASSUME NEW R, NEW a \in Seq(R), NEW b \in Seq(R)
    PROVE  /\ a \o b \in Seq(R) /\ Range(a \o b) = Range(a) \union Range(b)
           /\ IsInjective(a) /\ IsInjective(b) /\ Range(a) \cap Range(b) = {}
                => IsInjective(a \o b)
           /\ a # <<>> => a \o b # <<>>
<1> DEFINE n == Len(a)
           c == a \o b
<1>1. /\ n \in Nat /\ Len(b) \in Nat /\ DOMAIN a = 1 .. n /\ DOMAIN b = 1 .. Len(b)
      /\ c \in Seq(R) /\ Len(c) = n + Len(b) /\ DOMAIN c = 1 .. n + Len(b)
      /\ \A i \in 1 .. n + Len(b) : c[i] = IF i <= n THEN a[i] ELSE b[i - n]
  OBVIOUS
<1> HIDE DEF n, c
<1>2. \A i \in 1 .. n : i \in 1 .. n + Len(b) /\ c[i] = a[i]
  BY <1>1
<1>3. \A i \in 1 .. Len(b) : i + n \in 1 .. n + Len(b) /\ c[i + n] = b[i]
  BY <1>1
<1>4. \A i \in 1 .. n + Len(b) :
        \/ i \in 1 .. n /\ c[i] = a[i]
        \/ i \notin 1 .. n /\ i - n \in 1 .. Len(b) /\ c[i] = b[i - n]
  BY <1>1
<1>5. Range(c) = Range(a) \union Range(b)
  <2>1. Range(a) \subseteq Range(c)
    BY <1>1, <1>2 DEF Range
  <2>2. Range(b) \subseteq Range(c)
    BY <1>1, <1>3 DEF Range
  <2>3. Range(c) \subseteq Range(a) \union Range(b)
    BY <1>1, <1>4 DEF Range
  <2> QED
    BY <2>1, <2>2, <2>3
<1>6. ASSUME IsInjective(a), IsInjective(b), Range(a) \cap Range(b) = {}
      PROVE  IsInjective(c)
  <2> SUFFICES ASSUME NEW i \in 1 .. n + Len(b), NEW j \in 1 .. n + Len(b),
                      c[i] = c[j]
               PROVE  i = j
    BY <1>1 DEF IsInjective
  <2>1. \A k \in 1 .. n, l \in 1 .. Len(b) : a[k] # b[l]
    BY <1>1, <1>6 DEF Range
  <2>2. CASE i \in 1 .. n /\ j \in 1 .. n
    BY <1>1, <1>2, <1>6, <2>2 DEF IsInjective
  <2>3. CASE i \notin 1 .. n /\ j \notin 1 .. n
    <3>1. i - n = j - n
      BY <1>1, <1>4, <1>6, <2>3 DEF IsInjective
    <3> QED
      BY <1>1, <3>1
  <2> QED
    BY <1>4, <2>1, <2>2, <2>3
<1>7. a # <<>> => c # <<>>
  BY <1>1 DEF n
<1> QED
  BY <1>1, <1>5, <1>6, <1>7 DEF c

\* Two groups made one still divide the class.
LEMMA MergedIs ==
    ASSUME NEW R \in SUBSET Int, NEW gaps, GapsOfAll(gaps, R),
           NEW groups \in Nat, groups > 1, NEW b \in Buckets(R)
    PROVE  /\ MergeSmallest(b, gaps, groups) \in Buckets(R)
           /\ Len(MergeSmallest(b, gaps, groups))
                = IF Len(b) <= groups THEN Len(b) ELSE Len(b) - 1
<1>1. CASE Len(b) <= groups
  BY <1>1 DEF MergeSmallest
<1>2. CASE ~(Len(b) <= groups)
  <2> DEFINE average(a) == AverageSeverity(gaps, a, Shared(b))
             keys == [i \in DOMAIN b |-> <<Len(b[i])>> \o average(b[i])]
             o == SortedBy(b, keys)
             n == Len(b)
             r == Ranked(o[1] \o o[2], gaps)
             t == Append(SubSeq(o, 3, Len(o)), r)
  <2>1. MergeSmallest(b, gaps, groups) = t
    BY <1>2 DEF MergeSmallest
  <2>2. b \in Seq(Seq(R)) /\ n \in Nat /\ DOMAIN b = 1 .. n /\ n > 2
    BY <1>2, BucketIs
  <2>3. o \in Buckets(R) /\ Len(o) = n
    <3>1. DOMAIN keys = 1 .. n
      BY <2>2
    <3>2. ASSUME NEW i \in 1 .. n PROVE keys[i] \in Keys(3)
      <4>1. b[i] \in Seq(R) /\ b[i] # <<>>
        BY BucketIs
      <4>2. Shared(b) \in Nat
        BY <2>2, SharedIsNat
      <4>3. average(b[i]) \in Keys(2)
        BY <4>1, <4>2, AverageIs
      <4>4. <<Len(b[i])>> \in Seq(Int) /\ Len(<<Len(b[i])>>) = 1
        BY <4>1
      <4> HIDE DEF average
      <4>5. <<Len(b[i])>> \o average(b[i]) \in Keys(3)
        <5>1. PICK x : x = <<Len(b[i])>>
          OBVIOUS
        <5>2. PICK y : y = average(b[i])
          OBVIOUS
        <5>3. x \in Seq(Int) /\ Len(x) = 1 /\ y \in Seq(Int) /\ Len(y) = 2
          BY <4>3, <4>4, <5>1, <5>2 DEF Keys
        <5>4. x \o y \in Seq(Int) /\ Len(x \o y) = Len(x) + Len(y)
          BY <5>3, ConcatProperties
        <5> QED
          BY <5>1, <5>2, <5>3, <5>4 DEF Keys
      <4> QED
        BY <2>2, <4>5
    <3>3. 3 \in Nat
      OBVIOUS
    <3> HIDE DEF keys
    <3>4. Drawn(o, b, 1 .. n)
      BY <2>2, <3>1, <3>2, <3>3, SortedIsDrawn
    <3> HIDE DEF o
    <3> QED
      BY <3>4, BucketsDrawn
  <2> HIDE DEF o, keys, n
  <2>4. /\ o \in Seq(Seq(R)) /\ DOMAIN o = 1 .. n
        /\ \A i \in 1 .. n : /\ o[i] \in Seq(R) /\ IsInjective(o[i]) /\ o[i] # <<>>
                             /\ Range(o[i]) \subseteq R
        /\ \A i, j \in 1 .. n : i # j => Range(o[i]) \cap Range(o[j]) = {}
        /\ \A x \in R : \E i \in 1 .. n : x \in Range(o[i])
    BY <2>3, BucketIs
  <2>5. 1 \in 1 .. n /\ 2 \in 1 .. n
    BY <2>2
  <2>6. /\ o[1] \o o[2] \in Seq(R) /\ IsInjective(o[1] \o o[2])
        /\ Range(o[1] \o o[2]) = Range(o[1]) \union Range(o[2])
        /\ o[1] \o o[2] # <<>>
    BY <2>4, <2>5, ConcatIs
  <2>7. /\ r \in Seq(R) /\ IsInjective(r) /\ r # <<>>
        /\ Range(r) = Range(o[1]) \union Range(o[2])
    <3>1. PICK c : c = o[1] \o o[2]
      OBVIOUS
    <3>2. /\ Ranked(c, gaps) \in Seq(R) /\ Len(Ranked(c, gaps)) = Len(c)
          /\ Range(Ranked(c, gaps)) = Range(c) /\ IsInjective(Ranked(c, gaps))
      BY <2>6, <3>1, RankedIs
    <3>3. Ranked(c, gaps) # <<>>
      <4>2. c \in Seq(R) /\ c # <<>>
        BY <2>6, <3>1
      <4>1. Len(c) # 0
        BY <4>2, EmptySeq
      <4> QED
        BY <3>2, <4>1
    <3> QED
      BY <2>6, <3>1, <3>2, <3>3
  <2> HIDE DEF r
  <2>8. /\ t \in Seq(Seq(R)) /\ Len(t) = n - 1
        /\ \A i \in 1 .. n - 1 : t[i] = IF i = n - 1 THEN r ELSE o[i + 2]
    <3>1. /\ SubSeq(o, 3, n) \in Seq(Seq(R)) /\ Len(SubSeq(o, 3, n)) = n - 2
          /\ \A i \in 1 .. n - 2 : SubSeq(o, 3, n)[i] = o[i + 2]
      BY <2>2, <2>3, <2>4
    <3>2. PICK s : s = SubSeq(o, 3, n)
      OBVIOUS
    <3>3. t = Append(s, r)
      BY <2>3, <3>2
    <3> QED
      BY <2>2, <2>7, <3>1, <3>2, <3>3
  <2> HIDE DEF t
  <2>9. \A i \in 1 .. n - 1 : i # n - 1 => i + 2 \in 1 .. n /\ i + 2 # 1 /\ i + 2 # 2
    BY <2>2
  <2>10. \A i \in 1 .. n - 1 : IsInjective(t[i]) /\ t[i] # <<>>
    BY <2>4, <2>7, <2>8, <2>9
  <2>11. \A i, j \in 1 .. n - 1 : i # j => Range(t[i]) \cap Range(t[j]) = {}
    <3> SUFFICES ASSUME NEW i \in 1 .. n - 1, NEW j \in 1 .. n - 1, i # j
                 PROVE  Range(t[i]) \cap Range(t[j]) = {}
      OBVIOUS
    <3>1. CASE i # n - 1 /\ j # n - 1
      <4>1. /\ i + 2 # j + 2 /\ i + 2 \in 1 .. n /\ j + 2 \in 1 .. n
            /\ t[i] = o[i + 2] /\ t[j] = o[j + 2]
        BY <2>8, <2>9, <3>1
      <4> QED
        BY <2>4, <4>1
    <3>2. CASE i = n - 1 /\ j # n - 1
      BY <2>4, <2>5, <2>7, <2>8, <2>9, <3>2
    <3>3. CASE i # n - 1 /\ j = n - 1
      BY <2>4, <2>5, <2>7, <2>8, <2>9, <3>3
    <3> QED
      BY <3>1, <3>2, <3>3
  <2>12. ASSUME NEW x \in R PROVE \E i \in 1 .. n - 1 : x \in Range(t[i])
    <3>1. PICK i \in 1 .. n : x \in Range(o[i])
      BY <2>4
    <3>2. CASE i \in {1, 2}
      <4>1. n - 1 \in 1 .. n - 1
        BY <2>2
      <4> QED
        BY <2>7, <2>8, <3>1, <3>2, <4>1
    <3>3. CASE i \notin {1, 2}
      <4>1. i - 2 \in 1 .. n - 1 /\ i - 2 # n - 1 /\ (i - 2) + 2 = i
        BY <2>2, <3>3
      <4>2. t[i - 2] = o[i]
        BY <2>8, <4>1
      <4> QED
        BY <3>1, <4>1, <4>2
    <3> QED
      BY <3>2, <3>3
  <2>13. n - 1 \in Nat
    BY <2>2
  <2>14. t \in Buckets(R)
    BY <2>8, <2>10, <2>11, <2>12, <2>13, BucketsAre
  <2> QED
    BY <1>2, <2>1, <2>8, <2>14 DEF n
<1> QED
  BY <1>1, <1>2


LEMMA BeforeOfOne ==
    ASSUME NEW k \in Int, NEW l \in Int, k < l
    PROVE  Before(<<k>>, <<l>>)
<1>1. 1 \in DOMAIN <<k>> /\ <<k>>[1] = k /\ <<l>>[1] = l
  OBVIOUS
<1>2. \A j \in 1 .. 1 - 1 : <<k>>[j] = <<l>>[j]
  OBVIOUS
<1> QED
  BY <1>1, <1>2 DEF Before

\* A group cut in two leaves the class divided, and there is one to cut as long
\* as the groups are fewer than the pupils.
LEMMA SplitIs ==
    ASSUME NEW R, IsFiniteSet(R), NEW groups \in Nat, Cardinality(R) > groups,
           NEW b \in Buckets(R)
    PROVE  /\ SplitLargest(b, groups) \in Buckets(R)
           /\ Len(SplitLargest(b, groups))
                = IF Len(b) < groups THEN Len(b) + 1 ELSE Len(b)
<1>1. CASE Len(b) >= groups
  <2>1. Len(b) \in Nat
    BY BucketIs
  <2> QED
    BY <1>1, <2>1 DEF SplitLargest
<1>2. CASE ~(Len(b) >= groups)
  <2> DEFINE keys == [i \in DOMAIN b |-> <<0 - Len(b[i])>>]
             o == SortedBy(b, keys)
             n == Len(b)
             big == o[1]
             half == (Len(big) + 1) \div 2
             x == SubSeq(big, 1, half)
             y == SubSeq(big, half + 1, Len(big))
             t == Append(Append(Tail(o), x), y)
  <2>1. /\ b \in Seq(Seq(R)) /\ n \in Nat /\ DOMAIN b = 1 .. n
        /\ \A i \in 1 .. n : b[i] \in Seq(R) /\ Len(b[i]) \in Nat /\ b[i] # <<>>
        /\ \A z \in R : \E i \in 1 .. n : z \in Range(b[i])
    <3>1. \A i \in 1 .. n : b[i] \in Seq(R) /\ b[i] # <<>>
      BY BucketIs
    <3>2. \A i \in 1 .. n : Len(b[i]) \in Nat
      BY <3>1
    <3> QED
      BY <3>1, <3>2, BucketIs
  <2> HIDE DEF n
  <2>2. n < groups /\ Cardinality(R) > n /\ Cardinality(R) \in Nat
    <3>1. Cardinality(R) \in Nat
      BY FS_CardinalityType
    <3> QED
      BY <1>2, <2>1, <3>1 DEF n
  <2>3. n # 0
    <3>1. R # {}
      BY <2>1, <2>2, FS_EmptySet
    <3> QED
      BY <2>1, <3>1
  <2>4. DOMAIN keys = 1 .. n /\ \A i \in 1 .. n : keys[i] = <<0 - Len(b[i])>>
    BY <2>1
  <2>5. \A i \in 1 .. n : keys[i] \in Keys(1)
    <3> SUFFICES ASSUME NEW i \in 1 .. n PROVE keys[i] \in Keys(1)
      OBVIOUS
    <3>1. PICK k \in Int : k = 0 - Len(b[i])
      BY <2>1
    <3>2. keys[i] = <<k>>
      BY <2>4, <3>1
    <3> HIDE DEF keys
    <3> QED
      BY <3>2 DEF Keys
  <2> HIDE DEF keys
  <2>6. /\ Drawn(o, b, 1 .. n)
        /\ \E p \in 1 .. n : /\ o[1] = b[p]
                             /\ \A i \in 1 .. n : ~Before(keys[i], keys[p])
    <3>1. 1 \in Nat /\ b # <<>>
      BY <2>1, <2>3 DEF n
    <3>2. PICK V : V = Seq(R)
      OBVIOUS
    <3> QED
      BY <2>1, <2>4, <2>5, <3>1, <3>2, SortedIsDrawn DEF n
  <2> HIDE DEF o
  <2>7. o \in Buckets(R) /\ Len(o) = n
    BY <2>6, BucketsDrawn DEF n
  <2>8. /\ o \in Seq(Seq(R)) /\ DOMAIN o = 1 .. n
        /\ \A i \in 1 .. n : /\ o[i] \in Seq(R) /\ IsInjective(o[i]) /\ o[i] # <<>>
                             /\ Range(o[i]) \subseteq R
        /\ \A i, j \in 1 .. n : i # j => Range(o[i]) \cap Range(o[j]) = {}
        /\ \A z \in R : \E i \in 1 .. n : z \in Range(o[i])
    BY <2>7, BucketIs
  <2>9. 1 \in 1 .. n
    BY <2>1, <2>3
  <2>10. /\ big \in Seq(R) /\ IsInjective(big) /\ Range(big) \subseteq R
         /\ Len(big) \in Nat /\ big # <<>>
    <3>1. big \in Seq(R) /\ IsInjective(big) /\ Range(big) \subseteq R /\ big # <<>>
      BY <2>8, <2>9
    <3> QED
      BY <3>1
  <2>11. Len(big) >= 2
    <3> SUFFICES ASSUME Len(big) < 2 PROVE FALSE
      BY <2>10
    <3>1. PICK p \in 1 .. n : big = b[p] /\ \A i \in 1 .. n : ~Before(keys[i], keys[p])
      BY <2>6
    <3>2. ASSUME NEW i \in 1 .. n PROVE Len(b[i]) = 1
      <4>1. PICK k \in Int : k = 0 - Len(b[i])
        BY <2>1
      <4>2. PICK l \in Int : l = 0 - Len(b[p])
        BY <2>1
      <4>3. keys[i] = <<k>> /\ keys[p] = <<l>>
        BY <2>4, <4>1, <4>2
      <4>4. ~(k < l)
        BY <3>1, <4>3, BeforeOfOne
      <4>5. Len(b[i]) # 0
        <5>1. PICK c \in Seq(R) : c = b[i] /\ c # <<>>
          BY <2>1
        <5> QED
          BY <5>1, EmptySeq
      <4>6. Len(b[p]) < 2 /\ Len(b[p]) \in Nat /\ Len(b[i]) \in Nat
        BY <2>1, <3>1
      <4>7. PICK u, v : u = Len(b[i]) /\ v = Len(b[p])
        OBVIOUS
      <4>8. u \in Nat /\ v \in Nat /\ v < 2 /\ u # 0 /\ ~(0 - u < 0 - v)
        BY <4>1, <4>2, <4>4, <4>5, <4>6, <4>7
      <4>9. u = 1
        BY <4>8
      <4> QED
        BY <4>7, <4>9
    <3> DEFINE f == [i \in 1 .. n |-> b[i][1]]
    <3>3. f \in Surjection(1 .. n, R)
      <4>1. ASSUME NEW i \in 1 .. n PROVE DOMAIN b[i] = {1} /\ b[i][1] \in R
        <5>1. PICK c \in Seq(R) : c = b[i]
          BY <2>1
        <5>2. Len(c) = 1
          BY <3>2, <5>1
        <5>3. DOMAIN c = 1 .. Len(c) /\ \A j \in 1 .. Len(c) : c[j] \in R
          OBVIOUS
        <5>4. 1 .. 1 = {1} /\ 1 \in 1 .. 1
          OBVIOUS
        <5> QED
          BY <5>1, <5>2, <5>3, <5>4
      <4>2. f \in [1 .. n -> R]
        BY <4>1
      <4>3. \A z \in R : \E i \in 1 .. n : f[i] = z
        BY <2>1, <4>1 DEF Range
      <4> QED
        BY <4>2, <4>3 DEF Surjection
    <3>4. Cardinality(R) <= n
      <4>1. ExistsSurjection(1 .. n, R)
        BY <3>3 DEF ExistsSurjection
      <4> QED
        BY <2>1, <4>1, FS_SurjCardinalityBound
    <3> QED
      BY <2>1, <2>2, <3>4
  <2>12. SplitLargest(b, groups) = t
    <3>1. ~(Len(b) >= groups \/ Len(big) < 2)
      BY <1>2, <2>10, <2>11
    <3>2. SplitLargest(b, groups)
            = IF Len(b) >= groups \/ Len(big) < 2 THEN b ELSE t
      BY DEF SplitLargest, o, keys
    <3> QED
      BY <3>1, <3>2
  <2> HIDE DEF big
  <2>13. half \in 1 .. Len(big) - 1
    BY <2>10, <2>11
  <2> HIDE DEF half
  <2>14. /\ x \in Seq(R) /\ Len(x) = half
         /\ \A i \in 1 .. half : x[i] = big[i]
         /\ y \in Seq(R) /\ Len(y) = Len(big) - half
         /\ \A i \in 1 .. Len(big) - half : y[i] = big[i + half]
    <3>1. \A i \in 1 .. Len(big) : big[i] \in R
      BY <2>10
    <3> QED
      BY <2>10, <2>13, <3>1
  <2> HIDE DEF x, y
  <2>15. /\ DOMAIN x = 1 .. half /\ DOMAIN y = 1 .. Len(big) - half
         /\ DOMAIN big = 1 .. Len(big) /\ x # <<>> /\ y # <<>>
    <3>1. Len(x) # 0 /\ Len(y) # 0
      BY <2>10, <2>13, <2>14
    <3>2. DOMAIN x = 1 .. Len(x) /\ DOMAIN y = 1 .. Len(y) /\ DOMAIN big = 1 .. Len(big)
      BY <2>10, <2>14
    <3>3. x # <<>> /\ y # <<>>
      BY <3>1, EmptySeq
    <3> QED
      BY <2>14, <3>2, <3>3
  <2>16. \A i, j \in 1 .. Len(big) : big[i] = big[j] => i = j
    BY <2>10, <2>15 DEF IsInjective
  <2>17. /\ \A i \in 1 .. half : i \in 1 .. Len(big)
         /\ \A i \in 1 .. Len(big) - half : i + half \in 1 .. Len(big)
                                            /\ i + half \notin 1 .. half
    BY <2>10, <2>13
  <2>18. IsInjective(x) /\ IsInjective(y)
    <3>1. IsInjective(x)
      BY <2>14, <2>15, <2>16, <2>17 DEF IsInjective
    <3>2. ASSUME NEW i \in 1 .. Len(big) - half, NEW j \in 1 .. Len(big) - half,
                 y[i] = y[j]
          PROVE  i = j
      <4>2. y[i] = big[i + half] /\ y[j] = big[j + half]
        BY <2>14
      <4>3. i + half \in 1 .. Len(big) /\ j + half \in 1 .. Len(big)
        BY <2>17
      <4>1. i + half = j + half
        BY <2>16, <3>2, <4>2, <4>3
      <4> QED
        BY <2>10, <2>13, <4>1
    <3>3. IsInjective(y)
      BY <2>15, <3>2 DEF IsInjective
    <3> QED
      BY <3>1, <3>3
  <2>19. /\ Range(x) \cap Range(y) = {}
         /\ Range(x) \subseteq Range(big) /\ Range(y) \subseteq Range(big)
         /\ Range(big) \subseteq Range(x) \union Range(y)
    <3>1. Range(x) \subseteq Range(big) /\ Range(y) \subseteq Range(big)
      BY <2>14, <2>15, <2>17 DEF Range
    <3>2. Range(x) \cap Range(y) = {}
      <4> SUFFICES ASSUME NEW i \in 1 .. half, NEW j \in 1 .. Len(big) - half,
                          x[i] = y[j]
                   PROVE  FALSE
        BY <2>15 DEF Range
      <4>1. i = j + half
        BY <2>14, <2>16, <2>17
      <4> QED
        BY <2>17, <4>1
    <3>3. ASSUME NEW i \in 1 .. Len(big) PROVE big[i] \in Range(x) \union Range(y)
      <4>1. CASE i <= half
        <5>1. i \in 1 .. half
          BY <2>13, <4>1
        <5> QED
          BY <2>14, <2>15, <5>1 DEF Range
      <4>2. CASE i > half
        <5>1. i - half \in 1 .. Len(big) - half /\ (i - half) + half = i
          BY <2>10, <2>13, <4>2
        <5>2. y[i - half] = big[i]
          BY <2>14, <5>1
        <5> QED
          BY <2>15, <5>1, <5>2 DEF Range
      <4> QED
        BY <2>13, <4>1, <4>2
    <3>4. Range(big) \subseteq Range(x) \union Range(y)
      BY <2>15, <3>3 DEF Range
    <3> QED
      BY <3>1, <3>2, <3>4
  <2>20. /\ t \in Seq(Seq(R)) /\ Len(t) = n + 1
         /\ \A i \in 1 .. n - 1 : t[i] = o[i + 1]
         /\ t[n] = x /\ t[n + 1] = y
    <3>1. /\ Tail(o) \in Seq(Seq(R)) /\ Len(Tail(o)) = n - 1
          /\ \A i \in 1 .. n - 1 : Tail(o)[i] = o[i + 1]
      BY <2>1, <2>3, <2>7, <2>8
    <3>2. PICK r : r = Tail(o)
      OBVIOUS
    <3>3. PICK s : s = Append(r, x)
      OBVIOUS
    <3>4. /\ s \in Seq(Seq(R)) /\ Len(s) = n
          /\ \A i \in 1 .. n - 1 : s[i] = o[i + 1]
          /\ s[n] = x
      <4>1. /\ s \in Seq(Seq(R)) /\ Len(s) = Len(r) + 1
            /\ \A i \in 1 .. Len(r) : s[i] = r[i] /\ s[Len(r) + 1] = x
        BY <2>14, <3>1, <3>2, <3>3, AppendProperties
      <4>2. Len(r) = n - 1 /\ Len(r) + 1 = n
        BY <2>1, <3>1, <3>2
      <4>3. s[Len(r) + 1] = x
        BY <2>14, <3>1, <3>2, <3>3, AppendProperties
      <4> QED
        BY <3>1, <3>2, <4>1, <4>2, <4>3
    <3>5. t = Append(s, y)
      BY <3>2, <3>3
    <3>6. /\ t \in Seq(Seq(R)) /\ Len(t) = Len(s) + 1
          /\ \A i \in 1 .. Len(s) : t[i] = s[i]
          /\ t[Len(s) + 1] = y
      <4>1. PICK u : u = t
        OBVIOUS
      <4>2. u = Append(s, y)
        BY <3>5, <4>1
      <4>3. u \in Seq(Seq(R)) /\ Len(u) = Len(s) + 1 /\ u[Len(s) + 1] = y
            /\ \A i \in 1 .. Len(s) : u[i] = s[i]
        BY <2>14, <3>4, <4>2, AppendProperties
      <4> QED
        BY <4>1, <4>3
    <3>7. n \in 1 .. n /\ \A i \in 1 .. n - 1 : i \in 1 .. n
      BY <2>1, <2>3
    <3> QED
      BY <3>4, <3>6, <3>7
  <2> HIDE DEF t
  <2>21. \A i \in 1 .. n + 1 :
           \/ i \in 1 .. n - 1 /\ i + 1 \in 1 .. n /\ i + 1 # 1 /\ t[i] = o[i + 1]
           \/ i = n /\ t[i] = x
           \/ i = n + 1 /\ t[i] = y
    <3>1. \A i \in 1 .. n + 1 :
            \/ i \in 1 .. n - 1 /\ i + 1 \in 1 .. n /\ i + 1 # 1
            \/ i = n \/ i = n + 1
      BY <2>1, <2>3
    <3> QED
      BY <2>20, <3>1
  <2>22. \A i \in 1 .. n + 1 : IsInjective(t[i]) /\ t[i] # <<>>
    BY <2>8, <2>15, <2>18, <2>21
  <2>23. \A i \in 1 .. n : i # 1 => /\ Range(o[i]) \cap Range(x) = {}
                                    /\ Range(o[i]) \cap Range(y) = {}
    BY <2>8, <2>9, <2>19 DEF big
  <2>24. ASSUME NEW i \in 1 .. n + 1, NEW j \in 1 .. n + 1, i # j
         PROVE  Range(t[i]) \cap Range(t[j]) = {}
    <3>1. CASE i \in 1 .. n - 1 /\ j \in 1 .. n - 1
      <4>2. i + 1 \in 1 .. n /\ j + 1 \in 1 .. n
        <5>1. n \in Nat
          BY <2>1
        <5> QED
          BY <3>1, <5>1
      <4>3. i + 1 # j + 1
        BY <2>24, <3>1
      <4>1. /\ i + 1 # j + 1 /\ i + 1 \in 1 .. n /\ j + 1 \in 1 .. n
            /\ t[i] = o[i + 1] /\ t[j] = o[j + 1]
        BY <2>20, <3>1, <4>2, <4>3
      <4> QED
        BY <2>8, <4>1
    <3>2. CASE i \in 1 .. n - 1 /\ j \notin 1 .. n - 1
      BY <2>21, <2>23, <3>2
    <3>3. CASE i \notin 1 .. n - 1 /\ j \in 1 .. n - 1
      BY <2>21, <2>23, <3>3
    <3>4. CASE i \notin 1 .. n - 1 /\ j \notin 1 .. n - 1
      BY <2>19, <2>21, <2>24, <3>4
    <3> QED
      BY <3>1, <3>2, <3>3, <3>4
  <2>25. ASSUME NEW z \in R PROVE \E i \in 1 .. n + 1 : z \in Range(t[i])
    <3>1. PICK i \in 1 .. n : z \in Range(o[i])
      BY <2>8
    <3>2. CASE i = 1
      <4>1. z \in Range(x) \/ z \in Range(y)
        BY <2>19, <3>1, <3>2 DEF big
      <4>2. n \in 1 .. n + 1 /\ n + 1 \in 1 .. n + 1
        BY <2>1, <2>3
      <4> QED
        BY <2>20, <4>1, <4>2
    <3>3. CASE i # 1
      <4>1. i - 1 \in 1 .. n - 1 /\ i - 1 \in 1 .. n + 1 /\ (i - 1) + 1 = i
        BY <2>1, <3>3
      <4>2. t[i - 1] = o[i]
        BY <2>20, <4>1
      <4> QED
        BY <3>1, <4>1, <4>2
    <3> QED
      BY <3>2, <3>3
  <2>26. n + 1 \in Nat
    BY <2>1
  <2>27. t \in Buckets(R)
    BY <2>20, <2>22, <2>24, <2>25, <2>26, BucketsAre
  <2> QED
    BY <1>2, <2>1, <2>2, <2>12, <2>20, <2>27 DEF n
<1> QED
  BY <1>1, <1>2


\* A list is of what is in it.
LEMMA RangeIs ==
    ASSUME NEW V, NEW s \in Seq(V)
    PROVE  s \in Seq(Range(s)) /\ Range(s) \subseteq V
  BY DEF Range

\* The pupils by their principal gap divide the class.
LEMMA PrincipalGapsDivide ==
    ASSUME NEW roster \in Seq(Int), IsInjective(roster), NEW gaps,
           GapsOfAll(gaps, Range(roster))
    PROVE  ByPrincipalGap(roster, gaps) \in Buckets(Range(roster))
<1> DEFINE R == Range(roster)
           D == 1 .. Len(roster)
           principal(i) == IF gaps[roster[i]] = <<>> THEN <<>>
                           ELSE <<gaps[roster[i]][1].competency>>
           alike(i) == {j \in DOMAIN roster : principal(j) = principal(i)}
           F == {i \in DOMAIN roster : \A j \in alike(i) : i <= j}
           first == Ascending(F)
           n == Cardinality(F)
           t == [k \in DOMAIN first |-> Ranked(Those(roster, alike(first[k])), gaps)]
<1>1. DOMAIN roster = D /\ Len(roster) \in Nat
  OBVIOUS
<1>2. roster \in Seq(R) /\ R \in SUBSET Int
  BY RangeIs
<1>3. /\ \A i \in D : i \in alike(i) /\ alike(i) \in SUBSET D
      /\ \A i \in D, j \in D : j \in alike(i) => alike(j) = alike(i)
  BY <1>1
<1>4. \A i \in D : i \in F <=> \A j \in alike(i) : i <= j
  BY <1>1
<1>5. F \in SUBSET D
  BY <1>1
<1> HIDE DEF alike, F
<1>6. IsFiniteSet(F) /\ Places(first, F, Smaller(F))
  BY <1>1, <1>5, AscendingPlaces
<1>7. n \in Nat
  BY <1>6, FS_CardinalityType
<1> HIDE DEF n, first
<1>8. /\ first \in [1 .. n -> F]
      /\ \A i, j \in 1 .. n : first[i] = first[j] => i = j
      /\ \A x \in F : \E i \in 1 .. n : first[i] = x
  BY <1>6 DEF Places, Bijection, Injection, Surjection, IsInjective, n
<1> DEFINE group(k) == Ranked(Those(roster, alike(first[k])), gaps)
<1>9. ASSUME NEW k \in 1 .. n
      PROVE  /\ group(k) \in Seq(R) /\ IsInjective(group(k)) /\ group(k) # <<>>
             /\ Range(group(k)) = At(roster, alike(first[k]))
  <2>1. first[k] \in D /\ alike(first[k]) \in SUBSET D /\ alike(first[k]) # {}
    BY <1>3, <1>5, <1>8
  <2>2. PICK I \in SUBSET D : I = alike(first[k]) /\ I # {}
    BY <2>1
  <2>3. PICK b : b = Those(roster, I)
    OBVIOUS
  <2> HIDE DEF R
  <2>4. b \in Seq(R) /\ Range(b) = At(roster, I) /\ IsInjective(b) /\ b # <<>>
    BY <1>2, <2>2, <2>3, ThoseIs
  <2>5. GapsOfAll(gaps, R)
    BY DEF R
  <2>6. PICK r : r = Ranked(b, gaps)
    OBVIOUS
  <2>7. /\ r \in Seq(R) /\ Len(r) = Len(b) /\ Range(r) = Range(b) /\ IsInjective(r)
    BY <1>2, <2>4, <2>5, <2>6, RankedIs
  <2>8. r # <<>>
    <3>1. Len(b) # 0
      BY <2>4, EmptySeq
    <3> QED
      BY <2>7, <3>1
  <2> QED
    BY <2>2, <2>3, <2>4, <2>6, <2>7, <2>8
<1> HIDE DEF group
<1>10. t = [k \in 1 .. n |-> group(k)]
  BY <1>8 DEF group
<1>11. t \in Seq(Seq(R)) /\ Len(t) = n /\ \A k \in 1 .. n : t[k] = group(k)
  <2> HIDE DEF R, t
  <2>1. \A k \in 1 .. n : group(k) \in Seq(R)
    BY <1>9
  <2> QED
    BY <1>7, <1>10, <2>1
<1>12. \A k \in 1 .. n : IsInjective(t[k]) /\ t[k] # <<>>
  <2> HIDE DEF t
  <2> QED
    BY <1>9, <1>11
<1>13. ASSUME NEW k \in 1 .. n, NEW l \in 1 .. n, k # l
       PROVE  Range(t[k]) \cap Range(t[l]) = {}
  <2> SUFFICES ASSUME NEW i \in alike(first[k]), NEW j \in alike(first[l]),
                      roster[i] = roster[j]
               PROVE  FALSE
    <3> HIDE DEF t
    <3> QED
      BY <1>9, <1>11 DEF At
  <2>1. /\ first[k] \in F /\ first[l] \in F /\ first[k] \in D /\ first[l] \in D
        /\ i \in D /\ j \in D
    BY <1>3, <1>5, <1>8
  <2>2. i = j
    BY <1>1, <2>1 DEF IsInjective
  <2>3. alike(first[k]) = alike(first[l])
    BY <1>3, <2>1, <2>2
  <2>4. first[k] \in alike(first[l]) /\ first[l] \in alike(first[k])
    BY <1>3, <2>1, <2>3
  <2>5. first[k] <= first[l] /\ first[l] <= first[k]
    BY <1>4, <2>1, <2>4
  <2>6. first[k] = first[l]
    BY <2>1, <2>5
  <2> QED
    BY <1>8, <1>13, <2>6
<1>14. ASSUME NEW x \in R PROVE \E k \in 1 .. n : x \in Range(t[k])
  <2>1. PICK j \in D : roster[j] = x
    BY <1>1 DEF Range
  <2>2. alike(j) \in SUBSET Nat /\ alike(j) # {}
    <3>1. alike(j) \in SUBSET D /\ D \in SUBSET Nat
      BY <1>3
    <3> QED
      BY <1>3, <3>1
  <2>3. PICK i \in alike(j) : \A h \in alike(j) : i <= h
    BY <2>2, First
  <2>4. i \in D /\ alike(i) = alike(j)
    BY <1>3, <2>3
  <2>5. i \in F
    BY <1>4, <2>3, <2>4
  <2>6. PICK k \in 1 .. n : first[k] = i
    BY <1>8, <2>5
  <2>7. j \in alike(first[k])
    BY <1>3, <2>4, <2>6
  <2>8. x \in At(roster, alike(first[k]))
    BY <2>1, <2>7 DEF At
  <2> HIDE DEF t
  <2> QED
    BY <1>9, <1>11, <2>8
<1>15. ByPrincipalGap(roster, gaps) = t
  BY DEF ByPrincipalGap, first, F, alike
<1>16. t \in Buckets(R)
  <2> HIDE DEF t, R
  <2> QED
    BY <1>7, <1>11, <1>12, <1>13, <1>14, BucketsAre
<1> QED
  <2> HIDE DEF t
  <2> QED
    BY <1>15, <1>16

\* Merging and splitting go on until there are as many groups as were asked.
LEMMA AllMerged ==
    ASSUME NEW R \in SUBSET Int, NEW gaps, GapsOfAll(gaps, R),
           NEW groups \in Nat, groups > 1, NEW b \in Buckets(R)
    PROVE  /\ MergeAll(b, gaps, groups) \in Buckets(R)
           /\ Len(MergeAll(b, gaps, groups)) <= groups
<1> DEFINE N == Len(b)
           S == Buckets(R)
           start == b
           step == [k \in 1 .. N |-> [x \in S |-> MergeSmallest(x, gaps, groups)]]
           body(f) == [n \in 0 .. N |-> IF n = 0 THEN start ELSE MergeSmallest(f[n - 1], gaps, groups)]
           upTo == CHOOSE f : f = body(f)
<1>1. N \in Nat /\ start \in S /\ \A k \in 1 .. N, x \in S : MergeSmallest(x, gaps, groups) \in S
  BY MergedIs, BucketIs
<1> HIDE DEF N, S, start
<1>2. step \in Steps(N, S)
  BY <1>1 DEF Steps
<1>3. \A k \in 1 .. N : k - 1 \in 0 .. N /\ k # 0 /\ k \in 0 .. N
  BY <1>1
<1>4. PICK f : Recurs(f, N, S, start, step)
  <2> HIDE DEF step
  <2> QED
    BY <1>1, <1>2, Recursion
<1>5. f = body(f)
  <2>1. \A k \in 0 .. N : k # 0 => k \in 1 .. N
    BY <1>1
  <2>2. ASSUME NEW n \in 1 .. N PROVE f[n] = MergeSmallest(f[n - 1], gaps, groups)
    <3>1. f[n - 1] \in S /\ f[n] = step[n][f[n - 1]]
      BY <1>3, <1>4 DEF Recurs
    <3> QED
      BY <3>1
  <2>3. f[0] = start /\ f \in [0 .. N -> S]
    BY <1>4 DEF Recurs
  <2> QED
    BY <2>1, <2>2, <2>3
<1>6. upTo = body(upTo)
  <2> HIDE DEF body
  <2> QED
    BY <1>5
<1> HIDE DEF upTo
<1>7. Recurs(upTo, N, S, start, step)
  <2>1. IsOver(upTo, 0 .. N)
    <3>1. DOMAIN upTo = 0 .. N
      BY <1>6
    <3> QED
      BY <1>6, <3>1 DEF IsOver
  <2>2. upTo[0] = start
    BY <1>1, <1>6
  <2>3. ASSUME NEW n \in 1 .. N, upTo[n - 1] \in S PROVE upTo[n] = step[n][upTo[n - 1]]
    <3>1. upTo[n] = MergeSmallest(upTo[n - 1], gaps, groups)
      BY <1>3, <1>6
    <3> QED
      BY <2>3, <3>1
  <2> HIDE DEF step, body
  <2> QED
    BY <1>1, <1>2, <2>1, <2>2, <2>3, Computed
<1>8. upTo[N] \in Buckets(R)
  <2>1. N \in 0 .. N
    BY <1>1
  <2> QED
    BY <1>7, <2>1 DEF Recurs, S
<1> DEFINE Fewer == {k \in 0 .. N : Len(upTo[k]) <= groups \/ Len(upTo[k]) + k <= N}
<1>9. 0 \in Fewer
  <2>1. upTo[0] = b
    BY <1>7 DEF Recurs, start
  <2>2. Len(b) \in Nat
    BY BucketIs
  <2> QED
    BY <1>1, <2>1, <2>2 DEF N
<1>10. ASSUME NEW k \in 1 .. N, k - 1 \in Fewer PROVE k \in Fewer
  <2>1. upTo[k - 1] \in Buckets(R)
    BY <1>3, <1>7 DEF Recurs, S
  <2>2. upTo[k] = MergeSmallest(upTo[k - 1], gaps, groups)
    BY <1>3, <1>6
  <2>3. PICK x \in Buckets(R) : x = upTo[k - 1]
    BY <2>1
  <2>6. Len(MergeSmallest(x, gaps, groups))
          = IF Len(x) <= groups THEN Len(x) ELSE Len(x) - 1
    BY MergedIs
  <2>7. Len(x) \in Nat
    BY BucketIs
  <2>4. /\ Len(upTo[k]) = IF Len(x) <= groups THEN Len(x) ELSE Len(x) - 1
        /\ Len(x) \in Nat
    BY <2>2, <2>3, <2>6, <2>7
  <2>5. Len(x) <= groups \/ Len(x) + (k - 1) <= N
    BY <1>10, <2>3
  <2> QED
    BY <1>1, <2>4, <2>5
<1>11. Len(upTo[N]) <= groups
  <2> HIDE DEF Fewer
  <2>1. \A k \in 0 .. N : k \in Fewer
    BY <1>1, <1>9, <1>10, Induction
  <2>2. N \in 0 .. N /\ Len(upTo[N]) \in Nat
    BY <1>1, <1>8, BucketIs
  <2> QED
    BY <1>1, <2>1, <2>2 DEF Fewer
<1> QED
  BY <1>8, <1>11 DEF MergeAll, upTo, N, start

LEMMA AllSplit ==
    ASSUME NEW R, IsFiniteSet(R), NEW groups \in Nat, Cardinality(R) > groups,
           NEW b \in Buckets(R), Len(b) <= groups
    PROVE  /\ SplitAll(b, groups) \in Buckets(R)
           /\ Len(SplitAll(b, groups)) = groups
<1> DEFINE N == groups
           S == Buckets(R)
           start == b
           step == [k \in 1 .. N |-> [x \in S |-> SplitLargest(x, groups)]]
           body(f) == [n \in 0 .. N |-> IF n = 0 THEN start ELSE SplitLargest(f[n - 1], groups)]
           upTo == CHOOSE f : f = body(f)
<1>1. N \in Nat /\ start \in S /\ \A k \in 1 .. N, x \in S : SplitLargest(x, groups) \in S
  BY SplitIs
<1> HIDE DEF N, S, start
<1>2. step \in Steps(N, S)
  BY <1>1 DEF Steps
<1>3. \A k \in 1 .. N : k - 1 \in 0 .. N /\ k # 0 /\ k \in 0 .. N
  BY <1>1
<1>4. PICK f : Recurs(f, N, S, start, step)
  <2> HIDE DEF step
  <2> QED
    BY <1>1, <1>2, Recursion
<1>5. f = body(f)
  <2>1. \A k \in 0 .. N : k # 0 => k \in 1 .. N
    BY <1>1
  <2>2. ASSUME NEW n \in 1 .. N PROVE f[n] = SplitLargest(f[n - 1], groups)
    <3>1. f[n - 1] \in S /\ f[n] = step[n][f[n - 1]]
      BY <1>3, <1>4 DEF Recurs
    <3> QED
      BY <3>1
  <2>3. f[0] = start /\ f \in [0 .. N -> S]
    BY <1>4 DEF Recurs
  <2> QED
    BY <2>1, <2>2, <2>3
<1>6. upTo = body(upTo)
  <2> HIDE DEF body
  <2> QED
    BY <1>5
<1> HIDE DEF upTo
<1>7. Recurs(upTo, N, S, start, step)
  <2>1. IsOver(upTo, 0 .. N)
    <3>1. DOMAIN upTo = 0 .. N
      BY <1>6
    <3> QED
      BY <1>6, <3>1 DEF IsOver
  <2>2. upTo[0] = start
    BY <1>1, <1>6
  <2>3. ASSUME NEW n \in 1 .. N, upTo[n - 1] \in S PROVE upTo[n] = step[n][upTo[n - 1]]
    <3>1. upTo[n] = SplitLargest(upTo[n - 1], groups)
      BY <1>3, <1>6
    <3> QED
      BY <2>3, <3>1
  <2> HIDE DEF step, body
  <2> QED
    BY <1>1, <1>2, <2>1, <2>2, <2>3, Computed
<1>8. upTo[N] \in Buckets(R)
  <2>1. N \in 0 .. N
    BY <1>1
  <2> QED
    BY <1>7, <2>1 DEF Recurs, S
<1> DEFINE More == {k \in 0 .. N : Len(upTo[k]) <= N /\ Len(upTo[k]) >= k}
<1>9. 0 \in More
  <2>1. upTo[0] = b
    BY <1>7 DEF Recurs, start
  <2>2. Len(b) \in Nat
    BY BucketIs
  <2> QED
    BY <1>1, <2>1, <2>2 DEF N
<1>10. ASSUME NEW k \in 1 .. N, k - 1 \in More PROVE k \in More
  <2>1. upTo[k - 1] \in Buckets(R)
    BY <1>3, <1>7 DEF Recurs, S
  <2>2. upTo[k] = SplitLargest(upTo[k - 1], groups)
    BY <1>3, <1>6
  <2>3. PICK x \in Buckets(R) : x = upTo[k - 1]
    BY <2>1
  <2>4. /\ Len(upTo[k]) = IF Len(x) < N THEN Len(x) + 1 ELSE Len(x)
        /\ Len(x) \in Nat
    BY <2>2, <2>3, SplitIs, BucketIs DEF N
  <2>5. Len(x) <= N /\ Len(x) >= k - 1
    BY <1>10, <2>3
  <2> QED
    BY <1>1, <2>4, <2>5
<1>11. Len(upTo[N]) = N
  <2> HIDE DEF More
  <2>1. \A k \in 0 .. N : k \in More
    BY <1>1, <1>9, <1>10, Induction
  <2>2. N \in 0 .. N /\ Len(upTo[N]) \in Nat
    BY <1>1, <1>8, BucketIs
  <2> QED
    BY <1>1, <2>1, <2>2 DEF More
<1> QED
  BY <1>8, <1>11 DEF SplitAll, upTo, N, start


\* There are as many pupils as places on the class list.
LEMMA PupilsAreCounted ==
    ASSUME NEW roster \in Seq(Int), IsInjective(roster)
    PROVE  IsFiniteSet(Range(roster)) /\ Cardinality(Range(roster)) = Len(roster)
<1> DEFINE n == Len(roster)
<1>1. n \in Nat /\ DOMAIN roster = 1 .. n
  OBVIOUS
<1> HIDE DEF n
<1>2. roster \in Bijection(1 .. n, Range(roster))
  <2>1. roster \in [1 .. n -> Range(roster)]
    BY <1>1 DEF Range
  <2>2. \A x \in Range(roster) : \E i \in 1 .. n : roster[i] = x
    BY <1>1 DEF Range
  <2>3. \A i, j \in 1 .. n : roster[i] = roster[j] => i = j
    BY <1>1 DEF IsInjective
  <2> QED
    BY <1>1, <2>1, <2>2, <2>3 DEF Bijection, Injection, Surjection, IsInjective
<1>3. ExistsBijection(1 .. n, Range(roster))
  BY <1>2 DEF ExistsBijection
<1>4. Cardinality(Range(roster)) = n
  BY <1>1, <1>3, FS_CountingElements
<1>5. IsFiniteSet(Range(roster))
  BY <1>1, <1>3, FS_NatBijection
<1> QED
  BY <1>4, <1>5 DEF n

\* The rule gives as many groups as were asked for, and they divide the class.
LEMMA ClustersDivide ==
    ASSUME NEW roster \in Seq(Int), IsInjective(roster), NEW gaps,
           GapsOfAll(gaps, Range(roster)),
           NEW groups \in Nat, groups > 1, groups < Len(roster)
    PROVE  /\ ClusterStudents(roster, gaps, groups) \in Buckets(Range(roster))
           /\ Len(ClusterStudents(roster, gaps, groups)) = groups
<1> DEFINE R == Range(roster)
           a == ByPrincipalGap(roster, gaps)
           m == MergeAll(a, gaps, groups)
           b == SplitAll(m, groups)
           keys == [i \in DOMAIN b |-> AverageSeverity(gaps, b[i], Shared(b))]
           t == SortedBy(b, keys)
<1>1. R \in SUBSET Int /\ IsFiniteSet(R) /\ Cardinality(R) > groups
  <2>1. Range(roster) \subseteq Int
    BY RangeIs
  <2> QED
    BY <2>1, PupilsAreCounted
<1>2. a \in Buckets(R)
  BY PrincipalGapsDivide
<1>3. GapsOfAll(gaps, R)
  OBVIOUS
<1> HIDE DEF R, a
<1>4. m \in Buckets(R) /\ Len(m) <= groups
  BY <1>1, <1>2, <1>3, AllMerged
<1> HIDE DEF m
<1>5. b \in Buckets(R) /\ Len(b) = groups
  BY <1>1, <1>4, AllSplit
<1> HIDE DEF b
<1>6. b \in Seq(Seq(R)) /\ DOMAIN b = 1 .. Len(b)
  BY <1>5, BucketIs
<1>7. DOMAIN keys = 1 .. Len(b)
  BY <1>6
<1>8. ASSUME NEW i \in 1 .. Len(b) PROVE keys[i] \in Keys(2)
  <2>1. b[i] \in Seq(R) /\ b[i] # <<>>
    BY <1>5, BucketIs
  <2>2. Shared(b) \in Nat
    BY <1>6, SharedIsNat
  <2>3. AverageSeverity(gaps, b[i], Shared(b)) \in Keys(2)
    BY <1>1, <1>3, <2>1, <2>2, AverageIs
  <2> QED
    BY <1>7, <2>3
<1> HIDE DEF keys
<1>9. Drawn(t, b, 1 .. Len(b))
  <2>1. 2 \in Nat
    OBVIOUS
  <2>2. PICK V : V = Seq(R)
    OBVIOUS
  <2> QED
    BY <1>6, <1>7, <1>8, <2>1, <2>2, SortedIsDrawn
<1> HIDE DEF t
<1>10. t \in Buckets(R) /\ Len(t) = groups
  BY <1>5, <1>9, BucketsDrawn
<1>11. ClusterStudents(roster, gaps, groups) = t
  <2>1. ~(groups <= 1 \/ Len(roster) <= 1)
    OBVIOUS
  <2> QED
    BY <2>1 DEF ClusterStudents, t, keys, b, m, a
<1> QED
  BY <1>10, <1>11 DEF R

\* Every pupil has one seat in a partition a run may take, no group of a class
\* with pupils is empty, and there are as many groups as were asked for.
Seated(partition, pupils, q) ==
    /\ partition \in Seq(Seq(Int)) /\ Divides(partition, Range(pupils))
    /\ \A i \in DOMAIN partition : partition[i] # <<>> \/ pupils = <<>>
    /\ WantsGroups(q, pupils) => Len(partition) = q.groups

LEMMA BucketsAreSeated ==
    ASSUME NEW pupils \in Seq(Int), NEW q,
           NEW b \in Buckets(Range(pupils)), Len(b) = q.groups
    PROVE  Seated(b, pupils, q)
<1>1. /\ Divides(b, Range(pupils)) /\ \A i \in DOMAIN b : b[i] # <<>>
      /\ b \in Seq(Seq(Range(pupils)))
  BY DEF Buckets
<1>2. b \in Seq(Seq(Int))
  <2>1. DOMAIN b = 1 .. Len(b) /\ Len(b) \in Nat
    BY <1>1
  <2>2. PICK V, W : V = Seq(Range(pupils)) /\ W = Seq(Int)
    OBVIOUS
  <2>3. V \subseteq W
    <3>1. Range(pupils) \subseteq Int
      BY RangeIs
    <3> QED
      BY <2>2, <3>1
  <2>4. b \in Seq(V)
    BY <1>1, <2>2
  <2>5. b \in Seq(W)
    BY <2>3, <2>4
  <2> QED
    BY <2>2, <2>5
<1> QED
  BY <1>1, <1>2 DEF Seated

LEMMA OneIs ==
    ASSUME NEW x \in Int
    PROVE  /\ <<x>> \in Seq(Int) /\ IsInjective(<<x>>)
           /\ Range(<<x>>) = {x} /\ <<x>> # <<>>
<1>1. DOMAIN <<x>> = {1} /\ <<x>>[1] = x
  OBVIOUS
<1>2. IsInjective(<<x>>) /\ Range(<<x>>) = {x}
  BY <1>1 DEF IsInjective, Range
<1> QED
  BY <1>2

LEMMA PartitionsAreSeated ==
    ASSUME NEW q \in RequestType, NEW pupils \in Seq(Int), IsInjective(pupils),
           NEW gaps, GapsOfAll(gaps, Range(pupils)),
           NEW partition \in Partitions(q, pupils, gaps)
    PROVE  Seated(partition, pupils, q)
<1>1. q.groups \in Nat /\ Len(pupils) \in Nat
  BY DEF RequestType
<1>2. CASE WantsGroups(q, pupils)
  <2>1. q.groups > 1 /\ q.groups < Len(pupils)
    BY <1>2 DEF WantsGroups
  <2>2. /\ ClusterStudents(pupils, gaps, q.groups) \in Buckets(Range(pupils))
        /\ Len(ClusterStudents(pupils, gaps, q.groups)) = q.groups
    BY <1>1, <2>1, ClustersDivide
  <2>3. Seated(ClusterStudents(pupils, gaps, q.groups), pupils, q)
    BY <2>2, BucketsAreSeated
  <2>4. ASSUME NEW a \in Groupings, IsPartition(a, pupils, q.groups)
        PROVE  Seated(a, pupils, q)
    <3>1. a \in Seq(Seq(Int))
      BY AdaptiveAssumption
    <3> QED
      BY <2>4, <3>1 DEF IsPartition, Seated
  <2>5. \A a \in Groupings : Seated(ModelOrSeed(a, pupils, gaps, q.groups), pupils, q)
    BY <2>3, <2>4 DEF ModelOrSeed
  <2>6. \/ \E a \in Groupings : partition = ModelOrSeed(a, pupils, gaps, q.groups)
        \/ partition = ClusterStudents(pupils, gaps, q.groups)
    BY <1>2 DEF Partitions
  <2> QED
    BY <2>3, <2>5, <2>6
<1>3. CASE ~WantsGroups(q, pupils)
  <2>1. partition = <<pupils>> \/ partition = [i \in DOMAIN pupils |-> <<pupils[i]>>]
    BY <1>3 DEF Partitions
  <2>2. CASE partition = <<pupils>>
    <3>1. partition \in Seq(Seq(Int)) /\ DOMAIN partition = {1} /\ partition[1] = pupils
      BY <2>2
    <3>2. Divides(partition, Range(pupils))
      BY <3>1 DEF Divides
    <3> QED
      BY <1>3, <3>1, <3>2 DEF Seated
  <2>3. CASE partition = [i \in DOMAIN pupils |-> <<pupils[i]>>]
    <3>1. DOMAIN pupils = 1 .. Len(pupils) /\ \A i \in 1 .. Len(pupils) : pupils[i] \in Int
      OBVIOUS
    <3>2. DOMAIN partition = 1 .. Len(pupils)
      BY <2>3, <3>1
    <3>3. \A i \in 1 .. Len(pupils) :
            /\ partition[i] \in Seq(Int) /\ IsInjective(partition[i])
            /\ Range(partition[i]) = {pupils[i]} /\ partition[i] # <<>>
      <4> TAKE i \in 1 .. Len(pupils)
      <4>1. partition[i] = <<pupils[i]>> /\ pupils[i] \in Int
        BY <2>3, <3>1
      <4> QED
        BY <4>1, OneIs
    <3>4. partition \in Seq(Seq(Int))
      <4>1. PICK W : W = Seq(Int)
        OBVIOUS
      <4>2. \A i \in DOMAIN pupils : <<pupils[i]>> \in W
        BY <3>1, <4>1
      <4>3. partition \in Seq(W)
        BY <1>1, <2>3, <3>1, <4>2
      <4> QED
        BY <4>1, <4>3
    <3>5. Divides(partition, Range(pupils))
      <4>1. \A i, j \in 1 .. Len(pupils) : i # j => pupils[i] # pupils[j]
        BY <3>1 DEF IsInjective
      <4>2. \A i, j \in 1 .. Len(pupils) :
              i # j => Range(partition[i]) \cap Range(partition[j]) = {}
        BY <3>3, <4>1
      <4>3. \A x : x \in Range(pupils) <=>
                     \E i \in 1 .. Len(pupils) : x \in Range(partition[i])
        <5>1. \A x : x \in Range(pupils) <=> \E i \in 1 .. Len(pupils) : x = pupils[i]
          BY <3>1 DEF Range
        <5>2. \A i \in 1 .. Len(pupils) : \A x : x \in Range(partition[i]) <=> x = pupils[i]
          BY <3>3
        <5> QED
          BY <5>1, <5>2
      <4>4. UNION {Range(partition[i]) : i \in DOMAIN partition} = Range(pupils)
        BY <3>2, <4>3
      <4>5. \A i \in DOMAIN partition : IsInjective(partition[i])
        BY <3>2, <3>3
      <4>6. \A i, j \in DOMAIN partition :
              i # j => Range(partition[i]) \cap Range(partition[j]) = {}
        BY <3>2, <4>2
      <4> QED
        BY <4>4, <4>5, <4>6 DEF Divides
    <3>6. \A i \in DOMAIN partition : partition[i] # <<>>
      BY <3>2, <3>3
    <3> QED
      BY <1>3, <3>4, <3>5, <3>6 DEF Seated
  <2> QED
    BY <2>1, <2>2, <2>3
<1> QED
  BY <1>2, <1>3

-----------------------------------------------------------------------------
(* The plans of a run and what it asks for                                 *)

\* The evidence a class may have gives each of its pupils gaps.
LEMMA GapsAreOfAll ==
    ASSUME NEW q, results \in Evidence
    PROVE  GapsOfAll(GapsByPupil(q), Range(Roster))
<1> SUFFICES ASSUME NEW s \in Range(Roster)
             PROVE  GapsByPupil(q)[s] \in Seq(Known)
  BY DEF GapsOfAll
<1>1. results[s].sheet \in Seq(Signals) /\ results[s].term \in Seq(Signals)
  BY AdaptiveAssumption
<1>2. PICK sheet : sheet = IF q.fromSheet THEN results[s].sheet ELSE <<>>
  OBVIOUS
<1>3. sheet \in Seq(Signals)
  BY <1>1, <1>2
<1>4. GapsByPupil(q)[s] = GapsOf(sheet, results[s].term)
  BY <1>2 DEF GapsByPupil
<1>5. PickGaps(sheet) \in Seq(Known)
  BY <1>3, GapsAreKnown
<1>6. PickGaps(results[s].term) \in Seq(Known)
  BY <1>1, GapsAreKnown
<1> QED
  BY <1>4, <1>5, <1>6 DEF GapsOf

\* Only a list for somebody lacks items, and what it lacks is a number.
LEMMA PlanIs ==
    ASSUME NEW members, NEW q \in RequestType, NEW gaps, IsFiniteSet(rows)
    PROVE  LET plan == PlanFor(members, q, gaps)
           IN  /\ plan.members = members /\ plan.missing \in Int
               /\ plan.missing > 0 => members # <<>>
<1>1. IsFiniteSet(Retrievable)
  <2>1. IsFiniteSet(Corpus)
    BY AdaptiveAssumption
  <2>2. IsFiniteSet(Corpus \union rows)
    BY <2>1, FS_Union
  <2>3. Retrievable \subseteq Corpus \union rows
    BY DEF Retrievable
  <2> QED
    BY <2>2, <2>3, FS_Subset
<1>2. PICK targets : targets = GroupTargets(members, gaps)
  OBVIOUS
<1>3. PICK found : found = Selected(Range(targets), q.items)
  OBVIOUS
<1>4. Cardinality(found) \in Nat
  <2>1. found \subseteq Retrievable
    BY <1>3 DEF Selected, Candidates
  <2>2. IsFiniteSet(found)
    BY <1>1, <2>1, FS_Subset
  <2> QED
    BY <2>2, FS_CardinalityType
<1>5. q.items \in Nat
  BY DEF RequestType
<1>6. PlanFor(members, q, gaps) =
        [members |-> members, targets |-> Range(targets), retrieved |-> found,
         missing |-> IF q.generate /\ targets # <<>> /\ members # <<>>
                     THEN q.items - Cardinality(found) ELSE 0]
  BY <1>2, <1>3 DEF PlanFor
<1> QED
  BY <1>4, <1>5, <1>6

\* A plan that lacks items has one ask, for as many, and no other plan has.
AskedOnce(plans, asks) ==
    /\ Len(asks) \in Nat /\ DOMAIN asks = 1 .. Len(asks)
    /\ \A n \in DOMAIN asks :
         /\ asks[n].plan \in DOMAIN plans
         /\ asks[n].count = plans[asks[n].plan].missing
         /\ plans[asks[n].plan].missing > 0
    /\ \A m, n \in DOMAIN asks : asks[m].plan = asks[n].plan => m = n
    /\ \A i \in DOMAIN plans :
         plans[i].missing > 0 => \E n \in DOMAIN asks : asks[n].plan = i

\* The name an ask ends with may stand on the line of its plan.
Labelled(plans, asks, grouped) ==
    \A n \in DOMAIN asks : Names(asks[n].label, asks[n].plan, plans, grouped)

LEMMA AsksAre ==
    ASSUME NEW N \in Nat, NEW plans, Len(plans) = N, DOMAIN plans = 1 .. N,
           NEW grouped
    PROVE  /\ AskedOnce(plans, AsksOf(plans, grouped))
           /\ Labelled(plans, AsksOf(plans, grouped), grouped)
<1> DEFINE I == {i \in DOMAIN plans : plans[i].missing > 0}
           label(n) == IF n < Len(Ascending(I)) THEN Ascending(I)[n + 1] - 1
                                                ELSE Len(plans)
<1>1. I \in SUBSET (1 .. N)
  OBVIOUS
<1>2. \A i : i \in I <=> i \in DOMAIN plans /\ plans[i].missing > 0
  OBVIOUS
<1>3. PICK asks : asks = AsksOf(plans, grouped)
  OBVIOUS
<1>4. PICK nth : nth = Ascending(I)
  OBVIOUS
<1>5. /\ DOMAIN asks = DOMAIN nth
      /\ \A n \in DOMAIN nth :
           /\ asks[n].plan = nth[n]
           /\ asks[n].count = plans[nth[n]].missing
           /\ asks[n].label = IF grouped
                               THEN IF n < Len(nth) THEN nth[n + 1] - 1 ELSE N
                               ELSE nth[n]
  <2>1. AsksOf(plans, grouped) =
          [n \in DOMAIN Ascending(I) |->
             [plan |-> Ascending(I)[n], count |-> plans[Ascending(I)[n]].missing,
              label |-> IF grouped THEN label(n) ELSE Ascending(I)[n]]]
    BY DEF AsksOf
  <2>2. \A n : label(n) = IF n < Len(nth) THEN nth[n + 1] - 1 ELSE N
    BY <1>4
  <2> HIDE DEF I, label
  <2> QED
    BY <1>3, <1>4, <2>1, <2>2
<1> HIDE DEF I, label
<1>6. IsFiniteSet(I) /\ Places(nth, I, Smaller(I))
  BY <1>1, <1>4, AscendingPlaces
<1>7. Cardinality(I) \in Nat
  BY <1>6, FS_CardinalityType
<1>8. PICK k : k = Cardinality(I)
  OBVIOUS
<1>9. /\ nth \in [1 .. k -> I]
      /\ \A m, n \in 1 .. k : nth[m] = nth[n] => m = n
      /\ \A i \in I : \E n \in 1 .. k : nth[n] = i
  BY <1>6, <1>8 DEF Places, Bijection, Injection, Surjection, IsInjective
<1>10. /\ DOMAIN asks = 1 .. k /\ Len(asks) = k
       /\ \A n \in 1 .. k : /\ asks[n].plan = nth[n]
                            /\ asks[n].count = plans[nth[n]].missing
  BY <1>5, <1>7, <1>8, <1>9
<1>11. AskedOnce(plans, asks)
  BY <1>2, <1>7, <1>8, <1>9, <1>10 DEF AskedOnce
<1>12. \A a, b \in 1 .. k : nth[a] < nth[b] => a < b
  BY <1>1, <1>4, <1>8, AscendingIncreases
<1>13. Len(nth) = k
  BY <1>7, <1>8, <1>9
<1>14. ASSUME NEW n \in 1 .. k, grouped
       PROVE  LET l == IF n < k THEN nth[n + 1] - 1 ELSE N
              IN  l \in 1 .. N /\ nth[n] <= l
                  /\ \A j \in nth[n] + 1 .. l : j \notin I
  <2>1. nth[n] \in 1 .. N /\ nth[n] \in I
    BY <1>1, <1>9
  <2>2. ASSUME NEW j \in I, nth[n] < j
        PROVE  n < k /\ nth[n + 1] <= j
    <3>1. PICK m \in 1 .. k : nth[m] = j
      BY <1>9
    <3>2. n < m
      BY <1>12, <2>2, <3>1
    <3>3. n + 1 \in 1 .. k
      BY <1>7, <1>8, <3>2
    <3>6. nth[n + 1] \in 1 .. N
      BY <1>1, <1>9, <3>3
    <3>4. CASE nth[m] < nth[n + 1]
      BY <1>7, <1>8, <1>12, <3>2, <3>3, <3>4
    <3>5. j \in 1 .. N
      BY <1>1
    <3> QED
      BY <1>7, <1>8, <3>1, <3>2, <3>3, <3>4, <3>5, <3>6
  <2>3. CASE n < k
    <3>5. n + 1 \in 1 .. k
      BY <1>7, <1>8, <2>3
    <3>1. n + 1 \in 1 .. k /\ nth[n + 1] \in 1 .. N /\ nth[n + 1] \in I
      BY <1>1, <1>9, <3>5
    <3>2. nth[n] # nth[n + 1]
      BY <1>7, <1>8, <1>9, <3>1
    <3>3. nth[n] < nth[n + 1]
      BY <1>7, <1>8, <1>12, <2>1, <3>1, <3>2
    <3>4. \A j \in nth[n] + 1 .. nth[n + 1] - 1 : j \notin I
      BY <2>1, <2>2, <3>1
    <3> QED
      BY <2>1, <2>3, <3>1, <3>3, <3>4
  <2>4. CASE ~(n < k)
    BY <2>1, <2>2, <2>4
  <2> QED
    BY <2>3, <2>4
<1>15. ASSUME NEW n \in 1 .. k
       PROVE  Names(asks[n].label, asks[n].plan, plans, grouped)
  <2>1. nth[n] \in 1 .. N
    BY <1>1, <1>9
  <2>2. CASE grouped
    <3>1. asks[n].plan = nth[n]
          /\ asks[n].label = IF n < k THEN nth[n + 1] - 1 ELSE N
      BY <1>5, <1>9, <1>13, <2>2
    <3>2. PICK l : l = asks[n].label
      OBVIOUS
    <3>3. l \in 1 .. N /\ nth[n] <= l /\ \A j \in nth[n] + 1 .. l : j \notin I
      BY <1>14, <2>2, <3>1, <3>2
    <3>4. \A j \in nth[n] + 1 .. l : ~(plans[j].missing > 0)
      BY <1>2, <2>1, <3>3
    <3> QED
      BY <2>2, <3>1, <3>2, <3>3, <3>4 DEF Names
  <2>3. CASE ~grouped
    <3>1. asks[n].plan = nth[n] /\ asks[n].label = nth[n]
      BY <1>5, <1>9, <2>3
    <3> QED
      BY <2>1, <3>1 DEF Names
  <2> QED
    BY <2>2, <2>3
<1>16. Labelled(plans, asks, grouped)
  BY <1>10, <1>15 DEF Labelled
<1> QED
  BY <1>3, <1>11, <1>16

\* The plans of a run give everyone one list.
Planned(plans, pupils, q) ==
    /\ Len(plans) \in Nat /\ DOMAIN plans = 1 .. Len(plans)
    /\ Divides([i \in DOMAIN plans |-> plans[i].members], Range(pupils))
    /\ WantsGroups(q, pupils) => Len(plans) = q.groups
    /\ \A i \in DOMAIN plans :
         /\ plans[i].members # <<>> \/ pupils = <<>>
         /\ plans[i].members \in Seq(Int) /\ plans[i].missing \in Int
         /\ plans[i].missing > 0 => plans[i].members # <<>>

\* What the worker puts down before the first call.
Pupils == Those(Roster, {i \in DOMAIN Roster : Roster[i] \in enrolled})
LEMMA Targeted ==
    ASSUME DOMAIN work = Clicks, NEW c \in Clicks, Target(c)
    PROVE  /\ \E partition \in Partitions(request[c], Pupils, GapsByPupil(request[c])) :
                work'[c] = WorkOn(PlansOf(partition, request[c],
                                          GapsByPupil(request[c])),
                                  Pupils, request[c])
           /\ DOMAIN work' = Clicks
           /\ \A d \in Clicks \ {c} : work'[d] = work[d]
<1>1. PICK partition \in Partitions(request[c], Pupils, GapsByPupil(request[c])) :
        work' = [work EXCEPT ![c] =
          WorkOn(PlansOf(partition, request[c], GapsByPupil(request[c])),
                 Pupils, request[c])]
  BY DEF Target, Pupils
<1> QED
  BY <1>1

LEMMA TargetedIsPlanned ==
    ASSUME NEW q \in RequestType, results \in Evidence, IsFiniteSet(rows),
           NEW gaps, gaps = GapsByPupil(q),
           NEW partition \in Partitions(q, Pupils, gaps)
    PROVE  Planned(PlansOf(partition, q, gaps), Pupils, q)
<1> DEFINE pupils == Pupils
           plans == PlansOf(partition, q, gaps)
<1>1. pupils \in Seq(Int) /\ IsInjective(pupils) /\ Range(pupils) \subseteq Range(Roster)
  <2>1. Roster \in Seq(Int) /\ IsInjective(Roster)
    BY AdaptiveAssumption
  <2>2. DOMAIN Roster = 1 .. Len(Roster)
    BY <2>1
  <2>3. PICK I \in SUBSET (1 .. Len(Roster)) : pupils = Those(Roster, I)
    BY <2>2 DEF Pupils
  <2> HIDE DEF pupils
  <2>4. Those(Roster, I) \in Seq(Int) /\ Range(Those(Roster, I)) = At(Roster, I)
    BY <2>1, ThoseIs
  <2>5. IsInjective(Those(Roster, I))
    BY <2>1, ThoseIs
  <2>6. At(Roster, I) \subseteq Range(Roster)
    BY <2>2 DEF At, Range
  <2> QED
    BY <2>3, <2>4, <2>5, <2>6
<1> HIDE DEF pupils
<1>2. GapsOfAll(gaps, Range(pupils))
  <2>1. GapsOfAll(gaps, Range(Roster))
    BY GapsAreOfAll
  <2> QED
    BY <1>1, <2>1 DEF GapsOfAll
<1>20. partition \in Partitions(q, pupils, gaps)
  BY DEF pupils
<1>3. Seated(partition, pupils, q)
  BY <1>1, <1>2, <1>20, PartitionsAreSeated
<1>4. /\ partition \in Seq(Seq(Int)) /\ Divides(partition, Range(pupils))
      /\ \A i \in DOMAIN partition : partition[i] # <<>> \/ pupils = <<>>
      /\ WantsGroups(q, pupils) => Len(partition) = q.groups
  BY <1>3 DEF Seated
<1>5. PICK W : W = Seq(Int)
  OBVIOUS
<1>6. partition \in Seq(W) /\ Len(partition) \in Nat
  BY <1>4, <1>5
<1>7. DOMAIN partition = 1 .. Len(partition) /\ \A i \in DOMAIN partition : partition[i] \in W
  BY <1>6
<1>8. DOMAIN plans = DOMAIN partition /\ Len(plans) = Len(partition)
  BY <1>6, <1>7 DEF PlansOf
<1>9. \A i \in DOMAIN plans :
        /\ plans[i].members = partition[i] /\ plans[i].missing \in Int
        /\ plans[i].missing > 0 => partition[i] # <<>>
  <2> TAKE i \in DOMAIN plans
  <2>1. plans[i] = PlanFor(partition[i], q, gaps)
    BY <1>8 DEF PlansOf
  <2> HIDE DEF plans
  <2> QED
    BY <2>1, PlanIs
<1> HIDE DEF plans
<1>10. [i \in DOMAIN plans |-> plans[i].members] = partition
  BY <1>6, <1>7, <1>8, <1>9
<1>11. Planned(plans, pupils, q)
  BY <1>4, <1>5, <1>6, <1>7, <1>8, <1>9, <1>10 DEF Planned
<1> QED
  BY <1>11 DEF plans, pupils


-----------------------------------------------------------------------------
(* What is answered, made and told                                         *)

\* The asks that came back are the first ones, and each came back once.
Once(answers, n) ==
    /\ \A f \in answers : f.ask \in 1 .. n
    /\ \A f, g \in answers : f.ask = g.ask => f = g
    /\ \A k \in 1 .. n : \E f \in answers : f.ask = k

LEMMA OnceCounts ==
    ASSUME NEW n \in Nat, NEW answers, Once(answers, n)
    PROVE  IsFiniteSet(answers) /\ Cardinality(answers) = n
<1> DEFINE nth == [k \in 1 .. n |-> CHOOSE f \in answers : f.ask = k]
<1>1. \A k \in 1 .. n : nth[k] \in answers /\ nth[k].ask = k
  BY DEF Once
<1>2. nth \in [1 .. n -> answers]
  BY <1>1
<1>3. \A j, k \in 1 .. n : nth[j] = nth[k] => j = k
  BY <1>1
<1>4. \A f \in answers : \E k \in 1 .. n : nth[k] = f
  <2> SUFFICES ASSUME NEW f \in answers PROVE \E k \in 1 .. n : nth[k] = f
    OBVIOUS
  <2>1. f.ask \in 1 .. n
    BY DEF Once
  <2>2. nth[f.ask] \in answers /\ nth[f.ask].ask = f.ask
    BY <1>1, <2>1
  <2> HIDE DEF nth
  <2>3. nth[f.ask] = f
    BY <2>2 DEF Once
  <2> QED
    BY <2>1, <2>3
<1> HIDE DEF nth
<1>5. nth \in Bijection(1 .. n, answers)
  BY <1>2, <1>3, <1>4 DEF Bijection, Injection, Surjection, IsInjective
<1>6. ExistsBijection(1 .. n, answers)
  BY <1>5 DEF ExistsBijection
<1>7. IsFiniteSet(answers)
  BY <1>6, FS_NatBijection
<1> QED
  BY <1>6, <1>7, FS_CountingElements

LEMMA ImageIsFew ==
    ASSUME NEW S, IsFiniteSet(S), NEW f
    PROVE  IsFiniteSet({f[x] : x \in S})
<1> DEFINE T == {f[x] : x \in S}
           g == [x \in S |-> f[x]]
<1>1. g \in [S -> T] /\ \A y \in T : \E x \in S : g[x] = y
  OBVIOUS
<1> HIDE DEF g
<1>2. g \in Surjection(S, T)
  BY <1>1 DEF Surjection
<1> HIDE DEF T
<1>3. IsFiniteSet(T)
  BY <1>2, FS_Surjection
<1> QED
  BY <1>3 DEF T

\* What is looked at of an answer is finite.
LEMMA ValidItemsAreFew ==
    ASSUME NEW V, NEW a \in Seq(V) \union {Nothing}, NEW n
    PROVE  IsFiniteSet(ValidItems(a, n))
<1>1. CASE a = Nothing
  BY <1>1, FS_EmptySet DEF ValidItems
<1>2. CASE a # Nothing
  <2>1. DOMAIN a = 1 .. Len(a) /\ Len(a) \in Nat
    BY <1>2
  <2>2. PICK m : m = Len(a)
    OBVIOUS
  <2> DEFINE I == {j \in DOMAIN a : j <= n}
  <2>3. IsFiniteSet(I)
    <3>1. m \in Nat /\ I \subseteq 1 .. m
      BY <2>1, <2>2
    <3>2. IsFiniteSet(1 .. m)
      BY <3>1, Interval
    <3> QED
      BY <3>1, <3>2, FS_Subset
  <2>4. ValidItems(a, n) \subseteq {a[j] : j \in I}
    BY <1>2 DEF ValidItems
  <2> HIDE DEF I
  <2>5. IsFiniteSet({a[j] : j \in I})
    BY <2>3, ImageIsFew
  <2> QED
    BY <2>4, <2>5, FS_Subset
<1> QED
  BY <1>1, <1>2

\* The next call fills the next asks.
Filled(answers, n) ==
    /\ Cardinality(answers) \in 0 .. n /\ Once(answers, Cardinality(answers))
    /\ \A f \in answers : IsFiniteSet(f.kept)

LEMMA CallFillsOn ==
    ASSUME NEW c, NEW L \in Nat, Len(work[c].asks) = L, Filled(filled[c], L),
           NEW answer \in [Chunk(c) -> Answers \union {Nothing}]
    PROVE  Filled(filled[c] \union
                    {[ask |-> k, kept |-> Kept(c, answer, k)] : k \in Chunk(c)}, L)
<1> DEFINE new == {[ask |-> k, kept |-> Kept(c, answer, k)] : k \in Chunk(c)}
<1>1. PICK n : n = Cardinality(filled[c])
  OBVIOUS
<1>2. n \in 0 .. L /\ Once(filled[c], n)
  BY <1>1 DEF Filled
<1>3. BatchMax \in Nat
  BY AdaptiveAssumption
<1>4. PICK m : m = IF n + BatchMax <= L THEN n + BatchMax ELSE L
  OBVIOUS
<1>5. m \in n .. L /\ m \in Nat /\ \A k : k \in Chunk(c) <=> k \in n + 1 .. m
  BY <1>1, <1>2, <1>3, <1>4 DEF Chunk
<1>6. \A f \in new : f.ask \in n + 1 .. m /\ f = [ask |-> f.ask, kept |-> Kept(c, answer, f.ask)]
  BY <1>5
<1>7. \A k \in n + 1 .. m : \E f \in new : f.ask = k
  <2> TAKE k \in n + 1 .. m
  <2>1. [ask |-> k, kept |-> Kept(c, answer, k)] \in new
    BY <1>5
  <2>2. [ask |-> k, kept |-> Kept(c, answer, k)].ask = k
    OBVIOUS
  <2> QED
    BY <2>1, <2>2
<1>8. \A f \in new : IsFiniteSet(f.kept)
  <2> SUFFICES ASSUME NEW k \in Chunk(c) PROVE IsFiniteSet(Kept(c, answer, k))
    OBVIOUS
  <2>1. answer[k] \in Seq(Statements \union {Malformed}) \union {Nothing}
    BY AdaptiveAssumption
  <2>2. IsFiniteSet(ValidItems(answer[k], work[c].asks[k].count))
    BY <2>1, ValidItemsAreFew
  <2>3. Kept(c, answer, k) \subseteq ValidItems(answer[k], work[c].asks[k].count)
    BY DEF Kept
  <2> QED
    BY <2>2, <2>3, FS_Subset
<1>9. PICK all : all = filled[c] \union new
  OBVIOUS
<1> HIDE DEF new
<1>10. Once(all, m)
  <2>1. \A f \in filled[c] : f.ask \in 1 .. n
    BY <1>2 DEF Once
  <2>2. \A f \in all : f.ask \in 1 .. m
    BY <1>2, <1>5, <1>6, <1>9, <2>1
  <2>3. ASSUME NEW f \in all, NEW g \in all, f.ask = g.ask PROVE f = g
    <3>1. CASE f.ask \in 1 .. n
      <4>1. f \in filled[c] /\ g \in filled[c]
        BY <1>2, <1>5, <1>6, <1>9, <2>3, <3>1
      <4> QED
        BY <1>2, <2>3, <4>1 DEF Once
    <3>2. CASE f.ask \notin 1 .. n
      <4>1. f \in new /\ g \in new
        BY <1>9, <2>1, <2>3, <3>2
      <4> QED
        BY <1>6, <2>3, <4>1
    <3> QED
      BY <3>1, <3>2
  <2>4. \A k \in 1 .. m : \E f \in all : f.ask = k
    <3> TAKE k \in 1 .. m
    <3>1. CASE k <= n
      BY <1>2, <1>5, <1>9, <3>1 DEF Once
    <3>2. CASE k > n
      <4>1. k \in n + 1 .. m
        BY <1>2, <3>2
      <4> QED
        BY <1>7, <1>9, <4>1
    <3> QED
      BY <1>2, <3>1, <3>2
  <2> QED
    BY <2>2, <2>3, <2>4 DEF Once
<1>11. Cardinality(all) = m
  BY <1>5, <1>10, OnceCounts
<1>12. \A f \in all : IsFiniteSet(f.kept)
  BY <1>8, <1>9 DEF Filled
<1>13. m \in 0 .. L
  BY <1>2, <1>5
<1>14. Filled(all, L)
  BY <1>10, <1>11, <1>12, <1>13 DEF Filled
<1> QED
  BY <1>9, <1>14 DEF new

\* The rows a run makes of what it kept.
RowOf(c, f, s, w, attempt) ==
    GeneratedRow(c, f.ask, attempt, s, w.plans[w.asks[f.ask].plan].targets)
Rows(c, answers, w, attempt) ==
    UNION {{RowOf(c, f, s, w, attempt) : s \in f.kept} : f \in answers}
Generated(rowsMade, w, i) == {e \in rowsMade : w.asks[e.ask].plan = i}

\* A plan has a row for each statement kept for it, and one without an ask
\* has none.
LEMMA RowsAreKept ==
    ASSUME NEW c, NEW w, NEW attempt, AskedOnce(w.plans, w.asks),
           NEW answers, Filled(answers, Len(w.asks)),
           Cardinality(answers) = Len(w.asks)
    PROVE  /\ \A f \in answers :
                Cardinality(Generated(Rows(c, answers, w, attempt), w,
                                      w.asks[f.ask].plan)) = Cardinality(f.kept)
           /\ \A i \in DOMAIN w.plans :
                Cardinality(Generated(Rows(c, answers, w, attempt), w, i)) \in Nat
<1> DEFINE of(i) == Generated(Rows(c, answers, w, attempt), w, i)
<1>1. \A e, i : e \in of(i) <=>
        \E f \in answers : \E s \in f.kept :
          e = RowOf(c, f, s, w, attempt) /\ w.asks[f.ask].plan = i
  BY DEF Generated, Rows, RowOf, GeneratedRow
<1>2. Len(w.asks) \in Nat /\ DOMAIN w.asks = 1 .. Len(w.asks) /\ Once(answers, Len(w.asks))
  BY DEF AskedOnce, Filled
<1>3. \A f, g \in answers : w.asks[f.ask].plan = w.asks[g.ask].plan => f = g
  BY <1>2 DEF AskedOnce, Once
<1> HIDE DEF of
<1>4. ASSUME NEW f \in answers
      PROVE  /\ Cardinality(of(w.asks[f.ask].plan)) = Cardinality(f.kept)
             /\ Cardinality(f.kept) \in Nat
  <2>1. PICK T : T = of(w.asks[f.ask].plan)
    OBVIOUS
  <2>2. \A e : e \in T <=> \E s \in f.kept : e = RowOf(c, f, s, w, attempt)
    BY <1>1, <1>3, <2>1
  <2>3. PICK row : row = [s \in f.kept |-> RowOf(c, f, s, w, attempt)]
    OBVIOUS
  <2>4. \A s, t \in f.kept : row[s] = row[t] => s = t
    BY <2>3 DEF RowOf, GeneratedRow
  <2>5. row \in [f.kept -> T] /\ \A e \in T : \E s \in f.kept : row[s] = e
    BY <2>2, <2>3
  <2>6. row \in Bijection(f.kept, T)
    BY <2>4, <2>5 DEF Bijection, Injection, Surjection, IsInjective
  <2>7. IsFiniteSet(f.kept) /\ ExistsBijection(f.kept, T)
    BY <2>6 DEF Filled, ExistsBijection
  <2>8. Cardinality(T) = Cardinality(f.kept)
    BY <2>7, FS_Bijection
  <2>9. Cardinality(f.kept) \in Nat
    BY <2>7, FS_CardinalityType
  <2> QED
    BY <2>1, <2>8, <2>9
<1>5. ASSUME NEW i \in DOMAIN w.plans
      PROVE  Cardinality(of(i)) \in Nat
  <2>1. CASE \E f \in answers : w.asks[f.ask].plan = i
    BY <1>4, <2>1
  <2>2. CASE ~\E f \in answers : w.asks[f.ask].plan = i
    <3>1. of(i) = {}
      BY <1>1, <2>2
    <3> QED
      BY <3>1, FS_EmptySet
  <2> QED
    BY <2>1, <2>2
<1> QED
  BY <1>4, <1>5 DEF of


\* A list shorter than was asked for says so once to the first of its pupils.
Told(groups, failures, grouped) ==
    LET short == {i \in DOMAIN groups :
                    Cardinality(groups[i].generated) < groups[i].missing}
        of(i) == {f \in failures : f.owner = groups[i].members[1]}
    IN  /\ \A i \in short : \E f \in of(i) :
             /\ of(i) = {f}
             /\ f.requested = groups[i].missing
             /\ f.produced = Cardinality(groups[i].generated)
             /\ Names(f.label, i, groups, grouped)
        /\ failures = UNION {of(i) : i \in short}

\* The first pupil of a list is the first of no other.
LEMMA OwnersDiffer ==
    ASSUME NEW plans, NEW pupils, NEW q, Planned(plans, pupils, q),
           NEW i \in DOMAIN plans, plans[i].missing > 0,
           NEW j \in DOMAIN plans, plans[j].missing > 0,
           plans[i].members[1] = plans[j].members[1]
    PROVE  i = j
<1>1. PICK lists : lists = [k \in DOMAIN plans |-> plans[k].members]
  OBVIOUS
<1>2. Divides(lists, Range(pupils))
  BY <1>1 DEF Planned
<1>3. i # j => Range(lists[i]) \cap Range(lists[j]) = {}
  BY <1>1, <1>2 DEF Divides
<1>4. ASSUME NEW k \in DOMAIN plans, plans[k].missing > 0
      PROVE  plans[k].members[1] \in Range(lists[k])
  <2>1. plans[k].members \in Seq(Int) /\ plans[k].members # <<>>
    BY <1>4 DEF Planned
  <2>2. PICK s \in Seq(Int) : s = plans[k].members
    BY <2>1
  <2>3. 1 \in DOMAIN s
    BY <2>1, <2>2
  <2> QED
    BY <1>1, <2>2, <2>3 DEF Range
<1> QED
  BY <1>3, <1>4

LEMMA ShortfallTold ==
    ASSUME NEW plans, NEW pupils, NEW q, Planned(plans, pupils, q),
           NEW asks, AskedOnce(plans, asks),
           NEW grouped, Labelled(plans, asks, grouped),
           NEW answers, Once(answers, Len(asks)),
           NEW groups, DOMAIN groups = DOMAIN plans,
           \A i \in DOMAIN plans :
             /\ groups[i].members = plans[i].members
             /\ groups[i].missing = plans[i].missing
             /\ Cardinality(groups[i].generated) \in Nat,
           \A f \in answers : Cardinality(groups[asks[f.ask].plan].generated)
                                = Cardinality(f.kept),
           NEW line,
           \A f \in answers :
             /\ line[f].owner = plans[asks[f.ask].plan].members[1]
             /\ line[f].label = asks[f.ask].label
             /\ line[f].requested = asks[f.ask].count
             /\ line[f].produced = Cardinality(f.kept),
           NEW failures,
           failures = {line[f] : f \in {g \in answers :
                                          Cardinality(g.kept) < asks[g.ask].count}}
    PROVE  Told(groups, failures, grouped)
<1> DEFINE short == {i \in DOMAIN groups :
                       Cardinality(groups[i].generated) < groups[i].missing}
           of(i) == {f \in failures : f.owner = groups[i].members[1]}
           at(f) == asks[f.ask].plan
<1>1. \A f \in answers : /\ at(f) \in DOMAIN plans
                         /\ asks[f.ask].count = plans[at(f)].missing
                         /\ plans[at(f)].missing > 0
  BY DEF AskedOnce, Once
<1>2. \A f, g \in answers : at(f) = at(g) => f = g
  BY DEF AskedOnce, Once
<1>3. \A i \in DOMAIN plans :
        plans[i].missing > 0 => \E f \in answers : at(f) = i
  BY DEF AskedOnce, Once
<1>4. \A i \in short : i \in DOMAIN plans /\ plans[i].missing > 0
  <2> TAKE i \in short
  <2>1. plans[i].missing \in Int
    BY DEF Planned
  <2> QED
    BY <2>1
<1>5. \A f \in answers :
        Cardinality(f.kept) < asks[f.ask].count <=> at(f) \in short
  BY <1>1
<1>6. \A f, g \in answers :
        line[f].owner = groups[at(g)].members[1] => f = g
  <2> SUFFICES ASSUME NEW f \in answers, NEW g \in answers,
                      line[f].owner = groups[at(g)].members[1]
               PROVE  f = g
    OBVIOUS
  <2>1. plans[at(f)].members[1] = plans[at(g)].members[1]
    BY <1>1
  <2> HIDE DEF at
  <2>2. at(f) = at(g)
    BY <1>1, <2>1, OwnersDiffer
  <2> QED
    BY <1>2, <2>2
<1>7. \A x : x \in failures <=> \E f \in answers : x = line[f] /\ at(f) \in short
  BY <1>5
<1>8. \A i \in short : \E f \in answers :
        /\ at(f) = i /\ of(i) = {line[f]}
        /\ line[f].requested = groups[i].missing
        /\ line[f].produced = Cardinality(groups[i].generated)
        /\ Names(line[f].label, i, groups, grouped)
  <2> TAKE i \in short
  <2>1. PICK f \in answers : at(f) = i
    BY <1>3, <1>4
  <2>2. \A x : x \in of(i) <=> x = line[f]
    <3>1. line[f] \in failures /\ line[f].owner = groups[i].members[1]
      BY <1>1, <1>7, <2>1
    <3>2. ASSUME NEW x \in of(i) PROVE x = line[f]
      <4>1. x \in failures /\ x.owner = groups[at(f)].members[1]
        BY <2>1, <3>2
      <4> HIDE DEF short, of, at
      <4> QED
        BY <1>6, <1>7, <4>1
    <3> QED
      BY <3>1, <3>2
  <2>3. of(i) = {line[f]}
    <3> HIDE DEF of
    <3> QED
      BY <2>2
  <2>4. /\ line[f].requested = groups[i].missing
        /\ line[f].produced = Cardinality(groups[i].generated)
    BY <1>1, <2>1
  <2>5. Names(line[f].label, i, groups, grouped)
    <3>1. f.ask \in DOMAIN asks
      BY DEF AskedOnce, Once
    <3>2. Names(asks[f.ask].label, i, plans, grouped)
      BY <2>1, <3>1 DEF Labelled
    <3>3. i \in 1 .. Len(plans) /\ DOMAIN plans = 1 .. Len(plans)
      BY <1>4 DEF Planned
    <3>4. PICK l : l = asks[f.ask].label /\ l = line[f].label
      OBVIOUS
    <3>5. \A j \in i + 1 .. l : j \in DOMAIN plans
      BY <3>2, <3>3, <3>4 DEF Names, Planned
    <3> QED
      BY <3>2, <3>4, <3>5 DEF Names
  <2> HIDE DEF short, of, at
  <2> QED
    BY <2>1, <2>3, <2>4, <2>5
<1>9. failures = UNION {of(i) : i \in short}
  <2>1. \A x : x \in failures => \E i \in short : x \in of(i)
    <3> SUFFICES ASSUME NEW x \in failures PROVE \E i \in short : x \in of(i)
      OBVIOUS
    <3>1. PICK f \in answers : x = line[f] /\ at(f) \in short
      BY <1>7
    <3>2. x.owner = groups[at(f)].members[1]
      BY <1>1, <3>1
    <3>3. x \in of(at(f))
      BY <3>2
    <3> QED
      BY <3>1, <3>3
  <2>2. \A i \in short : of(i) \subseteq failures
    OBVIOUS
  <2> HIDE DEF short, of, at
  <2> QED
    BY <2>1, <2>2
<1>10. \A i \in short : \E x \in of(i) :
         /\ of(i) = {x} /\ x.requested = groups[i].missing
         /\ x.produced = Cardinality(groups[i].generated)
         /\ Names(x.label, i, groups, grouped)
  <2> HIDE DEF short, of, at
  <2> QED
    BY <1>8
<1> QED
  BY <1>9, <1>10 DEF Told


-----------------------------------------------------------------------------
(* What the operators return                                               *)

\* What is looked at of an answer is a set of statements.
LEMMA ValidItemsType ==
    ASSUME NEW a \in Answers \union {Nothing}, NEW n
    PROVE  ValidItems(a, n) \subseteq Statements
<1>1. CASE a = Nothing
  BY <1>1 DEF ValidItems
<1>2. CASE a # Nothing
  <2>1. a \in Seq(Statements \union {Malformed})
    BY <1>2, AdaptiveAssumption
  <2>2. \A j \in DOMAIN a : a[j] \in Statements \union {Malformed}
    BY <2>1
  <2> QED
    BY <1>2, <2>2 DEF ValidItems
<1> QED
  BY <1>1, <1>2

\* What is kept of an answer is new to the run and remembered by it.
LEMMA KeptIsNew ==
    ASSUME NEW c, NEW answer \in [Chunk(c) -> Answers \union {Nothing}],
           NEW k \in Chunk(c)
    PROVE  /\ Kept(c, answer, k) \subseteq Statements
           /\ Kept(c, answer, k) \cap seen[c] = {}
           /\ Kept(c, answer, k) \subseteq SeenAfter(c, answer)
<1>1. answer[k] \in Answers \union {Nothing} /\ k \in DOMAIN answer
  OBVIOUS
<1>2. Kept(c, answer, k) \subseteq ValidItems(answer[k], work[c].asks[k].count)
  BY DEF Kept
<1>3. ValidItems(answer[k], work[c].asks[k].count) \subseteq Statements
  BY <1>1, ValidItemsType
<1>4. ValidItems(answer[k], work[c].asks[k].count) \subseteq SeenAfter(c, answer)
  BY <1>1 DEF SeenAfter
<1>5. seen[c] \subseteq SeenBefore(c, answer, k)
  BY DEF SeenBefore
<1> QED
  BY <1>2, <1>3, <1>4, <1>5 DEF Kept

\* Two asks of one call keep nothing in common.
LEMMA KeptOnce ==
    ASSUME NEW c, NEW answer \in [Chunk(c) -> Answers \union {Nothing}],
           NEW j \in Chunk(c), NEW k \in Chunk(c), j < k
    PROVE  Kept(c, answer, j) \cap Kept(c, answer, k) = {}
<1>1. j \in {i \in DOMAIN answer : i < k}
  OBVIOUS
<1>2. ValidItems(answer[j], work[c].asks[j].count) \subseteq SeenBefore(c, answer, k)
  BY <1>1 DEF SeenBefore
<1> QED
  BY <1>2 DEF Kept

\* A row a run makes carries a statement of one of its asks.
LEMMA RowsOfIsKept ==
    ASSUME NEW c, NEW e \in RowsOf(c)
    PROVE  e.by = c /\ \E f \in filled[c] : e.statement \in f.kept
<1>1. PICK f \in filled[c] : \E s \in f.kept :
        e = GeneratedRow(c, f.ask, crashes[c], s,
              work[c].plans[work[c].asks[f.ask].plan].targets)
  BY DEF RowsOf
<1> QED
  BY <1>1 DEF GeneratedRow

\* What a plan retrieves is the textbook or approved, and not thrown away.
LEMMA PlanRetrieves ==
    ASSUME NEW members, NEW q, NEW gaps
    PROVE  PlanFor(members, q, gaps).retrieved
             \subseteq Corpus \union (approved \ discarded)
<1>1. \A targets, n : Selected(targets, n) \subseteq Corpus \union (approved \ discarded)
  BY DEF Selected, Candidates, Retrievable
<1> QED
  BY <1>1 DEF PlanFor

-----------------------------------------------------------------------------
(* The invariant                                                           *)

\* The tables have a row for each request.
Shape ==
    /\ DOMAIN stage = Clicks /\ DOMAIN teacher = Clicks
    /\ DOMAIN request = Clicks /\ DOMAIN handed = Clicks
    /\ DOMAIN work = Clicks /\ DOMAIN seen = Clicks
    /\ DOMAIN filled = Clicks /\ DOMAIN made = Clicks
    /\ DOMAIN proposal = Clicks /\ DOMAIN crashes = Clicks
    /\ DOMAIN told = Clicks /\ DOMAIN regen = Regenerations

\* Before its run a job has nothing in hand.
NothingYet ==
    \A c \in Clicks : stage[c] \in {"idle", "looked", "handed", "queued"} =>
        work[c] = NoWork /\ filled[c] = {} /\ made[c] = {}

\* Whatever a run kept, it remembers.
Remembered ==
    \A c \in Clicks : \A f \in filled[c] :
        f.ask \in Int /\ f.kept \subseteq seen[c] /\ f.kept \subseteq Statements

\* What had been thrown away is remembered by a run and not in its hands.
NotInHand ==
    \A c \in Clicks :
        /\ stage[c] \in {"planned", "made"} =>
             \A d \in told[c] : d.statement \in seen[c]
        /\ \A f \in filled[c], d \in told[c] : d.statement \notin f.kept
        /\ \A e \in made[c], d \in told[c] : e.statement # d.statement
        /\ \A i \in DOMAIN work[c].plans :
             work[c].plans[i].retrieved \cap told[c] \subseteq Corpus

\* What is approved today was approved by somebody.
SignedFirst == approved \subseteq signedOff

\* A click that was handed a job stays with it.
HandedStays ==
    \A c \in Clicks : handed[c] # Nothing =>
        /\ stage[c] = "handed" /\ handed[c] \in Clicks
        /\ stage[handed[c]] # "idle"

\* A row is of a run or of a regeneration that is over.
MadeByOne ==
    \A e \in rows : \/ e.by \in Clicks
                    \/ e.by \in Regenerations /\ regen[e.by].stage = "done"

\* A replacement in hand says something new.
ReplacementIsNew ==
    \A r \in Regenerations : regen[r].stage = "answered" =>
        /\ regen[r].target \in rows
        /\ regen[r].target.statement \notin regen[r].made

IInv ==
    /\ Shape /\ TypeOK /\ NothingYet
    /\ Remembered /\ NothingTwice
    /\ NotInHand /\ RejectedNeverReturns
    /\ SignedFirst /\ RetrievedWasReviewed
    /\ HandedStays /\ NotAColleaguesRun
    /\ MadeByOne /\ ReplacementIsNew

\* Everyone has one list of the proposal, and nobody is left out.
OneEach(groups, pupils, q) ==
    /\ Divides([i \in DOMAIN groups |-> groups[i].members], Range(pupils))
    /\ WantsGroups(q, pupils) => Len(groups) = q.groups
    /\ \A i \in DOMAIN groups : groups[i].members # <<>> \/ pupils = <<>>

\* How far the run of click c is: s is its stage, q what was asked, w its work,
\* F what came back, m the rows made of it by attempt a, p the proposal.
Serves(c, s, q, w, F, m, a, p) ==
    /\ s # "idle" => q \in RequestType
    /\ s \in {"planned", "made"} =>
         /\ Planned(w.plans, w.pupils, q) /\ AskedOnce(w.plans, w.asks)
         /\ Labelled(w.plans, w.asks, WantsGroups(q, w.pupils))
         /\ Filled(F, Len(w.asks))
    /\ s = "made" => Cardinality(F) = Len(w.asks) /\ m = Rows(c, F, w, a)
    /\ p # Nothing =>
         /\ OneEach(p.groups, w.pupils, q)
         /\ Told(p.groups, p.failures, WantsGroups(q, w.pupils))

RowsAreFew ==
    /\ IsFiniteSet(rows) /\ \A r \in Regenerations : IsFiniteSet(regen[r].made)

Serving ==
    /\ RowsAreFew
    /\ \A c \in Clicks : Serves(c, stage[c], request[c], work[c], filled[c],
                                made[c], crashes[c], proposal[c])

LEMMA InitIInv == Init => IInv
<1> SUFFICES ASSUME Init PROVE IInv
  OBVIOUS
<1> USE AdaptiveAssumption DEF Init
<1>1. Shape /\ NothingYet /\ Remembered /\ NothingTwice /\ SignedFirst
  BY DEF Shape, NothingYet, Remembered, NothingTwice, SignedFirst
<1>2. TypeOK
  BY DEF TypeOK, Stages, NoRegeneration
<1>3. NotInHand /\ RetrievedWasReviewed
  BY DEF NotInHand, RetrievedWasReviewed, NoWork
<1>4. RejectedNeverReturns /\ HandedStays /\ NotAColleaguesRun
  BY DEF RejectedNeverReturns, HandedStays, NotAColleaguesRun
<1>5. MadeByOne /\ ReplacementIsNew
  BY DEF MadeByOne, ReplacementIsNew, NoRegeneration
<1> QED
  BY <1>1, <1>2, <1>3, <1>4, <1>5 DEF IInv
-----------------------------------------------------------------------------
(* Every step keeps it                                                     *)

\* A step of the teachers leaves the runs alone.
RunFrame ==
    /\ UNCHANGED <<stage, clickVars, workerVars, proposal, crashes>>
    /\ signedOff \subseteq signedOff'
LEMMA RunsKept ==
    ASSUME IInv, RunFrame
    PROVE  /\ NothingYet' /\ Remembered' /\ NothingTwice' /\ NotInHand'
           /\ RejectedNeverReturns' /\ RetrievedWasReviewed'
           /\ HandedStays' /\ NotAColleaguesRun'
<1> USE DEF IInv, RunFrame, clickVars, workerVars
<1>1. NothingYet' /\ Remembered' /\ NothingTwice'
  BY DEF NothingYet, Remembered, NothingTwice
<1>2. NotInHand' /\ RejectedNeverReturns'
  BY DEF NotInHand, RejectedNeverReturns
<1>3. RetrievedWasReviewed'
  BY DEF RetrievedWasReviewed
<1>4. HandedStays' /\ NotAColleaguesRun'
  BY DEF HandedStays, NotAColleaguesRun
<1> QED
  BY <1>1, <1>2, <1>3, <1>4

\* A step of a run that makes no rows leaves the rows and what replaces them.
RowFrame == UNCHANGED <<corpusVars, regen>>
LEMMA RowsKept ==
    ASSUME IInv, RowFrame
    PROVE  SignedFirst' /\ MadeByOne' /\ ReplacementIsNew'
<1> USE DEF IInv, RowFrame, corpusVars
<1>1. SignedFirst'
  BY DEF SignedFirst
<1>2. MadeByOne'
  BY DEF MadeByOne
<1>3. ReplacementIsNew'
  BY DEF ReplacementIsNew
<1> QED
  BY <1>1, <1>2, <1>3

LEMMA LookKeeps ==
    ASSUME IInv, NEW c \in Clicks, NEW t \in Teachers, Look(c, t)
    PROVE  IInv'
<1> USE DEF Look, clickVars, workerVars
<1>1. Shape' /\ TypeOK'
  BY DEF IInv, Shape, TypeOK, Stages, corpusVars
<1>2. NothingYet'
  BY DEF IInv, Shape, NothingYet
<1>3. Remembered' /\ NothingTwice'
  BY DEF IInv, Remembered, NothingTwice
<1>4. NotInHand' /\ RejectedNeverReturns'
  BY DEF IInv, Shape, NotInHand, RejectedNeverReturns
<1>5. RetrievedWasReviewed'
  BY DEF IInv, RetrievedWasReviewed, corpusVars
<1>6. HandedStays' /\ NotAColleaguesRun'
  BY DEF IInv, Shape, HandedStays, NotAColleaguesRun, IsHers, InFlight
<1>7. SignedFirst' /\ MadeByOne' /\ ReplacementIsNew'
  BY RowsKept DEF RowFrame
<1> QED
  BY <1>1, <1>2, <1>3, <1>4, <1>5, <1>6, <1>7 DEF IInv

LEMMA InsertKeeps ==
    ASSUME IInv, NEW c \in Clicks, Insert(c)
    PROVE  IInv'
<1> USE DEF Insert, workerVars
<1>1. Shape' /\ TypeOK'
  BY DEF IInv, Shape, TypeOK, Stages, corpusVars
<1>2. NothingYet'
  BY DEF IInv, Shape, NothingYet
<1>3. Remembered' /\ NothingTwice'
  BY DEF IInv, Remembered, NothingTwice
<1>4. NotInHand'
  BY DEF IInv, Shape, NotInHand, NothingYet, NoWork
<1>5. RejectedNeverReturns'
  BY DEF IInv, Shape, RejectedNeverReturns, TypeOK
<1>6. RetrievedWasReviewed'
  BY DEF IInv, RetrievedWasReviewed, corpusVars
<1>7. HandedStays' /\ NotAColleaguesRun'
  BY DEF IInv, Shape, HandedStays, NotAColleaguesRun
<1>8. SignedFirst' /\ MadeByOne' /\ ReplacementIsNew'
  BY RowsKept DEF RowFrame
<1> QED
  BY <1>1, <1>2, <1>3, <1>4, <1>5, <1>6, <1>7, <1>8 DEF IInv

LEMMA TargetKeeps ==
    ASSUME IInv, NEW c \in Clicks, Target(c)
    PROVE  IInv'
<1> USE DEF clickVars
<1>1. PICK plans :
        /\ DOMAIN work' = Clicks /\ work'[c].plans = plans
        /\ \A d \in Clicks \ {c} : work'[d] = work[d]
        /\ \A i \in DOMAIN plans :
             plans[i].retrieved \subseteq Corpus \union (approved \ discarded)
  <2>1. DOMAIN work = Clicks
    BY DEF IInv, Shape
  <2>2. PICK partition :
          work'[c] = WorkOn(PlansOf(partition, request[c], GapsByPupil(request[c])),
                            Pupils, request[c])
    BY <2>1, Targeted
  <2>3. DOMAIN work' = Clicks /\ \A d \in Clicks \ {c} : work'[d] = work[d]
    BY <2>1, Targeted
  <2>4. PICK gaps : gaps = GapsByPupil(request[c])
    OBVIOUS
  <2>5. work'[c].plans = PlansOf(partition, request[c], gaps)
    BY <2>2, <2>4 DEF WorkOn
  <2>6. \A j \in DOMAIN PlansOf(partition, request[c], gaps) :
          PlansOf(partition, request[c], gaps)[j].retrieved
            \subseteq Corpus \union (approved \ discarded)
    BY PlanRetrieves DEF PlansOf
  <2> QED
    BY <2>3, <2>5, <2>6
<1>2. /\ stage[c] = "queued" /\ stage' = [stage EXCEPT ![c] = "planned"]
      /\ seen' = [seen EXCEPT ![c] = RejectedStatements]
      /\ filled' = [filled EXCEPT ![c] = {}]
      /\ made' = [made EXCEPT ![c] = {}]
      /\ UNCHANGED <<corpusVars, clickVars, proposal, regen, crashes>>
  BY DEF Target
<1>3. work'[c].plans = plans /\ \A d \in Clicks \ {c} : work'[d] = work[d]
  BY <1>1
<1>4. Shape'
  BY <1>1, <1>2 DEF IInv, Shape
<1>5. RejectedStatements \subseteq Statements
  BY DEF IInv, TypeOK, RejectedStatements
<1>6. TypeOK'
  BY <1>2, <1>5 DEF IInv, Shape, TypeOK, Stages, corpusVars
<1>7. NothingYet'
  BY <1>2, <1>3 DEF IInv, Shape, NothingYet
<1>8. Remembered' /\ NothingTwice'
  BY <1>2 DEF IInv, Shape, Remembered, NothingTwice
<1>9. \A d \in told[c] : d.statement \in RejectedStatements
  BY DEF IInv, TypeOK, RejectedStatements
<1>10. NotInHand'
  <2> SUFFICES ASSUME NEW d \in Clicks
               PROVE  NotInHand!(d)'
    BY DEF NotInHand
  <2>1. CASE d = c
    <3>1. \A i \in DOMAIN plans : plans[i].retrieved \cap told[c] \subseteq Corpus
      BY <1>1 DEF IInv, TypeOK
    <3> QED
      BY <2>1, <1>2, <1>3, <1>9, <3>1 DEF IInv, Shape
  <2>2. CASE d # c
    BY <2>2, <1>2, <1>3 DEF IInv, Shape, NotInHand
  <2> QED
    BY <2>1, <2>2
<1>11. RejectedNeverReturns'
  BY <1>2 DEF IInv, RejectedNeverReturns
<1>12. RetrievedWasReviewed'
  BY <1>1, <1>2, <1>3 DEF IInv, SignedFirst, RetrievedWasReviewed, corpusVars
<1>13. HandedStays' /\ NotAColleaguesRun'
  BY <1>2 DEF IInv, Shape, HandedStays, NotAColleaguesRun
<1>14. SignedFirst' /\ MadeByOne' /\ ReplacementIsNew'
  BY <1>2, RowsKept DEF RowFrame
<1> QED
  BY <1>4, <1>6, <1>7, <1>8, <1>10, <1>11, <1>12, <1>13, <1>14 DEF IInv

LEMMA GenerateKeeps ==
    ASSUME IInv, NEW c \in Clicks, Generate(c)
    PROVE  IInv'
<1> USE DEF clickVars
<1>1. PICK answer \in [Chunk(c) -> Answers \union {Nothing}] :
        /\ filled' = [filled EXCEPT ![c] = @ \union
             {[ask |-> k, kept |-> Kept(c, answer, k)] : k \in Chunk(c)}]
        /\ seen' = [seen EXCEPT ![c] = SeenAfter(c, answer)]
  BY DEF Generate
<1>2. /\ stage[c] = "planned"
      /\ UNCHANGED <<corpusVars, stage, clickVars, work, made, proposal, regen,
                     crashes>>
  BY DEF Generate
<1> DEFINE new == {[ask |-> k, kept |-> Kept(c, answer, k)] : k \in Chunk(c)}
<1>3. /\ filled'[c] = filled[c] \union new /\ seen'[c] = SeenAfter(c, answer)
      /\ \A d \in Clicks \ {c} : filled'[d] = filled[d] /\ seen'[d] = seen[d]
  BY <1>1 DEF IInv, Shape
<1>4. Chunk(c) \subseteq Int
  BY DEF Chunk
<1>5. seen[c] \subseteq SeenAfter(c, answer)
  BY DEF SeenAfter
<1>6. \A f \in new : /\ f.ask \in Chunk(c) /\ f.kept = Kept(c, answer, f.ask)
                      /\ f.kept \subseteq Statements /\ f.kept \cap seen[c] = {}
                      /\ f.kept \subseteq SeenAfter(c, answer)
  <2>1. \A k \in Chunk(c) : /\ Kept(c, answer, k) \subseteq Statements
                            /\ Kept(c, answer, k) \cap seen[c] = {}
                            /\ Kept(c, answer, k) \subseteq SeenAfter(c, answer)
    BY KeptIsNew
  <2> SUFFICES ASSUME NEW k \in Chunk(c)
               PROVE  LET f == [ask |-> k, kept |-> Kept(c, answer, k)]
                      IN  /\ f.ask \in Chunk(c) /\ f.kept = Kept(c, answer, f.ask)
                          /\ f.kept \subseteq Statements
                          /\ f.kept \cap seen[c] = {}
                          /\ f.kept \subseteq SeenAfter(c, answer)
    OBVIOUS
  <2> QED
    BY <2>1
<1> HIDE DEF new
<1>7. Shape'
  BY <1>1, <1>2 DEF IInv, Shape
<1>8. SeenAfter(c, answer) \subseteq Statements
  <2>1. \A j \in DOMAIN answer :
          ValidItems(answer[j], work[c].asks[j].count) \subseteq Statements
    BY ValidItemsType
  <2> QED
    BY <2>1 DEF IInv, TypeOK, SeenAfter
<1>9. TypeOK'
  BY <1>2, <1>3, <1>8 DEF IInv, TypeOK, corpusVars
<1>10. NothingYet'
  BY <1>2, <1>3 DEF IInv, NothingYet
<1>11. Remembered'
  BY <1>3, <1>4, <1>5, <1>6 DEF IInv, Remembered
<1>12. NothingTwice'
  <2> SUFFICES ASSUME NEW f \in filled'[c], NEW g \in filled'[c], f.ask # g.ask
               PROVE  f.kept \cap g.kept = {}
    BY <1>3 DEF IInv, NothingTwice
  <2>1. CASE f \in filled[c] /\ g \in filled[c]
    BY <2>1 DEF IInv, NothingTwice
  <2>2. CASE f \in filled[c] /\ g \in new
    BY <2>2, <1>6 DEF IInv, Remembered
  <2>3. CASE f \in new /\ g \in filled[c]
    BY <2>3, <1>6 DEF IInv, Remembered
  <2>4. CASE f \in new /\ g \in new
    <3>1. f.ask < g.ask \/ g.ask < f.ask
      BY <2>4, <1>4, <1>6
    <3> QED
      BY <2>4, <3>1, <1>6, KeptOnce
  <2> QED
    BY <1>3, <2>1, <2>2, <2>3, <2>4
<1>13. NotInHand'
  <2>1. \A d \in told[c] : d.statement \in seen[c]
    BY <1>2 DEF IInv, NotInHand
  <2> QED
    BY <2>1, <1>2, <1>3, <1>5, <1>6 DEF IInv, NotInHand
<1>14. RejectedNeverReturns' /\ HandedStays' /\ NotAColleaguesRun'
  BY <1>2 DEF IInv, RejectedNeverReturns, HandedStays, NotAColleaguesRun
<1>15. RetrievedWasReviewed'
  BY <1>2 DEF IInv, RetrievedWasReviewed, corpusVars
<1>16. SignedFirst' /\ MadeByOne' /\ ReplacementIsNew'
  BY <1>2, RowsKept DEF RowFrame
<1> QED
  BY <1>7, <1>9, <1>10, <1>11, <1>12, <1>13, <1>14, <1>15, <1>16 DEF IInv

LEMMA MakeKeeps ==
    ASSUME IInv, NEW c \in Clicks, Make(c)
    PROVE  IInv'
<1> USE DEF clickVars
<1>1. /\ stage[c] = "planned" /\ stage' = [stage EXCEPT ![c] = "made"]
      /\ rows' = rows \union RowsOf(c)
      /\ made' = [made EXCEPT ![c] = RowsOf(c)]
      /\ UNCHANGED <<results, enrolled, approved, discarded, signedOff,
                     clickVars, work, seen, filled, proposal, regen, crashes>>
  BY DEF Make
<1>2. \A e \in RowsOf(c) : e.by = c /\ \E f \in filled[c] : e.statement \in f.kept
  BY RowsOfIsKept
<1>3. Shape'
  BY <1>1 DEF IInv, Shape
<1>4. TypeOK'
  <2>1. \A e \in RowsOf(c) : e.statement \in Statements
    BY <1>2 DEF IInv, Remembered
  <2> QED
    BY <1>1, <2>1 DEF IInv, Shape, TypeOK, Stages
<1>5. NothingYet' /\ Remembered' /\ NothingTwice'
  BY <1>1 DEF IInv, Shape, NothingYet, Remembered, NothingTwice
<1>6. NotInHand'
  BY <1>1, <1>2 DEF IInv, Shape, NotInHand
<1>7. RejectedNeverReturns' /\ HandedStays' /\ NotAColleaguesRun'
  BY <1>1 DEF IInv, Shape, RejectedNeverReturns, HandedStays, NotAColleaguesRun
<1>8. RetrievedWasReviewed' /\ SignedFirst'
  BY <1>1 DEF IInv, RetrievedWasReviewed, SignedFirst
<1>9. MadeByOne' /\ ReplacementIsNew'
  BY <1>1, <1>2 DEF IInv, MadeByOne, ReplacementIsNew
<1> QED
  BY <1>3, <1>4, <1>5, <1>6, <1>7, <1>8, <1>9 DEF IInv

LEMMA StoreKeeps ==
    ASSUME IInv, NEW c \in Clicks, Store(c)
    PROVE  IInv'
<1> USE DEF clickVars, workerVars
<1>1. /\ stage[c] = "made" /\ stage' = [stage EXCEPT ![c] = "done"]
      /\ UNCHANGED <<corpusVars, clickVars, workerVars, regen, crashes>>
      /\ \A d \in Clicks \ {c} : proposal'[d] = proposal[d]
      /\ DOMAIN proposal' = Clicks
  BY DEF Store, IInv, Shape
<1>2. Shape'
  BY <1>1 DEF IInv, Shape
<1>3. TypeOK'
  BY <1>1 DEF IInv, Shape, TypeOK, Stages, corpusVars
<1>4. NothingYet' /\ Remembered' /\ NothingTwice'
  BY <1>1 DEF IInv, Shape, NothingYet, Remembered, NothingTwice
<1>5. NotInHand'
  BY <1>1 DEF IInv, Shape, NotInHand
<1>6. RejectedNeverReturns'
  <2> SUFFICES ASSUME NEW i \in DOMAIN proposal'[c].groups
               PROVE  /\ proposal'[c].groups[i].retrieved \cap told[c] \subseteq Corpus
                      /\ \A e \in proposal'[c].groups[i].generated, d \in told[c] :
                           e.statement # d.statement
    BY <1>1 DEF IInv, RejectedNeverReturns
  <2>1. /\ i \in DOMAIN work[c].plans
        /\ proposal'[c].groups[i].retrieved = work[c].plans[i].retrieved
        /\ proposal'[c].groups[i].generated = GeneratedFor(c, i)
    BY DEF Store, IInv, Shape
  <2>2. GeneratedFor(c, i) \subseteq made[c]
    BY DEF GeneratedFor
  <2> QED
    BY <2>1, <2>2 DEF IInv, NotInHand
<1>7. RetrievedWasReviewed'
  BY <1>1 DEF IInv, RetrievedWasReviewed, corpusVars
<1>8. HandedStays' /\ NotAColleaguesRun'
  BY <1>1 DEF IInv, Shape, HandedStays, NotAColleaguesRun
<1>9. SignedFirst' /\ MadeByOne' /\ ReplacementIsNew'
  BY <1>1, RowsKept DEF RowFrame
<1> QED
  BY <1>2, <1>3, <1>4, <1>5, <1>6, <1>7, <1>8, <1>9 DEF IInv

LEMMA DieKeeps ==
    ASSUME IInv, NEW c \in Clicks, Die(c)
    PROVE  IInv'
<1> USE DEF clickVars, Die
<1>1. Shape'
  BY DEF IInv, Shape
<1>2. TypeOK'
  <2>1. \A d \in Clicks : crashes'[d] \in 0 .. MaxCrashes[d]
    <3>1. \A d \in Clicks : crashes[d] \in 0 .. MaxCrashes[d] /\ MaxCrashes[d] \in Nat
      BY AdaptiveAssumption DEF IInv, TypeOK
    <3>2. /\ crashes[c] < MaxCrashes[c] /\ crashes'[c] = crashes[c] + 1
          /\ \A d \in Clicks \ {c} : crashes'[d] = crashes[d]
      BY DEF IInv, Shape
    <3> HIDE DEF Die
    <3> QED
      BY <3>1, <3>2
  <2>2. \A d \in Clicks : /\ stage'[d] \in Stages /\ seen'[d] \subseteq Statements
                          /\ made'[d] \subseteq rows
                          /\ proposal'[d] # Nothing => stage'[d] = "done"
    BY DEF IInv, Shape, TypeOK, Stages
  <2> QED
    BY <2>1, <2>2 DEF IInv, TypeOK, corpusVars
<1>3. NothingYet' /\ Remembered' /\ NothingTwice'
  BY DEF IInv, Shape, NothingYet, Remembered, NothingTwice
<1>4. NotInHand'
  BY DEF IInv, Shape, NotInHand, NoWork
<1>5. RejectedNeverReturns' /\ HandedStays' /\ NotAColleaguesRun'
  BY DEF IInv, Shape, RejectedNeverReturns, HandedStays, NotAColleaguesRun
<1>6. RetrievedWasReviewed'
  BY DEF IInv, Shape, RetrievedWasReviewed, corpusVars, NoWork
<1>7. SignedFirst' /\ MadeByOne' /\ ReplacementIsNew'
  BY RowsKept DEF RowFrame
<1> QED
  BY <1>1, <1>2, <1>3, <1>4, <1>5, <1>6, <1>7 DEF IInv

\* Approving, discarding and replacing touch no run.
LEMMA TeachersKeep ==
    ASSUME IInv,
           \/ \E e \in rows : \/ Approve(e) \/ Discard(e)
                              \/ \E stamp \in BOOLEAN : PatchExercise(e, stamp)
           \/ \E r \in Regenerations : AskAgain(r)
           \/ \E s \in Leavers : Leave(s)
           \/ UNCHANGED vars
    PROVE  IInv'
<1>1. RunFrame
  BY DEF RunFrame, Approve, Discard, PatchExercise, AskAgain, Leave, vars, corpusVars
<1>2. Shape'
  BY DEF IInv, Shape, Approve, Discard, PatchExercise, AskAgain, Leave, vars, corpusVars,
         clickVars, workerVars
<1>3. TypeOK' /\ SignedFirst' /\ MadeByOne' /\ ReplacementIsNew'
  <2>1. CASE \E e \in rows : \/ Approve(e) \/ Discard(e)
                              \/ \E stamp \in BOOLEAN : PatchExercise(e, stamp)
    <3>1. TypeOK'
      BY <2>1 DEF IInv, TypeOK, Approve, Discard, PatchExercise, Approvable, clickVars, workerVars
    <3> QED
      BY <2>1, <3>1 DEF IInv, SignedFirst, MadeByOne, ReplacementIsNew,
                        Approve, Discard, PatchExercise
  <2>2. CASE \E r \in Regenerations : AskAgain(r)
    <3>1. PICK r \in Regenerations, e \in rows, item \in Statements \union {Malformed} :
            /\ regen' = [regen EXCEPT ![r] =
                 [stage |-> "answered", target |-> e,
                  made |-> ValidItems(<<item>>, 1) \ NotAgain(e)]]
            /\ regen[r].stage = "idle"
      BY <2>2 DEF AskAgain
    <3>2. UNCHANGED <<corpusVars, stage, clickVars, workerVars, proposal, crashes>>
      BY <2>2 DEF AskAgain
    <3>3. ValidItems(<<item>>, 1) \subseteq Statements
      BY DEF ValidItems
    <3>4. e.statement \notin ValidItems(<<item>>, 1) \ NotAgain(e)
      BY DEF NotAgain
    <3>5. /\ \A s \in Regenerations \ {r} : regen'[s] = regen[s]
          /\ regen'[r].stage = "answered" /\ regen'[r].target = e
          /\ regen'[r].made = ValidItems(<<item>>, 1) \ NotAgain(e)
      BY <3>1 DEF IInv, Shape
    <3>6. TypeOK'
      BY <3>2, <3>3, <3>5 DEF IInv, TypeOK, corpusVars, clickVars, workerVars
    <3>7. SignedFirst' /\ ReplacementIsNew'
      BY <3>2, <3>4, <3>5 DEF IInv, SignedFirst, ReplacementIsNew, corpusVars
    <3>8. MadeByOne'
      BY <3>1, <3>2, <3>5 DEF IInv, MadeByOne, corpusVars
    <3> QED
      BY <3>6, <3>7, <3>8
  <2>3. CASE \E s \in Leavers : Leave(s)
    <3>1. TypeOK'
      BY <2>3 DEF IInv, TypeOK, Leave, clickVars, workerVars
    <3> QED
      BY <2>3, <3>1 DEF IInv, SignedFirst, MadeByOne, ReplacementIsNew, Leave
  <2>4. CASE UNCHANGED vars
    <3>1. TypeOK'
      BY <2>4 DEF IInv, TypeOK, vars, corpusVars, clickVars, workerVars
    <3> QED
      BY <2>4, <3>1, RowsKept DEF RowFrame, vars
  <2> QED
    BY <2>1, <2>2, <2>3, <2>4
<1> QED
  BY <1>1, <1>2, <1>3, RunsKept DEF IInv

\* A replacement in hand that is stored is in the one step that brings it.
LEMMA ReplaceKeeps ==
    ASSUME IInv, NEW r \in Regenerations, Replace(r)
    PROVE  /\ IInv'
           /\ \A s \in Regenerations \ {r} : regen'[s] = regen[s]
           /\ rows' \ rows # {} <=> regen'[r].stage = "done"
           /\ \A e \in rows' \ rows : /\ regen[r].target \in discarded'
                                      /\ e.statement # regen[r].target.statement
           /\ rows' = rows => discarded' = discarded /\ approved' = approved
<1> DEFINE t == regen[r].target
           new == {GeneratedRow(r, 0, 0, s, t.covers) : s \in regen[r].made}
<1>1. /\ regen[r].stage = "answered"
      /\ UNCHANGED <<results, enrolled, signedOff, stage, clickVars, workerVars,
                     proposal, crashes>>
  BY DEF Replace
<1>2. RunFrame
  BY <1>1 DEF RunFrame
<1>3. t \in rows /\ t.statement \notin regen[r].made /\ regen[r].made \subseteq Statements
  BY <1>1 DEF IInv, ReplacementIsNew, TypeOK
<1>4. \A e \in new : e.by = r /\ e.statement \in regen[r].made
  BY DEF GeneratedRow
<1>5. new \cap rows = {}
  BY <1>1, <1>4, AdaptiveAssumption DEF IInv, MadeByOne
<1>6. CASE new = {}
  <2>1. /\ regen' = [regen EXCEPT ![r] = Answered(r, "failed")]
        /\ UNCHANGED <<rows, approved, discarded>>
    BY <1>6 DEF Replace
  <2>2. /\ \A s \in Regenerations \ {r} : regen'[s] = regen[s]
        /\ regen'[r].stage = "failed" /\ regen'[r].made = regen[r].made
    BY <2>1 DEF IInv, Shape, Answered
  <2>3. Shape'
    BY <1>1, <2>1 DEF IInv, Shape, clickVars, workerVars
  <2>4. TypeOK'
    BY <1>1, <2>1, <2>2 DEF IInv, TypeOK, clickVars, workerVars
  <2>5. SignedFirst' /\ MadeByOne' /\ ReplacementIsNew'
    BY <1>1, <2>1, <2>2 DEF IInv, SignedFirst, MadeByOne, ReplacementIsNew
  <2>6. IInv'
    BY <1>2, <2>3, <2>4, <2>5, RunsKept DEF IInv
  <2> QED
    BY <2>1, <2>2, <2>6
<1>7. CASE new # {}
  <2>1. /\ regen' = [regen EXCEPT ![r] = Answered(r, "done")]
        /\ rows' = rows \union new /\ discarded' = discarded \union {t}
        /\ approved' = approved \ {t}
    BY <1>7 DEF Replace
  <2>2. /\ \A s \in Regenerations \ {r} : regen'[s] = regen[s]
        /\ regen'[r].stage = "done" /\ regen'[r].made = regen[r].made
    BY <2>1 DEF IInv, Shape, Answered
  <2> HIDE DEF new
  <2>3. Shape'
    BY <1>1, <2>1 DEF IInv, Shape, clickVars, workerVars
  <2>4. TypeOK'
    BY <1>1, <1>3, <1>4, <2>1, <2>2 DEF IInv, TypeOK, clickVars, workerVars
  <2>5. SignedFirst' /\ MadeByOne' /\ ReplacementIsNew'
    BY <1>1, <1>4, <2>1, <2>2 DEF IInv, SignedFirst, MadeByOne, ReplacementIsNew
  <2>6. IInv'
    BY <1>2, <2>3, <2>4, <2>5, RunsKept DEF IInv
  <2>7. rows' \ rows = new /\ rows' # rows
    BY <1>5, <1>7, <2>1
  <2> QED
    BY <1>3, <1>4, <1>7, <2>1, <2>2, <2>6, <2>7
<1> QED
  BY <1>6, <1>7

\* The invariant is inductive.
LEMMA NextIInv == IInv /\ [Next]_vars => IInv'
  BY LookKeeps, InsertKeeps, TargetKeeps, GenerateKeeps, MakeKeeps, StoreKeeps,
     DieKeeps, TeachersKeep, ReplaceKeeps
     DEF Next

-----------------------------------------------------------------------------
(* Every step serves on                                                    *)

\* A step of one run leaves the others where they are.
LEMMA OthersServe ==
    ASSUME Serving, RowsAreFew', NEW c \in Clicks,
           Serves(c, stage'[c], request'[c], work'[c], filled'[c], made'[c],
                  crashes'[c], proposal'[c]),
           \A d \in Clicks \ {c} :
             /\ stage'[d] = stage[d] /\ request'[d] = request[d]
             /\ work'[d] = work[d] /\ filled'[d] = filled[d]
             /\ made'[d] = made[d] /\ crashes'[d] = crashes[d]
             /\ proposal'[d] = proposal[d]
    PROVE  Serving'
<1>1. ASSUME NEW d \in Clicks
      PROVE  Serves(d, stage'[d], request'[d], work'[d], filled'[d], made'[d],
                    crashes'[d], proposal'[d])
  <2>1. CASE d = c
    BY <2>1
  <2>2. CASE d # c
    <3>1. Serves(d, stage[d], request[d], work[d], filled[d], made[d],
                 crashes[d], proposal[d])
      BY DEF Serving
    <3> QED
      BY <2>2, <3>1
  <2> QED
    BY <2>1, <2>2
<1> QED
  BY <1>1 DEF Serving

LEMMA InitServing == Init => Serving
<1> SUFFICES ASSUME Init PROVE Serving
  OBVIOUS
<1>1. RowsAreFew
  BY FS_EmptySet DEF Init, RowsAreFew, NoRegeneration
<1>2. \A c \in Clicks : stage[c] = "idle" /\ proposal[c] = Nothing
  BY DEF Init
<1> QED
  BY <1>1, <1>2 DEF Serving, Serves

LEMMA LookServes ==
    ASSUME IInv, Serving, NEW c \in Clicks, NEW t \in Teachers, Look(c, t)
    PROVE  Serving'
<1>1. UNCHANGED <<corpusVars, told, workerVars, proposal, regen, crashes>>
  BY DEF Look
<1>2. RowsAreFew'
  BY <1>1 DEF corpusVars, Serving, RowsAreFew
<1>3. /\ stage'[c] \in {"handed", "looked"} /\ request'[c] \in Requests[c]
      /\ \A d \in Clicks \ {c} : stage'[d] = stage[d] /\ request'[d] = request[d]
      /\ stage[c] = "idle"
  BY DEF Look, IInv, Shape
<1>4. proposal'[c] = Nothing
  BY <1>1, <1>3 DEF IInv, TypeOK
<1>5. request'[c] \in RequestType
  BY <1>3, AdaptiveAssumption
<1>6. Serves(c, stage'[c], request'[c], work'[c], filled'[c], made'[c],
             crashes'[c], proposal'[c])
  BY <1>3, <1>4, <1>5 DEF Serves
<1> QED
  BY <1>1, <1>2, <1>3, <1>6, OthersServe DEF workerVars

LEMMA InsertServes ==
    ASSUME IInv, Serving, NEW c \in Clicks, Insert(c)
    PROVE  Serving'
<1>1. UNCHANGED <<corpusVars, teacher, request, handed, workerVars, proposal,
                  regen, crashes>>
  BY DEF Insert
<1>2. RowsAreFew'
  BY <1>1 DEF corpusVars, Serving, RowsAreFew
<1>3. /\ stage[c] = "looked" /\ stage'[c] = "queued"
      /\ \A d \in Clicks \ {c} : stage'[d] = stage[d]
  BY DEF Insert, IInv, Shape
<1>4. proposal'[c] = Nothing
  BY <1>1, <1>3 DEF IInv, TypeOK
<1>5. request'[c] \in RequestType
  BY <1>1, <1>3 DEF Serving, Serves
<1>6. Serves(c, stage'[c], request'[c], work'[c], filled'[c], made'[c],
             crashes'[c], proposal'[c])
  BY <1>3, <1>4, <1>5 DEF Serves
<1> QED
  BY <1>1, <1>2, <1>3, <1>6, OthersServe DEF workerVars

LEMMA TargetServes ==
    ASSUME IInv, Serving, NEW c \in Clicks, Target(c)
    PROVE  Serving'
<1>1. /\ stage[c] = "queued" /\ stage' = [stage EXCEPT ![c] = "planned"]
      /\ filled' = [filled EXCEPT ![c] = {}]
      /\ made' = [made EXCEPT ![c] = {}]
      /\ UNCHANGED <<corpusVars, clickVars, proposal, regen, crashes>>
  BY DEF Target
<1>2. RowsAreFew'
  BY <1>1 DEF corpusVars, Serving, RowsAreFew
<1>3. /\ stage'[c] = "planned" /\ filled'[c] = {}
      /\ \A d \in Clicks \ {c} : /\ stage'[d] = stage[d] /\ filled'[d] = filled[d]
                                 /\ made'[d] = made[d]
  BY <1>1 DEF IInv, Shape
<1>4. request'[c] = request[c] /\ request[c] \in RequestType
  BY <1>1 DEF clickVars, Serving, Serves
<1>5. proposal'[c] = Nothing
  BY <1>1 DEF IInv, TypeOK
<1>6. DOMAIN work = Clicks
  BY DEF IInv, Shape
<1>7. PICK q, gaps : q = request[c] /\ gaps = GapsByPupil(q)
  OBVIOUS
<1>8. PICK partition \in Partitions(q, Pupils, gaps) :
        work'[c] = WorkOn(PlansOf(partition, q, gaps), Pupils, q)
  BY <1>6, <1>7, Targeted
<1>9. \A d \in Clicks \ {c} : work'[d] = work[d]
  BY <1>6, Targeted
<1>10. PICK plans : plans = PlansOf(partition, q, gaps)
  OBVIOUS
<1>11. Planned(plans, Pupils, q)
  <2>1. results \in Evidence /\ IsFiniteSet(rows)
    BY DEF IInv, TypeOK, Serving, RowsAreFew
  <2> QED
    BY <1>4, <1>7, <1>8, <1>10, <2>1, TargetedIsPlanned
<1>12. PICK grouped : grouped = WantsGroups(q, Pupils)
  OBVIOUS
<1>13. /\ AskedOnce(plans, AsksOf(plans, grouped))
       /\ Labelled(plans, AsksOf(plans, grouped), grouped)
  <2>1. Len(plans) \in Nat /\ DOMAIN plans = 1 .. Len(plans)
    BY <1>11 DEF Planned
  <2> QED
    BY <2>1, AsksAre
<1>14. /\ work'[c].plans = plans /\ work'[c].pupils = Pupils
       /\ work'[c].asks = AsksOf(plans, grouped)
  BY <1>8, <1>10, <1>12 DEF WorkOn
<1>15. Filled(filled'[c], Len(work'[c].asks))
  <2>1. Len(work'[c].asks) \in Nat
    BY <1>13, <1>14 DEF AskedOnce
  <2>2. Cardinality({}) = 0
    BY FS_EmptySet
  <2> QED
    BY <1>3, <2>1, <2>2 DEF Filled, Once
<1>16. Serves(c, stage'[c], request'[c], work'[c], filled'[c], made'[c],
              crashes'[c], proposal'[c])
  BY <1>3, <1>4, <1>5, <1>7, <1>11, <1>12, <1>13, <1>14, <1>15 DEF Serves
<1> QED
  BY <1>1, <1>2, <1>3, <1>9, <1>16, OthersServe DEF clickVars

LEMMA GenerateServes ==
    ASSUME IInv, Serving, NEW c \in Clicks, Generate(c)
    PROVE  Serving'
<1>1. PICK answer \in [Chunk(c) -> Answers \union {Nothing}] :
        filled' = [filled EXCEPT ![c] = @ \union
          {[ask |-> k, kept |-> Kept(c, answer, k)] : k \in Chunk(c)}]
  BY DEF Generate
<1>2. /\ stage[c] = "planned"
      /\ UNCHANGED <<corpusVars, stage, clickVars, work, made, proposal, regen,
                     crashes>>
  BY DEF Generate
<1>3. RowsAreFew'
  BY <1>2 DEF corpusVars, Serving, RowsAreFew
<1>4. PICK new : new = {[ask |-> k, kept |-> Kept(c, answer, k)] : k \in Chunk(c)}
  OBVIOUS
<1>5. /\ filled'[c] = filled[c] \union new
      /\ \A d \in Clicks \ {c} : filled'[d] = filled[d]
  BY <1>1, <1>4 DEF IInv, Shape
<1>6. Serves(c, stage[c], request[c], work[c], filled[c], made[c], crashes[c],
             proposal[c])
  BY DEF Serving
<1>7. /\ request[c] \in RequestType /\ Planned(work[c].plans, work[c].pupils, request[c])
      /\ AskedOnce(work[c].plans, work[c].asks)
      /\ Labelled(work[c].plans, work[c].asks,
                  WantsGroups(request[c], work[c].pupils))
      /\ Filled(filled[c], Len(work[c].asks))
  BY <1>2, <1>6 DEF Serves
<1>8. Filled(filled'[c], Len(work[c].asks))
  <2>1. PICK L : L = Len(work[c].asks)
    OBVIOUS
  <2>2. L \in Nat /\ Filled(filled[c], L)
    BY <1>7, <2>1 DEF AskedOnce
  <2>3. Filled(filled[c] \union
          {[ask |-> k, kept |-> Kept(c, answer, k)] : k \in Chunk(c)}, L)
    BY <2>1, <2>2, CallFillsOn
  <2> QED
    BY <1>4, <1>5, <2>1, <2>3
<1>9. proposal[c] = Nothing
  BY <1>2 DEF IInv, TypeOK
<1>10. Serves(c, stage'[c], request'[c], work'[c], filled'[c], made'[c],
              crashes'[c], proposal'[c])
  BY <1>2, <1>7, <1>8, <1>9 DEF Serves, clickVars
<1> QED
  BY <1>2, <1>3, <1>5, <1>10, OthersServe DEF clickVars

\* The rows of a run are few, and the report comes when nothing is left to ask.
LEMMA RowsOfAreFew ==
    ASSUME NEW c, NEW n, Filled(filled[c], n)
    PROVE  RowsOf(c) = Rows(c, filled[c], work[c], crashes[c]) /\ IsFiniteSet(RowsOf(c))
<1>1. RowsOf(c) = Rows(c, filled[c], work[c], crashes[c])
  BY DEF RowsOf, Rows, RowOf
<1>2. PICK each : each = [f \in filled[c] |->
                            {RowOf(c, f, s, work[c], crashes[c]) : s \in f.kept}]
  OBVIOUS
<1>3. \A f \in filled[c] : IsFiniteSet(each[f])
  <2> TAKE f \in filled[c]
  <2>1. PICK row : row = [s \in f.kept |-> RowOf(c, f, s, work[c], crashes[c])]
    OBVIOUS
  <2>2. IsFiniteSet(f.kept)
    BY DEF Filled
  <2>3. IsFiniteSet({row[s] : s \in f.kept})
    BY <2>2, ImageIsFew
  <2>4. each[f] = {row[s] : s \in f.kept}
    BY <1>2, <2>1
  <2> QED
    BY <2>3, <2>4
<1>4. IsFiniteSet(filled[c])
  BY OnceCounts DEF Filled
<1>5. PICK all : all = {each[f] : f \in filled[c]}
  OBVIOUS
<1>6. IsFiniteSet(all)
  BY <1>4, <1>5, ImageIsFew
<1>7. IsFiniteSet(UNION all)
  <2>1. \A T \in all : IsFiniteSet(T)
    BY <1>3, <1>5
  <2> QED
    BY <1>6, <2>1, FS_UNION
<1>8. UNION all = Rows(c, filled[c], work[c], crashes[c])
  <2>1. \A x : x \in UNION all <=> \E f \in filled[c] : x \in each[f]
    BY <1>5
  <2>2. \A x : x \in Rows(c, filled[c], work[c], crashes[c]) <=>
          \E f \in filled[c] : x \in {RowOf(c, f, s, work[c], crashes[c]) : s \in f.kept}
    BY DEF Rows
  <2>3. \A f \in filled[c] :
          each[f] = {RowOf(c, f, s, work[c], crashes[c]) : s \in f.kept}
    BY <1>2
  <2>4. \A x : x \in UNION all <=> x \in Rows(c, filled[c], work[c], crashes[c])
    BY <2>1, <2>2, <2>3
  <2> QED
    BY <2>4
<1> QED
  BY <1>1, <1>7, <1>8

LEMMA MakeServes ==
    ASSUME IInv, Serving, NEW c \in Clicks, Make(c)
    PROVE  Serving'
<1>1. /\ stage[c] = "planned" /\ stage' = [stage EXCEPT ![c] = "made"]
      /\ Chunk(c) = {} /\ rows' = rows \union RowsOf(c)
      /\ made' = [made EXCEPT ![c] = RowsOf(c)]
      /\ UNCHANGED <<results, enrolled, approved, discarded, signedOff,
                     clickVars, work, seen, filled, proposal, regen, crashes>>
  BY DEF Make
<1>2. Serves(c, stage[c], request[c], work[c], filled[c], made[c], crashes[c],
             proposal[c])
  BY DEF Serving
<1>3. /\ request[c] \in RequestType /\ Planned(work[c].plans, work[c].pupils, request[c])
      /\ AskedOnce(work[c].plans, work[c].asks)
      /\ Labelled(work[c].plans, work[c].asks,
                  WantsGroups(request[c], work[c].pupils))
      /\ Filled(filled[c], Len(work[c].asks))
  BY <1>1, <1>2 DEF Serves
<1>4. RowsOf(c) = Rows(c, filled[c], work[c], crashes[c]) /\ IsFiniteSet(RowsOf(c))
  BY <1>3, RowsOfAreFew
<1>5. RowsAreFew'
  <2>1. IsFiniteSet(rows) /\ \A r \in Regenerations : IsFiniteSet(regen[r].made)
    BY DEF Serving, RowsAreFew
  <2>2. IsFiniteSet(rows \union RowsOf(c))
    BY <1>4, <2>1, FS_Union
  <2> QED
    BY <1>1, <2>1, <2>2 DEF RowsAreFew
<1>6. Cardinality(filled[c]) = Len(work[c].asks)
  <2>1. PICK n, L : n = Cardinality(filled[c]) /\ L = Len(work[c].asks)
    OBVIOUS
  <2>2. n \in 0 .. L /\ L \in Nat
    BY <1>3, <2>1 DEF Filled, AskedOnce
  <2>3. BatchMax \in Nat \ {0}
    BY AdaptiveAssumption
  <2>4. n + 1 \notin 1 .. L
    BY <1>1, <2>1, <2>2, <2>3 DEF Chunk
  <2> QED
    BY <2>1, <2>2, <2>4
<1>7. /\ stage'[c] = "made" /\ made'[c] = RowsOf(c)
      /\ \A d \in Clicks \ {c} : stage'[d] = stage[d] /\ made'[d] = made[d]
  BY <1>1 DEF IInv, Shape
<1>8. proposal[c] = Nothing
  BY <1>1 DEF IInv, TypeOK
<1>9. Serves(c, stage'[c], request'[c], work'[c], filled'[c], made'[c],
             crashes'[c], proposal'[c])
  BY <1>1, <1>3, <1>4, <1>6, <1>7, <1>8 DEF Serves, clickVars
<1> QED
  BY <1>1, <1>5, <1>7, <1>9, OthersServe DEF clickVars

LEMMA StoreServes ==
    ASSUME IInv, Serving, NEW c \in Clicks, Store(c)
    PROVE  Serving'
<1>1. /\ stage[c] = "made" /\ stage' = [stage EXCEPT ![c] = "done"]
      /\ UNCHANGED <<corpusVars, clickVars, workerVars, regen, crashes>>
  BY DEF Store
<1>2. RowsAreFew'
  BY <1>1 DEF corpusVars, Serving, RowsAreFew
<1>3. Serves(c, stage[c], request[c], work[c], filled[c], made[c], crashes[c],
             proposal[c])
  BY DEF Serving
<1>4. /\ request[c] \in RequestType /\ Planned(work[c].plans, work[c].pupils, request[c])
      /\ AskedOnce(work[c].plans, work[c].asks)
      /\ Labelled(work[c].plans, work[c].asks,
                  WantsGroups(request[c], work[c].pupils))
      /\ Filled(filled[c], Len(work[c].asks))
      /\ Cardinality(filled[c]) = Len(work[c].asks)
      /\ made[c] = Rows(c, filled[c], work[c], crashes[c])
  BY <1>1, <1>3 DEF Serves
<1>5. PICK plans, asks, pupils, q, answers :
        /\ plans = work[c].plans /\ asks = work[c].asks /\ pupils = work[c].pupils
        /\ q = request[c] /\ answers = filled[c]
  OBVIOUS
<1>6. PICK groups : groups = [i \in DOMAIN plans |->
        [members |-> plans[i].members, retrieved |-> plans[i].retrieved,
         generated |-> GeneratedFor(c, i), missing |-> plans[i].missing]]
  OBVIOUS
<1>7. proposal' = [proposal EXCEPT ![c] =
                     [groups |-> groups, failures |-> Failures(c)]]
  BY <1>5, <1>6 DEF Store
<1>8. \A i : GeneratedFor(c, i) = Generated(made[c], work[c], i)
  BY DEF GeneratedFor, Generated
<1>9. /\ \A f \in answers : Cardinality(GeneratedFor(c, asks[f.ask].plan))
                              = Cardinality(f.kept)
      /\ \A i \in DOMAIN plans : Cardinality(GeneratedFor(c, i)) \in Nat
  <2>1. /\ AskedOnce(work[c].plans, work[c].asks)
        /\ Filled(filled[c], Len(work[c].asks))
        /\ Cardinality(filled[c]) = Len(work[c].asks)
        /\ made[c] = Rows(c, filled[c], work[c], crashes[c])
    BY <1>4
  <2>2. PICK w, a : w = work[c] /\ a = crashes[c]
    OBVIOUS
  <2>3. /\ AskedOnce(w.plans, w.asks) /\ Filled(answers, Len(w.asks))
        /\ Cardinality(answers) = Len(w.asks)
        /\ made[c] = Rows(c, answers, w, a)
    BY <1>5, <2>1, <2>2
  <2>4. PICK rowsMade : rowsMade = Rows(c, answers, w, a)
    OBVIOUS
  <2>5. /\ \A f \in answers : Cardinality(Generated(rowsMade, w, w.asks[f.ask].plan))
                                = Cardinality(f.kept)
        /\ \A i \in DOMAIN w.plans : Cardinality(Generated(rowsMade, w, i)) \in Nat
    BY <2>3, <2>4, RowsAreKept
  <2>6. \A i : GeneratedFor(c, i) = Generated(rowsMade, w, i)
    BY <1>8, <2>2, <2>3, <2>4
  <2> QED
    BY <1>5, <2>2, <2>5, <2>6
<1> DEFINE line == [f \in answers |->
         [owner |-> plans[asks[f.ask].plan].members[1],
          label |-> asks[f.ask].label,
          requested |-> asks[f.ask].count,
          produced |-> Cardinality(f.kept)]]
           late == {f \in answers : Cardinality(f.kept) < asks[f.ask].count}
<1>10. \A f \in answers :
         /\ line[f] = [owner |-> plans[asks[f.ask].plan].members[1],
                       label |-> asks[f.ask].label,
                       requested |-> asks[f.ask].count,
                       produced |-> Cardinality(f.kept)]
         /\ line[f].owner = plans[asks[f.ask].plan].members[1]
         /\ line[f].label = asks[f.ask].label
         /\ line[f].requested = asks[f.ask].count
         /\ line[f].produced = Cardinality(f.kept)
  OBVIOUS
<1>11. Failures(c) = {line[f] : f \in late}
  <2>1. Failures(c) =
          {[owner |-> plans[asks[f.ask].plan].members[1],
            label |-> asks[f.ask].label,
            requested |-> asks[f.ask].count,
            produced |-> Cardinality(f.kept)] : f \in late}
    BY <1>5 DEF Failures, FailureLines
  <2>2. late \subseteq answers
    OBVIOUS
  <2> HIDE DEF line, late
  <2>3. \A x : x \in Failures(c) => x \in {line[f] : f \in late}
    <3> SUFFICES ASSUME NEW f \in late
                 PROVE  [owner |-> plans[asks[f.ask].plan].members[1],
                         label |-> asks[f.ask].label,
                         requested |-> asks[f.ask].count,
                         produced |-> Cardinality(f.kept)] \in {line[g] : g \in late}
      BY <2>1
    <3> QED
      BY <1>10, <2>2
  <2>4. \A x : x \in {line[f] : f \in late} => x \in Failures(c)
    <3> SUFFICES ASSUME NEW f \in late PROVE line[f] \in Failures(c)
      OBVIOUS
    <3> QED
      BY <1>10, <2>1, <2>2
  <2>5. \A x : x \in Failures(c) <=> x \in {line[f] : f \in late}
    BY <2>3, <2>4
  <2> QED
    BY <2>5
<1> HIDE DEF line
<1>12. Told(groups, Failures(c), WantsGroups(q, pupils))
  <2>1. /\ DOMAIN groups = DOMAIN plans
        /\ \A i \in DOMAIN plans : /\ groups[i].members = plans[i].members
                                   /\ groups[i].missing = plans[i].missing
                                   /\ Cardinality(groups[i].generated) \in Nat
    BY <1>6, <1>9
  <2>2. AskedOnce(plans, asks) /\ Once(answers, Len(asks)) /\ Planned(plans, pupils, q)
    BY <1>4, <1>5 DEF Filled
  <2>3. \A f \in answers : asks[f.ask].plan \in DOMAIN plans
    BY <2>2 DEF AskedOnce, Once
  <2>4. \A f \in answers : Cardinality(groups[asks[f.ask].plan].generated)
                             = Cardinality(f.kept)
    BY <1>6, <1>9, <2>3
  <2>5. \A f \in answers : /\ line[f].owner = plans[asks[f.ask].plan].members[1]
                           /\ line[f].label = asks[f.ask].label
                           /\ line[f].requested = asks[f.ask].count
                           /\ line[f].produced = Cardinality(f.kept)
    BY <1>10
  <2>6. PICK failures : failures = Failures(c)
    OBVIOUS
  <2>7. PICK grouped : grouped = WantsGroups(q, pupils)
    OBVIOUS
  <2>8. Labelled(plans, asks, grouped)
    BY <1>4, <1>5, <2>7
  <2>9. Told(groups, failures, grouped)
    BY <1>11, <2>1, <2>2, <2>4, <2>5, <2>6, <2>8, ShortfallTold
  <2> QED
    BY <2>6, <2>7, <2>9
<1>13. OneEach(groups, pupils, q)
  <2>1. Planned(plans, pupils, q)
    BY <1>4, <1>5
  <2>2. [i \in DOMAIN groups |-> groups[i].members]
          = [i \in DOMAIN plans |-> plans[i].members]
    BY <1>6
  <2>3. DOMAIN groups = 1 .. Len(plans) /\ Len(plans) \in Nat
    BY <1>6, <2>1 DEF Planned
  <2>4. Len(groups) = Len(plans)
    BY <1>6, <2>3
  <2> QED
    BY <1>6, <2>1, <2>2, <2>4 DEF Planned, OneEach
<1>14. /\ proposal'[c] = [groups |-> groups, failures |-> Failures(c)]
       /\ stage'[c] = "done"
       /\ \A d \in Clicks \ {c} : proposal'[d] = proposal[d] /\ stage'[d] = stage[d]
  BY <1>1, <1>7 DEF IInv, Shape
<1>15. Serves(c, stage'[c], request'[c], work'[c], filled'[c], made'[c],
              crashes'[c], proposal'[c])
  BY <1>1, <1>4, <1>5, <1>12, <1>13, <1>14 DEF Serves, clickVars, workerVars
<1> QED
  BY <1>1, <1>2, <1>14, <1>15, OthersServe DEF clickVars, workerVars

LEMMA DieServes ==
    ASSUME IInv, Serving, NEW c \in Clicks, Die(c)
    PROVE  Serving'
<1>1. /\ stage[c] \in {"planned", "made"}
      /\ UNCHANGED <<corpusVars, clickVars, proposal, regen>>
  BY DEF Die
<1>2. RowsAreFew'
  BY <1>1 DEF corpusVars, Serving, RowsAreFew
<1>3. /\ stage'[c] \in {"queued", "failed"}
      /\ \A d \in Clicks \ {c} :
           /\ stage'[d] = stage[d] /\ work'[d] = work[d] /\ filled'[d] = filled[d]
           /\ made'[d] = made[d] /\ crashes'[d] = crashes[d]
  BY DEF Die, IInv, Shape
<1>4. proposal'[c] = Nothing
  BY <1>1 DEF IInv, TypeOK
<1>5. request'[c] \in RequestType
  BY <1>1 DEF clickVars, Serving, Serves
<1>6. Serves(c, stage'[c], request'[c], work'[c], filled'[c], made'[c],
             crashes'[c], proposal'[c])
  BY <1>3, <1>4, <1>5 DEF Serves
<1> QED
  BY <1>1, <1>2, <1>3, <1>6, OthersServe DEF clickVars

\* The teachers change no run, and what replaces an item is few.
LEMMA TeachersServe ==
    ASSUME IInv, Serving,
           \/ \E e \in rows : \/ Approve(e) \/ Discard(e)
                              \/ \E stamp \in BOOLEAN : PatchExercise(e, stamp)
           \/ \E r \in Regenerations : AskAgain(r) \/ Replace(r)
           \/ \E s \in Leavers : Leave(s)
           \/ UNCHANGED vars
    PROVE  Serving'
<1>1. UNCHANGED <<stage, clickVars, workerVars, proposal, crashes>>
  BY DEF Approve, Discard, PatchExercise, AskAgain, Replace, Leave, vars
<1>2. IsFiniteSet(rows) /\ \A r \in Regenerations : IsFiniteSet(regen[r].made)
  BY DEF Serving, RowsAreFew
<1>3. RowsAreFew'
  <2>1. CASE UNCHANGED <<rows, regen>>
    BY <1>2, <2>1 DEF RowsAreFew
  <2>2. CASE \E r \in Regenerations : AskAgain(r)
    <3>1. PICK r \in Regenerations, e \in rows, item \in Statements \union {Malformed} :
            regen' = [regen EXCEPT ![r] =
              [stage |-> "answered", target |-> e,
               made |-> ValidItems(<<item>>, 1) \ NotAgain(e)]]
      BY <2>2 DEF AskAgain
    <3>2. <<item>> \in Seq(Statements \union {Malformed}) \union {Nothing}
      OBVIOUS
    <3>3. IsFiniteSet(ValidItems(<<item>>, 1))
      BY <3>2, ValidItemsAreFew
    <3>4. IsFiniteSet(ValidItems(<<item>>, 1) \ NotAgain(e))
      BY <3>3, FS_Subset
    <3>5. /\ regen'[r].made = ValidItems(<<item>>, 1) \ NotAgain(e)
          /\ \A s \in Regenerations \ {r} : regen'[s] = regen[s]
      BY <3>1 DEF IInv, Shape
    <3>6. rows' = rows
      BY <2>2 DEF AskAgain, corpusVars
    <3> QED
      BY <1>2, <3>4, <3>5, <3>6 DEF RowsAreFew
  <2>3. CASE \E r \in Regenerations : Replace(r)
    <3>1. PICK r \in Regenerations : Replace(r)
      BY <2>3
    <3>2. PICK row : row = [s \in regen[r].made |->
                              GeneratedRow(r, 0, 0, s, regen[r].target.covers)]
      OBVIOUS
    <3>3. rows' = rows \/ rows' = rows \union {row[s] : s \in regen[r].made}
      BY <3>1, <3>2 DEF Replace
    <3>4. IsFiniteSet({row[s] : s \in regen[r].made})
      BY <1>2, ImageIsFew
    <3>5. IsFiniteSet(rows')
      BY <1>2, <3>3, <3>4, FS_Union
    <3>6. \A s \in Regenerations : regen'[s].made = regen[s].made
      BY <3>1 DEF Replace, Answered, IInv, Shape
    <3> QED
      BY <1>2, <3>5, <3>6 DEF RowsAreFew
  <2> QED
    BY <2>1, <2>2, <2>3
       DEF Approve, Discard, PatchExercise, Leave, vars, corpusVars
<1>4. ASSUME NEW c \in Clicks
      PROVE  Serves(c, stage'[c], request'[c], work'[c], filled'[c], made'[c],
                    crashes'[c], proposal'[c])
  BY <1>1 DEF Serving, clickVars, workerVars
<1> QED
  BY <1>3, <1>4 DEF Serving

LEMMA NextServing == IInv /\ Serving /\ [Next]_vars => Serving'
  BY LookServes, InsertServes, TargetServes, GenerateServes, MakeServes,
     StoreServes, DieServes, TeachersServe
     DEF Next

-----------------------------------------------------------------------------
\* The rows and the tables of the runs stay what their names say
\* (services/adaptive_service.py).
THEOREM TypeCorrect == Spec => []TypeOK
<1>1. IInv => TypeOK
  BY DEF IInv
<1> QED
  BY InitIInv, NextIInv, <1>1, PTL DEF Spec

\* Two plans of one run never get the same statement, however the asks were
\* cut into calls (services/adaptive_service.py generate_for_asks, _materialise).
THEOREM NothingIsPrintedTwice == Spec => []NothingTwice
<1>1. IInv => NothingTwice
  BY DEF IInv
<1> QED
  BY InitIInv, NextIInv, <1>1, PTL DEF Spec

\* No proposal holds what had been thrown away when it was asked for
\* (services/adaptive_service.py _rejected_statements, services/retrieval.py).
THEOREM RejectedStaysAway == Spec => []RejectedNeverReturns
<1>1. IInv => RejectedNeverReturns
  BY DEF IInv
<1> QED
  BY InitIInv, NextIInv, <1>1, PTL DEF Spec

\* The corpus gives back what a model wrote only once a teacher approved it
\* (services/retrieval.py gather_candidates).
THEOREM CorpusIsReviewed == Spec => []RetrievedWasReviewed
<1>1. IInv => RetrievedWasReviewed
  BY DEF IInv
<1> QED
  BY InitIInv, NextIInv, <1>1, PTL DEF Spec

\* Every pupil the run found in the class has one list, there are as many
\* series as were asked for, and a list that is short says so, once, to the
\* first of its pupils, under its own name or that of a series after it up to
\* which nothing is asked for: for any class, evidence, partition and answers
\* (services/adaptive_service.py build_adaptive_plans, _materialise;
\* services/adaptive_clustering.py).
THEOREM EveryPupilHasAList == Spec => []EveryPupilIsServed
<1>1. Serving => EveryPupilIsServed
  <2> SUFFICES ASSUME Serving, NEW c \in Clicks, proposal[c] # Nothing
               PROVE  /\ OneEach(proposal[c].groups, work[c].pupils, request[c])
                      /\ Told(proposal[c].groups, proposal[c].failures,
                              WantsGroups(request[c], work[c].pupils))
    BY DEF EveryPupilIsServed, EveryPupilOnce, ShortfallIsTold, OneEach, Told
  <2> QED
    BY DEF Serving, Serves
<1>2. Init => IInv /\ Serving
  BY InitIInv, InitServing
<1>3. IInv /\ Serving /\ [Next]_vars => (IInv /\ Serving)'
  BY NextIInv, NextServing
<1> QED
  BY <1>1, <1>2, <1>3, PTL DEF Spec

\* A click is answered with a run of the same teacher or one of its own
\* (api/v1/adaptive.py propose).
THEOREM RunsAreOnesOwn == Spec => []NotAColleaguesRun
<1>1. IInv => NotAColleaguesRun
  BY DEF IInv
<1> QED
  BY InitIInv, NextIInv, <1>1, PTL DEF Spec

\* The old item goes in the step that brings the new one, which says something
\* else (services/adaptive_service.py regenerate_exercise).
THEOREM OldGoesWhenNewComes == Spec => ReplacementTakesThePlace
<1> DEFINE Step ==
      \A r \in Regenerations : regen'[r].stage # regen[r].stage =>
         /\ rows' \ rows # {} <=> regen'[r].stage = "done"
         /\ \A e \in rows' \ rows : /\ regen[r].target \in discarded'
                                    /\ e.statement # regen[r].target.statement
         /\ rows' = rows => discarded' = discarded /\ approved' = approved
<1>1. IInv /\ [Next]_vars => [Step]_vars
  <2> SUFFICES ASSUME IInv, [Next]_vars PROVE Step
    OBVIOUS
  <2>1. CASE \E r \in Regenerations : Replace(r)
    BY <2>1, ReplaceKeeps
  <2>2. CASE \E r \in Regenerations : AskAgain(r)
    <3>1. PICK r \in Regenerations : AskAgain(r)
      BY <2>2
    <3>2. rows' = rows /\ discarded' = discarded /\ approved' = approved
      BY <3>1 DEF AskAgain, corpusVars
    <3>3. \A s \in Regenerations : regen'[s].stage # regen[s].stage =>
            regen'[s].stage = "answered"
      BY <3>1 DEF AskAgain, IInv, Shape
    <3> QED
      BY <3>2, <3>3
  <2>3. CASE regen' = regen
    BY <2>3
  <2> QED
    BY <2>1, <2>2, <2>3
       DEF Next, vars, Look, Insert, Target, Generate, Make, Store, Die,
           Approve, Discard, PatchExercise, Leave
<1> QED
  BY InitIInv, NextIInv, <1>1, PTL DEF Spec, ReplacementTakesThePlace

=============================================================================
