-------------------------- MODULE IngestionProofs --------------------------
(***************************************************************************)
(* What the shelf shows is true, for any books, rows and readers, and how  *)
(* a book is divided loses none of its pages and none of its exercises.    *)
(***************************************************************************)
EXTENDS Ingestion, Outline, FiniteSetTheorems, SequenceTheorems, WellFoundedInduction,
        TLAPS

-----------------------------------------------------------------------------
(* Numbers                                                                 *)

\* What is numbered has a first.
LEMMA Least ==
    ASSUME NEW S \in SUBSET Nat, S /= {}
    PROVE  \E m \in S : \A n \in S : m <= n
<1> DEFINE Below == {pair \in Nat \X Nat : pair[1] < pair[2]}
<1>1. IsWellFoundedOn(Below, Nat)
  BY NatLessThanWellFounded DEF OpToRel
<1>2. PICK m \in S : \A n \in S : ~ (<<n, m>> \in Below)
  <2> HIDE DEF Below
  <2> QED
    BY <1>1, S \subseteq Nat, S /= {}, WFMin
<1>3. \A n \in S : m <= n
  <2> SUFFICES ASSUME NEW n \in S, n < m PROVE FALSE
    OBVIOUS
  <2>1. <<n, m>> \in Below
    OBVIOUS
  <2> QED
    BY <1>2, <2>1
<1> QED
  BY <1>3

\* The greatest of some numbers below a bound.
LEMMA MaxIsGreatest ==
    ASSUME NEW L \in Nat, NEW S \in SUBSET (0 .. L), S /= {}
    PROVE  Max(S) \in S /\ \A n \in S : n <= Max(S)
<1> DEFINE D == {L - n : n \in S}
<1>0. D \in SUBSET Nat /\ D /= {}
  <2>1. \A n \in S : L - n \in Nat
    OBVIOUS
  <2>2. PICK n \in S : TRUE
    OBVIOUS
  <2>3. L - n \in D
    OBVIOUS
  <2> QED
    BY <2>1, <2>3
<1>1. PICK d \in D : \A e \in D : d <= e
  <2> HIDE DEF D
  <2> QED
    BY <1>0, Least
<1>2. \E m \in S : \A n \in S : m >= n
  <2>1. PICK m \in S : d = L - m
    OBVIOUS
  <2>2. ASSUME NEW n \in S PROVE m >= n
    <3>1. d <= L - n
      BY <1>1
    <3> QED
      BY <2>1, <3>1
  <2> QED
    BY <2>2
<1> QED
  BY <1>2 DEF Max

LEMMA MinOfTwo ==
    ASSUME NEW a \in Nat, NEW b \in Nat
    PROVE  Min({a, b}) \in {a, b} /\ Min({a, b}) <= a /\ Min({a, b}) <= b
<1>1. \E m \in {a, b} : \A n \in {a, b} : m <= n
  BY Least
<1> QED
  BY <1>1 DEF Min

\* The chapters cost together what they cost one after the other.
LEMMA TogetherIsSum ==
    ASSUME NEW costs \in Seq(Nat)
    PROVE  /\ Together(costs) \in [0 .. Len(costs) -> Nat]
           /\ Together(costs)[0] = 0
           /\ \A n \in 1 .. Len(costs) :
                Together(costs)[n] = Together(costs)[n - 1] + costs[n]
<1> DEFINE IsSum(f, n) == /\ f \in [0 .. n -> Nat] /\ f[0] = 0
                          /\ \A m \in 1 .. n : f[m] = f[m - 1] + costs[m]
           Bad == {n \in 0 .. Len(costs) : ~ \E f \in [0 .. n -> Nat] : IsSum(f, n)}
<1>1. Bad = {}
  <2> SUFFICES ASSUME Bad /= {} PROVE FALSE
    OBVIOUS
  <2>0. Bad \in SUBSET Nat
    OBVIOUS
  <2>1. PICK n \in Bad : \A m \in Bad : n <= m
    <3> HIDE DEF Bad
    <3> QED
      BY <2>0, Least
  <2>2. n \in 0 .. Len(costs) /\ ~ \E f \in [0 .. n -> Nat] : IsSum(f, n)
    OBVIOUS
  <2>3. n /= 0
    <3>1. IsSum([m \in 0 .. 0 |-> 0], 0)
      OBVIOUS
    <3> QED
      BY <2>2, <3>1
  <2>4. n - 1 \in 0 .. Len(costs) /\ n - 1 \notin Bad
    <3>1. n - 1 \in 0 .. Len(costs) /\ ~ (n <= n - 1)
      BY <2>2, <2>3
    <3> HIDE DEF Bad
    <3> QED
      BY <2>1, <3>1
  <2>5. PICK f \in [0 .. n - 1 -> Nat] : IsSum(f, n - 1)
    BY <2>4
  <2> DEFINE g == [m \in 0 .. n |-> IF m = n THEN f[n - 1] + costs[n] ELSE f[m]]
  <2>6. costs[n] \in Nat /\ n \in Nat \ {0}
    BY <2>2, <2>3
  <2>7. g \in [0 .. n -> Nat]
    BY <2>6
  <2>8. IsSum(g, n)
    <3>1. g[0] = 0
      BY <2>5, <2>6
    <3>2. ASSUME NEW m \in 1 .. n PROVE g[m] = g[m - 1] + costs[m]
      <4>1. m - 1 \in 0 .. n /\ m - 1 /= n
        BY <2>6
      <4>2. CASE m = n
        BY <4>1, <4>2
      <4>3. CASE m /= n
        <5>1. m \in 1 .. n - 1
          BY <4>3, <2>6
        <5> QED
          BY <4>1, <4>3, <5>1, <2>5
      <4> QED
        BY <4>2, <4>3
    <3> QED
      BY <2>7, <3>1, <3>2
  <2> QED
    BY <2>2, <2>7, <2>8
<1> DEFINE N == Len(costs)
           sum(f) == [n \in 0 .. N |-> IF n = 0 THEN 0 ELSE f[n - 1] + costs[n]]
<1>2. PICK f \in [0 .. N -> Nat] : IsSum(f, N)
  BY <1>1
<1>3. f = sum(f)
  BY <1>2
<1>4. Together(costs) = sum(Together(costs))
  BY <1>3 DEF Together
<1>5. \A n \in 0 .. N : Together(costs)[n] = f[n]
  <2> DEFINE Off == {n \in 0 .. N : Together(costs)[n] /= f[n]}
  <2> SUFFICES ASSUME Off /= {} PROVE FALSE
    OBVIOUS
  <2>0. Off \in SUBSET Nat
    OBVIOUS
  <2>1. PICK n \in Off : \A m \in Off : n <= m
    <3> HIDE DEF Off
    <3> QED
      BY <2>0, Least
  <2>2. CASE n = 0
    BY <1>2, <1>4, <2>2
  <2>3. CASE n /= 0
    <3>1. n - 1 \in 0 .. N /\ n - 1 \notin Off
      BY <2>1, <2>3
    <3>2. Together(costs)[n] = Together(costs)[n - 1] + costs[n]
      BY <1>4, <2>3
    <3> QED
      BY <1>2, <2>3, <3>1, <3>2
  <2> QED
    BY <2>2, <2>3
<1>6. Together(costs) = f
  BY <1>4, <1>5
<1> QED
  BY <1>2, <1>6

\* An import reads some of the first chapters, and goes on as long as it may.
LEMMA EagerlyReadGoesOn ==
    ASSUME NEW costs \in Seq(Nat)
    PROVE  /\ EagerlyRead(costs) \in 0 .. Len(costs)
           /\ \A m \in 2 .. EagerlyRead(costs) : Together(costs)[m] <= MAX_EXTRACTION_CHUNKS
<1> DEFINE spent == Together(costs)
           goesOn(n) == \/ n = 1
                        \/ spent[n - 1] < MAX_EXTRACTION_CHUNKS /\ spent[n] <= MAX_EXTRACTION_CHUNKS
           S == {n \in 0 .. Len(costs) : \A m \in 1 .. n : goesOn(m)}
<1>1. 0 \in S /\ S \in SUBSET (0 .. Len(costs)) /\ Len(costs) \in Nat
  OBVIOUS
<1>2. Max(S) \in S
  <2> HIDE DEF S
  <2> QED
    BY <1>1, MaxIsGreatest
<1>3. EagerlyRead(costs) = Max(S)
  BY DEF EagerlyRead
<1>4. EagerlyRead(costs) \in S
  BY <1>2, <1>3
<1>5. EagerlyRead(costs) \in 0 .. Len(costs) /\ \A m \in 1 .. EagerlyRead(costs) : goesOn(m)
  BY <1>4
<1>6. ASSUME NEW m \in 2 .. EagerlyRead(costs) PROVE spent[m] <= MAX_EXTRACTION_CHUNKS
  <2>1. m \in 1 .. EagerlyRead(costs) /\ m /= 1
    BY <1>5
  <2> QED
    BY <1>5, <2>1
<1> QED
  BY <1>5, <1>6

\* Its calls stay below its ceiling, whatever the chapters are.
LEMMA CallsStayInBudget ==
    ASSUME NEW costs \in Seq(Nat)
    PROVE  CallsFor(costs, EagerlyRead(costs)) \in 0 .. MAX_EXTRACTION_CHUNKS
<1> DEFINE N == Len(costs)
           capped == [i \in DOMAIN costs |-> Min({costs[i], MAX_SECTION_CHUNKS})]
           done == EagerlyRead(costs)
<1>1. MAX_SECTION_CHUNKS \in Nat /\ MAX_EXTRACTION_CHUNKS \in Nat
      /\ MAX_SECTION_CHUNKS <= MAX_EXTRACTION_CHUNKS
  BY IngestionAssumption
<1>2. N \in Nat /\ DOMAIN costs = 1 .. N /\ \A i \in 1 .. N : costs[i] \in Nat
  OBVIOUS
<1>3. \A i \in 1 .. N : /\ Min({costs[i], MAX_SECTION_CHUNKS}) \in Nat
                        /\ Min({costs[i], MAX_SECTION_CHUNKS}) <= costs[i]
                        /\ Min({costs[i], MAX_SECTION_CHUNKS}) <= MAX_SECTION_CHUNKS
  <2> SUFFICES ASSUME NEW i \in 1 .. N
               PROVE  /\ Min({costs[i], MAX_SECTION_CHUNKS}) \in Nat
                      /\ Min({costs[i], MAX_SECTION_CHUNKS}) <= costs[i]
                      /\ Min({costs[i], MAX_SECTION_CHUNKS}) <= MAX_SECTION_CHUNKS
    OBVIOUS
  <2>1. costs[i] \in Nat
    BY <1>2
  <2> QED
    BY <1>1, <2>1, MinOfTwo
<1>4. capped \in Seq(Nat) /\ Len(capped) = N
  <2>1. capped \in [1 .. N -> Nat]
    BY <1>2, <1>3
  <2> QED
    BY <1>2, <2>1
<1>5. \A i \in 1 .. N : capped[i] \in Nat /\ capped[i] <= costs[i] /\ capped[i] <= MAX_SECTION_CHUNKS
  BY <1>2, <1>3
<1> HIDE DEF capped
<1>6. /\ Together(capped) \in [0 .. N -> Nat] /\ Together(capped)[0] = 0
      /\ \A n \in 1 .. N : Together(capped)[n] = Together(capped)[n - 1] + capped[n]
  BY <1>4, TogetherIsSum
<1>7. /\ Together(costs) \in [0 .. N -> Nat] /\ Together(costs)[0] = 0
      /\ \A n \in 1 .. N : Together(costs)[n] = Together(costs)[n - 1] + costs[n]
  BY TogetherIsSum
<1>8. \A n \in 0 .. N : Together(capped)[n] <= Together(costs)[n]
  <2> DEFINE Off == {n \in 0 .. N : ~ (Together(capped)[n] <= Together(costs)[n])}
  <2> SUFFICES ASSUME Off /= {} PROVE FALSE
    OBVIOUS
  <2>1. Off \in SUBSET Nat
    BY <1>2
  <2>2. PICK n \in Off : \A m \in Off : n <= m
    <3> HIDE DEF Off
    <3> QED
      BY <2>1, Least
  <2>3. n \in 0 .. N /\ ~ (Together(capped)[n] <= Together(costs)[n])
    OBVIOUS
  <2>4. n /= 0
    BY <1>6, <1>7, <2>3
  <2>5. n - 1 \in 0 .. N /\ n - 1 \notin Off
    <3>1. n - 1 \in 0 .. N /\ ~ (n <= n - 1)
      BY <1>2, <2>3, <2>4
    <3> HIDE DEF Off
    <3> QED
      BY <2>2, <3>1
  <2>6. Together(capped)[n - 1] <= Together(costs)[n - 1]
    BY <2>5
  <2>7. n \in 1 .. N
    BY <2>3, <2>4
  <2>8. /\ Together(capped)[n] = Together(capped)[n - 1] + capped[n]
        /\ Together(costs)[n] = Together(costs)[n - 1] + costs[n]
        /\ capped[n] <= costs[n] /\ capped[n] \in Nat /\ costs[n] \in Nat
        /\ Together(capped)[n - 1] \in Nat /\ Together(costs)[n - 1] \in Nat
    <3>1. n - 1 \in 0 .. N
      BY <2>5
    <3> QED
      BY <1>2, <1>5, <1>6, <1>7, <2>7, <3>1
  <2> QED
    BY <2>3, <2>6, <2>8
<1>9. done \in 0 .. N /\ \A m \in 2 .. done : Together(costs)[m] <= MAX_EXTRACTION_CHUNKS
  BY EagerlyReadGoesOn
<1>10. CallsFor(costs, done) = Together(capped)[done]
  BY DEF CallsFor, capped
<1> SUFFICES CallsFor(costs, done) \in 0 .. MAX_EXTRACTION_CHUNKS
  OBVIOUS
<1> HIDE DEF done, N
<1>11. CASE done = 0
  BY <1>1, <1>6, <1>10, <1>11
<1>12. CASE done = 1
  <2>1. 1 \in 1 .. N /\ 1 - 1 = 0
    BY <1>2, <1>9, <1>12
  <2>2. Together(capped)[1] = 0 + capped[1] /\ capped[1] \in Nat /\ capped[1] <= MAX_SECTION_CHUNKS
    BY <1>5, <1>6, <2>1
  <2> QED
    BY <1>1, <1>10, <1>12, <2>2
<1>13. CASE done \notin {0, 1}
  <2>1. done \in 2 .. done /\ done \in 0 .. N
    BY <1>2, <1>9, <1>13
  <2>2. /\ Together(capped)[done] \in Nat /\ Together(costs)[done] \in Nat
        /\ Together(capped)[done] <= Together(costs)[done]
        /\ Together(costs)[done] <= MAX_EXTRACTION_CHUNKS
    BY <1>6, <1>7, <1>8, <1>9, <2>1
  <2> QED
    BY <1>1, <1>10, <2>2
<1> QED
  BY <1>11, <1>12, <1>13

-----------------------------------------------------------------------------
(* What a reading finds                                                    *)

\* The theme of an exercise is one that asks for a competency of it, and
\* there is one if it has a competency.
LEMMA ThemeFits ==
    ASSUME NEW codes \in SUBSET Catalogue
    PROVE  /\ codes = {} <=> ThemeFor(codes) = Nothing
           /\ ThemeFor(codes) /= Nothing => Themes[ThemeFor(codes)] \intersect codes /= {}
<1> DEFINE overlap(t) == Cardinality(Themes[t] \intersect codes)
           best == {t \in DOMAIN Themes : \A u \in DOMAIN Themes : overlap(u) <= overlap(t)}
           K == Cardinality(Catalogue)
<1>1. IsFiniteSet(Catalogue) /\ DOMAIN Themes \subseteq Nat /\ Nothing \notin DOMAIN Themes
  BY IngestionAssumption, BooksAssumption DEF Catalogue, Competencies
<1>2. K \in Nat
  BY <1>1, FS_CardinalityType
<1>3. \A t \in DOMAIN Themes : /\ overlap(t) \in 0 .. K
                               /\ overlap(t) = 0 <=> Themes[t] \intersect codes = {}
  <2> SUFFICES ASSUME NEW t \in DOMAIN Themes
               PROVE  overlap(t) \in 0 .. K /\ (overlap(t) = 0 <=> Themes[t] \intersect codes = {})
    OBVIOUS
  <2>1. Themes[t] \intersect codes \subseteq Catalogue
    OBVIOUS
  <2>2. IsFiniteSet(Themes[t] \intersect codes) /\ overlap(t) <= K
    BY <1>1, <2>1, FS_Subset
  <2>3. overlap(t) \in Nat /\ (overlap(t) = 0 <=> Themes[t] \intersect codes = {})
    BY <2>2, FS_CardinalityType, FS_EmptySet
  <2> QED
    BY <1>2, <2>2, <2>3
<1>4. codes /= {} <=> \E t \in DOMAIN Themes : Themes[t] \intersect codes /= {}
  <2>1. \A c \in codes : \E t \in DOMAIN Themes : c \in Themes[t]
    BY DEF Catalogue, Competencies, Range
  <2> QED
    BY <2>1
<1>5. ThemeFor(codes) = IF \A t \in DOMAIN Themes : overlap(t) = 0 THEN Nothing ELSE Min(best)
  BY DEF ThemeFor
<1> HIDE DEF overlap
<1>6. CASE \A t \in DOMAIN Themes : overlap(t) = 0
  BY <1>3, <1>4, <1>5, <1>6
<1>7. CASE ~ \A t \in DOMAIN Themes : overlap(t) = 0
  <2>1. PICK u \in DOMAIN Themes : overlap(u) /= 0
    BY <1>7
  <2> DEFINE Values == {overlap(t) : t \in DOMAIN Themes}
  <2>2. Values \in SUBSET (0 .. K) /\ Values /= {}
    BY <1>3, <2>1
  <2>3. Max(Values) \in Values /\ \A n \in Values : n <= Max(Values)
    <3> HIDE DEF Values
    <3> QED
      BY <1>2, <2>2, MaxIsGreatest
  <2>4. PICK t \in DOMAIN Themes : overlap(t) = Max(Values)
    BY <2>3
  <2>5. t \in best
    BY <2>3, <2>4
  <2>6. best \in SUBSET Nat /\ best /= {}
    BY <1>1, <2>5
  <2>7. Min(best) \in best
    <3> HIDE DEF best
    <3> QED
      BY <2>6, Least DEF Min
  <2>8. Min(best) \in DOMAIN Themes /\ overlap(u) <= overlap(Min(best))
    BY <2>7
  <2>9. overlap(Min(best)) /= 0
    BY <1>2, <1>3, <2>1, <2>8
  <2>10. ThemeFor(codes) = Min(best)
    BY <1>5, <1>7
  <2> HIDE DEF best
  <2> QED
    BY <1>1, <1>3, <1>4, <2>8, <2>9, <2>10
<1> QED
  BY <1>6, <1>7

\* Of two places one comes first.
LEMMA PlacesAreInOrder ==
    ASSUME NEW p \in Nat \X Nat \X Nat, NEW q \in Nat \X Nat \X Nat, p /= q
    PROVE  Precedes(p, q) \/ Precedes(q, p)
<1>1. p = <<p[1], p[2], p[3]>> /\ q = <<q[1], q[2], q[3]>>
  OBVIOUS
<1>2. p[1] \in Nat /\ p[2] \in Nat /\ p[3] \in Nat /\ q[1] \in Nat /\ q[2] \in Nat /\ q[3] \in Nat
  OBVIOUS
<1>3. p[1] /= q[1] \/ p[2] /= q[2] \/ p[3] /= q[3]
  BY <1>1
<1> QED
  BY <1>2, <1>3 DEF Precedes

\* Of some places one comes before all others.
LEMMA FirstPlace ==
    ASSUME NEW P \in SUBSET (Nat \X Nat \X Nat), P /= {}
    PROVE  \E p \in P : \A q \in P : ~ Precedes(q, p)
<1> DEFINE I == {p[1] : p \in P}
<1>1. I \in SUBSET Nat /\ I /= {}
  OBVIOUS
<1>2. PICK i \in I : \A m \in I : i <= m
  <2> HIDE DEF I
  <2> QED
    BY <1>1, Least
<1> DEFINE PI == {p \in P : p[1] = i}
           C == {p[2] : p \in PI}
<1>3. C \in SUBSET Nat /\ C /= {}
  OBVIOUS
<1>4. PICK c \in C : \A m \in C : c <= m
  <2> HIDE DEF C
  <2> QED
    BY <1>3, Least
<1> DEFINE PC == {p \in PI : p[2] = c}
           N == {p[3] : p \in PC}
<1>5. N \in SUBSET Nat /\ N /= {}
  OBVIOUS
<1>6. PICK n \in N : \A m \in N : n <= m
  <2> HIDE DEF N
  <2> QED
    BY <1>5, Least
<1>7. PICK p \in PC : p[3] = n
  OBVIOUS
<1>8. p \in P /\ p[1] = i /\ p[2] = c /\ p[3] = n
  BY <1>7
<1>9. ASSUME NEW q \in P, Precedes(q, p) PROVE FALSE
  <2>1. q[1] \in Nat /\ q[2] \in Nat /\ q[3] \in Nat /\ i \in Nat /\ c \in Nat /\ n \in Nat
    BY <1>1, <1>3, <1>5
  <2>2. i <= q[1]
    BY <1>2
  <2>3. q[1] = i => c <= q[2]
    BY <1>4
  <2>4. q[1] = i /\ q[2] = c => n <= q[3]
    BY <1>6
  <2> QED
    BY <1>8, <1>9, <2>1, <2>2, <2>3, <2>4 DEF Precedes
<1> QED
  BY <1>8, <1>9

\* One statement becomes one exercise, and each that can be classified does
\* unless it is there already.
LEMMA NewInIsUnique ==
    ASSUME NEW book, NEW places \in SUBSET (Nat \X Nat \X Nat), NEW seen,
           NEW p \in NewIn(book, places, seen), NEW q \in NewIn(book, places, seen),
           StatementAt(book, p) = StatementAt(book, q)
    PROVE  p = q
BY PlacesAreInOrder DEF NewIn

LEMMA NewInIsWhole ==
    ASSUME NEW book, NEW places \in SUBSET (Nat \X Nat \X Nat), NEW seen,
           NEW p \in places, IsClassified(Emitted[StatementAt(book, p)])
    PROVE  \/ StatementAt(book, p) \in seen
           \/ \E q \in NewIn(book, places, seen) : StatementAt(book, q) = StatementAt(book, p)
<1> SUFFICES ASSUME StatementAt(book, p) \notin seen
             PROVE  \E q \in NewIn(book, places, seen) : StatementAt(book, q) = StatementAt(book, p)
  OBVIOUS
<1> DEFINE P == {q \in places : StatementAt(book, q) = StatementAt(book, p)}
<1>1. P \in SUBSET (Nat \X Nat \X Nat) /\ P /= {}
  OBVIOUS
<1>2. PICK q \in P : \A o \in P : ~ Precedes(o, q)
  <2> HIDE DEF P
  <2> QED
    BY <1>1, FirstPlace
<1>3. q \in NewIn(book, places, seen)
  BY <1>2 DEF NewIn
<1> QED
  BY <1>3

\* A chapter that is no longer than one reading is read whole.
LEMMA ShortChaptersAreReadWhole ==
    ASSUME NEW book, NEW section,
           DOMAIN book.chunks \subseteq Nat, IsFiniteSet(DOMAIN book.chunks),
           Cardinality(ChunksIn(book, section)) <= MAX_SECTION_CHUNKS
    PROVE  ReadIn(book, section) = ChunksIn(book, section)
<1> DEFINE all == ChunksIn(book, section)
           Earlier(c) == {d \in all : d < c}
<1>1. IsFiniteSet(all) /\ all \subseteq Nat
  BY FS_Subset DEF ChunksIn
<1>2. MAX_SECTION_CHUNKS \in Nat
  BY IngestionAssumption
<1> HIDE DEF all
<1>3. ASSUME NEW c \in all PROVE Cardinality(Earlier(c)) < MAX_SECTION_CHUNKS
  <2>1. IsFiniteSet(all \ {c}) /\ Cardinality(all \ {c}) = Cardinality(all) - 1
    BY <1>1, FS_RemoveElement
  <2>2. Earlier(c) \subseteq all \ {c}
    BY <1>1
  <2>3. Cardinality(Earlier(c)) <= Cardinality(all \ {c}) /\ IsFiniteSet(Earlier(c))
    BY <2>1, <2>2, FS_Subset
  <2>4. Cardinality(all) \in Nat /\ Cardinality(Earlier(c)) \in Nat
    BY <1>1, <2>3, FS_CardinalityType
  <2> QED
    BY <1>2, <2>1, <2>3, <2>4 DEF all
<1> QED
  BY <1>3 DEF ReadIn, all

-----------------------------------------------------------------------------
(* What the shelf holds                                                    *)

Statements == DOMAIN Emitted
SectionRow == [gen : Runs, from : Nat, to : Nat, read : BOOLEAN, notice : Notices,
               missed : SUBSET Nat, blank : BOOLEAN]
SourceRow == [book : Library \union {Nothing}, status : Statuses, notice : Notices,
              calls : 0 .. MAX_EXTRACTION_CHUNKS]
RunRow == [pc : RunStates, twin : Rows \union {Nothing}, sections : Seq(SectionRow)]
ReaderRow == [pc : ReaderStates, row : Rows \union {Nothing}, gen : Runs \union {Nothing},
              at : Nat, seen : SUBSET Statements]

\* An exercise has its fields, among them a statement and a book.
IsExercise(e) ==
    /\ DOMAIN e = {"id", "src", "gen", "sec", "page", "says", "coded", "key", "tags", "theme"}
    /\ e.says \in Statements
    /\ e.src \in Rows \union {Nothing}

\* Its theme fits its tags, and its key its options.
TagsFit(e) ==
    /\ e.tags = {} <=> e.theme = Nothing
    /\ e.theme /= Nothing => Themes[e.theme] \intersect e.tags /= {}
KeyFits(e) ==
    /\ e.key.index /= Nothing => e.key.type = "mcq" /\ e.key.index \in 0 .. e.key.options - 1
    /\ e.key.type = "mcq" => e.key.options >= 2

\* A place is a statement in a chunk that is read.
LEMMA PlacesAreRead ==
    ASSUME NEW b \in Library, NEW chapters, NEW which \in SUBSET Nat, NEW failing,
           NEW p \in Places(Book[b], chapters, which, failing)
    PROVE  /\ p \in Nat \X Nat \X Nat
           /\ p[1] \in which
           /\ p[2] \in ReadIn(Book[b], chapters[p[1]]) \ failing
           /\ p[3] \in DOMAIN Book[b].chunks[p[2]].says
           /\ StatementAt(Book[b], p) \in Statements
<1>0. PICK i \in which : \E c \in ReadIn(Book[b], chapters[i]) \ failing :
        \E n \in DOMAIN Book[b].chunks[c].says : p = <<i, c, n>>
  BY DEF Places
<1>1. PICK c \in ReadIn(Book[b], chapters[i]) \ failing :
        \E n \in DOMAIN Book[b].chunks[c].says : p = <<i, c, n>>
  BY <1>0
<1>2. PICK n \in DOMAIN Book[b].chunks[c].says : p = <<i, c, n>>
  BY <1>1
<1>3. c \in DOMAIN Book[b].chunks /\ c \in Nat
  BY BooksAssumption DEF ReadIn, ChunksIn
<1>4. Book[b].chunks[c].says \in Seq(Statements)
  BY <1>3, BooksAssumption DEF Statements
<1>5. n \in Nat /\ Book[b].chunks[c].says[n] \in Statements /\ i \in Nat
  BY <1>4
<1>6. p[1] = i /\ p[2] = c /\ p[3] = n /\ p \in Nat \X Nat \X Nat
  BY <1>2, <1>3, <1>5
<1>7. StatementAt(Book[b], p) = Book[b].chunks[c].says[n]
  BY <1>6 DEF StatementAt
<1> QED
  BY <1>5, <1>6, <1>7

\* What is read of the chunks of a chapter stands on its pages.
LEMMA ReadInIsWithin ==
    ASSUME NEW book, NEW section, NEW c \in ReadIn(book, section)
    PROVE  c \in ChunksIn(book, section) /\ Within(book.chunks[c].page, section)
BY DEF ReadIn, ChunksIn

\* A transcription makes whole exercises of the chapters it reads, each of a
\* statement that was not there, and one of every statement.
IsTranscription(r, gen, book, chapters, which, failing, seen, found) ==
    /\ \A e \in found :
         /\ IsExercise(e) /\ TagsFit(e) /\ KeyFits(e)
         /\ e.src = r /\ e.gen = gen /\ e.coded = Nothing /\ e.says \notin seen
         /\ e.sec \in which /\ Within(e.page, chapters[e.sec])
    /\ \A d, e \in found : d.says = e.says => d = e
    /\ \A i \in which : \A c \in ReadIn(book, chapters[i]) \ failing :
         \A s \in Range(book.chunks[c].says) :
           IsClassified(Emitted[s]) => s \in seen \/ \E e \in found : e.says = s

LEMMA TranscribedIsRight ==
    ASSUME NEW b \in Library, NEW r \in Rows, NEW gen, NEW chapters,
           NEW which \in SUBSET Nat, NEW failing, NEW seen, NEW by,
           NEW found,
           found = Transcribed(r, gen, Book[b], Places(Book[b], chapters, which, failing), seen, by)
    PROVE  IsTranscription(r, gen, Book[b], chapters, which, failing, seen, found)
<1> DEFINE book == Book[b]
           places == Places(book, chapters, which, failing)
           item(p) == Emitted[StatementAt(book, p)]
           written(p) == Exercise(<<by, p[2], StatementAt(book, p)>>, r, gen, p[1],
                                  book.chunks[p[2]].page, StatementAt(book, p), Nothing)
           made(p) == [Tagged(written(p), item(p)) EXCEPT !.key = Coerced(item(p))]
           new == {made(p) : p \in NewIn(book, places, seen)}
<1>1. found = new
  BY DEF Transcribed
<1>2. \A p \in places :
        /\ p \in Nat \X Nat \X Nat /\ p[1] \in which
        /\ p[2] \in ReadIn(book, chapters[p[1]]) \ failing
        /\ p[3] \in DOMAIN book.chunks[p[2]].says
        /\ StatementAt(book, p) \in Statements
  BY PlacesAreRead
<1>3. places \in SUBSET (Nat \X Nat \X Nat)
  BY <1>2
<1>4. \A p \in NewIn(book, places, seen) :
        p \in places /\ IsClassified(item(p)) /\ StatementAt(book, p) \notin seen
  BY DEF NewIn
<1>5. ASSUME NEW p
      PROVE  /\ DOMAIN made(p) = {"id", "src", "gen", "sec", "page", "says", "coded", "key",
                                  "tags", "theme"}
             /\ made(p).src = r /\ made(p).gen = gen /\ made(p).coded = Nothing
             /\ made(p).sec = p[1] /\ made(p).page = book.chunks[p[2]].page
             /\ made(p).says = StatementAt(book, p) /\ made(p).key = Coerced(item(p))
             /\ made(p).tags = Resolved(item(p)) /\ made(p).theme = ThemeFor(Resolved(item(p)))
  BY DEF Tagged, Exercise
<1> HIDE DEF made, places
<1>6. ASSUME NEW p \in NewIn(book, places, seen)
      PROVE  /\ IsExercise(made(p)) /\ TagsFit(made(p)) /\ KeyFits(made(p))
             /\ made(p).src = r /\ made(p).gen = gen /\ made(p).coded = Nothing
             /\ made(p).says = StatementAt(book, p) /\ made(p).says \notin seen
             /\ made(p).sec \in which /\ Within(made(p).page, chapters[made(p).sec])
  <2>1. /\ p \in places /\ IsClassified(item(p)) /\ StatementAt(book, p) \notin seen
        /\ p[1] \in which /\ p[2] \in ReadIn(book, chapters[p[1]])
        /\ StatementAt(book, p) \in Statements
    BY <1>2, <1>4
  <2>2. Within(book.chunks[p[2]].page, chapters[p[1]])
    BY <2>1, ReadInIsWithin
  <2>3. IsExercise(made(p))
    BY <1>5, <2>1 DEF IsExercise
  <2>4. TagsFit(made(p))
    <3>1. Resolved(item(p)) \in SUBSET Catalogue
      BY DEF Resolved
    <3> QED
      BY <1>5, <3>1, ThemeFits DEF TagsFit
  <2>5. KeyFits(made(p))
    <3>1. made(p).key = Coerced(item(p))
      BY <1>5
    <3> QED
      BY <2>1, <3>1 DEF KeyFits, Coerced, IsClassified
  <2> QED
    BY <1>5, <2>1, <2>2, <2>3, <2>4, <2>5
<1>7. ASSUME NEW d \in new, NEW e \in new, d.says = e.says PROVE d = e
  <2>1. PICK p \in NewIn(book, places, seen) : d = made(p)
    OBVIOUS
  <2>2. PICK q \in NewIn(book, places, seen) : e = made(q)
    OBVIOUS
  <2>3. StatementAt(book, p) = StatementAt(book, q)
    BY <1>6, <1>7, <2>1, <2>2
  <2>4. p = q
    BY <1>3, <2>3, NewInIsUnique
  <2> QED
    BY <2>1, <2>2, <2>4
<1>8. ASSUME NEW i \in which, NEW c \in ReadIn(book, chapters[i]) \ failing,
             NEW s \in Range(book.chunks[c].says), IsClassified(Emitted[s])
      PROVE  s \in seen \/ \E e \in new : e.says = s
  <2>1. PICK n \in DOMAIN book.chunks[c].says : s = book.chunks[c].says[n]
    BY DEF Range
  <2>2. <<i, c, n>> \in places
    BY DEF places, Places
  <2>3. StatementAt(book, <<i, c, n>>) = s
    BY <2>1 DEF StatementAt
  <2>4. s \in seen \/ \E q \in NewIn(book, places, seen) : StatementAt(book, q) = s
    BY <1>3, <1>8, <2>2, <2>3, NewInIsWhole
  <2> QED
    BY <1>6, <2>4
<1>9. \A e \in new :
        /\ IsExercise(e) /\ TagsFit(e) /\ KeyFits(e)
        /\ e.src = r /\ e.gen = gen /\ e.coded = Nothing /\ e.says \notin seen
        /\ e.sec \in which /\ Within(e.page, chapters[e.sec])
  BY <1>6
<1> HIDE DEF new
<1> QED
  BY <1>1, <1>7, <1>8, <1>9 DEF IsTranscription

\* A classification changes the key, the tags and the theme, and they fit.
LEMMA ClassifiedIsRight ==
    ASSUME NEW e, IsExercise(e)
    PROVE  LET c == Classified(e) IN
           /\ IsExercise(c) /\ TagsFit(c) /\ KeyFits(c)
           /\ c.id = e.id /\ c.src = e.src /\ c.gen = e.gen /\ c.sec = e.sec
           /\ c.page = e.page /\ c.says = e.says /\ c.coded = e.coded
<1> DEFINE item == Emitted[e.says]
           key == IF IsClassified(item) THEN Coerced(item) ELSE OpenQuestion
           c == Classified(e)
<1>1. c = [Tagged(e, item) EXCEPT !.key = key]
  BY DEF Classified
<1>2. /\ DOMAIN c = DOMAIN e /\ c.key = key
      /\ c.tags = Resolved(item) /\ c.theme = ThemeFor(Resolved(item))
      /\ c.id = e.id /\ c.src = e.src /\ c.gen = e.gen /\ c.sec = e.sec
      /\ c.page = e.page /\ c.says = e.says /\ c.coded = e.coded
  BY <1>1 DEF Tagged, IsExercise
<1> HIDE DEF c
<1>3. TagsFit(c)
  <2>1. Resolved(item) \in SUBSET Catalogue
    BY DEF Resolved
  <2> QED
    BY <1>2, <2>1, ThemeFits DEF TagsFit
<1>4. KeyFits(c)
  BY <1>2 DEF KeyFits, Coerced, IsClassified, OpenQuestion
<1> QED
  BY <1>2, <1>3, <1>4 DEF IsExercise, c

-----------------------------------------------------------------------------
(* What an ingest writes                                                   *)

HasChapterIn(e, chapters) ==
    /\ e.sec \in DOMAIN chapters
    /\ e.gen = chapters[e.sec].gen
    /\ Within(e.page, chapters[e.sec])

\* Two exercises with one statement are both coded.
NoneTwice(set) == \A d, e \in set : d /= e /\ d.says = e.says => d.coded /= Nothing /\ e.coded /= Nothing

\* What the i-th chapter of a book shows is true of these exercises.
IsTrueOf(book, i, section, set) ==
    /\ section.read /\ section.notice = Nothing /\ ~ section.blank
    /\ \A e \in set : e.sec = i => e.coded = Nothing
    => \A c \in ChunksIn(book, section) \ section.missed : \A s \in Range(book.chunks[c].says) :
         IsClassified(Emitted[s]) => \E e \in set : e.says = s

\* A content has its form, and what an ingest finds is also sound.
IsContent(r, j, content) ==
    /\ content.sections \in Seq(SectionRow)
    /\ \A i \in DOMAIN content.sections : content.sections[i].gen = j
    /\ content.notice \in Notices /\ content.calls \in 0 .. MAX_EXTRACTION_CHUNKS
    /\ \A e \in content.exercises : IsExercise(e) /\ e.src = r /\ TagsFit(e) /\ KeyFits(e)
IsSoundFor(book, content) ==
    /\ \A e \in content.exercises : HasChapterIn(e, content.sections)
    /\ content.notice = Nothing => \A i \in DOMAIN content.sections : content.sections[i].read
    /\ \A i \in DOMAIN content.sections :
         IsTrueOf(book, i, content.sections[i], content.exercises)

LEMMA ConstantsAreSound ==
    /\ MAX_SECTION_CHUNKS \in Nat \ {0} /\ MAX_EXTRACTION_CHUNKS \in Nat \ {0}
    /\ MAX_SECTION_CHUNKS <= MAX_EXTRACTION_CHUNKS
    /\ Nothing \notin Rows /\ Nothing \notin Library /\ Nothing \notin DOMAIN Themes
<1>1. {MAX_EXTRACTION_CHUNKS, MAX_SECTION_CHUNKS, MaxDeliveries} \subseteq Nat \ {0}
  BY IngestionAssumption
<1> QED
  BY <1>1, IngestionAssumption

LEMMA NoticesAreSomething ==
    /\ Nothing /= "ungrounded" /\ Nothing /= "untagged"
    /\ Nothing /= "rest_waits" /\ Nothing /= "cut_short"
<1>1. Nothing \notin {"ungrounded", "untagged", "rest_waits", "cut_short"}
  BY IngestionAssumption
<1> QED
  BY <1>1

LEMMA SeqHolds ==
    ASSUME NEW S, NEW q \in Seq(S), NEW n \in DOMAIN q
    PROVE  q[n] \in S
OBVIOUS

LEMMA FunctionIsSeq ==
    ASSUME NEW S, NEW n \in Nat, NEW f \in [1 .. n -> S]
    PROVE  f \in Seq(S) /\ Len(f) = n /\ DOMAIN f = 1 .. n
OBVIOUS

\* What is in a chapter follows from its first and its last page.
LEMMA SamePages ==
    ASSUME NEW book, NEW d, NEW e, d.from = e.from, d.to = e.to
    PROVE  /\ \A page : Within(page, d) <=> Within(page, e)
           /\ ChunksIn(book, d) = ChunksIn(book, e)
           /\ ReadIn(book, d) = ReadIn(book, e)
<1>1. \A page : Within(page, d) <=> Within(page, e)
  BY DEF Within
<1>2. ChunksIn(book, d) = ChunksIn(book, e)
  BY <1>1 DEF ChunksIn
<1> QED
  BY <1>1, <1>2 DEF ReadIn

\* A chapter that is written is a row, unread, with the pages it has.
LEMMA SectionIsRow ==
    ASSUME NEW b \in Library, NEW j \in Runs, NEW i \in DOMAIN Book[b].chapters
    PROVE  LET s == Section(j, Book[b].chapters[i]) IN
           /\ s \in SectionRow /\ s.gen = j /\ ~ s.read /\ ~ s.blank /\ s.notice = Nothing
<1>1. Book[b].chapters \in Seq([from : Nat, to : Nat])
  BY BooksAssumption
<1>2. Book[b].chapters[i] \in [from : Nat, to : Nat]
  BY <1>1, SeqHolds
<1>3. Book[b].chapters[i].from \in Nat /\ Book[b].chapters[i].to \in Nat
  BY <1>2
<1> QED
  BY <1>3 DEF Section, SectionRow, Notices

\* A stamp marks the chapter read and leaves its pages.
LEMMA StampedIsRow ==
    ASSUME NEW s \in SectionRow, NEW cost, NEW missed \in SUBSET Nat
    PROVE  LET t == Stamped(s, cost, missed) IN
           /\ t \in SectionRow /\ t.gen = s.gen /\ t.from = s.from /\ t.to = s.to
           /\ t.read /\ t.missed = missed /\ t.blank = s.blank
<1> DEFINE notice == IF cost > MAX_SECTION_CHUNKS THEN "cut_short" ELSE Nothing
           t == [s EXCEPT !.read = TRUE, !.missed = missed, !.notice = notice]
<1>1. notice \in Notices
  BY DEF Notices
<1>2. Stamped(s, cost, missed) = t
  BY DEF Stamped
<1> HIDE DEF notice
<1>3. /\ t \in SectionRow /\ t.gen = s.gen /\ t.from = s.from /\ t.to = s.to
      /\ t.read /\ t.missed = missed /\ t.blank = s.blank
  BY <1>1 DEF SectionRow
<1> QED
  BY <1>2, <1>3

\* It says so if the chapter was cut short.
LEMMA StampTellsTheCut ==
    ASSUME NEW s \in SectionRow, NEW cost \in Nat, NEW missed
    PROVE  Stamped(s, cost, missed).notice = Nothing <=> cost <= MAX_SECTION_CHUNKS
<1> DEFINE notice == IF cost > MAX_SECTION_CHUNKS THEN "cut_short" ELSE Nothing
<1>1. notice = Nothing <=> cost <= MAX_SECTION_CHUNKS
  BY ConstantsAreSound, NoticesAreSomething
<1>2. Stamped(s, cost, missed).notice = notice
  <2>1. Stamped(s, cost, missed) = [s EXCEPT !.read = TRUE, !.missed = missed, !.notice = notice]
    BY DEF Stamped
  <2> HIDE DEF notice
  <2>2. "notice" \in DOMAIN s
    BY DEF SectionRow
  <2> QED
    BY <2>1, <2>2
<1> QED
  BY <1>1, <1>2

LEMMA ChunksInAreFinite ==
    ASSUME NEW b \in Library, NEW section
    PROVE  /\ ChunksIn(Book[b], section) \subseteq Nat
           /\ ReadIn(Book[b], section) \subseteq ChunksIn(Book[b], section)
           /\ Cardinality(ChunksIn(Book[b], section)) \in Nat
<1>1. DOMAIN Book[b].chunks \subseteq Nat /\ IsFiniteSet(DOMAIN Book[b].chunks)
  BY BooksAssumption
<1>2. ChunksIn(Book[b], section) \subseteq DOMAIN Book[b].chunks
  BY DEF ChunksIn
<1>3. IsFiniteSet(ChunksIn(Book[b], section))
  BY <1>1, <1>2, FS_Subset
<1> QED
  BY <1>1, <1>2, <1>3, FS_CardinalityType DEF ReadIn

\* The notice tells when the last chapters wait.
LEMMA RestIsTold ==
    ASSUME NEW chapters, Len(chapters) \in Nat, NEW done \in 0 .. Len(chapters)
    PROVE  /\ RestNotice(done, chapters) \in Notices
           /\ RestNotice(done, chapters) = Nothing => \A i \in 1 .. Len(chapters) : i <= done
<1>1. RestNotice(done, chapters) = Nothing => ~ (done < Len(chapters))
  BY NoticesAreSomething DEF RestNotice
<1>2. RestNotice(done, chapters) \in Notices
  BY DEF RestNotice, Notices
<1> QED
  BY <1>1, <1>2

\* A book transcribed from its text is sound.
LEMMA FromTextIsSound ==
    ASSUME NEW b \in Library, NEW r \in Rows, NEW j \in Runs, NEW failing
    PROVE  LET content == FromText(r, j, Book[b], failing) IN
           /\ IsContent(r, j, content) /\ IsSoundFor(Book[b], content)
           /\ NoneTwice(content.exercises)
<1> DEFINE book == Book[b]
           chapters == [i \in DOMAIN book.chapters |-> Section(j, book.chapters[i])]
           costs == [i \in DOMAIN chapters |-> Cardinality(ChunksIn(book, chapters[i]))]
           done == EagerlyRead(costs)
           stamped == [i \in DOMAIN chapters |->
                         IF i > done THEN chapters[i]
                         ELSE Stamped(chapters[i], costs[i],
                                      failing \intersect ReadIn(book, chapters[i]))]
           new == Transcribed(r, j, book, Places(book, chapters, 1 .. done, failing), {}, j)
           content == FromText(r, j, book, failing)
           N == Len(book.chapters)
<1>1. N \in Nat /\ DOMAIN book.chapters = 1 .. N
  BY BooksAssumption
<1>2. ASSUME NEW i \in 1 .. N
      PROVE  /\ chapters[i] \in SectionRow /\ chapters[i].gen = j
             /\ ~ chapters[i].read /\ ~ chapters[i].blank
  BY <1>1, SectionIsRow
<1>3. DOMAIN chapters = 1 .. N /\ chapters \in Seq(SectionRow)
  <2>1. chapters \in [1 .. N -> SectionRow]
    BY <1>1, <1>2
  <2> QED
    BY <1>1, <2>1
<1>4. costs \in Seq(Nat) /\ Len(costs) = N /\ \A i \in 1 .. N : costs[i] \in Nat
  <2>1. costs \in [1 .. N -> Nat]
    BY <1>1, ChunksInAreFinite
  <2> HIDE DEF costs
  <2>2. costs \in Seq(Nat) /\ Len(costs) = N
    BY <1>1, <2>1, FunctionIsSeq
  <2> QED
    BY <2>1, <2>2
<1>5. \A i \in 1 .. N : costs[i] = Cardinality(ChunksIn(book, chapters[i]))
  BY <1>1
<1> HIDE DEF chapters, costs
<1>6. done \in 0 .. N
  BY <1>4, EagerlyReadGoesOn
<1>7. CallsFor(costs, done) \in 0 .. MAX_EXTRACTION_CHUNKS
  BY <1>4, CallsStayInBudget
<1> HIDE DEF done
<1>8. CASE ~ grounded
  <2>1. content = Content(chapters, {}, "ungrounded", 0)
    BY <1>8 DEF FromText, chapters
  <2>2. /\ content.sections = chapters /\ content.exercises = {}
        /\ content.notice = "ungrounded" /\ content.calls = 0
    BY <2>1 DEF Content
  <2>3. MAX_EXTRACTION_CHUNKS \in Nat /\ Nothing /= "ungrounded"
    BY ConstantsAreSound, NoticesAreSomething
  <2> HIDE DEF content
  <2>4. IsContent(r, j, content)
    BY <1>2, <1>3, <2>2, <2>3 DEF IsContent, Notices
  <2>5. IsSoundFor(book, content) /\ NoneTwice(content.exercises)
    BY <1>2, <1>3, <2>2, <2>3 DEF IsSoundFor, NoneTwice, IsTrueOf
  <2> QED
    BY <2>4, <2>5 DEF content
<1>9. CASE grounded
  <2>1. content = Content(stamped, new, RestNotice(done, chapters), CallsFor(costs, done))
    BY <1>9 DEF FromText, chapters, costs, done
  <2>2. /\ content.sections = stamped /\ content.exercises = new
        /\ content.notice = RestNotice(done, chapters) /\ content.calls = CallsFor(costs, done)
    BY <2>1 DEF Content
  <2>0. 1 .. done \in SUBSET Nat
    BY <1>1, <1>6
  <2>3. 1 .. done \subseteq 1 .. N
    BY <1>1, <1>6
  <2>4. /\ \A e \in new :
             /\ IsExercise(e) /\ TagsFit(e) /\ KeyFits(e)
             /\ e.src = r /\ e.gen = j /\ e.coded = Nothing
             /\ e.sec \in 1 .. done /\ Within(e.page, chapters[e.sec])
        /\ \A d, e \in new : d.says = e.says => d = e
        /\ \A i \in 1 .. done : \A c \in ReadIn(book, chapters[i]) \ failing :
             \A s \in Range(book.chunks[c].says) :
               IsClassified(Emitted[s]) => \E e \in new : e.says = s
    <3> DEFINE which == 1 .. done
    <3>1. which \in SUBSET Nat
      BY <2>0
    <3>2. new = Transcribed(r, j, Book[b], Places(Book[b], chapters, which, failing), {}, j)
      OBVIOUS
    <3> HIDE DEF new, which
    <3>3. IsTranscription(r, j, Book[b], chapters, which, failing, {}, new)
      BY <3>1, <3>2, TranscribedIsRight
    <3> QED
      BY <3>3 DEF which, IsTranscription
  <2>5. ASSUME NEW i \in 1 .. N
        PROVE  /\ stamped[i] \in SectionRow /\ stamped[i].gen = j
               /\ stamped[i].from = chapters[i].from /\ stamped[i].to = chapters[i].to
               /\ stamped[i].read <=> i <= done
               /\ i <= done => /\ stamped[i].missed = failing \intersect ReadIn(book, chapters[i])
                               /\ stamped[i].notice = Nothing <=> costs[i] <= MAX_SECTION_CHUNKS
    <3>1. i \in DOMAIN chapters /\ chapters[i] \in SectionRow /\ costs[i] \in Nat
      BY <1>2, <1>3, <1>4
    <3>2. CASE i > done
      <4>1. stamped[i] = chapters[i]
        BY <3>1, <3>2
      <4> QED
        BY <1>2, <1>6, <3>1, <3>2, <4>1
    <3>3. CASE ~ (i > done)
      <4>1. stamped[i] = Stamped(chapters[i], costs[i], failing \intersect ReadIn(book, chapters[i]))
        BY <3>1, <3>3
      <4>2. failing \intersect ReadIn(book, chapters[i]) \in SUBSET Nat
        BY ChunksInAreFinite
      <4>3. i <= done
        BY <1>6, <3>3
      <4> HIDE DEF stamped
      <4> QED
        BY <1>2, <3>1, <4>1, <4>2, <4>3, StampedIsRow, StampTellsTheCut
    <3> QED
      BY <3>2, <3>3
  <2>6. DOMAIN stamped = 1 .. N /\ stamped \in Seq(SectionRow)
    <3>1. DOMAIN stamped = 1 .. N
      BY <1>3
    <3>2. stamped \in [1 .. N -> SectionRow]
      BY <2>5, <1>3
    <3> HIDE DEF stamped
    <3> QED
      BY <1>1, <3>1, <3>2, FunctionIsSeq
  <2>7. \A e \in new : HasChapterIn(e, stamped)
    <3> HIDE DEF stamped, new
    <3> SUFFICES ASSUME NEW e \in new PROVE HasChapterIn(e, stamped)
      OBVIOUS
    <3>1. e.sec \in 1 .. N /\ Within(e.page, chapters[e.sec]) /\ e.gen = j
      BY <2>3, <2>4
    <3>2. Within(e.page, stamped[e.sec])
      BY <2>5, <3>1, SamePages
    <3> QED
      BY <2>5, <2>6, <3>1, <3>2 DEF HasChapterIn
  <2>8. RestNotice(done, chapters) \in Notices
        /\ (RestNotice(done, chapters) = Nothing => \A i \in 1 .. N : i <= done)
    <3>1. Len(chapters) = N
      BY <1>1, <1>3
    <3> QED
      BY <1>1, <1>6, <3>1, RestIsTold
  <2>9. ASSUME NEW i \in 1 .. N PROVE IsTrueOf(book, i, stamped[i], new)
    <3> HIDE DEF stamped, new
    <3> SUFFICES ASSUME stamped[i].read, stamped[i].notice = Nothing,
                        NEW c \in ChunksIn(book, stamped[i]) \ stamped[i].missed,
                        NEW s \in Range(book.chunks[c].says), IsClassified(Emitted[s])
                 PROVE  \E e \in new : e.says = s
      BY DEF IsTrueOf
    <3>1. i <= done /\ costs[i] <= MAX_SECTION_CHUNKS
      BY <2>5
    <3>2. ChunksIn(book, stamped[i]) = ChunksIn(book, chapters[i])
      BY <2>5, SamePages
    <3>3. ReadIn(book, chapters[i]) = ChunksIn(book, chapters[i])
      BY <1>5, <3>1, BooksAssumption, ShortChaptersAreReadWhole
    <3>4. i \in 1 .. done /\ c \in ReadIn(book, chapters[i]) \ failing
      BY <1>6, <2>5, <3>1, <3>2, <3>3
    <3> QED
      BY <2>4, <3>4
  <2> HIDE DEF content, stamped, new
  <2>10. IsContent(r, j, content)
    BY <1>7, <2>2, <2>4, <2>5, <2>6, <2>8 DEF IsContent
  <2>11. IsSoundFor(book, content)
    BY <2>2, <2>5, <2>6, <2>7, <2>8, <2>9 DEF IsSoundFor
  <2>12. NoneTwice(content.exercises)
    BY <2>2, <2>4 DEF NoneTwice
  <2> QED
    BY <2>10, <2>11, <2>12 DEF content
<1> QED
  BY <1>8, <1>9

LEMMA RegionsInAreFinite ==
    ASSUME NEW b \in Library, NEW section
    PROVE  /\ Cardinality(RegionsIn(Book[b], section)) \in Nat
           /\ Cardinality(RegionsIn(Book[b], section)) = 0 <=> RegionsIn(Book[b], section) = {}
<1>1. IsFiniteSet(DOMAIN Book[b].regions)
  BY BooksAssumption
<1>2. RegionsIn(Book[b], section) \subseteq DOMAIN Book[b].regions
  BY DEF RegionsIn
<1>3. IsFiniteSet(RegionsIn(Book[b], section))
  BY <1>1, <1>2, FS_Subset
<1> QED
  BY <1>3, FS_CardinalityType, FS_EmptySet

\* What is cut from the pages of a chapter stands in it, under its code.
IsCut(e, r, gen, i, section) ==
    /\ IsExercise(e) /\ TagsFit(e) /\ KeyFits(e)
    /\ e.src = r /\ e.gen = gen /\ e.coded /= Nothing
    /\ e.sec = i /\ Within(e.page, section)

LEMMA CutIsRight ==
    ASSUME NEW b \in Library, NEW r \in Rows, NEW gen, NEW i, NEW section,
           NEW g \in RegionsIn(Book[b], section)
    PROVE  IsCut(Exercise(<<gen, Book[b].regions[g].label>>, r, gen, i, Book[b].regions[g].page,
                          Book[b].regions[g].says, Book[b].regions[g].label),
                 r, gen, i, section)
<1> DEFINE e == Exercise(<<gen, Book[b].regions[g].label>>, r, gen, i, Book[b].regions[g].page,
                         Book[b].regions[g].says, Book[b].regions[g].label)
<1>1. g \in DOMAIN Book[b].regions /\ Within(Book[b].regions[g].page, section)
  BY DEF RegionsIn
<1>2. Book[b].regions[g].says \in Statements /\ Book[b].regions[g].label /= Nothing
  BY <1>1, BooksAssumption DEF Statements
<1>3. /\ DOMAIN e = {"id", "src", "gen", "sec", "page", "says", "coded", "key", "tags", "theme"}
      /\ e.src = r /\ e.gen = gen /\ e.coded = Book[b].regions[g].label
      /\ e.sec = i /\ e.page = Book[b].regions[g].page /\ e.says = Book[b].regions[g].says
      /\ e.key = OpenQuestion /\ e.tags = {} /\ e.theme = Nothing
  BY DEF Exercise
<1> HIDE DEF e
<1>4. IsExercise(e)
  BY <1>2, <1>3 DEF IsExercise
<1>5. TagsFit(e)
  BY <1>3 DEF TagsFit
<1>6. KeyFits(e)
  BY <1>3 DEF KeyFits, OpenQuestion
<1>7. IsCut(e, r, gen, i, section)
  BY <1>1, <1>2, <1>3, <1>4, <1>5, <1>6 DEF IsCut
<1> QED
  BY <1>7 DEF e

LEMMA ClassifiedIsCut ==
    ASSUME NEW e, NEW r, NEW gen, NEW i, NEW section, IsCut(e, r, gen, i, section)
    PROVE  IsCut(Classified(e), r, gen, i, section)
<1>1. IsExercise(e)
  BY DEF IsCut
<1> QED
  BY <1>1, ClassifiedIsRight DEF IsCut

\* A book cut from its layout is sound.
LEMMA FromLayoutIsSound ==
    ASSUME NEW b \in Library, NEW r \in Rows, NEW j \in Runs, NEW failing
    PROVE  LET content == FromLayout(r, j, Book[b], failing) IN
           /\ IsContent(r, j, content) /\ IsSoundFor(Book[b], content)
           /\ NoneTwice(content.exercises)
<1> DEFINE book == Book[b]
           chapters == [i \in DOMAIN book.chapters |-> Section(j, book.chapters[i])]
           costs == [i \in DOMAIN chapters |-> Cardinality(RegionsIn(book, chapters[i]))]
           done == EagerlyRead(costs)
           cut(i) == {Exercise(<<j, book.regions[g].label>>, r, j, i, book.regions[g].page,
                               book.regions[g].says, book.regions[g].label) :
                        g \in RegionsIn(book, chapters[i])}
           answered(i) == {e \in Asked(cut(i)) : e.coded \notin failing}
           untagged == [i \in DOMAIN chapters |-> [chapters[i] EXCEPT !.notice = "untagged"]]
           all == UNION {cut(i) : i \in DOMAIN chapters}
           stamped == [i \in DOMAIN chapters |->
                         IF i > done THEN chapters[i]
                         ELSE [Stamped(chapters[i], costs[i], {}) EXCEPT !.blank = costs[i] = 0]]
           made(i) == IF i > done THEN cut(i)
                      ELSE (cut(i) \ answered(i)) \union {Classified(e) : e \in answered(i)}
           new == UNION {made(i) : i \in DOMAIN chapters}
           content == FromLayout(r, j, book, failing)
           N == Len(book.chapters)
<1>1. N \in Nat /\ DOMAIN book.chapters = 1 .. N
  BY BooksAssumption
<1>2. ASSUME NEW i \in 1 .. N
      PROVE  /\ chapters[i] \in SectionRow /\ chapters[i].gen = j
             /\ ~ chapters[i].read /\ ~ chapters[i].blank
  BY <1>1, SectionIsRow
<1>3. DOMAIN chapters = 1 .. N /\ chapters \in Seq(SectionRow)
  <2>1. chapters \in [1 .. N -> SectionRow]
    BY <1>1, <1>2
  <2> QED
    BY <1>1, <2>1
<1>4. costs \in Seq(Nat) /\ Len(costs) = N /\ \A i \in 1 .. N : costs[i] \in Nat
  <2>1. costs \in [1 .. N -> Nat]
    BY <1>1, RegionsInAreFinite
  <2> HIDE DEF costs
  <2>2. costs \in Seq(Nat) /\ Len(costs) = N
    BY <1>1, <2>1, FunctionIsSeq
  <2> QED
    BY <2>1, <2>2
<1>5. \A i \in 1 .. N : costs[i] = Cardinality(RegionsIn(book, chapters[i]))
  BY <1>1
<1> HIDE DEF chapters, costs
<1>6. done \in 0 .. N
  BY <1>4, EagerlyReadGoesOn
<1>7. CallsFor(costs, done) \in 0 .. MAX_EXTRACTION_CHUNKS
  BY <1>4, CallsStayInBudget
<1> HIDE DEF done
<1>8. ASSUME NEW i \in 1 .. N, NEW e \in cut(i) PROVE IsCut(e, r, j, i, chapters[i])
  <2>1. PICK g \in RegionsIn(Book[b], chapters[i]) :
          e = Exercise(<<j, Book[b].regions[g].label>>, r, j, i, Book[b].regions[g].page,
                       Book[b].regions[g].says, Book[b].regions[g].label)
    BY <1>8
  <2> QED
    BY <2>1, CutIsRight
<1>9. \A i \in 1 .. N : costs[i] /= 0 => cut(i) /= {}
  <2> SUFFICES ASSUME NEW i \in 1 .. N, costs[i] /= 0 PROVE cut(i) /= {}
    OBVIOUS
  <2>1. RegionsIn(book, chapters[i]) /= {}
    BY <1>5, RegionsInAreFinite
  <2> QED
    BY <2>1
<1> HIDE DEF cut
<1>10. CASE ~ grounded
  <2>1. content = Content(untagged, all, "untagged", 0)
    BY <1>10 DEF FromLayout, chapters, cut
  <2>2. /\ content.sections = untagged /\ content.exercises = all
        /\ content.notice = "untagged" /\ content.calls = 0
    BY <2>1 DEF Content
  <2>3. MAX_EXTRACTION_CHUNKS \in Nat /\ Nothing /= "untagged" /\ "untagged" \in Notices
    BY ConstantsAreSound, NoticesAreSomething DEF Notices
  <2>4. ASSUME NEW i \in 1 .. N
        PROVE  /\ untagged[i] \in SectionRow /\ untagged[i].gen = j /\ ~ untagged[i].read
               /\ untagged[i].from = chapters[i].from /\ untagged[i].to = chapters[i].to
    <3>1. untagged[i] = [chapters[i] EXCEPT !.notice = "untagged"]
      BY <1>3
    <3> HIDE DEF untagged
    <3> QED
      BY <1>2, <2>3, <3>1 DEF SectionRow
  <2>5. DOMAIN untagged = 1 .. N /\ untagged \in Seq(SectionRow)
    <3>1. DOMAIN untagged = 1 .. N
      BY <1>3
    <3>2. untagged \in [1 .. N -> SectionRow]
      BY <2>4, <1>3
    <3> HIDE DEF untagged
    <3> QED
      BY <1>1, <3>1, <3>2, FunctionIsSeq
  <2>6. \A e \in all : \E i \in 1 .. N : IsCut(e, r, j, i, chapters[i])
    BY <1>3, <1>8
  <2> HIDE DEF content, untagged, all
  <2>7. ASSUME NEW e \in all
        PROVE  /\ HasChapterIn(e, untagged) /\ IsExercise(e) /\ e.src = r
               /\ TagsFit(e) /\ KeyFits(e) /\ e.coded /= Nothing
    <3>1. PICK i \in 1 .. N : IsCut(e, r, j, i, chapters[i])
      BY <2>6
    <3>2. e.sec = i /\ e.gen = j /\ Within(e.page, chapters[i])
      BY <3>1 DEF IsCut
    <3>3. Within(e.page, untagged[i])
      BY <2>4, <3>2, SamePages
    <3>4. HasChapterIn(e, untagged)
      BY <2>4, <2>5, <3>2, <3>3 DEF HasChapterIn
    <3> QED
      BY <3>1, <3>4 DEF IsCut
  <2>8. IsContent(r, j, content)
    BY <2>2, <2>3, <2>4, <2>5, <2>7 DEF IsContent
  <2>9. IsSoundFor(book, content)
    BY <2>2, <2>3, <2>4, <2>5, <2>7 DEF IsSoundFor, IsTrueOf
  <2>10. NoneTwice(content.exercises)
    BY <2>2, <2>7 DEF NoneTwice
  <2> QED
    BY <2>8, <2>9, <2>10 DEF content
<1>11. CASE grounded
  <2>1. content = Content(stamped, new, RestNotice(done, chapters), CallsFor(costs, done))
    BY <1>11 DEF FromLayout, chapters, costs, done, cut
  <2>2. /\ content.sections = stamped /\ content.exercises = new
        /\ content.notice = RestNotice(done, chapters) /\ content.calls = CallsFor(costs, done)
    BY <2>1 DEF Content
  <2>3. ASSUME NEW i \in 1 .. N, NEW e \in made(i) PROVE IsCut(e, r, j, i, chapters[i])
    <3>1. e \in cut(i) \/ \E d \in cut(i) : e = Classified(d)
      BY <2>3 DEF Asked
    <3> HIDE DEF made
    <3>2. CASE e \in cut(i)
      BY <1>8, <3>2
    <3>3. ASSUME NEW d \in cut(i), e = Classified(d) PROVE IsCut(e, r, j, i, chapters[i])
      <4>1. IsCut(d, r, j, i, chapters[i])
        BY <1>8
      <4> QED
        BY <3>3, <4>1, ClassifiedIsCut
    <3> QED
      BY <3>1, <3>2, <3>3
  <2>4. ASSUME NEW i \in 1 .. N, costs[i] /= 0 PROVE made(i) /= {}
    <3>1. PICK e \in cut(i) : TRUE
      BY <1>9, <2>4
    <3>2. e \in made(i) \/ Classified(e) \in made(i)
      OBVIOUS
    <3> QED
      BY <3>2
  <2> HIDE DEF made
  <2>5. ASSUME NEW i \in 1 .. N
        PROVE  /\ stamped[i] \in SectionRow /\ stamped[i].gen = j
               /\ stamped[i].from = chapters[i].from /\ stamped[i].to = chapters[i].to
               /\ stamped[i].read <=> i <= done
               /\ stamped[i].read /\ ~ stamped[i].blank => costs[i] /= 0
    <3>1. i \in DOMAIN chapters /\ chapters[i] \in SectionRow /\ costs[i] \in Nat
      BY <1>2, <1>3, <1>4
    <3>2. CASE i > done
      <4>1. stamped[i] = chapters[i]
        BY <3>1, <3>2
      <4> QED
        BY <1>2, <1>6, <3>1, <3>2, <4>1
    <3>3. CASE ~ (i > done)
      <4> DEFINE t == Stamped(chapters[i], costs[i], {})
      <4>1. stamped[i] = [t EXCEPT !.blank = costs[i] = 0]
        BY <3>1, <3>3
      <4>2. i <= done
        BY <1>6, <3>3
      <4> HIDE DEF stamped
      <4>3. /\ t \in SectionRow /\ t.gen = chapters[i].gen /\ t.from = chapters[i].from
            /\ t.to = chapters[i].to /\ t.read
        BY <3>1, StampedIsRow
      <4> HIDE DEF t
      <4>4. (costs[i] = 0) \in BOOLEAN
        OBVIOUS
      <4>5. stamped[i] \in SectionRow
        BY <4>1, <4>3, <4>4 DEF SectionRow
      <4>6. /\ stamped[i].gen = t.gen /\ stamped[i].from = t.from /\ stamped[i].to = t.to
            /\ stamped[i].read = t.read /\ stamped[i].blank = (costs[i] = 0)
        BY <4>1, <4>3 DEF SectionRow
      <4> QED
        BY <1>2, <4>2, <4>3, <4>5, <4>6
    <3> QED
      BY <3>2, <3>3
  <2>6. DOMAIN stamped = 1 .. N /\ stamped \in Seq(SectionRow)
    <3>1. DOMAIN stamped = 1 .. N
      BY <1>3
    <3>2. stamped \in [1 .. N -> SectionRow]
      BY <2>5, <1>3
    <3> HIDE DEF stamped
    <3> QED
      BY <1>1, <3>1, <3>2, FunctionIsSeq
  <2>7. \A e \in new : \E i \in 1 .. N : IsCut(e, r, j, i, chapters[i])
    BY <1>3, <2>3
  <2>8. \A i \in 1 .. N : costs[i] /= 0 => \E e \in new : IsCut(e, r, j, i, chapters[i])
    <3> SUFFICES ASSUME NEW i \in 1 .. N, costs[i] /= 0
                 PROVE  \E e \in new : IsCut(e, r, j, i, chapters[i])
      OBVIOUS
    <3>1. PICK e \in made(i) : TRUE
      BY <2>4
    <3>2. e \in new
      BY <1>3
    <3> QED
      BY <2>3, <3>2
  <2> HIDE DEF content, stamped, new
  <2>9. ASSUME NEW e \in new
        PROVE  /\ HasChapterIn(e, stamped) /\ IsExercise(e) /\ e.src = r
               /\ TagsFit(e) /\ KeyFits(e) /\ e.coded /= Nothing
    <3>1. PICK i \in 1 .. N : IsCut(e, r, j, i, chapters[i])
      BY <2>7
    <3>2. e.sec = i /\ e.gen = j /\ Within(e.page, chapters[i])
      BY <3>1 DEF IsCut
    <3>3. Within(e.page, stamped[i])
      BY <2>5, <3>2, SamePages
    <3>4. HasChapterIn(e, stamped)
      BY <2>5, <2>6, <3>2, <3>3 DEF HasChapterIn
    <3> QED
      BY <3>1, <3>4 DEF IsCut
  <2>10. RestNotice(done, chapters) \in Notices
         /\ (RestNotice(done, chapters) = Nothing => \A i \in 1 .. N : i <= done)
    <3>1. Len(chapters) = N
      BY <1>1, <1>3
    <3> QED
      BY <1>1, <1>6, <3>1, RestIsTold
  <2>11. ASSUME NEW i \in 1 .. N PROVE IsTrueOf(book, i, stamped[i], new)
    <3> SUFFICES ASSUME stamped[i].read, ~ stamped[i].blank,
                        \A e \in new : e.sec = i => e.coded = Nothing
                 PROVE  FALSE
      BY DEF IsTrueOf
    <3>1. PICK e \in new : IsCut(e, r, j, i, chapters[i])
      BY <2>5, <2>8
    <3> QED
      BY <3>1 DEF IsCut
  <2>12. IsContent(r, j, content)
    BY <1>7, <2>2, <2>5, <2>6, <2>9, <2>10 DEF IsContent
  <2>13. IsSoundFor(book, content)
    BY <2>2, <2>5, <2>6, <2>9, <2>10, <2>11 DEF IsSoundFor
  <2>14. NoneTwice(content.exercises)
    BY <2>2, <2>9 DEF NoneTwice
  <2> QED
    BY <2>12, <2>13, <2>14 DEF content
<1> QED
  BY <1>10, <1>11

-----------------------------------------------------------------------------
(* The invariant                                                           *)

Typed ==
    /\ request \in [Rows -> {"none", "looked", "stored", "pushed", "refused"}]
    /\ source \in [Rows -> SourceRow]
    /\ sections \in [Rows -> Seq(SectionRow)]
    /\ indexed \in [Rows -> BOOLEAN]
    /\ run \in [Runs -> RunRow]
    /\ reader \in [Readers -> ReaderRow]
    /\ deleting \in [Rows -> BOOLEAN]
    /\ raced \subseteq Rows /\ torn \subseteq Rows

ExercisesFit == \A e \in exercises : IsExercise(e) /\ TagsFit(e) /\ KeyFits(e)

\* A row whose job the queue did not take has a book and nothing else.
IsBare(r) ==
    /\ sections[r] = <<>> /\ Of(r) = {}
    /\ source[r].status \in {"absent", "queued", "deleted"}
    /\ \A k \in Deliveries : run[<<r, k>>].pc = "none"
RowsAreUploaded ==
    \A r \in Rows :
        /\ request[r] /= "none" => source[r].book \in Library
        /\ request[r] /= "pushed" => IsBare(r)

\* The chapters of a book were written together, by an ingest that ended.
AreOne(chapters) ==
    \A i \in DOMAIN chapters :
        chapters[i].gen = chapters[1].gen /\ run[chapters[i].gen].pc = "ended"
ChaptersAreOne == \A r \in Rows : AreOne(sections[r])

\* A copy is of another row with the same book.
CopiesAreOfTwins ==
    \A j \in Runs : run[j].pc = "copying" =>
        /\ run[j].twin \in Rows
        /\ run[j].twin /= j[1]
        /\ request[run[j].twin] = "pushed"
        /\ source[run[j].twin].book = source[j[1]].book
        /\ AreOne(run[j].sections)

\* The chapter a reader was given is there as long as the ingest it is of.
StillThere(x) ==
    LET r == reader[x].row
    IN  sections[r] /= <<>> /\ sections[r][1].gen = reader[x].gen
ReadersHaveTheirChapter ==
    \A x \in Readers : reader[x].pc \in {"asked", "reading"} =>
        /\ reader[x].row \in Rows
        /\ request[reader[x].row] = "pushed"
        /\ reader[x].gen \in Runs /\ run[reader[x].gen].pc = "ended"
        /\ StillThere(x) => reader[x].at \in DOMAIN sections[reader[x].row]

\* What a reader took down the book has, and all of it if nobody else reads.
ReadersKnowTheBook ==
    /\ \A x \in Readers : reader[x].pc = "reading" /\ StillThere(x) =>
         /\ \A s \in reader[x].seen : \E e \in Of(reader[x].row) : e.says = s
         /\ reader[x].row \notin raced => \A e \in Of(reader[x].row) : e.says \in reader[x].seen
    /\ \A x, y \in Readers :
         x /= y /\ reader[x].pc = "reading" /\ reader[y].pc = "reading" /\ reader[x].row = reader[y].row
           => reader[x].row \in raced

\* What a row shows is sound, and it is indexed if it shows anything.
Shown(r) == Content(sections[r], Of(r), source[r].notice, 0)
RowsAreSound ==
    \A r \in Rows :
        /\ r \notin torn => IsSoundFor(BookOf(r), Shown(r))
        /\ r \notin torn /\ (sections[r] /= <<>> \/ source[r].status = "succeeded") => indexed[r]
        /\ r \notin raced => NoneTwice(Of(r))

\* The chapters a copy took down are those of the twin, while the twin is not
\* ingested again: they are as long, and what they show of it is true.
AreAsLong(taken, chapters) ==
    /\ DOMAIN taken = DOMAIN chapters
    /\ \A i \in DOMAIN taken : taken[i].from = chapters[i].from /\ taken[i].to = chapters[i].to
IsTrueCopy(taken, t) ==
    /\ AreAsLong(taken, sections[t])
    /\ source[t].notice = Nothing => \A i \in DOMAIN taken : taken[i].read
    /\ \A i \in DOMAIN taken : IsTrueOf(BookOf(t), i, taken[i], Of(t))
CopiesAreTrue ==
    \A j \in Runs :
        /\ run[j].pc = "copying"
        /\ run[j].twin \notin torn
        /\ SameChapters(run[j].sections, sections[run[j].twin])
        => IsTrueCopy(run[j].sections, run[j].twin)

\* What is left without a book by a deletion was committed under it.
DeletionsAreKnown ==
    /\ \A r \in Rows : deleting[r] => \A e \in Of(r) : e.id \in late
    /\ ProvenanceIsKept

ShelfInv ==
    /\ Typed /\ ExercisesFit /\ RowsAreUploaded /\ ChaptersAreOne /\ CopiesAreOfTwins
    /\ ReadersHaveTheirChapter /\ ReadersKnowTheBook /\ RowsAreSound
    /\ CopiesAreTrue /\ DeletionsAreKnown
-----------------------------------------------------------------------------
(* It holds at first                                                       *)

LEMMA InitInv == Init => ShelfInv
<1> SUFFICES ASSUME Init PROVE ShelfInv
  OBVIOUS
<1> USE DEF Init, Idle
<1>1. Typed
  <2>1. MAX_EXTRACTION_CHUNKS \in Nat
    BY ConstantsAreSound
  <2>2. source \in [Rows -> SourceRow]
    BY <2>1 DEF SourceRow, Statuses, Notices
  <2>3. <<>> \in Seq(SectionRow)
    OBVIOUS
  <2>4. run \in [Runs -> RunRow] /\ sections \in [Rows -> Seq(SectionRow)]
    BY <2>3 DEF RunRow, RunStates
  <2>5. reader \in [Readers -> ReaderRow]
    BY DEF ReaderRow, ReaderStates
  <2> QED
    BY <2>2, <2>4, <2>5 DEF Typed
<1>2. ExercisesFit
  BY DEF ExercisesFit
<1>3. RowsAreUploaded
  BY DEF RowsAreUploaded, IsBare, Of, Runs
<1>4. ChaptersAreOne /\ CopiesAreOfTwins /\ ReadersHaveTheirChapter /\ ReadersKnowTheBook
  BY DEF ChaptersAreOne, AreOne, CopiesAreOfTwins, ReadersHaveTheirChapter, ReadersKnowTheBook
<1>5. RowsAreSound
  BY DEF RowsAreSound, IsSoundFor, Shown, Content, NoneTwice, Of
<1>6. CopiesAreTrue
  BY DEF CopiesAreTrue
<1>7. DeletionsAreKnown
  BY DEF DeletionsAreKnown, ProvenanceIsKept
<1> QED
  BY <1>1, <1>2, <1>3, <1>4, <1>5, <1>6, <1>7 DEF ShelfInv

-----------------------------------------------------------------------------
(* What a step leaves alone                                                *)

\* A run belongs to a row, and the queue took the job of every run.
LEMMA RunsArePushed ==
    ASSUME RowsAreUploaded, NEW j \in Runs, run[j].pc /= "none"
    PROVE  j[1] \in Rows /\ j[2] \in Deliveries /\ j = <<j[1], j[2]>> /\ request[j[1]] = "pushed"
BY DEF Runs, RowsAreUploaded, IsBare

\* A row of which a step changes neither chapters nor exercises nor notice
\* shows what it showed.
LEMMA RowStays ==
    ASSUME NEW r \in Rows, IsSoundFor(BookOf(r), Shown(r)),
           BookOf(r)' = BookOf(r), sections'[r] = sections[r],
           Of(r)' = Of(r), source'[r].notice = source[r].notice
    PROVE  IsSoundFor(BookOf(r), Shown(r))'
BY DEF IsSoundFor, Shown, Content, IsTrueOf, ChunksIn, HasChapterIn, Within

\* So does a copy of it.
LEMMA CopyStays ==
    ASSUME NEW t \in Rows, NEW taken, IsTrueCopy(taken, t),
           BookOf(t)' = BookOf(t), AreAsLong(sections[t], sections'[t]),
           source'[t].notice = source[t].notice \/ source'[t].notice /= Nothing,
           \A i : \A section : IsTrueOf(BookOf(t), i, section, Of(t))
                    => IsTrueOf(BookOf(t), i, section, Of(t)')
    PROVE  IsTrueCopy(taken, t)'
<1>1. AreAsLong(taken, sections'[t])
  BY DEF IsTrueCopy, AreAsLong
<1>2. source'[t].notice = Nothing => \A i \in DOMAIN taken : taken[i].read
  BY DEF IsTrueCopy
<1>3. \A i \in DOMAIN taken : IsTrueOf(BookOf(t), i, taken[i], Of(t)')
  BY DEF IsTrueCopy
<1> QED
  BY <1>1, <1>2, <1>3 DEF IsTrueCopy, AreAsLong, IsTrueOf, ChunksIn, Within

\* An ingest that ended has ended, so chapters written together stay so.
LEMMA OnesStay ==
    ASSUME NEW chapters \in Seq(SectionRow), AreOne(chapters),
           \A k \in Runs : run[k].pc = "ended" => run'[k].pc = "ended"
    PROVE  AreOne(chapters)'
<1>1. \A i \in DOMAIN chapters : chapters[i] \in SectionRow
  BY SeqHolds
<1>2. \A i \in DOMAIN chapters : chapters[i].gen \in Runs
  BY <1>1 DEF SectionRow
<1> QED
  BY <1>2 DEF AreOne

\* Copies are true after a step if each is that is being taken down then.
LEMMA CopiesAreKnown ==
    ASSUME run' \in [Runs -> RunRow],
           \A k \in Runs : \A row \in RunRow :
             /\ row = run'[k] /\ row.pc = "copying" /\ row.twin \notin torn'
             /\ SameChapters(row.sections, sections'[row.twin])
             => IsTrueCopy(row.sections, row.twin)'
    PROVE  CopiesAreTrue'
<1> SUFFICES ASSUME NEW k \in Runs, run'[k].pc = "copying", run'[k].twin \notin torn',
                    SameChapters(run[k].sections, sections[run[k].twin])'
             PROVE  IsTrueCopy(run[k].sections, run[k].twin)'
  BY DEF CopiesAreTrue
<1>1. PICK row \in RunRow : row = run'[k]
  OBVIOUS
<1>2. SameChapters(row.sections, sections'[row.twin])
  BY <1>1 DEF SameChapters
<1>3. IsTrueCopy(row.sections, row.twin)'
  BY <1>1, <1>2
<1> QED
  BY <1>1, <1>3 DEF IsTrueCopy, AreAsLong, IsTrueOf, ChunksIn, Within

-----------------------------------------------------------------------------
(* Every step keeps it: what leaves the shelf alone, and what an ingest writes *)

\* A step that leaves chapters and exercises alone keeps what the shelf shows:
\* a copy of a twin is true when it is taken down.
LEMMA BooksAreLeft ==
    ASSUME ShelfInv, Typed', RowsAreUploaded', ReadersHaveTheirChapter', ReadersKnowTheBook',
           UNCHANGED <<sections, indexed, exercises, torn, late>>, raced \subseteq raced',
           \A q \in Rows : /\ source'[q].book = source[q].book \/ request[q] = "none"
                           /\ source'[q].notice = source[q].notice
                           /\ source'[q].status = "succeeded" => source[q].status = "succeeded"
                           /\ request[q] = "pushed" => request'[q] = "pushed"
                           /\ deleting'[q] => deleting[q] \/ Of(q) = {},
           \A k \in Runs : /\ run[k].pc = "ended" => run'[k].pc = "ended"
                           /\ run'[k].pc = "copying" => \/ run'[k] = run[k]
                                                        \/ /\ run[k].pc /= "none"
                                                           /\ run'[k].twin \in Twins(k[1])
                                                           /\ run'[k].sections = sections[run'[k].twin]
    PROVE  ShelfInv'
<1>1. /\ run' \in [Runs -> RunRow] /\ sections \in [Rows -> Seq(SectionRow)]
      /\ raced \subseteq Rows /\ torn \subseteq Rows
  BY DEF ShelfInv, Typed
<1>2. \A k \in Runs : run[k].pc = "ended" => run'[k].pc = "ended"
  OBVIOUS
<1>3. \A q \in Rows : Of(q)' = Of(q)
  BY DEF Of
<1>4. \A q \in Rows : request[q] /= "none" => BookOf(q)' = BookOf(q)
  BY DEF BookOf
<1>5. \A q \in Rows : source[q].status = "succeeded" => request[q] = "pushed"
  BY DEF ShelfInv, RowsAreUploaded, IsBare
<1>6. ExercisesFit'
  BY DEF ShelfInv, ExercisesFit
<1>7. ChaptersAreOne'
  <2> SUFFICES ASSUME NEW q \in Rows PROVE AreOne(sections[q])'
    BY DEF ChaptersAreOne
  <2>1. PICK chapters \in Seq(SectionRow) : chapters = sections[q]
    BY <1>1
  <2>2. AreOne(chapters)
    BY <2>1 DEF ShelfInv, ChaptersAreOne
  <2>3. AreOne(chapters)'
    BY <1>2, <2>2, OnesStay
  <2> QED
    BY <2>1, <2>3 DEF AreOne
<1>8. ASSUME NEW k \in Runs, NEW row \in RunRow, row = run'[k], row.pc = "copying"
      PROVE  /\ k[1] \in Rows /\ request[k[1]] = "pushed"
             /\ row.twin \in Rows /\ row.twin /= k[1] /\ request[row.twin] = "pushed"
             /\ source[row.twin].book = source[k[1]].book
             /\ AreOne(row.sections)
             /\ row = run[k] \/ row.sections = sections[row.twin]
  <2>1. run[k].pc /= "none"
    BY <1>8
  <2>2. k[1] \in Rows /\ request[k[1]] = "pushed"
    BY <2>1, RunsArePushed DEF ShelfInv
  <2>3. CASE row = run[k]
    BY <1>8, <2>2, <2>3 DEF ShelfInv, CopiesAreOfTwins
  <2>4. CASE row.twin \in Twins(k[1]) /\ row.sections = sections[row.twin]
    <3>1. /\ row.twin \in Rows /\ row.twin /= k[1]
          /\ source[row.twin].status = "succeeded"
          /\ source[row.twin].book = source[k[1]].book
      BY <2>4 DEF Twins
    <3>2. AreOne(row.sections)
      BY <2>4, <3>1 DEF ShelfInv, ChaptersAreOne
    <3> QED
      BY <1>5, <2>2, <2>4, <3>1, <3>2
  <2> QED
    BY <1>8, <2>3, <2>4
<1>9. CopiesAreOfTwins'
  <2> SUFFICES ASSUME NEW k \in Runs, NEW row \in RunRow, row = run'[k], row.pc = "copying"
               PROVE  /\ row.twin \in Rows /\ row.twin /= k[1]
                      /\ request'[row.twin] = "pushed"
                      /\ source'[row.twin].book = source'[k[1]].book
                      /\ AreOne(row.sections)'
    BY <1>1 DEF CopiesAreOfTwins, AreOne
  <2>1. row.sections \in Seq(SectionRow)
    BY DEF RunRow
  <2>2. /\ k[1] \in Rows /\ request[k[1]] = "pushed"
        /\ row.twin \in Rows /\ row.twin /= k[1] /\ request[row.twin] = "pushed"
        /\ source[row.twin].book = source[k[1]].book
        /\ AreOne(row.sections)
    BY <1>8
  <2>3. AreOne(row.sections)'
    BY <1>2, <2>1, <2>2, OnesStay
  <2> QED
    BY <2>2, <2>3
<1>10. RowsAreSound'
  <2>1. ASSUME NEW q \in Rows
        PROVE  /\ q \notin torn => IsSoundFor(BookOf(q), Shown(q))
               /\ q \notin torn /\ (sections[q] /= <<>> \/ source[q].status = "succeeded") => indexed[q]
               /\ q \notin raced => NoneTwice(Of(q))
    BY DEF ShelfInv, RowsAreSound
  <2>2. ASSUME NEW q \in Rows, q \notin torn PROVE IsSoundFor(BookOf(q), Shown(q))'
    <3>1. CASE request[q] /= "none"
      BY <1>3, <1>4, <2>1, <2>2, <3>1, RowStays
    <3>2. CASE request[q] = "none"
      <4>1. sections'[q] = <<>> /\ Of(q)' = {}
        BY <1>3, <3>2 DEF ShelfInv, RowsAreUploaded, IsBare
      <4> QED
        BY <4>1 DEF IsSoundFor, Shown, Content
    <3> QED
      BY <3>1, <3>2
  <2>3. ASSUME NEW q \in Rows, q \notin raced' PROVE NoneTwice(Of(q))'
    BY <1>3, <2>1, <2>3 DEF NoneTwice
  <2> QED
    BY <2>1, <2>2, <2>3 DEF RowsAreSound
<1>11. CopiesAreTrue'
  <2> SUFFICES ASSUME NEW k \in Runs, NEW row \in RunRow, row = run'[k], row.pc = "copying",
                      row.twin \notin torn, SameChapters(row.sections, sections[row.twin])
               PROVE  IsTrueCopy(row.sections, row.twin)'
    BY <1>1, CopiesAreKnown
  <2>1. PICK t \in Rows : t = row.twin
    BY <1>8
  <2>2. request[t] = "pushed" /\ (row = run[k] \/ row.sections = sections[t])
    BY <1>8, <2>1
  <2>3. ASSUME row = run[k] PROVE IsTrueCopy(row.sections, t)
    BY <2>1, <2>3 DEF ShelfInv, CopiesAreTrue
  <2>4. ASSUME row.sections = sections[t] PROVE IsTrueCopy(row.sections, t)
    <3>1. IsSoundFor(BookOf(t), Shown(t))
      BY <2>1 DEF ShelfInv, RowsAreSound
    <3>2. IsTrueCopy(sections[t], t)
      BY <3>1 DEF IsSoundFor, Shown, Content, IsTrueCopy, AreAsLong
    <3> QED
      BY <2>1, <2>4, <3>2
  <2>5. IsTrueCopy(row.sections, t)
    BY <2>1, <2>2, <2>3, <2>4
  <2>6. IsTrueCopy(row.sections, t)'
    <3>1. BookOf(t)' = BookOf(t) /\ Of(t)' = Of(t)
      BY <1>3, <1>4, <2>2
    <3>2. AreAsLong(sections[t], sections'[t]) /\ source'[t].notice = source[t].notice
      BY DEF AreAsLong
    <3> QED
      BY <2>5, <3>1, <3>2, CopyStays
  <2> QED
    BY <2>1, <2>6
<1>12. DeletionsAreKnown'
  BY DEF ShelfInv, DeletionsAreKnown, ProvenanceIsKept, Of
<1> QED
  BY <1>6, <1>7, <1>9, <1>10, <1>11, <1>12 DEF ShelfInv

\* So does one that leaves the readers alone too.
LEMMA ShelfIsLeft ==
    ASSUME ShelfInv, Typed', RowsAreUploaded',
           UNCHANGED <<sections, indexed, exercises, reader, history>>,
           \A q \in Rows : /\ source'[q].book = source[q].book \/ request[q] = "none"
                           /\ source'[q].notice = source[q].notice
                           /\ source'[q].status = "succeeded" => source[q].status = "succeeded"
                           /\ request[q] = "pushed" => request'[q] = "pushed"
                           /\ deleting'[q] => deleting[q] \/ Of(q) = {},
           \A k \in Runs : /\ run[k].pc = "ended" => run'[k].pc = "ended"
                           /\ run'[k].pc = "copying" => \/ run'[k] = run[k]
                                                        \/ /\ run[k].pc /= "none"
                                                           /\ run'[k].twin \in Twins(k[1])
                                                           /\ run'[k].sections = sections[run'[k].twin]
    PROVE  ShelfInv'
<1>1. ReadersHaveTheirChapter'
  BY DEF ShelfInv, ReadersHaveTheirChapter, StillThere
<1>2. ReadersKnowTheBook'
  BY DEF ShelfInv, ReadersKnowTheBook, StillThere, Of, history
<1> QED
  BY <1>1, <1>2, BooksAreLeft DEF history

\* A row shows the content that was written.
LEMMA ContentIsShown ==
    ASSUME NEW r \in Rows, NEW content, IsSoundFor(BookOf(r), content),
           BookOf(r)' = BookOf(r), sections'[r] = content.sections,
           Of(r)' = content.exercises, source'[r].notice = content.notice
    PROVE  IsSoundFor(BookOf(r), Shown(r))'
<1> DEFINE shown == Content(content.sections, content.exercises, content.notice, 0)
<1>1. Shown(r)' = shown
  BY DEF Shown
<1>2. /\ shown.sections = content.sections /\ shown.exercises = content.exercises
      /\ shown.notice = content.notice
  BY DEF Content
<1> HIDE DEF shown
<1>3. IsSoundFor(BookOf(r), shown)
  BY <1>2 DEF IsSoundFor
<1> QED
  BY <1>1, <1>3

LEMMA RunEnds ==
    ASSUME run \in [Runs -> RunRow], NEW j \in Runs, End(j)
    PROVE  /\ run' \in [Runs -> RunRow] /\ run'[j].pc = "ended"
           /\ \A k \in Runs : k /= j => run'[k] = run[k]
<1> DEFINE row == [run[j] EXCEPT !.pc = "ended"]
<1>1. row \in RunRow /\ row.pc = "ended"
  BY DEF RunRow, RunStates
<1>2. run' = [run EXCEPT ![j] = row]
  BY DEF End
<1> HIDE DEF row
<1> QED
  BY <1>1, <1>2

\* An ingest writes in place of what was there: who read or copied the old
\* chapters does not find them any more.
LEMMA Replaced ==
    ASSUME ShelfInv, NEW r \in Rows, NEW j \in Runs, j[1] = r, request[r] = "pushed",
           run[j].pc \notin {"none", "ended"},
           NEW content, IsContent(r, j, content), Replace(r, j, content), End(j),
           r \notin torn' => IsSoundFor(BookOf(r), content) /\ indexed'[r],
           r \notin raced' => NoneTwice(content.exercises),
           raced' \in {raced, raced \union {r}}, torn' \in {torn, torn \union {r}},
           indexed' \in [Rows -> BOOLEAN], \A q \in Rows : q /= r => indexed'[q] = indexed[q],
           UNCHANGED <<request, reader, deleting, grounded>>
    PROVE  ShelfInv'
<1>1. /\ run \in [Runs -> RunRow] /\ sections \in [Rows -> Seq(SectionRow)]
      /\ source \in [Rows -> SourceRow]
      /\ raced \subseteq Rows /\ torn \subseteq Rows
  BY DEF ShelfInv, Typed
<1>2. /\ run' \in [Runs -> RunRow] /\ run'[j].pc = "ended"
      /\ \A k \in Runs : k /= j => run'[k] = run[k]
  BY <1>1, RunEnds
<1>3. \A k \in Runs : run[k].pc = "ended" => run'[k].pc = "ended"
  BY <1>2
<1>4. /\ source'[r].status = "succeeded" /\ source'[r].notice = content.notice
      /\ \A q \in Rows : source'[q].book = source[q].book
      /\ \A q \in Rows : q /= r => source'[q] = source[q]
  BY <1>1 DEF Replace
<1>5. source' \in [Rows -> SourceRow]
  <2> DEFINE row == [source[r] EXCEPT !.status = "succeeded", !.notice = content.notice,
                                      !.calls = content.calls]
  <2>1. content.notice \in Notices /\ content.calls \in 0 .. MAX_EXTRACTION_CHUNKS
    BY DEF IsContent
  <2>2. source[r] \in SourceRow
    BY <1>1
  <2>3. row \in SourceRow
    BY <2>1, <2>2 DEF SourceRow, Statuses
  <2>4. source' = [source EXCEPT ![r] = row]
    BY <1>1 DEF Replace
  <2> HIDE DEF row
  <2> QED
    BY <1>1, <2>3, <2>4
<1>6. /\ sections'[r] = content.sections /\ content.sections \in Seq(SectionRow)
      /\ \A q \in Rows : q /= r => sections'[q] = sections[q]
      /\ sections' \in [Rows -> Seq(SectionRow)]
  <2>1. content.sections \in Seq(SectionRow)
    BY DEF IsContent
  <2> QED
    BY <1>1, <2>1 DEF Replace
<1>7. \A e \in content.exercises : e.src = r /\ IsExercise(e) /\ TagsFit(e) /\ KeyFits(e)
  BY DEF IsContent
<1>8. exercises' = (exercises \ Of(r)) \union content.exercises
  BY DEF Replace
<1>9. /\ Of(r)' = content.exercises
      /\ \A q \in Rows : q /= r => Of(q)' = Of(q)
  BY <1>7, <1>8 DEF Of
<1>10. \A q \in Rows : BookOf(q)' = BookOf(q)
  BY <1>4 DEF BookOf
<1>11. \A i \in DOMAIN content.sections : content.sections[i].gen = j
  BY DEF IsContent
<1>12. Typed'
  BY <1>1, <1>2, <1>5, <1>6 DEF ShelfInv, Typed
<1>13. ExercisesFit'
  BY <1>7, <1>8 DEF ShelfInv, ExercisesFit
<1>14. RowsAreUploaded'
  <2>1. \A q \in Rows : request[q] /= "none" => source'[q].book \in Library
    BY <1>4 DEF ShelfInv, RowsAreUploaded
  <2>2. ASSUME NEW q \in Rows, request[q] /= "pushed" PROVE IsBare(q)'
    <3>1. IsBare(q) /\ q /= r
      BY <2>2 DEF ShelfInv, RowsAreUploaded
    <3>2. \A k \in Deliveries : <<q, k>> \in Runs /\ <<q, k>> /= j
      BY <3>1 DEF Runs
    <3>3. \A k \in Deliveries : run'[<<q, k>>].pc = "none"
      BY <1>2, <3>1, <3>2 DEF IsBare
    <3>4. sections'[q] = <<>> /\ source'[q].status \in {"absent", "queued", "deleted"}
      BY <1>4, <1>6, <3>1 DEF IsBare
    <3>5. Of(q)' = {}
      BY <1>9, <3>1 DEF IsBare
    <3> QED
      BY <3>3, <3>4, <3>5 DEF IsBare
  <2> QED
    BY <2>1, <2>2 DEF RowsAreUploaded
<1>15. ChaptersAreOne'
  <2>1. ASSUME NEW q \in Rows, q /= r PROVE AreOne(sections[q])'
    <3>1. PICK chapters \in Seq(SectionRow) : chapters = sections[q]
      BY <1>1
    <3>2. AreOne(chapters)
      BY <3>1 DEF ShelfInv, ChaptersAreOne
    <3>3. AreOne(chapters)'
      BY <1>3, <3>2, OnesStay
    <3> QED
      BY <1>6, <2>1, <3>1, <3>3 DEF AreOne
  <2>2. AreOne(sections[r])'
    <3>1. \A i \in DOMAIN content.sections : content.sections[1].gen = j
      <4> SUFFICES ASSUME NEW i \in DOMAIN content.sections PROVE content.sections[1].gen = j
        OBVIOUS
      <4>1. 1 \in DOMAIN content.sections
        BY <1>6
      <4> QED
        BY <1>11, <4>1
    <3> QED
      BY <1>2, <1>6, <1>11, <3>1 DEF AreOne
  <2> QED
    BY <2>1, <2>2 DEF ChaptersAreOne
<1>16. \A k \in Runs : \A row \in RunRow :
         row = run'[k] /\ row.pc = "copying" =>
           /\ k /= j /\ row = run[k]
           /\ row.twin \in Rows /\ row.twin /= k[1] /\ request[row.twin] = "pushed"
           /\ source[row.twin].book = source[k[1]].book
           /\ AreOne(row.sections)
  BY <1>2 DEF ShelfInv, CopiesAreOfTwins
<1>17. CopiesAreOfTwins'
  <2> SUFFICES ASSUME NEW k \in Runs, NEW row \in RunRow, row = run'[k], row.pc = "copying"
               PROVE  /\ row.twin \in Rows /\ row.twin /= k[1]
                      /\ request[row.twin] = "pushed"
                      /\ source'[row.twin].book = source'[k[1]].book
                      /\ AreOne(row.sections)'
    BY <1>2 DEF CopiesAreOfTwins, AreOne
  <2>1. row.sections \in Seq(SectionRow) /\ k[1] \in Rows
    BY DEF RunRow, Runs
  <2>2. AreOne(row.sections)'
    BY <1>3, <1>16, <2>1, OnesStay
  <2> QED
    BY <1>4, <1>16, <2>1, <2>2
<1>18. ASSUME NEW gen \in Runs, run[gen].pc = "ended", sections'[r] /= <<>>
       PROVE  sections'[r][1].gen /= gen
  <2>1. 1 \in DOMAIN content.sections
    BY <1>6, <1>18
  <2>2. gen /= j
    BY <1>18
  <2> QED
    BY <1>6, <1>11, <2>1, <2>2
<1>19. ASSUME NEW x \in Readers, reader[x].pc \in {"asked", "reading"}
       PROVE  /\ reader[x].row \in Rows /\ request[reader[x].row] = "pushed"
              /\ reader[x].gen \in Runs /\ run[reader[x].gen].pc = "ended"
              /\ StillThere(x)' => reader[x].row /= r /\ StillThere(x)
  <2>1. /\ reader[x].row \in Rows /\ request[reader[x].row] = "pushed"
        /\ reader[x].gen \in Runs /\ run[reader[x].gen].pc = "ended"
    BY <1>19 DEF ShelfInv, ReadersHaveTheirChapter
  <2>2. reader[x].row = r => ~ StillThere(x)'
    BY <1>18, <2>1 DEF StillThere
  <2>3. reader[x].row /= r /\ StillThere(x)' => StillThere(x)
    BY <1>6, <2>1 DEF StillThere
  <2> QED
    BY <2>1, <2>2, <2>3
<1>20. ReadersHaveTheirChapter'
  BY <1>3, <1>6, <1>19 DEF ShelfInv, ReadersHaveTheirChapter
<1>21. ReadersKnowTheBook'
  BY <1>9, <1>19 DEF ShelfInv, ReadersKnowTheBook
<1>22. RowsAreSound'
  <2>1. ASSUME NEW q \in Rows, q /= r
        PROVE  /\ q \notin torn' => IsSoundFor(BookOf(q), Shown(q))'
               /\ q \notin torn' /\ (sections'[q] /= <<>> \/ source'[q].status = "succeeded") => indexed'[q]
               /\ q \notin raced' => NoneTwice(Of(q))'
    <3>1. q \notin torn' => q \notin torn
      OBVIOUS
    <3>2. q \notin torn => IsSoundFor(BookOf(q), Shown(q))
      BY DEF ShelfInv, RowsAreSound
    <3>3. q \notin torn => IsSoundFor(BookOf(q), Shown(q))'
      BY <1>4, <1>6, <1>9, <1>10, <2>1, <3>2, RowStays
    <3>4. q \notin raced => NoneTwice(Of(q))
      BY DEF ShelfInv, RowsAreSound
    <3>5. q \notin raced => NoneTwice(Of(q))'
      BY <1>9, <2>1, <3>4 DEF NoneTwice
    <3>6. q \notin torn /\ (sections[q] /= <<>> \/ source[q].status = "succeeded") => indexed[q]
      BY DEF ShelfInv, RowsAreSound
    <3>7. sections'[q] = sections[q] /\ source'[q] = source[q] /\ indexed'[q] = indexed[q]
      BY <1>4, <1>6, <2>1
    <3>8. q \notin raced' => q \notin raced
      OBVIOUS
    <3>9. q \notin torn' /\ (sections'[q] /= <<>> \/ source'[q].status = "succeeded") => indexed'[q]
      BY <3>1, <3>6, <3>7
    <3>10. q \notin torn' => IsSoundFor(BookOf(q), Shown(q))'
      BY <3>1, <3>3
    <3>11. q \notin raced' => NoneTwice(Of(q))'
      BY <3>5, <3>8
    <3> QED
      BY <3>9, <3>10, <3>11
  <2>2. r \notin torn' => IsSoundFor(BookOf(r), Shown(r))'
    BY <1>4, <1>6, <1>9, <1>10, ContentIsShown
  <2>3. r \notin raced' => NoneTwice(Of(r))'
    BY <1>9 DEF NoneTwice
  <2> QED
    BY <2>1, <2>2, <2>3 DEF RowsAreSound
<1>23. CopiesAreTrue'
  <2> SUFFICES ASSUME NEW k \in Runs, NEW row \in RunRow, row = run'[k], row.pc = "copying",
                      row.twin \notin torn', SameChapters(row.sections, sections'[row.twin])
               PROVE  IsTrueCopy(row.sections, row.twin)'
    BY <1>2, CopiesAreKnown
  <2>1. PICK t \in Rows : t = row.twin
    BY <1>16
  <2>2. /\ row = run[k] /\ AreOne(row.sections) /\ row.sections \in Seq(SectionRow)
    BY <1>16 DEF RunRow
  <2>3. t /= r
    <3>1. row.sections /= <<>> /\ sections'[t] /= <<>> /\ sections'[t][1].gen = row.sections[1].gen
      BY <2>1 DEF SameChapters
    <3>2. 1 \in DOMAIN row.sections
      BY <2>2, <3>1
    <3>3. row.sections[1] \in SectionRow
      BY <2>2, <3>2, SeqHolds
    <3>4. row.sections[1].gen \in Runs /\ run[row.sections[1].gen].pc = "ended"
      BY <2>2, <3>2, <3>3 DEF AreOne, SectionRow
    <3> QED
      BY <1>18, <3>1, <3>4
  <2>4. SameChapters(row.sections, sections[t]) /\ t \notin torn
    BY <1>6, <2>1, <2>3 DEF SameChapters
  <2>5. IsTrueCopy(row.sections, t)
    BY <2>1, <2>2, <2>4 DEF ShelfInv, CopiesAreTrue
  <2>6. IsTrueCopy(row.sections, t)'
    <3>1. BookOf(t)' = BookOf(t) /\ Of(t)' = Of(t)
      BY <1>9, <1>10, <2>3
    <3>2. AreAsLong(sections[t], sections'[t]) /\ source'[t].notice = source[t].notice
      BY <1>4, <1>6, <2>3 DEF AreAsLong
    <3> QED
      BY <2>5, <3>1, <3>2, CopyStays
  <2> QED
    BY <2>1, <2>6
<1>24. DeletionsAreKnown'
  <2>1. late \subseteq late' /\ (deleting[r] => \A e \in content.exercises : e.id \in late')
    BY DEF Replace
  <2>2. \A q \in Rows : deleting[q] => \A e \in Of(q)' : e.id \in late'
    BY <1>9, <2>1 DEF ShelfInv, DeletionsAreKnown
  <2>3. \A e \in exercises' : e.src = Nothing => e.id \in late'
    BY <1>7, <1>8, <2>1, ConstantsAreSound DEF ShelfInv, DeletionsAreKnown, ProvenanceIsKept
  <2> QED
    BY <2>2, <2>3 DEF DeletionsAreKnown, ProvenanceIsKept
<1> QED
  BY <1>12, <1>13, <1>14, <1>15, <1>17, <1>20, <1>21, <1>22, <1>23, <1>24 DEF ShelfInv
-----------------------------------------------------------------------------
(* Every step keeps it: the readers                                        *)

\* A chapter is stamped and keeps its pages; exercises come to the book, and
\* one that goes leaves another with its statement in its place.
Writes(x, r, i, cost, missed, new, gone) ==
    /\ reader[x].pc = "reading" /\ IsThere(x) /\ r = reader[x].row /\ i = reader[x].at
    /\ gone \subseteq Of(r)
    /\ WriteChapter(r, i, cost, missed, new, gone)
    /\ reader' = [reader EXCEPT ![x].pc = "ended"]
    /\ \A e \in new : /\ IsExercise(e) /\ TagsFit(e) /\ KeyFits(e) /\ e.src = r
                      /\ r \notin torn => HasChapterIn(e, sections[r])
    /\ \A e \in gone : \E d \in new : d.says = e.says /\ d.sec = e.sec /\ d.coded = e.coded
    /\ r \notin raced => NoneTwice((Of(r) \ gone) \union new)
    /\ IsTrueOf(BookOf(r), i, Stamped(sections[r][i], cost, missed), (Of(r) \ gone) \union new)
    /\ UNCHANGED <<request, source, indexed, run, deleting, grounded, raced, torn>>

LEMMA WrittenInv ==
    ASSUME ShelfInv, NEW x \in Readers, NEW r, NEW i, NEW cost, NEW missed \in SUBSET Nat,
           NEW new, NEW gone, Writes(x, r, i, cost, missed, new, gone)
    PROVE  ShelfInv'
<1> SUFFICES ASSUME
      reader[x].pc = "reading", IsThere(x), r = reader[x].row, i = reader[x].at,
      gone \in SUBSET Of(r),
      exercises' = (exercises \ gone) \union new,
      sections' = [sections EXCEPT ![r][i] = Stamped(sections[r][i], cost, missed)],
      late' = IF deleting[r] THEN late \union {e.id : e \in new} ELSE late,
      reader' = [reader EXCEPT ![x].pc = "ended"],
      \A e \in new : /\ IsExercise(e) /\ TagsFit(e) /\ KeyFits(e) /\ e.src = r
                     /\ r \notin torn => HasChapterIn(e, sections[r]),
      \A e \in gone : \E d \in new : d.says = e.says /\ d.sec = e.sec /\ d.coded = e.coded,
      r \notin raced => NoneTwice((Of(r) \ gone) \union new),
      IsTrueOf(BookOf(r), i, Stamped(sections[r][i], cost, missed), (Of(r) \ gone) \union new),
      UNCHANGED <<request, source, indexed, run, deleting, grounded, raced, torn>>
    PROVE ShelfInv'
  BY DEF Writes, WriteChapter
<1>1. /\ run \in [Runs -> RunRow] /\ sections \in [Rows -> Seq(SectionRow)]
      /\ source \in [Rows -> SourceRow] /\ reader \in [Readers -> ReaderRow]
      /\ raced \subseteq Rows /\ torn \subseteq Rows
  BY DEF ShelfInv, Typed
<1>2. r \in Rows /\ request[r] = "pushed" /\ sections[r] /= <<>> /\ StillThere(x)
  BY DEF ShelfInv, ReadersHaveTheirChapter, IsThere, StillThere
<1>3. i \in DOMAIN sections[r]
  BY <1>2 DEF ShelfInv, ReadersHaveTheirChapter
<1>4. PICK stamped : stamped = Stamped(sections[r][i], cost, missed)
  OBVIOUS
<1>5. /\ stamped \in SectionRow /\ stamped.gen = sections[r][i].gen
      /\ stamped.from = sections[r][i].from /\ stamped.to = sections[r][i].to /\ stamped.read
  <2>1. sections[r] \in Seq(SectionRow)
    BY <1>1, <1>2
  <2>2. sections[r][i] \in SectionRow
    BY <1>3, <2>1, SeqHolds
  <2> QED
    BY <1>4, <2>2, StampedIsRow
<1>6. /\ sections' \in [Rows -> Seq(SectionRow)]
      /\ \A q \in Rows : q /= r => sections'[q] = sections[q]
      /\ DOMAIN sections'[r] = DOMAIN sections[r]
      /\ sections'[r][i] = stamped
      /\ \A n \in DOMAIN sections[r] : n /= i => sections'[r][n] = sections[r][n]
  <2> DEFINE chapters == [sections[r] EXCEPT ![i] = stamped]
  <2>1. sections[r] \in Seq(SectionRow)
    BY <1>1, <1>2
  <2>2. /\ chapters \in Seq(SectionRow) /\ DOMAIN chapters = DOMAIN sections[r]
        /\ chapters[i] = stamped
        /\ \A n \in DOMAIN sections[r] : n /= i => chapters[n] = sections[r][n]
    BY <1>3, <1>5, <2>1
  <2>3. sections' = [sections EXCEPT ![r] = chapters]
    BY <1>4
  <2> HIDE DEF chapters
  <2>4. sections'[r] = chapters /\ \A q \in Rows : q /= r => sections'[q] = sections[q]
    BY <1>1, <1>2, <2>3
  <2>5. sections' \in [Rows -> Seq(SectionRow)]
    BY <1>1, <1>2, <2>2, <2>3
  <2> QED
    BY <2>2, <2>4, <2>5
<1>7. \A n \in DOMAIN sections[r] :
        /\ sections'[r][n].gen = sections[r][n].gen
        /\ sections'[r][n].from = sections[r][n].from /\ sections'[r][n].to = sections[r][n].to
        /\ sections[r][n].read => sections'[r][n].read
  BY <1>3, <1>5, <1>6
<1>8. sections'[r] /= <<>> /\ 1 \in DOMAIN sections[r]
  <2>1. sections[r] \in Seq(SectionRow)
    BY <1>1, <1>2
  <2>2. sections'[r] \in Seq(SectionRow) /\ DOMAIN sections'[r] /= {}
    BY <1>2, <1>3, <1>6
  <2> QED
    BY <1>2, <2>1, <2>2
<1>9. /\ Of(r)' = (Of(r) \ gone) \union new
      /\ \A q \in Rows : q /= r => Of(q)' = Of(q)
  BY DEF Of
<1>10. \A q \in Rows : BookOf(q)' = BookOf(q)
  BY DEF BookOf
<1>11. \A s : (\E e \in Of(r) : e.says = s) => \E e \in Of(r)' : e.says = s
  BY <1>9
<1>12. \A n : \A section : IsTrueOf(BookOf(r), n, section, Of(r)) => IsTrueOf(BookOf(r), n, section, Of(r)')
  <2> SUFFICES ASSUME NEW n, NEW section, IsTrueOf(BookOf(r), n, section, Of(r))
               PROVE  IsTrueOf(BookOf(r), n, section, Of(r)')
    OBVIOUS
  <2>1. (\A e \in Of(r)' : e.sec = n => e.coded = Nothing) => \A e \in Of(r) : e.sec = n => e.coded = Nothing
    BY <1>9
  <2> QED
    BY <1>11, <2>1 DEF IsTrueOf
<1>13. Typed'
  <2>1. reader' \in [Readers -> ReaderRow]
    <3> DEFINE row == [reader[x] EXCEPT !.pc = "ended"]
    <3>1. reader[x] \in ReaderRow
      BY <1>1
    <3>2. row \in ReaderRow
      BY <3>1 DEF ReaderRow, ReaderStates
    <3>3. reader' = [reader EXCEPT ![x] = row]
      OBVIOUS
    <3> HIDE DEF row
    <3> QED
      BY <1>1, <3>2, <3>3
  <2> QED
    BY <1>6, <2>1 DEF ShelfInv, Typed
<1>14. \A y \in Readers : y /= x => reader'[y] = reader[y]
  BY <1>1
<1>15. reader'[x].pc = "ended"
  BY <1>1
<1>16. ExercisesFit'
  BY DEF ShelfInv, ExercisesFit
<1>17. RowsAreUploaded'
  <2>1. \A q \in Rows : request[q] /= "none" => source[q].book \in Library
    BY DEF ShelfInv, RowsAreUploaded
  <2>2. ASSUME NEW q \in Rows, request[q] /= "pushed" PROVE IsBare(q)'
    <3>1. IsBare(q) /\ q /= r
      BY <1>2, <2>2 DEF ShelfInv, RowsAreUploaded
    <3> QED
      BY <1>6, <1>9, <3>1 DEF IsBare
  <2> QED
    BY <2>1, <2>2 DEF RowsAreUploaded
<1>18. ChaptersAreOne'
  <2>1. ASSUME NEW q \in Rows, q /= r PROVE AreOne(sections[q])'
    BY <1>6, <2>1 DEF ShelfInv, ChaptersAreOne, AreOne
  <2>2. AreOne(sections[r])
    BY <1>2 DEF ShelfInv, ChaptersAreOne
  <2>3. AreOne(sections[r])'
    <3>1. \A n \in DOMAIN sections[r] :
            sections[r][n].gen = sections[r][1].gen /\ run[sections[r][n].gen].pc = "ended"
      BY <2>2 DEF AreOne
    <3>2. \A n \in DOMAIN sections'[r] :
            sections'[r][n].gen = sections'[r][1].gen /\ run'[sections'[r][n].gen].pc = "ended"
      <4>1. DOMAIN sections'[r] = DOMAIN sections[r]
        BY <1>6
      <4>2. \A n \in DOMAIN sections[r] : sections'[r][n].gen = sections[r][n].gen
        BY <1>7
      <4>3. 1 \in DOMAIN sections[r]
        BY <1>8
      <4> QED
        BY <3>1, <4>1, <4>2, <4>3
    <3> QED
      BY Zenon, <3>2 DEF AreOne
  <2> QED
    BY <2>1, <2>3 DEF ChaptersAreOne
<1>19. CopiesAreOfTwins'
  BY DEF ShelfInv, CopiesAreOfTwins, AreOne
<1>20. ASSUME NEW y \in Readers, reader'[y].pc \in {"asked", "reading"}
       PROVE  /\ y /= x /\ reader'[y] = reader[y]
              /\ reader[y].row \in Rows /\ request[reader[y].row] = "pushed"
              /\ reader[y].gen \in Runs /\ run[reader[y].gen].pc = "ended"
              /\ StillThere(y)' => StillThere(y)
  <2>1. y /= x /\ reader'[y] = reader[y]
    BY <1>14, <1>15, <1>20
  <2>2. /\ reader[y].row \in Rows /\ request[reader[y].row] = "pushed"
        /\ reader[y].gen \in Runs /\ run[reader[y].gen].pc = "ended"
    BY <1>20, <2>1 DEF ShelfInv, ReadersHaveTheirChapter
  <2>3. CASE reader[y].row = r
    BY <1>2, <1>7, <1>8, <2>1, <2>2, <2>3 DEF StillThere
  <2>4. CASE reader[y].row /= r
    BY <1>6, <2>1, <2>2, <2>4 DEF StillThere
  <2> QED
    BY <2>1, <2>2, <2>3, <2>4
<1>21. ReadersHaveTheirChapter'
  <2> SUFFICES ASSUME NEW y \in Readers, reader'[y].pc \in {"asked", "reading"}, StillThere(y)'
               PROVE  reader[y].at \in DOMAIN sections'[reader[y].row]
    BY <1>20 DEF ReadersHaveTheirChapter
  <2>1. StillThere(y) /\ reader'[y] = reader[y] /\ reader[y].row \in Rows
    BY <1>20
  <2>2. reader[y].at \in DOMAIN sections[reader[y].row]
    BY <2>1 DEF ShelfInv, ReadersHaveTheirChapter
  <2> QED
    BY <1>6, <2>1, <2>2
<1>22. ReadersKnowTheBook'
  <2>1. ASSUME NEW y \in Readers, NEW z \in Readers, y /= z,
               reader'[y].pc = "reading", reader'[z].pc = "reading", reader'[y].row = reader'[z].row
        PROVE  reader'[y].row \in raced
    BY <1>20, <2>1 DEF ShelfInv, ReadersKnowTheBook
  <2>2. ASSUME NEW y \in Readers, reader'[y].pc = "reading", StillThere(y)'
        PROVE  /\ \A s \in reader[y].seen : \E e \in Of(reader[y].row)' : e.says = s
               /\ reader[y].row \notin raced => \A e \in Of(reader[y].row)' : e.says \in reader[y].seen
    <3>1. /\ y /= x /\ reader'[y] = reader[y] /\ reader[y].row \in Rows /\ StillThere(y)
      BY <1>20, <2>2
    <3>2. /\ \A s \in reader[y].seen : \E e \in Of(reader[y].row) : e.says = s
          /\ reader[y].row \notin raced => \A e \in Of(reader[y].row) : e.says \in reader[y].seen
      BY <2>2, <3>1 DEF ShelfInv, ReadersKnowTheBook
    <3>3. CASE reader[y].row /= r
      BY <1>9, <3>1, <3>2, <3>3
    <3>4. CASE reader[y].row = r
      <4>1. r \in raced
        BY <2>2, <3>1, <3>4 DEF ShelfInv, ReadersKnowTheBook
      <4> QED
        BY <1>11, <3>2, <3>4, <4>1
    <3> QED
      BY <3>3, <3>4
  <2>3. \A y \in Readers : reader'[y].pc = "reading" => reader'[y] = reader[y]
    BY <1>20
  <2> QED
    BY <2>1, <2>2, <2>3 DEF ReadersKnowTheBook
<1>23. RowsAreSound'
  <2>1. ASSUME NEW q \in Rows, q /= r
        PROVE  /\ q \notin torn => IsSoundFor(BookOf(q), Shown(q))'
               /\ q \notin torn /\ (sections'[q] /= <<>> \/ source[q].status = "succeeded") => indexed[q]
               /\ q \notin raced => NoneTwice(Of(q))'
    <3>1. q \notin torn => IsSoundFor(BookOf(q), Shown(q))
      BY DEF ShelfInv, RowsAreSound
    <3>2. q \notin torn => IsSoundFor(BookOf(q), Shown(q))'
      BY <1>6, <1>9, <1>10, <2>1, <3>1, RowStays
    <3>3. q \notin raced => NoneTwice(Of(q))
      BY DEF ShelfInv, RowsAreSound
    <3>4. q \notin raced => NoneTwice(Of(q))'
      BY <1>9, <2>1, <3>3 DEF NoneTwice
    <3>5. q \notin torn /\ (sections[q] /= <<>> \/ source[q].status = "succeeded") => indexed[q]
      BY DEF ShelfInv, RowsAreSound
    <3>6. q \notin torn /\ (sections'[q] /= <<>> \/ source[q].status = "succeeded") => indexed[q]
      BY <1>6, <2>1, <3>5
    <3> QED
      BY <3>2, <3>4, <3>6
  <2>2. r \notin torn => IsSoundFor(BookOf(r), Shown(r))'
    <3> SUFFICES ASSUME r \notin torn PROVE IsSoundFor(BookOf(r), Shown(r))'
      OBVIOUS
    <3>1. PICK chapters : chapters = sections'[r]
      OBVIOUS
    <3>2. PICK set : set = Of(r)'
      OBVIOUS
    <3> DEFINE content == Content(chapters, set, source[r].notice, 0)
    <3>3. /\ content.sections = chapters /\ content.exercises = set
          /\ content.notice = source[r].notice
      BY DEF Content
    <3>4. IsSoundFor(BookOf(r), Shown(r))
      BY <1>2 DEF ShelfInv, RowsAreSound
    <3>5. /\ \A e \in Of(r) : HasChapterIn(e, sections[r])
          /\ source[r].notice = Nothing => \A n \in DOMAIN sections[r] : sections[r][n].read
          /\ \A n \in DOMAIN sections[r] : IsTrueOf(BookOf(r), n, sections[r][n], Of(r))
      BY <3>4 DEF IsSoundFor, Shown, Content
    <3>6. ASSUME NEW e \in set PROVE HasChapterIn(e, chapters)
      <4>1. HasChapterIn(e, sections[r])
        BY <1>9, <3>2, <3>5
      <4>2. /\ e.sec \in DOMAIN sections[r] /\ e.gen = sections[r][e.sec].gen
            /\ Within(e.page, sections[r][e.sec])
        BY <4>1 DEF HasChapterIn
      <4>3. /\ chapters[e.sec].gen = sections[r][e.sec].gen
            /\ chapters[e.sec].from = sections[r][e.sec].from
            /\ chapters[e.sec].to = sections[r][e.sec].to
        BY <1>7, <3>1, <4>2
      <4>4. Within(e.page, chapters[e.sec])
        BY <4>2, <4>3, SamePages
      <4>5. DOMAIN chapters = DOMAIN sections[r]
        BY <1>6, <3>1
      <4> QED
        BY <4>2, <4>3, <4>4, <4>5 DEF HasChapterIn
    <3>7. ASSUME NEW n \in DOMAIN chapters PROVE IsTrueOf(BookOf(r), n, chapters[n], set)
      <4>1. n \in DOMAIN sections[r]
        BY <1>6, <3>1
      <4>2. CASE n = i
        BY <1>4, <1>6, <1>9, <3>1, <3>2, <4>2
      <4>3. CASE n /= i
        <5>1. IsTrueOf(BookOf(r), n, sections[r][n], Of(r)')
          BY <1>12, <3>5, <4>1
        <5> QED
          BY <1>6, <3>1, <3>2, <4>1, <4>3, <5>1
      <4> QED
        BY <4>2, <4>3
    <3>8. source[r].notice = Nothing => \A n \in DOMAIN chapters : chapters[n].read
      BY <1>6, <1>7, <3>1, <3>5
    <3> HIDE DEF content
    <3>9. IsSoundFor(BookOf(r), content)
      BY <3>3, <3>6, <3>7, <3>8 DEF IsSoundFor
    <3> QED
      BY <1>2, <1>10, <3>1, <3>2, <3>3, <3>9, ContentIsShown
  <2>3. r \notin raced => NoneTwice(Of(r))'
    BY <1>9 DEF NoneTwice
  <2>4. r \notin torn => indexed[r]
    BY <1>2 DEF ShelfInv, RowsAreSound
  <2> QED
    BY <2>1, <2>2, <2>3, <2>4 DEF RowsAreSound
<1>24. CopiesAreTrue'
  <2> SUFFICES ASSUME NEW k \in Runs, NEW row \in RunRow, row = run[k], row.pc = "copying",
                      row.twin \notin torn, SameChapters(row.sections, sections'[row.twin])
               PROVE  IsTrueCopy(row.sections, row.twin)'
    BY <1>1, CopiesAreKnown
  <2>1. PICK t \in Rows : t = row.twin
    BY DEF ShelfInv, CopiesAreOfTwins
  <2>2. SameChapters(row.sections, sections[t])
    <3>1. t /= r => sections'[t] = sections[t]
      BY <1>6
    <3>2. t = r => sections'[t][1].gen = sections[t][1].gen /\ sections[t] /= <<>>
      BY <1>2, <1>7, <1>8
    <3> QED
      BY <2>1, <3>1, <3>2 DEF SameChapters
  <2>3. IsTrueCopy(row.sections, t)
    BY <2>1, <2>2 DEF ShelfInv, CopiesAreTrue
  <2>4. AreAsLong(sections[t], sections'[t])
    <3>1. CASE t = r
      <4>1. DOMAIN sections'[r] = DOMAIN sections[r]
        BY <1>6
      <4>2. \A n \in DOMAIN sections[r] : /\ sections'[r][n].from = sections[r][n].from
                                         /\ sections'[r][n].to = sections[r][n].to
        BY <1>7
      <4> QED
        BY <3>1, <4>1, <4>2 DEF AreAsLong
    <3>2. CASE t /= r
      BY <1>6, <3>2 DEF AreAsLong
    <3> QED
      BY <3>1, <3>2
  <2>5. \A n : \A section : IsTrueOf(BookOf(t), n, section, Of(t)) => IsTrueOf(BookOf(t), n, section, Of(t)')
    <3>1. CASE t = r
      BY <1>12, <3>1
    <3>2. CASE t /= r
      BY <1>9, <3>2
    <3> QED
      BY <3>1, <3>2
  <2>6. IsTrueCopy(row.sections, t)'
    BY <1>10, <2>3, <2>4, <2>5, CopyStays
  <2> QED
    BY <2>1, <2>6
<1>25. DeletionsAreKnown'
  <2>1. late \subseteq late' /\ (deleting[r] => \A e \in new : e.id \in late')
    OBVIOUS
  <2>2. \A q \in Rows : deleting[q] => \A e \in Of(q)' : e.id \in late'
    BY <1>9, <2>1 DEF ShelfInv, DeletionsAreKnown
  <2>3. \A e \in exercises' : e.src = Nothing => e.id \in late'
    BY <1>2, <2>1, ConstantsAreSound DEF ShelfInv, DeletionsAreKnown, ProvenanceIsKept
  <2> QED
    BY <2>2, <2>3 DEF DeletionsAreKnown, ProvenanceIsKept
<1> QED
  BY <1>13, <1>16, <1>17, <1>18, <1>19, <1>21, <1>22, <1>23, <1>24, <1>25 DEF ShelfInv
-----------------------------------------------------------------------------
(* One step after the other                                                *)

LEMMA UploadInv ==
    ASSUME ShelfInv, NEW r \in Rows, NEW b \in Library, Upload(r, b)
    PROVE  ShelfInv'
<1> USE DEF Upload, history
<1>1. source \in [Rows -> SourceRow] /\ request[r] = "none"
  BY DEF ShelfInv, Typed
<1>2. source' \in [Rows -> SourceRow] /\ \A q \in Rows : q /= r => source'[q] = source[q]
  <2> DEFINE row == [source[r] EXCEPT !.book = b]
  <2>1. row \in SourceRow
    BY <1>1 DEF SourceRow
  <2>2. source' = [source EXCEPT ![r] = row]
    OBVIOUS
  <2> HIDE DEF row
  <2> QED
    BY <1>1, <2>1, <2>2
<1>3. /\ source'[r].book = b /\ source'[r].notice = source[r].notice
      /\ source'[r].status = source[r].status
  BY <1>1 DEF SourceRow
<1>4. request' \in [Rows -> {"none", "looked", "stored", "pushed", "refused"}]
      /\ request'[r] = "looked" /\ \A q \in Rows : q /= r => request'[q] = request[q]
  BY DEF ShelfInv, Typed
<1>5. Typed'
  BY <1>2, <1>4 DEF ShelfInv, Typed
<1>6. RowsAreUploaded'
  BY <1>1, <1>2, <1>3, <1>4 DEF ShelfInv, RowsAreUploaded, IsBare, Of
<1> QED
  BY <1>1, <1>2, <1>3, <1>4, <1>5, <1>6, ShelfIsLeft

LEMMA StoreInv ==
    ASSUME ShelfInv, NEW r \in Rows, Store(r)
    PROVE  ShelfInv'
<1> USE DEF Store, history
<1>1. source \in [Rows -> SourceRow] /\ request[r] = "looked"
  BY DEF ShelfInv, Typed
<1>2. source' \in [Rows -> SourceRow] /\ \A q \in Rows : q /= r => source'[q] = source[q]
  <2> DEFINE row == [source[r] EXCEPT !.status = "queued"]
  <2>1. row \in SourceRow
    BY <1>1 DEF SourceRow, Statuses
  <2>2. source' = [source EXCEPT ![r] = row]
    OBVIOUS
  <2> HIDE DEF row
  <2> QED
    BY <1>1, <2>1, <2>2
<1>3. /\ source'[r].book = source[r].book /\ source'[r].notice = source[r].notice
      /\ source'[r].status = "queued"
  BY <1>1 DEF SourceRow
<1>4. request' \in [Rows -> {"none", "looked", "stored", "pushed", "refused"}]
      /\ request'[r] = "stored" /\ \A q \in Rows : q /= r => request'[q] = request[q]
  BY DEF ShelfInv, Typed
<1>5. Typed'
  BY <1>2, <1>4 DEF ShelfInv, Typed
<1>6. RowsAreUploaded'
  BY <1>1, <1>2, <1>3, <1>4 DEF ShelfInv, RowsAreUploaded, IsBare, Of
<1> QED
  BY <1>1, <1>2, <1>3, <1>4, <1>5, <1>6, ShelfIsLeft

LEMMA HandOverInv ==
    ASSUME ShelfInv, NEW r \in Rows, HandOver(r)
    PROVE  ShelfInv'
<1> USE DEF HandOver, shelf, history
<1>1. request' \in [Rows -> {"none", "looked", "stored", "pushed", "refused"}]
      /\ request[r] = "stored" /\ request'[r] \in {"pushed", "refused"}
      /\ \A q \in Rows : q /= r => request'[q] = request[q]
  BY DEF ShelfInv, Typed
<1>2. Typed'
  BY <1>1 DEF ShelfInv, Typed
<1>3. RowsAreUploaded'
  BY <1>1 DEF ShelfInv, RowsAreUploaded, IsBare, Of
<1> QED
  BY <1>1, <1>2, <1>3, ShelfIsLeft

\* A run goes on: the row is one the queue took.
LEMMA RunGoesOn ==
    ASSUME ShelfInv, NEW j \in Runs, request[j[1]] = "pushed", run[j].pc /= "ended",
           NEW row \in RunRow, run' = [run EXCEPT ![j] = row],
           row.pc = "copying" => /\ run[j].pc /= "none" /\ row.twin \in Twins(j[1])
                                 /\ row.sections = sections[row.twin],
           UNCHANGED <<request, shelf, reader, deleting, history>>
    PROVE  ShelfInv'
<1> USE DEF shelf, history
<1>1. /\ run' \in [Runs -> RunRow] /\ run'[j] = row
      /\ \A k \in Runs : k /= j => run'[k] = run[k]
  BY DEF ShelfInv, Typed
<1>2. Typed'
  BY <1>1 DEF ShelfInv, Typed
<1>3. RowsAreUploaded'
  <2>1. ASSUME NEW r \in Rows, NEW k \in Deliveries, request[r] /= "pushed"
        PROVE  run'[<<r, k>>] = run[<<r, k>>]
    <3>1. <<r, k>> \in Runs /\ <<r, k>> /= j
      BY <2>1 DEF Runs
    <3> QED
      BY <1>1, <3>1
  <2> QED
    BY <2>1 DEF ShelfInv, RowsAreUploaded, IsBare, Of
<1> QED
  BY <1>1, <1>2, <1>3, ShelfIsLeft

LEMMA RunRows ==
    ASSUME NEW row \in RunRow, NEW pc \in RunStates
    PROVE  [row EXCEPT !.pc = pc] \in RunRow /\ [row EXCEPT !.pc = pc].pc = pc
BY DEF RunRow

LEMMA DeliverInv ==
    ASSUME ShelfInv, NEW r \in Rows, NEW k \in Deliveries, Deliver(r, k)
    PROVE  ShelfInv'
<1> DEFINE j == <<r, k>>
           pc == IF HasRow(r) /\ ~ IsDone(r) THEN "begun" ELSE "ended"
<1>1. j \in Runs /\ j[1] = r /\ request[r] = "pushed" /\ run[j].pc = "none"
  BY DEF Deliver, Runs
<1>2. PICK row : row = [run[j] EXCEPT !.pc = pc]
  OBVIOUS
<1>3. row \in RunRow /\ row.pc \in {"begun", "ended"}
  <2>1. pc \in RunStates /\ pc \in {"begun", "ended"}
    BY DEF RunStates
  <2>2. run[j] \in RunRow
    BY <1>1 DEF ShelfInv, Typed
  <2> HIDE DEF pc
  <2> QED
    BY <1>2, <2>1, <2>2, RunRows
<1>4. run' = [run EXCEPT ![j] = row]
  BY <1>2 DEF Deliver
<1>5. UNCHANGED <<request, shelf, reader, deleting, history>>
  BY DEF Deliver
<1> QED
  BY <1>1, <1>3, <1>4, <1>5, RunGoesOn

LEMMA DieInv ==
    ASSUME ShelfInv, NEW j \in Runs, Die(j)
    PROVE  ShelfInv'
<1>1. run[j].pc \in {"begun", "copying", "reading"} /\ run[j] \in RunRow
  BY DEF Die, ShelfInv, Typed
<1>2. request[j[1]] = "pushed"
  BY <1>1, RunsArePushed DEF ShelfInv
<1>3. PICK row : row = [run[j] EXCEPT !.pc = "dead"]
  OBVIOUS
<1>4. row \in RunRow /\ row.pc = "dead"
  BY <1>1, <1>3, RunRows DEF RunStates
<1>5. run' = [run EXCEPT ![j] = row]
  BY <1>3 DEF Die
<1>6. UNCHANGED <<request, shelf, reader, deleting, history>>
  BY DEF Die
<1> QED
  BY <1>1, <1>2, <1>4, <1>5, <1>6, RunGoesOn

LEMMA LockInv ==
    ASSUME ShelfInv, NEW r \in Rows, NEW k \in Deliveries, Lock(r, k)
    PROVE  ShelfInv'
<1> DEFINE j == <<r, k>>
<1>1. j \in Runs /\ j[1] = r /\ run[j].pc = "begun" /\ run[j] \in RunRow
  BY DEF Lock, Runs, ShelfInv, Typed
<1>2. request[r] = "pushed"
  BY <1>1, RunsArePushed DEF ShelfInv
<1>3. UNCHANGED <<request, shelf, reader, deleting, history>>
  BY DEF Lock
<1>4. CASE run' = [run EXCEPT ![j].pc = "ended"] \/ run' = [run EXCEPT ![j].pc = "reading"]
  <2>1. PICK pc \in {"ended", "reading"} : run' = [run EXCEPT ![j].pc = pc]
    BY <1>4
  <2>2. PICK row : row = [run[j] EXCEPT !.pc = pc]
    OBVIOUS
  <2>3. row \in RunRow /\ row.pc \in {"ended", "reading"}
    <3>1. pc \in RunStates
      BY DEF RunStates
    <3> HIDE DEF j
    <3> QED
      BY <1>1, <2>2, <3>1, RunRows
  <2>4. run' = [run EXCEPT ![j] = row]
    BY <2>1, <2>2
  <2> HIDE DEF j
  <2> QED
    BY <1>1, <1>2, <1>3, <2>3, <2>4, RunGoesOn
<1>5. ASSUME NEW t \in Twins(r),
             run' = [run EXCEPT ![j] = [pc |-> "copying", twin |-> t, sections |-> sections[t]]]
      PROVE  ShelfInv'
  <2>1. PICK row : row = [pc |-> "copying", twin |-> t, sections |-> sections[t]]
    OBVIOUS
  <2>2. t \in Rows /\ sections[t] \in Seq(SectionRow)
    BY DEF Twins, ShelfInv, Typed
  <2>3. row \in RunRow /\ row.twin = t /\ row.sections = sections[t]
    BY <2>1, <2>2 DEF RunRow, RunStates
  <2>4. run' = [run EXCEPT ![j] = row]
    BY <1>5, <2>1
  <2> HIDE DEF j
  <2> QED
    BY <1>1, <1>2, <1>3, <2>3, <2>4, RunGoesOn
<1> QED
  BY <1>4, <1>5 DEF Lock

LEMMA FailInv ==
    ASSUME ShelfInv, NEW r \in Rows, NEW k \in Deliveries, Fail(r, k)
    PROVE  ShelfInv'
<1> DEFINE j == <<r, k>>
<1>1. j \in Runs /\ j[1] = r /\ run[j].pc \in {"copying", "reading"} /\ End(j)
  BY DEF Fail, Runs, HoldsLock
<1>2. request[r] = "pushed"
  BY <1>1, RunsArePushed DEF ShelfInv
<1>3. run' \in [Runs -> RunRow] /\ run'[j].pc = "ended" /\ \A i \in Runs : i /= j => run'[i] = run[i]
  BY <1>1, RunEnds DEF ShelfInv, Typed
<1>4. source \in [Rows -> SourceRow]
  BY DEF ShelfInv, Typed
<1>5. source' = [source EXCEPT ![r].status = "failed"]
  BY DEF Fail
<1>6. source' \in [Rows -> SourceRow] /\ \A q \in Rows : q /= r => source'[q] = source[q]
  <2> DEFINE row == [source[r] EXCEPT !.status = "failed"]
  <2>1. row \in SourceRow
    BY <1>4 DEF SourceRow, Statuses
  <2>2. source' = [source EXCEPT ![r] = row]
    BY <1>5
  <2> HIDE DEF row
  <2> QED
    BY <1>4, <2>1, <2>2
<1>7. /\ source'[r].book = source[r].book /\ source'[r].notice = source[r].notice
      /\ source'[r].status = "failed"
  BY <1>4, <1>5 DEF SourceRow
<1>8. UNCHANGED <<request, sections, indexed, exercises, reader, deleting, grounded, history>>
  BY DEF Fail
<1>9. Typed'
  BY <1>3, <1>6, <1>8 DEF ShelfInv, Typed, history
<1>10. RowsAreUploaded'
  <2>1. ASSUME NEW q \in Rows, NEW i \in Deliveries, request[q] /= "pushed"
        PROVE  run'[<<q, i>>] = run[<<q, i>>]
    <3>1. <<q, i>> \in Runs /\ <<q, i>> /= j
      BY <1>2, <2>1 DEF Runs
    <3> QED
      BY <1>3, <3>1
  <2> QED
    BY <1>2, <1>6, <1>7, <1>8, <2>1 DEF ShelfInv, RowsAreUploaded, IsBare, Of
<1> HIDE DEF j
<1> QED
  BY <1>1, <1>3, <1>6, <1>7, <1>8, <1>9, <1>10, ShelfIsLeft

LEMMA AskDeleteInv ==
    ASSUME ShelfInv, NEW r \in Rows, AskDelete(r)
    PROVE  ShelfInv'
<1> USE DEF AskDelete, shelf, history
<1>1. Typed'
  BY DEF ShelfInv, Typed
<1>2. RowsAreUploaded'
  BY DEF ShelfInv, RowsAreUploaded, IsBare, Of
<1>3. \A q \in Rows : deleting'[q] => deleting[q] \/ Of(q) = {}
  BY DEF ShelfInv, Typed, IsCited
<1> QED
  BY <1>1, <1>2, <1>3, ShelfIsLeft

LEMMA StutterInv ==
    ASSUME ShelfInv, UNCHANGED <<request, shelf, run, reader, deleting, history>>
    PROVE  ShelfInv'
<1> USE DEF shelf, history
<1>1. Typed'
  BY DEF ShelfInv, Typed
<1>2. RowsAreUploaded'
  BY DEF ShelfInv, RowsAreUploaded, IsBare, Of
<1> QED
  BY <1>1, <1>2, ShelfIsLeft
\* What an ingest finds is sound.
LEMMA ReadInv ==
    ASSUME ShelfInv, NEW r \in Rows, NEW k \in Deliveries, Read(r, k)
    PROVE  ShelfInv'
<1>0. PICK j : j = <<r, k>>
  OBVIOUS
<1>1. j \in Runs /\ j[1] = r /\ run[j].pc = "reading" /\ End(j)
  BY <1>0 DEF Read, Runs
<1>2. request[r] = "pushed"
  BY <1>1, RunsArePushed DEF ShelfInv
<1>3. PICK b \in Library : b = source[r].book
  BY <1>2 DEF ShelfInv, RowsAreUploaded
<1>4. PICK content : /\ content \in TextContents(r, j) \union LayoutContents(r, j)
                     /\ Replace(r, j, content)
  BY <1>0 DEF Read
<1>5. /\ IsContent(r, j, content) /\ IsSoundFor(Book[b], content)
      /\ NoneTwice(content.exercises)
  <2>1. \/ \E failing : content = FromText(r, j, Book[b], failing)
        \/ \E failing : content = FromLayout(r, j, Book[b], failing)
    BY <1>3, <1>4 DEF TextContents, LayoutContents, BookOf
  <2>2. ASSUME NEW failing, content = FromText(r, j, Book[b], failing)
        PROVE  /\ IsContent(r, j, content) /\ IsSoundFor(Book[b], content)
               /\ NoneTwice(content.exercises)
    BY <1>1, <2>2, FromTextIsSound
  <2>3. ASSUME NEW failing, content = FromLayout(r, j, Book[b], failing)
        PROVE  /\ IsContent(r, j, content) /\ IsSoundFor(Book[b], content)
               /\ NoneTwice(content.exercises)
    BY <1>1, <2>3, FromLayoutIsSound
  <2> QED
    BY <2>1, <2>2, <2>3
<1>6. BookOf(r) = Book[b]
  BY <1>3 DEF BookOf
<1>7. /\ indexed' = [indexed EXCEPT ![r] = TRUE] /\ raced' = raced /\ torn' = torn
      /\ UNCHANGED <<request, reader, deleting, grounded>>
  BY DEF Read
<1>8. /\ indexed' \in [Rows -> BOOLEAN] /\ indexed'[r]
      /\ \A q \in Rows : q /= r => indexed'[q] = indexed[q]
  BY <1>7 DEF ShelfInv, Typed
<1> QED
  BY <1>1, <1>2, <1>4, <1>5, <1>6, <1>7, <1>8, Replaced

\* An exercise is copied with what it says, and with its chapter if that was.
LEMMA CopiedIsRight ==
    ASSUME NEW j \in Runs, NEW e, IsExercise(e), TagsFit(e), KeyFits(e)
    PROVE  /\ IsExercise(Copied(e, j)) /\ TagsFit(Copied(e, j)) /\ KeyFits(Copied(e, j))
           /\ Copied(e, j).src = j[1] /\ Copied(e, j).says = e.says
           /\ Copied(e, j).coded = e.coded /\ Copied(e, j).page = e.page
           /\ e.gen = run[j].sections[1].gen => Copied(e, j).gen = j /\ Copied(e, j).sec = e.sec
<1> DEFINE carried == e.gen = run[j].sections[1].gen
           gen == IF carried THEN j ELSE Nothing
           sec == IF carried THEN e.sec ELSE Nothing
           c == Copied(e, j)
<1>1. c = [e EXCEPT !.id = <<j, e.id>>, !.src = j[1], !.gen = gen, !.sec = sec]
  BY DEF Copied
<1>2. carried => gen = j /\ sec = e.sec
  OBVIOUS
<1> HIDE DEF c, gen, sec
<1>3. /\ DOMAIN c = DOMAIN e /\ c.src = j[1] /\ c.says = e.says /\ c.coded = e.coded
      /\ c.page = e.page /\ c.key = e.key /\ c.tags = e.tags /\ c.theme = e.theme
      /\ carried => c.gen = j /\ c.sec = e.sec
  BY <1>1, <1>2 DEF IsExercise
<1>4. j[1] \in Rows
  BY DEF Runs
<1>5. IsExercise(c) /\ TagsFit(c) /\ KeyFits(c)
  BY <1>3, <1>4 DEF IsExercise, TagsFit, KeyFits
<1> QED
  BY <1>3, <1>5 DEF c

\* A copy is a content, sound if the chapters that were taken down are those
\* the twin has.
LEMMA CopyIsContent ==
    ASSUME ShelfInv, NEW j \in Runs, run[j].pc = "copying",
           NEW t \in Rows, t = run[j].twin, NEW content,
           content = Content([i \in DOMAIN run[j].sections |-> [run[j].sections[i] EXCEPT !.gen = j]],
                             {Copied(e, j) : e \in Of(t)}, source[t].notice, 0)
    PROVE  /\ IsContent(j[1], j, content)
           /\ t \notin raced => NoneTwice(content.exercises)
           /\ t \notin torn /\ SameChapters(run[j].sections, sections[t])
                => IsSoundFor(BookOf(j[1]), content)
<1> DEFINE taken == run[j].sections
           chapters == [i \in DOMAIN taken |-> [taken[i] EXCEPT !.gen = j]]
<1>1. taken \in Seq(SectionRow) /\ j[1] \in Rows /\ source[t] \in SourceRow
  <2>1. run[j] \in RunRow /\ source[t] \in SourceRow
    BY DEF ShelfInv, Typed
  <2> QED
    BY <2>1 DEF RunRow, Runs
<1> HIDE DEF taken
<1>2. /\ content.sections = chapters /\ content.exercises = {Copied(e, j) : e \in Of(t)}
      /\ content.notice = source[t].notice /\ content.calls = 0
  BY DEF Content, taken
<1>3. ASSUME NEW i \in DOMAIN taken
      PROVE  /\ chapters[i] \in SectionRow /\ chapters[i].gen = j
             /\ chapters[i].from = taken[i].from /\ chapters[i].to = taken[i].to
             /\ chapters[i].read = taken[i].read /\ chapters[i].notice = taken[i].notice
             /\ chapters[i].blank = taken[i].blank /\ chapters[i].missed = taken[i].missed
  <2>1. taken[i] \in SectionRow
    BY <1>1, SeqHolds
  <2>2. chapters[i] = [taken[i] EXCEPT !.gen = j]
    OBVIOUS
  <2> HIDE DEF chapters
  <2> QED
    BY <2>1, <2>2 DEF SectionRow
<1>4. DOMAIN chapters = DOMAIN taken /\ chapters \in Seq(SectionRow)
  <2>1. DOMAIN taken = 1 .. Len(taken) /\ Len(taken) \in Nat
    BY <1>1
  <2>2. chapters \in [1 .. Len(taken) -> SectionRow]
    BY <1>3, <2>1
  <2> HIDE DEF chapters
  <2> QED
    BY <2>1, <2>2, FunctionIsSeq
<1> HIDE DEF chapters
<1>5. ASSUME NEW e \in Of(t)
      PROVE  /\ IsExercise(Copied(e, j)) /\ TagsFit(Copied(e, j)) /\ KeyFits(Copied(e, j))
             /\ Copied(e, j).src = j[1] /\ Copied(e, j).says = e.says
             /\ Copied(e, j).coded = e.coded /\ Copied(e, j).page = e.page
             /\ e.gen = taken[1].gen => Copied(e, j).gen = j /\ Copied(e, j).sec = e.sec
  <2>1. IsExercise(e) /\ TagsFit(e) /\ KeyFits(e)
    BY DEF Of, ShelfInv, ExercisesFit
  <2> QED
    BY <2>1, CopiedIsRight DEF taken
<1>6. IsContent(j[1], j, content)
  <2>1. 0 \in 0 .. MAX_EXTRACTION_CHUNKS
    BY ConstantsAreSound
  <2>2. source[t].notice \in Notices
    BY <1>1 DEF SourceRow
  <2>3. \A e \in content.exercises : IsExercise(e) /\ e.src = j[1] /\ TagsFit(e) /\ KeyFits(e)
    BY <1>2, <1>5
  <2>4. content.sections \in Seq(SectionRow)
    BY <1>2, <1>4
  <2>5. \A i \in DOMAIN content.sections : content.sections[i].gen = j
    BY <1>2, <1>3, <1>4
  <2>6. content.notice \in Notices /\ content.calls \in 0 .. MAX_EXTRACTION_CHUNKS
    BY <1>2, <2>1, <2>2
  <2> QED
    BY <2>3, <2>4, <2>5, <2>6 DEF IsContent
<1>7. ASSUME t \notin raced PROVE NoneTwice(content.exercises)
  <2> SUFFICES ASSUME NEW c \in content.exercises, NEW d \in content.exercises,
                      c /= d, c.says = d.says
               PROVE  c.coded /= Nothing /\ d.coded /= Nothing
    BY DEF NoneTwice
  <2>1. PICK e \in Of(t) : c = Copied(e, j)
    BY <1>2
  <2>2. PICK f \in Of(t) : d = Copied(f, j)
    BY <1>2
  <2>3. e /= f /\ e.says = f.says
    BY <1>5, <2>1, <2>2
  <2>4. NoneTwice(Of(t))
    BY <1>7 DEF ShelfInv, RowsAreSound
  <2>5. e.coded /= Nothing /\ f.coded /= Nothing
    BY <2>3, <2>4 DEF NoneTwice
  <2> QED
    BY <1>5, <2>1, <2>2, <2>5
<1>8. ASSUME t \notin torn, SameChapters(taken, sections[t])
      PROVE  IsSoundFor(BookOf(j[1]), content)
  <2>1. BookOf(j[1]) = BookOf(t)
    BY DEF ShelfInv, CopiesAreOfTwins, BookOf
  <2>2. IsTrueCopy(taken, t)
    BY <1>8 DEF ShelfInv, CopiesAreTrue, taken
  <2>3. \A e \in Of(t) : HasChapterIn(e, sections[t])
    BY <1>8 DEF ShelfInv, RowsAreSound, IsSoundFor, Shown, Content
  <2>4. \A i \in DOMAIN sections[t] : sections[t][i].gen = taken[1].gen
    BY <1>8 DEF ShelfInv, ChaptersAreOne, AreOne, SameChapters
  <2>5. ASSUME NEW e \in Of(t)
        PROVE  /\ Copied(e, j).sec = e.sec /\ Copied(e, j).gen = j
               /\ e.sec \in DOMAIN taken /\ Within(e.page, taken[e.sec])
    <3>1. /\ e.sec \in DOMAIN sections[t] /\ e.gen = sections[t][e.sec].gen
          /\ Within(e.page, sections[t][e.sec])
      BY <2>3 DEF HasChapterIn
    <3>2. e.gen = taken[1].gen
      BY <2>4, <3>1
    <3>3. e.sec \in DOMAIN taken
      BY <2>2, <3>1 DEF IsTrueCopy, AreAsLong
    <3>4. taken[e.sec].from = sections[t][e.sec].from /\ taken[e.sec].to = sections[t][e.sec].to
      BY <2>2, <3>3 DEF IsTrueCopy, AreAsLong
    <3>5. Within(e.page, taken[e.sec])
      BY <3>1, <3>4, SamePages
    <3> QED
      BY <1>5, <3>2, <3>3, <3>5
  <2>6. ASSUME NEW c \in content.exercises PROVE HasChapterIn(c, chapters)
    <3>1. PICK e \in Of(t) : c = Copied(e, j)
      BY <1>2
    <3>2. /\ c.sec = e.sec /\ c.gen = j /\ c.page = e.page
          /\ e.sec \in DOMAIN taken /\ Within(e.page, taken[e.sec])
      BY <1>5, <2>5, <3>1
    <3>3. Within(e.page, chapters[e.sec])
      BY <1>3, <3>2, SamePages
    <3> QED
      BY <1>3, <1>4, <3>2, <3>3 DEF HasChapterIn
  <2>7. ASSUME source[t].notice = Nothing, NEW i \in DOMAIN chapters PROVE chapters[i].read
    BY <1>3, <1>4, <2>2, <2>7 DEF IsTrueCopy
  <2>8. ASSUME NEW i \in DOMAIN chapters
        PROVE  IsTrueOf(BookOf(t), i, chapters[i], content.exercises)
    <3>1. i \in DOMAIN taken /\ IsTrueOf(BookOf(t), i, taken[i], Of(t))
      BY <1>4, <2>2 DEF IsTrueCopy
    <3>2. PICK book : book = BookOf(t)
      OBVIOUS
    <3>3. ChunksIn(book, chapters[i]) = ChunksIn(book, taken[i])
      BY <1>3, <3>1, SamePages
    <3>4. /\ chapters[i].read = taken[i].read /\ chapters[i].notice = taken[i].notice
          /\ chapters[i].blank = taken[i].blank /\ chapters[i].missed = taken[i].missed
      BY <1>3, <3>1
    <3>5. (\A c \in content.exercises : c.sec = i => c.coded = Nothing)
            => \A e \in Of(t) : e.sec = i => e.coded = Nothing
      <4> SUFFICES ASSUME \A c \in content.exercises : c.sec = i => c.coded = Nothing,
                          NEW e \in Of(t), e.sec = i
                   PROVE  e.coded = Nothing
        OBVIOUS
      <4>1. Copied(e, j) \in content.exercises
        BY <1>2
      <4>2. Copied(e, j).sec = e.sec /\ Copied(e, j).coded = e.coded
        BY <1>5, <2>5
      <4> QED
        BY <4>1, <4>2
    <3>6. \A s : (\E e \in Of(t) : e.says = s) => \E c \in content.exercises : c.says = s
      <4> SUFFICES ASSUME NEW s, NEW e \in Of(t), e.says = s
                   PROVE  \E c \in content.exercises : c.says = s
        OBVIOUS
      <4>1. Copied(e, j) \in content.exercises
        BY <1>2
      <4>2. Copied(e, j).says = e.says
        BY <1>5
      <4> QED
        BY <4>1, <4>2
    <3> QED
      BY <3>1, <3>2, <3>3, <3>4, <3>5, <3>6 DEF IsTrueOf
  <2>9. content.sections = chapters /\ content.notice = source[t].notice
    BY <1>2
  <2>10. PICK book : book = BookOf(t)
    OBVIOUS
  <2>11. \A i \in DOMAIN content.sections : IsTrueOf(book, i, content.sections[i], content.exercises)
    BY <2>8, <2>9, <2>10
  <2>12. \A e \in content.exercises : HasChapterIn(e, content.sections)
    BY <2>6, <2>9
  <2>13. content.notice = Nothing => \A i \in DOMAIN content.sections : content.sections[i].read
    BY <2>7, <2>9
  <2>14. IsSoundFor(book, content)
    BY <2>11, <2>12, <2>13 DEF IsSoundFor
  <2> QED
    BY <2>1, <2>10, <2>14
<1> QED
  BY <1>6, <1>7, <1>8 DEF taken

LEMMA CopyInv ==
    ASSUME ShelfInv, NEW r \in Rows, NEW k \in Deliveries, Copy(r, k)
    PROVE  ShelfInv'
<1>0. PICK j : j = <<r, k>>
  OBVIOUS
<1>1. j \in Runs /\ j[1] = r /\ run[j].pc = "copying" /\ End(j)
  BY <1>0 DEF Copy, Runs
<1>2. request[r] = "pushed"
  BY <1>1, RunsArePushed DEF ShelfInv
<1>3. PICK t \in Rows : t = run[j].twin
  BY <1>1 DEF ShelfInv, CopiesAreOfTwins
<1>4. PICK content :
        content = Content([i \in DOMAIN run[j].sections |-> [run[j].sections[i] EXCEPT !.gen = j]],
                          {Copied(e, j) : e \in Of(t)}, source[t].notice, 0)
  OBVIOUS
<1>5. Replace(r, j, content)
  BY <1>0, <1>3, <1>4 DEF Copy
<1>6. /\ indexed' = [indexed EXCEPT ![r] = indexed[t]]
      /\ raced' = IF t \in raced THEN raced \union {r} ELSE raced
      /\ torn' = IF t \in torn \/ ~ SameChapters(run[j].sections, sections[t])
                 THEN torn \union {r} ELSE torn
      /\ UNCHANGED <<request, reader, deleting, grounded>>
  BY <1>0, <1>3 DEF Copy
<1>7. /\ IsContent(r, j, content)
      /\ t \notin raced => NoneTwice(content.exercises)
      /\ t \notin torn /\ SameChapters(run[j].sections, sections[t]) => IsSoundFor(BookOf(r), content)
  BY <1>1, <1>3, <1>4, CopyIsContent
<1>8. /\ indexed' \in [Rows -> BOOLEAN] /\ indexed'[r] = indexed[t]
      /\ \A q \in Rows : q /= r => indexed'[q] = indexed[q]
  BY <1>6 DEF ShelfInv, Typed
<1>9. t \notin torn /\ SameChapters(run[j].sections, sections[t]) => indexed[t]
  BY DEF ShelfInv, RowsAreSound, SameChapters
<1>10. r \notin torn' => IsSoundFor(BookOf(r), content) /\ indexed'[r]
  BY <1>6, <1>7, <1>8, <1>9
<1>11. r \notin raced' => NoneTwice(content.exercises)
  BY <1>6, <1>7
<1>12. raced' \in {raced, raced \union {r}} /\ torn' \in {torn, torn \union {r}}
  BY <1>6
<1> QED
  BY <1>1, <1>2, <1>5, <1>6, <1>7, <1>8, <1>10, <1>11, <1>12, Replaced
\* A chapter is opened that is there.
LEMMA AskInv ==
    ASSUME ShelfInv, NEW x \in Readers, NEW r \in Rows, NEW i \in DOMAIN sections[r], Ask(x, r, i)
    PROVE  ShelfInv'
<1>1. PICK row : row = [pc |-> "asked", row |-> r, gen |-> sections[r][i].gen, at |-> i, seen |-> {}]
  OBVIOUS
<1>2. reader' = [reader EXCEPT ![x] = row] /\ source[r].status = "succeeded"
  BY <1>1 DEF Ask
<1>3. UNCHANGED <<request, shelf, run, deleting, grounded, history>>
  BY DEF Ask
<1>4. request[r] = "pushed" /\ reader \in [Readers -> ReaderRow] /\ sections[r] \in Seq(SectionRow)
  BY <1>2 DEF ShelfInv, Typed, RowsAreUploaded, IsBare
<1>5. /\ i \in Nat /\ sections[r] /= <<>> /\ sections[r][i].gen \in Runs
  <2>1. sections[r][i] \in SectionRow
    BY <1>4, SeqHolds
  <2> QED
    BY <1>4, <2>1 DEF SectionRow
<1>6. run[sections[r][i].gen].pc = "ended" /\ sections[r][i].gen = sections[r][1].gen
  BY DEF ShelfInv, ChaptersAreOne, AreOne
<1>7. /\ row \in ReaderRow /\ row.pc = "asked" /\ row.row = r
      /\ row.gen = sections[r][i].gen /\ row.at = i
  BY <1>1, <1>5 DEF ReaderRow, ReaderStates
<1>8. /\ reader' \in [Readers -> ReaderRow] /\ reader'[x] = row
      /\ \A y \in Readers : y /= x => reader'[y] = reader[y]
  BY <1>2, <1>4, <1>7
<1>9. Typed'
  BY <1>3, <1>8 DEF ShelfInv, Typed, shelf, history
<1>10. RowsAreUploaded'
  BY <1>3 DEF ShelfInv, RowsAreUploaded, IsBare, Of, shelf
<1>11. \A y \in Readers : y /= x => (StillThere(y)' <=> StillThere(y))
  BY <1>3, <1>8 DEF StillThere, shelf
<1>12. ReadersHaveTheirChapter'
  <2> SUFFICES ASSUME NEW y \in Readers, reader'[y].pc \in {"asked", "reading"}
               PROVE  /\ reader'[y].row \in Rows /\ request[reader'[y].row] = "pushed"
                      /\ reader'[y].gen \in Runs /\ run[reader'[y].gen].pc = "ended"
                      /\ StillThere(y)' => reader'[y].at \in DOMAIN sections[reader'[y].row]
    BY <1>3 DEF ReadersHaveTheirChapter, shelf
  <2>1. CASE y = x
    BY <1>4, <1>5, <1>6, <1>7, <1>8, <2>1
  <2>2. CASE y /= x
    BY <1>8, <1>11, <2>2 DEF ShelfInv, ReadersHaveTheirChapter
  <2> QED
    BY <2>1, <2>2
<1>13. ReadersKnowTheBook'
  <2>1. \A y \in Readers : reader'[y].pc = "reading" => y /= x /\ reader'[y] = reader[y]
    BY <1>7, <1>8
  <2>2. \A q : Of(q)' = Of(q)
    BY <1>3 DEF Of, shelf
  <2>3. raced' = raced
    BY <1>3 DEF history
  <2> QED
    BY <1>11, <2>1, <2>2, <2>3 DEF ShelfInv, ReadersKnowTheBook
<1> QED
  BY <1>3, <1>9, <1>10, <1>12, <1>13, BooksAreLeft DEF shelf, history

\* A reader takes down what the book has.
LEMMA StartInv ==
    ASSUME ShelfInv, NEW x \in Readers, Start(x)
    PROVE  ShelfInv'
<1> DEFINE r == reader[x].row
           taken == {e.says : e \in Of(r)}
<1>1. UNCHANGED <<request, shelf, run, deleting, grounded, torn, late>> /\ reader[x].pc = "asked"
  BY DEF Start
<1>2. /\ reader \in [Readers -> ReaderRow] /\ reader[x] \in ReaderRow /\ raced \subseteq Rows
      /\ r \in Rows
  BY <1>1 DEF ShelfInv, Typed, ReadersHaveTheirChapter
<1>3. \A q : Of(q)' = Of(q)
  BY <1>1 DEF Of, shelf
<1>4. RowsAreUploaded'
  BY <1>1 DEF ShelfInv, RowsAreUploaded, IsBare, Of, shelf
<1>5. taken \in SUBSET Statements
  BY DEF ShelfInv, ExercisesFit, IsExercise, Of
<1>6. ASSUME NEW row \in ReaderRow, reader' = [reader EXCEPT ![x] = row],
             row.row = r, row.gen = reader[x].gen, row.at = reader[x].at,
             raced' \in SUBSET Rows, raced \subseteq raced',
             row.pc = "reading" => row.seen = taken /\ (ReadingOf(r) /= {} => r \in raced')
      PROVE  ShelfInv'
  <2>1. /\ reader' \in [Readers -> ReaderRow] /\ reader'[x] = row
        /\ \A y \in Readers : y /= x => reader'[y] = reader[y]
    BY <1>2, <1>6
  <2>2. Typed'
    BY <1>1, <1>6, <2>1 DEF ShelfInv, Typed, shelf
  <2>3. \A y \in Readers : StillThere(y)' <=> StillThere(y)
    BY <1>1, <1>6, <2>1 DEF StillThere, shelf
  <2>4. ReadersHaveTheirChapter'
    <3> SUFFICES ASSUME NEW y \in Readers, reader'[y].pc \in {"asked", "reading"}
                 PROVE  /\ reader'[y].row \in Rows /\ request[reader'[y].row] = "pushed"
                        /\ reader'[y].gen \in Runs /\ run[reader'[y].gen].pc = "ended"
                        /\ StillThere(y) => reader'[y].at \in DOMAIN sections[reader'[y].row]
      BY <1>1, <2>3 DEF ReadersHaveTheirChapter, shelf
    <3>1. reader'[y].row = reader[y].row /\ reader'[y].gen = reader[y].gen /\ reader'[y].at = reader[y].at
      BY <1>6, <2>1
    <3>2. reader[y].pc \in {"asked", "reading"}
      BY <1>1, <2>1
    <3> QED
      BY <3>1, <3>2 DEF ShelfInv, ReadersHaveTheirChapter
  <2>5. ReadersKnowTheBook'
    <3>1. ASSUME NEW y \in Readers, reader'[y].pc = "reading", StillThere(y)
          PROVE  /\ \A s \in reader'[y].seen : \E e \in Of(reader'[y].row) : e.says = s
                 /\ reader'[y].row \notin raced' => \A e \in Of(reader'[y].row) : e.says \in reader'[y].seen
      <4>1. CASE y = x
        BY <1>6, <2>1, <3>1, <4>1
      <4>2. CASE y /= x
        BY <1>6, <2>1, <3>1, <4>2 DEF ShelfInv, ReadersKnowTheBook
      <4> QED
        BY <4>1, <4>2
    <3>2. ASSUME NEW y \in Readers, NEW z \in Readers, y /= z,
                 reader'[y].pc = "reading", reader'[z].pc = "reading", reader'[y].row = reader'[z].row
          PROVE  reader'[y].row \in raced'
      <4>1. CASE y /= x /\ z /= x
        BY <1>6, <2>1, <3>2, <4>1 DEF ShelfInv, ReadersKnowTheBook
      <4>2. CASE y = x
        <5>1. z \in ReadingOf(r)
          BY <1>6, <2>1, <3>2, <4>2 DEF ReadingOf
        <5> QED
          BY <1>6, <2>1, <3>2, <4>2, <5>1
      <4>3. CASE z = x
        <5>1. y \in ReadingOf(r)
          BY <1>6, <2>1, <3>2, <4>3 DEF ReadingOf
        <5> QED
          BY <1>6, <2>1, <3>2, <4>3, <5>1
      <4> QED
        BY <4>1, <4>2, <4>3
    <3> QED
      BY <1>3, <2>3, <3>1, <3>2 DEF ReadersKnowTheBook
  <2> QED
    BY <1>1, <1>4, <1>6, <2>2, <2>4, <2>5, BooksAreLeft DEF shelf
<1>7. CASE /\ reader' = [reader EXCEPT ![x].pc = "reading", ![x].seen = taken]
           /\ raced' = IF ReadingOf(r) /= {} THEN raced \union {r} ELSE raced
  <2> HIDE DEF taken
  <2>1. PICK row : row = [reader[x] EXCEPT !.pc = "reading", !.seen = taken]
    OBVIOUS
  <2>2. reader' = [reader EXCEPT ![x] = row]
    BY <1>2, <1>7, <2>1
  <2>3. /\ row \in ReaderRow /\ row.row = r /\ row.gen = reader[x].gen /\ row.at = reader[x].at
        /\ row.seen = taken
    BY <1>2, <1>5, <2>1 DEF ReaderRow, ReaderStates
  <2>4. /\ raced' \in SUBSET Rows /\ raced \subseteq raced' /\ (ReadingOf(r) /= {} => r \in raced')
    BY <1>2, <1>7
  <2> HIDE DEF r
  <2> QED
    BY <1>6, <2>2, <2>3, <2>4
<1>8. CASE reader' = [reader EXCEPT ![x].pc = "ended"] /\ raced' = raced
  <2>1. PICK row : row = [reader[x] EXCEPT !.pc = "ended"]
    OBVIOUS
  <2>2. reader' = [reader EXCEPT ![x] = row]
    BY <1>8, <2>1
  <2>3. /\ row \in ReaderRow /\ row.row = r /\ row.gen = reader[x].gen /\ row.at = reader[x].at
        /\ row.pc = "ended"
    BY <1>2, <2>1 DEF ReaderRow, ReaderStates
  <2> HIDE DEF r, taken
  <2> QED
    BY <1>2, <1>6, <1>8, <2>2, <2>3
<1> QED
  BY <1>7, <1>8 DEF Start
\* A chapter is read: its coded exercises are classified, or what stands in it
\* is transcribed and was not in the book.
LEMMA FinishInv ==
    ASSUME ShelfInv, NEW x \in Readers, Finish(x)
    PROVE  ShelfInv'
<1>0. /\ reader[x].pc = "reading" /\ reader' = [reader EXCEPT ![x].pc = "ended"]
      /\ UNCHANGED <<request, source, indexed, run, deleting, grounded, raced, torn>>
  BY Zenon DEF Finish
<1>1. /\ reader \in [Readers -> ReaderRow] /\ reader[x] \in ReaderRow
      /\ reader[x].row \in Rows /\ request[reader[x].row] = "pushed"
  BY <1>0 DEF ShelfInv, Typed, ReadersHaveTheirChapter
<1>2. PICK r \in Rows : r = reader[x].row
  BY <1>1
<1>3. PICK i : i = reader[x].at
  OBVIOUS
<1>4. PICK b \in Library : b = source[r].book
  BY <1>1, <1>2 DEF ShelfInv, RowsAreUploaded
<1>5. BookOf(r) = Book[b]
  BY <1>4 DEF BookOf
<1>6. CASE ~ IsThere(x) /\ UNCHANGED <<sections, exercises, late>>
  <2>1. PICK row : row = [reader[x] EXCEPT !.pc = "ended"]
    OBVIOUS
  <2>2. row \in ReaderRow /\ row.pc = "ended"
    BY <1>1, <2>1 DEF ReaderRow, ReaderStates
  <2>3. reader' = [reader EXCEPT ![x] = row]
    BY <1>0, <2>1
  <2>4. /\ reader' \in [Readers -> ReaderRow] /\ reader'[x].pc = "ended"
        /\ \A y \in Readers : y /= x => reader'[y] = reader[y]
    BY <1>1, <2>2, <2>3
  <2>5. Typed'
    BY <1>0, <1>6, <2>4 DEF ShelfInv, Typed
  <2>6. RowsAreUploaded'
    BY <1>0, <1>6 DEF ShelfInv, RowsAreUploaded, IsBare, Of
  <2>7. ReadersHaveTheirChapter'
    BY <1>0, <1>6, <2>4 DEF ShelfInv, ReadersHaveTheirChapter, StillThere
  <2>8. ReadersKnowTheBook'
    BY <1>0, <1>6, <2>4 DEF ShelfInv, ReadersKnowTheBook, StillThere, Of
  <2> QED
    BY <1>0, <1>6, <2>5, <2>6, <2>7, <2>8, BooksAreLeft
<1>7. ASSUME IsThere(x)
      PROVE  /\ StillThere(x) /\ i \in DOMAIN sections[r] /\ i \in Nat
             /\ sections[r] \in Seq(SectionRow) /\ sections[r][i] \in SectionRow
  <2>1. StillThere(x)
    BY <1>7 DEF IsThere, StillThere
  <2>2. i \in DOMAIN sections[r]
    BY <1>0, <1>2, <1>3, <2>1 DEF ShelfInv, ReadersHaveTheirChapter
  <2>3. sections[r] \in Seq(SectionRow)
    BY DEF ShelfInv, Typed
  <2> QED
    BY <2>1, <2>2, <2>3, SeqHolds
<1>8. ASSUME NEW e \in Of(r)
      PROVE  /\ IsExercise(e) /\ TagsFit(e) /\ KeyFits(e) /\ e.src = r
             /\ r \notin torn => HasChapterIn(e, sections[r])
  <2>1. IsExercise(e) /\ TagsFit(e) /\ KeyFits(e) /\ e.src = r
    BY DEF ShelfInv, ExercisesFit, Of
  <2>2. r \notin torn => HasChapterIn(e, sections[r])
    BY DEF ShelfInv, RowsAreSound, IsSoundFor, Shown, Content
  <2> QED
    BY <2>1, <2>2
<1>9. r \notin raced => NoneTwice(Of(r))
  BY DEF ShelfInv, RowsAreSound
<1>10. ASSUME IsThere(x), Layout(r, i) /= {}, NEW failing,
              NEW answered, answered = {e \in Asked(Layout(r, i)) : e.coded \notin failing},
              NEW new, new = {Classified(e) : e \in answered},
              NEW cost, WriteChapter(r, i, cost, {}, new, answered)
       PROVE  ShelfInv'
  <2>1. answered \in SUBSET Of(r) /\ \A e \in answered : e.sec = i /\ e.coded /= Nothing
    BY <1>10 DEF Asked, Layout
  <2>2. \A e \in answered :
          /\ IsExercise(Classified(e)) /\ TagsFit(Classified(e)) /\ KeyFits(Classified(e))
          /\ Classified(e).src = r /\ Classified(e).gen = e.gen /\ Classified(e).sec = e.sec
          /\ Classified(e).page = e.page /\ Classified(e).says = e.says
          /\ Classified(e).coded = e.coded
    BY <1>8, <2>1, ClassifiedIsRight
  <2>3. ASSUME NEW d \in new
        PROVE  \E e \in answered : d = Classified(e)
    BY <1>10
  <2>4. \A e \in new : /\ IsExercise(e) /\ TagsFit(e) /\ KeyFits(e) /\ e.src = r
                       /\ r \notin torn => HasChapterIn(e, sections[r])
    <3> SUFFICES ASSUME NEW d \in new
                 PROVE  /\ IsExercise(d) /\ TagsFit(d) /\ KeyFits(d) /\ d.src = r
                        /\ r \notin torn => HasChapterIn(d, sections[r])
      OBVIOUS
    <3>1. PICK e \in answered : d = Classified(e)
      BY <2>3
    <3>2. d.gen = e.gen /\ d.sec = e.sec /\ d.page = e.page
      BY <2>2, <3>1
    <3>3. r \notin torn => HasChapterIn(e, sections[r])
      BY <1>8, <2>1
    <3>4. r \notin torn => HasChapterIn(d, sections[r])
      BY <3>2, <3>3 DEF HasChapterIn
    <3> QED
      BY <2>2, <3>1, <3>4
  <2>5. \A e \in answered : \E d \in new : d.says = e.says /\ d.sec = e.sec /\ d.coded = e.coded
    <3> SUFFICES ASSUME NEW e \in answered
                 PROVE  \E d \in new : d.says = e.says /\ d.sec = e.sec /\ d.coded = e.coded
      OBVIOUS
    <3>1. Classified(e) \in new
      BY <1>10
    <3> QED
      BY <2>2, <3>1
  <2>6. ASSUME r \notin raced PROVE NoneTwice((Of(r) \ answered) \union new)
    <3> SUFFICES ASSUME NEW c \in (Of(r) \ answered) \union new, NEW d \in (Of(r) \ answered) \union new,
                        c /= d, c.says = d.says
                 PROVE  c.coded /= Nothing /\ d.coded /= Nothing
      BY DEF NoneTwice
    <3>1. \A g \in new : \E e \in answered :
            e \in Of(r) /\ g = Classified(e) /\ e.says = g.says /\ e.coded = g.coded
      BY <2>1, <2>2, <2>3
    <3>2. \A e, f \in Of(r) : e /= f /\ e.says = f.says => e.coded /= Nothing /\ f.coded /= Nothing
      BY <1>9, <2>6 DEF NoneTwice
    <3>3. CASE c \in Of(r) \ answered /\ d \in Of(r) \ answered
      BY <3>2, <3>3
    <3>4. CASE c \in new /\ d \in Of(r) \ answered
      BY <3>1, <3>2, <3>4
    <3>5. CASE c \in Of(r) \ answered /\ d \in new
      BY <3>1, <3>2, <3>5
    <3>6. CASE c \in new /\ d \in new
      <4>1. PICK e \in answered :
              e \in Of(r) /\ c = Classified(e) /\ e.says = c.says /\ e.coded = c.coded
        BY <3>1, <3>6
      <4>2. PICK f \in answered :
              f \in Of(r) /\ d = Classified(f) /\ f.says = d.says /\ f.coded = d.coded
        BY <3>1, <3>6
      <4>3. e /= f
        BY <4>1, <4>2
      <4> QED
        BY <3>2, <4>1, <4>2, <4>3
    <3> QED
      BY <3>3, <3>4, <3>5, <3>6
  <2>7. \E e \in (Of(r) \ answered) \union new : e.sec = i /\ e.coded /= Nothing
    <3>1. PICK e \in Of(r) : e.sec = i /\ e.coded /= Nothing
      BY <1>10 DEF Layout
    <3> QED
      BY <2>5, <3>1
  <2>8. IsTrueOf(BookOf(r), i, Stamped(sections[r][i], cost, {}), (Of(r) \ answered) \union new)
    BY <2>7 DEF IsTrueOf
  <2>9. r \notin raced => NoneTwice((Of(r) \ answered) \union new)
    BY <2>6
  <2>10. Writes(x, r, i, cost, {}, new, answered)
    BY <1>0, <1>2, <1>3, <1>10, <2>1, <2>4, <2>5, <2>8, <2>9 DEF Writes
  <2> QED
    BY <2>10, WrittenInv
<1>11. ASSUME IsThere(x), NEW failing, failing \in SUBSET ReadIn(BookOf(r), sections[r][i]),
              NEW cost, cost = Cardinality(ChunksIn(BookOf(r), sections[r][i])),
              NEW new,
              new = Transcribed(r, sections[r][i].gen, BookOf(r),
                                Places(BookOf(r), sections[r], {i}, failing), reader[x].seen, x),
              NEW gone, gone = {}, WriteChapter(r, i, cost, failing, new, gone)
       PROVE  ShelfInv'
  <2>1. PICK chapters \in Seq(SectionRow) : chapters = sections[r] /\ i \in DOMAIN chapters
    BY <1>7, <1>11
  <2>2. PICK which \in SUBSET Nat : which = {i}
    BY <1>7, <1>11
  <2>3. IsTranscription(r, chapters[i].gen, Book[b], chapters, which, failing, reader[x].seen, new)
    <3>1. PICK seen : seen = reader[x].seen
      OBVIOUS
    <3>2. new = Transcribed(r, chapters[i].gen, Book[b], Places(Book[b], chapters, which, failing), seen, x)
      BY <1>5, <1>11, <2>1, <2>2, <3>1
    <3>3. IsTranscription(r, chapters[i].gen, Book[b], chapters, which, failing, seen, new)
      BY <3>2, TranscribedIsRight
    <3> QED
      BY <3>1, <3>3
  <2>4. cost \in Nat /\ failing \in SUBSET Nat
    BY <1>5, <1>11, ChunksInAreFinite
  <2>5. PICK stamped : stamped = Stamped(chapters[i], cost, failing)
    OBVIOUS
  <2>6. /\ stamped.from = chapters[i].from /\ stamped.to = chapters[i].to
        /\ stamped.missed = failing
        /\ stamped.notice = Nothing <=> cost <= MAX_SECTION_CHUNKS
    BY <1>7, <1>11, <2>1, <2>4, <2>5, StampedIsRow, StampTellsTheCut
  <2>7. \A e \in new : /\ IsExercise(e) /\ TagsFit(e) /\ KeyFits(e) /\ e.src = r
                       /\ r \notin torn => HasChapterIn(e, sections[r])
    BY <2>1, <2>2, <2>3 DEF IsTranscription, HasChapterIn
  <2>8. /\ \A s \in reader[x].seen : \E e \in Of(r) : e.says = s
        /\ r \notin raced => \A e \in Of(r) : e.says \in reader[x].seen
    BY <1>0, <1>2, <1>7, <1>11 DEF ShelfInv, ReadersKnowTheBook
  <2>9. ASSUME r \notin raced PROVE NoneTwice((Of(r) \ gone) \union new)
    <3>1. \A c, d \in new : c.says = d.says => c = d
      BY <2>3 DEF IsTranscription
    <3>2. \A c \in new : \A d \in Of(r) : c.says /= d.says
      BY <2>3, <2>8, <2>9 DEF IsTranscription
    <3>3. \A c, d \in Of(r) : c /= d /\ c.says = d.says => c.coded /= Nothing /\ d.coded /= Nothing
      BY <1>9, <2>9 DEF NoneTwice
    <3>4. (Of(r) \ gone) \union new = Of(r) \union new
      BY <1>11
    <3>5. NoneTwice(Of(r) \union new)
      BY <3>1, <3>2, <3>3 DEF NoneTwice
    <3> QED
      BY <3>4, <3>5
  <2>10. IsTrueOf(Book[b], i, stamped, (Of(r) \ gone) \union new)
    <3> SUFFICES ASSUME stamped.notice = Nothing,
                        NEW c \in ChunksIn(Book[b], stamped) \ stamped.missed,
                        NEW s \in Range(Book[b].chunks[c].says), IsClassified(Emitted[s])
                 PROVE  \E e \in (Of(r) \ gone) \union new : e.says = s
      BY DEF IsTrueOf
    <3>1. ChunksIn(Book[b], stamped) = ChunksIn(Book[b], chapters[i])
      BY <2>6, SamePages
    <3>2. Cardinality(ChunksIn(Book[b], chapters[i])) <= MAX_SECTION_CHUNKS
      BY <1>5, <1>11, <2>1, <2>6
    <3>3. ReadIn(Book[b], chapters[i]) = ChunksIn(Book[b], chapters[i])
      BY <3>2, BooksAssumption, ShortChaptersAreReadWhole
    <3>4. i \in which /\ c \in ReadIn(Book[b], chapters[i]) \ failing
      BY <2>2, <2>6, <3>1, <3>3
    <3>5. s \in reader[x].seen \/ \E e \in new : e.says = s
      BY <2>3, <3>4 DEF IsTranscription
    <3> QED
      BY <1>11, <2>8, <3>5
  <2>11. IsTrueOf(BookOf(r), i, Stamped(sections[r][i], cost, failing), (Of(r) \ gone) \union new)
    BY <1>5, <2>1, <2>5, <2>10
  <2>12. gone \in SUBSET Of(r)
    BY <1>11
  <2>13. r \notin raced => NoneTwice((Of(r) \ gone) \union new)
    BY <2>9
  <2>14. \A e \in gone : \E d \in new : d.says = e.says /\ d.sec = e.sec /\ d.coded = e.coded
    BY <1>11
  <2>15. Writes(x, r, i, cost, failing, new, gone)
    <3>1. WriteChapter(r, i, cost, failing, new, gone)
      BY <1>11
    <3>2. IsThere(x) /\ gone \subseteq Of(r)
      BY <1>11, <2>12
    <3> QED
      BY Zenon, <1>0, <1>2, <1>3, <2>7, <2>11, <2>13, <2>14, <3>1, <3>2 DEF Writes
  <2> QED
    BY <2>4, <2>15, WrittenInv
<1>12. ASSUME IsThere(x), Layout(r, i) /= {}, ClassifyChapter(r, i) PROVE ShelfInv'
  <2>1. PICK failing :
          WriteChapter(r, i, Cardinality(Layout(r, i)), {},
                       {Classified(e) : e \in {e \in Asked(Layout(r, i)) : e.coded \notin failing}},
                       {e \in Asked(Layout(r, i)) : e.coded \notin failing})
    BY Zenon, <1>12 DEF ClassifyChapter
  <2> QED
    BY Zenon, <1>10, <1>12, <2>1
<1>13. ASSUME IsThere(x), TranscribeChapter(r, i, reader[x].seen, x) PROVE ShelfInv'
  <2>1. PICK failing \in Failures(ReadIn(BookOf(r), sections[r][i])) :
          WriteChapter(r, i, Cardinality(ChunksIn(BookOf(r), sections[r][i])), failing,
                       Transcribed(r, sections[r][i].gen, BookOf(r),
                                   Places(BookOf(r), sections[r], {i}, failing), reader[x].seen, x),
                       {})
    BY Zenon, <1>13 DEF TranscribeChapter
  <2>2. failing \in SUBSET ReadIn(BookOf(r), sections[r][i])
    BY DEF Failures
  <2> QED
    BY Zenon, <1>11, <1>13, <2>1, <2>2
<1>14. \/ ~ IsThere(x) /\ UNCHANGED <<sections, exercises, late>>
       \/ IsThere(x) /\ Layout(r, i) /= {} /\ ClassifyChapter(r, i)
       \/ IsThere(x) /\ TranscribeChapter(r, i, reader[x].seen, x)
  BY Zenon, <1>2, <1>3 DEF Finish
<1> QED
  BY <1>6, <1>12, <1>13, <1>14-----------------------------------------------------------------------------
(* Every step keeps it: a book is taken off the shelf                      *)

\* Exercises without their book are otherwise as they were.
LEMMA FreedFits ==
    ASSUME NEW e, IsExercise(e), TagsFit(e), KeyFits(e)
    PROVE  /\ IsExercise(Freed(e)) /\ TagsFit(Freed(e)) /\ KeyFits(Freed(e))
           /\ Freed(e).src = Nothing /\ Freed(e).id = e.id
<1>0. PICK f : f = Freed(e)
  OBVIOUS
<1>1. DOMAIN e = {"id", "src", "gen", "sec", "page", "says", "coded", "key", "tags", "theme"}
  BY DEF IsExercise
<1>2. /\ DOMAIN f = DOMAIN e /\ f.src = Nothing /\ f.id = e.id /\ f.says = e.says
      /\ f.tags = e.tags /\ f.theme = e.theme /\ f.key = e.key
  BY <1>0, <1>1 DEF Freed
<1>3. IsExercise(f)
  BY <1>1, <1>2 DEF IsExercise
<1>4. TagsFit(f)
  BY <1>2 DEF TagsFit
<1>5. KeyFits(f)
  BY <1>2 DEF KeyFits
<1> QED
  BY <1>0, <1>2, <1>3, <1>4, <1>5

LEMMA DeleteInv ==
    ASSUME ShelfInv, NEW r \in Rows, Delete(r)
    PROVE  ShelfInv'
<1>1. /\ run \in [Runs -> RunRow] /\ sections \in [Rows -> Seq(SectionRow)]
      /\ source \in [Rows -> SourceRow] /\ indexed \in [Rows -> BOOLEAN]
      /\ deleting \in [Rows -> BOOLEAN] /\ reader \in [Readers -> ReaderRow]
      /\ raced \subseteq Rows /\ torn \subseteq Rows
  BY DEF ShelfInv, Typed
<1>2. /\ deleting[r]
      /\ deleting' = [deleting EXCEPT ![r] = FALSE]
      /\ source' = [source EXCEPT ![r].status = "deleted"]
      /\ sections' = [sections EXCEPT ![r] = <<>>]
      /\ indexed' = [indexed EXCEPT ![r] = FALSE]
      /\ UNCHANGED <<request, run, reader, raced, torn, late>>
  BY Zenon DEF Delete, history
<1>3. PICK freed : freed = {Freed(e) : e \in Of(r)}
  OBVIOUS
<1>4. exercises' = (exercises \ Of(r)) \union freed
  BY Zenon, <1>3 DEF Delete
<1>5. \A f \in freed : \E e \in Of(r) : IsExercise(f) /\ TagsFit(f) /\ KeyFits(f) /\ f.src = Nothing /\ f.id = e.id
  <2>1. ASSUME NEW e \in Of(r)
        PROVE  /\ IsExercise(Freed(e)) /\ TagsFit(Freed(e)) /\ KeyFits(Freed(e))
               /\ Freed(e).src = Nothing /\ Freed(e).id = e.id
    <3>1. IsExercise(e) /\ TagsFit(e) /\ KeyFits(e)
      BY DEF ShelfInv, ExercisesFit, Of
    <3> QED
      BY <3>1, FreedFits
  <2> QED
    BY <1>3, <2>1
<1>6. /\ source' \in [Rows -> SourceRow] /\ source'[r].status = "deleted"
      /\ \A q \in Rows : q /= r => source'[q] = source[q]
      /\ \A q \in Rows : source'[q].book = source[q].book /\ source'[q].notice = source[q].notice
  <2> DEFINE row == [source[r] EXCEPT !.status = "deleted"]
  <2>1. row \in SourceRow /\ row.status = "deleted"
    BY <1>1 DEF SourceRow, Statuses
  <2>2. row.book = source[r].book /\ row.notice = source[r].notice
    BY <1>1 DEF SourceRow
  <2>3. source' = [source EXCEPT ![r] = row]
    BY <1>2
  <2> HIDE DEF row
  <2> QED
    BY <1>1, <2>1, <2>2, <2>3
<1>7. /\ sections' \in [Rows -> Seq(SectionRow)] /\ sections'[r] = <<>>
      /\ \A q \in Rows : q /= r => sections'[q] = sections[q]
  <2>1. <<>> \in Seq(SectionRow)
    OBVIOUS
  <2> QED
    BY <1>1, <1>2, <2>1
<1>8. /\ Of(r)' = {}
      /\ \A q \in Rows : q /= r => Of(q)' = Of(q)
  <2>1. \A q \in Rows : q /= Nothing
    BY ConstantsAreSound
  <2> QED
    BY <1>4, <1>5, <2>1 DEF Of
<1>9. \A q \in Rows : BookOf(q)' = BookOf(q)
  BY <1>6 DEF BookOf
<1>10. Typed'
  BY <1>1, <1>2, <1>6, <1>7 DEF ShelfInv, Typed
<1>11. ExercisesFit'
  BY <1>4, <1>5 DEF ShelfInv, ExercisesFit
<1>12. RowsAreUploaded'
  <2>1. \A q \in Rows : request[q] /= "none" => source'[q].book \in Library
    BY <1>6 DEF ShelfInv, RowsAreUploaded
  <2>2. ASSUME NEW q \in Rows, request[q] /= "pushed" PROVE IsBare(q)'
    <3>1. IsBare(q)
      BY <2>2 DEF ShelfInv, RowsAreUploaded
    <3> QED
      BY <1>2, <1>6, <1>7, <1>8, <3>1 DEF IsBare
  <2> QED
    BY <1>2, <2>1, <2>2 DEF RowsAreUploaded
<1>13. ChaptersAreOne'
  <2> SUFFICES ASSUME NEW q \in Rows PROVE AreOne(sections[q])'
    BY DEF ChaptersAreOne
  <2>1. CASE q = r
    BY <1>7, <2>1 DEF AreOne
  <2>2. CASE q /= r
    BY <1>2, <1>7, <2>2 DEF ShelfInv, ChaptersAreOne, AreOne
  <2> QED
    BY <2>1, <2>2
<1>14. \A k \in Runs : k[1] \in Rows
  BY DEF Runs
<1>15. CopiesAreOfTwins'
  BY <1>2, <1>6, <1>14 DEF ShelfInv, CopiesAreOfTwins, AreOne
<1>16. ASSUME NEW x \in Readers, reader[x].pc \in {"asked", "reading"}
       PROVE  /\ reader[x].row \in Rows /\ request[reader[x].row] = "pushed"
              /\ reader[x].gen \in Runs /\ run[reader[x].gen].pc = "ended"
              /\ StillThere(x)' => reader[x].row /= r /\ StillThere(x)
  <2>1. /\ reader[x].row \in Rows /\ request[reader[x].row] = "pushed"
        /\ reader[x].gen \in Runs /\ run[reader[x].gen].pc = "ended"
    BY <1>16 DEF ShelfInv, ReadersHaveTheirChapter
  <2>2. reader[x].row = r => ~ StillThere(x)'
    BY <1>2, <1>7 DEF StillThere
  <2>3. reader[x].row /= r /\ StillThere(x)' => StillThere(x)
    BY <1>2, <1>7, <2>1 DEF StillThere
  <2> QED
    BY <2>1, <2>2, <2>3
<1>17. ReadersHaveTheirChapter'
  BY <1>2, <1>7, <1>16 DEF ShelfInv, ReadersHaveTheirChapter
<1>18. ReadersKnowTheBook'
  BY <1>2, <1>8, <1>16 DEF ShelfInv, ReadersKnowTheBook
<1>19. RowsAreSound'
  <2>1. ASSUME NEW q \in Rows, q /= r
        PROVE  /\ q \notin torn => IsSoundFor(BookOf(q), Shown(q))'
               /\ q \notin torn /\ (sections'[q] /= <<>> \/ source'[q].status = "succeeded") => indexed'[q]
               /\ q \notin raced => NoneTwice(Of(q))'
    <3>1. /\ q \notin torn => IsSoundFor(BookOf(q), Shown(q))
          /\ q \notin torn /\ (sections[q] /= <<>> \/ source[q].status = "succeeded") => indexed[q]
          /\ q \notin raced => NoneTwice(Of(q))
      BY DEF ShelfInv, RowsAreSound
    <3>2. q \notin torn => IsSoundFor(BookOf(q), Shown(q))'
      BY <1>6, <1>7, <1>8, <1>9, <2>1, <3>1, RowStays
    <3>3. q \notin raced => NoneTwice(Of(q))'
      BY <1>8, <2>1, <3>1 DEF NoneTwice
    <3>4. sections'[q] = sections[q] /\ source'[q] = source[q] /\ indexed'[q] = indexed[q]
      BY <1>1, <1>2, <1>6, <1>7, <2>1
    <3> QED
      BY <3>1, <3>2, <3>3, <3>4
  <2>2. IsSoundFor(BookOf(r), Shown(r))' /\ NoneTwice(Of(r))'
    BY <1>7, <1>8 DEF IsSoundFor, Shown, Content, NoneTwice
  <2>3. sections'[r] = <<>> /\ source'[r].status /= "succeeded"
    BY <1>6, <1>7
  <2> QED
    BY <1>2, <2>1, <2>2, <2>3 DEF RowsAreSound
<1>20. CopiesAreTrue'
  <2> SUFFICES ASSUME NEW k \in Runs, NEW row \in RunRow, row = run[k], row.pc = "copying",
                      row.twin \notin torn, SameChapters(row.sections, sections'[row.twin])
               PROVE  IsTrueCopy(row.sections, row.twin)'
    BY <1>1, <1>2, CopiesAreKnown
  <2>1. PICK t \in Rows : t = row.twin
    BY DEF ShelfInv, CopiesAreOfTwins
  <2>2. t /= r
    BY <1>7, <2>1 DEF SameChapters
  <2>3. SameChapters(row.sections, sections[t])
    BY <1>7, <2>1, <2>2
  <2>4. IsTrueCopy(row.sections, t)
    BY <2>1, <2>3 DEF ShelfInv, CopiesAreTrue
  <2>5. IsTrueCopy(row.sections, t)'
    <3>1. BookOf(t)' = BookOf(t) /\ Of(t)' = Of(t)
      BY <1>8, <1>9, <2>2
    <3>2. AreAsLong(sections[t], sections'[t]) /\ source'[t].notice = source[t].notice
      BY <1>6, <1>7, <2>2 DEF AreAsLong
    <3> QED
      BY <2>4, <3>1, <3>2, CopyStays
  <2> QED
    BY <2>1, <2>5
<1>21. DeletionsAreKnown'
  <2>1. \A e \in Of(r) : e.id \in late
    BY <1>2 DEF ShelfInv, DeletionsAreKnown
  <2>2. \A q \in Rows : deleting'[q] => \A e \in Of(q)' : e.id \in late
    BY <1>1, <1>2, <1>8 DEF ShelfInv, DeletionsAreKnown
  <2>3. \A e \in exercises' : e.src = Nothing => e.id \in late
    BY <1>4, <1>5, <2>1 DEF ShelfInv, DeletionsAreKnown, ProvenanceIsKept
  <2> QED
    BY <1>2, <2>2, <2>3 DEF DeletionsAreKnown, ProvenanceIsKept
<1> QED
  BY <1>10, <1>11, <1>12, <1>13, <1>15, <1>17, <1>18, <1>19, <1>20, <1>21 DEF ShelfInv

-----------------------------------------------------------------------------
(* The invariant of the specification                                      *)

LEMMA NextInv ==
    ASSUME ShelfInv, [Next]_vars
    PROVE  ShelfInv'
<1>1. ASSUME NEW r \in Rows, NEW b \in Library, Upload(r, b) PROVE ShelfInv'
  BY <1>1, UploadInv
<1>2. ASSUME NEW r \in Rows, Store(r) PROVE ShelfInv'
  BY <1>2, StoreInv
<1>3. ASSUME NEW r \in Rows, HandOver(r) PROVE ShelfInv'
  BY <1>3, HandOverInv
<1>4. ASSUME NEW r \in Rows, AskDelete(r) PROVE ShelfInv'
  BY <1>4, AskDeleteInv
<1>5. ASSUME NEW r \in Rows, Delete(r) PROVE ShelfInv'
  BY <1>5, DeleteInv
<1>6. ASSUME NEW r \in Rows, Deliveries_(r) PROVE ShelfInv'
  BY <1>6, DeliverInv DEF Deliveries_
<1>7. ASSUME NEW j \in Runs, Work(j) PROVE ShelfInv'
  <2>1. j[1] \in Rows /\ j[2] \in Deliveries
    BY DEF Runs
  <2> QED
    BY <1>7, <2>1, LockInv, ReadInv, FailInv, CopyInv DEF Work
<1>8. ASSUME NEW j \in Runs, Die(j) PROVE ShelfInv'
  BY <1>8, DieInv
<1>9. ASSUME NEW x \in Readers, NEW r \in Rows, NEW i \in DOMAIN sections[r], Ask(x, r, i)
      PROVE  ShelfInv'
  BY <1>9, AskInv
<1>10. ASSUME NEW x \in Readers, Start(x) PROVE ShelfInv'
  BY <1>10, StartInv
<1>11. ASSUME NEW x \in Readers, Finish(x) PROVE ShelfInv'
  BY <1>11, FinishInv
<1>12. ASSUME Configure PROVE ShelfInv'
  BY <1>12, StutterInv DEF Configure
<1>13. ASSUME UNCHANGED vars PROVE ShelfInv'
  BY <1>13, StutterInv DEF vars
<1> QED
  BY <1>1, <1>2, <1>3, <1>4, <1>5, <1>6, <1>7, <1>8, <1>9, <1>10, <1>11, <1>12, <1>13 DEF Next

\* What the shelf shows is true of its books, in every state of every
\* behaviour, for any books, rows, readers, deliveries and ceilings.
THEOREM ShelfAlways == Spec => []ShelfInv
<1>1. ShelfInv /\ [Next]_vars => ShelfInv'
  BY NextInv
<1> QED
  BY <1>1, InitInv, PTL DEF Spec
-----------------------------------------------------------------------------
(* What the shelf promises                                                 *)

\* An exercise keeps its place, for any books and rows: it is in a chapter of
\* its book that holds its page, under a theme and with a key that fit it, and
\* it loses the book only with the book (_persist_sections, _copy_from_twin,
\* nouns.delete_source).
THEOREM ExercisesHaveTheirPlace == Spec => []EveryExerciseHasItsPlace
<1>1. ASSUME ShelfInv PROVE EveryExerciseHasItsPlace
  <2>1. TypeOK
    <3>1. source \in [Rows -> SourceRow] /\ sections \in [Rows -> Seq(SectionRow)]
      BY <1>1 DEF ShelfInv, Typed
    <3>2. ASSUME NEW r \in Rows, NEW i \in DOMAIN sections[r]
          PROVE  sections[r][i].read \in BOOLEAN /\ sections[r][i].notice \in Notices
      <4>1. sections[r] \in Seq(SectionRow)
        BY <3>1
      <4>2. sections[r][i] \in SectionRow
        BY <4>1, SeqHolds
      <4> QED
        BY <4>2 DEF SectionRow
    <3>3. \A j \in Runs : run[j].pc \in RunStates
      BY <1>1 DEF ShelfInv, Typed, RunRow
    <3>4. \A x \in Readers : reader[x].pc \in ReaderStates
      BY <1>1 DEF ShelfInv, Typed, ReaderRow
    <3>5. \A e \in exercises : e.src \in Rows \union {Nothing}
      BY <1>1 DEF ShelfInv, ExercisesFit, IsExercise
    <3> QED
      BY <1>1, <3>1, <3>2, <3>3, <3>4, <3>5 DEF TypeOK, ShelfInv, Typed, SourceRow
  <2>2. EveryExerciseHasItsChapter
    <3> SUFFICES ASSUME NEW e \in exercises, e.src \in Rows \ torn
                 PROVE  /\ e.sec \in DOMAIN sections[e.src]
                        /\ e.gen = sections[e.src][e.sec].gen
                        /\ Within(e.page, sections[e.src][e.sec])
      BY DEF EveryExerciseHasItsChapter
    <3>1. PICK r \in Rows \ torn : r = e.src
      OBVIOUS
    <3>2. IsSoundFor(BookOf(r), Shown(r)) /\ e \in Of(r)
      BY <1>1, <3>1 DEF ShelfInv, RowsAreSound, Of
    <3>3. HasChapterIn(e, sections[r])
      BY <3>2 DEF IsSoundFor, Shown, Content
    <3> QED
      BY <3>1, <3>3 DEF HasChapterIn
  <2>3. TagsAndKeysHold
    BY <1>1 DEF TagsAndKeysHold, ShelfInv, ExercisesFit, TagsFit, KeyFits
  <2>4. ProvenanceIsKept
    BY <1>1 DEF ShelfInv, DeletionsAreKnown
  <2> QED
    BY <2>1, <2>2, <2>3, <2>4 DEF EveryExerciseHasItsPlace
<1> QED
  BY <1>1, ShelfAlways, PTL

\* No statement is transcribed twice from one book, however its chapters are
\* read, copied or done again, if no two are being read at the same time
\* (_existing_statements, extract_section).
THEOREM TranscribedOnce == Spec => []NothingTranscribedTwice
<1>1. ASSUME ShelfInv PROVE NothingTranscribedTwice
  <2> SUFFICES ASSUME NEW d \in exercises, NEW e \in exercises,
                      d /= e, d.src = e.src, d.says = e.says,
                      d.coded = Nothing \/ e.coded = Nothing,
                      d.src \notin raced \union {Nothing}
               PROVE  FALSE
    BY DEF NothingTranscribedTwice
  <2>1. PICK r \in Rows : r = d.src
    BY <1>1 DEF ShelfInv, ExercisesFit, IsExercise
  <2>2. d \in Of(r) /\ e \in Of(r) /\ NoneTwice(Of(r))
    BY <1>1, <2>1 DEF ShelfInv, RowsAreSound, Of
  <2> QED
    BY <2>2 DEF NoneTwice
<1> QED
  BY <1>1, ShelfAlways, PTL

\* The shelf is honest: what it shows as read was read, what it shows as
\* finished hides no chapter, and an import spends no more than its budget
\* (_extract_into_section, _extract_eagerly, MAX_EXTRACTION_CHUNKS).
THEOREM TheShelfIsHonest == Spec => []ShelfIsHonest
<1>1. ASSUME ShelfInv PROVE ShelfIsHonest
  <2>1. ReadMeansRead
    <3> SUFFICES ASSUME NEW r \in Rows \ torn, NEW i \in DOMAIN sections[r],
                        IsShownAsRead(r, i), ~ sections[r][i].blank,
                        NEW c \in ChunksIn(BookOf(r), sections[r][i]) \ sections[r][i].missed,
                        NEW s \in Range(BookOf(r).chunks[c].says), IsClassified(Emitted[s])
                 PROVE  \E e \in Of(r) : e.says = s
      BY DEF ReadMeansRead, IsReadWhole
    <3>1. IsSoundFor(BookOf(r), Shown(r))
      BY <1>1 DEF ShelfInv, RowsAreSound
    <3>2. IsTrueOf(BookOf(r), i, sections[r][i], Of(r))
      BY <3>1 DEF IsSoundFor, Shown, Content
    <3>3. /\ sections[r][i].read /\ sections[r][i].notice = Nothing
          /\ \A e \in Of(r) : e.sec = i => e.coded = Nothing
      BY DEF IsShownAsRead, Layout
    <3> QED
      BY <3>2, <3>3 DEF IsTrueOf
  <2>2. GreenTickIsHonest
    <3> SUFFICES ASSUME NEW r \in Rows \ torn,
                        source[r].status = "succeeded", source[r].notice = Nothing
                 PROVE  indexed[r] /\ \A i \in DOMAIN sections[r] : sections[r][i].read
      BY DEF GreenTickIsHonest
    <3>1. IsSoundFor(BookOf(r), Shown(r)) /\ indexed[r]
      BY <1>1 DEF ShelfInv, RowsAreSound
    <3> QED
      BY <3>1 DEF IsSoundFor, Shown, Content
  <2>3. ImportStaysInBudget
    <3>1. MAX_EXTRACTION_CHUNKS \in Nat
      BY ConstantsAreSound
    <3>2. ASSUME NEW r \in Rows PROVE source[r].calls <= MAX_EXTRACTION_CHUNKS
      <4>1. source[r] \in SourceRow
        BY <1>1 DEF ShelfInv, Typed
      <4>2. source[r].calls \in 0 .. MAX_EXTRACTION_CHUNKS
        BY <4>1 DEF SourceRow
      <4> QED
        BY <3>1, <4>2
    <3> QED
      BY <3>2 DEF ImportStaysInBudget
  <2> QED
    BY <2>1, <2>2, <2>3 DEF ShelfIsHonest
<1> QED
  BY <1>1, ShelfAlways, PTL

-----------------------------------------------------------------------------
(* A book and its chapters                                                 *)

\* Pages in their order: each one there is, and each before the next.
LEMMA AscendingIs ==
    ASSUME NEW last \in Nat, NEW I \in SUBSET (1 .. last)
    PROVE  /\ Cardinality(I) \in Nat
           /\ Ascending(I) \in [1 .. Cardinality(I) -> I]
           /\ \A x \in I : \E n \in 1 .. Cardinality(I) : Ascending(I)[n] = x
           /\ \A i, j \in 1 .. Cardinality(I) :
                i < j => Ascending(I)[i] < Ascending(I)[j]
<1> DEFINE N == Cardinality(I)
           before(x) == {y \in I : y < x}
           rank == [x \in I |-> Cardinality(before(x)) + 1]
<1>0. \A x \in I : x \in Int
  OBVIOUS
<1>1. IsFiniteSet(1 .. last) /\ IsFiniteSet(I) /\ N \in Nat
  <2>1. 1 \in Int /\ last \in Int
    OBVIOUS
  <2>2. IsFiniteSet(1 .. last)
    BY <2>1, FS_Interval
  <2>3. IsFiniteSet(I)
    BY <2>2, FS_Subset
  <2> QED
    BY <2>2, <2>3, FS_CardinalityType
<1>2. ASSUME NEW x \in I
      PROVE  IsFiniteSet(before(x)) /\ Cardinality(before(x)) \in 0 .. N - 1
  <2>1. before(x) \in SUBSET I /\ before(x) /= I
    OBVIOUS
  <2>2. IsFiniteSet(before(x)) /\ Cardinality(before(x)) <= N
        /\ (N = Cardinality(before(x)) => I = before(x))
    <3> HIDE DEF before
    <3> QED
      BY <1>1, <2>1, FS_Subset
  <2>3. Cardinality(before(x)) \in Nat
    BY <2>2, FS_CardinalityType
  <2> QED
    BY <1>1, <2>1, <2>2, <2>3
<1>3. ASSUME NEW x \in I, NEW y \in I, x < y
      PROVE  Cardinality(before(x)) < Cardinality(before(y))
  <2>1. before(x) \in SUBSET before(y) /\ x \in before(y) /\ x \notin before(x)
    <3>1. \A z \in I : z < x => z < y
      BY <1>0, <1>3
    <3>2. ~ (x < x)
      BY <1>0
    <3> QED
      BY <1>3, <3>1, <3>2
  <2>2. IsFiniteSet(before(y)) /\ Cardinality(before(y)) \in Int
        /\ Cardinality(before(x)) \in Int
    <3> HIDE DEF before, N
    <3> QED
      BY <1>1, <1>2
  <2> HIDE DEF before
  <2>3. /\ Cardinality(before(x)) <= Cardinality(before(y))
        /\ Cardinality(before(y)) = Cardinality(before(x)) => before(x) = before(y)
    BY <2>1, <2>2, FS_Subset
  <2> QED
    BY <2>1, <2>2, <2>3
<1>4. \A x, y \in I : Cardinality(before(x)) = Cardinality(before(y)) => x = y
  <2> SUFFICES ASSUME NEW x \in I, NEW y \in I, x /= y
               PROVE  Cardinality(before(x)) /= Cardinality(before(y))
    OBVIOUS
  <2>1. x < y \/ y < x
    OBVIOUS
  <2> HIDE DEF before, N
  <2>2. Cardinality(before(x)) \in Int /\ Cardinality(before(y)) \in Int
    BY <1>1, <1>2
  <2> QED
    BY <1>3, <2>1, <2>2
<1>5. rank \in Injection(I, 1 .. N)
  <2> HIDE DEF before, N
  <2>1. \A x \in I : Cardinality(before(x)) + 1 \in 1 .. N
    BY <1>1, <1>2
  <2>2. \A x \in I : Cardinality(before(x)) \in Int
    BY <1>1, <1>2
  <2>3. rank \in [I -> 1 .. N]
    BY <2>1
  <2>4. \A x, y \in I : rank[x] = rank[y] => x = y
    BY <1>4, <2>2
  <2> QED
    BY <2>3, <2>4 DEF Injection, IsInjective
<1>6. \A n \in 1 .. N : \E x \in I : rank[x] = n
  <2>1. 1 \in Int /\ N \in Int
    BY <1>1
  <2>2. IsFiniteSet(1 .. N) /\ Cardinality(1 .. N) = N
    <3> HIDE DEF N
    <3> QED
      BY <1>1, <2>1, FS_Interval
  <2> HIDE DEF rank
  <2>3. rank \in Surjection(I, 1 .. N)
    BY <1>1, <1>5, <2>2, FS_Injection
  <2> QED
    BY <2>3 DEF Surjection
<1> DEFINE at(n) == CHOOSE x \in I : Cardinality(before(x)) = n - 1
<1>7. \A n \in 1 .. N : at(n) \in I /\ Cardinality(before(at(n))) = n - 1
  <2>1. \A n \in 1 .. N : \E x \in I : Cardinality(before(x)) = n - 1
    <3> HIDE DEF before, N
    <3>1. \A x \in I : Cardinality(before(x)) \in Int
      BY <1>1, <1>2
    <3> QED
      BY <1>6, <3>1
  <2> HIDE DEF before
  <2> QED
    BY <2>1
<1>8. Ascending(I) = [n \in 1 .. N |-> at(n)]
  <2>1. \A x \in I : {y \in I : <<y, x>> \in Smaller(I)} = before(x)
    BY DEF Smaller
  <2>2. \A n \in 1 .. N :
          (CHOOSE x \in I : Cardinality({y \in I : <<y, x>> \in Smaller(I)}) = n - 1)
            = at(n)
    <3> HIDE DEF before
    <3> QED
      BY <2>1
  <2> HIDE DEF at, before
  <2> QED
    BY <2>2 DEF Ascending, InOrder
<1>9. \A x \in I : \E n \in 1 .. N : at(n) = x
  <2> SUFFICES ASSUME NEW x \in I PROVE \E n \in 1 .. N : at(n) = x
    OBVIOUS
  <2> DEFINE k == Cardinality(before(x))
  <2>1. k \in 0 .. N - 1
    BY <1>2
  <2>2. k + 1 \in 1 .. N /\ k + 1 - 1 = k
    <3> HIDE DEF N, k
    <3> QED
      BY <1>1, <2>1
  <2>3. at(k + 1) \in I /\ Cardinality(before(at(k + 1))) = k
    <3> HIDE DEF N, k, at, before
    <3>1. \A n \in 1 .. N : n - 1 = k => at(n) \in I /\ Cardinality(before(at(n))) = k
      BY <1>7
    <3>2. PICK n \in 1 .. N : n - 1 = k /\ n = k + 1
      BY <1>1, <2>1, <2>2
    <3>3. at(n) \in I /\ Cardinality(before(at(n))) = k
      BY <3>1, <3>2
    <3> QED
      BY <3>2, <3>3
  <2>4. at(k + 1) = x
    <3> HIDE DEF at, before
    <3> QED
      BY <1>4, <2>3
  <2> HIDE DEF k, at
  <2> QED
    BY <2>2, <2>4
<1>10. ASSUME NEW i \in 1 .. N, NEW j \in 1 .. N, i < j PROVE at(i) < at(j)
  <2> HIDE DEF at, before
  <2>1. /\ at(i) \in I /\ Cardinality(before(at(i))) = i - 1
        /\ at(j) \in I /\ Cardinality(before(at(j))) = j - 1
    BY <1>7
  <2>2. at(i) \in Int /\ at(j) \in Int
    BY <1>0, <2>1
  <2>3. ~ (at(j) < at(i))
    <3>1. at(j) < at(i) => j - 1 < i - 1
      BY <1>3, <2>1
    <3> HIDE DEF N
    <3>2. i \in Int /\ j \in Int
      BY <1>1
    <3> QED
      BY <1>10, <3>1, <3>2
  <2>4. at(i) /= at(j)
    <3>1. at(i) = at(j) => i - 1 = j - 1
      BY <2>1
    <3> HIDE DEF N
    <3>2. i \in Int /\ j \in Int
      BY <1>1
    <3> QED
      BY <1>10, <3>1, <3>2
  <2> QED
    BY <2>2, <2>3, <2>4
<1> HIDE DEF at, before
<1>11. \A n \in 1 .. N : Ascending(I)[n] = at(n)
  BY <1>8
<1> QED
  BY <1>1, <1>7, <1>8, <1>9, <1>10, <1>11

\* Chapters that begin on pages of the book and run to the next one's
\* beginning leave no page out and share none.
LEMMA ChaptersShareNoPage ==
    ASSUME NEW last \in Nat, NEW starts \in SUBSET (1 .. last)
    PROVE  InOneChapter(Chapters(starts, last), last)
<1> DEFINE I == starts \union {1}
           N == Cardinality(I)
           begin == Ascending(I)
           chapters == Chapters(starts, last)
<1> SUFFICES ASSUME NEW p \in 1 .. last
             PROVE  \E i \in DOMAIN chapters :
                      /\ p \in chapters[i].from .. chapters[i].to
                      /\ \A j \in DOMAIN chapters :
                           p \in chapters[j].from .. chapters[j].to => j = i
  BY DEF InOneChapter
<1>1. I \in SUBSET (1 .. last) /\ 1 \in I
  OBVIOUS
<1>2. /\ N \in Nat /\ begin \in [1 .. N -> I]
      /\ \A x \in I : \E n \in 1 .. N : begin[n] = x
      /\ \A i, j \in 1 .. N : i < j => begin[i] < begin[j]
  <2> HIDE DEF I
  <2> QED
    BY <1>1, AscendingIs
<1>3. \A n \in 1 .. N : begin[n] \in 1 .. last
  BY <1>1, <1>2
<1>4. Len(begin) = N /\ DOMAIN begin = 1 .. N
  <2> HIDE DEF I, N, begin
  <2> QED
    BY <1>2, FunctionIsSeq
<1>5. /\ DOMAIN chapters = 1 .. N
      /\ \A i \in 1 .. N :
           /\ chapters[i].from = begin[i]
           /\ chapters[i].to = IF i = N THEN last ELSE begin[i + 1] - 1
  BY <1>4 DEF Chapters, Between
<1> HIDE DEF I, N, begin, chapters
<1>6. 1 \in 1 .. N /\ begin[1] = 1
  <2>1. PICK n \in 1 .. N : begin[n] = 1
    BY <1>1, <1>2
  <2>2. 1 \in 1 .. N /\ begin[1] \in 1 .. last
    BY <1>2, <1>3, <2>1
  <2>3. n = 1
    BY <1>2, <2>1, <2>2
  <2> QED
    BY <2>1, <2>2, <2>3
<1> DEFINE K == {i \in 0 .. N : i /= 0 /\ begin[i] <= p}
           m == Max(K)
<1>7. m \in K /\ \A i \in K : i <= m
  <2>1. K \in SUBSET (0 .. N)
    OBVIOUS
  <2>2. 1 \in K
    BY <1>2, <1>6
  <2> HIDE DEF K
  <2> QED
    BY <1>2, <2>1, <2>2, MaxIsGreatest
<1>8. m \in 1 .. N /\ begin[m] <= p
  BY <1>2, <1>7
<1>9. m /= N => m + 1 \in 1 .. N /\ p < begin[m + 1]
  <2> HIDE DEF m
  <2>1. m /= N => m + 1 \in 1 .. N
    BY <1>2, <1>8
  <2>2. m + 1 \notin K
    BY <1>2, <1>7, <1>8
  <2> QED
    BY <1>2, <1>3, <2>1, <2>2
<1>10. p \in chapters[m].from .. chapters[m].to
  <2> HIDE DEF m
  <2>1. begin[m] \in Int
    BY <1>3, <1>8
  <2>2. CASE m = N
    BY <1>5, <1>8, <2>1, <2>2
  <2>3. CASE m /= N
    <3>1. begin[m + 1] \in Int
      BY <1>3, <1>9, <2>3
    <3> QED
      BY <1>5, <1>8, <1>9, <2>1, <2>3, <3>1
  <2> QED
    BY <2>2, <2>3
<1>11. ASSUME NEW j \in 1 .. N, p \in chapters[j].from .. chapters[j].to
       PROVE  j = m
  <2>1. begin[j] \in Int /\ begin[m] \in Int
    BY <1>3, <1>8
  <2>2. begin[j] <= p
    <3>1. chapters[j].from = begin[j] /\ chapters[j].to \in Int
      <4>1. j /= N => j + 1 \in 1 .. N
        BY <1>2
      <4>2. j /= N => begin[j + 1] \in Int
        BY <1>3, <4>1
      <4> QED
        BY <1>5, <4>2
    <3> QED
      BY <1>11, <2>1, <3>1
  <2>3. j <= m
    BY <1>7, <2>2
  <2> HIDE DEF m
  <2>4. SUFFICES ASSUME j < m PROVE FALSE
    BY <1>8, <2>3
  <2>5. j + 1 \in 1 .. N /\ j /= N
    BY <1>2, <1>8, <2>4
  <2>6. begin[j + 1] \in Int /\ p <= begin[j + 1] - 1
    BY <1>3, <1>5, <1>11, <2>1, <2>5
  <2>7. begin[j + 1] <= begin[m]
    <3>1. j + 1 = m \/ j + 1 < m
      BY <1>8, <2>4
    <3>2. CASE j + 1 = m
      BY <2>1, <3>2
    <3>3. CASE j + 1 < m
      <4>1. begin[j + 1] < begin[m]
        BY <1>2, <1>8, <2>5, <3>3
      <4> QED
        BY <2>1, <2>6, <4>1
    <3> QED
      BY <3>1, <3>2, <3>3
  <2> QED
    BY <1>8, <2>1, <2>6, <2>7
<1> QED
  BY <1>5, <1>8, <1>10, <1>11

\* The chapters a book gets, from its bookmarks or from its headings, hold each
\* of its pages once, whatever its bookmarks say and its lines look like: no
\* exercise has a page that no chapter shows (sections.py).
THEOREM PagesHaveTheirChapter ==
    ASSUME NEW document, NEW P, document.pages \in Seq(P)
    PROVE  InOneChapter(SectionsOf(document), Len(document.pages))
<1> DEFINE last == Len(document.pages)
<1>1. last \in Nat /\ DOMAIN document.pages = 1 .. last
  OBVIOUS
<1>2. OutlinePages(document.outline, last) \in SUBSET (1 .. last)
  BY DEF OutlinePages
<1>3. HeadingPages(document.pages) \in SUBSET (1 .. last)
  BY <1>1 DEF HeadingPages
<1> HIDE DEF last
<1>4. /\ InOneChapter(Chapters(OutlinePages(document.outline, last), last), last)
      /\ InOneChapter(Chapters(HeadingPages(document.pages), last), last)
  BY <1>1, <1>2, <1>3, ChaptersShareNoPage
<1>5. DetectSections(document.pages) = Chapters(HeadingPages(document.pages), last)
  BY DEF DetectSections, last
<1>6. SectionsOf(document) \in
        {Chapters(OutlinePages(document.outline, last), last),
         Chapters(HeadingPages(document.pages), last)}
  BY <1>5 DEF SectionsOf, SectionsFromOutline, last
<1> QED
  BY <1>4, <1>6 DEF last

-----------------------------------------------------------------------------
(* A book and its coded exercises                                          *)

Region(L) == [label : L, parts : Seq(Nat) \ {<<>>}]
Reading(L) == [regions : Seq(Region(L)), pending : Seq(Region(L))]

\* What a page makes of the exercise left open, and what begins on it.
Carried(st, p, page) ==
    IF st.pending = <<>> \/ ~page.above THEN st.pending
    ELSE <<[st.pending[1] EXCEPT !.parts = Append(@, p)]>>
Own(p, page) ==
    [i \in DOMAIN page.coded |-> [label |-> page.coded[i], parts |-> <<p>>]]
Carries(st, p, page) ==
    Carried(st, p, page) /= <<>> /\ page.coded = <<>> /\ page.continues

All(st) == st.regions \o st.pending

LEMMA OwnIs ==
    ASSUME NEW L, NEW p \in Nat, NEW page, page.coded \in Seq(L)
    PROVE  /\ Own(p, page) \in Seq(Region(L))
           /\ Len(Own(p, page)) = Len(page.coded)
           /\ \A i \in 1 .. Len(page.coded) :
                Own(p, page)[i] = [label |-> page.coded[i], parts |-> <<p>>]
<1>1. DOMAIN page.coded = 1 .. Len(page.coded) /\ Len(page.coded) \in Nat
  OBVIOUS
<1>2. <<p>> \in Seq(Nat) \ {<<>>}
  OBVIOUS
<1>3. \A i \in 1 .. Len(page.coded) :
        [label |-> page.coded[i], parts |-> <<p>>] \in Region(L)
  BY <1>2 DEF Region
<1> DEFINE own == [i \in 1 .. Len(page.coded) |-> [label |-> page.coded[i], parts |-> <<p>>]]
<1>4. own \in [1 .. Len(page.coded) -> Region(L)]
  BY <1>3
<1>5. Own(p, page) = own
  BY <1>1 DEF Own
<1> HIDE DEF own
<1>6. own \in Seq(Region(L)) /\ Len(own) = Len(page.coded)
  BY <1>1, <1>4, FunctionIsSeq
<1> QED
  BY <1>5, <1>6 DEF own

LEMMA CarriedIs ==
    ASSUME NEW L, NEW p \in Nat, NEW page, NEW st \in Reading(L), Len(st.pending) <= 1
    PROVE  /\ Carried(st, p, page) \in Seq(Region(L))
           /\ Len(Carried(st, p, page)) = Len(st.pending)
           /\ st.pending /= <<>> =>
                Carried(st, p, page)[1] \in
                  {st.pending[1], [st.pending[1] EXCEPT !.parts = Append(@, p)]}
<1>1. st.pending \in Seq(Region(L))
  BY DEF Reading
<1>2. CASE st.pending = <<>>
  BY <1>1, <1>2 DEF Carried
<1>3. CASE st.pending /= <<>>
  <2> DEFINE longer == [st.pending[1] EXCEPT !.parts = Append(@, p)]
  <2>0. Len(st.pending) \in Nat /\ Len(st.pending) /= 0 /\ Len(st.pending) <= 1
    BY <1>1, <1>3
  <2>1. Len(st.pending) = 1 /\ st.pending[1] \in Region(L)
    <3> DEFINE k == Len(st.pending)
    <3>1. k \in Nat /\ k /= 0 /\ k <= 1
      BY <2>0
    <3>2. k = 1
      <4> HIDE DEF k
      <4> QED
        BY <3>1
    <3> QED
      BY <1>1, <3>2
  <2>2. longer \in Region(L)
    <3>1. st.pending[1].parts \in Seq(Nat)
      BY <2>1 DEF Region
    <3>2. Append(st.pending[1].parts, p) \in Seq(Nat) \ {<<>>}
      BY <3>1
    <3> QED
      BY <2>1, <3>2 DEF Region
  <2>3. Carried(st, p, page) = IF ~page.above THEN st.pending ELSE <<longer>>
    BY <1>3 DEF Carried
  <2> HIDE DEF longer
  <2>4. <<longer>> \in Seq(Region(L)) /\ Len(<<longer>>) = 1 /\ <<longer>>[1] = longer
    BY <2>2
  <2>5. Carried(st, p, page) \in {st.pending, <<longer>>}
    BY <2>3
  <2> QED
    BY <1>1, <2>1, <2>4, <2>5 DEF longer
<1> QED
  BY <1>2, <1>3

\* A page closes what is open and adds its own, or carries it on.
LEMMA OnPageIs ==
    ASSUME NEW L, NEW p \in Nat, NEW page, page.coded \in Seq(L),
           NEW st \in Reading(L), Len(st.pending) <= 1
    PROVE  LET then == OnPage(st, p, page)
               carried == Carried(st, p, page)
               own == Own(p, page)
           IN  /\ then \in Reading(L) /\ Len(then.pending) <= 1
               /\ All(then) = (st.regions \o carried) \o own
               /\ Carries(st, p, page) => then.pending = carried /\ own = <<>>
               /\ ~Carries(st, p, page) /\ then.pending /= <<>> =>
                    own /= <<>> /\ then.pending[1] = own[Len(own)]
<1> DEFINE carried == Carried(st, p, page)
           own == Own(p, page)
           closed == IF page.continues /\ own /= <<>> THEN Len(own) - 1 ELSE Len(own)
           then == OnPage(st, p, page)
<1>1. /\ then = IF Carries(st, p, page) THEN [st EXCEPT !.pending = carried]
                ELSE [regions |-> st.regions \o carried \o SubSeq(own, 1, closed),
                      pending |-> SubSeq(own, closed + 1, Len(own))]
  BY DEF OnPage, Carried, Own, Carries
<1>2. /\ st \in [regions : Seq(Region(L)), pending : Seq(Region(L))]
      /\ st.regions \in Seq(Region(L)) /\ st.pending \in Seq(Region(L))
  BY DEF Reading
<1>3. own \in Seq(Region(L)) /\ Len(own) = Len(page.coded)
  BY OwnIs
<1>4. carried \in Seq(Region(L)) /\ Len(carried) = Len(st.pending)
  BY CarriedIs
<1> DEFINE R == Region(L)
<1> HIDE DEF own, carried, then, R
<1>5. CASE Carries(st, p, page)
  <2>1. then.regions = st.regions /\ then.pending = carried /\ then \in Reading(L)
    BY <1>1, <1>2, <1>4, <1>5 DEF Reading
  <2>2. own = <<>>
    <3>1. Len(own) = 0
      BY <1>3, <1>5 DEF Carries
    <3> QED
      BY <1>3, <3>1
  <2>3. All(then) = (st.regions \o carried) \o own
    BY <1>2, <1>4, <2>1, <2>2 DEF All
  <2> QED
    BY <1>4, <1>5, <2>1, <2>2, <2>3 DEF own, carried, then
<1>6. CASE ~Carries(st, p, page)
  <2> DEFINE base == st.regions \o carried
             head == SubSeq(own, 1, closed)
             tail == SubSeq(own, closed + 1, Len(own))
  <2>1. base \in Seq(R)
    BY <1>2, <1>4 DEF R
  <2>2. own \in Seq(R) /\ Len(own) \in Nat
    BY <1>3 DEF R
  <2>3. closed \in 0 .. Len(own) /\ Len(own) - closed <= 1
    BY <2>2
  <2> HIDE DEF closed
  <2>4. head \in Seq(R) /\ tail \in Seq(R) /\ Len(head) = closed
        /\ Len(tail) = Len(own) - closed
    BY <2>2, <2>3
  <2>5. head \o tail = own
    <3>1. head \o tail \in Seq(R) /\ Len(head \o tail) = Len(own)
      <4> HIDE DEF head, tail
      <4> QED
        BY <2>2, <2>3, <2>4
    <3>2. ASSUME NEW n \in 1 .. Len(own) PROVE (head \o tail)[n] = own[n]
      <4>1. CASE n <= closed
        <5>1. n \in 1 .. Len(head) /\ head[n] = own[n]
          BY <2>2, <2>3, <2>4, <4>1
        <5> HIDE DEF head, tail
        <5> QED
          BY <2>4, <5>1
      <4>2. CASE closed < n
        <5>1. n - closed \in 1 .. Len(tail) /\ tail[n - closed] = own[n]
          BY <2>2, <2>3, <2>4, <4>2
        <5>2. (head \o tail)[n] = tail[n - closed]
          <6> HIDE DEF head, tail
          <6> QED
            BY <2>3, <2>4, <4>2, <5>1
        <5> QED
          BY <5>1, <5>2
      <4>3. n <= closed \/ closed < n
        BY <2>2, <2>3
      <4> HIDE DEF head, tail
      <4> QED
        BY <4>1, <4>2, <4>3
    <3> HIDE DEF head, tail
    <3> QED
      BY <2>2, <3>1, <3>2, SeqEqual
  <2>6. then.regions = base \o head /\ then.pending = tail
    BY <1>1, <1>6
  <2>7. tail /= <<>> => own /= <<>> /\ tail[1] = own[Len(own)]
    BY <2>2, <2>3, <2>4
  <2> HIDE DEF head, tail, base
  <2>8. then \in Reading(L)
    <3>1. base \o head \in Seq(R)
      BY <2>1, <2>4
    <3> QED
      BY <1>1, <1>6, <2>4, <3>1 DEF Reading, R, base, head, tail
  <2>9. All(then) = base \o own
    <3>1. (base \o head) \o tail = base \o (head \o tail)
      BY <2>1, <2>4
    <3> QED
      BY <2>5, <2>6, <3>1 DEF All
  <2> QED
    BY <1>6, <2>3, <2>4, <2>6, <2>7, <2>8, <2>9 DEF own, carried, then, base
<1> QED
  BY <1>5, <1>6

\* Reading page after page yields what OnPage makes of each.
LEMMA ReadIs ==
    ASSUME NEW L, NEW P, NEW pages \in Seq(P),
           \A p \in DOMAIN pages : pages[p].coded \in Seq(L)
    PROVE  LET read == ReadUpTo(pages)
           IN  /\ \A p \in 0 .. Len(pages) :
                    read[p] \in Reading(L) /\ Len(read[p].pending) <= 1
               /\ read[0] = [regions |-> <<>>, pending |-> <<>>]
               /\ \A p \in 1 .. Len(pages) :
                    read[p] = OnPage(read[p - 1], p, pages[p])
<1> DEFINE N == Len(pages)
           S == {st \in Reading(L) : Len(st.pending) <= 1}
           start == [regions |-> <<>>, pending |-> <<>>]
           step(st, p) == OnPage(st, p, pages[p])
           Reads(f, n) == /\ f \in [0 .. n -> S] /\ f[0] = start
                          /\ \A m \in 1 .. n : f[m] = step(f[m - 1], m)
           Bad == {n \in 0 .. N : ~ \E f \in [0 .. n -> S] : Reads(f, n)}
<1>1. N \in Nat /\ DOMAIN pages = 1 .. N
  OBVIOUS
<1>2. start \in S
  BY DEF Reading
<1>3. \A p \in 1 .. N : \A st \in S : step(st, p) \in S
  <2> SUFFICES ASSUME NEW p \in 1 .. N, NEW st \in S PROVE step(st, p) \in S
    OBVIOUS
  <2>1. p \in Nat /\ pages[p].coded \in Seq(L)
    BY <1>1
  <2>2. step(st, p) \in Reading(L) /\ Len(step(st, p).pending) <= 1
    BY <2>1, OnPageIs
  <2> QED
    BY <2>2
<1> HIDE DEF S, start, step, N
<1>4. Bad = {}
  <2> SUFFICES ASSUME Bad /= {} PROVE FALSE
    OBVIOUS
  <2>0. Bad \in SUBSET Nat
    BY <1>1
  <2>1. PICK n \in Bad : \A m \in Bad : n <= m
    <3> HIDE DEF Bad
    <3> QED
      BY <2>0, Least
  <2>2. n \in 0 .. N /\ ~ \E f \in [0 .. n -> S] : Reads(f, n)
    OBVIOUS
  <2>3. n /= 0
    <3> DEFINE g == [m \in 0 .. 0 |-> start]
    <3>1. g \in [0 .. 0 -> S] /\ Reads(g, 0)
      BY <1>2
    <3> HIDE DEF Reads
    <3> QED
      BY <2>2, <3>1
  <2>4. n - 1 \in 0 .. N /\ n - 1 \notin Bad
    <3>1. n - 1 \in 0 .. N /\ ~ (n <= n - 1)
      BY <1>1, <2>2, <2>3
    <3> HIDE DEF Bad
    <3> QED
      BY <2>1, <3>1
  <2>5. PICK f \in [0 .. n - 1 -> S] : Reads(f, n - 1)
    BY <2>4
  <2> DEFINE g == [m \in 0 .. n |-> IF m = n THEN step(f[n - 1], n) ELSE f[m]]
  <2>6. n \in Nat \ {0} /\ n \in 1 .. N
    BY <1>1, <2>2, <2>3
  <2>7. g \in [0 .. n -> S]
    <3>1. n - 1 \in 0 .. n - 1
      BY <2>6
    <3>2. step(f[n - 1], n) \in S
      BY <1>3, <2>6, <3>1
    <3> QED
      BY <2>6, <3>2
  <2>8. Reads(g, n)
    <3>1. g[0] = start
      BY <2>5, <2>6
    <3>2. ASSUME NEW m \in 1 .. n PROVE g[m] = step(g[m - 1], m)
      <4>1. m - 1 \in 0 .. n /\ m - 1 /= n /\ m \in 0 .. n
        BY <2>6
      <4>2. g[m - 1] = f[m - 1]
        BY <4>1
      <4>3. CASE m = n
        BY <4>1, <4>2, <4>3
      <4>4. CASE m /= n
        <5>1. m \in 1 .. n - 1 /\ g[m] = f[m]
          BY <4>1, <4>4, <2>6
        <5> QED
          BY <4>2, <5>1, <2>5
      <4> QED
        BY <4>3, <4>4
    <3> QED
      BY <2>7, <3>1, <3>2
  <2> HIDE DEF g, Reads
  <2> QED
    BY <2>2, <2>7, <2>8
<1> DEFINE body(f) == [p \in 0 .. N |-> IF p = 0 THEN start ELSE step(f[p - 1], p)]
<1>5. N \in 0 .. N /\ N \notin Bad
  BY <1>1, <1>4
<1>6. PICK f \in [0 .. N -> S] : Reads(f, N)
  BY <1>5
<1>7. f = body(f)
  <2>1. \A p \in 0 .. N : p /= 0 => p \in 1 .. N
    BY <1>1
  <2> QED
    BY <1>6, <2>1
<1> DEFINE read == CHOOSE g : g = body(g)
<1>8. read = body(read)
  <2> HIDE DEF body
  <2> QED
    BY <1>7
<1>9. ReadUpTo(pages) = read
  BY DEF ReadUpTo, N, start, step
<1> HIDE DEF read
<1>10. \A n \in 0 .. N : read[n] = f[n]
  <2> DEFINE Off == {n \in 0 .. N : read[n] /= f[n]}
  <2> SUFFICES ASSUME Off /= {} PROVE FALSE
    OBVIOUS
  <2>0. Off \in SUBSET Nat
    BY <1>1
  <2>1. PICK n \in Off : \A m \in Off : n <= m
    <3> HIDE DEF Off
    <3> QED
      BY <2>0, Least
  <2>2. CASE n = 0
    BY <1>6, <1>8, <2>2
  <2>3. CASE n /= 0
    <3>1. n - 1 \in 0 .. N /\ n - 1 \notin Off /\ n \in 1 .. N
      BY <1>1, <2>1, <2>3
    <3>2. read[n] = step(read[n - 1], n)
      BY <1>8, <2>3
    <3> QED
      BY <1>6, <2>3, <3>1, <3>2
  <2> QED
    BY <2>2, <2>3
<1>11. read = f
  BY <1>6, <1>8, <1>10
<1>12. \A p \in 0 .. N : f[p] \in Reading(L) /\ Len(f[p].pending) <= 1
  BY <1>6 DEF S
<1> QED
  BY <1>6, <1>9, <1>11, <1>12 DEF N, start, step

\* The headers up to a page are those up to the page before and its own.
LEMMA HeadersAre ==
    ASSUME NEW L, NEW P, NEW pages \in Seq(P),
           \A p \in DOMAIN pages : pages[p].coded \in Seq(L)
    PROVE  LET upTo == HeadersUpTo(pages)
           IN  /\ \A p \in 0 .. Len(pages) : upTo[p] \in Nat
               /\ upTo[0] = 0
               /\ \A p \in 1 .. Len(pages) :
                    upTo[p] = upTo[p - 1] + Len(pages[p].coded)
<1> DEFINE headers == [p \in DOMAIN pages |-> Len(pages[p].coded)]
<1>1. Len(pages) \in Nat /\ DOMAIN pages = 1 .. Len(pages)
  OBVIOUS
<1>2. \A p \in DOMAIN pages : Len(pages[p].coded) \in Nat
  OBVIOUS
<1>3. headers \in Seq(Nat) /\ Len(headers) = Len(pages)
  BY <1>1, <1>2
<1>4. \A p \in 1 .. Len(pages) : headers[p] = Len(pages[p].coded)
  BY <1>1
<1> HIDE DEF headers
<1>5. HeadersUpTo(pages) = Together(headers)
  BY DEF HeadersUpTo, Together, headers
<1> QED
  BY <1>3, <1>4, <1>5, TogetherIsSum

EndsBy(region, p) == \A n \in DOMAIN region.parts : region.parts[n] <= p
IsBlank(pages, from, to) ==
    \A q \in from .. to : pages[q].coded = <<>> /\ pages[q].continues

\* What is true of the pages read so far: a region for each header on them,
\* and none but blank pages after the one the open exercise is filed under.
IsReadTo(st, pages, p) ==
    LET upTo == HeadersUpTo(pages)
    IN  /\ Len(All(st)) = upTo[p]
        /\ \A q \in 1 .. p : upTo[q] <= upTo[p]
        /\ \A q \in 1 .. p : \A i \in DOMAIN pages[q].coded :
             /\ RegionOf(All(st)[upTo[q - 1] + i], pages, q, i)
             /\ EndsBy(All(st)[upTo[q - 1] + i], p)
        /\ st.pending /= <<>> => IsBlank(pages, PageOf(st.pending[1]) + 1, p)

\* An open exercise may take in the page that follows.
LEMMA RegionGoesOn ==
    ASSUME NEW L, NEW r \in Region(L), NEW pages, NEW q, NEW i, NEW p \in Nat \ {0},
           p \in DOMAIN pages, RegionOf(r, pages, q, i), EndsBy(r, p - 1),
           IsBlank(pages, q + 1, p - 1)
    PROVE  LET longer == [r EXCEPT !.parts = Append(@, p)]
           IN  RegionOf(longer, pages, q, i) /\ EndsBy(longer, p)
<1> DEFINE longer == [r EXCEPT !.parts = Append(@, p)]
           parts == r.parts
           more == Append(parts, p)
<1>1. parts \in Seq(Nat) /\ parts /= <<>> /\ longer.label = r.label /\ longer.parts = more
  BY DEF Region
<1> HIDE DEF longer, parts
<1>2. /\ more \in Seq(Nat) /\ Len(parts) \in Nat /\ Len(more) = Len(parts) + 1
      /\ Len(parts) >= 1
      /\ \A n \in 1 .. Len(parts) : more[n] = parts[n] /\ parts[n] \in Nat
      /\ more[Len(parts) + 1] = p
      /\ DOMAIN parts = 1 .. Len(parts) /\ DOMAIN more = 1 .. Len(parts) + 1
  BY <1>1
<1> HIDE DEF more
<1>3. \A n \in 1 .. Len(parts) : parts[n] <= p - 1
  BY <1>2 DEF EndsBy, parts
<1>4. EndsBy(longer, p)
  <2>1. \A n \in 1 .. Len(parts) + 1 : more[n] <= p
    <3> SUFFICES ASSUME NEW n \in 1 .. Len(parts) + 1 PROVE more[n] <= p
      OBVIOUS
    <3>1. CASE n = Len(parts) + 1
      BY <1>2, <3>1
    <3>2. CASE n /= Len(parts) + 1
      <4>1. n \in 1 .. Len(parts)
        BY <1>2, <3>2
      <4> QED
        BY <1>2, <1>3, <4>1
    <3> QED
      BY <3>1, <3>2
  <2> QED
    BY <1>1, <1>2, <2>1 DEF EndsBy
<1>5. longer.label = pages[q].coded[i] /\ PageOf(longer) = q
  <2>1. r.label = pages[q].coded[i] /\ parts[1] = q
    BY DEF RegionOf, PageOf, parts
  <2>2. 1 \in 1 .. Len(parts)
    BY <1>2
  <2> QED
    BY <1>1, <1>2, <2>1, <2>2 DEF PageOf
<1>6. ASSUME NEW n \in 2 .. Len(more)
      PROVE  /\ more[n - 1] < more[n] /\ more[n] \in DOMAIN pages
             /\ IsBlank(pages, q + 1, more[n] - 1)
  <2>1. CASE n = Len(parts) + 1
    <3>1. n - 1 \in 1 .. Len(parts) /\ more[n] = p
      BY <1>2, <2>1
    <3>2. more[n - 1] <= p - 1 /\ more[n - 1] \in Nat
      BY <1>2, <1>3, <3>1
    <3> QED
      BY <3>1, <3>2
  <2>2. CASE n /= Len(parts) + 1
    <3>1. n \in 2 .. Len(parts) /\ n \in 1 .. Len(parts) /\ n - 1 \in 1 .. Len(parts)
      BY <1>2, <2>2
    <3>2. parts[n - 1] < parts[n] /\ parts[n] \in DOMAIN pages
          /\ IsBlank(pages, q + 1, parts[n] - 1)
      BY <3>1 DEF RegionOf, IsBlank, parts
    <3> QED
      BY <1>2, <3>1, <3>2
  <2> QED
    BY <2>1, <2>2
<1>7. RegionOf(longer, pages, q, i)
  BY <1>1, <1>5, <1>6 DEF RegionOf, IsBlank
<1> QED
  BY <1>4, <1>7 DEF longer, more, parts

LEMMA Joined ==
    ASSUME NEW V, NEW s \in Seq(V), NEW t \in Seq(V)
    PROVE  /\ s \o t \in Seq(V) /\ Len(s \o t) = Len(s) + Len(t)
           /\ Len(s) \in Nat /\ Len(t) \in Nat
           /\ \A n \in 1 .. Len(s) : (s \o t)[n] = s[n]
           /\ \A n \in 1 .. Len(t) : (s \o t)[Len(s) + n] = t[n]
  OBVIOUS

\* Each page keeps it so.
LEMMA PageIsRead ==
    ASSUME NEW L, NEW P, NEW pages \in Seq(P),
           \A p \in DOMAIN pages : pages[p].coded \in Seq(L),
           NEW p \in 1 .. Len(pages), NEW st \in Reading(L), Len(st.pending) <= 1,
           IsReadTo(st, pages, p - 1)
    PROVE  IsReadTo(OnPage(st, p, pages[p]), pages, p)
<1> DEFINE upTo == HeadersUpTo(pages)
           page == pages[p]
           then == OnPage(st, p, page)
           carried == Carried(st, p, page)
           own == Own(p, page)
           base == st.regions \o carried
           before == upTo[p - 1]
<1>1. /\ p \in Nat \ {0} /\ p - 1 \in Nat /\ page.coded \in Seq(L)
      /\ p \in DOMAIN pages /\ Len(pages) \in Nat /\ DOMAIN pages = 1 .. Len(pages)
      /\ Len(page.coded) \in Nat /\ DOMAIN page.coded = 1 .. Len(page.coded)
  <2>1. DOMAIN pages = 1 .. Len(pages) /\ Len(pages) \in Nat
    OBVIOUS
  <2>2. page.coded \in Seq(L)
    BY <2>1
  <2> QED
    BY <2>1, <2>2
<1>2. /\ \A q \in 0 .. Len(pages) : upTo[q] \in Nat
      /\ upTo[0] = 0
      /\ \A q \in 1 .. Len(pages) : upTo[q] = upTo[q - 1] + Len(pages[q].coded)
  BY HeadersAre
<1>3. /\ before \in Nat /\ upTo[p] = before + Len(page.coded)
  <2>1. p - 1 \in 0 .. Len(pages)
    BY <1>1
  <2> QED
    BY <1>2, <2>1
<1>4. /\ then \in Reading(L) /\ Len(then.pending) <= 1
      /\ All(then) = base \o own
      /\ Carries(st, p, page) => then.pending = carried /\ own = <<>>
      /\ ~Carries(st, p, page) /\ then.pending /= <<>> =>
           own /= <<>> /\ then.pending[1] = own[Len(own)]
  BY <1>1, OnPageIs
<1>5. /\ own \in Seq(Region(L)) /\ Len(own) = Len(page.coded)
      /\ \A i \in 1 .. Len(page.coded) :
           own[i] = [label |-> page.coded[i], parts |-> <<p>>]
  BY <1>1, OwnIs
<1>6. /\ carried \in Seq(Region(L)) /\ Len(carried) = Len(st.pending)
      /\ st.pending /= <<>> =>
           carried[1] \in {st.pending[1], [st.pending[1] EXCEPT !.parts = Append(@, p)]}
  BY <1>1, CarriedIs
<1>7. st.regions \in Seq(Region(L)) /\ st.pending \in Seq(Region(L))
  BY DEF Reading
<1>8. /\ Len(All(st)) = before
      /\ \A q \in 1 .. p - 1 : upTo[q] <= before
      /\ \A q \in 1 .. p - 1 : \A i \in DOMAIN pages[q].coded :
           /\ RegionOf(All(st)[upTo[q - 1] + i], pages, q, i)
           /\ EndsBy(All(st)[upTo[q - 1] + i], p - 1)
      /\ st.pending /= <<>> => IsBlank(pages, PageOf(st.pending[1]) + 1, p - 1)
  BY DEF IsReadTo
<1> DEFINE R == Region(L)
           regions == st.regions
           pending == st.pending
           k == Len(pending)
           l == Len(regions)
<1>9. k \in Nat /\ k <= 1 /\ l \in Nat /\ before = l + k
  <2>1. Len(All(st)) = l + k /\ l \in Nat /\ k \in Nat
    BY <1>7, Joined DEF All
  <2> QED
    BY <1>8, <2>1
<1>10. /\ \A n \in 1 .. l : All(st)[n] = regions[n]
       /\ k = 1 => All(st)[before] = pending[1]
  <2>1. /\ \A n \in 1 .. l : All(st)[n] = regions[n]
        /\ \A n \in 1 .. k : All(st)[l + n] = pending[n]
    <3>1. regions \in Seq(R) /\ pending \in Seq(R)
      BY <1>7
    <3> HIDE DEF R, regions, pending
    <3>2. /\ \A n \in 1 .. l : (regions \o pending)[n] = regions[n]
          /\ \A n \in 1 .. k : (regions \o pending)[l + n] = pending[n]
      BY <3>1, Joined
    <3> QED
      BY <3>2 DEF All, regions, pending
  <2> HIDE DEF l, k, regions, pending
  <2>2. k = 1 => 1 \in 1 .. k
    OBVIOUS
  <2> QED
    BY <1>9, <2>1, <2>2
<1> HIDE DEF l, upTo, page, then, carried, own, R, regions, pending, k, before
<1>11. base \in Seq(R) /\ Len(base) = before
  <2>1. base \in Seq(R) /\ Len(base) = Len(st.regions) + Len(carried)
    <3>1. st.regions \in Seq(R) /\ carried \in Seq(R)
      BY <1>6, <1>7 DEF R
    <3> QED
      BY <3>1, Joined
  <2>2. Len(base) = l + k
    BY <1>6, <2>1 DEF l, regions, pending, k
  <2> QED
    BY <1>9, <2>1, <2>2
<1>12. /\ \A n \in 1 .. l : base[n] = regions[n]
       /\ k = 1 => base[before] = carried[1]
  <2>1. /\ \A n \in 1 .. Len(st.regions) : base[n] = st.regions[n]
        /\ \A n \in 1 .. Len(carried) : base[Len(st.regions) + n] = carried[n]
    <3>1. st.regions \in Seq(R) /\ carried \in Seq(R)
      BY <1>6, <1>7 DEF R
    <3> QED
      BY <3>1, Joined
  <2>2. /\ \A n \in 1 .. l : base[n] = regions[n]
        /\ \A n \in 1 .. k : base[l + n] = carried[n]
    BY <1>6, <2>1 DEF l, regions, pending, k
  <2>3. k = 1 => 1 \in 1 .. k
    OBVIOUS
  <2> QED
    BY <1>9, <2>2, <2>3
<1> HIDE DEF base
<1>13. /\ Len(All(then)) = upTo[p]
       /\ \A n \in 1 .. before : All(then)[n] = base[n]
       /\ \A i \in 1 .. Len(own) : All(then)[before + i] = own[i]
  <2>1. /\ Len(base \o own) = before + Len(own)
        /\ \A n \in 1 .. before : (base \o own)[n] = base[n]
        /\ \A i \in 1 .. Len(own) : (base \o own)[before + i] = own[i]
    <3>1. own \in Seq(R)
      BY <1>5 DEF R
    <3>2. /\ Len(base \o own) = Len(base) + Len(own)
          /\ \A n \in 1 .. Len(base) : (base \o own)[n] = base[n]
          /\ \A i \in 1 .. Len(own) : (base \o own)[Len(base) + i] = own[i]
      <4>1. base \in Seq(R)
        BY <1>11
      <4> QED
        BY <3>1, <4>1, Joined
    <3> QED
      BY <1>11, <3>2
  <2> QED
    BY <1>3, <1>4, <1>5, <2>1
<1>14. \A q \in 1 .. p : upTo[q] <= upTo[p]
  <2> SUFFICES ASSUME NEW q \in 1 .. p PROVE upTo[q] <= upTo[p]
    OBVIOUS
  <2>1. upTo[q] \in Nat /\ upTo[p] \in Nat
    BY <1>1, <1>2
  <2>2. CASE q = p
    BY <2>1, <2>2
  <2>3. CASE q /= p
    <3>1. q \in 1 .. p - 1
      BY <1>1, <2>3
    <3>2. upTo[q] <= before
      BY <1>8, <3>1
    <3> QED
      BY <1>1, <1>3, <2>1, <3>2
  <2> QED
    BY <2>2, <2>3
<1>15. ASSUME NEW q \in 1 .. p - 1, NEW i \in DOMAIN pages[q].coded
       PROVE  /\ RegionOf(All(then)[upTo[q - 1] + i], pages, q, i)
              /\ EndsBy(All(then)[upTo[q - 1] + i], p)
  <2> DEFINE n == upTo[q - 1] + i
             r == All(st)[n]
  <2>1. n \in 1 .. before
    <3>1. q \in 1 .. Len(pages) /\ q - 1 \in 0 .. Len(pages)
      BY <1>1
    <3>2. pages[q].coded \in Seq(L)
      BY <1>1, <3>1
    <3>3. i \in 1 .. Len(pages[q].coded) /\ Len(pages[q].coded) \in Nat
      BY <3>2
    <3>4. upTo[q - 1] \in Nat /\ upTo[q] = upTo[q - 1] + Len(pages[q].coded)
      BY <1>2, <3>1
    <3>5. upTo[q] <= before
      BY <1>8
    <3> QED
      BY <1>3, <3>3, <3>4, <3>5
  <2>2. RegionOf(r, pages, q, i) /\ EndsBy(r, p - 1)
    BY <1>8
  <2> HIDE DEF n
  <2>3. n \in 1 .. l \/ (n = before /\ k = 1)
    BY <1>9, <2>1
  <2>4. r \in R
    <3>1. CASE n \in 1 .. l
      BY <1>7, <1>10, <3>1 DEF R, regions, l
    <3>2. CASE n = before /\ k = 1
      BY <1>7, <1>10, <3>2 DEF R, pending, k
    <3> QED
      BY <2>3, <3>1, <3>2
  <2>5. EndsBy(r, p)
    <3>1. \A m \in DOMAIN r.parts : r.parts[m] \in Nat
      BY <2>4 DEF R, Region
    <3>2. \A m \in DOMAIN r.parts : r.parts[m] <= p
      BY <1>1, <2>2, <3>1 DEF EndsBy
    <3> QED
      BY <3>2 DEF EndsBy
  <2>6. CASE All(then)[n] = r
    BY <2>2, <2>5, <2>6 DEF n
  <2>7. CASE All(then)[n] /= r
    <3>1. n = before /\ k = 1 /\ r = pending[1] /\ All(then)[n] = carried[1]
      BY <1>10, <1>12, <1>13, <2>1, <2>3, <2>7
    <3>2. All(then)[n] = [r EXCEPT !.parts = Append(@, p)]
      <4>1. pending /= <<>>
        BY <1>7, <3>1 DEF k, pending
      <4> QED
        BY <1>6, <2>7, <3>1, <4>1 DEF pending
    <3>3. IsBlank(pages, q + 1, p - 1)
      <4>1. pending /= <<>>
        BY <1>7, <3>1 DEF k, pending
      <4>2. PageOf(r) = q
        BY <2>2 DEF RegionOf
      <4> QED
        BY <1>8, <3>1, <4>1, <4>2 DEF pending
    <3>4. LET longer == [r EXCEPT !.parts = Append(@, p)]
          IN  RegionOf(longer, pages, q, i) /\ EndsBy(longer, p)
      <4> HIDE DEF r
      <4> QED
        BY <1>1, <2>2, <2>4, <3>3, RegionGoesOn DEF R
    <3> QED
      BY <3>2, <3>4 DEF n
  <2> QED
    BY <2>6, <2>7
<1>16. ASSUME NEW i \in DOMAIN page.coded
       PROVE  /\ RegionOf(All(then)[before + i], pages, p, i)
              /\ EndsBy(All(then)[before + i], p)
  <2>1. i \in 1 .. Len(page.coded)
    BY <1>1, <1>16
  <2>2. All(then)[before + i] = [label |-> page.coded[i], parts |-> <<p>>]
    BY <1>5, <1>13, <2>1
  <2> DEFINE r == [label |-> page.coded[i], parts |-> <<p>>]
  <2>3. Len(r.parts) = 1 /\ r.parts[1] = p /\ DOMAIN r.parts = {1}
    OBVIOUS
  <2>4. RegionOf(r, pages, p, i)
    BY <2>3 DEF RegionOf, PageOf, page
  <2>5. EndsBy(r, p)
    BY <1>1, <2>3 DEF EndsBy
  <2> QED
    BY <2>2, <2>4, <2>5
<1>17. then.pending /= <<>> => IsBlank(pages, PageOf(then.pending[1]) + 1, p)
  <2> SUFFICES ASSUME then.pending /= <<>>
               PROVE  IsBlank(pages, PageOf(then.pending[1]) + 1, p)
    OBVIOUS
  <2>1. CASE Carries(st, p, page)
    <3>1. then.pending = carried /\ page.coded = <<>> /\ page.continues
      BY <1>4, <2>1 DEF Carries
    <3>2. pending /= <<>> /\ pending[1] \in R /\ IsBlank(pages, PageOf(pending[1]) + 1, p - 1)
      <4>1. pending /= <<>>
        BY <1>6, <1>7, <3>1 DEF pending
      <4> QED
        BY <1>7, <1>8, <4>1 DEF pending, R
    <3>3. PageOf(carried[1]) = PageOf(pending[1]) /\ PageOf(pending[1]) \in Nat
      <4>1. pending[1].parts \in Seq(Nat) /\ pending[1].parts /= <<>>
        BY <3>2 DEF R, Region
      <4>2. [pending[1] EXCEPT !.parts = Append(@, p)].parts = Append(pending[1].parts, p)
        BY <3>2 DEF R, Region
      <4>3. Append(pending[1].parts, p)[1] = pending[1].parts[1] /\ pending[1].parts[1] \in Nat
        BY <1>1, <4>1
      <4> QED
        BY <1>6, <3>2, <4>2, <4>3 DEF PageOf, pending
    <3>4. \A q \in PageOf(pending[1]) + 1 .. p : q = p \/ q \in PageOf(pending[1]) + 1 .. p - 1
      BY <1>1, <3>3
    <3> QED
      BY <3>1, <3>2, <3>3, <3>4 DEF IsBlank, page
  <2>2. CASE ~Carries(st, p, page)
    <3>1. own /= <<>> /\ then.pending[1] = own[Len(own)]
      BY <1>4, <2>2
    <3>2. Len(own) \in 1 .. Len(page.coded)
      BY <1>1, <1>5, <3>1
    <3>3. then.pending[1].parts = <<p>>
      <4>1. own[Len(own)] = [label |-> page.coded[Len(own)], parts |-> <<p>>]
        BY <1>5, <3>2
      <4> QED
        BY <3>1, <4>1
    <3>4. PageOf(then.pending[1]) = p
      BY <3>3 DEF PageOf
    <3>5. PageOf(then.pending[1]) + 1 .. p = {}
      BY <1>1, <3>4
    <3> QED
      BY <3>5 DEF IsBlank
  <2> QED
    BY <2>1, <2>2
<1>18. \A q \in 1 .. p : \A i \in DOMAIN pages[q].coded :
         /\ RegionOf(All(then)[upTo[q - 1] + i], pages, q, i)
         /\ EndsBy(All(then)[upTo[q - 1] + i], p)
  <2>1. \A q \in 1 .. p : q = p \/ q \in 1 .. p - 1
    BY <1>1
  <2> QED
    BY <1>15, <1>16, <2>1 DEF page, before
<1> QED
  BY <1>13, <1>14, <1>17, <1>18 DEF IsReadTo, upTo, then, page

\* Every coded header of a book is one exercise, in the order of the book; it
\* is filed under the page the header is on, and goes on over later pages only
\* as far as no other begins: no two are glued together and none is lost,
\* whatever the pages carry on and leave blank (detect_exercise_regions).
THEOREM HeadersAreExercises ==
    ASSUME NEW L, NEW P, NEW pages \in Seq(P),
           \A p \in DOMAIN pages : pages[p].coded \in Seq(L)
    PROVE  OnePerHeader(DetectExerciseRegions(pages), pages)
<1> DEFINE N == Len(pages)
           read == ReadUpTo(pages)
           upTo == HeadersUpTo(pages)
           Bad == {p \in 0 .. N : ~ IsReadTo(read[p], pages, p)}
<1>1. N \in Nat /\ DOMAIN pages = 1 .. N
  OBVIOUS
<1>2. /\ \A p \in 0 .. N : read[p] \in Reading(L) /\ Len(read[p].pending) <= 1
      /\ read[0] = [regions |-> <<>>, pending |-> <<>>]
      /\ \A p \in 1 .. N : read[p] = OnPage(read[p - 1], p, pages[p])
  BY ReadIs
<1>3. upTo[0] = 0
  BY HeadersAre
<1> HIDE DEF read
<1>4. IsReadTo(read[0], pages, 0)
  <2>1. read[0].pending = <<>> /\ All(read[0]) = <<>> /\ Len(All(read[0])) = 0
    BY <1>2 DEF All
  <2>2. 1 .. 0 = {}
    OBVIOUS
  <2> QED
    BY <1>3, <2>1, <2>2 DEF IsReadTo
<1>5. Bad = {}
  <2> SUFFICES ASSUME Bad /= {} PROVE FALSE
    OBVIOUS
  <2>1. Bad \in SUBSET Nat
    BY <1>1
  <2>2. PICK p \in Bad : \A q \in Bad : p <= q
    <3> HIDE DEF Bad
    <3> QED
      BY <2>1, Least
  <2>3. p \in 1 .. N /\ p - 1 \in 0 .. N /\ p - 1 \notin Bad
    <3>1. p /= 0 /\ p \in 0 .. N
      BY <1>4
    <3>2. p \in 1 .. N /\ p - 1 \in 0 .. N /\ ~ (p <= p - 1)
      BY <1>1, <3>1
    <3> HIDE DEF Bad
    <3> QED
      BY <2>2, <3>2
  <2>4. IsReadTo(read[p - 1], pages, p - 1)
    BY <2>3
  <2>5. IsReadTo(read[p], pages, p)
    <3>1. read[p - 1] \in Reading(L) /\ Len(read[p - 1].pending) <= 1
      BY <1>2, <2>3
    <3>2. IsReadTo(OnPage(read[p - 1], p, pages[p]), pages, p)
      BY <2>3, <2>4, <3>1, PageIsRead
    <3> QED
      BY <1>2, <2>3, <3>2
  <2> QED
    BY <2>5
<1>6. IsReadTo(read[N], pages, N)
  BY <1>1, <1>5
<1>7. DetectExerciseRegions(pages) = All(read[N])
  BY DEF DetectExerciseRegions, All, read
<1> QED
  BY <1>1, <1>6, <1>7 DEF IsReadTo, OnePerHeader

=============================================================================
