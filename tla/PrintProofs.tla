---------------------------- MODULE PrintProofs ----------------------------
(***************************************************************************)
(* What is printed, for any exercises, lists and pupils: the pages of a    *)
(* copy hold its list, and no two misread cells turn the code of a page    *)
(* into another.                                                           *)
(***************************************************************************)
EXTENDS Paper, FiniteSetTheorems, SequenceTheorems, WellFoundedInduction, TLAPS

-----------------------------------------------------------------------------
(* Recursion and induction up to a bound                                   *)

\* What is numbered has a first.
LEMMA First ==
    ASSUME NEW S \in SUBSET Nat, S # {}
    PROVE  \E m \in S : \A n \in S : m <= n
<1> DEFINE Below == {pair \in Nat \X Nat : pair[1] < pair[2]}
<1>1. IsWellFoundedOn(Below, Nat)
  BY NatLessThanWellFounded DEF OpToRel
<1>2. PICK m \in S : \A n \in S : ~ (<<n, m>> \in Below)
  <2> HIDE DEF Below
  <2> QED
    BY <1>1, S \subseteq Nat, S # {}, WFMin
<1>3. \A n \in S : m <= n
  <2> SUFFICES ASSUME NEW n \in S, n < m PROVE FALSE
    OBVIOUS
  <2>1. <<n, m>> \in Below
    OBVIOUS
  <2> QED
    BY <1>2, <2>1
<1> QED
  BY <1>3

\* What holds of zero and of each number after one of which it holds.
LEMMA Induction ==
    ASSUME NEW N \in Nat, NEW S, 0 \in S,
           \A n \in 1 .. N : n - 1 \in S => n \in S
    PROVE  \A n \in 0 .. N : n \in S
<1> DEFINE Out == {n \in 0 .. N : n \notin S}
<1> SUFFICES ASSUME Out # {} PROVE FALSE
  OBVIOUS
<1>1. Out \in SUBSET Nat
  OBVIOUS
<1>2. PICK n \in Out : \A m \in Out : n <= m
  <2> HIDE DEF Out
  <2> QED
    BY <1>1, First
<1>3. n \in 1 .. N /\ n - 1 \in 0 .. N
  OBVIOUS
<1>4. n - 1 \notin Out
  BY <1>2, <1>3
<1> QED
  BY <1>3, <1>4

\* A recursion over 1 .. N that stays in a set has a solution.
Steps(N, S) == [1 .. N -> [S -> S]]
Recurs(f, N, S, start, step) ==
    /\ f \in [0 .. N -> S]
    /\ f[0] = start /\ \A k \in 1 .. N : f[k] = step[k][f[k - 1]]

LEMMA Recursion ==
    ASSUME NEW N \in Nat, NEW S, NEW start \in S, NEW step \in Steps(N, S)
    PROVE  \E f : Recurs(f, N, S, start, step)
<1> DEFINE Solves(f, n) == /\ f[0] = start
                           /\ \A k \in 1 .. n : f[k] = step[k][f[k - 1]]
           Solved == {n \in 0 .. N : \E f \in [0 .. n -> S] : Solves(f, n)}
<1> USE DEF Steps
<1>1. 0 \in Solved
  <2> DEFINE g == [k \in 0 .. 0 |-> start]
  <2>1. g \in [0 .. 0 -> S] /\ Solves(g, 0)
    OBVIOUS
  <2>2. \E f \in [0 .. 0 -> S] : Solves(f, 0)
    BY <2>1
  <2> HIDE DEF Solves
  <2> QED
    BY <2>2
<1>2. ASSUME NEW n \in 1 .. N, n - 1 \in Solved PROVE n \in Solved
  <2>1. PICK f \in [0 .. n - 1 -> S] : Solves(f, n - 1)
    BY <1>2
  <2> DEFINE g == [k \in 0 .. n |-> IF k = n THEN step[n][f[n - 1]] ELSE f[k]]
  <2>2. n - 1 \in 0 .. n - 1 /\ \A k \in 0 .. n : k # n => k \in 0 .. n - 1
    OBVIOUS
  <2>3. step[n][f[n - 1]] \in S
    BY <2>2
  <2>4. g \in [0 .. n -> S]
    BY <2>2, <2>3
  <2>5. g[0] = start
    BY <2>1
  <2>6. ASSUME NEW k \in 1 .. n PROVE g[k] = step[k][g[k - 1]]
    <3>1. k \in 0 .. n /\ k - 1 \in 0 .. n /\ k - 1 # n
      OBVIOUS
    <3>2. g[k - 1] = f[k - 1]
      BY <3>1
    <3>3. CASE k = n
      BY <3>1, <3>2, <3>3
    <3>4. CASE k # n
      <4>1. k \in 1 .. n - 1 /\ g[k] = f[k]
        BY <3>1, <3>4
      <4> QED
        BY <2>1, <3>2, <4>1
    <3> QED
      BY <3>3, <3>4
  <2>7. Solves(g, n)
    BY <2>5, <2>6
  <2>8. \E h \in [0 .. n -> S] : Solves(h, n)
    <3> HIDE DEF g, Solves
    <3> QED
      BY <2>4, <2>7
  <2>9. n \in 0 .. N
    OBVIOUS
  <2> HIDE DEF Solves
  <2> QED
    BY <2>8, <2>9
<1>3. N \in Solved
  <2> HIDE DEF Solved
  <2>1. \A n \in 1 .. N : n - 1 \in Solved => n \in Solved
    BY <1>2
  <2>2. \A n \in 0 .. N : n \in Solved
    BY <1>1, <2>1, Induction
  <2> QED
    BY <2>2
<1> QED
  BY <1>3 DEF Recurs

-----------------------------------------------------------------------------
(* Sums                                                                    *)

\* The sum of the first lengths of a sequence, for every first.
IsSummed(f, lengths) ==
    f = [k \in 0 .. Len(lengths) |-> IF k = 0 THEN 0 ELSE f[k - 1] + lengths[k]]

LEMMA Summed ==
    ASSUME NEW lengths \in Seq(Nat)
    PROVE  \E f \in [0 .. Len(lengths) -> Nat] :
             IsSummed(f, lengths) /\ Total(lengths) = f[Len(lengths)]
<1> DEFINE N == Len(lengths)
           step == [k \in 1 .. N |-> [x \in Nat |-> x + lengths[k]]]
           body(f) == [k \in 0 .. N |-> IF k = 0 THEN 0 ELSE f[k - 1] + lengths[k]]
           upTo == CHOOSE f : f = body(f)
<1>0. N \in Nat /\ 0 \in Nat /\ \A k \in 1 .. N : lengths[k] \in Nat
  OBVIOUS
<1>1. step \in Steps(N, Nat)
  BY <1>0 DEF Steps
<1>2. PICK f \in [0 .. N -> Nat] :
        f[0] = 0 /\ \A k \in 1 .. N : f[k] = step[k][f[k - 1]]
  <2> DEFINE S == Nat
             start == 0
  <2>1. start \in S /\ step \in Steps(N, S)
    BY <1>1
  <2> HIDE DEF step, N, S, start
  <2>2. \E f : Recurs(f, N, S, start, step)
    BY <1>0, <2>1, Recursion
  <2> USE DEF S, start
  <2> QED
    BY <2>2 DEF Recurs
<1>3. f = body(f)
  <2> HIDE DEF N
  <2>1. ASSUME NEW k \in 1 .. N PROVE step[k][f[k - 1]] = f[k - 1] + lengths[k]
    <3>1. k - 1 \in 0 .. N
      BY <1>0
    <3>2. f[k - 1] \in Nat
      BY <3>1
    <3> QED
      BY <3>2
  <2>2. \A k \in 0 .. N : k # 0 => k \in 1 .. N
    BY <1>0
  <2> HIDE DEF step
  <2>3. \A k \in 0 .. N : f[k] = IF k = 0 THEN 0 ELSE f[k - 1] + lengths[k]
    BY <1>2, <2>1, <2>2
  <2> QED
    BY <2>3
<1>4. upTo = body(upTo)
  <2> HIDE DEF body
  <2> QED
    BY <1>3
<1>5. Total(lengths) = upTo[N]
  BY DEF Total
<1>6. \A k \in 0 .. N : upTo[k] \in Nat
  <2> DEFINE S == {k \in 0 .. N : upTo[k] \in Nat}
  <2> HIDE DEF upTo
  <2>1. 0 \in S
    BY <1>4
  <2>2. \A k \in 1 .. N : k - 1 \in S => k \in S
    BY <1>4
  <2> HIDE DEF S, N
  <2>3. \A k \in 0 .. N : k \in S
    BY <1>0, <2>1, <2>2, Induction
  <2> QED
    BY <2>3 DEF S
<1>7. upTo \in [0 .. N -> Nat]
  <2> HIDE DEF upTo
  <2> QED
    BY <1>4, <1>6
<1> HIDE DEF upTo
<1> QED
  BY <1>4, <1>5, <1>7 DEF IsSummed

\* What is recursive up to each number is so up to the numbers below.
LEMMA SummedUpTo ==
    ASSUME NEW lengths \in Seq(Nat), NEW more \in Seq(Nat),
           Len(lengths) <= Len(more),
           \A k \in 1 .. Len(lengths) : more[k] = lengths[k],
           NEW f \in [0 .. Len(lengths) -> Nat], IsSummed(f, lengths),
           NEW g \in [0 .. Len(more) -> Nat], IsSummed(g, more)
    PROVE  f[Len(lengths)] = g[Len(lengths)]
<1> DEFINE N == Len(lengths)
           S == {k \in 0 .. N : f[k] = g[k]}
<1>0. N \in Nat /\ Len(more) \in Nat
  OBVIOUS
<1>1. 0 \in S
  BY DEF IsSummed
<1>2. ASSUME NEW k \in 1 .. N, k - 1 \in S PROVE k \in S
  <2>1. k \in 0 .. N /\ k \in 0 .. Len(more) /\ k # 0
    BY <1>0
  <2>2. f[k] = f[k - 1] + lengths[k]
    BY <2>1 DEF IsSummed
  <2>3. g[k] = g[k - 1] + more[k]
    BY <2>1 DEF IsSummed
  <2> QED
    BY <1>2, <2>1, <2>2, <2>3
<1>3. \A k \in 0 .. N : k \in S
  <2> HIDE DEF S, N
  <2> QED
    BY <1>0, <1>1, <1>2, Induction
<1> QED
  BY <1>0, <1>3

LEMMA TotalIsNat ==
    ASSUME NEW lengths \in Seq(Nat)
    PROVE  Total(lengths) \in Nat
BY Summed

LEMMA TotalOfNone == Total(<<>>) = 0
<1>1. <<>> \in Seq(Nat) /\ Len(<<>>) = 0
  OBVIOUS
<1>2. PICK f \in [0 .. Len(<<>>) -> Nat] :
        IsSummed(f, <<>>) /\ Total(<<>>) = f[Len(<<>>)]
  BY <1>1, Summed
<1> QED
  BY <1>1, <1>2 DEF IsSummed

LEMMA TotalOfMore ==
    ASSUME NEW lengths \in Seq(Nat), NEW length \in Nat
    PROVE  Total(Append(lengths, length)) = Total(lengths) + length
<1> DEFINE more == Append(lengths, length)
           N == Len(lengths)
<1>1. /\ more \in Seq(Nat) /\ Len(more) = N + 1 /\ N \in Nat
      /\ more[N + 1] = length /\ \A k \in 1 .. N : more[k] = lengths[k]
  OBVIOUS
<1>2. PICK f \in [0 .. N -> Nat] : IsSummed(f, lengths) /\ Total(lengths) = f[N]
  BY Summed
<1> HIDE DEF more
<1>3. PICK g \in [0 .. Len(more) -> Nat] :
        IsSummed(g, more) /\ Total(more) = g[Len(more)]
  BY <1>1, Summed
<1>4. f[N] = g[N]
  BY <1>1, <1>2, <1>3, SummedUpTo
<1>5. g[N + 1] = g[N] + length
  <2>1. N + 1 \in 0 .. Len(more) /\ N + 1 # 0 /\ (N + 1) - 1 = N
    BY <1>1
  <2> QED
    BY <1>1, <1>3, <2>1 DEF IsSummed
<1> QED
  BY <1>1, <1>2, <1>3, <1>4, <1>5 DEF more

-----------------------------------------------------------------------------
(* Heights                                                                 *)

\* The smaller and the greater of two, and the smallest of three.
LEMMA Extremes ==
    ASSUME NEW a \in Int, NEW b \in Int
    PROVE  /\ Max({a, b}) \in {a, b} /\ Max({a, b}) >= a /\ Max({a, b}) >= b
           /\ Min({a, b}) \in {a, b} /\ Min({a, b}) <= a /\ Min({a, b}) <= b
<1>1. \E m \in {a, b} : \A n \in {a, b} : m >= n
  OBVIOUS
<1>2. \E m \in {a, b} : \A n \in {a, b} : m <= n
  OBVIOUS
<1> QED
  BY <1>1, <1>2 DEF Max, Min

LEMMA LeastOfThree ==
    ASSUME NEW a \in Int, NEW b \in Int, NEW c \in Int
    PROVE  /\ Min({a, b, c}) \in {a, b, c}
           /\ Min({a, b, c}) <= a /\ Min({a, b, c}) <= b /\ Min({a, b, c}) <= c
<1>1. \E m \in {a, b, c} : \A n \in {a, b, c} : m <= n
  OBVIOUS
<1> QED
  BY <1>1 DEF Min

LEMMA Quotient ==
    ASSUME NEW a \in Nat, NEW b \in Nat \ {0}
    PROVE  a \div b \in Nat
OBVIOUS

LEMMA LinesOfIsNat ==
    ASSUME NEW length \in Nat, NEW chars \in Nat \ {0}
    PROVE  LinesOf(length, chars) \in Nat \ {0}
<1>1. (length + chars - 1) \in Nat
  OBVIOUS
<1> DEFINE lines == (length + chars - 1) \div chars
<1>2. lines \in Nat
  BY <1>1, Quotient
<1>3. LinesOf(length, chars) = Max({1, lines})
  BY DEF LinesOf
<1> HIDE DEF lines
<1>4. Max({1, lines}) \in {1, lines} /\ Max({1, lines}) >= 1
  BY <1>2, Extremes
<1> QED
  BY <1>2, <1>3, <1>4

LEMMA WrappedLinesIsNat ==
    ASSUME NEW paragraphs \in Seq(Nat), NEW chars \in Nat \ {0}
    PROVE  WrappedLines(paragraphs, chars) \in Nat \ {0}
<1> DEFINE lines == [k \in DOMAIN paragraphs |-> LinesOf(paragraphs[k], chars)]
<1>1. \A k \in DOMAIN paragraphs : LinesOf(paragraphs[k], chars) \in Nat
  <2> TAKE k \in DOMAIN paragraphs
  <2>1. paragraphs[k] \in Nat
    OBVIOUS
  <2> QED
    BY <2>1, LinesOfIsNat
<1>2. lines \in Seq(Nat)
  BY <1>1
<1> DEFINE total == Total(lines)
<1>3. total \in Nat
  BY <1>2, TotalIsNat
<1>4. WrappedLines(paragraphs, chars) = Max({1, total})
  BY DEF WrappedLines
<1> HIDE DEF total
<1>5. Max({1, total}) \in {1, total} /\ Max({1, total}) >= 1
  <2>1. 1 \in Int /\ total \in Int
    BY <1>3
  <2> QED
    BY <2>1, Extremes, Zenon
<1> QED
  BY <1>3, <1>4, <1>5

LEMMA OptionsHeightIsNat ==
    ASSUME NEW i \in Wordings
    PROVE  OptionsHeight(i) \in Nat
<1> DEFINE tall(o) == LineHeight * WrappedLines(i.options[o], OptionChars)
           heights == [o \in DOMAIN i.options |-> tall(o)]
<1>1. i.options \in Seq(Seq(Nat))
  BY DEF Wordings
<1>2. ASSUME NEW o \in DOMAIN i.options PROVE tall(o) \in Nat
  <2>1. i.options[o] \in Seq(Nat)
    BY <1>1
  <2>2. WrappedLines(i.options[o], OptionChars) \in Nat
    BY <2>1, WrappedLinesIsNat DEF OptionChars
  <2> QED
    BY <2>2 DEF LineHeight
<1>3. heights \in Seq(Nat)
  <2>1. Len(i.options) \in Nat /\ DOMAIN i.options = 1 .. Len(i.options)
    BY <1>1
  <2> HIDE DEF tall
  <2>2. heights \in [1 .. Len(i.options) -> Nat]
    BY <1>2, <2>1
  <2> QED
    BY <2>1, <2>2
<1>4. Total(heights) \in Nat
  BY <1>3, TotalIsNat
<1> QED
  BY <1>4 DEF OptionsHeight, OptionsGap

LEMMA TextAboveIsNat ==
    ASSUME NEW i \in Wordings
    PROVE  /\ TextAboveFigure(i) \in Nat
           /\ LineHeight * WrappedLines(i.statement, TextChars) \in Nat
<1>1. WrappedLines(i.statement, TextChars) \in Nat
  BY WrappedLinesIsNat DEF Wordings, TextChars
<1> QED
  BY <1>1 DEF TextAboveFigure, LineHeight

\* The room of a picture is what the rest of its item leaves, or 100.
LEMMA RoomIsLeft ==
    ASSUME NEW i \in Wordings
    PROVE  /\ FigureRoom(i) \in Nat
           /\ FigureRoom(i) > 100 =>
                FigureRoom(i) <= UsableHeight - PaddingAndRule - FigureGap
                                   - TextAboveFigure(i) - OptionsHeight(i)
<1> DEFINE left == UsableHeight - PaddingAndRule - FigureGap
                     - TextAboveFigure(i) - OptionsHeight(i)
           room == Min({FigureMax, left})
<1>1. left \in Int
  BY PaginationAssumption, TextAboveIsNat, OptionsHeightIsNat
     DEF PaddingAndRule, FigureGap
<1> HIDE DEF left
<1>2. room \in {FigureMax, left} /\ room <= left /\ FigureMax \in Int
  <2>1. FigureMax \in Int
    BY DEF FigureMax
  <2> QED
    BY <1>1, <2>1, Extremes
<1>3. FigureRoom(i) = Max({100, room})
  BY DEF FigureRoom, left
<1>4. /\ Max({100, room}) \in {100, room}
      /\ Max({100, room}) >= 100 /\ Max({100, room}) >= room
  <2>1. 100 \in Int /\ room \in Int
    BY <1>1, <1>2
  <2> HIDE DEF room
  <2> QED
    BY <2>1, Extremes, Zenon
<1> QED
  BY <1>1, <1>2, <1>3, <1>4 DEF left

LEMMA PictureFitsItsRoom ==
    ASSUME NEW i \in Wordings, i.figure # NoFigure
    PROVE  FigureHeight(i) \in Nat /\ FigureHeight(i) <= FigureRoom(i)
<1>1. i.figure.height \in Nat /\ i.figure.width \in Nat \ {0}
  BY DEF Wordings, Figures
<1>2. i.figure.height * TextWidth \in Nat
  BY <1>1 DEF TextWidth
<1> DEFINE scaled == (i.figure.height * TextWidth) \div i.figure.width
           room == FigureRoom(i)
           tall == i.figure.height
<1>3. scaled \in Nat
  BY <1>1, <1>2, Quotient
<1>4. room \in Nat /\ tall \in Nat
  BY <1>1, RoomIsLeft
<1>5. FigureHeight(i) = Min({tall, scaled, room})
  BY DEF FigureHeight
<1> HIDE DEF scaled, room, tall
<1>6. /\ Min({tall, scaled, room}) \in {tall, scaled, room}
      /\ Min({tall, scaled, room}) <= room
  <2>1. tall \in Int /\ scaled \in Int /\ room \in Int
    BY <1>3, <1>4
  <2> QED
    BY <2>1, LeastOfThree, Zenon
<1> QED
  BY <1>3, <1>4, <1>5, <1>6 DEF room

LEMMA HeightsAreNat ==
    ASSUME NEW i \in Wordings
    PROVE  /\ BoxBlock(i) \in Nat
           /\ StatementHeight(i) \in Nat /\ ItemHeight(i) \in Nat
           /\ ContinuationHeight(i) \in Nat
<1>1. BoxBlock(i) \in Nat
  <2>1. i.lines \in Nat
    BY DEF Wordings
  <2> QED
    BY <2>1 DEF BoxBlock, LinePitch, BoxMargins
<1>2. StatementHeight(i) \in Nat
  <2>1. CASE i.figure = NoFigure
    BY <2>1, OptionsHeightIsNat, TextAboveIsNat
       DEF StatementHeight, PaddingAndRule
  <2>2. CASE i.figure # NoFigure
    BY <2>2, OptionsHeightIsNat, TextAboveIsNat, PictureFitsItsRoom
       DEF StatementHeight, PaddingAndRule, FigureGap
  <2> QED
    BY <2>1, <2>2
<1> QED
  BY <1>1, <1>2 DEF ItemHeight, ContinuationHeight, PaddingAndRule, LineHeight

-----------------------------------------------------------------------------
(* The lines of a copy                                                     *)

LineAt(book, a) == book[a[1]][a[2]]
Begun(book) == {a \in Places(book) : LineAt(book, a).part # "box"}

\* The first k exercises of a list are on the pages, in their order.
InOrder(list, book, k) ==
    /\ {LineAt(book, a).number : a \in Begun(book)} = 1 .. k
    /\ \A a, b \in Begun(book) :
         Precedes(a, b) => LineAt(book, a).number < LineAt(book, b).number
    /\ \A a \in Places(book) : LineAt(book, a).key = list[LineAt(book, a).number]

\* One line more, behind all others.
Grown(book, more, place, line) ==
    /\ Places(book) \subseteq Nat \X Nat /\ place \in Nat \X Nat
    /\ Places(more) = Places(book) \union {place}
    /\ \A a \in Places(book) : LineAt(more, a) = LineAt(book, a) /\ Precedes(a, place)
    /\ LineAt(more, place) = line

LEMMA PlacesAre ==
    ASSUME NEW book
    PROVE  \A a : a \in Places(book) <=>
             \E n \in DOMAIN book : \E r \in DOMAIN book[n] : a = <<n, r>>
<1> TAKE a
<1>1. a \in Places(book) <=> \E n \in DOMAIN book : a \in {n} \X DOMAIN book[n]
  BY DEF Places
<1>2. \A n : a \in {n} \X DOMAIN book[n] <=> \E r \in DOMAIN book[n] : a = <<n, r>>
  OBVIOUS
<1> QED
  BY <1>1, <1>2

LEMMA InOrderGrows ==
    ASSUME NEW list, NEW k \in Nat, NEW book, NEW more, NEW place, NEW line,
           InOrder(list, book, k), Grown(book, more, place, line),
           line.part # "box", line.number = k + 1, line.key = list[k + 1]
    PROVE  InOrder(list, more, k + 1)
<1>1. \A a \in Places(book) : LineAt(more, a) = LineAt(book, a) /\ a # place
  BY DEF Grown, Precedes
<1>2. Begun(more) = Begun(book) \union {place}
  BY <1>1 DEF Begun, Grown
<1>3. \A a \in Begun(book) : a \in Places(book)
  BY DEF Begun
<1>4. {LineAt(more, a).number : a \in Begun(more)}
        = {LineAt(book, a).number : a \in Begun(book)} \union {k + 1}
  <2>1. LineAt(more, place).number = k + 1
    BY DEF Grown
  <2> QED
    BY <1>1, <1>2, <1>3, <2>1
<1>5. {LineAt(more, a).number : a \in Begun(more)} = 1 .. k + 1
  <2>1. (1 .. k) \union {k + 1} = 1 .. k + 1
    OBVIOUS
  <2> QED
    BY <1>4, <2>1 DEF InOrder
<1>6. ASSUME NEW a \in Begun(more), NEW b \in Begun(more), Precedes(a, b)
      PROVE  LineAt(more, a).number < LineAt(more, b).number
  <2>1. a \in Nat \X Nat /\ b \in Nat \X Nat
    BY <1>2, <1>3 DEF Grown
  <2>2. a # place
    <3> SUFFICES ASSUME a = place PROVE FALSE
      OBVIOUS
    <3>1. b = place \/ Precedes(b, place)
      BY <1>2, <1>3 DEF Grown
    <3> QED
      BY <1>6, <2>1, <3>1 DEF Precedes
  <2>3. a \in Begun(book)
    BY <1>2, <2>2
  <2>4. LineAt(more, a).number = LineAt(book, a).number
    BY <1>1, <1>3, <2>3
  <2>5. LineAt(book, a).number \in 1 .. k
    BY <2>3 DEF InOrder
  <2>6. CASE b = place
    BY <2>4, <2>5, <2>6 DEF Grown
  <2>7. CASE b # place
    <3>1. b \in Begun(book)
      BY <1>2, <2>7
    <3>2. LineAt(more, b).number = LineAt(book, b).number
      BY <1>1, <1>3, <3>1
    <3> QED
      BY <1>6, <2>3, <2>4, <3>1, <3>2 DEF InOrder
  <2> QED
    BY <2>6, <2>7
<1>7. \A a \in Places(more) : LineAt(more, a).key = list[LineAt(more, a).number]
  BY <1>1 DEF Grown, InOrder
<1> QED
  BY <1>5, <1>6, <1>7 DEF InOrder

LEMMA InOrderBoxed ==
    ASSUME NEW list, NEW k \in Nat, NEW book, NEW more, NEW place, NEW line,
           InOrder(list, book, k), Grown(book, more, place, line),
           line.part = "box", line.number = k, line.key = list[k]
    PROVE  InOrder(list, more, k)
<1>1. \A a \in Places(book) : LineAt(more, a) = LineAt(book, a) /\ a # place
  BY DEF Grown, Precedes
<1>2. Begun(more) = Begun(book)
  BY <1>1 DEF Begun, Grown
<1>3. \A a \in Begun(book) : a \in Places(book)
  BY DEF Begun
<1>4. {LineAt(more, a).number : a \in Begun(more)} = 1 .. k
  <2>1. {LineAt(more, a).number : a \in Begun(more)}
          = {LineAt(book, a).number : a \in Begun(book)}
    BY <1>1, <1>2, <1>3
  <2> QED
    BY <2>1 DEF InOrder
<1>5. \A a, b \in Begun(more) :
        Precedes(a, b) => LineAt(more, a).number < LineAt(more, b).number
  BY <1>1, <1>2, <1>3 DEF InOrder
<1>6. \A a \in Places(more) : LineAt(more, a).key = list[LineAt(more, a).number]
  BY <1>1 DEF Grown, InOrder
<1> QED
  BY <1>4, <1>5, <1>6 DEF InOrder

LEMMA PageGrows ==
    ASSUME NEW book \in Seq(Seq(Lines)), NEW line \in Lines
    PROVE  Grown(book, Append(book, <<line>>), <<Len(book) + 1, 1>>, line)
<1> DEFINE more == Append(book, <<line>>)
           place == <<Len(book) + 1, 1>>
<1>1. /\ Len(book) \in Nat /\ DOMAIN book = 1 .. Len(book)
      /\ DOMAIN more = 1 .. Len(book) + 1
      /\ \A n \in 1 .. Len(book) : more[n] = book[n] /\ book[n] \in Seq(Lines)
      /\ more[Len(book) + 1] = <<line>>
  OBVIOUS
<1>2. DOMAIN more = DOMAIN book \union {Len(book) + 1}
  <2> HIDE DEF more
  <2> QED
    BY <1>1
<1>3. \A r : r \in DOMAIN <<line>> <=> r = 1
  OBVIOUS
<1> HIDE DEF more
<1>4. \A a : a \in Places(more) <=> a \in Places(book) \/ a = place
  <2> TAKE a
  <2>1. a \in Places(more) <=> \E n \in DOMAIN more : \E r \in DOMAIN more[n] : a = <<n, r>>
    BY PlacesAre
  <2>2. a \in Places(book) <=> \E n \in DOMAIN book : \E r \in DOMAIN book[n] : a = <<n, r>>
    BY PlacesAre
  <2>3. (\E r \in DOMAIN more[Len(book) + 1] : a = <<Len(book) + 1, r>>) <=> a = place
    BY <1>1, <1>3
  <2>4. \A n \in DOMAIN book : DOMAIN more[n] = DOMAIN book[n]
    BY <1>1
  <2> QED
    BY <1>2, <2>1, <2>2, <2>3, <2>4
<1>5. ASSUME NEW a \in Places(book)
      PROVE  /\ a \in Nat \X Nat
             /\ LineAt(more, a) = LineAt(book, a) /\ Precedes(a, place)
  <2>1. PICK n \in DOMAIN book : \E r \in DOMAIN book[n] : a = <<n, r>>
    BY PlacesAre
  <2>0. PICK r \in DOMAIN book[n] : a = <<n, r>>
    BY <2>1
  <2>2. n \in 1 .. Len(book) /\ r \in Nat
    BY <1>1
  <2> QED
    BY <1>1, <2>0, <2>2 DEF LineAt, Precedes
<1>6. LineAt(more, place) = line /\ place \in Nat \X Nat
  BY <1>1 DEF LineAt
<1> HIDE DEF place
<1>7. Grown(book, more, place, line)
  BY <1>4, <1>5, <1>6 DEF Grown
<1> QED
  BY <1>7 DEF more, place

LEMMA LineGrows ==
    ASSUME NEW before \in Seq(Seq(Lines)), NEW current \in Seq(Lines),
           NEW line \in Lines
    PROVE  Grown(Append(before, current), Append(before, Append(current, line)),
                 <<Len(before) + 1, Len(current) + 1>>, line)
<1> DEFINE book == Append(before, current)
           more == Append(before, Append(current, line))
           L == Len(before) + 1
           R == Len(current) + 1
           place == <<L, R>>
           last == Append(current, line)
<1>1. /\ L \in Nat /\ R \in Nat
      /\ DOMAIN book = 1 .. L /\ DOMAIN more = 1 .. L
      /\ book[L] = current /\ more[L] = last
      /\ \A n \in 1 .. L : n # L => more[n] = book[n] /\ book[n] \in Seq(Lines)
  OBVIOUS
<1>2. /\ \A r : r \in DOMAIN last <=> r \in DOMAIN current \/ r = R
      /\ \A r \in DOMAIN current : last[r] = current[r] /\ r \in Nat /\ r < R
      /\ last[R] = line
  OBVIOUS
<1> HIDE DEF more, book, last
<1>3. \A a : a \in Places(more) <=> a \in Places(book) \/ a = place
  <2> TAKE a
  <2>1. a \in Places(more) <=> \E n \in DOMAIN more : \E r \in DOMAIN more[n] : a = <<n, r>>
    BY PlacesAre
  <2>2. a \in Places(book) <=> \E n \in DOMAIN book : \E r \in DOMAIN book[n] : a = <<n, r>>
    BY PlacesAre
  <2>3. (\E r \in DOMAIN more[L] : a = <<L, r>>)
          <=> (\E r \in DOMAIN book[L] : a = <<L, r>>) \/ a = place
    BY <1>1, <1>2
  <2>4. \A n \in DOMAIN book : n # L => DOMAIN more[n] = DOMAIN book[n]
    BY <1>1
  <2>5. DOMAIN more = DOMAIN book /\ L \in DOMAIN book
    BY <1>1
  <2> HIDE DEF L, place
  <2> QED
    BY <2>1, <2>2, <2>3, <2>4, <2>5
<1>4. ASSUME NEW a \in Places(book)
      PROVE  /\ a \in Nat \X Nat
             /\ LineAt(more, a) = LineAt(book, a) /\ Precedes(a, place)
  <2>1. PICK n \in DOMAIN book : \E r \in DOMAIN book[n] : a = <<n, r>>
    BY PlacesAre
  <2>0. PICK r \in DOMAIN book[n] : a = <<n, r>>
    BY <2>1
  <2>2. CASE n = L
    BY <1>1, <1>2, <2>0, <2>2 DEF LineAt, Precedes
  <2>3. CASE n # L
    <3>1. n \in Nat /\ n < L /\ more[n] = book[n] /\ r \in Nat
      <4>1. n \in 1 .. L /\ book[n] \in Seq(Lines)
        BY <1>1, <2>3
      <4>2. r \in Nat
        BY <4>1
      <4> QED
        BY <1>1, <2>3, <4>1, <4>2
    <3> QED
      BY <2>0, <3>1 DEF LineAt, Precedes
  <2> QED
    BY <2>2, <2>3
<1>5. LineAt(more, place) = line /\ place \in Nat \X Nat
  BY <1>1, <1>2 DEF LineAt
<1> HIDE DEF place
<1>6. Grown(book, more, place, line)
  BY <1>3, <1>4, <1>5 DEF Grown
<1> QED
  BY <1>6 DEF more, book, place

-----------------------------------------------------------------------------
(* The pages of a copy                                                     *)

HeightOf(page) == Total([r \in DOMAIN page |-> page[r].height])

\* The pages hold, though the box of the last statement may be missing yet.
HoldsSoFar(book, k, open) ==
    \A n \in DOMAIN book :
      /\ Len(book[n]) <= ItemsPerPage
      /\ HeightOf(book[n]) <= UsableHeight
      /\ \A r \in DOMAIN book[n] :
           /\ book[n][r].part = "statement" =>
                /\ r = Len(book[n])
                /\ \/ IsSplit(book, n, book[n][r].number)
                   \/ open /\ n = Len(book) /\ book[n][r].number = k
           /\ book[n][r].part = "box" =>
                r = 1 /\ IsSplit(book, n - 1, book[n][r].number)

LEMMA HeightOfMore ==
    ASSUME NEW page \in Seq(Lines), NEW line \in Lines
    PROVE  /\ HeightOf(page) \in Nat
           /\ HeightOf(Append(page, line)) = HeightOf(page) + line.height
<1> DEFINE heights == [r \in DOMAIN page |-> page[r].height]
           more == Append(page, line)
           after == [r \in DOMAIN more |-> more[r].height]
<1>1. heights \in Seq(Nat) /\ line.height \in Nat
  <2>1. \A r \in 1 .. Len(page) : page[r] \in Lines
    OBVIOUS
  <2>2. \A r \in 1 .. Len(page) : page[r].height \in Nat
    BY <2>1 DEF Lines
  <2>3. DOMAIN page = 1 .. Len(page) /\ Len(page) \in Nat
    OBVIOUS
  <2>4. heights \in [1 .. Len(page) -> Nat]
    BY <2>2, <2>3
  <2>5. line.height \in Nat
    BY DEF Lines
  <2> HIDE DEF heights
  <2> QED
    BY <2>3, <2>4, <2>5
<1>2. after = Append(heights, line.height)
  <2>1. /\ DOMAIN more = 1 .. Len(page) + 1 /\ Len(page) \in Nat
        /\ \A r \in 1 .. Len(page) : more[r] = page[r]
        /\ more[Len(page) + 1] = line
    OBVIOUS
  <2>2. Len(heights) = Len(page)
    OBVIOUS
  <2>3. \A r \in 1 .. Len(page) + 1 : after[r] = Append(heights, line.height)[r]
    <3> HIDE DEF more
    <3>1. \A r \in 1 .. Len(page) : after[r] = heights[r]
      BY <2>1
    <3>2. after[Len(page) + 1] = line.height
      BY <2>1
    <3> HIDE DEF after
    <3>3. \A r \in 1 .. Len(page) : Append(heights, line.height)[r] = heights[r]
      BY <1>1, <2>2
    <3>4. Append(heights, line.height)[Len(page) + 1] = line.height
      BY <1>1, <2>2
    <3>5. \A r \in 1 .. Len(page) + 1 : r \in 1 .. Len(page) \/ r = Len(page) + 1
      BY <2>1
    <3> QED
      BY <3>1, <3>2, <3>3, <3>4, <3>5
  <2>4. DOMAIN after = 1 .. Len(page) + 1
    BY <2>1
  <2>5. Append(heights, line.height) \in [1 .. Len(page) + 1 -> Nat]
    <3> HIDE DEF heights
    <3>1. /\ Append(heights, line.height) \in Seq(Nat)
          /\ Len(Append(heights, line.height)) = Len(page) + 1
      BY <1>1, <2>2
    <3> DEFINE longer == Append(heights, line.height)
    <3> HIDE DEF longer
    <3>2. longer \in Seq(Nat) /\ Len(longer) = Len(page) + 1
      BY <3>1 DEF longer
    <3>3. longer \in [1 .. Len(page) + 1 -> Nat]
      BY <3>2
    <3> QED
      BY <3>3 DEF longer
  <2>6. after = [r \in 1 .. Len(page) + 1 |-> after[r]]
    BY <2>4
  <2> HIDE DEF after, heights
  <2> QED
    BY <2>3, <2>5, <2>6
<1>3. Total(Append(heights, line.height)) = Total(heights) + line.height
  BY <1>1, TotalOfMore
<1>4. Total(heights) \in Nat
  BY <1>1, TotalIsNat
<1> QED
  BY <1>2, <1>3, <1>4 DEF HeightOf

LEMMA HeightOfNone == HeightOf(<<>>) = 0
<1>1. [r \in DOMAIN <<>> |-> <<>>[r].height] = <<>>
  OBVIOUS
<1> QED
  BY <1>1, TotalOfNone DEF HeightOf

LEMMA HeightOfOne ==
    ASSUME NEW line \in Lines
    PROVE  HeightOf(<<line>>) = line.height
<1>1. <<>> \in Seq(Lines) /\ Append(<<>>, line) = <<line>>
  OBVIOUS
<1>2. HeightOf(Append(<<>>, line)) = HeightOf(<<>>) + line.height
  BY <1>1, HeightOfMore
<1>3. line.height \in Nat
  BY DEF Lines
<1> QED
  BY <1>1, <1>2, <1>3, HeightOfNone

\* What is split stays split when lines are added behind.
LEMMA SplitStays ==
    ASSUME NEW book \in Seq(Seq(Lines)), NEW more \in Seq(Seq(Lines)),
           Len(book) <= Len(more),
           \A n \in DOMAIN book :
             /\ n + 1 \in DOMAIN book => more[n] = book[n]
             /\ book[n] # <<>> => more[n] # <<>> /\ more[n][1] = book[n][1],
           NEW n \in Int, NEW number, IsSplit(book, n, number)
    PROVE  IsSplit(more, n, number)
<1>1. n \in DOMAIN book /\ n + 1 \in DOMAIN book
  BY DEF IsSplit
<1>2. n \in DOMAIN more /\ n + 1 \in DOMAIN more
  <2>1. \A m \in DOMAIN book : m \in DOMAIN more
    OBVIOUS
  <2> QED
    BY <1>1, <2>1
<1>3. more[n] = book[n]
  BY <1>1
<1>4. more[n + 1] # <<>> /\ more[n + 1][1] = book[n + 1][1]
  BY <1>1 DEF IsSplit
<1> QED
  BY <1>2, <1>3, <1>4 DEF IsSplit

\* A line at the foot of the last page.
LEMMA HoldsALine ==
    ASSUME NEW before \in Seq(Seq(Lines)), NEW current \in Seq(Lines),
           NEW line \in Lines, NEW k \in Nat,
           HoldsSoFar(Append(before, current), k, FALSE),
           Len(current) < ItemsPerPage,
           HeightOf(current) + line.height <= UsableHeight,
           line.part # "box", line.number = k + 1
    PROVE  HoldsSoFar(Append(before, Append(current, line)), k + 1,
                      line.part = "statement")
<1> DEFINE book == Append(before, current)
           more == Append(before, Append(current, line))
           L == Len(before) + 1
           last == Append(current, line)
<1>1. /\ L \in Nat /\ book \in Seq(Seq(Lines)) /\ more \in Seq(Seq(Lines))
      /\ DOMAIN book = 1 .. L /\ DOMAIN more = 1 .. L
      /\ Len(book) = L /\ Len(more) = L
      /\ book[L] = current /\ more[L] = last
      /\ \A n \in 1 .. L : n # L => more[n] = book[n] /\ n + 1 \in 1 .. L
  OBVIOUS
<1>2. /\ Len(last) = Len(current) + 1 /\ Len(current) \in Nat
      /\ DOMAIN last = 1 .. Len(current) + 1
      /\ \A r \in 1 .. Len(current) : last[r] = current[r] /\ r \in DOMAIN current
      /\ last[Len(current) + 1] = line
      /\ last # <<>> /\ (current # <<>> => last[1] = current[1])
  <2>1. current # <<>> => 1 \in 1 .. Len(current)
    OBVIOUS
  <2>2. /\ Len(last) = Len(current) + 1 /\ Len(current) \in Nat
        /\ DOMAIN last = 1 .. Len(current) + 1
        /\ \A r \in 1 .. Len(current) : last[r] = current[r] /\ r \in DOMAIN current
        /\ last[Len(current) + 1] = line
    OBVIOUS
  <2> HIDE DEF last
  <2>3. last # <<>>
    <3>1. Len(<<>>) = 0
      OBVIOUS
    <3> QED
      BY <2>2, <3>1
  <2> QED
    BY <2>1, <2>2, <2>3
<1>3. HeightOf(last) <= UsableHeight
  BY HeightOfMore
<1> HIDE DEF book, more, last, L
<1>4. \A n \in Int : \A number : IsSplit(book, n, number) => IsSplit(more, n, number)
  <2> TAKE n \in Int
  <2> TAKE number
  <2>1. ASSUME NEW m \in DOMAIN book
        PROVE  /\ m + 1 \in DOMAIN book => more[m] = book[m]
               /\ book[m] # <<>> => more[m] # <<>> /\ more[m][1] = book[m][1]
    <3>1. CASE m = L
      BY <1>1, <1>2, <3>1
    <3>2. CASE m # L
      BY <1>1, <3>2
    <3> QED
      BY <3>1, <3>2
  <2>2. Len(book) <= Len(more)
    BY <1>1
  <2> QED
    BY <1>1, <2>1, <2>2, SplitStays
<1>5. HoldsSoFar(book, k, FALSE)
  BY DEF book
<1>6. ASSUME NEW n \in DOMAIN more, n # L
      PROVE  /\ Len(more[n]) <= ItemsPerPage
             /\ HeightOf(more[n]) <= UsableHeight
             /\ \A r \in DOMAIN more[n] :
                  /\ more[n][r].part = "statement" =>
                       r = Len(more[n]) /\ IsSplit(more, n, more[n][r].number)
                  /\ more[n][r].part = "box" =>
                       r = 1 /\ IsSplit(more, n - 1, more[n][r].number)
  <2>1. n \in DOMAIN book /\ more[n] = book[n] /\ n \in Int /\ n - 1 \in Int
    BY <1>1, <1>6
  <2> QED
    BY <1>4, <1>5, <2>1 DEF HoldsSoFar
<1>7. ASSUME NEW r \in DOMAIN last
      PROVE  /\ last[r].part = "statement" =>
                  /\ r = Len(last) /\ line.part = "statement"
                  /\ last[r].number = k + 1
             /\ last[r].part = "box" =>
                  r = 1 /\ IsSplit(more, L - 1, last[r].number)
  <2>1. CASE r = Len(current) + 1
    BY <1>2, <2>1
  <2>2. CASE r # Len(current) + 1
    <3>0. r \in 1 .. Len(current)
      BY <1>2, <2>2
    <3>1. r \in DOMAIN book[L] /\ last[r] = book[L][r] /\ L \in DOMAIN book
      BY <1>1, <1>2, <3>0
    <3>2. ~ IsSplit(book, L, last[r].number)
      BY <1>1 DEF IsSplit
    <3>3. /\ last[r].part # "statement"
          /\ last[r].part = "box" => r = 1 /\ IsSplit(book, L - 1, last[r].number)
      BY <1>5, <3>1, <3>2 DEF HoldsSoFar
    <3>4. L - 1 \in Int
      BY <1>1
    <3> QED
      BY <1>4, <3>3, <3>4
  <2> QED
    BY <2>1, <2>2
<1>8. HoldsSoFar(more, k + 1, line.part = "statement")
  <2> SUFFICES ASSUME NEW n \in DOMAIN more
               PROVE  /\ Len(more[n]) <= ItemsPerPage
                      /\ HeightOf(more[n]) <= UsableHeight
                      /\ \A r \in DOMAIN more[n] :
                           /\ more[n][r].part = "statement" =>
                                /\ r = Len(more[n])
                                /\ \/ IsSplit(more, n, more[n][r].number)
                                   \/ /\ line.part = "statement" /\ n = Len(more)
                                      /\ more[n][r].number = k + 1
                           /\ more[n][r].part = "box" =>
                                r = 1 /\ IsSplit(more, n - 1, more[n][r].number)
    BY DEF HoldsSoFar
  <2>1. CASE n # L
    BY <1>6, <2>1
  <2>2. CASE n = L
    <3>1. Len(last) <= ItemsPerPage
      BY <1>2, PaginationAssumption
    <3> QED
      BY <1>1, <1>3, <1>7, <2>2, <3>1
  <2> QED
    BY <2>1, <2>2
<1> QED
  BY <1>8 DEF more

\* A line on a page of its own.
LEMMA HoldsAPage ==
    ASSUME NEW book \in Seq(Seq(Lines)), NEW line \in Lines, NEW k \in Nat,
           NEW open, NEW left, HoldsSoFar(book, k, open),
           line.height <= UsableHeight,
           \/ /\ open = FALSE /\ left = k + 1
              /\ line.part # "box" /\ line.number = k + 1
           \/ /\ left = k /\ line.part = "box" /\ line.number = k
              /\ book # <<>> /\ book[Len(book)] # <<>>
              /\ LET above == book[Len(book)][Len(book[Len(book)])]
                 IN above.part = "statement" /\ above.number = k
    PROVE  HoldsSoFar(Append(book, <<line>>), left, line.part = "statement")
<1> DEFINE more == Append(book, <<line>>)
           L == Len(book)
<1>1. /\ L \in Nat /\ L = Len(book) /\ more \in Seq(Seq(Lines))
      /\ DOMAIN book = 1 .. L /\ DOMAIN more = 1 .. L + 1 /\ Len(more) = L + 1
      /\ more[L + 1] = <<line>>
      /\ \A n \in 1 .. L : more[n] = book[n]
      /\ book # <<>> => L \in 1 .. L
  OBVIOUS
<1>2. /\ <<line>> # <<>> /\ Len(<<line>>) = 1 /\ <<line>>[1] = line
      /\ \A r \in DOMAIN <<line>> : r = 1
  OBVIOUS
<1> HIDE DEF more, L
<1>3. \A n \in Int : \A number : IsSplit(book, n, number) => IsSplit(more, n, number)
  <2> TAKE n \in Int
  <2> TAKE number
  <2>1. ASSUME NEW m \in DOMAIN book
        PROVE  /\ m + 1 \in DOMAIN book => more[m] = book[m]
               /\ book[m] # <<>> => more[m] # <<>> /\ more[m][1] = book[m][1]
    BY <1>1
  <2>2. Len(book) <= Len(more)
    BY <1>1
  <2> QED
    BY <1>1, <2>1, <2>2, SplitStays
<1>4. ASSUME line.part = "box" PROVE IsSplit(more, L, k)
  <2>1. /\ book # <<>> /\ book[L] # <<>>
        /\ book[L][Len(book[L])].part = "statement"
        /\ book[L][Len(book[L])].number = k /\ line.number = k
    BY <1>1, <1>4
  <2>2. L \in DOMAIN more /\ L + 1 \in DOMAIN more /\ more[L] = book[L]
    BY <1>1, <2>1
  <2> QED
    BY <1>1, <1>2, <1>4, <2>1, <2>2 DEF IsSplit
<1>5. ASSUME NEW n \in DOMAIN more, n # L + 1
      PROVE  /\ Len(more[n]) <= ItemsPerPage
             /\ HeightOf(more[n]) <= UsableHeight
             /\ \A r \in DOMAIN more[n] :
                  /\ more[n][r].part = "statement" =>
                       r = Len(more[n]) /\ IsSplit(more, n, more[n][r].number)
                  /\ more[n][r].part = "box" =>
                       r = 1 /\ IsSplit(more, n - 1, more[n][r].number)
  <2>1. n \in DOMAIN book /\ more[n] = book[n] /\ n \in Int /\ n - 1 \in Int
    <3>1. n \in 1 .. L
      BY <1>1, <1>5
    <3> QED
      BY <1>1, <3>1
  <2>2. ASSUME NEW r \in DOMAIN more[n], more[n][r].part = "statement"
        PROVE  r = Len(more[n]) /\ IsSplit(more, n, more[n][r].number)
    <3>1. /\ r = Len(book[n])
          /\ \/ IsSplit(book, n, book[n][r].number)
             \/ open /\ n = L /\ book[n][r].number = k
      BY <1>1, <2>1, <2>2 DEF HoldsSoFar
    <3>2. CASE IsSplit(book, n, book[n][r].number)
      BY <1>3, <2>1, <3>1, <3>2
    <3>3. CASE open /\ n = L /\ book[n][r].number = k
      <4>1. line.part = "box"
        BY <3>3
      <4> QED
        BY <1>4, <2>1, <3>1, <3>3, <4>1
    <3> QED
      BY <3>1, <3>2, <3>3
  <2>3. \A r \in DOMAIN more[n] : more[n][r].part = "box" =>
          r = 1 /\ IsSplit(more, n - 1, more[n][r].number)
    BY <1>3, <2>1 DEF HoldsSoFar
  <2>4. Len(more[n]) <= ItemsPerPage /\ HeightOf(more[n]) <= UsableHeight
    BY <2>1 DEF HoldsSoFar
  <2> QED
    BY <2>2, <2>3, <2>4
<1>6. HoldsSoFar(more, left, line.part = "statement")
  <2> SUFFICES ASSUME NEW n \in DOMAIN more
               PROVE  /\ Len(more[n]) <= ItemsPerPage
                      /\ HeightOf(more[n]) <= UsableHeight
                      /\ \A r \in DOMAIN more[n] :
                           /\ more[n][r].part = "statement" =>
                                /\ r = Len(more[n])
                                /\ \/ IsSplit(more, n, more[n][r].number)
                                   \/ /\ line.part = "statement" /\ n = Len(more)
                                      /\ more[n][r].number = left
                           /\ more[n][r].part = "box" =>
                                r = 1 /\ IsSplit(more, n - 1, more[n][r].number)
    BY DEF HoldsSoFar
  <2>1. CASE n # L + 1
    BY <1>5, <2>1
  <2>2. CASE n = L + 1
    <3>1. more[n] = <<line>> /\ n = Len(more) /\ n - 1 = L
      BY <1>1, <2>2
    <3>2. HeightOf(<<line>>) <= UsableHeight /\ 1 <= ItemsPerPage
      BY HeightOfOne, PaginationAssumption
    <3>3. line.part = "statement" => line.number = left
      OBVIOUS
    <3>4. line.part = "box" => line.number = k
      OBVIOUS
    <3> QED
      BY <1>2, <1>4, <3>1, <3>2, <3>3, <3>4
  <2> QED
    BY <2>1, <2>2
<1> QED
  BY <1>6 DEF more

-----------------------------------------------------------------------------
(* Pagination                                                              *)

Pagings == [pages : Seq(Seq(Lines)), current : Seq(Lines), used : Nat,
            number : Nat, refused : BOOLEAN]

Parts == {"whole", "statement", "box"}

Book(s) == Append(s.pages, s.current)

\* The first k exercises are laid out, the last of them all but its box.
Sound(list, s, k, open) ==
    /\ s \in Pagings /\ s.number = k /\ s.used = HeightOf(s.current)
    /\ InOrder(list, Book(s), k) /\ HoldsSoFar(Book(s), k, open)
    /\ open => /\ s.current # <<>>
               /\ LET last == s.current[Len(s.current)]
                  IN last.part = "statement" /\ last.number = k

LEMMA FlushIs ==
    ASSUME NEW s \in Pagings
    PROVE  /\ Flush(s) \in Pagings /\ Flush(s).pages = Book(s)
           /\ Flush(s).current = <<>> /\ Flush(s).used = 0
           /\ Flush(s).number = s.number /\ Flush(s).refused = s.refused
           /\ Book(s) \in Seq(Seq(Lines))
<1>1. /\ s.pages \in Seq(Seq(Lines)) /\ s.current \in Seq(Lines)
      /\ <<>> \in Seq(Lines)
  BY DEF Pagings
<1>2. Book(s) \in Seq(Seq(Lines))
  BY <1>1 DEF Book
<1> QED
  BY <1>1, <1>2 DEF Flush, Pagings, Book

\* What Place does on the page it has, and on a new one.
IsPlaced(p, s, line) ==
    /\ line \in Lines /\ p \in Pagings
    /\ p.number = s.number /\ p.refused = s.refused
    /\ Full(s, line.height) => /\ p.pages = Book(s) /\ p.current = <<line>>
                               /\ p.used = line.height
    /\ ~Full(s, line.height) => /\ p.pages = s.pages
                                /\ p.current = Append(s.current, line)
                                /\ p.used = s.used + line.height

LineOf(s, e, height, part) ==
    [key |-> e, number |-> s.number, part |-> part, height |-> height]

LEMMA PlaceIs ==
    ASSUME NEW s \in Pagings, NEW e \in Exercises, NEW height \in Nat,
           NEW part \in Parts
    PROVE  IsPlaced(Place(s, e, height, part), s, LineOf(s, e, height, part))
<1> DEFINE line == [key |-> e, number |-> s.number, part |-> part, height |-> height]
           p == Place(s, e, height, part)
<1>1. line \in Lines
  BY DEF Lines, Pagings, Parts
<1>2. CASE Full(s, height)
  <2> DEFINE t == Flush(s)
  <2>0. /\ t \in Pagings /\ t.pages = Book(s) /\ t.current = <<>> /\ t.used = 0
        /\ t.number = s.number /\ t.refused = s.refused
        /\ Book(s) \in Seq(Seq(Lines))
    BY FlushIs
  <2>1. p = [t EXCEPT !.current = Append(@, line), !.used = @ + height]
    BY <1>2, <2>0 DEF Place
  <2>2. Append(<<>>, line) = <<line>> /\ <<line>> \in Seq(Lines)
    BY <1>1
  <2> HIDE DEF line, p, t
  <2>3. p = [pages |-> Book(s), current |-> <<line>>, used |-> height,
             number |-> s.number, refused |-> s.refused]
    <3>1. p = [pages |-> t.pages, current |-> Append(t.current, line),
               used |-> t.used + height, number |-> t.number, refused |-> t.refused]
      BY <2>0, <2>1 DEF Pagings
    <3>2. 0 + height = height
      OBVIOUS
    <3> QED
      BY <2>0, <2>2, <3>1, <3>2
  <2>4. p \in Pagings
    BY <2>0, <2>2, <2>3 DEF Pagings
  <2> QED
    BY <1>1, <1>2, <2>3, <2>4 DEF line, p, IsPlaced, LineOf
<1>3. CASE ~Full(s, height)
  <2>1. p = [s EXCEPT !.current = Append(@, line), !.used = @ + height]
    BY <1>3 DEF Place
  <2>2. Append(s.current, line) \in Seq(Lines) /\ s.used + height \in Nat
    <3> HIDE DEF line
    <3>1. s.current \in Seq(Lines) /\ s.used \in Nat
      BY DEF Pagings
    <3> QED
      BY <1>1, <3>1
  <2> HIDE DEF line, p
  <2>3. p = [pages |-> s.pages, current |-> Append(s.current, line),
             used |-> s.used + height, number |-> s.number, refused |-> s.refused]
    BY <2>1 DEF Pagings
  <2>4. p \in Pagings
    BY <2>2, <2>3 DEF Pagings
  <2> QED
    BY <1>1, <1>3, <2>3, <2>4 DEF line, p, IsPlaced, LineOf
<1> QED
  BY <1>2, <1>3

LEMMA PlacedIsSound ==
    ASSUME NEW list, NEW k \in Nat, NEW s, Sound(list, s, k, FALSE),
           NEW e \in Exercises, e = list[k + 1],
           NEW height \in Nat, height <= UsableHeight,
           NEW part \in {"whole", "statement"}
    PROVE  Sound(list, Place([s EXCEPT !.number = @ + 1], e, height, part),
                 k + 1, part = "statement")
<1> DEFINE t == [s EXCEPT !.number = @ + 1]
           p == Place(t, e, height, part)
           line == [key |-> e, number |-> k + 1, part |-> part, height |-> height]
<1>1. s \in Pagings /\ s.number = k /\ s.used = HeightOf(s.current)
  BY DEF Sound
<1>2. /\ t \in Pagings /\ t.number = k + 1 /\ t.pages = s.pages
      /\ t.current = s.current /\ t.used = s.used /\ Book(t) = Book(s)
  BY <1>1 DEF Pagings, Book
<1>3. /\ s.pages \in Seq(Seq(Lines)) /\ s.current \in Seq(Lines)
      /\ Book(s) \in Seq(Seq(Lines))
  <2>1. s.pages \in Seq(Seq(Lines)) /\ s.current \in Seq(Lines)
    BY <1>1 DEF Pagings
  <2> QED
    BY <2>1 DEF Book
<1>4. /\ line.number = k + 1 /\ line.part = part /\ line.height = height
      /\ line.key = list[k + 1] /\ line.part # "box"
  OBVIOUS
<1> HIDE DEF t, p
<1>5. /\ line \in Lines /\ p \in Pagings /\ p.number = k + 1
      /\ Full(t, height) => /\ p.pages = Book(t) /\ p.current = <<line>>
                            /\ p.used = height
      /\ ~Full(t, height) => /\ p.pages = t.pages
                             /\ p.current = Append(t.current, line)
                             /\ p.used = t.used + height
  <2>1. t \in Pagings /\ part \in Parts
    BY <1>2 DEF Parts
  <2>2. IsPlaced(p, t, LineOf(t, e, height, part))
    BY <2>1, PlaceIs DEF p
  <2>3. LineOf(t, e, height, part) = line
    BY <1>2 DEF LineOf
  <2> QED
    BY <1>2, <1>4, <2>2, <2>3 DEF IsPlaced
<1> HIDE DEF line
<1>6. InOrder(list, Book(s), k) /\ HoldsSoFar(Book(s), k, FALSE)
  BY DEF Sound
<1>7. CASE Full(t, height)
  <2>1. Book(p) = Append(Book(s), <<line>>)
    BY <1>2, <1>5, <1>7 DEF Book
  <2>2. Grown(Book(s), Book(p), <<Len(Book(s)) + 1, 1>>, line)
    BY <1>3, <1>5, <2>1, PageGrows
  <2>3. InOrder(list, Book(p), k + 1)
    BY <1>4, <1>6, <2>2, InOrderGrows
  <2>4. HoldsSoFar(Book(p), k + 1, line.part = "statement")
    BY <1>3, <1>4, <1>5, <1>6, <2>1, HoldsAPage
  <2>5. p.used = HeightOf(p.current)
    BY <1>4, <1>5, <1>7, HeightOfOne
  <2>6. p.current # <<>> /\ p.current[Len(p.current)] = line
    <3>1. <<line>> # <<>> /\ Len(<<line>>) = 1 /\ <<line>>[1] = line
      OBVIOUS
    <3> QED
      BY <1>5, <1>7, <3>1
  <2> QED
    BY <1>4, <1>5, <2>3, <2>4, <2>5, <2>6 DEF Sound, p, t
<1>8. CASE ~Full(t, height)
  <2>1. Book(p) = Append(s.pages, Append(s.current, line))
    BY <1>2, <1>5, <1>8 DEF Book
  <2>2. Len(s.current) < ItemsPerPage
    <3>1. Len(s.current) \in Nat
      BY <1>3
    <3> QED
      BY <1>2, <1>8, <3>1, PaginationAssumption DEF Full
  <2>3. HeightOf(s.current) + line.height <= UsableHeight
    <3>1. CASE s.current = <<>>
      BY <1>4, <3>1, HeightOfNone
    <3>2. CASE s.current # <<>>
      <4>1. s.used \in Nat /\ ~(s.used + height > UsableHeight)
        BY <1>1, <1>2, <1>8, <3>2 DEF Full, Pagings
      <4> QED
        BY <1>1, <1>4, <4>1, PaginationAssumption
    <3> QED
      BY <3>1, <3>2
  <2>4. Grown(Book(s), Book(p), <<Len(s.pages) + 1, Len(s.current) + 1>>, line)
    BY <1>3, <1>5, <2>1, LineGrows DEF Book
  <2>5. InOrder(list, Book(p), k + 1)
    BY <1>4, <1>6, <2>4, InOrderGrows
  <2>6. HoldsSoFar(Book(p), k + 1, line.part = "statement")
    BY <1>3, <1>4, <1>5, <1>6, <2>1, <2>2, <2>3, HoldsALine DEF Book
  <2>7. p.used = HeightOf(p.current)
    BY <1>1, <1>2, <1>3, <1>4, <1>5, <1>8, HeightOfMore
  <2>8. p.current # <<>> /\ p.current[Len(p.current)] = line
    <3>1. p.current = Append(s.current, line)
      BY <1>2, <1>5, <1>8
    <3>2. /\ Len(Append(s.current, line)) = Len(s.current) + 1
          /\ Append(s.current, line)[Len(s.current) + 1] = line
          /\ Len(s.current) \in Nat /\ Len(<<>>) = 0
      BY <1>3, <1>5
    <3> DEFINE longer == Append(s.current, line)
    <3> HIDE DEF longer
    <3>3. /\ Len(longer) = Len(s.current) + 1
          /\ longer[Len(s.current) + 1] = line
      BY <3>2 DEF longer
    <3>4. longer # <<>>
      BY <3>2, <3>3
    <3> QED
      BY <3>1, <3>3, <3>4 DEF longer
  <2> QED
    BY <1>4, <1>5, <2>5, <2>6, <2>7, <2>8 DEF Sound, p, t
<1> QED
  BY <1>7, <1>8

LEMMA BoxIsSound ==
    ASSUME NEW list, NEW k \in Nat, NEW s, Sound(list, s, k, TRUE),
           NEW e \in Exercises, e = list[k],
           NEW height \in Nat, height <= UsableHeight
    PROVE  Sound(list, Place(Flush(s), e, height, "box"), k, FALSE)
<1> DEFINE t == Flush(s)
           p == Place(t, e, height, "box")
           line == [key |-> e, number |-> k, part |-> "box", height |-> height]
<1>1. s \in Pagings /\ s.number = k
  BY DEF Sound
<1>2. /\ s.pages \in Seq(Seq(Lines)) /\ s.current \in Seq(Lines)
      /\ Book(s) \in Seq(Seq(Lines)) /\ <<>> \in Seq(Lines)
  <2>1. s.pages \in Seq(Seq(Lines)) /\ s.current \in Seq(Lines)
    BY <1>1 DEF Pagings
  <2> QED
    BY <2>1 DEF Book
<1>3. /\ t \in Pagings /\ t.number = k /\ t.pages = Book(s)
      /\ t.current = <<>> /\ t.used = 0
  BY <1>1, <1>2 DEF Flush, Pagings, Book
<1>4. /\ line.number = k /\ line.part = "box" /\ line.height = height
      /\ line.key = list[k]
  OBVIOUS
<1> HIDE DEF t, p
<1>5. ~Full(t, height)
  BY <1>3, PaginationAssumption DEF Full
<1>6. /\ line \in Lines /\ p \in Pagings /\ p.number = k
      /\ p.pages = Book(s) /\ p.current = Append(<<>>, line)
      /\ p.used = 0 + height
  <2>1. t \in Pagings /\ "box" \in Parts
    BY <1>3 DEF Parts
  <2>2. IsPlaced(p, t, LineOf(t, e, height, "box"))
    BY <2>1, PlaceIs DEF p
  <2>3. LineOf(t, e, height, "box") = line
    BY <1>3 DEF LineOf
  <2> QED
    BY <1>3, <1>4, <2>2, <2>3, <1>5 DEF IsPlaced
<1> HIDE DEF line
<1>7. p.current = <<line>> /\ p.used = height
  BY <1>6
<1>8. Book(p) = Append(Book(s), <<line>>)
  BY <1>6, <1>7 DEF Book
<1>9. Grown(Book(s), Book(p), <<Len(Book(s)) + 1, 1>>, line)
  BY <1>2, <1>6, <1>8, PageGrows
<1>10. InOrder(list, Book(p), k)
  BY <1>4, <1>9, InOrderBoxed DEF Sound
<1>11. /\ Book(s) # <<>> /\ Book(s)[Len(Book(s))] = s.current
  <2>1. /\ Len(Book(s)) = Len(s.pages) + 1 /\ Len(s.pages) \in Nat
        /\ Book(s)[Len(s.pages) + 1] = s.current /\ Len(<<>>) = 0
    BY <1>2 DEF Book
  <2> QED
    BY <2>1
<1>12. HoldsSoFar(Book(p), k, line.part = "statement")
  <2>1. /\ s.current # <<>>
        /\ s.current[Len(s.current)].part = "statement"
        /\ s.current[Len(s.current)].number = k
        /\ HoldsSoFar(Book(s), k, TRUE)
    BY DEF Sound
  <2> QED
    BY <1>2, <1>4, <1>6, <1>8, <1>11, <2>1, HoldsAPage
<1>13. p.used = HeightOf(p.current)
  BY <1>4, <1>6, <1>7, HeightOfOne
<1> QED
  BY <1>4, <1>6, <1>10, <1>12, <1>13 DEF Sound, p, t

LEMMA WholeIsSound ==
    ASSUME NEW list, NEW k \in Nat, NEW s, Sound(list, s, k, FALSE),
           NEW e \in Exercises, e = list[k + 1],
           NEW height \in Nat, height <= UsableHeight
    PROVE  Sound(list, Place([s EXCEPT !.number = @ + 1], e, height, "whole"),
                 k + 1, FALSE)
<1> DEFINE part == "whole"
           open == part = "statement"
<1>1. part \in {"whole", "statement"} /\ open = FALSE
  OBVIOUS
<1> HIDE DEF part
<1>2. Sound(list, Place([s EXCEPT !.number = @ + 1], e, height, part), k + 1, open)
  BY <1>1, PlacedIsSound
<1> HIDE DEF open
<1> QED
  BY <1>1, <1>2 DEF part

LEMMA StatementIsSound ==
    ASSUME NEW list, NEW k \in Nat, NEW s, Sound(list, s, k, FALSE),
           NEW e \in Exercises, e = list[k + 1],
           NEW height \in Nat, height <= UsableHeight
    PROVE  Sound(list, Place([s EXCEPT !.number = @ + 1], e, height, "statement"),
                 k + 1, TRUE)
<1> DEFINE part == "statement"
           open == part = "statement"
<1>1. part \in {"whole", "statement"} /\ open = TRUE
  OBVIOUS
<1> HIDE DEF part
<1>2. Sound(list, Place([s EXCEPT !.number = @ + 1], e, height, part), k + 1, open)
  BY <1>1, PlacedIsSound
<1> HIDE DEF open
<1> QED
  BY <1>1, <1>2 DEF part

LEMMA PutIsTyped ==
    ASSUME NEW s \in Pagings, NEW e \in Exercises, NEW i \in Wordings
    PROVE  Put(s, e, i) \in Pagings
<1> DEFINE t == [s EXCEPT !.number = @ + 1]
<1>0. t \in Pagings
  <2>1. s.number + 1 \in Nat
    BY DEF Pagings
  <2> QED
    BY <2>1 DEF Pagings
<1> HIDE DEF t
<1>1. t \in Pagings /\ [t EXCEPT !.refused = TRUE] \in Pagings
  BY <1>0 DEF Pagings
<1>2. \A q \in Pagings, height \in Nat, part \in Parts :
        Place(q, e, height, part) \in Pagings
  BY PlaceIs DEF IsPlaced
<1>3. Place(t, e, ItemHeight(i), "whole") \in Pagings
  BY <1>1, <1>2, HeightsAreNat DEF Parts
<1>4. Place(t, e, StatementHeight(i), "statement") \in Pagings
  BY <1>1, <1>2, HeightsAreNat DEF Parts
<1>5. Flush(Place(t, e, StatementHeight(i), "statement")) \in Pagings
  BY <1>4, FlushIs
<1>6. Place(Flush(Place(t, e, StatementHeight(i), "statement")), e,
            ContinuationHeight(i), "box") \in Pagings
  BY <1>2, <1>5, HeightsAreNat DEF Parts
<1> QED
  BY <1>1, <1>3, <1>6 DEF Put, t

LEMMA PutIsSound ==
    ASSUME NEW list, NEW k \in Nat, NEW s, Sound(list, s, k, FALSE),
           NEW e \in Exercises, e = list[k + 1], NEW i \in Wordings
    PROVE  \/ Put(s, e, i).refused
           \/ Sound(list, Put(s, e, i), k + 1, FALSE)
<1> DEFINE t == [s EXCEPT !.number = @ + 1]
<1>1. s \in Pagings
  BY DEF Sound
<1>2. CASE s.refused
  BY <1>2 DEF Put
<1>3. CASE ~s.refused /\ ItemHeight(i) <= UsableHeight
  <2>1. Put(s, e, i) = Place(t, e, ItemHeight(i), "whole")
    BY <1>3 DEF Put
  <2> QED
    BY <1>3, <2>1, HeightsAreNat, WholeIsSound
<1>4. CASE /\ ~s.refused /\ ~(ItemHeight(i) <= UsableHeight)
           /\ \/ ~PrintsBox(i)
              \/ StatementHeight(i) > UsableHeight
              \/ ContinuationHeight(i) > UsableHeight
  <2>1. Put(s, e, i) = [t EXCEPT !.refused = TRUE]
    BY <1>4 DEF Put
  <2>2. t \in Pagings
    BY <1>1 DEF Pagings
  <2> HIDE DEF t
  <2>3. [t EXCEPT !.refused = TRUE].refused
    BY <2>2 DEF Pagings
  <2> QED
    BY <2>1, <2>3
<1>5. CASE /\ ~s.refused /\ ~(ItemHeight(i) <= UsableHeight)
           /\ PrintsBox(i)
           /\ ~(StatementHeight(i) > UsableHeight)
           /\ ~(ContinuationHeight(i) > UsableHeight)
  <2> DEFINE q == Place(t, e, StatementHeight(i), "statement")
  <2>1. Put(s, e, i) = Place(Flush(q), e, ContinuationHeight(i), "box")
    BY <1>5 DEF Put
  <2>2. /\ StatementHeight(i) \in Nat /\ StatementHeight(i) <= UsableHeight
        /\ ContinuationHeight(i) \in Nat /\ ContinuationHeight(i) <= UsableHeight
    BY <1>5, HeightsAreNat, PaginationAssumption
  <2>3. Sound(list, q, k + 1, TRUE)
    BY <2>2, StatementIsSound
  <2> HIDE DEF q
  <2>4. k + 1 \in Nat
    OBVIOUS
  <2>5. Sound(list, Place(Flush(q), e, ContinuationHeight(i), "box"), k + 1, FALSE)
    BY <2>2, <2>3, <2>4, BoxIsSound
  <2> QED
    BY <2>1, <2>5
<1> QED
  BY <1>2, <1>3, <1>4, <1>5

LEMMA BlankIsSound ==
    ASSUME NEW list
    PROVE  Blank \in Pagings /\ Sound(list, Blank, 0, FALSE)
<1>1. Blank \in Pagings /\ Blank.pages = <<>> /\ Blank.current = <<>>
      /\ Blank.number = 0 /\ Blank.used = 0
  BY DEF Blank, Pagings
<1>2. Book(Blank) = <<<<>>>>
  BY <1>1 DEF Book
<1>3. /\ DOMAIN <<<<>>>> = {1} /\ <<<<>>>>[1] = <<>>
      /\ DOMAIN <<>> = {} /\ Len(<<>>) = 0
  OBVIOUS
<1>4. Places(Book(Blank)) = {}
  BY <1>2, <1>3 DEF Places
<1>5. InOrder(list, Book(Blank), 0)
  BY <1>4 DEF InOrder, Begun
<1>6. HoldsSoFar(Book(Blank), 0, FALSE)
  BY <1>2, <1>3, HeightOfNone, PaginationAssumption DEF HoldsSoFar
<1> QED
  BY <1>1, <1>5, <1>6, HeightOfNone DEF Sound

LEMMA PagingIs ==
    ASSUME NEW list \in Seq(Exercises), NEW item \in [Exercises -> Wordings]
    PROVE  LET upTo == Paging(list, item)
           IN /\ upTo[0] = Blank
              /\ \A k \in 1 .. Len(list) :
                   upTo[k] = Put(upTo[k - 1], list[k], item[list[k]])
<1> DEFINE N == Len(list)
           body(f) == [k \in 0 .. N |-> IF k = 0 THEN Blank
                                        ELSE Put(f[k - 1], list[k], item[list[k]])]
           upTo == CHOOSE f : f = body(f)
           step == [k \in 1 .. N |->
                      [s \in Pagings |-> Put(s, list[k], item[list[k]])]]
           start == Blank
<1>1. /\ N \in Nat
      /\ \A k \in 1 .. N : list[k] \in Exercises /\ item[list[k]] \in Wordings
  OBVIOUS
<1>2. start \in Pagings
  BY BlankIsSound
<1>3. step \in Steps(N, Pagings)
  <2>1. ASSUME NEW k \in 1 .. N, NEW s \in Pagings
        PROVE  Put(s, list[k], item[list[k]]) \in Pagings
    BY <1>1, PutIsTyped
  <2> HIDE DEF N
  <2> QED
    BY <2>1 DEF Steps
<1>4. PICK f : Recurs(f, N, Pagings, start, step)
  <2> HIDE DEF N, step, start
  <2> QED
    BY <1>1, <1>2, <1>3, Recursion
<1>5. /\ f \in [0 .. N -> Pagings] /\ f[0] = Blank
      /\ \A k \in 1 .. N : f[k] = step[k][f[k - 1]]
  BY <1>4 DEF Recurs
<1> HIDE DEF N
<1>6. ASSUME NEW k \in 1 .. N
      PROVE  f[k] = Put(f[k - 1], list[k], item[list[k]])
  <2>1. k - 1 \in 0 .. N
    BY <1>1
  <2>2. f[k - 1] \in Pagings
    BY <1>5, <2>1
  <2> QED
    BY <1>5, <2>2
<1>7. f = body(f)
  <2>1. \A k \in 0 .. N : k # 0 => k \in 1 .. N
    BY <1>1
  <2>2. \A k \in 0 .. N : f[k] = IF k = 0 THEN Blank
                                   ELSE Put(f[k - 1], list[k], item[list[k]])
    BY <1>5, <1>6, <2>1
  <2> HIDE DEF step, start
  <2> QED
    BY <1>5, <2>2
<1>8. upTo = body(upTo)
  <2> HIDE DEF body
  <2> QED
    BY <1>7
<1>9. Paging(list, item) = upTo
  BY DEF Paging, N
<1> HIDE DEF upTo
<1>10. upTo[0] = Blank
  BY <1>1, <1>8
<1>11. \A k \in 1 .. N : upTo[k] = Put(upTo[k - 1], list[k], item[list[k]])
  <2> TAKE k \in 1 .. N
  <2>1. k \in 0 .. N /\ k # 0
    BY <1>1
  <2> QED
    BY <1>8, <2>1
<1> QED
  BY <1>9, <1>10, <1>11 DEF N

LEMMA PagingIsSound ==
    ASSUME NEW list \in Seq(Exercises), NEW item \in [Exercises -> Wordings]
    PROVE  LET s == Paging(list, item)[Len(list)]
           IN s.refused \/ Sound(list, s, Len(list), FALSE)
<1> DEFINE upTo == Paging(list, item)
           N == Len(list)
           S == {k \in 0 .. N : upTo[k].refused \/ Sound(list, upTo[k], k, FALSE)}
<1>1. /\ N \in Nat
      /\ \A k \in 1 .. N : list[k] \in Exercises /\ item[list[k]] \in Wordings
  OBVIOUS
<1>2. /\ upTo[0] = Blank
      /\ \A k \in 1 .. N : upTo[k] = Put(upTo[k - 1], list[k], item[list[k]])
  BY PagingIs
<1> HIDE DEF upTo, N
<1>3. 0 \in S
  <2>1. Sound(list, Blank, 0, FALSE)
    BY BlankIsSound
  <2>2. 0 \in 0 .. N
    BY <1>1
  <2> QED
    BY <1>2, <2>1, <2>2
<1>4. ASSUME NEW k \in 1 .. N, k - 1 \in S PROVE k \in S
  <2>1. /\ k \in 0 .. N /\ k - 1 \in Nat /\ (k - 1) + 1 = k
        /\ upTo[k] = Put(upTo[k - 1], list[k], item[list[k]])
    BY <1>1, <1>2
  <2>2. CASE upTo[k - 1].refused
    <3>1. upTo[k] = upTo[k - 1]
      BY <2>1, <2>2 DEF Put
    <3> QED
      BY <2>1, <2>2, <3>1
  <2>3. CASE Sound(list, upTo[k - 1], k - 1, FALSE)
    <3> DEFINE m == k - 1
               s == upTo[m]
               e == list[k]
    <3>1. m \in Nat /\ e \in Exercises /\ e = list[m + 1] /\ item[e] \in Wordings
      BY <1>1, <2>1
    <3>2. Sound(list, s, m, FALSE)
      BY <2>3
    <3> HIDE DEF m, s, e
    <3>3. Put(s, e, item[e]).refused \/ Sound(list, Put(s, e, item[e]), m + 1, FALSE)
      BY <3>1, <3>2, PutIsSound
    <3> QED
      BY <2>1, <3>3 DEF m, s, e
  <2> QED
    BY <1>4, <2>2, <2>3
<1>5. \A k \in 0 .. N : k \in S
  <2> HIDE DEF S
  <2> QED
    BY <1>1, <1>3, <1>4, Induction
<1>6. upTo[N].refused \/ Sound(list, upTo[N], N, FALSE)
  <2>1. N \in 0 .. N
    BY <1>1
  <2> QED
    BY <1>5, <2>1
<1> QED
  BY <1>6 DEF upTo, N

\* The pages of any list fit (pagination.py): every item of it is laid out once
\* and in order, whole or split at the turn of a page, and no page has more rows
\* than the grid or more statement than its region.
THEOREM PaginationHolds ==
    ASSUME NEW list \in Seq(Exercises), NEW item \in [Exercises -> Wordings],
           Paginate(list, item) # TooTall
    PROVE  FitsItsPages(list, Paginate(list, item))
<1> DEFINE s == Paging(list, item)[Len(list)]
           copy == Book(s)
<1>1. ~s.refused /\ Paginate(list, item) = Flush(s).pages
  BY DEF Paginate
<1>2. Sound(list, s, Len(list), FALSE)
  BY <1>1, PagingIsSound
<1> HIDE DEF s
<1>3. s \in Pagings /\ Paginate(list, item) = copy /\ copy \in Seq(Seq(Lines))
  BY <1>1, <1>2, FlushIs DEF Sound
<1>4. copy # <<>>
  <2>1. s.pages \in Seq(Seq(Lines)) /\ s.current \in Seq(Lines)
    BY <1>3 DEF Pagings
  <2>2. /\ Len(copy) = Len(s.pages) + 1 /\ Len(s.pages) \in Nat
        /\ Len(<<>>) = 0
    BY <2>1 DEF Book
  <2> QED
    BY <2>2
<1>5. InOrder(list, copy, Len(list)) /\ HoldsSoFar(copy, Len(list), FALSE)
  BY <1>2 DEF Sound
<1> HIDE DEF copy
<1>6. IsACopy(copy)
  BY <1>3, <1>4, <1>5 DEF IsACopy, HoldsSoFar
<1>7. PrintsTheList(list, copy)
  <2>1. DOMAIN list = 1 .. Len(list)
    OBVIOUS
  <2> QED
    BY <1>5, <2>1 DEF InOrder, PrintsTheList, Begun, LineAt
<1>8. HoldsItsPages(copy)
  BY <1>5 DEF HoldsSoFar, HoldsItsPages, HeightOf
<1> QED
  BY <1>3, <1>6, <1>7, <1>8 DEF FitsItsPages

\* So every copy of every plan and edition holds its pages.
LEMMA EveryCopyHolds == EveryCopyFits
<1> SUFFICES ASSUME NEW n \in Plans, NEW d \in Editions, NEW p \in Pupils,
                    Copies[n][d][p] # TooTall
             PROVE  FitsItsPages(ListOf[n][p], Copies[n][d][p])
  BY DEF EveryCopyFits, Fits
<1>1. Copies[n][d][p] = Paginate(ListOf[n][p], Says[d])
  BY CopiesAssumption DEF CopyOf
<1>2. ListOf[n][p] \in Seq(Exercises) /\ Says[d] \in [Exercises -> Wordings]
  BY PaperAssumption
<1> QED
  BY <1>1, <1>2, PaginationHolds

\* A picture is shrunk to what the text of its item leaves of a page.
LEMMA PicturesAreSmallEnough ==
    ASSUME NEW d \in Editions, NEW e \in Exercises
    PROVE  ~PictureRefused[d][e]
<1> DEFINE i == Says[d][e]
           list == <<e>>
           s == Put(Blank, e, i)
<1> SUFFICES ASSUME i.figure # NoFigure, i.lines <= BoxMaxLines, FigureRoom(i) > 100
             PROVE  Paginate(list, Says[d]) # TooTall
  <2>1. PictureRefused[d][e] <=> /\ Paginate(list, Says[d]) = TooTall
                                 /\ i.figure # NoFigure /\ i.lines <= BoxMaxLines
                                 /\ FigureRoom(i) > 100
    BY DEF PictureRefused
  <2> QED
    BY <2>1
<1>1. Says[d] \in [Exercises -> Wordings] /\ i \in Wordings
  BY PaperAssumption
<1>2. list \in Seq(Exercises) /\ Len(list) = 1 /\ list[1] = e
  OBVIOUS
<1> HIDE DEF list
<1>3. Paging(list, Says[d])[1] = s
  <2>1. Paging(list, Says[d])[0] = Blank
    BY <1>1, <1>2, PagingIs
  <2>2. Paging(list, Says[d])[1]
          = Put(Paging(list, Says[d])[1 - 1], list[1], Says[d][list[1]])
    <3>1. 1 \in 1 .. Len(list)
      BY <1>2
    <3>2. \A k \in 1 .. Len(list) :
            Paging(list, Says[d])[k]
              = Put(Paging(list, Says[d])[k - 1], list[k], Says[d][list[k]])
      BY <1>1, <1>2, PagingIs
    <3> QED
      BY <3>1, <3>2
  <2>3. 1 - 1 = 0
    OBVIOUS
  <2> QED
    BY <1>2, <2>1, <2>2, <2>3
<1> HIDE DEF i
<1>4. StatementHeight(i) <= UsableHeight
  <2>1. StatementHeight(i) = PaddingAndRule + OptionsHeight(i)
                               + (TextAboveFigure(i) + FigureGap + FigureHeight(i))
    BY DEF StatementHeight
  <2>2. /\ FigureHeight(i) \in Nat /\ FigureHeight(i) <= FigureRoom(i)
        /\ FigureRoom(i) \in Nat
        /\ FigureRoom(i) <= UsableHeight - PaddingAndRule - FigureGap
                              - TextAboveFigure(i) - OptionsHeight(i)
        /\ OptionsHeight(i) \in Nat /\ TextAboveFigure(i) \in Nat
    BY <1>1, PictureFitsItsRoom, RoomIsLeft, OptionsHeightIsNat, TextAboveIsNat
  <2>3. PaddingAndRule \in Nat /\ FigureGap \in Nat /\ UsableHeight \in Nat
    BY PaginationAssumption DEF PaddingAndRule, FigureGap
  <2> QED
    BY <2>1, <2>2, <2>3
<1>5. PrintsBox(i) => ContinuationHeight(i) <= UsableHeight
  <2>1. i.lines \in Nat
    BY <1>1 DEF Wordings
  <2> QED
    BY <2>1, PaginationAssumption
       DEF ContinuationHeight, BoxBlock, LinePitch, BoxMargins, BoxMaxLines,
           PaddingAndRule, LineHeight
<1>6. ~PrintsBox(i) => ItemHeight(i) = StatementHeight(i)
  BY <1>1, HeightsAreNat DEF ItemHeight, BoxBlock
<1>7. ~Blank.refused /\ Blank \in Pagings
  BY BlankIsSound DEF Blank
<1>8. ~s.refused
  <2> DEFINE t == [Blank EXCEPT !.number = @ + 1]
             q == Place(t, e, StatementHeight(i), "statement")
  <2>1. t \in Pagings /\ ~t.refused
    BY <1>7 DEF Pagings
  <2> HIDE DEF t
  <2>2. \A r \in Pagings, height \in Nat, part \in Parts :
          /\ Place(r, e, height, part) \in Pagings
          /\ Place(r, e, height, part).refused = r.refused
    BY PlaceIs DEF IsPlaced
  <2>3. ~Place(t, e, ItemHeight(i), "whole").refused
    BY <1>1, <2>1, <2>2, HeightsAreNat DEF Parts
  <2>4. q \in Pagings /\ ~q.refused
    BY <1>1, <2>1, <2>2, HeightsAreNat DEF Parts
  <2> HIDE DEF q
  <2>5. Flush(q) \in Pagings /\ ~Flush(q).refused
    BY <2>4, FlushIs
  <2>6. ~Place(Flush(q), e, ContinuationHeight(i), "box").refused
    BY <1>1, <2>2, <2>5, HeightsAreNat DEF Parts
  <2>7. \/ s = Place(t, e, ItemHeight(i), "whole")
        \/ s = Place(Flush(q), e, ContinuationHeight(i), "box")
    BY <1>1, <1>4, <1>5, <1>6, <1>7, HeightsAreNat, PaginationAssumption DEF Put, t, q
  <2> QED
    BY <2>3, <2>6, <2>7
<1>9. Paginate(list, Says[d]) = Flush(s).pages
  BY <1>2, <1>3, <1>8 DEF Paginate
<1>10. s \in Pagings
  BY <1>1, <1>7, PutIsTyped
<1> HIDE DEF s
<1>11. Flush(s).pages # <<>>
  <2>1. s.pages \in Seq(Seq(Lines)) /\ s.current \in Seq(Lines)
    BY <1>10 DEF Pagings
  <2>2. /\ Len(Book(s)) = Len(s.pages) + 1 /\ Len(s.pages) \in Nat
        /\ Len(<<>>) = 0
    BY <2>1 DEF Book
  <2> QED
    BY <1>10, <2>2, FlushIs
<1> QED
  BY <1>9, <1>11 DEF TooTall

-----------------------------------------------------------------------------
(* Numbers and their bits                                                  *)

AreHalves(h, v, w) ==
    /\ h \in [0 .. w -> Nat] /\ h[0] = v
    /\ \A k \in 1 .. w : h[k - 1] \in Nat /\ h[k] = h[k - 1] \div 2

LEMMA HalvesIs ==
    ASSUME NEW v \in Nat, NEW w \in Nat
    PROVE  AreHalves(Halves(v, w), v, w)
<1> DEFINE body(f) == [k \in 0 .. w |-> IF k = 0 THEN v ELSE f[k - 1] \div 2]
           halved == CHOOSE f : f = body(f)
           step == [k \in 1 .. w |-> [x \in Nat |-> x \div 2]]
           S == Nat
<1>1. step \in Steps(w, S) /\ v \in S
  BY Quotient DEF Steps
<1>2. PICK f : Recurs(f, w, S, v, step)
  <2> HIDE DEF step, S
  <2> QED
    BY <1>1, Recursion
<1>3. /\ f \in [0 .. w -> Nat] /\ f[0] = v
      /\ \A k \in 1 .. w : f[k] = step[k][f[k - 1]]
  BY <1>2 DEF Recurs
<1>4. ASSUME NEW k \in 1 .. w PROVE f[k] = f[k - 1] \div 2 /\ f[k - 1] \in Nat
  <2>1. k - 1 \in 0 .. w
    OBVIOUS
  <2>2. f[k - 1] \in Nat
    BY <1>3, <2>1
  <2> QED
    BY <1>3, <2>2
<1>5. f = body(f)
  <2>1. \A k \in 0 .. w : k # 0 => k \in 1 .. w
    OBVIOUS
  <2>2. \A k \in 0 .. w : f[k] = IF k = 0 THEN v ELSE f[k - 1] \div 2
    BY <1>3, <1>4, <2>1
  <2> HIDE DEF step
  <2> QED
    BY <1>3, <2>2
<1>6. halved = body(halved)
  <2> HIDE DEF body
  <2> QED
    BY <1>5
<1>7. Halves(v, w) = halved
  BY DEF Halves
<1> HIDE DEF halved
<1>8. halved[0] = v
  BY <1>6
<1>9. \A k \in 1 .. w : halved[k] = halved[k - 1] \div 2
  BY <1>6
<1>10. \A k \in 0 .. w : halved[k] \in Nat
  <2> DEFINE T == {k \in 0 .. w : halved[k] \in Nat}
  <2>1. 0 \in T
    BY <1>8
  <2>2. ASSUME NEW k \in 1 .. w, k - 1 \in T PROVE k \in T
    <3>1. halved[k - 1] \in Nat /\ k \in 0 .. w
      BY <2>2
    <3> QED
      BY <1>9, <3>1, Quotient
  <2> HIDE DEF T
  <2>3. \A k \in 0 .. w : k \in T
    BY <2>1, <2>2, Induction
  <2> QED
    BY <2>3 DEF T
<1>11. halved \in [0 .. w -> Nat]
  BY <1>6, <1>10
<1>12. \A k \in 1 .. w : halved[k - 1] \in Nat
  <2>1. \A k \in 1 .. w : k - 1 \in 0 .. w
    OBVIOUS
  <2> QED
    BY <1>10, <2>1
<1> QED
  BY <1>7, <1>8, <1>9, <1>11, <1>12 DEF AreHalves

LEMMA ValueUpToIs ==
    ASSUME NEW bits \in Seq({0, 1})
    PROVE  /\ ValueUpTo(bits)[0] = 0
           /\ \A k \in 1 .. Len(bits) :
                ValueUpTo(bits)[k] = 2 * ValueUpTo(bits)[k - 1] + bits[k]
<1> DEFINE N == Len(bits)
           body(f) == [k \in 0 .. N |-> IF k = 0 THEN 0 ELSE 2 * f[k - 1] + bits[k]]
           upTo == CHOOSE f : f = body(f)
           step == [k \in 1 .. N |-> [x \in Nat |-> 2 * x + bits[k]]]
           S == Nat
           start == 0
<1>0. N \in Nat /\ \A k \in 1 .. N : bits[k] \in Nat
  OBVIOUS
<1> HIDE DEF N
<1>1. step \in Steps(N, S) /\ start \in S
  BY <1>0 DEF Steps
<1>2. PICK f : Recurs(f, N, S, start, step)
  <2> HIDE DEF step, S, start
  <2> QED
    BY <1>0, <1>1, Recursion
<1>3. /\ f \in [0 .. N -> Nat] /\ f[0] = 0
      /\ \A k \in 1 .. N : f[k] = step[k][f[k - 1]]
  BY <1>2 DEF Recurs
<1>4. ASSUME NEW k \in 1 .. N PROVE f[k] = 2 * f[k - 1] + bits[k]
  <2>1. k - 1 \in 0 .. N
    BY <1>0
  <2>2. f[k - 1] \in Nat
    BY <1>3, <2>1
  <2> QED
    BY <1>3, <2>2
<1>5. f = body(f)
  <2>1. \A k \in 0 .. N : k # 0 => k \in 1 .. N
    BY <1>0
  <2>2. \A k \in 0 .. N : f[k] = IF k = 0 THEN 0 ELSE 2 * f[k - 1] + bits[k]
    BY <1>3, <1>4, <2>1
  <2> HIDE DEF step
  <2> QED
    BY <1>3, <2>2
<1>6. upTo = body(upTo)
  <2> HIDE DEF body
  <2> QED
    BY <1>5
<1>7. ValueUpTo(bits) = upTo
  BY DEF ValueUpTo, N
<1> HIDE DEF upTo
<1>8. upTo[0] = 0
  BY <1>0, <1>6
<1>9. \A k \in 1 .. N : upTo[k] = 2 * upTo[k - 1] + bits[k]
  BY <1>0, <1>6
<1> QED
  BY <1>7, <1>8, <1>9 DEF N

LEMMA BitsAreBits ==
    ASSUME NEW v \in Nat, NEW w \in Nat
    PROVE  Bits(v, w) \in Seq({0, 1}) /\ Len(Bits(v, w)) = w
<1>1. ASSUME NEW k \in 1 .. w PROVE Halves(v, w)[w - k] % 2 \in {0, 1}
  <2>1. w - k \in 0 .. w
    OBVIOUS
  <2>2. Halves(v, w)[w - k] \in Nat
    BY <2>1, HalvesIs DEF AreHalves
  <2> QED
    BY <2>2
<1>2. Bits(v, w) \in [1 .. w -> {0, 1}]
  BY <1>1 DEF Bits
<1> QED
  BY <1>2

\* A number that its bits can hold comes back from them.
LEMMA BitsComeBack ==
    ASSUME NEW v \in Nat, NEW w \in Nat, Halves(v, w)[w] = 0
    PROVE  Value(Bits(v, w)) = v
<1> DEFINE h == Halves(v, w)
           bits == Bits(v, w)
           upTo == ValueUpTo(bits)
           S == {k \in 0 .. w : upTo[k] = h[w - k]}
<1>1. /\ h \in [0 .. w -> Nat] /\ h[0] = v /\ h[w] = 0
      /\ \A k \in 1 .. w : h[k] = h[k - 1] \div 2
  <2>1. AreHalves(h, v, w)
    BY HalvesIs
  <2> QED
    BY <2>1 DEF AreHalves
<1>2. bits \in Seq({0, 1}) /\ Len(bits) = w
  BY BitsAreBits
<1>3. \A k \in 1 .. w : bits[k] = h[w - k] % 2
  BY DEF Bits
<1> HIDE DEF h, bits
<1>4. upTo[0] = 0 /\ \A k \in 1 .. w : upTo[k] = 2 * upTo[k - 1] + bits[k]
  BY <1>2, ValueUpToIs
<1> HIDE DEF upTo
<1>5. 0 \in S
  BY <1>1, <1>4
<1>6. ASSUME NEW k \in 1 .. w, k - 1 \in S PROVE k \in S
  <2>1. /\ w - k \in 0 .. w /\ (w - k) + 1 \in 1 .. w /\ w - (k - 1) = (w - k) + 1
        /\ k \in 0 .. w
    OBVIOUS
  <2>2. h[(w - k) + 1] = h[w - k] \div 2 /\ h[w - k] \in Nat
    BY <1>1, <2>1
  <2>3. upTo[k - 1] = h[(w - k) + 1]
    BY <1>6, <2>1
  <2>4. upTo[k] = 2 * (h[w - k] \div 2) + (h[w - k] % 2)
    BY <1>3, <1>4, <2>2, <2>3
  <2> QED
    BY <2>1, <2>2, <2>4
<1>7. \A k \in 0 .. w : k \in S
  <2> HIDE DEF S
  <2> QED
    BY <1>5, <1>6, Induction
<1>8. upTo[w] = h[0]
  BY <1>7
<1> QED
  BY <1>1, <1>2, <1>8 DEF Value, upTo, bits

LEMMA Halved ==
    ASSUME NEW m \in Nat, NEW n \in Nat, n <= 2 * m + 1
    PROVE  n \div 2 <= m
OBVIOUS

LEMMA HalvesFit3 ==
    ASSUME NEW v \in 0 .. 7
    PROVE  Halves(v, 3)[3] = 0
<1> DEFINE h == Halves(v, 3)
<1>0. /\ h[0] = v /\ h[3] \in Nat
      /\ \A k \in 1 .. 3 : h[k - 1] \in Nat /\ h[k] = h[k - 1] \div 2
  <2>1. v \in Nat /\ 3 \in Nat
    OBVIOUS
  <2>2. AreHalves(h, v, 3)
    BY <2>1, HalvesIs
  <2> QED
    BY <2>2 DEF AreHalves
<1> HIDE DEF h
<1>1. h[1] <= 3
  BY <1>0, 1 \in 1 .. 3, 1 - 1 = 0, Halved
<1>2. h[2] <= 1
  BY <1>0, <1>1, 2 \in 1 .. 3, 2 - 1 = 1, Halved
<1>3. h[3] <= 0
  BY <1>0, <1>2, 3 \in 1 .. 3, 3 - 1 = 2, Halved
<1>4. h[3] = 0
  BY <1>0, <1>3
<1> QED
  BY <1>4 DEF h

LEMMA HalvesFit4 ==
    ASSUME NEW v \in 0 .. 15
    PROVE  Halves(v, 4)[4] = 0
<1> DEFINE h == Halves(v, 4)
<1>0. /\ h[0] = v /\ h[4] \in Nat
      /\ \A k \in 1 .. 4 : h[k - 1] \in Nat /\ h[k] = h[k - 1] \div 2
  <2>1. v \in Nat /\ 4 \in Nat
    OBVIOUS
  <2>2. AreHalves(h, v, 4)
    BY <2>1, HalvesIs
  <2> QED
    BY <2>2 DEF AreHalves
<1> HIDE DEF h
<1>1. h[1] <= 7
  BY <1>0, 1 \in 1 .. 4, 1 - 1 = 0, Halved
<1>2. h[2] <= 3
  BY <1>0, <1>1, 2 \in 1 .. 4, 2 - 1 = 1, Halved
<1>3. h[3] <= 1
  BY <1>0, <1>2, 3 \in 1 .. 4, 3 - 1 = 2, Halved
<1>4. h[4] <= 0
  BY <1>0, <1>3, 4 \in 1 .. 4, 4 - 1 = 3, Halved
<1>5. h[4] = 0
  BY <1>0, <1>4
<1> QED
  BY <1>5 DEF h

LEMMA HalvesFit5 ==
    ASSUME NEW v \in 0 .. 31
    PROVE  Halves(v, 5)[5] = 0
<1> DEFINE h == Halves(v, 5)
<1>0. /\ h[0] = v /\ h[5] \in Nat
      /\ \A k \in 1 .. 5 : h[k - 1] \in Nat /\ h[k] = h[k - 1] \div 2
  <2>1. v \in Nat /\ 5 \in Nat
    OBVIOUS
  <2>2. AreHalves(h, v, 5)
    BY <2>1, HalvesIs
  <2> QED
    BY <2>2 DEF AreHalves
<1> HIDE DEF h
<1>1. h[1] <= 15
  BY <1>0, 1 \in 1 .. 5, 1 - 1 = 0, Halved
<1>2. h[2] <= 7
  BY <1>0, <1>1, 2 \in 1 .. 5, 2 - 1 = 1, Halved
<1>3. h[3] <= 3
  BY <1>0, <1>2, 3 \in 1 .. 5, 3 - 1 = 2, Halved
<1>4. h[4] <= 1
  BY <1>0, <1>3, 4 \in 1 .. 5, 4 - 1 = 3, Halved
<1>5. h[5] <= 0
  BY <1>0, <1>4, 5 \in 1 .. 5, 5 - 1 = 4, Halved
<1>6. h[5] = 0
  BY <1>0, <1>5
<1> QED
  BY <1>6 DEF h

LEMMA HalvesFit7 ==
    ASSUME NEW v \in 0 .. 127
    PROVE  Halves(v, 7)[7] = 0
<1> DEFINE h == Halves(v, 7)
<1>0. /\ h[0] = v /\ h[7] \in Nat
      /\ \A k \in 1 .. 7 : h[k - 1] \in Nat /\ h[k] = h[k - 1] \div 2
  <2>1. v \in Nat /\ 7 \in Nat
    OBVIOUS
  <2>2. AreHalves(h, v, 7)
    BY <2>1, HalvesIs
  <2> QED
    BY <2>2 DEF AreHalves
<1> HIDE DEF h
<1>1. h[1] <= 63
  BY <1>0, 1 \in 1 .. 7, 1 - 1 = 0, Halved
<1>2. h[2] <= 31
  BY <1>0, <1>1, 2 \in 1 .. 7, 2 - 1 = 1, Halved
<1>3. h[3] <= 15
  BY <1>0, <1>2, 3 \in 1 .. 7, 3 - 1 = 2, Halved
<1>4. h[4] <= 7
  BY <1>0, <1>3, 4 \in 1 .. 7, 4 - 1 = 3, Halved
<1>5. h[5] <= 3
  BY <1>0, <1>4, 5 \in 1 .. 7, 5 - 1 = 4, Halved
<1>6. h[6] <= 1
  BY <1>0, <1>5, 6 \in 1 .. 7, 6 - 1 = 5, Halved
<1>7. h[7] <= 0
  BY <1>0, <1>6, 7 \in 1 .. 7, 7 - 1 = 6, Halved
<1>8. h[7] = 0
  BY <1>0, <1>7
<1> QED
  BY <1>8 DEF h

LEMMA HalvesFit23 ==
    ASSUME NEW v \in Nat, v <= 8388607
    PROVE  Halves(v, 23)[23] = 0
<1> DEFINE h == Halves(v, 23)
<1>0. /\ h[0] = v /\ h[23] \in Nat
      /\ \A k \in 1 .. 23 : h[k - 1] \in Nat /\ h[k] = h[k - 1] \div 2
  <2>1. v \in Nat /\ 23 \in Nat
    OBVIOUS
  <2>2. AreHalves(h, v, 23)
    BY <2>1, HalvesIs
  <2> QED
    BY <2>2 DEF AreHalves
<1> HIDE DEF h
<1>1. h[1] <= 4194303
  BY <1>0, 1 \in 1 .. 23, 1 - 1 = 0, Halved
<1>2. h[2] <= 2097151
  BY <1>0, <1>1, 2 \in 1 .. 23, 2 - 1 = 1, Halved
<1>3. h[3] <= 1048575
  BY <1>0, <1>2, 3 \in 1 .. 23, 3 - 1 = 2, Halved
<1>4. h[4] <= 524287
  BY <1>0, <1>3, 4 \in 1 .. 23, 4 - 1 = 3, Halved
<1>5. h[5] <= 262143
  BY <1>0, <1>4, 5 \in 1 .. 23, 5 - 1 = 4, Halved
<1>6. h[6] <= 131071
  BY <1>0, <1>5, 6 \in 1 .. 23, 6 - 1 = 5, Halved
<1>7. h[7] <= 65535
  BY <1>0, <1>6, 7 \in 1 .. 23, 7 - 1 = 6, Halved
<1>8. h[8] <= 32767
  BY <1>0, <1>7, 8 \in 1 .. 23, 8 - 1 = 7, Halved
<1>9. h[9] <= 16383
  BY <1>0, <1>8, 9 \in 1 .. 23, 9 - 1 = 8, Halved
<1>10. h[10] <= 8191
  BY <1>0, <1>9, 10 \in 1 .. 23, 10 - 1 = 9, Halved
<1>11. h[11] <= 4095
  BY <1>0, <1>10, 11 \in 1 .. 23, 11 - 1 = 10, Halved
<1>12. h[12] <= 2047
  BY <1>0, <1>11, 12 \in 1 .. 23, 12 - 1 = 11, Halved
<1>13. h[13] <= 1023
  BY <1>0, <1>12, 13 \in 1 .. 23, 13 - 1 = 12, Halved
<1>14. h[14] <= 511
  BY <1>0, <1>13, 14 \in 1 .. 23, 14 - 1 = 13, Halved
<1>15. h[15] <= 255
  BY <1>0, <1>14, 15 \in 1 .. 23, 15 - 1 = 14, Halved
<1>16. h[16] <= 127
  BY <1>0, <1>15, 16 \in 1 .. 23, 16 - 1 = 15, Halved
<1>17. h[17] <= 63
  BY <1>0, <1>16, 17 \in 1 .. 23, 17 - 1 = 16, Halved
<1>18. h[18] <= 31
  BY <1>0, <1>17, 18 \in 1 .. 23, 18 - 1 = 17, Halved
<1>19. h[19] <= 15
  BY <1>0, <1>18, 19 \in 1 .. 23, 19 - 1 = 18, Halved
<1>20. h[20] <= 7
  BY <1>0, <1>19, 20 \in 1 .. 23, 20 - 1 = 19, Halved
<1>21. h[21] <= 3
  BY <1>0, <1>20, 21 \in 1 .. 23, 21 - 1 = 20, Halved
<1>22. h[22] <= 1
  BY <1>0, <1>21, 22 \in 1 .. 23, 22 - 1 = 21, Halved
<1>23. h[23] <= 0
  BY <1>0, <1>22, 23 \in 1 .. 23, 23 - 1 = 22, Halved
<1>24. h[23] = 0
  BY <1>0, <1>23
<1> QED
  BY <1>24 DEF h

-----------------------------------------------------------------------------
(* Shift registers                                                         *)

Regs(w) == SUBSET (0 .. w - 1)
IsPoly(poly, w) == w \in Nat \ {0} /\ poly \in Regs(w) /\ 0 \in poly

\* The register after a zero: multiplied by x.
Times(r, w, poly) ==
    IF w - 1 \in r THEN Xor(Doubled(r, w), poly) ELSE Doubled(r, w)

LEMMA XorIs == \A a, b, x : x \in Xor(a, b) <=> (x \in a <=> x \notin b)
BY DEF Xor

LEMMA XorCancels ==
    /\ \A a : Xor(a, a) = {} /\ Xor(a, {}) = a /\ Xor({}, a) = a
    /\ \A a, b : Xor(Xor(a, b), b) = a /\ (Xor(a, b) = {} => a = b)
    /\ \A a, b, c, d : Xor(Xor(a, b), Xor(c, d)) = Xor(Xor(a, c), Xor(b, d))
    /\ \A a, b, c : Xor(Xor(a, b), Xor(c, b)) = Xor(a, c)
    /\ \A a, b, c : Xor(Xor(a, b), c) = Xor(Xor(a, c), b)
    /\ \A a, b, c : Xor(a, Xor(b, c)) = Xor(Xor(a, c), b)
<1>1. \A a : Xor(a, a) = {} /\ Xor(a, {}) = a /\ Xor({}, a) = a
  BY DEF Xor
<1>2. \A a, b : Xor(Xor(a, b), b) = a /\ (Xor(a, b) = {} => a = b)
  BY DEF Xor
<1>3. \A a, b, c, d : Xor(Xor(a, b), Xor(c, d)) = Xor(Xor(a, c), Xor(b, d))
  <2> TAKE a, b, c, d
  <2>1. \A x : x \in Xor(Xor(a, b), Xor(c, d)) <=> x \in Xor(Xor(a, c), Xor(b, d))
    BY XorIs
  <2> QED
    BY <2>1
<1>4. \A a, b, c : Xor(Xor(a, b), Xor(c, b)) = Xor(a, c)
  <2> TAKE a, b, c
  <2>1. \A x : x \in Xor(Xor(a, b), Xor(c, b)) <=> x \in Xor(a, c)
    BY XorIs
  <2> QED
    BY <2>1
<1>5. \A a, b, c : Xor(Xor(a, b), c) = Xor(Xor(a, c), b)
  <2> TAKE a, b, c
  <2>1. \A x : x \in Xor(Xor(a, b), c) <=> x \in Xor(Xor(a, c), b)
    BY XorIs
  <2> QED
    BY <2>1
<1>6. \A a, b, c : Xor(a, Xor(b, c)) = Xor(Xor(a, c), b)
  <2> TAKE a, b, c
  <2>1. \A x : x \in Xor(a, Xor(b, c)) <=> x \in Xor(Xor(a, c), b)
    BY XorIs
  <2> QED
    BY <2>1
<1> QED
  BY <1>1, <1>2, <1>3, <1>4, <1>5, <1>6

LEMMA XorIsTyped ==
    ASSUME NEW w, NEW a \in Regs(w), NEW b \in Regs(w)
    PROVE  Xor(a, b) \in Regs(w)
BY DEF Xor, Regs

LEMMA DoubledIs ==
    ASSUME NEW w \in Nat \ {0}, NEW r \in Regs(w)
    PROVE  \A n : n \in Doubled(r, w) <=> n \in 1 .. w - 1 /\ n - 1 \in r
<1> TAKE n
<1>1. \A m \in r : m \in Int /\ 0 <= m /\ m <= w - 1
  BY DEF Regs
<1>2. n \in Doubled(r, w) <=> (\E m \in r : n = m + 1) /\ n # w
  BY DEF Doubled
<1>3. ASSUME NEW m \in r, n = m + 1, n # w PROVE n \in 1 .. w - 1 /\ n - 1 \in r
  <2>1. n - 1 = m
    BY <1>1, <1>3
  <2> QED
    BY <1>1, <1>3, <2>1
<1>4. ASSUME n \in 1 .. w - 1, n - 1 \in r PROVE n # w /\ \E m \in r : n = m + 1
  <2>1. n = (n - 1) + 1 /\ n # w
    BY <1>4
  <2> QED
    BY <1>4, <2>1
<1> QED
  BY <1>2, <1>3, <1>4

LEMMA DoubledIsTyped ==
    ASSUME NEW w \in Nat \ {0}, NEW r \in Regs(w)
    PROVE  Doubled(r, w) \in Regs(w)
<1>1. \A n : n \in 1 .. w - 1 => n \in 0 .. w - 1
  OBVIOUS
<1> QED
  BY <1>1, DoubledIs DEF Regs

LEMMA TimesIsTyped ==
    ASSUME NEW w, NEW poly, IsPoly(poly, w), NEW r \in Regs(w)
    PROVE  Times(r, w, poly) \in Regs(w)
BY DoubledIsTyped, XorIsTyped DEF Times, IsPoly

LEMMA TimesIsLinear ==
    ASSUME NEW w, NEW poly, IsPoly(poly, w),
           NEW a \in Regs(w), NEW b \in Regs(w)
    PROVE  Times(Xor(a, b), w, poly) = Xor(Times(a, w, poly), Times(b, w, poly))
<1>1. Doubled(Xor(a, b), w) = Xor(Doubled(a, w), Doubled(b, w))
  <2>1. Xor(a, b) \in Regs(w) /\ w \in Nat \ {0}
    BY XorIsTyped DEF IsPoly
  <2>2. \A n : n \in Doubled(Xor(a, b), w) <=> n \in 1 .. w - 1 /\ n - 1 \in Xor(a, b)
    BY <2>1, DoubledIs
  <2>3. \A n : n \in Doubled(a, w) <=> n \in 1 .. w - 1 /\ n - 1 \in a
    BY <2>1, DoubledIs
  <2>4. \A n : n \in Doubled(b, w) <=> n \in 1 .. w - 1 /\ n - 1 \in b
    BY <2>1, DoubledIs
  <2>5. \A n : n \in Doubled(Xor(a, b), w) <=> n \in Xor(Doubled(a, w), Doubled(b, w))
    BY <2>2, <2>3, <2>4, XorIs
  <2> QED
    BY <2>5
<1>2. w - 1 \in Xor(a, b) <=> (w - 1 \in a <=> w - 1 \notin b)
  BY XorIs
<1> DEFINE x == Doubled(a, w)
           y == Doubled(b, w)
<1>3. /\ Xor(Xor(x, poly), Xor(y, poly)) = Xor(x, y)
      /\ Xor(Xor(x, poly), y) = Xor(Xor(x, y), poly)
      /\ Xor(x, Xor(y, poly)) = Xor(Xor(x, y), poly)
  <2>1. Xor(x, Xor(y, poly)) = Xor(Xor(x, poly), y)
    BY XorCancels
  <2>2. Xor(Xor(x, poly), y) = Xor(Xor(x, y), poly)
    BY XorCancels
  <2>3. Xor(Xor(x, poly), Xor(y, poly)) = Xor(x, y)
    BY XorCancels
  <2> QED
    BY <2>1, <2>2, <2>3
<1> QED
  BY <1>1, <1>2, <1>3 DEF Times

LEMMA TimesOfNone ==
    ASSUME NEW w, NEW poly
    PROVE  Times({}, w, poly) = {}
BY DEF Times, Doubled

\* No register but the empty one is lost by a zero: the lowest term sees to it.
LEMMA TimesKeeps ==
    ASSUME NEW w, NEW poly, IsPoly(poly, w), NEW r \in Regs(w),
           Times(r, w, poly) = {}
    PROVE  r = {}
<1>1. w \in Nat \ {0} /\ 0 \in poly
  BY DEF IsPoly
<1>2. w - 1 \notin r
  <2> SUFFICES ASSUME w - 1 \in r PROVE FALSE
    OBVIOUS
  <2>1. 0 \notin Doubled(r, w)
    BY <1>1, DoubledIs
  <2>2. 0 \in Xor(Doubled(r, w), poly)
    BY <1>1, <2>1, XorIs
  <2> QED
    BY <2>2 DEF Times
<1>3. Doubled(r, w) = {}
  BY <1>2 DEF Times
<1>4. ASSUME NEW n \in r PROVE FALSE
  <2>1. n \in 0 .. w - 1 /\ n # w - 1
    BY <1>2 DEF Regs
  <2>2. n + 1 \in 1 .. w - 1 /\ (n + 1) - 1 = n
    BY <1>1, <2>1
  <2>3. n + 1 \in Doubled(r, w)
    BY <1>1, <1>4, <2>2, DoubledIs
  <2> QED
    BY <1>3, <2>3
<1> QED
  BY <1>4

LEMMA TimesIsInjective ==
    ASSUME NEW w, NEW poly, IsPoly(poly, w),
           NEW a \in Regs(w), NEW b \in Regs(w),
           Times(a, w, poly) = Times(b, w, poly)
    PROVE  a = b
<1>1. Xor(a, b) \in Regs(w)
  BY XorIsTyped
<1>2. Times(Xor(a, b), w, poly) = {}
  <2>1. Times(Xor(a, b), w, poly) = Xor(Times(a, w, poly), Times(b, w, poly))
    BY TimesIsLinear
  <2> QED
    BY <2>1, XorCancels
<1>3. Xor(a, b) = {}
  BY <1>1, <1>2, TimesKeeps
<1> QED
  BY <1>3, XorCancels

\* A one adds the polynomial to what a zero makes of the register.
LEMMA ShiftIs ==
    ASSUME NEW w, NEW poly, NEW r, NEW bit \in {0, 1}
    PROVE  Shift(r, bit, w, poly)
             = IF bit = 1 THEN Xor(Times(r, w, poly), poly) ELSE Times(r, w, poly)
<1>1. Xor(Xor(Doubled(r, w), poly), poly) = Doubled(r, w)
  BY XorCancels
<1> QED
  BY <1>1 DEF Shift, Times

LEMMA ShiftIsTyped ==
    ASSUME NEW w, NEW poly, IsPoly(poly, w), NEW r \in Regs(w), NEW bit
    PROVE  Shift(r, bit, w, poly) \in Regs(w)
BY DoubledIsTyped, XorIsTyped DEF Shift, IsPoly

\* Two registers stay as far apart, unless one is fed another bit.
LEMMA ShiftsDiffer ==
    ASSUME NEW w, NEW poly, IsPoly(poly, w),
           NEW r \in Regs(w), NEW s \in Regs(w),
           NEW b \in {0, 1}, NEW c \in {0, 1}
    PROVE  Xor(Shift(r, b, w, poly), Shift(s, c, w, poly))
             = IF b = c THEN Times(Xor(r, s), w, poly)
               ELSE Xor(Times(Xor(r, s), w, poly), poly)
<1> DEFINE x == Times(r, w, poly)
           y == Times(s, w, poly)
<1>1. Times(Xor(r, s), w, poly) = Xor(x, y)
  BY TimesIsLinear
<1>2. /\ Shift(r, b, w, poly) = IF b = 1 THEN Xor(x, poly) ELSE x
      /\ Shift(s, c, w, poly) = IF c = 1 THEN Xor(y, poly) ELSE y
  BY ShiftIs
<1> HIDE DEF x, y
<1>3. /\ Xor(Xor(x, poly), Xor(y, poly)) = Xor(x, y)
      /\ Xor(Xor(x, poly), y) = Xor(Xor(x, y), poly)
      /\ Xor(x, Xor(y, poly)) = Xor(Xor(x, y), poly)
  <2>1. Xor(x, Xor(y, poly)) = Xor(Xor(x, poly), y)
    BY XorCancels
  <2>2. Xor(Xor(x, poly), y) = Xor(Xor(x, y), poly)
    BY XorCancels
  <2>3. Xor(Xor(x, poly), Xor(y, poly)) = Xor(x, y)
    BY XorCancels
  <2> QED
    BY <2>1, <2>2, <2>3
<1> QED
  BY <1>1, <1>2, <1>3

AreRegisters(f, bits, start, w, poly) ==
    /\ f \in [0 .. Len(bits) -> Regs(w)] /\ f[0] = start
    /\ \A k \in 1 .. Len(bits) : f[k] = Shift(f[k - 1], bits[k], w, poly)

LEMMA RegistersAre ==
    ASSUME NEW w, NEW poly, IsPoly(poly, w), NEW start \in Regs(w),
           NEW bits \in Seq({0, 1})
    PROVE  AreRegisters(Registers(bits, start, w, poly), bits, start, w, poly)
<1> DEFINE N == Len(bits)
           body(f) == [k \in 0 .. N |-> IF k = 0 THEN start
                                        ELSE Shift(f[k - 1], bits[k], w, poly)]
           after == CHOOSE f : f = body(f)
           S == Regs(w)
           step == [k \in 1 .. N |-> [r \in S |-> Shift(r, bits[k], w, poly)]]
<1>0. N \in Nat
  OBVIOUS
<1> HIDE DEF N
<1>1. step \in Steps(N, S)
  <2>1. \A k \in 1 .. N : \A r \in S : Shift(r, bits[k], w, poly) \in S
    BY ShiftIsTyped
  <2> QED
    BY <2>1 DEF Steps
<1>2. PICK f : Recurs(f, N, S, start, step)
  <2> HIDE DEF step
  <2> QED
    BY <1>0, <1>1, Recursion
<1>3. /\ f \in [0 .. N -> S] /\ f[0] = start
      /\ \A k \in 1 .. N : f[k] = step[k][f[k - 1]]
  BY <1>2 DEF Recurs
<1>4. ASSUME NEW k \in 1 .. N PROVE f[k] = Shift(f[k - 1], bits[k], w, poly)
  <2>1. k - 1 \in 0 .. N
    BY <1>0
  <2>2. f[k - 1] \in S
    BY <1>3, <2>1
  <2> QED
    BY <1>3, <2>2
<1>5. f = body(f)
  <2>1. \A k \in 0 .. N : k # 0 => k \in 1 .. N
    BY <1>0
  <2>2. \A k \in 0 .. N : f[k] = IF k = 0 THEN start
                                   ELSE Shift(f[k - 1], bits[k], w, poly)
    BY <1>3, <1>4, <2>1
  <2> HIDE DEF step
  <2> QED
    BY <1>3, <2>2
<1>6. after = body(after)
  <2> HIDE DEF body
  <2> QED
    BY <1>5
<1>7. Registers(bits, start, w, poly) = after
  BY DEF Registers, N
<1> HIDE DEF after
<1>8. after[0] = start
  BY <1>0, <1>6
<1>9. \A k \in 1 .. N : after[k] = Shift(after[k - 1], bits[k], w, poly)
  BY <1>0, <1>6
<1>10. \A k \in 0 .. N : after[k] \in S
  <2> DEFINE T == {k \in 0 .. N : after[k] \in S}
  <2>1. 0 \in T
    BY <1>0, <1>8
  <2>2. ASSUME NEW k \in 1 .. N, k - 1 \in T PROVE k \in T
    <3>1. after[k - 1] \in S /\ k \in 0 .. N
      BY <1>0, <2>2
    <3>2. Shift(after[k - 1], bits[k], w, poly) \in S
      BY <3>1, ShiftIsTyped
    <3> QED
      BY <1>9, <3>1, <3>2
  <2> HIDE DEF T
  <2>3. \A k \in 0 .. N : k \in T
    BY <1>0, <2>1, <2>2, Induction
  <2> QED
    BY <2>3 DEF T
<1>11. after \in [0 .. N -> S]
  BY <1>6, <1>10
<1> QED
  BY <1>7, <1>8, <1>9, <1>11 DEF AreRegisters, N

LEMMA CrcIsTyped ==
    ASSUME NEW w, NEW poly, IsPoly(poly, w), NEW start \in Regs(w),
           NEW bits \in Seq({0, 1})
    PROVE  Crc(bits, start, w, poly) \in Regs(w)
<1>1. AreRegisters(Registers(bits, start, w, poly), bits, start, w, poly)
  BY RegistersAre
<1>2. Len(bits) \in 0 .. Len(bits)
  OBVIOUS
<1> QED
  BY <1>1, <1>2 DEF AreRegisters, Crc

\* The powers of x: what becomes of a register with the lowest bit on.
ArePowers(f, N, w, poly) ==
    /\ f \in [0 .. N -> Regs(w)] /\ f[0] = {0}
    /\ \A k \in 1 .. N : f[k] = Times(f[k - 1], w, poly)

LEMMA PowersAre ==
    ASSUME NEW w, NEW poly, IsPoly(poly, w), NEW N \in Nat
    PROVE  \E f : ArePowers(f, N, w, poly)
<1> DEFINE S == Regs(w)
           step == [k \in 1 .. N |-> [r \in S |-> Times(r, w, poly)]]
           start == {0}
<1>1. step \in Steps(N, S)
  <2>1. \A r \in S : Times(r, w, poly) \in S
    BY TimesIsTyped
  <2> QED
    BY <2>1 DEF Steps
<1>2. start \in S
  BY DEF Regs, IsPoly
<1>3. PICK f : Recurs(f, N, S, start, step)
  <2> HIDE DEF step, S, start
  <2> QED
    BY <1>1, <1>2, Recursion
<1>4. /\ f \in [0 .. N -> S] /\ f[0] = {0}
      /\ \A k \in 1 .. N : f[k] = step[k][f[k - 1]]
  BY <1>3 DEF Recurs
<1>5. ASSUME NEW k \in 1 .. N PROVE f[k] = Times(f[k - 1], w, poly)
  <2>1. k - 1 \in 0 .. N
    OBVIOUS
  <2>2. f[k - 1] \in S
    BY <1>4, <2>1
  <2> QED
    BY <1>4, <2>2
<1> QED
  BY <1>4, <1>5 DEF ArePowers

\* Below the width a power is its bit; at the width it is the polynomial.
LEMMA LowPowers ==
    ASSUME NEW w, NEW poly, IsPoly(poly, w), NEW N \in Nat, w <= N,
           NEW f, ArePowers(f, N, w, poly)
    PROVE  (\A k \in 0 .. w - 1 : f[k] = {k}) /\ f[w] = poly
<1>0. w \in Nat \ {0} /\ poly \in Regs(w)
  BY DEF IsPoly
<1>1. ASSUME NEW k \in 0 .. w - 1
      PROVE  Doubled({k}, w) = IF k = w - 1 THEN {} ELSE {k + 1}
  <2>1. {k} \in Regs(w)
    BY DEF Regs
  <2>2. \A n : n \in Doubled({k}, w) <=> n \in 1 .. w - 1 /\ n - 1 = k
    BY <1>0, <2>1, DoubledIs
  <2>3. CASE k = w - 1
    <3>1. \A n : ~(n \in 1 .. w - 1 /\ n - 1 = k)
      BY <1>0, <2>3
    <3> QED
      BY <2>2, <2>3, <3>1
  <2>4. CASE k # w - 1
    <3>1. \A n : n \in 1 .. w - 1 /\ n - 1 = k <=> n = k + 1
      BY <1>0, <2>4
    <3>2. \A n : n \in Doubled({k}, w) <=> n \in {k + 1}
      BY <2>2, <3>1
    <3>3. Doubled({k}, w) = {k + 1}
      BY <3>2
    <3> QED
      BY <2>4, <3>3
  <2> QED
    BY <2>3, <2>4
<1> DEFINE S == {k \in 0 .. w - 1 : f[k] = {k}}
           M == w - 1
<1>2. 0 \in S
  BY <1>0 DEF ArePowers
<1>3. ASSUME NEW k \in 1 .. M, k - 1 \in S PROVE k \in S
  <2>1. k - 1 \in 0 .. w - 1 /\ k - 1 # w - 1 /\ (k - 1) + 1 = k
    BY <1>0
  <2>2. f[k] = Times({k - 1}, w, poly)
    <3>1. k \in 1 .. N
      BY <1>0
    <3> QED
      BY <1>3, <3>1 DEF ArePowers
  <2>3. f[k] = Doubled({k - 1}, w)
    <3>1. w - 1 \notin {k - 1}
      BY <2>1
    <3> QED
      BY <2>2, <3>1 DEF Times
  <2>4. f[k] = {k}
    BY <1>1, <2>1, <2>3
  <2> QED
    BY <1>0, <2>4
<1>4. \A k \in 0 .. M : k \in S
  <2> HIDE DEF S
  <2>1. M \in Nat
    BY <1>0
  <2> HIDE DEF M
  <2> QED
    BY <1>2, <1>3, <2>1, Induction
<1>5. f[w - 1] = {w - 1}
  <2>1. w - 1 \in 0 .. M
    BY <1>0
  <2> QED
    BY <1>4, <2>1
<1>6. f[w] = poly
  <2>1. w \in 1 .. N
    BY <1>0
  <2>2. f[w] = Times({w - 1}, w, poly)
    BY <1>5, <2>1 DEF ArePowers
  <2>3. Doubled({w - 1}, w) = {}
    <3>1. w - 1 \in 0 .. w - 1
      BY <1>0
    <3> QED
      BY <1>1, <3>1
  <2>4. Times({w - 1}, w, poly) = Xor({}, poly)
    BY <2>3 DEF Times
  <2>5. Xor({}, poly) = poly
    BY XorCancels
  <2> QED
    BY <2>2, <2>4, <2>5
<1> QED
  BY <1>4, <1>6

\* No power is empty, and two that are equal make their quotient one.
LEMMA NoPowerIsLost ==
    ASSUME NEW w, NEW poly, IsPoly(poly, w), NEW N \in Nat,
           NEW f, ArePowers(f, N, w, poly), NEW k \in 0 .. N
    PROVE  f[k] # {}
<1> DEFINE S == {n \in 0 .. N : f[n] # {}}
<1>1. 0 \in S
  <2>1. f[0] # {} /\ 0 \in 0 .. N
    BY DEF ArePowers
  <2> QED
    BY <2>1
<1>2. ASSUME NEW n \in 1 .. N, n - 1 \in S PROVE n \in S
  <2>1. f[n - 1] \in Regs(w) /\ f[n - 1] # {} /\ f[n] = Times(f[n - 1], w, poly)
    BY <1>2 DEF ArePowers
  <2>2. f[n] # {}
    BY <2>1, TimesKeeps
  <2> QED
    BY <2>2
<1>3. \A n \in 0 .. N : n \in S
  <2> HIDE DEF S
  <2> QED
    BY <1>1, <1>2, Induction
<1> QED
  BY <1>3

LEMMA EqualPowers ==
    ASSUME NEW w, NEW poly, IsPoly(poly, w), NEW N \in Nat,
           NEW f, ArePowers(f, N, w, poly),
           NEW a \in 0 .. N, NEW b \in 0 .. N, b <= a, f[a] = f[b]
    PROVE  f[a - b] = {0}
<1> DEFINE S == {k \in 0 .. b : f[a - k] = f[b - k]}
<1>1. 0 \in S
  OBVIOUS
<1>2. ASSUME NEW k \in 1 .. b, k - 1 \in S PROVE k \in S
  <2> DEFINE m == a - k
             n == b - k
  <2>1. /\ m \in 0 .. N /\ n \in 0 .. N /\ m + 1 \in 1 .. N /\ n + 1 \in 1 .. N
        /\ (m + 1) - 1 = m /\ (n + 1) - 1 = n
        /\ a - (k - 1) = m + 1 /\ b - (k - 1) = n + 1
    OBVIOUS
  <2>2. f[m + 1] = f[n + 1]
    BY <1>2, <2>1
  <2> HIDE DEF m, n
  <2>3. /\ f[m] \in Regs(w) /\ f[n] \in Regs(w)
        /\ f[m + 1] = Times(f[m], w, poly) /\ f[n + 1] = Times(f[n], w, poly)
    BY <2>1 DEF ArePowers
  <2>4. f[m] = f[n]
    BY <2>2, <2>3, TimesIsInjective
  <2> QED
    BY <2>4 DEF m, n
<1>3. \A k \in 0 .. b : k \in S
  <2> HIDE DEF S
  <2>1. b \in Nat
    OBVIOUS
  <2> QED
    BY <1>1, <1>2, <2>1, Induction
<1>4. f[a - b] = f[b - b] /\ b - b = 0
  BY <1>3
<1> QED
  BY <1>4 DEF ArePowers

-----------------------------------------------------------------------------
(* Misread cells                                                           *)

\* What a bit misread at j has done to the register when k bits are in.
Trace(f, w, j, k) == IF k < j THEN {} ELSE f[w + k - j]

LEMMA TraceGrows ==
    ASSUME NEW w, NEW poly, IsPoly(poly, w), NEW N \in Nat,
           NEW f, ArePowers(f, N, w, poly),
           NEW j \in Nat \ {0}, NEW k \in Nat \ {0}, w + k <= N
    PROVE  /\ Trace(f, w, j, k - 1) \in Regs(w)
           /\ k # j => Trace(f, w, j, k) = Times(Trace(f, w, j, k - 1), w, poly)
           /\ k = j => Trace(f, w, j, k) = poly /\ Trace(f, w, j, k - 1) = {}
<1>0. w \in Nat \ {0}
  BY DEF IsPoly
<1>1. CASE k < j
  <2>1. Trace(f, w, j, k) = {} /\ Trace(f, w, j, k - 1) = {} /\ k # j
    BY <1>1 DEF Trace
  <2>2. {} \in Regs(w)
    BY DEF Regs
  <2> QED
    BY <2>1, <2>2, TimesOfNone
<1>2. CASE k = j
  <2>1. Trace(f, w, j, k - 1) = {} /\ Trace(f, w, j, k) = f[w]
    BY <1>0, <1>2 DEF Trace
  <2>2. f[w] = poly /\ {} \in Regs(w)
    BY <1>0, LowPowers DEF Regs
  <2> QED
    BY <1>2, <2>1, <2>2
<1>3. CASE k > j
  <2> DEFINE n == w + k - j
  <2>1. n \in 1 .. N /\ w + (k - 1) - j = n - 1 /\ n - 1 \in 0 .. N
    BY <1>0, <1>3
  <2>2. Trace(f, w, j, k - 1) = f[n - 1] /\ Trace(f, w, j, k) = f[n] /\ k # j
    BY <1>3, <2>1 DEF Trace
  <2> HIDE DEF n
  <2> QED
    BY <2>1, <2>2 DEF ArePowers
<1> QED
  BY <1>1, <1>2, <1>3

\* Bits n + 1, n + 2, ... of a code, as read and as printed: cells j and l, if
\* they are among them, are read as the opposite.
DifferAt(read, bits, n, j, l) ==
    \A k \in 1 .. Len(bits) : read[k] # bits[k] <=> n + k \in {j, l}

\* Two misread bits are as far from what was printed as their traces.
LEMMA RegistersDiffer ==
    ASSUME NEW w, NEW poly, IsPoly(poly, w), NEW N \in Nat,
           NEW f, ArePowers(f, N, w, poly), NEW start \in Regs(w),
           NEW bits \in Seq({0, 1}), NEW read \in Seq({0, 1}),
           Len(read) = Len(bits), w + Len(bits) <= N,
           NEW j \in Nat \ {0}, NEW l \in Nat \ {0}, j # l,
           DifferAt(read, bits, 0, j, l)
    PROVE  Xor(Crc(read, start, w, poly), Crc(bits, start, w, poly))
             = Xor(Trace(f, w, j, Len(bits)), Trace(f, w, l, Len(bits)))
<1> DEFINE L == Len(bits)
           r == Registers(read, start, w, poly)
           b == Registers(bits, start, w, poly)
           T(k) == Xor(Trace(f, w, j, k), Trace(f, w, l, k))
           S == {k \in 0 .. L : Xor(r[k], b[k]) = T(k)}
<1>0. L \in Nat /\ Len(read) = L /\ w + L <= N /\ w \in Nat \ {0}
  BY DEF IsPoly
<1>00. \A k \in 1 .. L : read[k] # bits[k] <=> k \in {j, l}
  BY DEF DifferAt
<1>1. /\ r \in [0 .. L -> Regs(w)] /\ r[0] = start
      /\ \A k \in 1 .. L : r[k] = Shift(r[k - 1], read[k], w, poly)
  <2>1. AreRegisters(r, read, start, w, poly)
    BY RegistersAre
  <2> QED
    BY <2>1 DEF AreRegisters
<1>2. /\ b \in [0 .. L -> Regs(w)] /\ b[0] = start
      /\ \A k \in 1 .. L : b[k] = Shift(b[k - 1], bits[k], w, poly)
  <2>1. AreRegisters(b, bits, start, w, poly)
    BY RegistersAre
  <2> QED
    BY <2>1 DEF AreRegisters
<1>3. \A k \in 1 .. L : bits[k] \in {0, 1} /\ read[k] \in {0, 1}
  OBVIOUS
<1>4. Crc(read, start, w, poly) = r[L] /\ Crc(bits, start, w, poly) = b[L]
  BY DEF Crc
<1> HIDE DEF r, b
<1>5. 0 \in S
  <2>1. Trace(f, w, j, 0) = {} /\ Trace(f, w, l, 0) = {}
    BY DEF Trace
  <2>2. Xor(r[0], b[0]) = {} /\ T(0) = {}
    BY <1>1, <1>2, <2>1, XorCancels
  <2>3. 0 \in 0 .. L /\ Xor(r[0], b[0]) = T(0)
    BY <1>0, <2>2
  <2> HIDE DEF T, L
  <2> QED
    BY <2>3
<1>6. ASSUME NEW k \in 1 .. L, k - 1 \in S PROVE k \in S
  <2> DEFINE tj == Trace(f, w, j, k - 1)
             tl == Trace(f, w, l, k - 1)
  <2>0. k \in Nat \ {0} /\ w + k <= N /\ k - 1 \in 0 .. L /\ k \in 0 .. L
    BY <1>0
  <2>1. /\ tj \in Regs(w)
        /\ k # j => Trace(f, w, j, k) = Times(tj, w, poly)
        /\ k = j => Trace(f, w, j, k) = poly /\ tj = {}
    BY <2>0, TraceGrows
  <2>2. /\ tl \in Regs(w)
        /\ k # l => Trace(f, w, l, k) = Times(tl, w, poly)
        /\ k = l => Trace(f, w, l, k) = poly /\ tl = {}
    BY <2>0, TraceGrows
  <2>3. Xor(r[k - 1], b[k - 1]) = Xor(tj, tl)
    BY <1>6
  <2> HIDE DEF tj, tl
  <2>4. Times(Xor(tj, tl), w, poly) = Xor(Times(tj, w, poly), Times(tl, w, poly))
    BY <2>1, <2>2, TimesIsLinear
  <2>5. r[k - 1] \in Regs(w) /\ b[k - 1] \in Regs(w)
    BY <1>1, <1>2, <2>0
  <2>6. Xor(r[k], b[k])
          = IF read[k] = bits[k] THEN Times(Xor(tj, tl), w, poly)
            ELSE Xor(Times(Xor(tj, tl), w, poly), poly)
    <3>1. Xor(Shift(r[k - 1], read[k], w, poly), Shift(b[k - 1], bits[k], w, poly))
            = IF read[k] = bits[k] THEN Times(Xor(r[k - 1], b[k - 1]), w, poly)
              ELSE Xor(Times(Xor(r[k - 1], b[k - 1]), w, poly), poly)
      BY <1>3, <2>5, ShiftsDiffer
    <3> QED
      BY <1>1, <1>2, <2>3, <3>1
  <2>7. Times({}, w, poly) = {}
    BY TimesOfNone
  <2>8. Xor(r[k], b[k]) = Xor(Trace(f, w, j, k), Trace(f, w, l, k))
    <3>1. CASE k # j /\ k # l
      BY <1>00, <2>1, <2>2, <2>4, <2>6, <3>1
    <3>2. CASE k = j
      <4>1. Xor(r[k], b[k]) = Xor(Xor({}, Times(tl, w, poly)), poly)
        BY <1>00, <2>1, <2>4, <2>6, <2>7, <3>2
      <4>2. Xor(Xor({}, Times(tl, w, poly)), poly) = Xor(poly, Times(tl, w, poly))
        BY DEF Xor
      <4> QED
        BY <2>1, <2>2, <3>2, <4>1, <4>2
    <3>3. CASE k = l
      <4>1. Xor(r[k], b[k]) = Xor(Xor(Times(tj, w, poly), {}), poly)
        BY <1>00, <2>2, <2>4, <2>6, <2>7, <3>3
      <4>2. Xor(Xor(Times(tj, w, poly), {}), poly) = Xor(Times(tj, w, poly), poly)
        BY DEF Xor
      <4> QED
        BY <2>1, <2>2, <3>3, <4>1, <4>2
    <3> QED
      BY <3>1, <3>2, <3>3
  <2> QED
    BY <2>0, <2>8
<1>7. \A k \in 0 .. L : k \in S
  <2> HIDE DEF S, L
  <2> QED
    BY <1>0, <1>5, <1>6, Induction
<1>8. L \in 0 .. L
  BY <1>0
<1>9. Xor(r[L], b[L]) = T(L)
  <2> HIDE DEF T, L
  <2> QED
    BY <1>7, <1>8
<1> QED
  BY <1>4, <1>9

-----------------------------------------------------------------------------
(* The powers of x that are not one                                        *)

LEMMA TimesBits ==
    ASSUME NEW w, NEW poly, IsPoly(poly, w), NEW r \in Regs(w),
           NEW n \in 0 .. w - 1
    PROVE  n \in Times(r, w, poly)
             <=> ((n # 0 /\ n - 1 \in r) <=> ~(w - 1 \in r /\ n \in poly))
<1>1. n \in Doubled(r, w) <=> n # 0 /\ n - 1 \in r
  <2>1. w \in Nat \ {0}
    BY DEF IsPoly
  <2>2. n \in Doubled(r, w) <=> n \in 1 .. w - 1 /\ n - 1 \in r
    BY <2>1, DoubledIs
  <2> QED
    BY <2>1, <2>2
<1> QED
  BY <1>1, XorIs DEF Times

\* A power that is one starts the powers over again, and their bits climb.
LEMMA OnesClimb ==
    ASSUME NEW w, NEW poly, IsPoly(poly, w), NEW N \in Nat,
           NEW f, ArePowers(f, N, w, poly),
           NEW d \in 0 .. N, f[d] = {0}, NEW i \in 0 .. w - 1, d + w <= N
    PROVE  f[d + i] = {i}
<1> DEFINE M == N - d
           g == [k \in 0 .. M |-> f[d + k]]
<1>1. M \in Nat /\ w <= M /\ w \in Nat \ {0}
  BY DEF IsPoly
<1>2. ArePowers(g, M, w, poly)
  <2>1. \A k \in 0 .. M : d + k \in 0 .. N
    OBVIOUS
  <2>2. g \in [0 .. M -> Regs(w)]
    BY <2>1 DEF ArePowers
  <2>3. g[0] = {0}
    BY <1>1
  <2>4. ASSUME NEW k \in 1 .. M PROVE g[k] = Times(g[k - 1], w, poly)
    <3>1. d + k \in 1 .. N /\ k \in 0 .. M /\ k - 1 \in 0 .. M
          /\ (d + k) - 1 = d + (k - 1)
      OBVIOUS
    <3>2. f[d + k] = Times(f[(d + k) - 1], w, poly)
      BY <3>1 DEF ArePowers
    <3> QED
      BY <3>1, <3>2
  <2> HIDE DEF g, M
  <2> QED
    BY <2>2, <2>3, <2>4 DEF ArePowers
<1>3. \A k \in 0 .. w - 1 : g[k] = {k}
  <2> HIDE DEF g, M
  <2>1. M \in Nat /\ w <= M
    BY <1>1
  <2>2. (\A k \in 0 .. w - 1 : g[k] = {k}) /\ g[w] = poly
    BY <1>2, <2>1, LowPowers
  <2> QED
    BY <2>2
<1>4. i \in 0 .. M
  BY <1>1
<1> QED
  BY <1>3, <1>4

TopBits(f, N, w) == {k \in 0 .. N : w - 1 \in f[k]}

\* A power is not one while the highest bit is on within the next w - 1.
LEMMA NotYetOne ==
    ASSUME NEW w, NEW poly, IsPoly(poly, w), NEW N \in Nat,
           NEW f, ArePowers(f, N, w, poly),
           NEW p \in TopBits(f, N, w), NEW d \in 0 .. N,
           d <= p, p <= d + w - 2, d + w <= N
    PROVE  f[d] # {0}
<1> SUFFICES ASSUME f[d] = {0} PROVE FALSE
  OBVIOUS
<1>1. w \in Nat \ {0} /\ p \in 0 .. N /\ w - 1 \in f[p]
  BY DEF IsPoly, TopBits
<1> DEFINE i == p - d
<1>2. i \in 0 .. w - 1 /\ d + i = p /\ i # w - 1
  BY <1>1
<1> HIDE DEF i
<1>3. f[p] = {i}
  BY <1>2, OnesClimb
<1> QED
  BY <1>1, <1>2, <1>3

\* Where the polynomial has no term a bit climbs, where it has one it meets the
\* highest.
Gap(poly, a, i) == \A m \in a + 1 .. a + i : m \notin poly

LEMMA BitsClimb ==
    ASSUME NEW w, NEW poly, IsPoly(poly, w), NEW N \in Nat,
           NEW f, ArePowers(f, N, w, poly),
           NEW a \in 0 .. w - 1, NEW i \in 0 .. w - 1, a + i <= w - 1,
           Gap(poly, a, i), NEW n \in 0 .. N, n + i <= N
    PROVE  a + i \in f[n + i] <=> a \in f[n]
<1> DEFINE S == {k \in 0 .. i : a + k \in f[n + k] <=> a \in f[n]}
<1>0. w \in Nat \ {0}
  BY DEF IsPoly
<1>1. 0 \in S
  <2>1. a + 0 = a /\ n + 0 = n /\ 0 \in 0 .. i
    BY <1>0
  <2> QED
    BY <2>1
<1>2. ASSUME NEW k \in 1 .. i, k - 1 \in S PROVE k \in S
  <2>1. /\ n + k \in 1 .. N /\ (n + k) - 1 = n + (k - 1) /\ n + (k - 1) \in 0 .. N
        /\ a + k \in 0 .. w - 1 /\ a + k # 0 /\ (a + k) - 1 = a + (k - 1)
        /\ a + k \in a + 1 .. a + i
    BY <1>0
  <2>2. f[n + k] = Times(f[n + (k - 1)], w, poly) /\ f[n + (k - 1)] \in Regs(w)
    BY <2>1 DEF ArePowers
  <2>3. a + k \in f[n + k] <=> a + (k - 1) \in f[n + (k - 1)]
    <3>1. a + k \notin poly
      BY <2>1 DEF Gap
    <3>2. a + k \in Times(f[n + (k - 1)], w, poly)
            <=> ((a + k # 0 /\ (a + k) - 1 \in f[n + (k - 1)])
                   <=> ~(w - 1 \in f[n + (k - 1)] /\ a + k \in poly))
      BY <2>1, <2>2, TimesBits
    <3> QED
      BY <2>1, <2>2, <3>1, <3>2
  <2> QED
    BY <1>2, <2>3
<1>3. \A k \in 0 .. i : k \in S
  <2> HIDE DEF S
  <2>1. i \in Nat
    BY <1>0
  <2> QED
    BY <1>1, <1>2, <2>1, Induction
<1>4. i \in 0 .. i
  BY <1>0
<1> QED
  BY <1>3, <1>4

LEMMA LowestBit ==
    ASSUME NEW w, NEW poly, IsPoly(poly, w), NEW N \in Nat,
           NEW f, ArePowers(f, N, w, poly), NEW n \in 0 .. N, n + 1 <= N
    PROVE  0 \in f[n + 1] <=> w - 1 \in f[n]
<1>1. f[n + 1] = Times(f[n], w, poly) /\ f[n] \in Regs(w)
  <2>1. n + 1 \in 1 .. N /\ (n + 1) - 1 = n
    OBVIOUS
  <2> QED
    BY <2>1 DEF ArePowers
<1>2. 0 \in 0 .. w - 1 /\ 0 \in poly
  BY DEF IsPoly
<1>3. 0 \in Times(f[n], w, poly)
        <=> ((0 # 0 /\ 0 - 1 \in f[n]) <=> ~(w - 1 \in f[n] /\ 0 \in poly))
  BY <1>1, <1>2, TimesBits
<1> QED
  BY <1>1, <1>2, <1>3

LEMMA BitsMeet ==
    ASSUME NEW w, NEW poly, IsPoly(poly, w), NEW N \in Nat,
           NEW f, ArePowers(f, N, w, poly), NEW n \in 0 .. N, n + 1 <= N,
           NEW m \in poly, m # 0
    PROVE  m \in f[n + 1] <=> (m - 1 \in f[n] <=> w - 1 \notin f[n])
<1>1. f[n + 1] = Times(f[n], w, poly) /\ f[n] \in Regs(w)
  <2>1. n + 1 \in 1 .. N /\ (n + 1) - 1 = n
    OBVIOUS
  <2> QED
    BY <2>1 DEF ArePowers
<1>2. m \in 0 .. w - 1
  BY DEF IsPoly, Regs
<1>3. m \in Times(f[n], w, poly)
        <=> ((m # 0 /\ m - 1 \in f[n]) <=> ~(w - 1 \in f[n] /\ m \in poly))
  BY <1>1, <1>2, TimesBits
<1> QED
  BY <1>1, <1>3

LEMMA PolysAre == IsPoly({0, 1, 2}, 8) /\ IsPoly({0, 5, 12}, 16)
<1>1. {0, 1, 2} \in Regs(8)
  BY DEF Regs
<1>2. {0, 5, 12} \in Regs(16)
  BY DEF Regs
<1> QED
  BY <1>1, <1>2 DEF IsPoly

\* Whether the highest bit is on follows from where it was on before.
Taps16(S, N) ==
    \A k \in 0 .. N - 16 :
      k + 16 \in S <=> (k + 12 \in S <=> (k + 5 \in S <=> k \in S))
Taps8(S, N) ==
    \A k \in 0 .. N - 8 :
      k + 8 \in S <=> (k + 2 \in S <=> (k + 1 \in S <=> k \in S))

LEMMA TapsAre16 ==
    ASSUME NEW N \in Nat, NEW f, ArePowers(f, N, 16, {0, 5, 12})
    PROVE  Taps16(TopBits(f, N, 16), N)
<1> DEFINE poly == {0, 5, 12}
<1>0. IsPoly(poly, 16) /\ ArePowers(f, N, 16, poly) /\ 16 - 1 = 15
  BY PolysAre
<1>1. 0 \in poly /\ 5 \in poly /\ 12 \in poly
  OBVIOUS
<1>2. Gap(poly, 12, 3) /\ Gap(poly, 5, 6) /\ Gap(poly, 0, 4)
  BY DEF Gap
<1> HIDE DEF poly
<1> SUFFICES ASSUME NEW k \in 0 .. N - 16
             PROVE  15 \in f[k + 16]
                      <=> (15 \in f[k + 12] <=> (15 \in f[k + 5] <=> 15 \in f[k]))
  <2>1. \A n \in 0 .. N : n \in TopBits(f, N, 16) <=> 15 \in f[n]
    BY <1>0 DEF TopBits
  <2>2. \A n \in 0 .. N - 16 : /\ n + 16 \in 0 .. N /\ n + 12 \in 0 .. N
                               /\ n + 5 \in 0 .. N /\ n \in 0 .. N
    OBVIOUS
  <2> QED
    BY <2>1, <2>2 DEF Taps16
<1>3. /\ k \in 0 .. N /\ k + 1 \in 0 .. N /\ k + 5 \in 0 .. N
      /\ k + 6 \in 0 .. N /\ k + 12 \in 0 .. N /\ k + 13 \in 0 .. N
      /\ k + 1 <= N /\ (k + 5) + 1 <= N /\ (k + 12) + 1 <= N
      /\ (k + 1) + 4 <= N /\ (k + 6) + 6 <= N /\ (k + 13) + 3 <= N
      /\ (k + 5) + 1 = k + 6 /\ (k + 12) + 1 = k + 13
      /\ (k + 1) + 4 = k + 5 /\ (k + 6) + 6 = k + 12 /\ (k + 13) + 3 = k + 16
  OBVIOUS
<1>4. 0 \in f[k + 1] <=> 15 \in f[k]
  BY <1>0, <1>3, LowestBit
<1>5. 5 \in f[k + 6] <=> (4 \in f[k + 5] <=> 15 \notin f[k + 5])
  <2>1. 5 \in f[(k + 5) + 1] <=> (5 - 1 \in f[k + 5] <=> 16 - 1 \notin f[k + 5])
    BY <1>0, <1>1, <1>3, BitsMeet
  <2> QED
    BY <1>3, <2>1
<1>6. 12 \in f[k + 13] <=> (11 \in f[k + 12] <=> 15 \notin f[k + 12])
  <2>1. 12 \in f[(k + 12) + 1] <=> (12 - 1 \in f[k + 12] <=> 16 - 1 \notin f[k + 12])
    BY <1>0, <1>1, <1>3, BitsMeet
  <2> QED
    BY <1>3, <2>1
<1>7. 4 \in f[k + 5] <=> 0 \in f[k + 1]
  <2>1. 0 + 4 \in f[(k + 1) + 4] <=> 0 \in f[k + 1]
    <3>1. 0 \in 0 .. 16 - 1 /\ 4 \in 0 .. 16 - 1 /\ 0 + 4 <= 16 - 1
      OBVIOUS
    <3>2. k + 1 \in 0 .. N /\ (k + 1) + 4 <= N
      BY <1>3
    <3> QED
      BY <1>0, <1>2, <3>1, <3>2, BitsClimb
  <2> QED
    BY <1>3, <2>1
<1>8. 11 \in f[k + 12] <=> 5 \in f[k + 6]
  <2>1. 5 + 6 \in f[(k + 6) + 6] <=> 5 \in f[k + 6]
    <3>1. 5 \in 0 .. 16 - 1 /\ 6 \in 0 .. 16 - 1 /\ 5 + 6 <= 16 - 1
      OBVIOUS
    <3>2. k + 6 \in 0 .. N /\ (k + 6) + 6 <= N
      BY <1>3
    <3> QED
      BY <1>0, <1>2, <3>1, <3>2, BitsClimb
  <2> QED
    BY <1>3, <2>1
<1>9. 15 \in f[k + 16] <=> 12 \in f[k + 13]
  <2>1. 12 + 3 \in f[(k + 13) + 3] <=> 12 \in f[k + 13]
    <3>1. 12 \in 0 .. 16 - 1 /\ 3 \in 0 .. 16 - 1 /\ 12 + 3 <= 16 - 1
      OBVIOUS
    <3>2. k + 13 \in 0 .. N /\ (k + 13) + 3 <= N
      BY <1>3
    <3> QED
      BY <1>0, <1>2, <3>1, <3>2, BitsClimb
  <2> QED
    BY <1>3, <2>1
<1> QED
  BY <1>4, <1>5, <1>6, <1>7, <1>8, <1>9

LEMMA TapsAre8 ==
    ASSUME NEW N \in Nat, NEW f, ArePowers(f, N, 8, {0, 1, 2})
    PROVE  Taps8(TopBits(f, N, 8), N)
<1> DEFINE poly == {0, 1, 2}
<1>0. IsPoly(poly, 8) /\ ArePowers(f, N, 8, poly) /\ 8 - 1 = 7
  BY PolysAre
<1>1. 0 \in poly /\ 1 \in poly /\ 2 \in poly
  OBVIOUS
<1>2. Gap(poly, 2, 5)
  BY DEF Gap
<1> HIDE DEF poly
<1> SUFFICES ASSUME NEW k \in 0 .. N - 8
             PROVE  7 \in f[k + 8]
                      <=> (7 \in f[k + 2] <=> (7 \in f[k + 1] <=> 7 \in f[k]))
  <2>1. \A n \in 0 .. N : n \in TopBits(f, N, 8) <=> 7 \in f[n]
    BY <1>0 DEF TopBits
  <2>2. \A n \in 0 .. N - 8 : /\ n + 8 \in 0 .. N /\ n + 2 \in 0 .. N
                              /\ n + 1 \in 0 .. N /\ n \in 0 .. N
    OBVIOUS
  <2> QED
    BY <2>1, <2>2 DEF Taps8
<1>3. /\ k \in 0 .. N /\ k + 1 \in 0 .. N /\ k + 2 \in 0 .. N /\ k + 3 \in 0 .. N
      /\ k + 1 <= N /\ (k + 1) + 1 <= N /\ (k + 2) + 1 <= N /\ (k + 3) + 5 <= N
      /\ (k + 1) + 1 = k + 2 /\ (k + 2) + 1 = k + 3 /\ (k + 3) + 5 = k + 8
  OBVIOUS
<1>4. 0 \in f[k + 1] <=> 7 \in f[k]
  BY <1>0, <1>3, LowestBit
<1>5. 1 \in f[k + 2] <=> (0 \in f[k + 1] <=> 7 \notin f[k + 1])
  <2>1. 1 \in f[(k + 1) + 1] <=> (1 - 1 \in f[k + 1] <=> 8 - 1 \notin f[k + 1])
    BY <1>0, <1>1, <1>3, BitsMeet
  <2> QED
    BY <1>3, <2>1
<1>6. 2 \in f[k + 3] <=> (1 \in f[k + 2] <=> 7 \notin f[k + 2])
  <2>1. 2 \in f[(k + 2) + 1] <=> (2 - 1 \in f[k + 2] <=> 8 - 1 \notin f[k + 2])
    BY <1>0, <1>1, <1>3, BitsMeet
  <2> QED
    BY <1>3, <2>1
<1>7. 7 \in f[k + 8] <=> 2 \in f[k + 3]
  <2>1. 2 + 5 \in f[(k + 3) + 5] <=> 2 \in f[k + 3]
    BY <1>0, <1>2, <1>3, BitsClimb
  <2> QED
    BY <1>3, <2>1
<1> QED
  BY <1>4, <1>5, <1>6, <1>7

\* The highest bit is on often enough for no power below the length of a code
\* to be one.
LEMMA NoOtherIsOne8 ==
    ASSUME NEW f, ArePowers(f, 48, 8, {0, 1, 2}), NEW d \in 1 .. 31
    PROVE  f[d] # {0}
<1> DEFINE S == TopBits(f, 48, 8)
<1>0. IsPoly({0, 1, 2}, 8) /\ 48 \in Nat
  BY PolysAre
<1>1. ASSUME NEW k \in 8 .. 48
      PROVE  k \in S <=> (k - 6 \in S <=> (k - 7 \in S <=> k - 8 \in S))
  <2>1. Taps8(S, 48)
    BY TapsAre8
  <2> DEFINE n == k - 8
  <2>2. n \in 0 .. 48 - 8 /\ n + 8 = k /\ n + 2 = k - 6 /\ n + 1 = k - 7
    OBVIOUS
  <2> HIDE DEF n, S
  <2>3. n + 8 \in S <=> (n + 2 \in S <=> (n + 1 \in S <=> n \in S))
    BY <2>1, <2>2 DEF Taps8
  <2> QED
    BY <2>2, <2>3 DEF n
<1>2. /\ 0 \notin S /\ 1 \notin S /\ 2 \notin S /\ 3 \notin S
      /\ 4 \notin S /\ 5 \notin S /\ 6 \notin S /\ 7 \in S
  <2>1. \A k \in 0 .. 7 : f[k] = {k} /\ k \in 0 .. 48
    <3>1. 8 <= 48 /\ 8 - 1 = 7
      OBVIOUS
    <3> QED
      BY <1>0, <3>1, LowPowers
  <2>2. \A k \in 0 .. 7 : k \in S <=> k = 7
    BY <2>1 DEF TopBits
  <2> HIDE DEF S
  <2> QED
    BY <2>2
<1> HIDE DEF S
<1>3. /\ 8 \notin S /\ 9 \notin S /\ 10 \notin S /\ 11 \notin S
      /\ 12 \notin S /\ 13 \in S
  BY <1>1, <1>2
<1>4. /\ 14 \in S /\ 15 \in S /\ 16 \notin S /\ 17 \notin S
      /\ 18 \notin S /\ 19 \in S
  BY <1>1, <1>2, <1>3
<1>5. /\ 20 \notin S /\ 21 \in S /\ 22 \notin S /\ 23 \in S
      /\ 24 \notin S /\ 25 \in S
  BY <1>1, <1>3, <1>4
<1>6. /\ 26 \in S /\ 27 \notin S /\ 28 \in S /\ 29 \notin S
      /\ 30 \in S /\ 31 \notin S
  BY <1>1, <1>4, <1>5
<1>7. /\ 32 \notin S /\ 33 \notin S /\ 34 \notin S /\ 35 \in S
  BY <1>1, <1>5, <1>6
<1>8. \E p \in {7, 13, 19, 26, 30, 35} : p \in S /\ d <= p /\ p <= d + 8 - 2
  BY <1>2, <1>3, <1>4, <1>6, <1>7
<1>9. PICK p \in S : d <= p /\ p <= d + 8 - 2
  BY <1>8
<1>10. d \in 0 .. 48 /\ d + 8 <= 48
  OBVIOUS
<1> QED
  BY <1>0, <1>9, <1>10, NotYetOne DEF S

LEMMA NoOtherIsOne16 ==
    ASSUME NEW f, ArePowers(f, 96, 16, {0, 5, 12}), NEW d \in 1 .. 71
    PROVE  f[d] # {0}
<1> DEFINE S == TopBits(f, 96, 16)
<1>0. IsPoly({0, 5, 12}, 16) /\ 96 \in Nat
  BY PolysAre
<1>1. ASSUME NEW k \in 16 .. 96
      PROVE  k \in S <=> (k - 4 \in S <=> (k - 11 \in S <=> k - 16 \in S))
  <2>1. Taps16(S, 96)
    BY TapsAre16
  <2> DEFINE n == k - 16
  <2>2. n \in 0 .. 96 - 16 /\ n + 16 = k /\ n + 12 = k - 4 /\ n + 5 = k - 11
    OBVIOUS
  <2> HIDE DEF n, S
  <2>3. n + 16 \in S <=> (n + 12 \in S <=> (n + 5 \in S <=> n \in S))
    BY <2>1, <2>2 DEF Taps16
  <2> QED
    BY <2>2, <2>3 DEF n
<1>2. /\ 0 \notin S /\ 1 \notin S /\ 2 \notin S /\ 3 \notin S
      /\ 4 \notin S /\ 5 \notin S /\ 6 \notin S /\ 7 \notin S
      /\ 8 \notin S /\ 9 \notin S /\ 10 \notin S /\ 11 \notin S
      /\ 12 \notin S /\ 13 \notin S /\ 14 \notin S /\ 15 \in S
  <2>1. \A k \in 0 .. 15 : f[k] = {k} /\ k \in 0 .. 96
    <3>1. 16 <= 96 /\ 16 - 1 = 15
      OBVIOUS
    <3> QED
      BY <1>0, <3>1, LowPowers
  <2>2. \A k \in 0 .. 15 : k \in S <=> k = 15
    BY <2>1 DEF TopBits
  <2> HIDE DEF S
  <2> QED
    BY <2>2
<1> HIDE DEF S
<1>3. /\ 16 \notin S /\ 17 \notin S /\ 18 \notin S /\ 19 \in S
  BY <1>1, <1>2
<1>4. /\ 20 \notin S /\ 21 \notin S /\ 22 \notin S /\ 23 \in S
  BY <1>1, <1>2, <1>3
<1>5. /\ 24 \notin S /\ 25 \notin S /\ 26 \in S /\ 27 \in S
  BY <1>1, <1>2, <1>3, <1>4
<1>6. /\ 28 \notin S /\ 29 \notin S /\ 30 \notin S /\ 31 \notin S
  BY <1>1, <1>2, <1>3, <1>4, <1>5
<1>7. /\ 32 \notin S /\ 33 \notin S /\ 34 \in S /\ 35 \in S
  BY <1>1, <1>3, <1>4, <1>5, <1>6
<1>8. /\ 36 \notin S /\ 37 \in S /\ 38 \notin S /\ 39 \notin S
  BY <1>1, <1>4, <1>5, <1>6, <1>7
<1>9. /\ 40 \notin S /\ 41 \in S /\ 42 \in S /\ 43 \in S
  BY <1>1, <1>5, <1>6, <1>7, <1>8
<1>10. /\ 44 \notin S /\ 45 \notin S /\ 46 \notin S /\ 47 \in S
  BY <1>1, <1>6, <1>7, <1>8, <1>9
<1>11. /\ 48 \in S /\ 49 \notin S /\ 50 \in S /\ 51 \notin S
  BY <1>1, <1>7, <1>8, <1>9, <1>10
<1>12. /\ 52 \notin S /\ 53 \notin S /\ 54 \notin S /\ 55 \notin S
  BY <1>1, <1>8, <1>9, <1>10, <1>11
<1>13. /\ 56 \notin S /\ 57 \in S /\ 58 \notin S /\ 59 \notin S
  BY <1>1, <1>9, <1>10, <1>11, <1>12
<1>14. /\ 60 \notin S /\ 61 \notin S /\ 62 \notin S /\ 63 \in S
  BY <1>1, <1>10, <1>11, <1>12, <1>13
<1>15. /\ 64 \in S /\ 65 \notin S /\ 66 \in S /\ 67 \in S
  BY <1>1, <1>11, <1>12, <1>13, <1>14
<1>16. /\ 68 \notin S /\ 69 \notin S /\ 70 \in S /\ 71 \in S
  BY <1>1, <1>12, <1>13, <1>14, <1>15
<1>17. \E p \in {15, 27, 42, 57, 71} : p \in S /\ d <= p /\ p <= d + 16 - 2
  BY <1>2, <1>5, <1>9, <1>13, <1>16
<1>18. PICK p \in S : d <= p /\ p <= d + 16 - 2
  BY <1>17
<1>19. d \in 0 .. 96 /\ d + 16 <= 96
  OBVIOUS
<1> QED
  BY <1>0, <1>18, <1>19, NotYetOne DEF S

-----------------------------------------------------------------------------
(* The checksum                                                            *)

LEMMA RegisterIs ==
    ASSUME NEW w \in Nat, NEW s \in Seq({0, 1}), Len(s) = w
    PROVE  \A n : n \in Register(s) <=> n \in 0 .. w - 1 /\ s[w - n] = 1
<1> TAKE n
<1>1. n \in Register(s) <=> \E k \in 1 .. w : s[k] = 1 /\ n = w - k
  BY DEF Register
<1>2. ASSUME NEW k \in 1 .. w, s[k] = 1, n = w - k
      PROVE  n \in 0 .. w - 1 /\ s[w - n] = 1
  <2>1. n \in 0 .. w - 1 /\ w - n = k
    BY <1>2
  <2> QED
    BY <1>2, <2>1
<1>3. ASSUME n \in 0 .. w - 1, s[w - n] = 1
      PROVE  \E k \in 1 .. w : s[k] = 1 /\ n = w - k
  <2>1. w - n \in 1 .. w /\ n = w - (w - n)
    BY <1>3
  <2> QED
    BY <1>3, <2>1
<1> QED
  BY <1>1, <1>2, <1>3

\* What is printed as a checksum is the register it was.
LEMMA CellsAre ==
    ASSUME NEW w \in Nat, NEW r \in Regs(w)
    PROVE  /\ Cells(r, w) \in Seq({0, 1}) /\ Len(Cells(r, w)) = w
           /\ Register(Cells(r, w)) = r
<1> DEFINE c == Cells(r, w)
<1>1. /\ c \in Seq({0, 1}) /\ Len(c) = w
      /\ \A k \in 1 .. w : c[k] = IF w - k \in r THEN 1 ELSE 0
  BY DEF Cells
<1> HIDE DEF c
<1>2. ASSUME NEW n PROVE n \in Register(c) <=> n \in r
  <2>1. n \in Register(c) <=> n \in 0 .. w - 1 /\ c[w - n] = 1
    BY <1>1, RegisterIs
  <2>2. n \in r => n \in 0 .. w - 1
    BY DEF Regs
  <2>3. n \in 0 .. w - 1 => w - n \in 1 .. w /\ w - (w - n) = n
    OBVIOUS
  <2>4. n \in 0 .. w - 1 => (c[w - n] = 1 <=> n \in r)
    BY <1>1, <2>3
  <2> QED
    BY <2>1, <2>2, <2>4
<1>3. Register(c) = r
  BY <1>2
<1> QED
  BY <1>1, <1>3 DEF c

\* What a cell misread at j has done to the checksum that was read.
Foot(w, j, L) == IF L < j /\ j <= L + w THEN {L + w - j} ELSE {}

LEMMA ChecksumsDiffer ==
    ASSUME NEW w \in Nat, NEW L \in Nat,
           NEW c \in Seq({0, 1}), NEW e \in Seq({0, 1}), Len(c) = w, Len(e) = w,
           NEW j \in Nat \ {0}, NEW l \in Nat \ {0}, j # l,
           DifferAt(e, c, L, j, l)
    PROVE  Xor(Register(e), Register(c)) = Xor(Foot(w, j, L), Foot(w, l, L))
<1>1. ASSUME NEW n
      PROVE  n \in Xor(Register(e), Register(c))
               <=> n \in Xor(Foot(w, j, L), Foot(w, l, L))
  <2>1. n \in Register(c) <=> n \in 0 .. w - 1 /\ c[w - n] = 1
    BY RegisterIs
  <2>2. n \in Register(e) <=> n \in 0 .. w - 1 /\ e[w - n] = 1
    BY RegisterIs
  <2>3. ASSUME NEW m \in Nat \ {0}
        PROVE  n \in Foot(w, m, L) <=> n \in 0 .. w - 1 /\ L + (w - n) = m
    <3>1. CASE L < m /\ m <= L + w
      <4>1. n \in Foot(w, m, L) <=> n = L + w - m
        BY <3>1 DEF Foot
      <4>2. n = L + w - m => n \in 0 .. w - 1 /\ L + (w - n) = m
        BY <3>1
      <4>3. n \in 0 .. w - 1 /\ L + (w - n) = m => n = L + w - m
        OBVIOUS
      <4> QED
        BY <4>1, <4>2, <4>3
    <3>2. CASE ~(L < m /\ m <= L + w)
      <4>1. n \notin Foot(w, m, L)
        BY <3>2 DEF Foot
      <4>2. n \in 0 .. w - 1 => L < L + (w - n) /\ L + (w - n) <= L + w
        OBVIOUS
      <4> QED
        BY <3>2, <4>1, <4>2
    <3> QED
      BY <3>1, <3>2
  <2>4. CASE n \in 0 .. w - 1
    <3>1. w - n \in 1 .. w
      BY <2>4
    <3>2. c[w - n] \in {0, 1} /\ e[w - n] \in {0, 1}
      BY <3>1
    <3>3. e[w - n] # c[w - n] <=> L + (w - n) \in {j, l}
      BY <3>1 DEF DifferAt
    <3>4. n \in Xor(Register(e), Register(c)) <=> e[w - n] # c[w - n]
      BY <2>1, <2>2, <2>4, <3>2, XorIs
    <3>5. n \in Xor(Foot(w, j, L), Foot(w, l, L)) <=> L + (w - n) \in {j, l}
      BY <2>3, <2>4, XorIs
    <3> QED
      BY <3>3, <3>4, <3>5
  <2>5. CASE n \notin 0 .. w - 1
    BY <2>1, <2>2, <2>3, <2>5, XorIs
  <2> QED
    BY <2>4, <2>5
<1> QED
  BY <1>1

\* Together they are the power of x at the cell's place from the end.
Effect(f, j, T) == IF j = T + 1 THEN {} ELSE f[T - j]

LEMMA FootOfTrace ==
    ASSUME NEW w, NEW poly, IsPoly(poly, w), NEW N \in Nat,
           NEW f, ArePowers(f, N, w, poly), NEW L \in Nat, w + L <= N,
           NEW j \in 1 .. L + w + 1
    PROVE  Xor(Trace(f, w, j, L), Foot(w, j, L)) = Effect(f, j, L + w)
<1>0. w \in Nat \ {0} /\ \A a : Xor(a, {}) = a /\ Xor({}, a) = a
  BY XorCancels DEF IsPoly
<1>1. CASE j <= L
  <2>1. Trace(f, w, j, L) = f[w + L - j] /\ Foot(w, j, L) = {}
    BY <1>0, <1>1 DEF Trace, Foot
  <2>2. w + L - j = L + w - j /\ j # L + w + 1
    BY <1>0, <1>1
  <2> QED
    BY <1>0, <2>1, <2>2 DEF Effect
<1>2. CASE L < j /\ j <= L + w
  <2>1. Trace(f, w, j, L) = {} /\ Foot(w, j, L) = {L + w - j}
    BY <1>2 DEF Trace, Foot
  <2> DEFINE k == L + w - j
  <2>2. k \in 0 .. w - 1 /\ w <= N /\ j # L + w + 1
    BY <1>0, <1>2
  <2> HIDE DEF k
  <2>3. f[k] = {k}
    BY <2>2, LowPowers
  <2> QED
    BY <1>0, <2>1, <2>2, <2>3 DEF k, Effect
<1>3. CASE j = L + w + 1
  <2>1. Trace(f, w, j, L) = {} /\ Foot(w, j, L) = {}
    BY <1>0, <1>3 DEF Trace, Foot
  <2> QED
    BY <1>0, <1>3, <2>1 DEF Effect
<1> QED
  BY <1>0, <1>1, <1>2, <1>3

\* No power below the length of a code is one.
NoneIsOne(f, T) == \A d \in 1 .. T - 1 : f[d] # {0}

LEMMA PowersDiffer ==
    ASSUME NEW w, NEW poly, IsPoly(poly, w), NEW N \in Nat,
           NEW f, ArePowers(f, N, w, poly), NEW T \in Nat, T <= N,
           NoneIsOne(f, T), NEW j \in 1 .. T, NEW l \in 1 .. T, j # l
    PROVE  f[T - j] # f[T - l]
<1> SUFFICES ASSUME f[T - j] = f[T - l] PROVE FALSE
  OBVIOUS
<1> DEFINE p == T - j
           q == T - l
<1>1. /\ p \in 0 .. N /\ q \in 0 .. N /\ f[p] = f[q]
      /\ (q <= p /\ p - q \in 1 .. T - 1) \/ (p <= q /\ q - p \in 1 .. T - 1)
  OBVIOUS
<1> HIDE DEF p, q
<1>2. CASE q <= p /\ p - q \in 1 .. T - 1
  <2>1. f[p - q] = {0}
    BY <1>1, <1>2, EqualPowers
  <2> QED
    BY <1>2, <2>1 DEF NoneIsOne
<1>3. CASE p <= q /\ q - p \in 1 .. T - 1
  <2>1. f[q - p] = {0}
    BY <1>1, <1>3, EqualPowers
  <2> QED
    BY <1>3, <2>1 DEF NoneIsOne
<1> QED
  BY <1>1, <1>2, <1>3

\* What two misread cells do never comes to nothing: the powers at two places
\* are not the same, and none is empty.
LEMMA EffectsStay ==
    ASSUME NEW w, NEW poly, IsPoly(poly, w), NEW N \in Nat,
           NEW f, ArePowers(f, N, w, poly), NEW L \in Nat, w + L <= N,
           NoneIsOne(f, L + w),
           NEW j \in 1 .. L + w, NEW l \in 1 .. L + w + 1, j # l
    PROVE  Xor(Trace(f, w, j, L), Trace(f, w, l, L))
             # Xor(Foot(w, j, L), Foot(w, l, L))
<1> DEFINE T == L + w
           tj == Trace(f, w, j, L)
           tl == Trace(f, w, l, L)
           fj == Foot(w, j, L)
           fl == Foot(w, l, L)
<1>0. w \in Nat /\ T \in Nat /\ T <= N
  BY DEF IsPoly
<1>1. j \in 1 .. T + 1 /\ j # T + 1 /\ T - j \in 0 .. N
  BY <1>0
<1>2. Xor(tj, fj) = Effect(f, j, T)
  <2>1. j \in 1 .. L + w + 1
    BY <1>1
  <2> QED
    BY <2>1, FootOfTrace
<1>3. Xor(tl, fl) = Effect(f, l, T)
  BY FootOfTrace
<1>4. Xor(tj, tl) = Xor(fj, fl) => Xor(tj, fj) = Xor(tl, fl)
  <2> HIDE DEF tj, tl, fj, fl
  <2>1. Xor(Xor(tj, fj), Xor(tl, fl)) = Xor(Xor(tj, tl), Xor(fj, fl))
    BY XorCancels
  <2>2. Xor(tj, tl) = Xor(fj, fl) => Xor(Xor(tj, tl), Xor(fj, fl)) = {}
    BY XorCancels
  <2> QED
    BY <2>1, <2>2, XorCancels
<1>5. f[T - j] # {}
  BY <1>1, NoPowerIsLost
<1>6. NoneIsOne(f, T) /\ l \in 1 .. T + 1 /\ j \in 1 .. T
  OBVIOUS
<1> HIDE DEF tj, tl, fj, fl, T
<1>7. Effect(f, j, T) # Effect(f, l, T)
  <2>1. CASE l = T + 1
    BY <1>1, <1>5, <2>1 DEF Effect
  <2>2. CASE l # T + 1
    <3>1. l \in 1 .. T
      BY <1>0, <1>6, <2>2
    <3>2. f[T - j] # f[T - l]
      BY <1>0, <1>6, <3>1, PowersDiffer
    <3> QED
      BY <1>1, <2>2, <3>2 DEF Effect
  <2> QED
    BY <2>1, <2>2
<1> QED
  BY <1>2, <1>3, <1>4, <1>7 DEF tj, tl, fj, fl

Word(s, n) == s \in Seq({0, 1}) /\ Len(s) = n

\* One cell or two that are misread show.
LEMMA MisreadingsShow ==
    ASSUME NEW w, NEW poly, IsPoly(poly, w), NEW N \in Nat,
           NEW f, ArePowers(f, N, w, poly), NEW L \in Nat, w + L <= N,
           NoneIsOne(f, L + w), NEW start \in Regs(w),
           NEW a, NEW b, Word(a, L), Word(b, L),
           NEW c, NEW e, Word(c, w), Word(e, w),
           Crc(a, start, w, poly) = Register(c),
           NEW j \in 1 .. L + w, NEW l \in 1 .. L + w + 1, j # l,
           DifferAt(b, a, 0, j, l), DifferAt(e, c, L, j, l)
    PROVE  Crc(b, start, w, poly) # Register(e)
<1>0. /\ a \in Seq({0, 1}) /\ b \in Seq({0, 1}) /\ Len(a) = L /\ Len(b) = L
      /\ c \in Seq({0, 1}) /\ e \in Seq({0, 1}) /\ Len(c) = w /\ Len(e) = w
  BY DEF Word
<1>1. w \in Nat /\ j \in Nat \ {0} /\ l \in Nat \ {0}
  BY DEF IsPoly
<1>2. Xor(Crc(b, start, w, poly), Crc(a, start, w, poly))
        = Xor(Trace(f, w, j, L), Trace(f, w, l, L))
  <2>1. Len(b) = Len(a) /\ w + Len(a) <= N
    BY <1>0
  <2>2. Xor(Crc(b, start, w, poly), Crc(a, start, w, poly))
          = Xor(Trace(f, w, j, Len(a)), Trace(f, w, l, Len(a)))
    BY <1>0, <1>1, <2>1, RegistersDiffer
  <2> QED
    BY <1>0, <2>2
<1>3. Xor(Register(e), Register(c)) = Xor(Foot(w, j, L), Foot(w, l, L))
  BY <1>0, <1>1, ChecksumsDiffer
<1>4. Xor(Trace(f, w, j, L), Trace(f, w, l, L))
        # Xor(Foot(w, j, L), Foot(w, l, L))
  BY EffectsStay
<1> QED
  BY <1>2, <1>3, <1>4

-----------------------------------------------------------------------------
(* A code and what is read of it                                           *)

LEMMA PartsAreWords ==
    ASSUME NEW s, NEW T \in Nat, Word(s, T),
           NEW m \in Nat, NEW n \in Nat, m + n <= T
    PROVE  /\ Word(SubSeq(s, m + 1, m + n), n)
           /\ \A k \in 1 .. n : SubSeq(s, m + 1, m + n)[k] = s[m + k]
<1>1. /\ \A i \in m + 1 .. m + n : s[i] \in {0, 1}
      /\ m + 1 \in Int /\ m + n \in Int
      /\ (IF m + 1 <= m + n THEN (m + n) - (m + 1) + 1 ELSE 0) = n
      /\ (m + n) - (m + 1) + 1 = n /\ \A k \in 1 .. n : (m + 1) + k - 1 = m + k
  BY DEF Word
<1>2. /\ SubSeq(s, m + 1, m + n) \in Seq({0, 1})
      /\ Len(SubSeq(s, m + 1, m + n)) = n
      /\ \A k \in 1 .. n : SubSeq(s, m + 1, m + n)[k] = s[m + k]
  BY <1>1, SubSeqProperties
<1> QED
  BY <1>2 DEF Word

Joins(s, a, b, m, n) ==
    /\ Word(s, m + n)
    /\ \A k \in 1 .. m : s[k] = a[k]
    /\ \A k \in 1 .. n : s[m + k] = b[k]

LEMMA WordsJoin ==
    ASSUME NEW a, NEW b, NEW m \in Nat, NEW n \in Nat, Word(a, m), Word(b, n)
    PROVE  Joins(a \o b, a, b, m, n)
BY DEF Word, Joins

SameBits(a, b, n) == \A k \in 1 .. n : a[k] = b[k]

LEMMA EqualWords ==
    ASSUME NEW a, NEW b, NEW n \in Nat, Word(a, n), Word(b, n), SameBits(a, b, n)
    PROVE  a = b
BY DEF Word, SameBits

LEMMA MisreadIs ==
    ASSUME NEW s, NEW T \in Nat, Word(s, T), NEW cells
    PROVE  /\ Word(Misread(s, cells), T)
           /\ \A k \in 1 .. T : Misread(s, cells)[k] # s[k] <=> k \in cells
           /\ cells = {} => Misread(s, cells) = s
<1> DEFINE r == Misread(s, cells)
<1>1. r = [k \in 1 .. T |-> IF k \in cells THEN 1 - s[k] ELSE s[k]]
  BY DEF Misread, Word
<1>2. \A k \in 1 .. T : s[k] \in {0, 1} /\ 1 - s[k] \in {0, 1} /\ 1 - s[k] # s[k]
  BY DEF Word
<1> HIDE DEF r
<1>3. \A k \in 1 .. T : r[k] = IF k \in cells THEN 1 - s[k] ELSE s[k]
  BY <1>1
<1>4. Word(r, T)
  <2>1. r \in [1 .. T -> {0, 1}]
    BY <1>1, <1>2
  <2> QED
    BY <2>1 DEF Word
<1>5. \A k \in 1 .. T : r[k] # s[k] <=> k \in cells
  BY <1>2, <1>3
<1>6. cells = {} => r = s
  <2>1. cells = {} => SameBits(r, s, T)
    BY <1>3 DEF SameBits
  <2> QED
    BY <1>4, <2>1, EqualWords
<1> QED
  BY <1>4, <1>5, <1>6 DEF r

\* The checksum of a code is that of the payload.
Checked(code, L, T, start, w, poly) ==
    Crc(SubSeq(code, 1, L), start, w, poly) = Register(SubSeq(code, L + 1, T))

AreCells(cells, i, j) == cells = {i, j}

LEMMA MisreadCodesShow ==
    ASSUME NEW w, NEW poly, IsPoly(poly, w), NEW N \in Nat,
           NEW f, ArePowers(f, N, w, poly), NEW L \in Nat, w + L <= N,
           NoneIsOne(f, L + w), NEW start \in Regs(w),
           NEW code, Word(code, L + w), Checked(code, L, L + w, start, w, poly),
           NEW i \in 1 .. L + w, NEW j \in 1 .. L + w,
           NEW cells, AreCells(cells, i, j)
    PROVE  ~Checked(Misread(code, cells), L, L + w, start, w, poly)
<1> DEFINE T == L + w
           read == Misread(code, cells)
           l == IF i = j THEN T + 1 ELSE j
           a == SubSeq(code, 1, L)
           b == SubSeq(read, 1, L)
           c == SubSeq(code, L + 1, T)
           e == SubSeq(read, L + 1, T)
<1>0. w \in Nat \ {0} /\ T \in Nat
  BY DEF IsPoly
<1>1. Word(read, T) /\ \A k \in 1 .. T : read[k] # code[k] <=> k \in {i, j}
  BY <1>0, MisreadIs DEF AreCells
<1> HIDE DEF read
<1>2. /\ Word(a, L) /\ \A k \in 1 .. L : a[k] = code[k]
      /\ Word(b, L) /\ \A k \in 1 .. L : b[k] = read[k]
  <2>1. 0 + L = L /\ 0 + 1 = 1 /\ 0 + L <= T /\ 0 \in Nat /\ \A k \in 1 .. L : 0 + k = k
    BY <1>0
  <2>2. /\ Word(SubSeq(code, 0 + 1, 0 + L), L)
        /\ \A k \in 1 .. L : SubSeq(code, 0 + 1, 0 + L)[k] = code[0 + k]
    BY <1>0, <2>1, PartsAreWords
  <2>3. /\ Word(SubSeq(read, 0 + 1, 0 + L), L)
        /\ \A k \in 1 .. L : SubSeq(read, 0 + 1, 0 + L)[k] = read[0 + k]
    BY <1>0, <1>1, <2>1, PartsAreWords
  <2> QED
    BY <2>1, <2>2, <2>3
<1>3. /\ Word(c, w) /\ \A k \in 1 .. w : c[k] = code[L + k]
      /\ Word(e, w) /\ \A k \in 1 .. w : e[k] = read[L + k]
  BY <1>0, <1>1, PartsAreWords
<1>4. Crc(a, start, w, poly) = Register(c)
  BY DEF Checked
<1> HIDE DEF a, b, c, e
<1>5. i \in 1 .. L + w /\ l \in 1 .. L + w + 1 /\ i # l
  BY <1>0
<1>6. \A k \in 1 .. T : k \in {i, j} <=> k \in {i, l}
  BY <1>0
<1> HIDE DEF l
<1>7. DifferAt(b, a, 0, i, l)
  <2>1. \A k \in 1 .. L : k \in 1 .. T /\ 0 + k = k
    BY <1>0
  <2> QED
    BY <1>1, <1>2, <1>6, <2>1 DEF DifferAt, Word
<1>8. DifferAt(e, c, L, i, l)
  <2>1. \A k \in 1 .. w : L + k \in 1 .. T
    BY <1>0
  <2> QED
    BY <1>1, <1>3, <1>6, <2>1 DEF DifferAt, Word
<1>9. Word(a, L) /\ Word(b, L) /\ Word(c, w) /\ Word(e, w)
  BY <1>2, <1>3
<1>10. Crc(b, start, w, poly) # Register(e)
  BY <1>4, <1>5, <1>7, <1>8, <1>9, MisreadingsShow
<1> QED
  BY <1>10 DEF Checked, read, b, e

LEMMA CellsAreWords ==
    ASSUME NEW w \in Nat, NEW r \in Regs(w)
    PROVE  Word(Cells(r, w), w) /\ Register(Cells(r, w)) = r
BY CellsAre DEF Word

\* What is printed carries its checksum.
LEMMA CodesAreChecked ==
    ASSUME NEW w, NEW poly, IsPoly(poly, w), NEW start \in Regs(w),
           NEW L \in Nat, NEW a, Word(a, L)
    PROVE  LET code == a \o Cells(Crc(a, start, w, poly), w)
           IN Word(code, L + w) /\ Checked(code, L, L + w, start, w, poly)
<1> DEFINE r == Crc(a, start, w, poly)
           c == Cells(r, w)
           code == a \o c
<1>0. w \in Nat
  BY DEF IsPoly
<1>1. r \in Regs(w)
  BY CrcIsTyped DEF Word
<1> HIDE DEF r
<1>2. Word(c, w) /\ Register(c) = r
  BY <1>0, <1>1, CellsAreWords
<1> HIDE DEF c
<1>3. /\ Word(code, L + w)
      /\ \A k \in 1 .. L : code[k] = a[k]
      /\ \A k \in 1 .. w : code[L + k] = c[k]
  <2>1. Joins(code, a, c, L, w)
    BY <1>0, <1>2, WordsJoin
  <2> QED
    BY <2>1 DEF Joins
<1> HIDE DEF code
<1>4. SubSeq(code, 1, L) = a
  <2>1. 0 + L = L /\ 0 + 1 = 1 /\ 0 + L <= L + w /\ 0 \in Nat /\ L + w \in Nat
        /\ \A k \in 1 .. L : 0 + k = k
    BY <1>0
  <2>2. /\ Word(SubSeq(code, 0 + 1, 0 + L), L)
        /\ \A k \in 1 .. L : SubSeq(code, 0 + 1, 0 + L)[k] = code[0 + k]
    BY <1>3, <2>1, PartsAreWords
  <2>3. SameBits(SubSeq(code, 1, L), a, L) /\ Word(SubSeq(code, 1, L), L)
    BY <1>3, <2>1, <2>2 DEF SameBits
  <2> QED
    BY <2>3, EqualWords
<1>5. SubSeq(code, L + 1, L + w) = c
  <2>1. L + w \in Nat /\ L + w <= L + w
    BY <1>0
  <2>2. /\ Word(SubSeq(code, L + 1, L + w), w)
        /\ \A k \in 1 .. w : SubSeq(code, L + 1, L + w)[k] = code[L + k]
    BY <1>0, <1>3, <2>1, PartsAreWords
  <2>3. SameBits(SubSeq(code, L + 1, L + w), c, w)
    BY <1>3, <2>2 DEF SameBits
  <2> QED
    BY <1>0, <1>2, <2>2, <2>3, EqualWords
<1>6. Checked(code, L, L + w, start, w, poly)
  BY <1>2, <1>4, <1>5 DEF Checked, r
<1> QED
  BY <1>3, <1>6 DEF code, c, r

-----------------------------------------------------------------------------
(* The fields of a code                                                    *)

\* Bits n + 1 to n + w of a code are those of v.
Field(s, n, v, w) == \A k \in 1 .. w : s[n + k] = Bits(v, w)[k]

LEMMA BitsAreWords ==
    ASSUME NEW v \in Nat, NEW w \in Nat
    PROVE  Word(Bits(v, w), w)
BY BitsAreBits DEF Word

LEMMA FieldEnds ==
    ASSUME NEW a, NEW m \in Nat, Word(a, m), NEW v \in Nat, NEW w \in Nat
    PROVE  Word(a \o Bits(v, w), m + w) /\ Field(a \o Bits(v, w), m, v, w)
<1>1. Word(Bits(v, w), w)
  BY BitsAreWords
<1>2. Joins(a \o Bits(v, w), a, Bits(v, w), m, w)
  BY <1>1, WordsJoin
<1> QED
  BY <1>2 DEF Joins, Field

LEMMA FieldStays ==
    ASSUME NEW a, NEW m \in Nat, Word(a, m), NEW b, NEW k \in Nat, Word(b, k),
           NEW n \in Nat, NEW v, NEW w \in Nat, n + w <= m, Field(a, n, v, w)
    PROVE  Field(a \o b, n, v, w)
<1>1. Joins(a \o b, a, b, m, k)
  BY WordsJoin
<1>2. \A i \in 1 .. w : n + i \in 1 .. m
  OBVIOUS
<1> QED
  BY <1>1, <1>2 DEF Joins, Field

LEMMA FieldIsRead ==
    ASSUME NEW s, NEW T \in Nat, Word(s, T), NEW n \in Nat, NEW v \in Nat,
           NEW w \in Nat, n + w <= T, Field(s, n, v, w), Halves(v, w)[w] = 0
    PROVE  Value(SubSeq(s, n + 1, n + w)) = v
<1>1. /\ Word(SubSeq(s, n + 1, n + w), w)
      /\ \A k \in 1 .. w : SubSeq(s, n + 1, n + w)[k] = s[n + k]
  BY PartsAreWords
<1>2. Word(Bits(v, w), w)
  BY BitsAreWords
<1>3. SameBits(SubSeq(s, n + 1, n + w), Bits(v, w), w)
  BY <1>1 DEF SameBits, Field
<1>4. SubSeq(s, n + 1, n + w) = Bits(v, w)
  BY <1>1, <1>2, <1>3, EqualWords
<1> QED
  BY <1>4, BitsComeBack

UidFields(s, u) ==
    /\ Field(s, 0, u.year, 4) /\ Field(s, 4, u.letter1, 5)
    /\ Field(s, 9, u.letter2, 5) /\ Field(s, 14, u.number, 7)

LEMMA UidParts ==
    ASSUME NEW u \in Uids
    PROVE  /\ u.year \in Nat /\ u.year \in 0 .. 15
           /\ u.letter1 \in Nat /\ u.letter1 \in 0 .. 31
           /\ u.letter2 \in Nat /\ u.letter2 \in 0 .. 31
           /\ u.number \in Nat /\ u.number \in 0 .. 127
BY DEF Uids, LetterAbsent

LEMMA UidFieldsStay ==
    ASSUME NEW u, NEW a, NEW m \in Nat, Word(a, m), 21 <= m, UidFields(a, u),
           NEW b, NEW k \in Nat, Word(b, k)
    PROVE  UidFields(a \o b, u)
<1>1. /\ 0 \in Nat /\ 4 \in Nat /\ 5 \in Nat /\ 9 \in Nat /\ 14 \in Nat /\ 7 \in Nat
      /\ 0 + 4 <= m /\ 4 + 5 <= m /\ 9 + 5 <= m /\ 14 + 7 <= m
  OBVIOUS
<1>2. Field(a \o b, 0, u.year, 4)
  BY <1>1, FieldStays DEF UidFields
<1>3. Field(a \o b, 4, u.letter1, 5)
  BY <1>1, FieldStays DEF UidFields
<1>4. Field(a \o b, 9, u.letter2, 5)
  BY <1>1, FieldStays DEF UidFields
<1>5. Field(a \o b, 14, u.number, 7)
  BY <1>1, FieldStays DEF UidFields
<1> QED
  BY <1>2, <1>3, <1>4, <1>5 DEF UidFields

LEMMA UidBitsAre ==
    ASSUME NEW u \in Uids
    PROVE  Word(UidBits(u), 21) /\ UidFields(UidBits(u), u)
<1> DEFINE y == Bits(u.year, 4)
           l1 == Bits(u.letter1, 5)
           l2 == Bits(u.letter2, 5)
           n == Bits(u.number, 7)
<1>0. /\ u.year \in Nat /\ u.letter1 \in Nat /\ u.letter2 \in Nat
      /\ u.number \in Nat
      /\ 0 \in Nat /\ 4 \in Nat /\ 5 \in Nat /\ 9 \in Nat /\ 14 \in Nat /\ 7 \in Nat
      /\ 4 + 5 = 9 /\ 9 + 5 = 14 /\ 14 + 7 = 21
      /\ 0 + 4 <= 4 /\ 0 + 4 <= 9 /\ 0 + 4 <= 14 /\ 4 + 5 <= 9 /\ 4 + 5 <= 14
      /\ 9 + 5 <= 14
  BY UidParts
<1>1. Word(y, 4) /\ Field(y, 0, u.year, 4)
  <2>1. Word(y, 4)
    BY <1>0, BitsAreWords
  <2>2. \A k \in 1 .. 4 : 0 + k = k
    OBVIOUS
  <2> QED
    BY <2>1, <2>2 DEF Field
<1>2. Word(l1, 5) /\ Word(l2, 5) /\ Word(n, 7)
  BY <1>0, BitsAreWords
<1>3. Word(y \o l1, 9) /\ Field(y \o l1, 4, u.letter1, 5)
  <2>1. Word(y \o l1, 4 + 5) /\ Field(y \o l1, 4, u.letter1, 5)
    BY <1>0, <1>1, FieldEnds
  <2> QED
    BY <1>0, <2>1
<1>4. Word((y \o l1) \o l2, 14) /\ Field((y \o l1) \o l2, 9, u.letter2, 5)
  <2>1. /\ Word((y \o l1) \o l2, 9 + 5)
        /\ Field((y \o l1) \o l2, 9, u.letter2, 5)
    BY <1>0, <1>3, FieldEnds
  <2> QED
    BY <1>0, <2>1
<1>5. /\ Word(((y \o l1) \o l2) \o n, 21)
      /\ Field(((y \o l1) \o l2) \o n, 14, u.number, 7)
  <2>1. /\ Word(((y \o l1) \o l2) \o n, 14 + 7)
        /\ Field(((y \o l1) \o l2) \o n, 14, u.number, 7)
    BY <1>0, <1>4, FieldEnds
  <2> QED
    BY <1>0, <2>1
<1> HIDE DEF y, l1, l2, n
<1>6. Field(((y \o l1) \o l2) \o n, 0, u.year, 4)
  <2>1. Field(y \o l1, 0, u.year, 4)
    BY <1>0, <1>1, <1>2, FieldStays
  <2>2. Field((y \o l1) \o l2, 0, u.year, 4)
    BY <1>0, <1>2, <1>3, <2>1, FieldStays
  <2> QED
    BY <1>0, <1>2, <1>4, <2>2, FieldStays
<1>7. Field(((y \o l1) \o l2) \o n, 4, u.letter1, 5)
  <2>1. Field((y \o l1) \o l2, 4, u.letter1, 5)
    BY <1>0, <1>2, <1>3, FieldStays
  <2> QED
    BY <1>0, <1>2, <1>4, <2>1, FieldStays
<1>8. Field(((y \o l1) \o l2) \o n, 9, u.letter2, 5)
  BY <1>0, <1>2, <1>4, FieldStays
<1> QED
  BY <1>5, <1>6, <1>7, <1>8 DEF UidFields, UidBits, y, l1, l2, n

LEMMA UidIsRead ==
    ASSUME NEW u \in Uids, NEW s, NEW T \in Nat, Word(s, T), 21 <= T,
           UidFields(s, u)
    PROVE  UidOf(s) = u
<1>0. /\ u.year \in Nat /\ u.letter1 \in Nat /\ u.letter2 \in Nat
      /\ u.number \in Nat
      /\ 0 \in Nat /\ 4 \in Nat /\ 5 \in Nat /\ 9 \in Nat /\ 14 \in Nat /\ 7 \in Nat
      /\ 0 + 4 <= T /\ 4 + 5 <= T /\ 9 + 5 <= T /\ 14 + 7 <= T
      /\ 0 + 1 = 1 /\ 0 + 4 = 4 /\ 4 + 1 = 5 /\ 4 + 5 = 9 /\ 9 + 1 = 10
      /\ 9 + 5 = 14 /\ 14 + 1 = 15 /\ 14 + 7 = 21
  BY UidParts
<1>1. /\ Halves(u.year, 4)[4] = 0 /\ Halves(u.letter1, 5)[5] = 0
      /\ Halves(u.letter2, 5)[5] = 0 /\ Halves(u.number, 7)[7] = 0
  BY UidParts, HalvesFit4, HalvesFit5, HalvesFit7
<1>2. Value(SubSeq(s, 1, 4)) = u.year
  <2>1. Value(SubSeq(s, 0 + 1, 0 + 4)) = u.year
    BY <1>0, <1>1, FieldIsRead DEF UidFields
  <2> QED
    BY <1>0, <2>1
<1>3. Value(SubSeq(s, 5, 9)) = u.letter1
  <2>1. Value(SubSeq(s, 4 + 1, 4 + 5)) = u.letter1
    BY <1>0, <1>1, FieldIsRead DEF UidFields
  <2> QED
    BY <1>0, <2>1
<1>4. Value(SubSeq(s, 10, 14)) = u.letter2
  <2>1. Value(SubSeq(s, 9 + 1, 9 + 5)) = u.letter2
    BY <1>0, <1>1, FieldIsRead DEF UidFields
  <2> QED
    BY <1>0, <2>1
<1>5. Value(SubSeq(s, 15, 21)) = u.number
  <2>1. Value(SubSeq(s, 14 + 1, 14 + 7)) = u.number
    BY <1>0, <1>1, FieldIsRead DEF UidFields
  <2> QED
    BY <1>0, <2>1
<1>6. u = [year |-> u.year, letter1 |-> u.letter1, letter2 |-> u.letter2,
           number |-> u.number]
  BY DEF Uids
<1> QED
  BY <1>2, <1>3, <1>4, <1>5, <1>6 DEF UidOf

-----------------------------------------------------------------------------
(* The two codes                                                           *)

\* The fields a page code has room for.
IsPageCode(c) ==
    /\ c = [uid |-> c.uid, schoolYear |-> c.schoolYear, page |-> c.page,
            canton |-> c.canton, nonce |-> c.nonce]
    /\ c.uid \in Uids /\ c.schoolYear \in 0 .. 7 /\ c.page \in 1 .. LastPage
    /\ c.canton \in 0 .. 31 /\ c.nonce \in Nat /\ c.nonce <= 8388607

PageFields(s, c) ==
    /\ UidFields(s, c.uid)
    /\ Field(s, 21, c.schoolYear, 3) /\ Field(s, 24, c.page - 1, 4)
    /\ Field(s, 28, c.canton, 5) /\ Field(s, 33, c.nonce, 23)

PagePayload(c) == UidBits(c.uid) \o Bits(c.schoolYear, 3) \o Bits(c.page - 1, 4)
                    \o Bits(c.canton, 5) \o Bits(c.nonce, 23)

LEMMA PagePayloadIs ==
    ASSUME NEW c, IsPageCode(c)
    PROVE  Word(PagePayload(c), 56) /\ PageFields(PagePayload(c), c)
<1> DEFINE a == UidBits(c.uid)
           b == Bits(c.schoolYear, 3)
           p == Bits(c.page - 1, 4)
           k == Bits(c.canton, 5)
           n == Bits(c.nonce, 23)
           s1 == a \o b
           s2 == s1 \o p
           s3 == s2 \o k
           s4 == s3 \o n
<1>0. /\ c.schoolYear \in Nat /\ c.page - 1 \in Nat /\ c.canton \in Nat
      /\ c.nonce \in Nat /\ c.uid \in Uids
  BY DEF IsPageCode, LastPage
<1>1. /\ 3 \in Nat /\ 4 \in Nat /\ 5 \in Nat /\ 23 \in Nat /\ 21 \in Nat
      /\ 24 \in Nat /\ 28 \in Nat /\ 33 \in Nat /\ 56 \in Nat
      /\ 21 + 3 = 24 /\ 24 + 4 = 28 /\ 28 + 5 = 33 /\ 33 + 23 = 56
      /\ 21 + 3 <= 24 /\ 21 + 3 <= 28 /\ 21 + 3 <= 33
      /\ 24 + 4 <= 28 /\ 24 + 4 <= 33 /\ 28 + 5 <= 33
      /\ 21 <= 21 /\ 21 <= 24 /\ 21 <= 28 /\ 21 <= 33
  OBVIOUS
<1>2. Word(a, 21) /\ UidFields(a, c.uid)
  BY <1>0, UidBitsAre
<1>3. Word(b, 3) /\ Word(p, 4) /\ Word(k, 5) /\ Word(n, 23)
  <2>1. Word(b, 3)
    BY <1>0, <1>1, BitsAreWords
  <2>2. Word(p, 4)
    BY <1>0, <1>1, BitsAreWords
  <2>3. Word(k, 5)
    BY <1>0, <1>1, BitsAreWords
  <2>4. Word(n, 23)
    BY <1>0, <1>1, BitsAreWords
  <2> QED
    BY <2>1, <2>2, <2>3, <2>4
<1>4. Word(s1, 24) /\ Field(s1, 21, c.schoolYear, 3)
  <2>1. Word(a \o b, 21 + 3) /\ Field(a \o b, 21, c.schoolYear, 3)
    <3> HIDE DEF a
    <3> QED
      BY <1>0, <1>1, <1>2, FieldEnds
  <2> QED
    BY <1>1, <2>1
<1>5. Word(s2, 28) /\ Field(s2, 24, c.page - 1, 4)
  <2>1. Word(s1 \o p, 24 + 4) /\ Field(s1 \o p, 24, c.page - 1, 4)
    <3> HIDE DEF s1
    <3> QED
      BY <1>0, <1>1, <1>4, FieldEnds
  <2> QED
    BY <1>1, <2>1
<1>6. Word(s3, 33) /\ Field(s3, 28, c.canton, 5)
  <2>1. Word(s2 \o k, 28 + 5) /\ Field(s2 \o k, 28, c.canton, 5)
    <3> HIDE DEF s2
    <3> QED
      BY <1>0, <1>1, <1>5, FieldEnds
  <2> QED
    BY <1>1, <2>1
<1>7. Word(s4, 56) /\ Field(s4, 33, c.nonce, 23)
  <2>1. Word(s3 \o n, 33 + 23) /\ Field(s3 \o n, 33, c.nonce, 23)
    <3> HIDE DEF s3
    <3> QED
      BY <1>0, <1>1, <1>6, FieldEnds
  <2> QED
    BY <1>1, <2>1
<1> HIDE DEF a, b, p, k, n
<1>8. UidFields(s4, c.uid)
  <2>1. UidFields(s1, c.uid)
    BY <1>1, <1>2, <1>3, UidFieldsStay
  <2> HIDE DEF s1
  <2>2. UidFields(s2, c.uid)
    BY <1>1, <1>3, <1>4, <2>1, UidFieldsStay
  <2> HIDE DEF s2
  <2>3. UidFields(s3, c.uid)
    BY <1>1, <1>3, <1>5, <2>2, UidFieldsStay
  <2> HIDE DEF s3
  <2> QED
    BY <1>1, <1>3, <1>6, <2>3, UidFieldsStay
<1>9. Field(s4, 21, c.schoolYear, 3)
  <2> HIDE DEF s1
  <2>1. Field(s2, 21, c.schoolYear, 3)
    BY <1>1, <1>3, <1>4, FieldStays
  <2> HIDE DEF s2
  <2>2. Field(s3, 21, c.schoolYear, 3)
    BY <1>1, <1>3, <1>5, <2>1, FieldStays
  <2> HIDE DEF s3
  <2> QED
    BY <1>1, <1>3, <1>6, <2>2, FieldStays
<1>10. Field(s4, 24, c.page - 1, 4)
  <2> HIDE DEF s2
  <2>1. Field(s3, 24, c.page - 1, 4)
    BY <1>1, <1>3, <1>5, FieldStays
  <2> HIDE DEF s3
  <2> QED
    BY <1>1, <1>3, <1>6, <2>1, FieldStays
<1>11. Field(s4, 28, c.canton, 5)
  <2> HIDE DEF s3
  <2> QED
    BY <1>1, <1>3, <1>6, FieldStays
<1> QED
  BY <1>7, <1>8, <1>9, <1>10, <1>11 DEF PageFields, PagePayload, a, b, p, k, n

LEMMA PageFieldsStay ==
    ASSUME NEW c, NEW a, Word(a, 56), PageFields(a, c),
           NEW b, NEW k \in Nat, Word(b, k)
    PROVE  PageFields(a \o b, c)
<1>1. /\ 3 \in Nat /\ 4 \in Nat /\ 5 \in Nat /\ 23 \in Nat /\ 21 \in Nat
      /\ 24 \in Nat /\ 28 \in Nat /\ 33 \in Nat /\ 56 \in Nat
      /\ 21 + 3 <= 56 /\ 24 + 4 <= 56 /\ 28 + 5 <= 56 /\ 33 + 23 <= 56 /\ 21 <= 56
  OBVIOUS
<1>2. UidFields(a \o b, c.uid)
  BY <1>1, UidFieldsStay DEF PageFields
<1>3. Field(a \o b, 21, c.schoolYear, 3)
  BY <1>1, FieldStays DEF PageFields
<1>4. Field(a \o b, 24, c.page - 1, 4)
  BY <1>1, FieldStays DEF PageFields
<1>5. Field(a \o b, 28, c.canton, 5)
  BY <1>1, FieldStays DEF PageFields
<1>6. Field(a \o b, 33, c.nonce, 23)
  BY <1>1, FieldStays DEF PageFields
<1> QED
  BY <1>2, <1>3, <1>4, <1>5, <1>6 DEF PageFields

LEMMA PageCodeIsRead ==
    ASSUME NEW c, IsPageCode(c), NEW s, Word(s, 72), PageFields(s, c)
    PROVE  UidOf(s) = c.uid /\ PageCodeOf(s) = c
<1>0. /\ c.uid \in Uids
      /\ c.schoolYear \in Nat /\ c.schoolYear \in 0 .. 7
      /\ c.page - 1 \in Nat /\ c.page - 1 \in 0 .. 15 /\ (c.page - 1) + 1 = c.page
      /\ c.canton \in Nat /\ c.canton \in 0 .. 31
      /\ c.nonce \in Nat /\ c.nonce <= 8388607
  BY DEF IsPageCode, LastPage
<1>1. /\ 3 \in Nat /\ 4 \in Nat /\ 5 \in Nat /\ 23 \in Nat /\ 21 \in Nat
      /\ 24 \in Nat /\ 28 \in Nat /\ 33 \in Nat /\ 72 \in Nat
      /\ 21 + 3 <= 72 /\ 24 + 4 <= 72 /\ 28 + 5 <= 72 /\ 33 + 23 <= 72 /\ 21 <= 72
      /\ 21 + 1 = 22 /\ 21 + 3 = 24 /\ 24 + 1 = 25 /\ 24 + 4 = 28 /\ 28 + 1 = 29
      /\ 28 + 5 = 33 /\ 33 + 1 = 34 /\ 33 + 23 = 56
  OBVIOUS
<1>2. UidOf(s) = c.uid
  BY <1>0, <1>1, UidIsRead DEF PageFields
<1>3. Value(SubSeq(s, 22, 24)) = c.schoolYear
  <2>1. Halves(c.schoolYear, 3)[3] = 0
    BY <1>0, HalvesFit3
  <2>2. Value(SubSeq(s, 21 + 1, 21 + 3)) = c.schoolYear
    BY <1>0, <1>1, <2>1, FieldIsRead DEF PageFields
  <2> QED
    BY <1>1, <2>2
<1>4. Value(SubSeq(s, 25, 28)) = c.page - 1
  <2>1. Halves(c.page - 1, 4)[4] = 0
    BY <1>0, HalvesFit4
  <2>2. Value(SubSeq(s, 24 + 1, 24 + 4)) = c.page - 1
    BY <1>0, <1>1, <2>1, FieldIsRead DEF PageFields
  <2> QED
    BY <1>1, <2>2
<1>5. Value(SubSeq(s, 29, 33)) = c.canton
  <2>1. Halves(c.canton, 5)[5] = 0
    BY <1>0, HalvesFit5
  <2>2. Value(SubSeq(s, 28 + 1, 28 + 5)) = c.canton
    BY <1>0, <1>1, <2>1, FieldIsRead DEF PageFields
  <2> QED
    BY <1>1, <2>2
<1>6. Value(SubSeq(s, 34, 56)) = c.nonce
  <2>1. Halves(c.nonce, 23)[23] = 0
    BY <1>0, HalvesFit23
  <2>2. Value(SubSeq(s, 33 + 1, 33 + 23)) = c.nonce
    BY <1>0, <1>1, <2>1, FieldIsRead DEF PageFields
  <2> QED
    BY <1>1, <2>2
<1>7. PageCodeOf(s) = [uid |-> c.uid, schoolYear |-> c.schoolYear,
                       page |-> (c.page - 1) + 1, canton |-> c.canton,
                       nonce |-> c.nonce]
  BY <1>2, <1>3, <1>4, <1>5, <1>6 DEF PageCodeOf
<1>8. c = [uid |-> c.uid, schoolYear |-> c.schoolYear, page |-> c.page,
           canton |-> c.canton, nonce |-> c.nonce]
  BY DEF IsPageCode
<1> QED
  BY <1>0, <1>2, <1>7, <1>8

LEMMA StartsAre == {} \in Regs(8) /\ 0 .. 15 \in Regs(16)
<1>1. 16 - 1 = 15
  OBVIOUS
<1> QED
  BY <1>1 DEF Regs

\* What is printed for a pupil comes back as that pupil.
LEMMA UidComesBack ==
    ASSUME NEW u \in Uids
    PROVE  /\ Word(EncodeUid(u), 24 + 8) /\ UidOf(EncodeUid(u)) = u
           /\ Checked(EncodeUid(u), 24, 24 + 8, {}, 8, {0, 1, 2})
<1> DEFINE poly == {0, 1, 2}
           z == <<0, 0, 0>>
           a == UidBits(u) \o z
           c == Cells(Crc(a, {}, 8, poly), 8)
<1>0. 21 \in Nat /\ 3 \in Nat /\ 24 \in Nat /\ 8 \in Nat /\ 21 + 3 = 24
      /\ 24 + 8 = 32 /\ 21 <= 21 /\ 21 <= 24 /\ 32 \in Nat /\ 21 <= 32
  OBVIOUS
<1>1. IsPoly(poly, 8) /\ {} \in Regs(8)
  BY PolysAre, StartsAre
<1>2. Word(UidBits(u), 21) /\ UidFields(UidBits(u), u)
  BY UidBitsAre
<1>3. Word(z, 3)
  BY DEF Word
<1>4. EncodeUid(u) = a \o c
  BY DEF EncodeUid, Crc8
<1> HIDE DEF poly, z
<1>5. Word(a, 24) /\ UidFields(a, u)
  <2>1. Joins(a, UidBits(u), z, 21, 3)
    BY <1>0, <1>2, <1>3, WordsJoin
  <2>2. UidFields(a, u)
    BY <1>0, <1>2, <1>3, UidFieldsStay
  <2> QED
    BY <1>0, <2>1, <2>2 DEF Joins
<1> HIDE DEF a
<1>6. Word(a \o c, 24 + 8) /\ Checked(a \o c, 24, 24 + 8, {}, 8, poly)
  BY <1>0, <1>1, <1>5, CodesAreChecked
<1>7. Word(c, 8)
  <2>1. Crc(a, {}, 8, poly) \in Regs(8)
    BY <1>1, <1>5, CrcIsTyped DEF Word
  <2> QED
    BY <1>0, <2>1, CellsAreWords
<1> HIDE DEF c
<1>8. UidFields(a \o c, u)
  BY <1>0, <1>5, <1>7, UidFieldsStay
<1>9. UidOf(a \o c) = u
  BY <1>0, <1>6, <1>8, UidIsRead
<1> QED
  BY <1>4, <1>6, <1>9 DEF poly

LEMMA PageCodeComesBack ==
    ASSUME NEW c, IsPageCode(c)
    PROVE  /\ Word(EncodePageCode(c), 56 + 16)
           /\ UidOf(EncodePageCode(c)) = c.uid /\ PageCodeOf(EncodePageCode(c)) = c
           /\ Checked(EncodePageCode(c), 56, 56 + 16, 0 .. 15, 16, {0, 5, 12})
<1> DEFINE poly == {0, 5, 12}
           start == 0 .. 15
           a == PagePayload(c)
           k == Cells(Crc(a, start, 16, poly), 16)
<1>0. 56 \in Nat /\ 16 \in Nat /\ 56 + 16 = 72
  OBVIOUS
<1>1. IsPoly(poly, 16) /\ start \in Regs(16)
  BY PolysAre, StartsAre
<1>2. EncodePageCode(c) = a \o k
  BY DEF EncodePageCode, Crc16, PagePayload
<1> HIDE DEF poly, start
<1>3. Word(a, 56) /\ PageFields(a, c)
  BY PagePayloadIs
<1> HIDE DEF a
<1>4. Word(a \o k, 56 + 16) /\ Checked(a \o k, 56, 56 + 16, start, 16, poly)
  BY <1>0, <1>1, <1>3, CodesAreChecked
<1>5. Word(k, 16)
  <2>1. Crc(a, start, 16, poly) \in Regs(16)
    BY <1>1, <1>3, CrcIsTyped DEF Word
  <2> QED
    BY <1>0, <2>1, CellsAreWords
<1> HIDE DEF k
<1>6. PageFields(a \o k, c)
  BY <1>0, <1>3, <1>5, PageFieldsStay
<1>7. UidOf(a \o k) = c.uid /\ PageCodeOf(a \o k) = c
  BY <1>0, <1>4, <1>6, PageCodeIsRead
<1> QED
  BY <1>2, <1>4, <1>7 DEF poly, start

\* With up to two of its cells misread, what is read of a printed UID is that
\* UID or a refusal (uid_code.py, _CHECKSUM_POLY: "catches every 1-2 bit error").
THEOREM UidReadsAre ==
    ASSUME NEW u \in Uids
    PROVE  ReadsOfUid(u) \subseteq {u, Unreadable}
<1> DEFINE poly == {0, 1, 2}
           code == EncodeUid(u)
<1>0. 24 \in Nat /\ 8 \in Nat /\ 24 + 8 = 32 /\ 48 \in Nat /\ 8 + 24 <= 48
      /\ 32 \in Nat /\ 32 - 1 = 31 /\ 24 + 1 = 25
  OBVIOUS
<1>1. IsPoly(poly, 8) /\ {} \in Regs(8)
  BY PolysAre, StartsAre
<1>2. /\ Word(code, 24 + 8) /\ UidOf(code) = u
      /\ Checked(code, 24, 24 + 8, {}, 8, poly)
  BY UidComesBack
<1>3. PICK f : ArePowers(f, 48, 8, poly)
  <2> HIDE DEF poly
  <2> QED
    BY <1>0, <1>1, PowersAre
<1>4. NoneIsOne(f, 24 + 8)
  BY <1>0, <1>3, NoOtherIsOne8 DEF NoneIsOne
<1>5. \A bits : Crc8(SubSeq(bits, 1, 24)) = Register(SubSeq(bits, 25, 32))
                  <=> Checked(bits, 24, 24 + 8, {}, 8, poly)
  BY <1>0 DEF Crc8, Checked
<1> HIDE DEF poly
<1> SUFFICES ASSUME NEW bits \in Misreads(code), DecodeUid(bits) # Unreadable
             PROVE  DecodeUid(bits) = u
  BY DEF ReadsOfUid
<1>6. Checked(bits, 24, 24 + 8, {}, 8, poly) /\ DecodeUid(bits) = UidOf(bits)
  BY <1>5 DEF DecodeUid
<1> HIDE DEF code
<1>7. PICK d \in {{}} \union {{j, k} : j, k \in DOMAIN code} : bits = Misread(code, d)
  BY DEF Misreads
<1>8. CASE d = {}
  <2>1. bits = code
    BY <1>0, <1>2, <1>7, <1>8, MisreadIs
  <2> QED
    BY <1>2, <1>6, <2>1
<1>9. CASE d # {}
  <2>1. PICK j \in DOMAIN code, k \in DOMAIN code : d = {j, k}
    BY <1>7, <1>9
  <2>2. j \in 1 .. 24 + 8 /\ k \in 1 .. 24 + 8
    BY <1>2 DEF Word
  <2>3. AreCells(d, j, k)
    BY <2>1 DEF AreCells
  <2>4. ~Checked(Misread(code, d), 24, 24 + 8, {}, 8, poly)
    BY <1>0, <1>1, <1>2, <1>3, <1>4, <2>2, <2>3, MisreadCodesShow
  <2> QED
    BY <1>6, <1>7, <2>4
<1> QED
  BY <1>8, <1>9

\* The same of a page code: no two misread cells make it the code of another
\* pupil, page or render (uid_code.py, _crc16: "a misread grid fails rather than
\* resolving to a different real student").
THEOREM PageCodeReadsAre ==
    ASSUME NEW c, IsPageCode(c)
    PROVE  ReadsOfPageCode(c) \subseteq {c, Unreadable}
<1> DEFINE poly == {0, 5, 12}
           start == 0 .. 15
           code == EncodePageCode(c)
<1>0. 56 \in Nat /\ 16 \in Nat /\ 56 + 16 = 72 /\ 96 \in Nat /\ 16 + 56 <= 96
      /\ 72 \in Nat /\ 72 - 1 = 71 /\ 56 + 1 = 57
  OBVIOUS
<1>1. IsPoly(poly, 16) /\ start \in Regs(16)
  BY PolysAre, StartsAre
<1>2. /\ Word(code, 56 + 16) /\ PageCodeOf(code) = c
      /\ Checked(code, 56, 56 + 16, start, 16, poly)
  BY PageCodeComesBack
<1>3. PICK f : ArePowers(f, 96, 16, poly)
  <2> HIDE DEF poly
  <2> QED
    BY <1>0, <1>1, PowersAre
<1>4. NoneIsOne(f, 56 + 16)
  BY <1>0, <1>3, NoOtherIsOne16 DEF NoneIsOne
<1>5. \A bits : Crc16(SubSeq(bits, 1, 56)) = Register(SubSeq(bits, 57, 72))
                  <=> Checked(bits, 56, 56 + 16, start, 16, poly)
  BY <1>0 DEF Crc16, Checked
<1> HIDE DEF poly, start
<1> SUFFICES ASSUME NEW bits \in Misreads(code), DecodePageCode(bits) # Unreadable
             PROVE  DecodePageCode(bits) = c
  BY DEF ReadsOfPageCode
<1>6. /\ Checked(bits, 56, 56 + 16, start, 16, poly)
      /\ DecodePageCode(bits) = PageCodeOf(bits)
  BY <1>5 DEF DecodePageCode
<1> HIDE DEF code
<1>7. PICK d \in {{}} \union {{j, k} : j, k \in DOMAIN code} : bits = Misread(code, d)
  BY DEF Misreads
<1>8. CASE d = {}
  <2>1. bits = code
    BY <1>0, <1>2, <1>7, <1>8, MisreadIs
  <2> QED
    BY <1>2, <1>6, <2>1
<1>9. CASE d # {}
  <2>1. PICK j \in DOMAIN code, k \in DOMAIN code : d = {j, k}
    BY <1>7, <1>9
  <2>2. j \in 1 .. 56 + 16 /\ k \in 1 .. 56 + 16
    BY <1>2 DEF Word
  <2>3. AreCells(d, j, k)
    BY <2>1 DEF AreCells
  <2>4. ~Checked(Misread(code, d), 56, 56 + 16, start, 16, poly)
    BY <1>0, <1>1, <1>2, <1>3, <1>4, <2>2, <2>3, MisreadCodesShow
  <2> QED
    BY <1>6, <1>7, <2>4
<1> QED
  BY <1>8, <1>9

\* No two misread cells make another code out of one that is printed.
LEMMA NoCodeBecomesAnother == MisreadsAreRefused
<1>1. ASSUME NEW p \in DOMAIN UidReads
      PROVE  UidReads[p] \subseteq {UidRow[p], Unreadable}
  <2>1. PICK s \in Shots : p = s.pupil
    BY DEF UidReads
  <2>2. UidRow[p] \in Uids
    BY <2>1, PaperAssumption DEF WellFormed
  <2>3. UidReads[p] = ReadsOfUid(UidRow[p])
    BY DEF UidReads
  <2> QED
    BY <2>2, <2>3, UidReadsAre
<1>2. ASSUME NEW c \in DOMAIN CodeReads
      PROVE  CodeReads[c] \subseteq {c, Unreadable}
  <2>1. PICK s \in Shots, g \in 0 .. MaxGeneration : c = CodeOf(s.pupil, s.page, g)
    BY DEF CodeReads
  <2>2. /\ UidRow[s.pupil] \in Uids /\ s.page \in 1 .. 16
        /\ NonceOf[g] \in Nonces
    BY PaperAssumption DEF WellFormed
  <2>3. NonceOf[g] \in Nat /\ NonceOf[g] <= 8388607
    <3> DEFINE m == NonceMax
    <3>1. NonceOf[g] \in 0 .. m
      BY <2>2 DEF Nonces
    <3>2. m \in Nat /\ m <= 8388607
      BY DEF NonceMax
    <3> HIDE DEF m
    <3>3. NonceOf[g] \in Nat /\ NonceOf[g] <= m
      BY <3>1, <3>2
    <3> QED
      BY <3>2, <3>3
  <2>4. IsPageCode(c)
    BY <2>1, <2>2, <2>3 DEF CodeOf, IsPageCode, LastPage, CantonUnset
  <2>5. CodeReads[c] = ReadsOfPageCode(c)
    BY DEF CodeReads
  <2> QED
    BY <2>4, <2>5, PageCodeReadsAre
<1> QED
  BY <1>1, <1>2 DEF MisreadsAreRefused

=============================================================================
