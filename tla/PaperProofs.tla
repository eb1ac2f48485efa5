----------------------------- MODULE PaperProofs -----------------------------
(***************************************************************************)
(* Printed sheets and their photographs, for any class, exercises, copies, *)
(* ink, uploads and misreadings.                                           *)
(***************************************************************************)
EXTENDS PrintProofs, FunctionTheorems

-----------------------------------------------------------------------------
(* The ink of an item                                                      *)

\* The smaller and the larger of two numbers.
LEMMA MinOfTwo ==
    ASSUME NEW a \in Int, NEW b \in Int
    PROVE  Min({a, b}) = IF a <= b THEN a ELSE b
<1> DEFINE least == IF a <= b THEN a ELSE b
<1>1. least \in {a, b} /\ \A y \in {a, b} : least <= y
  OBVIOUS
<1>2. \A x \in {a, b} : (\A y \in {a, b} : x <= y) => x = least
  OBVIOUS
<1> QED
  BY <1>1, <1>2 DEF Min

LEMMA MaxOfTwo ==
    ASSUME NEW a \in Int, NEW b \in Int
    PROVE  Max({a, b}) = IF a >= b THEN a ELSE b
<1> DEFINE greatest == IF a >= b THEN a ELSE b
<1>1. greatest \in {a, b} /\ \A y \in {a, b} : greatest >= y
  OBVIOUS
<1>2. \A x \in {a, b} : (\A y \in {a, b} : x >= y) => x = greatest
  OBVIOUS
<1> QED
  BY <1>1, <1>2 DEF Max

\* There are at most four bubbles at a row.
LEMMA OptionCountType ==
    ASSUME NEW i \in Wordings PROVE OptionCount(i) \in 0 .. 4
<1>1. i.kind \in {"true_false", "mcq", "open"} /\ Len(i.options) \in Nat
  BY DEF Wordings
<1>2. Min({Len(i.options), 4}) \in 0 .. 4
  <2> DEFINE n == Len(i.options)
  <2>1. n \in Nat
    BY <1>1
  <2> HIDE DEF n
  <2>2. Min({n, 4}) = IF n <= 4 THEN n ELSE 4
    BY <2>1, MinOfTwo
  <2>3. Min({n, 4}) \in 0 .. 4
    BY <2>1, <2>2
  <2> QED
    BY <2>3 DEF n
<1>3. CASE i.kind = "true_false"
  BY <1>3 DEF OptionCount
<1>4. CASE i.kind = "mcq"
  BY <1>2, <1>4 DEF OptionCount
<1>5. CASE i.kind = "open"
  BY <1>5 DEF OptionCount
<1> QED
  BY <1>1, <1>3, <1>4, <1>5

Inks == [fill : 0 .. 100, cross : 0 .. 100]

\* The strength of a mark is a number.
LEMMA MarkStrengthType ==
    ASSUME NEW ink \in Inks PROVE MarkStrength(ink) \in Nat
<1> DEFINE c == ink.cross
           rise == FillBlank + ((c - CrossBlank) * (FillMarked - FillBlank))
                                 \div (CrossMarked - CrossBlank)
           past == FillMarked + ((c - CrossMarked) * (Saturated - FillMarked))
                                 \div (100 - CrossMarked)
           mapped == CASE c <= CrossBlank -> 0
                       [] c \in CrossBlank + 1 .. CrossMarked -> rise
                       [] OTHER -> past
<1>1. c \in 0 .. 100 /\ ink.fill \in 0 .. 100
  BY DEF Inks
<1>2. c \in CrossBlank + 1 .. CrossMarked => rise \in Nat
  BY <1>1 DEF FillBlank, FillMarked, CrossBlank, CrossMarked
<1>3. c > CrossMarked => past \in Nat
  BY <1>1 DEF FillMarked, Saturated, CrossMarked
<1>4. mapped \in Nat
  <2> HIDE DEF rise, past, c
  <2>1. CASE c <= CrossBlank
    BY <1>1, <2>1 DEF CrossBlank, CrossMarked
  <2>2. CASE c \in CrossBlank + 1 .. CrossMarked
    BY <1>1, <1>2, <2>2 DEF CrossBlank, CrossMarked
  <2>3. CASE c > CrossMarked
    BY <1>1, <1>3, <2>3 DEF CrossBlank, CrossMarked
  <2> QED
    BY <1>1, <2>1, <2>2, <2>3 DEF CrossBlank, CrossMarked
<1>5. MarkStrength(ink) = Max({ink.fill, mapped})
  BY DEF MarkStrength
<1>6. ink.fill \in Int /\ mapped \in Int
  BY <1>1, <1>4
<1> HIDE DEF mapped
<1> QED
  BY <1>1, <1>4, <1>5, <1>6, MaxOfTwo

-----------------------------------------------------------------------------
(* What is read at an item                                                 *)

\* Of one to four marks one is the strongest.
LEMMA OneIsStrongest ==
    ASSUME NEW n \in 1 .. 4, NEW mark \in [1 .. n -> Nat]
    PROVE  /\ Strongest(mark) \in 1 .. n
           /\ \A m \in 1 .. n : mark[m] <= mark[Strongest(mark)]
<1> DEFINE Best(o) == \A m \in DOMAIN mark :
                        mark[m] < mark[o] \/ (mark[m] = mark[o] /\ o <= m)
<1>1. \E o \in DOMAIN mark : Best(o)
  <2>1. CASE n = 1
    BY <2>1
  <2>2. CASE n = 2
    BY <2>2
  <2>3. CASE n = 3
    BY <2>3
  <2>4. CASE n = 4
    BY <2>4
  <2> QED
    BY <2>1, <2>2, <2>3, <2>4
<1>2. Strongest(mark) \in DOMAIN mark /\ Best(Strongest(mark))
  BY <1>1 DEF Strongest
<1> QED
  BY <1>2

Outcomes == {"blank", "detected", "low", "multiple", "not_gradeable"}
IsReading(d) == d.outcome \in Outcomes /\ d.option \in 0 .. 4

Bubbles == {s \in Seq(Inks) : Len(s) <= 4}

LEMMA DetectItemType ==
    ASSUME NEW inks \in Bubbles PROVE IsReading(DetectItem(inks))
<1>1. CASE inks = <<>>
  BY <1>1 DEF DetectItem, NotAsked, Detection, NoOption, IsReading, Outcomes
<1>2. CASE inks # <<>>
  <2> DEFINE n == Len(inks)
             mark == [o \in DOMAIN inks |-> MarkStrength(inks[o])]
  <2>1. n \in 1 .. 4 /\ DOMAIN inks = 1 .. n /\ \A o \in 1 .. n : inks[o] \in Inks
    <3>1. inks \in Seq(Inks) /\ n \in Nat /\ n <= 4
      BY DEF Bubbles
    <3>2. n # 0
      BY <1>2, <3>1, EmptySeq
    <3>3. \A o \in 1 .. n : inks[o] \in Inks
      BY <3>1
    <3>4. DOMAIN inks = 1 .. n
      BY <3>1
    <3> QED
      BY <3>1, <3>2, <3>3, <3>4
  <2>2. mark \in [1 .. n -> Nat]
    <3>1. \A o \in 1 .. n : MarkStrength(inks[o]) \in Nat
      BY <2>1, MarkStrengthType
    <3> HIDE DEF n
    <3> QED
      BY <2>1, <3>1
  <2>3. DetectItem(inks) = Weighed(mark)
    BY <1>2 DEF DetectItem
  <2> HIDE DEF mark, n
  <2>4. Strongest(mark) \in 1 .. 4
    <3>1. Strongest(mark) \in 1 .. n
      BY <2>1, <2>2, OneIsStrongest
    <3> QED
      BY <2>1, <3>1
  <2>5. \A option \in 1 .. 4 : \A best, second :
          IsReading(Judged(option, best, second))
    BY DEF Judged, Confident, Detection, NoOption, IsReading, Outcomes
  <2>6. IsReading(Weighed(mark))
    BY <2>4, <2>5 DEF Weighed, Compared
  <2> QED
    BY <2>3, <2>6
<1> QED
  BY <1>1, <1>2

\* A page is read row by row; the sweep over its blanks drops none.
LEMMA DetectPageType ==
    ASSUME NEW page, \A r \in DOMAIN page : page[r] \in Bubbles
    PROVE  /\ DOMAIN DetectPage(page) = DOMAIN page
           /\ \A r \in DOMAIN page : IsReading(DetectPage(page)[r])
<1> DEFINE read == [r \in DOMAIN page |-> DetectItem(page[r])]
<1>1. DOMAIN read = DOMAIN page /\ \A r \in DOMAIN page : IsReading(read[r])
  BY DetectItemType
<1> HIDE DEF read
<1>2. \A c : IsReading(Detection("low", NoOption, c))
  BY DEF Detection, NoOption, IsReading, Outcomes
<1>3. /\ DOMAIN FlagSuspiciousBlanks(read) = DOMAIN read
      /\ \A r \in DOMAIN read : IsReading(FlagSuspiciousBlanks(read)[r])
  BY <1>1, <1>2 DEF FlagSuspiciousBlanks
<1> QED
  BY <1>1, <1>3 DEF DetectPage, read

-----------------------------------------------------------------------------
(* What is read at a page                                                  *)

Papers == [layout : {"v1", "v2"}, plan : Plans, edition : Editions]

\* A copy has pages for the grid, or is none.
LEMMA CopyType ==
    ASSUME NEW p \in Pupils, NEW paper \in Papers
    PROVE  Copy(p, paper) = TooTall \/ IsACopy(Copy(p, paper))
<1>1. paper.plan \in Plans /\ paper.edition \in Editions
  BY DEF Papers
<1>2. Fits[paper.plan][paper.edition][p]
  BY <1>1, EveryCopyHolds DEF EveryCopyFits
<1>3. \/ Copies[paper.plan][paper.edition][p] = TooTall
      \/ FitsItsPages(ListOf[paper.plan][p], Copies[paper.plan][paper.edition][p])
  BY <1>1, <1>2 DEF Fits
<1> QED
  BY <1>3 DEF Copy, FitsItsPages

LEMMA PageOfCopyType ==
    ASSUME NEW copy, copy = TooTall \/ IsACopy(copy), NEW n \in DOMAIN copy
    PROVE  /\ IsACopy(copy) /\ n \in Nat \ {0}
           /\ copy[n] \in Seq(Lines) /\ Len(copy[n]) <= ItemsPerPage
<1>1. DOMAIN <<>> = {}
  OBVIOUS
<1>2. IsACopy(copy)
  BY <1>1 DEF TooTall
<1>3. copy \in Seq(Seq(Lines)) /\ Len(copy) \in Nat \ {0}
      /\ Len(copy[n]) <= ItemsPerPage
  BY <1>2 DEF IsACopy
<1> QED
  BY <1>2, <1>3

\* A photograph shows the rows of a page of the class, or none.
LEMMA PrintedRowsType ==
    ASSUME NEW photo \in Photos, PaperOf(photo) \in Papers
    PROVE  /\ PrintedRows(photo) \in Seq(Lines)
           /\ PrintedRows(photo) # <<>> => photo.pupil \in Pupils
<1>1. <<>> \in Seq(Lines)
  OBVIOUS
<1>2. CASE photo.pupil \in Strangers
  BY <1>1, <1>2 DEF PrintedRows
<1>3. CASE photo.pupil \notin Strangers
  <2> DEFINE copy == Copy(photo.pupil, PaperOf(photo))
  <2>1. photo.pupil \in Pupils
    BY <1>3 DEF Photos, Somebody
  <2>2. copy = TooTall \/ IsACopy(copy)
    BY <2>1, CopyType
  <2>3. PrintedRows(photo)
          = IF photo.page \in DOMAIN copy THEN copy[photo.page] ELSE <<>>
    BY <1>3 DEF PrintedRows
  <2> HIDE DEF copy
  <2>4. photo.page \in DOMAIN copy => copy[photo.page] \in Seq(Lines)
    BY <2>2, PageOfCopyType
  <2> QED
    BY <1>1, <2>1, <2>3, <2>4
<1> QED
  BY <1>2, <1>3

\* A copy that has faded has less ink.
LEMMA FadedType ==
    ASSUME NEW ink \in Inks, NEW kept \in 0 .. 100
    PROVE  Faded(ink, kept) \in Inks
<1>1. \A x \in 0 .. 100 : (x * kept) \div 100 \in 0 .. 100
  <2> TAKE x \in 0 .. 100
  <2>1. x * kept \in 0 .. 10000
    <3>1. x * kept >= 0
      OBVIOUS
    <3>2. x * kept <= 100 * 100
      OBVIOUS
    <3> QED
      BY <3>1, <3>2
  <2> DEFINE y == x * kept
  <2> HIDE DEF y
  <2>2. y \in 0 .. 10000 => y \div 100 \in 0 .. 100
    OBVIOUS
  <2> QED
    BY <2>1, <2>2 DEF y
<1>2. ink.fill \in 0 .. 100 /\ ink.cross \in 0 .. 100
  BY DEF Inks
<1> QED
  BY <1>1, <1>2 DEF Faded, Inks

LEMMA InkAtType ==
    ASSUME NEW photo \in Photos, PaperOf(photo) \in Papers,
           NEW r, NEW options \in 0 .. 4
    PROVE  InkAt(photo, r, options) \in Bubbles
<1> DEFINE rows == PrintedRows(photo)
           there == IF r \in DOMAIN rows
                    THEN Ink[photo.pupil][rows[r].key] ELSE <<>>
           ink == [o \in 1 .. options |->
                     IF o \in DOMAIN there THEN Faded(there[o], photo.kept)
                     ELSE NoInk]
<1>1. rows \in Seq(Lines) /\ (rows # <<>> => photo.pupil \in Pupils)
  BY PrintedRowsType
<1>2. \A o \in DOMAIN there : there[o] \in Inks
  <2>1. CASE r \in DOMAIN rows
    <3>1. rows[r] \in Lines /\ rows # <<>>
      BY <1>1, <2>1
    <3>2. rows[r].key \in Exercises /\ photo.pupil \in Pupils
      BY <1>1, <3>1 DEF Lines
    <3>3. Ink[photo.pupil][rows[r].key] \in Seq(Inks)
      BY <3>2, InkAssumption DEF Inks
    <3> QED
      BY <2>1, <3>3
  <2>2. CASE r \notin DOMAIN rows
    BY <2>2
  <2> QED
    BY <2>1, <2>2
<1> HIDE DEF there, rows
<1>3. photo.kept \in 0 .. 100
  BY DEF Photos
<1>4. NoInk \in Inks
  BY DEF NoInk, Inks
<1>5. ink \in [1 .. options -> Inks]
  BY <1>2, <1>3, <1>4, FadedType
<1> HIDE DEF ink
<1>6. ink \in Seq(Inks) /\ Len(ink) = options
  BY <1>5
<1>7. InkAt(photo, r, options) = ink
  BY DEF InkAt, ink, there, rows
<1> QED
  BY <1>6, <1>7 DEF Bubbles

LEMMA DetectType ==
    ASSUME NEW photo \in Photos, PaperOf(photo) \in Papers,
           NEW counts, \A r \in DOMAIN counts : counts[r] \in 0 .. 4
    PROVE  /\ DOMAIN Detect(photo, counts) = DOMAIN counts
           /\ \A r \in DOMAIN counts : IsReading(Detect(photo, counts)[r])
<1> DEFINE page == [r \in DOMAIN counts |-> InkAt(photo, r, counts[r])]
<1>1. DOMAIN page = DOMAIN counts /\ \A r \in DOMAIN page : page[r] \in Bubbles
  BY InkAtType
<1>2. Detect(photo, counts) = DetectPage(page)
  BY DEF Detect
<1> HIDE DEF page
<1> QED
  BY <1>1, <1>2, DetectPageType

LEMMA CountsType ==
    ASSUME NEW rows \in Seq(Lines), NEW paper \in Papers
    PROVE  /\ DOMAIN Counts(rows, paper) = DOMAIN rows
           /\ \A r \in DOMAIN rows : Counts(rows, paper)[r] \in 0 .. 4
<1>1. \A r \in DOMAIN rows : rows[r].key \in Exercises
  <2> TAKE r \in DOMAIN rows
  <2>1. rows[r] \in Lines
    OBVIOUS
  <2> QED
    BY <2>1 DEF Lines
<1>2. paper.edition \in Editions
  BY DEF Papers
<1>3. \A r \in DOMAIN rows : Says[paper.edition][rows[r].key] \in Wordings
  BY <1>1, <1>2, PaperAssumption
<1> QED
  BY <1>3, OptionCountType DEF Counts

IsRead(d) == d.outcome \in Outcomes \union {"pending"} /\ d.option \in 0 .. 4

LEMMA WithCropType ==
    ASSUME NEW d, IsReading(d), NEW photo, NEW r, NEW boxes
    PROVE  IsRead(WithCrop(d, photo, r, boxes))
BY DEF WithCrop, IsReading, IsRead, Outcomes, Detection, NoOption

LEMMA RowType ==
    ASSUME NEW r \in 1 .. ItemsPerPage, NEW e \in Exercises \union {Nothing},
           NEW d, IsRead(d)
    PROVE  /\ Row(r, e, d) \in DetectionRows
           /\ Row(r, e, d).row = r /\ Row(r, e, d).exercise = e
           /\ ~Row(r, e, d).corrected
BY DEF Row, StoodBehind, IsRead, Outcomes, DetectionRows

\* Each row read is one of the page's, with the question that stands there.
LEMMA ReadAgainstType ==
    ASSUME NEW photo \in Photos, PaperOf(photo) \in Papers,
           NEW pupil, NEW slot, NEW paper \in Papers,
           NEW rows \in Seq(Lines), Len(rows) <= ItemsPerPage
    PROVE  /\ ReadAgainst(photo, pupil, rows, slot, paper) \subseteq DetectionRows
           /\ \A x \in ReadAgainst(photo, pupil, rows, slot, paper) :
                /\ x.row \in DOMAIN rows /\ x.exercise = rows[x.row].key
                /\ ~x.corrected
<1> DEFINE read == Detect(photo, Counts(rows, paper))
           boxes == BoxRows(pupil, slot, pile.generation)
           crops == [r \in DOMAIN read |-> WithCrop(read[r], photo, r, boxes)]
<1>1. DOMAIN read = DOMAIN rows /\ \A r \in DOMAIN rows : IsReading(read[r])
  BY CountsType, DetectType
<1> HIDE DEF read, boxes
<1>2. DOMAIN crops = DOMAIN rows /\ \A r \in DOMAIN rows : IsRead(crops[r])
  BY <1>1, WithCropType
<1> HIDE DEF crops
<1>3. ReadAgainst(photo, pupil, rows, slot, paper) = Paired(rows, crops)
  BY DEF ReadAgainst, read, boxes, crops
<1>4. \A r \in DOMAIN rows : r \in 1 .. ItemsPerPage /\ rows[r].key \in Exercises
  <2> TAKE r \in DOMAIN rows
  <2>1. rows[r] \in Lines /\ r \in 1 .. Len(rows) /\ Len(rows) \in Nat
    OBVIOUS
  <2>2. ItemsPerPage \in Nat
    BY PaginationAssumption
  <2> QED
    BY <2>1, <2>2 DEF Lines
<1>5. \A r \in DOMAIN rows :
        LET x == Row(r, rows[r].key, crops[r])
        IN x \in DetectionRows /\ x.row = r /\ x.exercise = rows[r].key
             /\ ~x.corrected
  BY <1>2, <1>4, RowType
<1> QED
  BY <1>2, <1>3, <1>5 DEF Paired

LEMMA UnpairedType ==
    ASSUME NEW photo \in Photos, PaperOf(photo) \in Papers
    PROVE  /\ Unpaired(Detect(photo, FullGrid)) \subseteq DetectionRows
           /\ \A x \in Unpaired(Detect(photo, FullGrid)) :
                x.exercise = Nothing /\ ~x.corrected
<1> DEFINE read == Detect(photo, FullGrid)
<1>1. DOMAIN read = 1 .. ItemsPerPage /\ \A r \in 1 .. ItemsPerPage : IsReading(read[r])
  <2>1. /\ DOMAIN FullGrid = 1 .. ItemsPerPage
        /\ \A r \in 1 .. ItemsPerPage : FullGrid[r] \in 0 .. 4
    BY DEF FullGrid
  <2> QED
    BY <2>1, DetectType
<1> HIDE DEF read
<1>2. \A r \in 1 .. ItemsPerPage :
        LET x == Row(r, Nothing, read[r])
        IN x \in DetectionRows /\ x.exercise = Nothing /\ ~x.corrected
  BY <1>1, RowType DEF IsReading, IsRead
<1>3. Unpaired(read) \subseteq DetectionRows
      /\ \A x \in Unpaired(read) : x.exercise = Nothing /\ ~x.corrected
  BY <1>1, <1>2 DEF Unpaired
<1> QED
  BY <1>3 DEF read

-----------------------------------------------------------------------------
(* The invariant: the sheet, its pile and the pages of the pile            *)

\* Paper whose sheet has not been altered since shows the sheet of today.
SheetOK ==
    /\ plan \in Plans /\ edition \in Editions
    /\ generation \in 1 .. MaxGeneration /\ layout \in {"v1", "v2"}
    /\ printed \in [1 .. generation -> Papers]
    /\ altered \subseteq 1 .. generation
    /\ \A g \in 1 .. generation \ altered :
         printed[g].plan = plan /\ printed[g].edition = edition

\* A photograph of a page that has been printed.
IsTaken(photo) ==
    /\ photo \in Photos
    /\ \E s \in Shots : s.pupil = photo.pupil /\ s.page = photo.page
    /\ photo.generation \in 0 .. generation
    /\ IsPrinted(photo)

PileRecords ==
    [stage : {"none", "queued", "reading", "review", "failed"},
     layout : {"v1", "v2"}, generation : 0 .. MaxGeneration,
     waiting : Seq(Photos), retaken : BOOLEAN,
     basis : Papers \union {Nothing}, seen : [Pupils -> Nat]]

\* A run reads against copies that can be printed, and as long as the sheet is
\* not altered against those that were.
PileOK ==
    /\ pile \in PileRecords
    /\ pile.generation \in 0 .. generation
    /\ pile.stage = "none" => pages = <<>>
    /\ pile.stage # "none" => pile.generation >= 1
    /\ \A k \in DOMAIN pile.waiting : IsTaken(pile.waiting[k])
    /\ pile.stage = "reading" =>
         /\ pile.basis \in Papers /\ Printable(pile.basis)
         /\ pile.generation \notin altered =>
              pile.basis.plan = plan /\ pile.basis.edition = edition

PagesOK ==
    /\ pages \in Seq(PageRows)
    /\ \A k \in DOMAIN pages : IsTaken(pages[k].photo)

PaperInv == SheetOK /\ PileOK /\ PagesOK

LEMMA PaperOfType ==
    ASSUME SheetOK, NEW photo, IsTaken(photo)
    PROVE  PaperOf(photo) \in Papers
<1>1. photo.generation \in 0 .. generation /\ printed \in [1 .. generation -> Papers]
      /\ generation \in Nat /\ generation >= 1
  BY DEF IsTaken, SheetOK
<1> QED
  BY <1>1 DEF PaperOf

LEMMA TodayType ==
    ASSUME SheetOK PROVE Today \in Papers
BY DEF SheetOK, Today, Papers

LEMMA Initially == ASSUME Init PROVE PaperInv
<1>1. Today \in Papers
  BY PaperAssumption DEF Init, Today, Papers
<1>2. SheetOK
  BY <1>1, PaperAssumption DEF Init, SheetOK, Today, Papers
<1>3. PileOK
  <2>1. <<>> \in Seq(Photos) /\ DOMAIN <<>> = {}
    OBVIOUS
  <2>2. NoPile \in PileRecords
    BY <2>1, PaperAssumption DEF NoPile, PileRecords
  <2>3. pile = NoPile /\ pages = <<>> /\ generation = 1
    BY DEF Init
  <2> QED
    BY <2>1, <2>2, <2>3 DEF PileOK, NoPile
<1>4. PagesOK
  <2>1. pages = <<>> /\ <<>> \in Seq(PageRows) /\ DOMAIN <<>> = {}
    BY DEF Init
  <2> QED
    BY <2>1 DEF PagesOK
<1> QED
  BY <1>2, <1>3, <1>4 DEF PaperInv

\* What the teacher does to the sheet leaves the paper that is about as it is.
LEMMA PaperStays ==
    ASSUME SheetOK, Render \/ ReplaceItems \/ EditStatement
    PROVE  /\ SheetOK'
           /\ generation' >= generation
           /\ \A photo : IsTaken(photo) =>
                IsTaken(photo)' /\ PaperOf(photo)' = PaperOf(photo)
<1>1. CASE Render
  <2> DEFINE now == [Today EXCEPT !.layout = "v2"]
  <2>1. now = [layout |-> "v2", plan |-> plan, edition |-> edition]
    BY DEF Today
  <2>2. now \in Papers
    BY <2>1 DEF SheetOK, Papers
  <2> HIDE DEF now
  <2>3. /\ generation' = generation + 1 /\ generation < MaxGeneration
        /\ layout' = "v2" /\ plan' = plan /\ edition' = edition
        /\ altered' = altered
        /\ printed' = [g \in 1 .. generation + 1 |->
                         IF g = generation + 1 THEN now ELSE printed[g]]
    BY <1>1 DEF Render, Rendered, now
  <2>4. generation \in 1 .. MaxGeneration /\ MaxGeneration \in Nat
    BY PaperAssumption DEF SheetOK
  <2>5. printed' \in [1 .. generation' -> Papers]
    <3>1. printed \in [1 .. generation -> Papers]
      BY DEF SheetOK
    <3>2. \A g \in 1 .. generation + 1 :
            g # generation + 1 => printed[g] \in Papers
      BY <2>4, <3>1
    <3> QED
      BY <2>2, <2>3, <3>2
  <2>6. \A g \in 1 .. generation : printed'[g] = printed[g]
    BY <2>3, <2>4
  <2>7. SheetOK'
    <3>1. /\ generation' \in 1 .. MaxGeneration
          /\ altered' \subseteq 1 .. generation'
      BY <2>3, <2>4 DEF SheetOK
    <3>2. ASSUME NEW g \in 1 .. generation' \ altered'
          PROVE  printed'[g].plan = plan' /\ printed'[g].edition = edition'
      <4>1. CASE g = generation + 1
        <5>1. printed'[g] = now
          BY <2>3, <2>4, <4>1
        <5> QED
          BY <2>1, <2>3, <5>1
      <4>2. CASE g # generation + 1
        <5>1. g \in 1 .. generation \ altered
          BY <2>3, <2>4, <3>2, <4>2
        <5>2. printed[g].plan = plan /\ printed[g].edition = edition
          BY <5>1 DEF SheetOK
        <5>3. printed'[g] = printed[g]
          BY <2>6, <5>1
        <5> QED
          BY <2>3, <5>2, <5>3
      <4> QED
        BY <4>1, <4>2
    <3>3. plan' \in Plans /\ edition' \in Editions /\ layout' \in {"v1", "v2"}
      BY <2>3 DEF SheetOK
    <3> QED
      BY <2>5, <3>1, <3>2, <3>3 DEF SheetOK
  <2>8. ASSUME NEW photo, IsTaken(photo)
        PROVE  IsTaken(photo)' /\ PaperOf(photo)' = PaperOf(photo)
    <3>1. photo.generation \in 0 .. generation
      BY <2>8 DEF IsTaken
    <3>2. PaperOf(photo)' = PaperOf(photo)
      BY <2>4, <2>6, <3>1 DEF PaperOf
    <3>3. IsPrinted(photo)'
      BY <2>8, <3>2 DEF IsTaken, IsPrinted, Copy
    <3>4. photo.generation \in 0 .. generation'
      BY <2>3, <2>4, <3>1
    <3> QED
      BY <2>8, <3>2, <3>3, <3>4 DEF IsTaken
  <2> QED
    BY <2>3, <2>4, <2>7, <2>8
<1>2. CASE ReplaceItems \/ EditStatement
  <2>1. /\ generation' = generation /\ printed' = printed /\ layout' = layout
        /\ plan' \in Plans /\ edition' \in Editions
        /\ altered' = altered \union DOMAIN printed
    BY <1>2 DEF ReplaceItems, EditStatement, Alter, SheetOK
  <2>2. DOMAIN printed = 1 .. generation
    BY DEF SheetOK
  <2>3. altered' = 1 .. generation
    BY <2>1, <2>2 DEF SheetOK
  <2>4. SheetOK'
    BY <2>1, <2>3 DEF SheetOK
  <2>5. \A photo : IsTaken(photo) =>
          IsTaken(photo)' /\ PaperOf(photo)' = PaperOf(photo)
    BY <2>1 DEF IsTaken, IsPrinted, PaperOf, Copy
  <2>6. generation' >= generation
    BY <2>1 DEF SheetOK
  <2> QED
    BY <2>4, <2>5, <2>6
<1> QED
  BY <1>1, <1>2

\* When the sheet stays as it is, so do its photographs.
LEMMA SheetStays ==
    ASSUME UNCHANGED <<sheet, altered>>
    PROVE  /\ SheetOK => SheetOK'
           /\ \A photo : IsTaken(photo) =>
                IsTaken(photo)' /\ PaperOf(photo)' = PaperOf(photo)
<1>1. /\ plan' = plan /\ edition' = edition /\ generation' = generation
      /\ layout' = layout /\ printed' = printed /\ altered' = altered
  BY DEF sheet
<1>2. SheetOK => SheetOK'
  BY <1>1 DEF SheetOK
<1>3. \A photo : IsTaken(photo) =>
        IsTaken(photo)' /\ PaperOf(photo)' = PaperOf(photo)
  BY <1>1 DEF IsTaken, IsPrinted, PaperOf, Copy
<1> QED
  BY <1>2, <1>3

LEMMA SheetKeepsInv ==
    ASSUME PaperInv, Render \/ ReplaceItems \/ EditStatement
    PROVE  PaperInv'
<1>1. SheetOK' /\ generation' >= generation
      /\ \A photo : IsTaken(photo) => IsTaken(photo)'
  BY PaperStays DEF PaperInv
<1>2. pile' = pile /\ pages' = pages
  BY DEF Render, ReplaceItems, EditStatement
<1>3. PagesOK'
  BY <1>1, <1>2 DEF PaperInv, PagesOK
<1>4. pile.stage = "reading" /\ pile.generation \notin altered' =>
        /\ pile.generation \notin altered
        /\ plan' = plan /\ edition' = edition
  <2>1. CASE Render
    BY <2>1 DEF Render
  <2>2. CASE ReplaceItems \/ EditStatement
    <3>1. altered' = altered \union DOMAIN printed /\ DOMAIN printed = 1 .. generation
      BY <2>2 DEF ReplaceItems, EditStatement, Alter, PaperInv, SheetOK
    <3>2. pile.stage = "reading" => pile.generation \in 1 .. generation
      BY DEF PaperInv, PileOK, SheetOK
    <3> QED
      BY <3>1, <3>2
  <2> QED
    BY <2>1, <2>2
<1>5. pile.generation \in 0 .. generation'
  BY <1>1 DEF PaperInv, PileOK, SheetOK
<1>6. PileOK'
  BY <1>1, <1>2, <1>4, <1>5 DEF PaperInv, PileOK, Printable, Copy
<1> QED
  BY <1>1, <1>3, <1>6 DEF PaperInv

\* An upload, and a retake, bring photographs of what has been printed.
LEMMA PhotographsType ==
    ASSUME SheetOK, NEW shots \in Uploads \union Retakes,
           NEW photos \in Photographs(shots)
    PROVE  /\ photos \in Seq(Photos)
           /\ \A k \in DOMAIN photos : IsTaken(photos[k])
<1>1. PICK g \in {0} \union DOMAIN printed : photos = PhotographedFrom(shots, g)
  BY DEF Photographs
<1>2. g \in 0 .. generation /\ generation \in 1 .. MaxGeneration
      /\ MaxGeneration \in Nat
  BY <1>1, PaperAssumption DEF SheetOK
<1>3. shots \in Seq(Shots)
  BY PaperAssumption
<1>4. DOMAIN photos = 1 .. Len(shots)
  BY <1>1, <1>3 DEF PhotographedFrom
<1>5. ASSUME NEW k \in 1 .. Len(shots)
      PROVE  photos[k] \in Photos /\ IsTaken(photos[k])
  <2>1. shots[k] \in Shots
    BY <1>3
  <2>2. /\ shots[k].pupil \in Somebody /\ shots[k].page \in 1 .. 16
        /\ shots[k].kept \in 0 .. 100 /\ shots[k].legible \in BOOLEAN
    BY <2>1, PaperAssumption
  <2>3. photos[k] = [pupil |-> shots[k].pupil, page |-> shots[k].page,
                     kept |-> shots[k].kept, legible |-> shots[k].legible,
                     generation |-> g]
    BY <1>1, <1>3 DEF PhotographedFrom
  <2>4. g \in 0 .. MaxGeneration
    BY <1>2
  <2>5. photos[k] \in Photos
    BY <2>2, <2>3, <2>4 DEF Photos
  <2>6. IsPrinted(photos[k])
    BY <1>4 DEF Photographs
  <2> QED
    BY <1>2, <2>1, <2>3, <2>5, <2>6 DEF IsTaken
<1>6. photos \in [1 .. Len(shots) -> Photos] /\ Len(shots) \in Nat
  <2>1. photos = [k \in DOMAIN photos |-> photos[k]]
    BY <1>1 DEF PhotographedFrom
  <2> QED
    BY <1>3, <1>4, <1>5, <2>1
<1> QED
  BY <1>4, <1>5, <1>6

LEMMA UploadKeepsInv ==
    ASSUME PaperInv, Upload PROVE PaperInv'
<1>1. PICK shots \in Uploads :
         \E photos \in Photographs(shots) : pile' = Uploaded(photos)
  BY DEF Upload
<1>2. PICK photos \in Photographs(shots) : pile' = Uploaded(photos)
  BY <1>1
<1>3. pile' = [stage |-> "queued", layout |-> layout, generation |-> generation,
               waiting |-> photos, retaken |-> FALSE, basis |-> Nothing,
               seen |-> [p \in Pupils |-> 0]]
  BY <1>2 DEF Uploaded, NoPile
<1>4. photos \in Seq(Photos) /\ \A k \in DOMAIN photos : IsTaken(photos[k])
  BY PhotographsType DEF PaperInv
<1>5. UNCHANGED <<sheet, altered>> /\ UNCHANGED <<generation, pages>>
  BY DEF Upload, sheet
<1>6. SheetOK' /\ \A photo : IsTaken(photo) => IsTaken(photo)'
  BY <1>5, SheetStays DEF PaperInv
<1>7. PagesOK'
  BY <1>5, <1>6 DEF PaperInv, PagesOK
<1>8. layout \in {"v1", "v2"} /\ generation \in 1 .. MaxGeneration
      /\ generation \in 0 .. MaxGeneration /\ generation \in 0 .. generation
      /\ generation >= 1
  BY PaperAssumption DEF PaperInv, SheetOK
<1>9. pile' \in PileRecords
  BY <1>3, <1>4, <1>8 DEF PileRecords
<1>10. PileOK'
  BY <1>3, <1>4, <1>5, <1>6, <1>8, <1>9 DEF PileOK
<1> QED
  BY <1>6, <1>7, <1>10 DEF PaperInv

LEMMA AppendKeepsInv ==
    ASSUME PaperInv, AppendPages PROVE PaperInv'
<1>1. PICK shots \in Retakes :
         \E photos \in Photographs(shots) : pile' = Joined(photos)
  BY DEF AppendPages
<1>2. PICK photos \in Photographs(shots) : pile' = Joined(photos)
  BY <1>1
<1>3. photos \in Seq(Photos) /\ \A k \in DOMAIN photos : IsTaken(photos[k])
  BY PhotographsType DEF PaperInv
<1>4. UNCHANGED <<sheet, altered>> /\ UNCHANGED <<generation, pages>>
  BY DEF AppendPages, sheet
<1>5. SheetOK' /\ \A photo : IsTaken(photo) => IsTaken(photo)'
  BY <1>4, SheetStays DEF PaperInv
<1>6. PagesOK'
  BY <1>4, <1>5 DEF PaperInv, PagesOK
<1>7. pile \in PileRecords /\ pile.stage # "none"
      /\ pile.generation >= 1 /\ pile.generation \in 0 .. generation
  BY DEF PaperInv, PileOK, AppendPages
<1>8. /\ pile' \in PileRecords /\ pile'.stage = "queued"
      /\ pile'.waiting = photos /\ pile'.generation = pile.generation
  BY <1>2, <1>3, <1>7 DEF Joined, PileRecords
<1>9. PileOK'
  BY <1>3, <1>4, <1>5, <1>7, <1>8 DEF PileOK
<1> QED
  BY <1>5, <1>6, <1>9 DEF PaperInv

LEMMA BeginKeepsInv ==
    ASSUME PaperInv, BeginReading PROVE PaperInv'
<1> DEFINE stage == IF Printable(Today) THEN "reading" ELSE "failed"
           seen == [p \in Pupils |->
                      IF ~pile.retaken THEN 0
                      ELSE Cardinality({k \in DOMAIN pages :
                                          InPile(k) /\ pages[k].uid = p})]
<1>1. pile' = [pile EXCEPT !.stage = stage, !.basis = Today, !.seen = seen]
  BY DEF BeginReading
<1>2. UNCHANGED <<sheet, altered>> /\ UNCHANGED <<plan, edition, generation, pages>>
  BY DEF BeginReading, sheet
<1>3. SheetOK' /\ \A photo : IsTaken(photo) => IsTaken(photo)'
  BY <1>2, SheetStays DEF PaperInv
<1>4. PagesOK'
  BY <1>2, <1>3 DEF PaperInv, PagesOK
<1>5. seen \in [Pupils -> Nat]
  <2> SUFFICES ASSUME NEW p \in Pupils
               PROVE  Cardinality({k \in DOMAIN pages :
                                     InPile(k) /\ pages[k].uid = p}) \in Nat
    OBVIOUS
  <2>1. DOMAIN pages = 1 .. Len(pages) /\ Len(pages) \in Nat
    BY DEF PaperInv, PagesOK
  <2>2. IsFiniteSet(DOMAIN pages)
    BY <2>1, FS_Interval
  <2> QED
    BY <2>2, FS_Subset, FS_CardinalityType
<1> HIDE DEF seen
<1>6. Today \in Papers /\ stage \in {"reading", "failed"}
      /\ (stage = "reading" => Printable(Today))
  BY TodayType DEF PaperInv
<1> HIDE DEF stage
<1>7. pile \in PileRecords /\ pile.stage # "none"
      /\ pile.generation >= 1 /\ pile.generation \in 0 .. generation
      /\ \A k \in DOMAIN pile.waiting : IsTaken(pile.waiting[k])
  BY DEF PaperInv, PileOK, BeginReading
<1>8. /\ pile' \in PileRecords /\ pile'.stage = stage /\ pile'.basis = Today
      /\ pile'.waiting = pile.waiting /\ pile'.generation = pile.generation
  BY <1>1, <1>5, <1>6, <1>7 DEF PileRecords
<1>9. Today.plan = plan /\ Today.edition = edition
  BY DEF Today
<1>10. (Printable(Today))' <=> Printable(Today)
  BY <1>2 DEF Printable, Copy, Today, BeginReading, sheet
<1>11. PileOK'
  <2>1. pile'.stage = "reading" =>
          /\ pile'.basis \in Papers /\ Printable(pile'.basis)
          /\ pile'.basis.plan = plan' /\ pile'.basis.edition = edition'
    BY <1>2, <1>6, <1>8, <1>9
  <2> QED
    BY <1>2, <1>3, <1>6, <1>7, <1>8, <2>1 DEF PileOK, Printable, Copy
<1> QED
  BY <1>3, <1>4, <1>11 DEF PaperInv

\* What reading a page puts into its row.
LEMMA RowsReadType ==
    ASSUME PaperInv, pile.stage = "reading",
           NEW photo, IsTaken(photo), NEW code,
           NEW p \in Somebody \union {Nothing},
           NEW copy, copy = CopyNamed(p, code),
           NEW slot, slot = IF copy = <<>> THEN Nothing ELSE SlotOf(code, p, copy)
    PROVE  /\ slot \in (Nat \ {0}) \union {Nothing}
           /\ slot # Nothing => /\ p \in Pupils /\ ~IsForeign(code)
                                /\ slot \in DOMAIN copy
                                /\ copy = Copy(p, pile.basis) /\ IsACopy(copy)
           /\ RowsRead(photo, code, p, copy, slot) \subseteq DetectionRows
           /\ \A x \in RowsRead(photo, code, p, copy, slot) : ~x.corrected
<1>1. slot # Nothing => copy # <<>> /\ slot \in DOMAIN copy
  BY DEF SlotOf
<1>2. copy # <<>> => /\ p \in Pupils /\ ~IsForeign(code)
                     /\ copy = Copy(p, pile.basis)
  BY DEF CopyNamed
<1>3. pile.basis \in Papers /\ photo \in Photos /\ PaperOf(photo) \in Papers
  BY PaperOfType DEF PaperInv, PileOK, IsTaken
<1>4. slot # Nothing => /\ IsACopy(copy) /\ slot \in Nat \ {0}
                        /\ copy[slot] \in Seq(Lines)
                        /\ Len(copy[slot]) <= ItemsPerPage
  BY <1>1, <1>2, <1>3, CopyType, PageOfCopyType
<1>5. CASE slot # Nothing
  <2>1. RowsRead(photo, code, p, copy, slot)
          = ReadAgainst(photo, p, copy[slot], slot, pile.basis)
    BY <1>5 DEF RowsRead
  <2> QED
    BY <1>1, <1>2, <1>3, <1>4, <1>5, <2>1, ReadAgainstType
<1>6. CASE slot = Nothing
  <2>1. \/ RowsRead(photo, code, p, copy, slot) = {}
        \/ RowsRead(photo, code, p, copy, slot) = Unpaired(Detect(photo, FullGrid))
    BY <1>6 DEF RowsRead
  <2> QED
    BY <1>3, <1>6, <2>1, UnpairedType
<1> QED
  BY <1>5, <1>6

LEMMA PageRowType ==
    ASSUME NEW photo \in Photos, NEW p \in Somebody \union {Nothing},
           NEW slot \in (Nat \ {0}) \union {Nothing},
           NEW rows \in SUBSET DetectionRows, NEW flags \in SUBSET Flags
    PROVE  PageRow(photo, p, slot, rows, flags) \in PageRows
BY DEF PageRow, PageRows

LEMMA ResolveType ==
    ASSUME NEW code PROVE Resolve(code) \in Somebody \union {Nothing}
<1> DEFINE named == {p \in Somebody : code # Unreadable /\ UidRow[p] = code.uid}
<1>1. Resolve(code) = IF named = {} THEN Nothing ELSE CHOOSE p \in named : TRUE
  BY DEF Resolve, Somebody
<1>2. named \subseteq Somebody
  OBVIOUS
<1> HIDE DEF named
<1> QED
  BY <1>1, <1>2

\* The next photograph, the code read out of it, and the page that is filed:
\* whose it is, at which slot, with which rows.
IsFiled(photo, code, p, copy, slot, page) ==
    /\ photo = Head(pile.waiting) /\ IsTaken(photo) /\ code \in CodesRead(photo)
    /\ p = Resolve(code) /\ p \in Somebody \union {Nothing}
    /\ copy = CopyNamed(p, code)
    /\ slot = IF copy = <<>> THEN Nothing ELSE SlotOf(code, p, copy)
    /\ page = PageRow(photo, p, slot, RowsRead(photo, code, p, copy, slot),
                      FlagsRaised(code, copy, slot))
    /\ page \in PageRows

LEMMA OnePageIsRead ==
    ASSUME PaperInv, ReadPage
    PROVE  \E photo, code, p, copy, slot, page :
             /\ IsFiled(photo, code, p, copy, slot, page)
             /\ pages' = Append(pages, page) /\ pile' = Counted(p, copy)
<1> DEFINE photo == Head(pile.waiting)
<1>1. PICK code \in CodesRead(photo) :
            \E p \in {Resolve(code)} : \E copy \in {CopyNamed(p, code)} :
            \E slot \in {IF copy = <<>> THEN Nothing
                        ELSE SlotOf(code, p, copy)} :
               /\ pages' = Append(pages,
                    PageRow(photo, p, slot, RowsRead(photo, code, p, copy, slot),
                            FlagsRaised(code, copy, slot)))
               /\ pile' = Counted(p, copy)
  BY DEF ReadPage
<1> DEFINE p == Resolve(code)
           copy == CopyNamed(p, code)
           slot == IF copy = <<>> THEN Nothing ELSE SlotOf(code, p, copy)
           rows == RowsRead(photo, code, p, copy, slot)
           flags == FlagsRaised(code, copy, slot)
<1>2. pile.waiting \in Seq(Photos) /\ pile.waiting # <<>>
      /\ pile.stage = "reading"
  BY DEF PaperInv, PileOK, PileRecords, ReadPage
<1>3. 1 \in DOMAIN pile.waiting /\ photo = pile.waiting[1]
  BY <1>2
<1>4. IsTaken(photo)
  BY <1>3 DEF PaperInv, PileOK
<1>5. p \in Somebody \union {Nothing}
  BY ResolveType
<1>6. flags \in SUBSET Flags
  BY DEF FlagsRaised, Flags
<1>7. pages' = Append(pages, PageRow(photo, p, slot, rows, flags))
      /\ pile' = Counted(p, copy)
  BY <1>1
<1> HIDE DEF photo, p, flags
<1>8. rows \in SUBSET DetectionRows /\ slot \in (Nat \ {0}) \union {Nothing}
  BY <1>2, <1>4, <1>5, RowsReadType
<1> HIDE DEF rows, slot, copy
<1>9. PageRow(photo, p, slot, rows, flags) \in PageRows
  BY <1>4, <1>5, <1>6, <1>8, PageRowType DEF IsTaken
<1> DEFINE page == PageRow(photo, p, slot, rows, flags)
<1>10. IsFiled(photo, code, p, copy, slot, page)
  BY <1>4, <1>5, <1>9 DEF IsFiled, photo, p, copy, slot, rows, flags
<1> QED
  BY <1>7, <1>10

LEMMA ReadKeepsInv ==
    ASSUME PaperInv, ReadPage PROVE PaperInv'
<1> PICK photo, code, p, copy, slot, page :
        /\ IsFiled(photo, code, p, copy, slot, page)
        /\ pages' = Append(pages, page) /\ pile' = Counted(p, copy)
  BY OnePageIsRead
<1>1. /\ IsTaken(photo) /\ page \in PageRows /\ page.photo = photo
      /\ pages' = Append(pages, page)
      /\ pile' = Counted(p, copy)
  BY DEF IsFiled, PageRow
<1>2. UNCHANGED <<sheet, altered>> /\ UNCHANGED <<plan, edition, generation>>
  BY DEF ReadPage, sheet
<1>3. SheetOK' /\ \A x : IsTaken(x) => IsTaken(x)'
  BY <1>2, SheetStays DEF PaperInv
<1>4. pile \in PileRecords /\ pile.waiting # <<>> /\ pile.stage = "reading"
  BY DEF PaperInv, PileOK, ReadPage
<1>5. pages \in Seq(PageRows) /\ \A k \in DOMAIN pages : IsTaken(pages[k].photo)
  BY DEF PaperInv, PagesOK
<1>6. PagesOK'
  <2>1. pages' \in Seq(PageRows) /\ Len(pages') = Len(pages) + 1
        /\ \A k \in 1 .. Len(pages) : pages'[k] = pages[k]
        /\ pages'[Len(pages) + 1] = page
    BY <1>1, <1>5, AppendProperties
  <2>2. ASSUME NEW k \in DOMAIN pages' PROVE IsTaken(pages'[k].photo)
    <3>1. k \in 1 .. Len(pages) \/ k = Len(pages) + 1
      BY <1>5, <2>1
    <3> QED
      BY <1>1, <1>5, <2>1, <3>1
  <2> QED
    BY <1>3, <2>1, <2>2 DEF PagesOK
<1>7. PileOK'
  <2> DEFINE seen == [q \in Pupils |->
                        pile.seen[q] + IF q = p /\ copy # <<>> THEN 1 ELSE 0]
  <2>1. seen \in [Pupils -> Nat]
    BY <1>4 DEF PileRecords
  <2>2. pile' = [pile EXCEPT !.waiting = Tail(pile.waiting), !.seen = seen]
    BY <1>1, Zenon DEF Counted
  <2> HIDE DEF seen
  <2>3. /\ pile' \in PileRecords /\ pile'.stage = pile.stage
        /\ pile'.basis = pile.basis /\ pile'.generation = pile.generation
        /\ pile'.waiting = Tail(pile.waiting)
    <3> DEFINE rest == Tail(pile.waiting)
    <3>1. rest \in Seq(Photos)
      BY <1>4 DEF PileRecords
    <3>2. pile' = [pile EXCEPT !.waiting = rest, !.seen = seen]
      BY <2>2
    <3> HIDE DEF rest
    <3>3. pile \in PileRecords
      BY <1>4
    <3>4. /\ pile' \in PileRecords /\ pile'.stage = pile.stage
          /\ pile'.basis = pile.basis /\ pile'.generation = pile.generation
          /\ pile'.waiting = rest
      BY <2>1, <3>1, <3>2, <3>3 DEF PileRecords
    <3> QED
      BY <3>4 DEF rest
  <2>4. \A k \in DOMAIN pile'.waiting : IsTaken(pile'.waiting[k])
    <3> DEFINE w == pile.waiting
    <3>1. w \in Seq(Photos) /\ w # <<>>
      BY <1>4 DEF PileRecords
    <3>2. \A k \in DOMAIN Tail(w) : Tail(w)[k] = w[k + 1] /\ k + 1 \in DOMAIN w
      BY <3>1
    <3>3. \A k \in DOMAIN w : IsTaken(w[k])
      BY DEF PaperInv, PileOK
    <3> QED
      BY <2>3, <3>2, <3>3
  <2>5. /\ pile.generation \in 0 .. generation /\ pile.generation >= 1
        /\ pile.basis \in Papers /\ Printable(pile.basis)
        /\ pile.generation \notin altered =>
              pile.basis.plan = plan /\ pile.basis.edition = edition
    BY <1>4 DEF PaperInv, PileOK
  <2>6. altered' = altered
    BY <1>2
  <2> QED
    BY <1>2, <1>3, <1>4, <2>3, <2>4, <2>5, <2>6 DEF PileOK, Printable, Copy
<1> QED
  BY <1>3, <1>6, <1>7 DEF PaperInv

-----------------------------------------------------------------------------
(* Flags and what the teacher does to a page                               *)

\* A page that has been given flags is otherwise the same.
IsFlagged(g, h) ==
    /\ h \in PageRows
    /\ h.photo = g.photo /\ h.uid = g.uid /\ h.student = g.student
    /\ h.slot = g.slot /\ h.rows = g.rows /\ h.discarded = g.discarded
    /\ h.foreign = g.foreign /\ h.byHand = g.byHand /\ h.restored = g.restored
    /\ g.flags \subseteq h.flags
    /\ "wrong_sheet" \in h.flags => "wrong_sheet" \in g.flags

LEMMA FlaggedType ==
    ASSUME NEW g \in PageRows, NEW flag \in {"short_copy", "duplicate_page"}
    PROVE  IsFlagged(g, Flagged(g, flag)) /\ flag \in Flagged(g, flag).flags
<1>1. g.flags \union {flag} \in SUBSET Flags
  BY DEF PageRows, Flags
<1> DEFINE flags == g.flags \union {flag}
<1>2. flags \in SUBSET Flags /\ g.flags \subseteq flags /\ flag \in flags
      /\ ("wrong_sheet" \in flags => "wrong_sheet" \in g.flags)
  BY <1>1
<1> DEFINE h == [g EXCEPT !.flags = flags]
<1>3. Flagged(g, flag) = h
  BY DEF Flagged
<1> HIDE DEF flags
<1>4. h \in PageRows /\ h.flags = flags
  BY <1>2 DEF PageRows
<1>5. /\ h.photo = g.photo /\ h.uid = g.uid /\ h.student = g.student
      /\ h.slot = g.slot /\ h.rows = g.rows /\ h.discarded = g.discarded
      /\ h.foreign = g.foreign /\ h.byHand = g.byHand /\ h.restored = g.restored
  BY DEF PageRows
<1> HIDE DEF h
<1> QED
  BY <1>2, <1>3, <1>4, <1>5 DEF IsFlagged

LEMMA SweepFlags ==
    ASSUME NEW rows \in Seq(PageRows)
    PROVE  /\ FlagDuplicateSlots(rows) \in Seq(PageRows)
           /\ DOMAIN FlagDuplicateSlots(rows) = DOMAIN rows
           /\ \A k \in DOMAIN rows : IsFlagged(rows[k], FlagDuplicateSlots(rows)[k])
           /\ \A k, l \in DOMAIN rows :
                k # l /\ SameSlot(rows[k], rows[l])
                  => "duplicate_page" \in FlagDuplicateSlots(rows)[k].flags
<1> DEFINE sweep == FlagDuplicateSlots(rows)
<1>1. DOMAIN sweep = DOMAIN rows
  BY DEF FlagDuplicateSlots
<1>2. ASSUME NEW k \in DOMAIN rows
      PROVE  /\ IsFlagged(rows[k], sweep[k])
             /\ \A l \in DOMAIN rows : k # l /\ SameSlot(rows[k], rows[l])
                  => "duplicate_page" \in sweep[k].flags
  <2>1. rows[k] \in PageRows
    OBVIOUS
  <2>2. IsFlagged(rows[k], rows[k])
    BY <2>1 DEF IsFlagged
  <2>3. sweep[k] = IF \E l \in DOMAIN rows \ {k} : SameSlot(rows[k], rows[l])
                   THEN Flagged(rows[k], "duplicate_page") ELSE rows[k]
    BY DEF FlagDuplicateSlots
  <2> HIDE DEF sweep
  <2>4. CASE \E l \in DOMAIN rows \ {k} : SameSlot(rows[k], rows[l])
    BY <2>1, <2>3, <2>4, FlaggedType
  <2>5. CASE ~\E l \in DOMAIN rows \ {k} : SameSlot(rows[k], rows[l])
    BY <2>2, <2>3, <2>5
  <2> QED
    BY <2>4, <2>5
<1>3. sweep \in Seq(PageRows)
  <2>1. \A k \in 1 .. Len(rows) : sweep[k] \in PageRows
    BY <1>2 DEF IsFlagged
  <2>2. DOMAIN sweep = 1 .. Len(rows) /\ Len(rows) \in Nat
        /\ sweep = [k \in DOMAIN sweep |-> sweep[k]]
    BY <1>1 DEF FlagDuplicateSlots
  <2> HIDE DEF sweep
  <2>3. sweep \in [1 .. Len(rows) -> PageRows]
    BY <2>1, <2>2
  <2> QED
    BY <2>2, <2>3
<1> QED
  BY <1>1, <1>2, <1>3

LEMMA ShortCopyFlags ==
    ASSUME NEW rows \in Seq(PageRows)
    PROVE  /\ FlagShortCopies(rows) \in Seq(PageRows)
           /\ DOMAIN FlagShortCopies(rows) = DOMAIN rows
           /\ \A k \in DOMAIN rows : IsFlagged(rows[k], FlagShortCopies(rows)[k])
<1> DEFINE sweep == FlagShortCopies(rows)
<1>1. DOMAIN sweep = DOMAIN rows
  BY DEF FlagShortCopies
<1>2. ASSUME NEW k \in DOMAIN rows PROVE IsFlagged(rows[k], sweep[k])
  <2>1. rows[k] \in PageRows
    OBVIOUS
  <2>2. IsFlagged(rows[k], rows[k])
    BY <2>1 DEF IsFlagged
  <2>3. sweep[k] = Flagged(rows[k], "short_copy") \/ sweep[k] = rows[k]
    BY DEF FlagShortCopies
  <2> HIDE DEF sweep
  <2> QED
    BY <2>1, <2>2, <2>3, FlaggedType
<1>3. sweep \in Seq(PageRows)
  <2>1. \A k \in 1 .. Len(rows) : sweep[k] \in PageRows
    BY <1>2 DEF IsFlagged
  <2>2. DOMAIN sweep = 1 .. Len(rows) /\ Len(rows) \in Nat
        /\ sweep = [k \in DOMAIN sweep |-> sweep[k]]
    BY <1>1 DEF FlagShortCopies
  <2> HIDE DEF sweep
  <2>3. sweep \in [1 .. Len(rows) -> PageRows]
    BY <2>1, <2>2
  <2> QED
    BY <2>2, <2>3
<1> QED
  BY <1>1, <1>2, <1>3

LEMMA WithRowsType ==
    ASSUME NEW g \in PageRows, NEW rows \in SUBSET DetectionRows
    PROVE  LET h == WithRows(g, rows)
           IN /\ h \in PageRows /\ h.rows = rows
              /\ h.photo = g.photo /\ h.uid = g.uid /\ h.student = g.student
              /\ h.slot = g.slot /\ h.flags = g.flags
              /\ h.discarded = g.discarded /\ h.foreign = g.foreign
              /\ h.byHand = g.byHand /\ h.restored = g.restored
BY DEF WithRows, PageRows

LEMMA RestoredType ==
    ASSUME NEW g \in PageRows
    PROVE  LET h == Restored(g)
           IN /\ h \in PageRows /\ h.rows = g.rows /\ h.photo = g.photo
              /\ h.uid = g.uid /\ h.student = g.student
              /\ h.slot = g.slot /\ h.flags = g.flags /\ h.foreign = g.foreign
              /\ h.byHand = g.byHand /\ h.restored
BY DEF Restored, PageRows

LEMMA DiscardedType ==
    ASSUME NEW g \in PageRows
    PROVE  LET h == Discarded(g)
           IN /\ h \in PageRows /\ h.rows = g.rows /\ h.photo = g.photo
              /\ h.uid = g.uid /\ h.student = Nothing /\ h.discarded
              /\ h.slot = g.slot /\ h.flags = g.flags /\ h.foreign = g.foreign
              /\ h.byHand = g.byHand /\ h.restored = g.restored
BY DEF Discarded, PageRows

LEMMA NamedAsType ==
    ASSUME NEW g \in PageRows, NEW p \in Pupils
    PROVE  LET h == NamedAs(g, p)
           IN /\ h \in PageRows /\ h.rows = g.rows /\ h.photo = g.photo
              /\ h.uid = g.uid /\ h.student = p /\ h.byHand
              /\ h.slot = g.slot /\ h.flags = g.flags
              /\ h.restored = g.restored
<1>1. p \in Somebody \union {Nothing}
  BY DEF Somebody
<1> QED
  BY <1>1 DEF NamedAs, PageRows

LEMMA AtType ==
    ASSUME NEW g \in PageRows, NEW slot \in Nat \ {0},
           NEW rows \in SUBSET DetectionRows
    PROVE  LET h == At(g, slot, rows)
           IN /\ h \in PageRows /\ h.rows = rows /\ h.photo = g.photo
              /\ h.uid = g.uid /\ h.student = g.student /\ h.byHand = g.byHand
              /\ h.slot = slot /\ h.flags = g.flags
              /\ h.restored = g.restored
BY DEF At, PageRows

LEMMA CorrectedType ==
    ASSUME NEW x \in DetectionRows
    PROVE  LET y == Corrected(x)
           IN y \in DetectionRows /\ y.corrected
                /\ y.row = x.row /\ y.exercise = x.exercise
BY DEF Corrected, DetectionRows

LEMMA MovedToType ==
    ASSUME NEW c \in DetectionRows, NEW x \in DetectionRows
    PROVE  LET y == MovedTo(c, x)
           IN y \in DetectionRows /\ y.corrected = c.corrected
                /\ y.row = x.row /\ y.exercise = x.exercise
BY DEF MovedTo, DetectionRows

\* A page read again has the rows and questions of the new reading; where a
\* correction is taken over it stays a correction.
LEMMA CarriedRow ==
    ASSUME NEW corrections \in SUBSET DetectionRows, NEW read \in SUBSET DetectionRows,
           \A c \in corrections : c.corrected, NEW y \in Carried(corrections, read)
    PROVE  \E x \in read : /\ y.row = x.row /\ y.exercise = x.exercise
                           /\ y = x \/ y.corrected
<1> DEFINE kept(x) == CHOOSE c \in Taken(corrections, read, x) : TRUE
<1>1. PICK x \in read :
        y = IF Taken(corrections, read, x) = {} THEN x ELSE MovedTo(kept(x), x)
  BY DEF Carried
<1>2. CASE Taken(corrections, read, x) = {}
  BY <1>1, <1>2
<1>3. CASE Taken(corrections, read, x) # {}
  <2>1. kept(x) \in corrections
    BY <1>3 DEF Taken
  <2> HIDE DEF kept
  <2>2. kept(x) \in DetectionRows /\ kept(x).corrected /\ x \in DetectionRows
    BY <2>1
  <2>3. y = MovedTo(kept(x), x)
    BY <1>1, <1>3
  <2> QED
    BY <2>2, <2>3, MovedToType
<1> QED
  BY <1>2, <1>3

LEMMA CarriedType ==
    ASSUME NEW corrections \in SUBSET DetectionRows, NEW read \in SUBSET DetectionRows,
           \A c \in corrections : c.corrected
    PROVE  /\ Carried(corrections, read) \subseteq DetectionRows
           /\ \A y \in Carried(corrections, read) :
                \E x \in read : /\ y.row = x.row /\ y.exercise = x.exercise
                                /\ y = x \/ y.corrected
           /\ \A x \in read : Taken(corrections, read, x) # {} =>
                \E y \in Carried(corrections, read) :
                  y.corrected /\ y.row = x.row /\ y.exercise = x.exercise
<1>1. \A x \in read : Taken(corrections, read, x) \subseteq corrections
  BY DEF Taken
<1> DEFINE kept(x) == CHOOSE c \in Taken(corrections, read, x) : TRUE
           new(x) == IF Taken(corrections, read, x) = {} THEN x ELSE MovedTo(kept(x), x)
<1>2. Carried(corrections, read) = {new(x) : x \in read}
  BY DEF Carried
<1>3. ASSUME NEW x \in read, Taken(corrections, read, x) # {}
      PROVE  LET y == new(x)
             IN y \in DetectionRows /\ y.corrected
                  /\ y.row = x.row /\ y.exercise = x.exercise
  <2>1. kept(x) \in corrections
    BY <1>1, <1>3
  <2> HIDE DEF kept
  <2>2. kept(x) \in DetectionRows /\ kept(x).corrected /\ x \in DetectionRows
    BY <2>1
  <2>3. new(x) = MovedTo(kept(x), x)
    BY <1>3
  <2> QED
    BY <2>2, <2>3, MovedToType
<1>4. \A x \in read : Taken(corrections, read, x) = {} => new(x) = x
  OBVIOUS
<1> HIDE DEF new
<1> QED
  BY <1>2, <1>3, <1>4

\* The pages with another row at k.
LEMMA PageReplaced ==
    ASSUME PagesOK, NEW k \in DOMAIN pages, NEW page \in PageRows
    PROVE  LET rows == [pages EXCEPT ![k] = page]
           IN /\ rows \in Seq(PageRows) /\ DOMAIN rows = DOMAIN pages
              /\ rows[k] = page
              /\ \A l \in DOMAIN pages : l # k => rows[l] = pages[l]
BY DEF PagesOK

\* The page is read against today's copy of p, at the slot it had or as a first
\* page.
IsReadAgain(k, p, slot, rows, read) ==
    /\ pages[k].photo.legible
    /\ slot = IF pages[k].slot = Nothing THEN 1 ELSE pages[k].slot
    /\ slot \in Nat \ {0}
    /\ Copy(p, Today) # TooTall
    /\ rows = Copy(p, Today)[IF slot \in DOMAIN Copy(p, Today) THEN slot
                             ELSE Len(Copy(p, Today))]
    /\ rows \in Seq(Lines) /\ Len(rows) <= ItemsPerPage
    /\ read = ReadAgainst(pages[k].photo, p, rows, slot, Today)
    /\ read \in SUBSET DetectionRows
    /\ \A x \in read : x.row \in DOMAIN rows /\ x.exercise = rows[x.row].key
                         /\ x.exercise \in Exercises /\ ~x.corrected

CorrectionsOf(k) == {x \in pages[k].rows : x.corrected}

LEMMA AssignCases ==
    ASSUME PaperInv, NEW k \in DOMAIN pages, NEW p \in Pupils,
           AssignPageStudent(k, p)
    PROVE  \/ /\ ~pages[k].photo.legible
              /\ pages' = FlagDuplicateSlots([pages EXCEPT ![k] = NamedAs(pages[k], p)])
           \/ \E slot, rows, read :
                /\ IsReadAgain(k, p, slot, rows, read)
                /\ pages' = FlagDuplicateSlots([pages EXCEPT ![k] =
                     At(NamedAs(pages[k], p), slot, Carried(CorrectionsOf(k), read))])
                /\ reported' = CorrectionsOf(k)
                     \ UNION {Taken(CorrectionsOf(k), read, x) : x \in read}
<1> DEFINE g == pages[k]
           slot == IF g.slot = Nothing THEN 1 ELSE g.slot
           copy == Copy(p, Today)
           rows == copy[IF slot \in DOMAIN copy THEN slot ELSE Len(copy)]
           read == ReadAgainst(g.photo, p, rows, slot, Today)
<1>1. \/ /\ ~g.photo.legible
         /\ pages' = FlagDuplicateSlots([pages EXCEPT ![k] = NamedAs(g, p)])
      \/ /\ g.photo.legible /\ Printable(Today)
         /\ \E new \in {read} :
              /\ pages' = FlagDuplicateSlots([pages EXCEPT ![k] =
                          At(NamedAs(g, p), slot, Carried(CorrectionsOf(k), new))])
              /\ reported' = CorrectionsOf(k)
                          \ UNION {Taken(CorrectionsOf(k), new, x) : x \in new}
  BY Zenon DEF AssignPageStudent, CorrectionsOf
<1>2. ASSUME g.photo.legible, Printable(Today)
      PROVE  IsReadAgain(k, p, slot, rows, read)
  <2>1. g \in PageRows /\ IsTaken(g.photo)
    BY DEF PaperInv, PagesOK
  <2>2. g.slot \in (Nat \ {0}) \union {Nothing}
    BY <2>1 DEF PageRows
  <2>3. slot \in Nat \ {0}
    BY <2>2
  <2>4. copy # TooTall /\ Today \in Papers
    BY <1>2, TodayType DEF Printable, PaperInv
  <2>5. IsACopy(copy)
    BY <2>4, CopyType
  <2> DEFINE n == IF slot \in DOMAIN copy THEN slot ELSE Len(copy)
  <2>6. n \in DOMAIN copy
    <3> HIDE DEF copy, slot
    <3>1. copy \in Seq(Seq(Lines)) /\ Len(copy) \in Nat \ {0}
      BY <2>5 DEF IsACopy
    <3>2. Len(copy) \in DOMAIN copy
      BY <3>1
    <3>3. \A m, s : m \in DOMAIN copy =>
            (IF s \in DOMAIN copy THEN s ELSE m) \in DOMAIN copy
      OBVIOUS
    <3> QED
      BY <3>2, <3>3
  <2>7. rows \in Seq(Lines) /\ Len(rows) <= ItemsPerPage
    <3> HIDE DEF copy, n
    <3>1. copy[n] \in Seq(Lines) /\ Len(copy[n]) <= ItemsPerPage
      BY <2>5, <2>6, PageOfCopyType
    <3> QED
      BY <3>1 DEF n
  <2>8. g.photo \in Photos /\ PaperOf(g.photo) \in Papers
    BY <2>1, PaperOfType DEF IsTaken, PaperInv
  <2> HIDE DEF rows, slot
  <2>9. /\ read \in SUBSET DetectionRows
        /\ \A x \in read : x.row \in DOMAIN rows /\ x.exercise = rows[x.row].key
                             /\ ~x.corrected
    BY <2>4, <2>7, <2>8, ReadAgainstType
  <2> HIDE DEF read
  <2>10. \A x \in read : x.exercise \in Exercises
    <3> TAKE x \in read
    <3>1. rows[x.row] \in Lines
      BY <2>7, <2>9
    <3> QED
      BY <2>9, <3>1 DEF Lines
  <2> QED
    BY <1>2, <2>3, <2>4, <2>7, <2>9, <2>10 DEF IsReadAgain, rows, slot, read
<1> HIDE DEF rows, read, slot
<1> QED
  BY <1>1, <1>2

\* What a review puts in the place of page k: a row is corrected, the page goes
\* or comes back, or a pupil is named.
Corrects(k, page) ==
    \E x \in pages[k].rows :
      /\ ~x.corrected
      /\ page = WithRows(pages[k], (pages[k].rows \ {x}) \union {Corrected(x)})
Moves(k, page) == page = Restored(pages[k]) \/ page = Discarded(pages[k])
Names(k, page) == /\ ~pages[k].photo.legible
                  /\ \E p \in Pupils : page = NamedAs(pages[k], p)
ReadsAgain(k, page) ==
    \E p \in Pupils : \E slot, rows, read :
      /\ IsReadAgain(k, p, slot, rows, read)
      /\ page = At(NamedAs(pages[k], p), slot, Carried(CorrectionsOf(k), read))
      /\ reported' = CorrectionsOf(k)
                       \ UNION {Taken(CorrectionsOf(k), read, x) : x \in read}

LEMMA ReviewCases ==
    ASSUME PaperInv, NEW k \in DOMAIN pages, Review(k)
    PROVE  \E page :
             \/ /\ Corrects(k, page) \/ Moves(k, page)
                /\ pages' = [pages EXCEPT ![k] = page]
             \/ /\ Names(k, page) \/ ReadsAgain(k, page)
                /\ pages' = FlagDuplicateSlots([pages EXCEPT ![k] = page])
<1>1. CASE \E x \in pages[k].rows : CorrectDetection(k, x)
  <2> PICK x \in pages[k].rows : CorrectDetection(k, x)
    BY <1>1
  <2> DEFINE page == WithRows(pages[k], (pages[k].rows \ {x}) \union {Corrected(x)})
  <2>1. ~x.corrected /\ pages' = [pages EXCEPT ![k] = page]
    BY DEF CorrectDetection
  <2>2. Corrects(k, page)
    BY <2>1 DEF Corrects
  <2> QED
    BY <2>1, <2>2
<1>2. CASE SetPageDiscarded(k)
  <2> DEFINE page == IF pages[k].discarded THEN Restored(pages[k])
                     ELSE Discarded(pages[k])
  <2>1. pages' = [pages EXCEPT ![k] = page]
    BY <1>2 DEF SetPageDiscarded
  <2>2. Moves(k, page)
    BY DEF Moves
  <2> QED
    BY <2>1, <2>2
<1>3. CASE \E p \in Pupils : AssignPageStudent(k, p)
  <2> PICK p \in Pupils : AssignPageStudent(k, p)
    BY <1>3
  <2>1. CASE /\ ~pages[k].photo.legible
             /\ pages' = FlagDuplicateSlots([pages EXCEPT ![k] = NamedAs(pages[k], p)])
    BY <2>1 DEF Names
  <2>2. ASSUME NEW slot, NEW rows, NEW read,
               IsReadAgain(k, p, slot, rows, read),
               pages' = FlagDuplicateSlots([pages EXCEPT ![k] =
                 At(NamedAs(pages[k], p), slot, Carried(CorrectionsOf(k), read))]),
               reported' = CorrectionsOf(k)
                 \ UNION {Taken(CorrectionsOf(k), read, x) : x \in read}
        PROVE  \E page : /\ ReadsAgain(k, page)
                         /\ pages' = FlagDuplicateSlots([pages EXCEPT ![k] = page])
    <3> DEFINE page == At(NamedAs(pages[k], p), slot, Carried(CorrectionsOf(k), read))
    <3>1. ReadsAgain(k, page)
      BY <2>2 DEF ReadsAgain
    <3> QED
      BY <2>2, <3>1
  <2> QED
    BY <2>1, <2>2, AssignCases
<1> QED
  BY <1>1, <1>2, <1>3 DEF Review

\* Whatever is put there is a page again, with the photograph it had.
LEMMA ReviewedType ==
    ASSUME PaperInv, NEW k \in DOMAIN pages, NEW page,
           \/ Corrects(k, page) \/ Moves(k, page)
           \/ Names(k, page) \/ ReadsAgain(k, page)
    PROVE  /\ page \in PageRows
           /\ page.photo = pages[k].photo /\ page.uid = pages[k].uid
           /\ page.flags = pages[k].flags
           /\ page.restored \/ ~pages[k].restored
           /\ page.slot = pages[k].slot \/ ReadsAgain(k, page)
           /\ page.byHand \/ /\ ~pages[k].byHand
                             /\ page.student \in {pages[k].student, Nothing}
<1> DEFINE g == pages[k]
<1>1. g \in PageRows
  BY DEF PaperInv, PagesOK
<1>2. g.rows \in SUBSET DetectionRows
  BY <1>1 DEF PageRows
<1>3. CASE Corrects(k, page)
  <2> PICK x \in g.rows : page = WithRows(g, (g.rows \ {x}) \union {Corrected(x)})
    BY <1>3 DEF Corrects
  <2>1. Corrected(x) \in DetectionRows
    BY <1>2, CorrectedType
  <2>2. (g.rows \ {x}) \union {Corrected(x)} \in SUBSET DetectionRows
    BY <1>2, <2>1
  <2> QED
    BY <1>1, <2>2, WithRowsType
<1>4. CASE Moves(k, page)
  BY <1>1, <1>4, RestoredType, DiscardedType DEF Moves
<1>5. CASE Names(k, page)
  BY <1>1, <1>5, NamedAsType DEF Names
<1>6. CASE ReadsAgain(k, page)
  <2> PICK p \in Pupils : \E slot, rows, read :
        /\ IsReadAgain(k, p, slot, rows, read)
        /\ page = At(NamedAs(g, p), slot, Carried(CorrectionsOf(k), read))
    BY <1>6 DEF ReadsAgain
  <2> PICK slot, rows, read :
        /\ IsReadAgain(k, p, slot, rows, read)
        /\ page = At(NamedAs(g, p), slot, Carried(CorrectionsOf(k), read))
    OBVIOUS
  <2>1. CorrectionsOf(k) \in SUBSET DetectionRows
        /\ \A c \in CorrectionsOf(k) : c.corrected
    BY <1>2 DEF CorrectionsOf
  <2>2. slot \in Nat \ {0} /\ read \in SUBSET DetectionRows
    BY DEF IsReadAgain
  <2>3. Carried(CorrectionsOf(k), read) \in SUBSET DetectionRows
    BY <2>1, <2>2, CarriedType
  <2> HIDE DEF g
  <2> QED
    BY <1>1, <1>6, <2>2, <2>3, NamedAsType, AtType DEF g
<1> QED
  BY <1>3, <1>4, <1>5, <1>6

\* The pages after a review: those before it, but for k and for flags.
LEMMA ReviewedPages ==
    ASSUME PaperInv, NEW k \in DOMAIN pages, Review(k)
    PROVE  \E page :
             /\ pages' \in Seq(PageRows) /\ DOMAIN pages' = DOMAIN pages
             /\ IsFlagged(page, pages'[k])
             /\ \A l \in DOMAIN pages : l # k => IsFlagged(pages[l], pages'[l])
             /\ \/ /\ Corrects(k, page) \/ Moves(k, page)
                   /\ pages' = [pages EXCEPT ![k] = page]
                \/ /\ Names(k, page) \/ ReadsAgain(k, page)
                   /\ pages' = FlagDuplicateSlots([pages EXCEPT ![k] = page])
<1> PICK page :
      \/ /\ Corrects(k, page) \/ Moves(k, page)
         /\ pages' = [pages EXCEPT ![k] = page]
      \/ /\ Names(k, page) \/ ReadsAgain(k, page)
         /\ pages' = FlagDuplicateSlots([pages EXCEPT ![k] = page])
  BY ReviewCases
<1> DEFINE rows == [pages EXCEPT ![k] = page]
<1>1. page \in PageRows
  BY ReviewedType
<1>2. /\ rows \in Seq(PageRows) /\ DOMAIN rows = DOMAIN pages /\ rows[k] = page
      /\ \A l \in DOMAIN pages : l # k => rows[l] = pages[l]
  BY <1>1, PageReplaced DEF PaperInv
<1> HIDE DEF rows
<1>3. \A l \in DOMAIN rows : rows[l] \in PageRows /\ IsFlagged(rows[l], rows[l])
  <2>1. \A l \in DOMAIN rows : rows[l] \in PageRows
    BY <1>2
  <2> QED
    BY <2>1 DEF IsFlagged
<1>4. pages' = rows \/ pages' = FlagDuplicateSlots(rows)
  BY DEF rows
<1>5. /\ pages' \in Seq(PageRows) /\ DOMAIN pages' = DOMAIN rows
      /\ \A l \in DOMAIN rows : IsFlagged(rows[l], pages'[l])
  BY <1>2, <1>3, <1>4, SweepFlags
<1>6. IsFlagged(page, pages'[k])
      /\ \A l \in DOMAIN pages : l # k => IsFlagged(pages[l], pages'[l])
  BY <1>2, <1>5
<1>7. pages' \in Seq(PageRows) /\ DOMAIN pages' = DOMAIN pages
  BY <1>2, <1>5
<1> QED
  BY <1>6, <1>7

LEMMA ReviewKeepsInv ==
    ASSUME PaperInv, NEW k \in DOMAIN pages, Review(k)
    PROVE  PaperInv'
<1>1. UNCHANGED <<sheet, altered>> /\ UNCHANGED <<plan, edition, generation, pile>>
  BY DEF Review, CorrectDetection, SetPageDiscarded, AssignPageStudent, sheet
<1>2. SheetOK' /\ \A photo : IsTaken(photo) => IsTaken(photo)'
  BY <1>1, SheetStays DEF PaperInv
<1>3. PICK page :
        /\ pages' \in Seq(PageRows) /\ DOMAIN pages' = DOMAIN pages
        /\ IsFlagged(page, pages'[k])
        /\ \A l \in DOMAIN pages : l # k => IsFlagged(pages[l], pages'[l])
        /\ \/ Corrects(k, page) \/ Moves(k, page)
           \/ Names(k, page) \/ ReadsAgain(k, page)
  BY ReviewedPages
<1>4. \A l \in DOMAIN pages : pages'[l].photo = pages[l].photo
  BY <1>3, ReviewedType DEF IsFlagged
<1>5. PagesOK'
  BY <1>2, <1>3, <1>4 DEF PaperInv, PagesOK
<1>6. pile.stage # "none"
  BY DEF Review
<1>7. PileOK'
  BY <1>1, <1>2, <1>6 DEF PaperInv, PileOK, Printable, Copy
<1> QED
  BY <1>2, <1>5, <1>7 DEF PaperInv

LEMMA EndingFlags ==
    ASSUME PaperInv, EndReading
    PROVE  /\ pages' \in Seq(PageRows) /\ DOMAIN pages' = DOMAIN pages
           /\ \A k \in DOMAIN pages : IsFlagged(pages[k], pages'[k])
           /\ \A k, l \in DOMAIN pages :
                k # l /\ SameSlot(pages[k], pages[l])
                  => "duplicate_page" \in pages'[k].flags
<1> DEFINE rows == FlagShortCopies(pages)
<1>1. pages \in Seq(PageRows)
  BY DEF PaperInv, PagesOK
<1>2. /\ rows \in Seq(PageRows) /\ DOMAIN rows = DOMAIN pages
      /\ \A k \in DOMAIN pages : IsFlagged(pages[k], rows[k])
  BY <1>1, ShortCopyFlags
<1>3. pages' = FlagDuplicateSlots(rows)
  BY DEF EndReading
<1> HIDE DEF rows
<1>4. /\ pages' \in Seq(PageRows) /\ DOMAIN pages' = DOMAIN rows
      /\ \A k \in DOMAIN rows : IsFlagged(rows[k], pages'[k])
      /\ \A k, l \in DOMAIN rows :
           k # l /\ SameSlot(rows[k], rows[l])
             => "duplicate_page" \in pages'[k].flags
  BY <1>2, <1>3, SweepFlags
<1>5. \A k \in DOMAIN pages : IsFlagged(pages[k], pages'[k])
  <2> TAKE k \in DOMAIN pages
  <2>1. IsFlagged(pages[k], rows[k]) /\ IsFlagged(rows[k], pages'[k])
    BY <1>2, <1>4
  <2> QED
    BY <2>1 DEF IsFlagged
<1>6. \A k, l \in DOMAIN pages :
        SameSlot(pages[k], pages[l]) => SameSlot(rows[k], rows[l])
  BY <1>2 DEF IsFlagged, SameSlot, Live
<1> QED
  BY <1>2, <1>4, <1>5, <1>6

LEMMA EndKeepsInv ==
    ASSUME PaperInv, EndReading PROVE PaperInv'
<1>1. UNCHANGED <<sheet, altered>> /\ UNCHANGED <<plan, edition, generation>>
  BY DEF EndReading, sheet
<1>2. SheetOK' /\ \A photo : IsTaken(photo) => IsTaken(photo)'
  BY <1>1, SheetStays DEF PaperInv
<1>3. PagesOK'
  BY <1>2, EndingFlags DEF PaperInv, PagesOK, IsFlagged
<1>4. PileOK'
  <2> DEFINE seen == [p \in Pupils |-> 0]
  <2>1. seen \in [Pupils -> Nat]
    OBVIOUS
  <2>2. pile' = [pile EXCEPT !.stage = "review", !.basis = Nothing, !.seen = seen]
    BY DEF EndReading
  <2> HIDE DEF seen
  <2>3. pile \in PileRecords /\ pile.stage = "reading"
        /\ pile.generation \in 0 .. generation /\ pile.generation >= 1
        /\ \A k \in DOMAIN pile.waiting : IsTaken(pile.waiting[k])
    BY DEF PaperInv, PileOK, EndReading
  <2>4. /\ pile' \in PileRecords /\ pile'.stage = "review"
        /\ pile'.waiting = pile.waiting /\ pile'.generation = pile.generation
    <3>1. pile \in PileRecords
      BY <2>3
    <3> QED
      BY <2>1, <2>2, <3>1 DEF PileRecords
  <2> QED
    BY <1>1, <1>2, <2>3, <2>4 DEF PileOK
<1> QED
  BY <1>2, <1>3, <1>4 DEF PaperInv

LEMMA StutteringKeepsInv ==
    ASSUME PaperInv, UNCHANGED vars PROVE PaperInv'
<1>1. UNCHANGED <<sheet, altered>>
      /\ UNCHANGED <<plan, edition, generation, pile, pages>>
  BY DEF vars, sheet
<1>2. SheetOK' /\ \A photo : IsTaken(photo) => IsTaken(photo)'
  BY <1>1, SheetStays DEF PaperInv
<1>3. PagesOK'
  BY <1>1, <1>2 DEF PaperInv, PagesOK
<1>4. PileOK'
  BY <1>1, <1>2 DEF PaperInv, PileOK, Printable, Copy
<1> QED
  BY <1>2, <1>3, <1>4 DEF PaperInv

LEMMA StepKeepsInv ==
    ASSUME PaperInv, [Next]_vars PROVE PaperInv'
BY SheetKeepsInv, UploadKeepsInv, AppendKeepsInv, BeginKeepsInv, ReadKeepsInv,
   EndKeepsInv, ReviewKeepsInv, StutteringKeepsInv DEF Next

LEMMA Invariance == Spec => []PaperInv
<1>1. Init => PaperInv
  BY Initially
<1>2. PaperInv /\ [Next]_vars => PaperInv'
  BY StepKeepsInv
<1> QED
  BY <1>1, <1>2, PTL DEF Spec

\* The sheet, the pile and its pages keep their types (Paper.TypeOK): what is
\* read is paired with exercises of the corpus, and a page with a slot of a copy.
THEOREM TypeCorrect == Spec => []TypeOK
<1>1. PaperInv => TypeOK
  BY DEF PaperInv, SheetOK, PileOK, PagesOK, PileRecords, TypeOK
<1> QED
  BY Invariance, <1>1, PTL

\* The copies of today's sheet hold (pagination.py): for every list, every
\* wording and every edit, each item is printed once and in order, no page is
\* overfull, and no picture is refused.
THEOREM PrintedPagesHold == Spec => []PagesHold
<1> SUFFICES ASSUME TypeOK PROVE PagesHold
  BY TypeCorrect, PTL
<1>1. plan \in Plans /\ edition \in Editions
  BY DEF TypeOK
<1>2. CopiesFitTheirPages
  BY <1>1, EveryCopyHolds DEF EveryCopyFits, CopiesFitTheirPages
<1>3. PicturesAreNeverRefused
  <2> SUFFICES ASSUME NEW p \in Pupils, NEW n \in DOMAIN ListOf[plan][p]
               PROVE  ~PictureRefused[edition][ListOf[plan][p][n]]
    BY DEF PicturesAreNeverRefused
  <2>1. ListOf[plan][p] \in Seq(Exercises)
    BY <1>1, PaperAssumption
  <2>2. ListOf[plan][p][n] \in Exercises
    BY <2>1
  <2> QED
    BY <1>1, <2>2, PicturesAreSmallEnough
<1> QED
  BY <1>2, <1>3 DEF PagesHold

-----------------------------------------------------------------------------
(* Duplicates                                                              *)

\* Flags do not change what slot a page claims.
LEMMA SlotsKept ==
    ASSUME NEW g, NEW h, NEW g1, NEW h1, IsFlagged(g, g1), IsFlagged(h, h1)
    PROVE  SameSlot(g1, h1) <=> SameSlot(g, h)
BY DEF IsFlagged, SameSlot, Live

\* A correction leaves a page where it was; so does a discard, and a page that
\* was put back says so.
LEMMA EditedPage ==
    ASSUME PagesOK, NEW k \in DOMAIN pages, NEW page,
           Corrects(k, page) \/ Moves(k, page)
    PROVE  /\ page.uid = pages[k].uid /\ page.slot = pages[k].slot
           /\ page.flags = pages[k].flags
           /\ page.restored \/ (Live(page) => Live(pages[k]))
<1> DEFINE g == pages[k]
<1>1. g \in PageRows
  BY DEF PagesOK
<1>2. g.rows \in SUBSET DetectionRows
  BY <1>1 DEF PageRows
<1>3. CASE Corrects(k, page)
  <2> PICK x \in g.rows : page = WithRows(g, (g.rows \ {x}) \union {Corrected(x)})
    BY <1>3 DEF Corrects
  <2>1. Corrected(x) \in DetectionRows
    BY <1>2, CorrectedType
  <2>2. (g.rows \ {x}) \union {Corrected(x)} \in SUBSET DetectionRows
    BY <1>2, <2>1
  <2> QED
    BY <1>1, <2>2, WithRowsType DEF Live
<1>4. CASE page = Restored(g)
  BY <1>1, <1>4, RestoredType
<1>5. CASE page = Discarded(g)
  BY <1>1, <1>5, DiscardedType DEF Live
<1> QED
  BY <1>3, <1>4, <1>5 DEF Moves

LEMMA DuplicatesKept ==
    ASSUME PaperInv, DuplicatesAreFlagged, [Next]_vars
    PROVE  DuplicatesAreFlagged'
<1>1. CASE UNCHANGED <<pages, pile>>
  BY <1>1 DEF DuplicatesAreFlagged, SameSlot, Live
<1>2. CASE pile'.stage # "review"
  BY <1>2 DEF DuplicatesAreFlagged
<1>3. CASE EndReading
  <2>1. /\ DOMAIN pages' = DOMAIN pages
        /\ \A k \in DOMAIN pages : IsFlagged(pages[k], pages'[k])
        /\ \A k, l \in DOMAIN pages :
             k # l /\ SameSlot(pages[k], pages[l])
               => "duplicate_page" \in pages'[k].flags
    BY <1>3, EndingFlags
  <2>2. \A k, l \in DOMAIN pages' :
          SameSlot(pages'[k], pages'[l]) => SameSlot(pages[k], pages[l])
    BY <2>1, SlotsKept
  <2>3. \A k, l \in DOMAIN pages' : (SameSlot(pages[k], pages[l]))'
                                      <=> SameSlot(pages'[k], pages'[l])
    BY DEF SameSlot, Live
  <2> QED
    BY <2>1, <2>2, <2>3 DEF DuplicatesAreFlagged
<1>4. ASSUME NEW j \in DOMAIN pages, Review(j) PROVE DuplicatesAreFlagged'
  <2>1. PICK page :
             /\ pages' \in Seq(PageRows) /\ DOMAIN pages' = DOMAIN pages
             /\ IsFlagged(page, pages'[j])
             /\ \A l \in DOMAIN pages : l # j => IsFlagged(pages[l], pages'[l])
             /\ \/ /\ Corrects(j, page) \/ Moves(j, page)
                   /\ pages' = [pages EXCEPT ![j] = page]
                \/ /\ Names(j, page) \/ ReadsAgain(j, page)
                   /\ pages' = FlagDuplicateSlots([pages EXCEPT ![j] = page])
    BY <1>4, ReviewedPages
  <2> DEFINE rows == [pages EXCEPT ![j] = page]
  <2>2. page \in PageRows
    BY <2>1, ReviewedType
  <2>3. /\ rows \in Seq(PageRows) /\ DOMAIN rows = DOMAIN pages /\ rows[j] = page
        /\ \A l \in DOMAIN pages : l # j => rows[l] = pages[l]
    BY <2>2, PageReplaced DEF PaperInv
  <2> HIDE DEF rows
  <2>4. \A k, l \in DOMAIN pages :
          SameSlot(pages'[k], pages'[l]) <=> SameSlot(rows[k], rows[l])
    BY <2>1, <2>3, SlotsKept
  <2>5. CASE /\ Names(j, page) \/ ReadsAgain(j, page)
             /\ pages' = FlagDuplicateSlots([pages EXCEPT ![j] = page])
    <3>1. pages' = FlagDuplicateSlots(rows)
      BY <2>5 DEF rows
    <3>2. \A k, l \in DOMAIN rows :
            k # l /\ SameSlot(rows[k], rows[l]) => "duplicate_page" \in pages'[k].flags
      BY <2>3, <3>1, SweepFlags
    <3> QED
      BY <2>1, <2>3, <2>4, <3>2 DEF DuplicatesAreFlagged, SameSlot, Live
  <2>6. CASE /\ Corrects(j, page) \/ Moves(j, page)
             /\ pages' = [pages EXCEPT ![j] = page]
    <3>1. pages' = rows
      BY <2>6 DEF rows
    <3>2. pile.stage = "review"
      BY <1>4 DEF Review
    <3>3. ASSUME NEW k \in DOMAIN pages, NEW l \in DOMAIN pages, k # l,
                 SameSlot(rows[k], rows[l]), ~rows[k].restored, ~rows[l].restored
          PROVE  "duplicate_page" \in rows[k].flags
      <4>1. /\ page.uid = pages[j].uid /\ page.slot = pages[j].slot
            /\ page.flags = pages[j].flags
            /\ page.restored \/ (Live(page) => Live(pages[j]))
            /\ page.restored \/ ~pages[j].restored
        BY <2>6, EditedPage, ReviewedType DEF PaperInv
      <4>2. \A i \in {k, l} : /\ rows[i].uid = pages[i].uid
                              /\ rows[i].slot = pages[i].slot
                              /\ rows[i].flags = pages[i].flags
                              /\ ~pages[i].restored
                              /\ Live(rows[i]) => Live(pages[i])
        BY <2>3, <3>3, <4>1
      <4>3. SameSlot(pages[k], pages[l])
        BY <3>3, <4>2 DEF SameSlot
      <4> QED
        BY <3>2, <3>3, <4>2, <4>3 DEF DuplicatesAreFlagged
    <3> QED
      BY <2>3, <3>1, <3>3 DEF DuplicatesAreFlagged, SameSlot, Live
  <2> QED
    BY <2>1, <2>5, <2>6
<1>5. Next \/ UNCHANGED vars
  OBVIOUS
<1>6. CASE Render \/ ReplaceItems \/ EditStatement \/ UNCHANGED vars
  BY <1>1, <1>6 DEF Render, ReplaceItems, EditStatement, vars
<1>7. CASE Upload \/ AppendPages
  <2>1. pile'.stage = "queued"
    <3>1. \A photos : Uploaded(photos).stage = "queued"
      BY DEF Uploaded, NoPile
    <3>2. pile \in PileRecords
      BY DEF PaperInv, PileOK
    <3>3. \A photos : Joined(photos).stage = "queued"
      BY <3>2 DEF Joined, PileRecords
    <3> QED
      BY <1>7, <3>1, <3>3, Zenon DEF Upload, AppendPages
  <2> QED
    BY <1>2, <2>1
<1>8. CASE BeginReading
  <2>1. pile'.stage \in {"reading", "failed"}
    BY <1>8 DEF BeginReading, PaperInv, PileOK, PileRecords
  <2> QED
    BY <1>2, <2>1
<1>9. CASE ReadPage
  <2> PICK photo, code, p, copy, slot, page :
        /\ IsFiled(photo, code, p, copy, slot, page)
        /\ pages' = Append(pages, page) /\ pile' = Counted(p, copy)
    BY <1>9, OnePageIsRead
  <2>1. pile'.stage = "reading"
    <3>1. pile \in PileRecords /\ pile.stage = "reading"
      BY <1>9 DEF ReadPage, PaperInv, PileOK
    <3>2. DOMAIN pile' = DOMAIN pile /\ pile'.stage = pile.stage
      BY <3>1, Zenon DEF Counted, PileRecords
    <3> QED
      BY <3>1, <3>2
  <2> QED
    BY <1>2, <2>1
<1> QED
  BY <1>3, <1>4, <1>5, <1>6, <1>7, <1>8, <1>9 DEF Next

\* While a pile is reviewed, two pages that claim one slot of one copy say so,
\* unless the teacher put one of them back (_flag_duplicate_slots).  It holds of
\* any number of pages, retakes and assignments, whatever the codes are read as.
THEOREM DuplicatesSaySo == Spec => []DuplicatesAreFlagged
<1>1. Init => DuplicatesAreFlagged
  BY DEF Init, NoPile, DuplicatesAreFlagged
<1>2. PaperInv /\ DuplicatesAreFlagged /\ [Next]_vars => DuplicatesAreFlagged'
  BY DuplicatesKept
<1>3. Spec => []PaperInv
  BY Invariance
<1> QED
  BY <1>1, <1>2, <1>3, PTL DEF Spec

-----------------------------------------------------------------------------
(* Corrections                                                             *)

\* The pages that are there keep their rows, or one of them is reviewed.
LEMMA RowsKept ==
    ASSUME PaperInv, [Next]_vars, NEW k \in DOMAIN pages
    PROVE  pages'[k].rows = pages[k].rows \/ Review(k)
<1>1. CASE UNCHANGED pages
  BY <1>1
<1>2. CASE ReadPage
  <2>1. PICK page : page \in PageRows /\ pages' = Append(pages, page)
    BY <1>2, OnePageIsRead DEF IsFiled
  <2>2. pages \in Seq(PageRows)
    BY DEF PaperInv, PagesOK
  <2>3. pages'[k] = pages[k]
    BY <2>1, <2>2, AppendProperties
  <2> QED
    BY <2>3
<1>3. CASE EndReading
  BY <1>3, EndingFlags DEF IsFlagged
<1>4. CASE \E j \in DOMAIN pages : Review(j)
  <2> PICK j \in DOMAIN pages : Review(j)
    BY <1>4
  <2>1. j # k => IsFlagged(pages[k], pages'[k])
    BY ReviewedPages
  <2>2. j # k => pages'[k].rows = pages[k].rows
    BY <2>1 DEF IsFlagged
  <2>3. j = k => Review(k)
    OBVIOUS
  <2> QED
    BY <2>2, <2>3
<1>5. CASE Render \/ ReplaceItems \/ EditStatement \/ Upload \/ AppendPages
           \/ BeginReading \/ UNCHANGED vars
  BY <1>1, <1>5 DEF Render, ReplaceItems, EditStatement, Upload, AppendPages,
                    BeginReading, vars
<1> QED
  BY <1>2, <1>3, <1>4, <1>5 DEF Next

LEMMA CorrectionsKept ==
    ASSUME PaperInv, NEW k \in DOMAIN pages, Review(k),
           NEW x \in pages[k].rows, x.corrected
    PROVE  \/ \E y \in pages'[k].rows :
                /\ y.corrected
                /\ IF x.exercise = Nothing THEN y.row = x.row
                   ELSE y.exercise = x.exercise
           \/ x \in reported'
<1> DEFINE g == pages[k]
<1>1. PICK page :
        /\ IsFlagged(page, pages'[k])
        /\ \/ Corrects(k, page) \/ Moves(k, page)
           \/ Names(k, page) \/ ReadsAgain(k, page)
  BY ReviewedPages
<1>2. pages'[k].rows = page.rows
  BY <1>1 DEF IsFlagged
<1>3. g \in PageRows /\ g.rows \in SUBSET DetectionRows
  <2>1. g \in PageRows
    BY DEF PaperInv, PagesOK
  <2> QED
    BY <2>1 DEF PageRows
<1>4. CASE Corrects(k, page)
  <2> PICK z \in g.rows : /\ ~z.corrected
                          /\ page = WithRows(g, (g.rows \ {z}) \union {Corrected(z)})
    BY <1>4 DEF Corrects
  <2>1. Corrected(z) \in DetectionRows
    BY <1>3, CorrectedType
  <2>2. (g.rows \ {z}) \union {Corrected(z)} \in SUBSET DetectionRows
    BY <1>3, <2>1
  <2>3. page.rows = (g.rows \ {z}) \union {Corrected(z)}
    BY <1>3, <2>2, WithRowsType
  <2>4. x \in page.rows
    BY <2>3
  <2> QED
    BY <1>2, <2>4
<1>5. CASE Moves(k, page) \/ Names(k, page)
  <2>1. page.rows = g.rows
    BY <1>3, <1>5, RestoredType, DiscardedType, NamedAsType DEF Moves, Names
  <2> QED
    BY <1>2, <2>1
<1>6. CASE ReadsAgain(k, page)
  <2> PICK p \in Pupils : \E slot, rows, read :
        /\ IsReadAgain(k, p, slot, rows, read)
        /\ page = At(NamedAs(g, p), slot, Carried(CorrectionsOf(k), read))
        /\ reported' = CorrectionsOf(k)
                         \ UNION {Taken(CorrectionsOf(k), read, z) : z \in read}
    BY <1>6 DEF ReadsAgain
  <2> PICK slot, rows, read :
        /\ IsReadAgain(k, p, slot, rows, read)
        /\ page = At(NamedAs(g, p), slot, Carried(CorrectionsOf(k), read))
        /\ reported' = CorrectionsOf(k)
                         \ UNION {Taken(CorrectionsOf(k), read, z) : z \in read}
    OBVIOUS
  <2> DEFINE corrections == CorrectionsOf(k)
  <2>1. /\ corrections \in SUBSET DetectionRows /\ x \in corrections
        /\ \A c \in corrections : c.corrected
    BY <1>3 DEF CorrectionsOf
  <2>2. /\ slot \in Nat \ {0} /\ read \in SUBSET DetectionRows
        /\ \A z \in read : z.exercise \in Exercises
    BY DEF IsReadAgain
  <2>3. /\ Carried(corrections, read) \in SUBSET DetectionRows
        /\ \A z \in read : Taken(corrections, read, z) # {} =>
             \E y \in Carried(corrections, read) :
                  y.corrected /\ y.row = z.row /\ y.exercise = z.exercise
    BY <2>1, <2>2, CarriedType
  <2>4. page.rows = Carried(corrections, read)
    <3>1. NamedAs(g, p) \in PageRows
      BY <1>3, NamedAsType
    <3> QED
      BY <2>2, <2>3, <3>1, AtType
  <2> HIDE DEF corrections
  <2>5. CASE \E z \in read : x \in Taken(corrections, read, z)
    <3> PICK z \in read : x \in Taken(corrections, read, z)
      BY <2>5
    <3>1. PICK y \in page.rows : y.corrected /\ y.row = z.row
                                   /\ y.exercise = z.exercise
      BY <2>3, <2>4
    <3>2. x.exercise = z.exercise \/ (x.exercise = Nothing /\ x.row = z.row)
      BY DEF Taken
    <3>3. z.exercise # Nothing
      BY <2>2, PaperAssumption
    <3>4. IF x.exercise = Nothing THEN y.row = x.row ELSE y.exercise = x.exercise
      BY <3>1, <3>2, <3>3
    <3> QED
      BY <1>2, <3>1, <3>4
  <2>6. CASE ~\E z \in read : x \in Taken(corrections, read, z)
    <3>1. x \in corrections \ UNION {Taken(corrections, read, z) : z \in read}
      BY <2>1, <2>6
    <3> QED
      BY <3>1 DEF corrections
  <2> QED
    BY <2>5, <2>6
<1> QED
  BY <1>1, <1>4, <1>5, <1>6

\* A correction made by hand is never lost in silence, whatever pupils a page is
\* named for in turn and however their copies differ (_CarriedCorrections).
THEOREM CorrectionsAreKept == Spec => CorrectionsFollowTheirQuestion
<1> DEFINE Step == \A k \in DOMAIN pages : \A x \in pages[k].rows :
         x.corrected =>
           \/ \E y \in pages'[k].rows :
                /\ y.corrected
                /\ IF x.exercise = Nothing THEN y.row = x.row
                   ELSE y.exercise = x.exercise
           \/ x \in reported'
<1>1. PaperInv /\ [Next]_vars => Step
  <2> SUFFICES ASSUME PaperInv, [Next]_vars, NEW k \in DOMAIN pages,
                      NEW x \in pages[k].rows, x.corrected
               PROVE  \/ \E y \in pages'[k].rows :
                           /\ y.corrected
                           /\ IF x.exercise = Nothing THEN y.row = x.row
                              ELSE y.exercise = x.exercise
                      \/ x \in reported'
    OBVIOUS
  <2>1. CASE Review(k)
    BY <2>1, CorrectionsKept
  <2>2. CASE pages'[k].rows = pages[k].rows
    BY <2>2
  <2> QED
    BY <2>1, <2>2, RowsKept
<1>2. PaperInv /\ [Next]_vars => [Step]_vars
  BY <1>1
<1>3. Spec => []PaperInv
  BY Invariance
<1> QED
  BY <1>2, <1>3, PTL DEF Spec, CorrectionsFollowTheirQuestion

-----------------------------------------------------------------------------
(* Whose page it is                                                        *)

\* A code that can be read names the pupil, the page and the render of the
\* photograph.
LEMMA CodeIsTrue ==
    ASSUME SheetOK, NEW photo, IsTaken(photo),
           NEW code \in CodesRead(photo), code # Unreadable
    PROVE  /\ photo.legible
           /\ code.uid = UidRow[photo.pupil]
           /\ pile.layout # "v1" => /\ code.page = photo.page
                                    /\ code.nonce = NonceOf[photo.generation]
<1>1. photo.legible /\ PaperOf(photo).layout = pile.layout
  BY DEF CodesRead
<1>2. PICK s \in Shots : s.pupil = photo.pupil /\ s.page = photo.page
  BY DEF IsTaken
<1>3. photo.generation \in 0 .. MaxGeneration
  BY PaperAssumption DEF IsTaken, SheetOK
<1>4. CASE pile.layout = "v1"
  <2>1. PICK u \in UidReads[photo.pupil] :
          code = IF u = Unreadable THEN u
                 ELSE [uid |-> u, page |-> Nothing, nonce |-> Nothing]
    BY <1>1, <1>4 DEF CodesRead
  <2>2. photo.pupil \in DOMAIN UidReads
    BY <1>2 DEF UidReads
  <2>3. u = UidRow[photo.pupil]
    BY <2>1, <2>2, NoCodeBecomesAnother DEF MisreadsAreRefused
  <2> QED
    BY <1>1, <1>4, <2>1, <2>3
<1>5. CASE pile.layout # "v1"
  <2> DEFINE c0 == CodeOf(photo.pupil, photo.page, photo.generation)
  <2>1. PICK c \in CodeReads[c0] :
          code = IF c = Unreadable THEN c
                 ELSE [uid |-> c.uid, page |-> c.page, nonce |-> c.nonce]
    BY <1>1, <1>5 DEF CodesRead
  <2>2. c0 \in DOMAIN CodeReads
    BY <1>2, <1>3 DEF CodeReads
  <2>3. c = c0
    <3> HIDE DEF c0
    <3> QED
      BY <2>1, <2>2, NoCodeBecomesAnother DEF MisreadsAreRefused
  <2> QED
    BY <1>1, <2>1, <2>3 DEF CodeOf
<1> QED
  BY <1>4, <1>5

\* So a page is filed under its writer or under nobody.
LEMMA ResolvesToItsWriter ==
    ASSUME SheetOK, NEW photo, IsTaken(photo),
           NEW code \in CodesRead(photo)
    PROVE  /\ Resolve(code) \in {photo.pupil, Nothing}
           /\ Resolve(code) # Nothing => code # Unreadable
<1> DEFINE named == {p \in Pupils \union Strangers :
                       code # Unreadable /\ UidRow[p] = code.uid}
<1>1. Resolve(code) = IF named = {} THEN Nothing ELSE CHOOSE p \in named : TRUE
  BY DEF Resolve
<1>2. CASE code = Unreadable
  BY <1>1, <1>2
<1>3. CASE code # Unreadable
  <2>1. code.uid = UidRow[photo.pupil]
    BY <1>3, CodeIsTrue
  <2>2. photo.pupil \in Somebody
    BY DEF IsTaken, Photos
  <2>3. \A p \in named : p = photo.pupil
    BY <2>1, <2>2, PaperAssumption DEF Somebody
  <2> HIDE DEF named
  <2> QED
    BY <1>1, <1>3, <2>3
<1> QED
  BY <1>2, <1>3

LEMMA FilingKept ==
    ASSUME PaperInv, FiledUnderItsWriter,
           [Next]_vars
    PROVE  FiledUnderItsWriter'
<1>1. CASE UNCHANGED pages
  BY <1>1 DEF FiledUnderItsWriter
<1>2. CASE ReadPage
  <2> PICK photo, code, p, copy, slot, page :
        /\ IsFiled(photo, code, p, copy, slot, page)
        /\ pages' = Append(pages, page)
    BY <1>2, OnePageIsRead
  <2>1. /\ page.student = p /\ page.photo = photo /\ page \in PageRows
        /\ p = Resolve(code) /\ IsTaken(photo) /\ code \in CodesRead(photo)
    BY DEF IsFiled, PageRow
  <2>2. page.student \in {page.photo.pupil, Nothing}
    BY <2>1, ResolvesToItsWriter DEF PaperInv
  <2>3. pages \in Seq(PageRows)
    BY DEF PaperInv, PagesOK
  <2>4. /\ DOMAIN pages' = 1 .. Len(pages) + 1 /\ Len(pages) \in Nat
        /\ \A k \in 1 .. Len(pages) : pages'[k] = pages[k]
        /\ pages'[Len(pages) + 1] = page
    BY <2>1, <2>3, AppendProperties
  <2>5. DOMAIN pages = 1 .. Len(pages)
    BY <2>3
  <2> QED
    BY <2>2, <2>4, <2>5 DEF FiledUnderItsWriter
<1>3. CASE EndReading
  BY <1>3, EndingFlags DEF FiledUnderItsWriter, IsFlagged
<1>4. ASSUME NEW k \in DOMAIN pages, Review(k) PROVE FiledUnderItsWriter'
  <2> PICK page :
        /\ pages' \in Seq(PageRows) /\ DOMAIN pages' = DOMAIN pages
        /\ IsFlagged(page, pages'[k])
        /\ \A l \in DOMAIN pages : l # k => IsFlagged(pages[l], pages'[l])
        /\ \/ Corrects(k, page) \/ Moves(k, page)
           \/ Names(k, page) \/ ReadsAgain(k, page)
    BY <1>4, ReviewedPages
  <2>1. page.photo = pages[k].photo /\ page \in PageRows
    BY ReviewedType
  <2>2. ~page.byHand => page.student \in {page.photo.pupil, Nothing}
    BY <2>1, ReviewedType DEF FiledUnderItsWriter
  <2> QED
    BY <2>2 DEF FiledUnderItsWriter, IsFlagged
<1>5. CASE Render \/ ReplaceItems \/ EditStatement \/ Upload \/ AppendPages
           \/ BeginReading \/ UNCHANGED vars
  BY <1>1, <1>5 DEF Render, ReplaceItems, EditStatement, Upload, AppendPages,
                    BeginReading, vars
<1> QED
  BY <1>2, <1>3, <1>4, <1>5 DEF Next

\* With up to two cells of its code misread, a page is filed under the pupil who
\* wrote on it, under nobody, or as a teacher said (uid_code.py): for every
\* class, every pile and every order in which its pages come.
THEOREM PagesAreTheirWriters == Spec => []NeverSomeoneElse
<1>1. Init => FiledUnderItsWriter
  BY DEF Init, FiledUnderItsWriter
<1>2. PaperInv /\ FiledUnderItsWriter /\ [Next]_vars => FiledUnderItsWriter'
  BY FilingKept
<1>3. FiledUnderItsWriter => NeverSomeoneElse
  BY NoCodeBecomesAnother DEF NeverSomeoneElse
<1>4. Spec => []PaperInv
  BY Invariance
<1> QED
  BY <1>1, <1>2, <1>3, <1>4, PTL DEF Spec

-----------------------------------------------------------------------------
(* The mark the pupil made                                                 *)

\* The next strongest mark is as strong as any but the one.
LEMMA NextStrongestBounds ==
    ASSUME NEW n \in 1 .. 4, NEW mark \in [1 .. n -> Nat], NEW o \in 1 .. n
    PROVE  /\ NextStrongest(mark, o) \in Nat
           /\ \A m \in 1 .. n \ {o} : mark[m] <= NextStrongest(mark, o)
<1> DEFINE rest == [m \in 1 .. n |-> IF m = o THEN 0 ELSE mark[m]]
           S == {0} \union {mark[m] : m \in DOMAIN mark \ {o}}
           b == Strongest(rest)
<1>1. rest \in [1 .. n -> Nat]
  OBVIOUS
<1>2. b \in 1 .. n /\ \A m \in 1 .. n : rest[m] <= rest[b]
  <2> HIDE DEF rest
  <2> QED
    BY <1>1, OneIsStrongest
<1> HIDE DEF b
<1>3. rest[b] \in S /\ S \subseteq Nat
  <2>1. S \subseteq Nat
    OBVIOUS
  <2>2. CASE b = o
    BY <1>2, <2>2
  <2>3. CASE b # o
    BY <1>2, <2>3
  <2> QED
    BY <2>1, <2>2, <2>3
<1>4. \A y \in S : rest[b] >= y
  <2>1. rest[b] >= 0
    BY <1>1, <1>2
  <2>2. \A m \in 1 .. n \ {o} : rest[b] >= mark[m]
    BY <1>2
  <2> QED
    BY <2>1, <2>2
<1>5. Max(S) \in S /\ \A y \in S : Max(S) >= y
  <2> HIDE DEF S, rest, b
  <2> QED
    BY <1>3, <1>4 DEF Max
<1> QED
  BY <1>3, <1>5 DEF NextStrongest

\* What is detected is the one mark of the item.
LEMMA DetectedIsTheMark ==
    ASSUME NEW inks \in Bubbles, DetectItem(inks).outcome = "detected"
    PROVE  {o \in DOMAIN inks : MarkStrength(inks[o]) >= FillMarked}
             = {DetectItem(inks).option}
<1>1. inks # <<>>
  BY DEF DetectItem, NotAsked, Detection
<1> DEFINE n == Len(inks)
           mark == [o \in DOMAIN inks |-> MarkStrength(inks[o])]
<1>2. n \in 1 .. 4 /\ DOMAIN inks = 1 .. n /\ \A o \in 1 .. n : inks[o] \in Inks
  <2>1. inks \in Seq(Inks) /\ n \in Nat /\ n <= 4
    BY DEF Bubbles
  <2>2. n # 0
    BY <1>1, <2>1, EmptySeq
  <2>3. \A o \in 1 .. n : inks[o] \in Inks
    BY <2>1
  <2>4. DOMAIN inks = 1 .. n
    BY <2>1
  <2> QED
    BY <2>1, <2>2, <2>3, <2>4
<1>3. mark \in [1 .. n -> Nat]
  <2>1. \A o \in 1 .. n : MarkStrength(inks[o]) \in Nat
    BY <1>2, MarkStrengthType
  <2> HIDE DEF n
  <2> QED
    BY <1>2, <2>1
<1>4. DetectItem(inks) = Weighed(mark)
  BY <1>1 DEF DetectItem
<1>5. \A o \in DOMAIN inks : mark[o] = MarkStrength(inks[o])
  OBVIOUS
<1> HIDE DEF mark, n
<1> DEFINE option == Strongest(mark)
           best == mark[option]
           second == NextStrongest(mark, option)
<1>6. option \in 1 .. n /\ \A m \in 1 .. n : mark[m] <= best
  BY <1>2, <1>3, OneIsStrongest
<1>7. second \in Nat /\ \A m \in 1 .. n \ {option} : mark[m] <= second
  BY <1>2, <1>3, <1>6, NextStrongestBounds
<1>8. Judged(option, best, second).outcome = "detected"
  BY <1>4 DEF Weighed, Compared
<1>9. DetectItem(inks).option = Judged(option, best, second).option
  BY <1>4 DEF Weighed, Compared
<1> HIDE DEF option, best, second
<1>10. /\ ~(best < FillMarked) /\ ~(second >= FillMarked)
       /\ Judged(option, best, second).option = option
  BY <1>8 DEF Judged, Detection, Confident
<1>11. best = mark[option] /\ best \in Nat
  BY <1>3, <1>6 DEF best
<1>12. \A o \in 1 .. n : mark[o] >= FillMarked <=> o = option
  BY <1>3, <1>6, <1>7, <1>10, <1>11 DEF FillMarked
<1> QED
  BY <1>2, <1>5, <1>6, <1>9, <1>10, <1>12

\* On a page, too: the sweep over the blanks detects nothing.
LEMMA DetectedOnThePage ==
    ASSUME NEW page, NEW r \in DOMAIN page, page[r] \in Bubbles,
           DetectPage(page)[r].outcome = "detected"
    PROVE  {o \in DOMAIN page[r] : MarkStrength(page[r][o]) >= FillMarked}
             = {DetectPage(page)[r].option}
<1> DEFINE read == [s \in DOMAIN page |-> DetectItem(page[s])]
<1>1. DOMAIN read = DOMAIN page /\ read[r] = DetectItem(page[r])
  OBVIOUS
<1>2. DetectPage(page) = FlagSuspiciousBlanks(read)
  BY DEF DetectPage
<1> HIDE DEF read
<1>3. \A c : Detection("low", NoOption, c).outcome = "low"
  BY DEF Detection
<1>4. FlagSuspiciousBlanks(read)[r] = read[r]
      \/ \E c : FlagSuspiciousBlanks(read)[r] = Detection("low", NoOption, c)
  BY <1>1 DEF FlagSuspiciousBlanks
<1>5. DetectPage(page)[r] = DetectItem(page[r])
  BY <1>1, <1>2, <1>3, <1>4
<1> QED
  BY <1>5, DetectedIsTheMark

-----------------------------------------------------------------------------
(* What is taken for blank                                                 *)

\* The bubbles that show more than nothing.
Dark(inks) == {o \in DOMAIN inks : MarkStrength(inks[o]) >= FillBlank}

\* An item without bubbles is not graded; one with bubbles is blank when none
\* of them shows anything.
LEMMA ReadAsBlank ==
    ASSUME NEW inks \in Bubbles
    PROVE  /\ DetectItem(inks).outcome = "not_gradeable" <=> inks = <<>>
           /\ inks # <<>> =>
                (DetectItem(inks).outcome = "blank" <=> Dark(inks) = {})
<1>1. CASE inks = <<>>
  BY <1>1 DEF DetectItem, NotAsked, Detection
<1>2. CASE inks # <<>>
  <2> DEFINE n == Len(inks)
             mark == [o \in DOMAIN inks |-> MarkStrength(inks[o])]
  <2>1. n \in 1 .. 4 /\ DOMAIN inks = 1 .. n /\ \A o \in 1 .. n : inks[o] \in Inks
    <3>1. inks \in Seq(Inks) /\ n \in Nat /\ n <= 4
      BY DEF Bubbles
    <3>2. n # 0
      BY <1>2, <3>1, EmptySeq
    <3>3. \A o \in 1 .. n : inks[o] \in Inks
      BY <3>1
    <3>4. DOMAIN inks = 1 .. n
      BY <3>1
    <3> QED
      BY <3>1, <3>2, <3>3, <3>4
  <2>2. mark \in [1 .. n -> Nat]
    <3>1. \A o \in 1 .. n : MarkStrength(inks[o]) \in Nat
      BY <2>1, MarkStrengthType
    <3> HIDE DEF n
    <3> QED
      BY <2>1, <3>1
  <2>3. DetectItem(inks) = Weighed(mark)
    BY <1>2 DEF DetectItem
  <2>4. \A o \in DOMAIN inks : mark[o] = MarkStrength(inks[o])
    OBVIOUS
  <2> HIDE DEF mark, n
  <2> DEFINE option == Strongest(mark)
             best == mark[option]
             second == NextStrongest(mark, option)
  <2>5. option \in 1 .. n /\ \A m \in 1 .. n : mark[m] <= best
    BY <2>1, <2>2, OneIsStrongest
  <2>6. DetectItem(inks) = Judged(option, best, second)
    BY <2>3 DEF Weighed, Compared
  <2>7. best \in Nat
    BY <2>2, <2>5
  <2>8. /\ Judged(option, best, second).outcome # "not_gradeable"
        /\ Judged(option, best, second).outcome = "blank" <=> best < FillBlank
    <3> HIDE DEF option, best, second
    <3> QED
      BY DEF Judged, Detection, Confident
  <2>9. best < FillBlank <=> Dark(inks) = {}
    <3>1. Dark(inks) = {o \in 1 .. n : mark[o] >= FillBlank}
      BY <2>1, <2>4 DEF Dark
    <3>2. FillBlank \in Nat
      BY DEF FillBlank
    <3> QED
      BY <2>2, <2>5, <2>7, <3>1, <3>2
  <2> QED
    BY <1>2, <2>6, <2>8, <2>9
<1> QED
  BY <1>1, <1>2

\* On a page, too: the sweep makes no blank and no ungraded item.
LEMMA OutcomeOnThePage ==
    ASSUME NEW page, NEW r \in DOMAIN page, page[r] \in Bubbles
    PROVE  /\ DetectPage(page)[r].outcome = "not_gradeable" <=> page[r] = <<>>
           /\ DetectPage(page)[r].outcome = "blank" =>
                page[r] # <<>> /\ Dark(page[r]) = {}
<1> DEFINE read == [s \in DOMAIN page |-> DetectItem(page[s])]
<1>1. DOMAIN read = DOMAIN page /\ read[r] = DetectItem(page[r])
  OBVIOUS
<1>2. DetectPage(page) = FlagSuspiciousBlanks(read)
  BY DEF DetectPage
<1> HIDE DEF read
<1>3. \A c : Detection("low", NoOption, c).outcome = "low"
  BY DEF Detection
<1>4. \/ FlagSuspiciousBlanks(read)[r] = read[r]
      \/ /\ read[r].outcome = "blank"
         /\ \E c : FlagSuspiciousBlanks(read)[r] = Detection("low", NoOption, c)
  BY <1>1 DEF FlagSuspiciousBlanks
<1>5. \/ DetectPage(page)[r].outcome = read[r].outcome
      \/ read[r].outcome = "blank" /\ DetectPage(page)[r].outcome = "low"
  BY <1>2, <1>3, <1>4
<1>6. DetectPage(page)[r].outcome = "not_gradeable" <=> page[r] = <<>>
  BY <1>1, <1>5, ReadAsBlank
<1>7. ASSUME DetectPage(page)[r].outcome = "blank"
      PROVE  page[r] # <<>> /\ Dark(page[r]) = {}
  <2>1. DetectItem(page[r]).outcome = "blank"
    BY <1>1, <1>5, <1>7
  <2>2. page[r] # <<>>
    BY <2>1, ReadAsBlank
  <2> QED
    BY <2>1, <2>2, ReadAsBlank
<1> QED
  BY <1>6, <1>7

\* The items of a page that have bubbles, and those that show something.
WithBubbles(page) == {s \in DOMAIN page : page[s] # <<>>}
WithPencil(page) == {s \in WithBubbles(page) : Dark(page[s]) # {}}

\* A blank is left on a page of four items or more where more than four in ten
\* show something.
LEMMA BlankOnThePage ==
    ASSUME NEW n \in Nat, NEW page, DOMAIN page = 1 .. n,
           \A s \in 1 .. n : page[s] \in Bubbles,
           NEW r \in 1 .. n, DetectPage(page)[r].outcome = "blank"
    PROVE  Cardinality(WithBubbles(page)) >= 4 =>
             10 * Cardinality(WithPencil(page)) > 4 * Cardinality(WithBubbles(page))
<1> PICK asked : asked = {s \in 1 .. n : page[s] # <<>>}
  OBVIOUS
<1> PICK seen : seen = {s \in asked : Dark(page[s]) # {}}
  OBVIOUS
<1>0. asked = WithBubbles(page) /\ seen = WithPencil(page)
  BY DEF WithBubbles, WithPencil
<1> DEFINE read == [s \in DOMAIN page |-> DetectItem(page[s])]
           blanks == {s \in asked : read[s].outcome = "blank"}
<1>1. DOMAIN read = 1 .. n /\ \A s \in 1 .. n : read[s] = DetectItem(page[s])
  OBVIOUS
<1>2. DetectPage(page) = FlagSuspiciousBlanks(read)
  BY DEF DetectPage
<1> HIDE DEF read
<1>3. asked = {s \in DOMAIN read : read[s].outcome # "not_gradeable"}
  BY <1>1, ReadAsBlank
<1>4. blanks = asked \ seen
  <2>1. \A s \in asked : read[s].outcome = "blank" <=> Dark(page[s]) = {}
    BY <1>1, ReadAsBlank
  <2> QED
    BY <2>1
<1> HIDE DEF blanks
<1>5. /\ Cardinality(asked) \in Nat /\ Cardinality(seen) \in Nat
      /\ Cardinality(blanks) = Cardinality(asked) - Cardinality(seen)
  <2>1. IsFiniteSet(1 .. n)
    BY FS_Interval
  <2>2. asked \in SUBSET (1 .. n) /\ seen \in SUBSET asked
    OBVIOUS
  <2>3. IsFiniteSet(asked) /\ IsFiniteSet(seen)
    BY <2>1, <2>2, FS_Subset
  <2>4. Cardinality(asked \ seen) = Cardinality(asked) - Cardinality(asked \cap seen)
    BY <2>3, FS_Difference
  <2>5. asked \cap seen = seen
    BY <2>2
  <2>6. Cardinality(asked) \in Nat /\ Cardinality(seen) \in Nat
    BY <2>3, FS_CardinalityType
  <2> QED
    BY <1>4, <2>4, <2>5, <2>6
<1>6. Cardinality(asked) < 4 \/ 10 * Cardinality(blanks) < 6 * Cardinality(asked)
  <2> SUFFICES ASSUME ~(Cardinality(asked) < 4
                        \/ 10 * Cardinality(blanks) < 6 * Cardinality(asked))
               PROVE  FALSE
    OBVIOUS
  <2>1. FlagSuspiciousBlanks(read)
          = [s \in DOMAIN read |->
               IF s \in blanks
               THEN Detection("low", NoOption, Min({read[s].confidence, 35}))
               ELSE read[s]]
    BY <1>3 DEF FlagSuspiciousBlanks, blanks
  <2>2. CASE r \in blanks
    <3>1. FlagSuspiciousBlanks(read)[r].outcome = "low"
      BY <1>1, <2>1, <2>2 DEF Detection
    <3> QED
      BY <1>2, <3>1
  <2>3. CASE r \notin blanks
    <3>1. read[r].outcome = "blank"
      BY <1>1, <1>2, <2>1, <2>3
    <3>2. r \in blanks
      BY <1>1, <1>3, <3>1 DEF blanks
    <3> QED
      BY <2>3, <3>2
  <2> QED
    BY <2>2, <2>3
<1> HIDE DEF blanks
<1>7. Cardinality(asked) >= 4 => 10 * Cardinality(seen) > 4 * Cardinality(asked)
  BY <1>5, <1>6
<1> QED
  BY <1>0, <1>7

-----------------------------------------------------------------------------
(* Marks and questions                                                     *)

\* What a row says of the photograph of a page with these rows, worded as in
\* edition d, is so.
Told(rows, d, photo, x) ==
    /\ x.row \in DOMAIN rows /\ rows[x.row].part # "statement"
    /\ x.exercise = rows[x.row].key
    /\ photo.kept = 100 /\ ~x.corrected /\ x.outcome = "detected"
         => Marked(photo.pupil, x.exercise) = {x.option}
    /\ ~x.corrected /\ x.outcome = "blank" => IsLeftBlank(photo, rows, x)
    /\ x.outcome = "not_gradeable" =>
         LET i == Says[d][x.exercise]
         IN ~PrintsBox(i) /\ OptionCount(i) = 0

\* And each of its questions has one row.
AllTold(rows, d, photo, xs) ==
    /\ \A x \in xs : Told(rows, d, photo, x)
    /\ \A x, y \in xs : x.row = y.row => x = y
    /\ \A r \in DOMAIN rows : rows[r].part # "statement" => \E x \in xs : x.row = r

AreTold(photo, xs) ==
    AllTold(PrintedRows(photo), PaperOf(photo).edition, photo, xs)

\* The photograph shows the ink of an item, faded, however it is worded.
LEMMA PhotographedInk ==
    ASSUME NEW photo \in Photos, photo.pupil \in Pupils,
           NEW rows \in Seq(Lines), rows = PrintedRows(photo),
           NEW r \in DOMAIN rows, NEW paper \in Papers,
           NEW ink, ink = Ink[photo.pupil][rows[r].key]
    PROVE  /\ ink \in Bubbles
           /\ \A d \in Editions : OptionCount(Says[d][rows[r].key]) = Len(ink)
           /\ InkAt(photo, r, Counts(rows, paper)[r])
                = [o \in DOMAIN ink |-> Faded(ink[o], photo.kept)]
<1> DEFINE e == rows[r].key
           n == OptionCount(Says[paper.edition][e])
<1>1. e \in Exercises /\ paper.edition \in Editions
  <2>1. rows[r] \in Lines
    OBVIOUS
  <2> QED
    BY <2>1 DEF Lines, Papers
<1>2. ink \in Seq(Inks) /\ \A d \in Editions : OptionCount(Says[d][e]) = Len(ink)
  BY <1>1, InkAssumption DEF Inks
<1>3. n = Len(ink) /\ n \in 0 .. 4 /\ Counts(rows, paper)[r] = n
  <2>1. Says[paper.edition][e] \in Wordings
    BY <1>1, PaperAssumption
  <2>2. n \in 0 .. 4
    BY <2>1, OptionCountType
  <2> QED
    BY <1>1, <1>2, <2>2 DEF Counts
<1>4. InkAt(photo, r, n) = [o \in 1 .. n |->
          IF o \in DOMAIN ink THEN Faded(ink[o], photo.kept) ELSE NoInk]
  BY DEF InkAt
<1> HIDE DEF n, e
<1>5. DOMAIN ink = 1 .. n
  BY <1>2, <1>3
<1>6. InkAt(photo, r, n) = [o \in DOMAIN ink |-> Faded(ink[o], photo.kept)]
  BY <1>4, <1>5
<1>7. ink \in Bubbles
  <2>1. ink \in Seq(Inks)
    BY <1>2
  <2>2. \A m \in 0 .. 4 : m <= 4
    OBVIOUS
  <2>3. n <= 4
    BY <1>3, <2>2
  <2>4. Len(ink) <= 4
    BY <1>3, <2>3, Zenon
  <2> QED
    BY <2>1, <2>4 DEF Bubbles
<1> QED
  BY <1>2, <1>3, <1>6, <1>7 DEF e

\* A photocopy that kept all its ink shows it.
LEMMA FreshInk ==
    ASSUME NEW ink \in Bubbles
    PROVE  [o \in DOMAIN ink |-> Faded(ink[o], 100)] = ink
<1>1. ink \in Seq(Inks)
  BY DEF Bubbles
<1>2. \A o \in DOMAIN ink : ink[o] \in Inks
  BY <1>1
<1>3. \A i \in Inks : Faded(i, 100) = i
  <2> TAKE i \in Inks
  <2>1. i.fill \in 0 .. 100 /\ i.cross \in 0 .. 100
        /\ i = [fill |-> i.fill, cross |-> i.cross]
    BY DEF Inks
  <2>2. \A x \in 0 .. 100 : (x * 100) \div 100 = x
    OBVIOUS
  <2> QED
    BY <2>1, <2>2 DEF Faded
<1>4. ink = [o \in DOMAIN ink |-> ink[o]]
  BY <1>1
<1> QED
  BY <1>2, <1>3, <1>4

\* A page read against the rows that were printed on it says what is so.
LEMMA ReadAgainstWhatWasPrinted ==
    ASSUME NEW photo \in Photos, PaperOf(photo) \in Papers,
           photo.pupil \in Pupils, NEW paper \in Papers,
           NEW rows \in Seq(Lines), Len(rows) <= ItemsPerPage,
           rows = PrintedRows(photo),
           photo.page \in DOMAIN Copy(photo.pupil, PaperOf(photo)),
           pile.generation \in DOMAIN printed, photo.generation = pile.generation,
           pile.generation # 0
    PROVE  AreTold(photo, ReadAgainst(photo, photo.pupil, rows, photo.page, paper))
<1> DEFINE counts == Counts(rows, paper)
           page == [r \in DOMAIN counts |-> InkAt(photo, r, counts[r])]
           read == Detect(photo, counts)
           boxes == BoxRows(photo.pupil, photo.page, pile.generation)
           xs == ReadAgainst(photo, photo.pupil, rows, photo.page, paper)
           d == PaperOf(photo).edition
<1>1. /\ DOMAIN counts = DOMAIN rows
      /\ \A r \in DOMAIN rows : counts[r] \in 0 .. 4
  BY CountsType
<1>2. read = DetectPage(page) /\ DOMAIN page = DOMAIN rows
  BY <1>1 DEF Detect
<1>3. DOMAIN read = DOMAIN rows
  BY <1>1, DetectType
<1>4. xs = {Row(r, rows[r].key, WithCrop(read[r], photo, r, boxes)) :
              r \in {s \in DOMAIN rows : rows[s].part # "statement"}}
  BY <1>3 DEF ReadAgainst, Paired
<1>5. /\ DOMAIN rows = 1 .. Len(rows) /\ Len(rows) \in Nat
      /\ \A r \in DOMAIN rows : rows[r].key \in Exercises /\ page[r] \in Bubbles
  <2>1. \A r \in DOMAIN rows : rows[r] \in Lines
    OBVIOUS
  <2>2. \A r \in DOMAIN rows : page[r] = InkAt(photo, r, counts[r])
    BY <1>1
  <2>3. \A r \in DOMAIN rows : page[r] \in Bubbles
    BY <1>1, <2>2, InkAtType
  <2> QED
    BY <2>1, <2>3 DEF Lines
<1>6. boxes = {r \in DOMAIN rows : /\ rows[r].part # "statement"
                                   /\ PrintsBox(Says[d][rows[r].key])}
  <2>1. PaperOf(photo) = printed[pile.generation]
    BY DEF PaperOf
  <2>2. photo.pupil \notin Strangers
    BY PaperAssumption
  <2>3. rows = Copy(photo.pupil, PaperOf(photo))[photo.page]
    BY <2>2 DEF PrintedRows
  <2> QED
    BY <2>1, <2>3 DEF BoxRows
<1>7. d \in Editions
  BY DEF Papers
<1>8. ASSUME NEW r \in DOMAIN rows
      PROVE  LET ink == Ink[photo.pupil][rows[r].key]
             IN /\ ink \in Bubbles /\ OptionCount(Says[d][rows[r].key]) = Len(ink)
                /\ page[r] = [o \in DOMAIN ink |-> Faded(ink[o], photo.kept)]
  <2>1. page[r] = InkAt(photo, r, counts[r])
    BY <1>1
  <2> QED
    BY <1>7, <2>1, PhotographedInk
<1> HIDE DEF read, boxes, page, counts, xs, d
<1>9. ASSUME NEW r \in DOMAIN rows
      PROVE  /\ Dark(page[r]) = Shown(photo, rows[r].key)
             /\ page[r] = <<>> <=> Ink[photo.pupil][rows[r].key] = <<>>
             /\ page[r] = <<>> => OptionCount(Says[d][rows[r].key]) = 0
             /\ photo.kept = 100 => page[r] = Ink[photo.pupil][rows[r].key]
  <2> PICK ink : ink = Ink[photo.pupil][rows[r].key]
    OBVIOUS
  <2>1. /\ ink \in Bubbles /\ OptionCount(Says[d][rows[r].key]) = Len(ink)
        /\ page[r] = [o \in DOMAIN ink |-> Faded(ink[o], photo.kept)]
    BY <1>8
  <2>2. Dark(page[r]) = Shown(photo, rows[r].key)
    BY <2>1 DEF Dark, Shown
  <2>3. ink \in Seq(Inks) /\ page[r] \in Seq(Inks) /\ DOMAIN page[r] = DOMAIN ink
    BY <1>5, <2>1 DEF Bubbles
  <2>4. page[r] = <<>> <=> ink = <<>>
    BY <2>3, EmptySeq
  <2>5. Len(<<>>) = 0
    OBVIOUS
  <2> QED
    BY <2>1, <2>2, <2>4, <2>5, FreshInk
<1>10. /\ Asked(photo, rows) = WithBubbles(page)
       /\ Seen(photo, rows) = WithPencil(page)
  <2>1. Asked(photo, rows) = WithBubbles(page)
    BY <1>2, <1>9 DEF Asked, WithBubbles
  <2>2. \A r \in Asked(photo, rows) : r \in DOMAIN rows
    BY DEF Asked
  <2> QED
    BY <1>9, <2>1, <2>2 DEF Seen, WithPencil
<1>11. ASSUME NEW x \in xs PROVE Told(rows, d, photo, x)
  <2> PICK r \in DOMAIN rows :
        /\ rows[r].part # "statement"
        /\ x = Row(r, rows[r].key, WithCrop(read[r], photo, r, boxes))
    BY <1>4
  <2> DEFINE e == rows[r].key
             crop == WithCrop(read[r], photo, r, boxes)
  <2>1. /\ x.row = r /\ x.exercise = e /\ ~x.corrected
        /\ x.outcome = crop.outcome /\ x.option = crop.option
    BY DEF Row
  <2>2. \/ crop = read[r]
        \/ /\ read[r].outcome = "not_gradeable" /\ r \in boxes
           /\ crop.outcome \in {"pending", "blank"}
           /\ crop.outcome = "blank" => ~BoxHasInk(photo, r)
    BY DEF WithCrop, Detection
  <2>3. read[r].outcome = "not_gradeable" /\ r \in boxes => crop.outcome # "not_gradeable"
    BY DEF WithCrop, Detection
  <2>4. read[r].outcome = "not_gradeable" <=> page[r] = <<>>
    BY <1>2, <1>5, OutcomeOnThePage
  <2> HIDE DEF crop
  <2>5. ASSUME photo.kept = 100, x.outcome = "detected"
        PROVE  Marked(photo.pupil, x.exercise) = {x.option}
    <3>1. crop = read[r] /\ read[r].outcome = "detected"
      BY <2>1, <2>2, <2>5
    <3>2. {o \in DOMAIN page[r] : MarkStrength(page[r][o]) >= FillMarked} = {x.option}
      BY <1>2, <1>5, <2>1, <3>1, DetectedOnThePage
    <3> QED
      BY <1>9, <2>1, <2>5, <3>2 DEF Marked
  <2>6. ASSUME x.outcome = "blank" PROVE IsLeftBlank(photo, rows, x)
    <3>1. CASE crop = read[r]
      <4>1. DetectPage(page)[r].outcome = "blank"
        BY <1>2, <2>1, <2>6, <3>1
      <4>2. page[r] # <<>> /\ Dark(page[r]) = {}
        BY <1>2, <1>5, <4>1, OutcomeOnThePage
      <4>3. r \in Asked(photo, rows) /\ Shown(photo, e) = {}
        BY <1>2, <1>9, <1>10, <4>2 DEF WithBubbles
      <4> PICK n : n = Len(rows)
        OBVIOUS
      <4>4. n \in Nat /\ DOMAIN page = 1 .. n /\ r \in 1 .. n
            /\ \A s \in 1 .. n : page[s] \in Bubbles
        BY <1>2, <1>5
      <4>5. Cardinality(WithBubbles(page)) >= 4 =>
              10 * Cardinality(WithPencil(page)) > 4 * Cardinality(WithBubbles(page))
        BY <4>1, <4>4, BlankOnThePage
      <4> QED
        BY <1>10, <2>1, <4>3, <4>5 DEF IsLeftBlank
    <3>2. CASE crop # read[r]
      <4>1. page[r] = <<>> /\ ~BoxHasInk(photo, r)
        BY <2>1, <2>2, <2>4, <2>6, <3>2
      <4>2. r \notin Asked(photo, rows)
        BY <1>10, <4>1 DEF WithBubbles
      <4>3. e \notin Written[photo.pupil]
        BY <4>1 DEF BoxHasInk
      <4> QED
        BY <2>1, <4>2, <4>3 DEF IsLeftBlank
    <3> QED
      BY <3>1, <3>2
  <2>7. ASSUME x.outcome = "not_gradeable"
        PROVE  ~PrintsBox(Says[d][e]) /\ OptionCount(Says[d][e]) = 0
    <3>1. crop = read[r] /\ read[r].outcome = "not_gradeable"
      BY <2>1, <2>2, <2>7
    <3>2. r \notin boxes
      BY <2>1, <2>3, <2>7, <3>1
    <3>3. ~PrintsBox(Says[d][e])
      BY <1>6, <3>2
    <3> QED
      BY <1>9, <2>4, <3>1, <3>3
  <2> QED
    BY <2>1, <2>5, <2>6, <2>7 DEF Told
<1> DEFINE row(r) == Row(r, rows[r].key, WithCrop(read[r], photo, r, boxes))
           asks == {s \in DOMAIN rows : rows[s].part # "statement"}
<1>12. xs = {row(r) : r \in asks} /\ \A r \in asks : row(r).row = r
  BY <1>4 DEF Row
<1> HIDE DEF row
<1>13. \A x, y \in xs : x.row = y.row => x = y
  BY <1>12
<1>14. \A r \in DOMAIN rows : rows[r].part # "statement" => \E x \in xs : x.row = r
  BY <1>12
<1> QED
  BY <1>11, <1>13, <1>14 DEF AreTold, AllTold, xs, d

\* A page whose code was read, and not as another sheet's, is its writer's.  It
\* is of the render the pile is pinned to, at the slot it was printed as, and as
\* long as it is filed under its writer its rows say what is so; unless the
\* sheet was altered since.  A page of another class has no rows.
CorrectionsSaySo(xs) == \A x \in xs : x.corrected => x.outcome = "corrected"

OnPaper(g, rows, d, render, old) ==
    /\ CorrectionsSaySo(g.rows)
    /\ g.uid # Nothing /\ "wrong_sheet" \notin g.flags =>
         /\ g.photo.legible /\ g.uid = g.photo.pupil
         /\ g.uid \in Strangers /\ g.student = g.uid => g.rows = {}
         /\ g.uid \in Pupils =>
              /\ g.photo.generation = render
              /\ render \notin old =>
                   /\ g.slot = g.photo.page
                   /\ g.student = g.uid => AllTold(rows, d, g.photo, g.rows)

IsOnItsPaper(g) ==
    OnPaper(g, PrintedRows(g.photo), PaperOf(g.photo).edition,
            pile.generation, altered)

PaperIsRead ==
    pile.layout = "v2" => \A k \in DOMAIN pages : IsOnItsPaper(pages[k])

\* Today's copy is the one a photograph shows, while the sheet is not altered.
LEMMA SameCopy ==
    ASSUME SheetOK, NEW photo, IsTaken(photo), photo.pupil \in Pupils,
           photo.generation \in 1 .. generation \ altered, NEW paper \in Papers,
           paper.plan = plan, paper.edition = edition
    PROVE  /\ photo.page \in DOMAIN Copy(photo.pupil, paper)
           /\ PrintedRows(photo) = Copy(photo.pupil, paper)[photo.page]
<1>1. PaperOf(photo) = printed[photo.generation]
  BY DEF PaperOf, SheetOK
<1>2. printed[photo.generation].plan = plan /\ printed[photo.generation].edition = edition
  BY DEF SheetOK
<1>3. Copy(photo.pupil, PaperOf(photo)) = Copy(photo.pupil, paper)
  BY <1>1, <1>2 DEF Copy
<1>4. photo.page \in DOMAIN Copy(photo.pupil, paper)
  BY <1>3 DEF IsTaken, IsPrinted
<1>5. photo.pupil \notin Strangers
  BY PaperAssumption
<1> QED
  BY <1>3, <1>4, <1>5 DEF PrintedRows

LEMMA PagesAreSomething == \A n \in Nat : n # Nothing
<1>1. Nothing \notin Nat
  BY PaperAssumption
<1> QED
  BY <1>1

\* The page that is filed is such a page.
LEMMA FiledOnItsPaper ==
    ASSUME PaperInv, pile.stage = "reading",
           pile.layout = "v2", NEW photo, NEW code, NEW p, NEW copy, NEW slot,
           NEW page, IsFiled(photo, code, p, copy, slot, page)
    PROVE  IsOnItsPaper(page)
<1>0. CorrectionsSaySo(page.rows)
  <2>1. \A x \in RowsRead(photo, code, p, copy, slot) : ~x.corrected
    BY RowsReadType DEF IsFiled
  <2> QED
    BY <2>1 DEF IsFiled, PageRow, CorrectionsSaySo
<1> SUFFICES ASSUME page.uid # Nothing, "wrong_sheet" \notin page.flags
             PROVE  /\ page.photo.legible /\ page.uid = page.photo.pupil
                    /\ page.uid \in Strangers /\ page.student = page.uid => page.rows = {}
                    /\ page.uid \in Pupils =>
                         /\ page.photo.generation = pile.generation
                         /\ pile.generation \notin altered =>
                              /\ page.slot = page.photo.page
                              /\ page.student = page.uid =>
                                   AreTold(page.photo, page.rows)
  BY <1>0 DEF IsOnItsPaper, OnPaper, AreTold
<1>1. /\ IsTaken(photo) /\ code \in CodesRead(photo)
      /\ p = Resolve(code) /\ copy = CopyNamed(p, code)
      /\ p \in Somebody \union {Nothing}
      /\ slot = IF copy = <<>> THEN Nothing ELSE SlotOf(code, p, copy)
  BY DEF IsFiled
<1>2. /\ page.uid = p /\ page.photo = photo /\ page.slot = slot
      /\ page.rows = RowsRead(photo, code, p, copy, slot)
      /\ page.flags = FlagsRaised(code, copy, slot)
  BY DEF IsFiled, PageRow
<1>3. ~IsForeign(code)
  BY <1>2 DEF FlagsRaised
<1>4. p = photo.pupil /\ code # Unreadable /\ SheetOK
  BY <1>1, <1>2, ResolvesToItsWriter DEF PaperInv
<1>5. /\ photo.legible
      /\ code.page = photo.page /\ code.nonce = NonceOf[photo.generation]
  BY <1>1, <1>4, CodeIsTrue
<1>6. /\ photo.generation \in 0 .. MaxGeneration
      /\ pile.generation \in 0 .. MaxGeneration /\ pile.generation \in 1 .. generation
  BY <1>1, PaperAssumption DEF IsTaken, PaperInv, SheetOK, PileOK
<1>7. photo.generation = pile.generation
  <2>1. NonceOf[photo.generation] = NonceOf[pile.generation]
    BY <1>3, <1>4, <1>5, <1>6, PaperAssumption DEF IsForeign
  <2> QED
    BY <1>6, <2>1, PaperAssumption
<1>8. ASSUME p \in Strangers PROVE page.rows = {}
  <2>1. p \notin Pupils
    BY <1>8, PaperAssumption
  <2>2. slot = Nothing
    BY <1>1, <2>1 DEF CopyNamed
  <2> QED
    BY <1>2, <1>8, <2>2 DEF RowsRead
<1>9. ASSUME p \in Pupils, pile.generation \notin altered
      PROVE  slot = photo.page /\ AreTold(photo, page.rows)
  <2>1. /\ pile.basis \in Papers
        /\ pile.basis.plan = plan /\ pile.basis.edition = edition
    BY <1>9 DEF PaperInv, PileOK
  <2>2. copy = Copy(p, pile.basis)
    BY <1>1, <1>3, <1>9 DEF CopyNamed
  <2>3. photo.page \in DOMAIN copy /\ PrintedRows(photo) = copy[photo.page]
    BY <1>1, <1>4, <1>6, <1>7, <1>9, <2>1, <2>2, SameCopy
  <2>4. copy = TooTall \/ IsACopy(copy)
    BY <1>9, <2>1, <2>2, CopyType
  <2>5. /\ IsACopy(copy) /\ photo.page \in Nat \ {0}
        /\ copy[photo.page] \in Seq(Lines) /\ Len(copy[photo.page]) <= ItemsPerPage
    BY <2>3, <2>4, PageOfCopyType
  <2>6. copy # <<>> /\ photo.page # Nothing
    <3>1. photo.page \in Nat
      BY <2>5
    <3> QED
      BY <2>5, <3>1, PagesAreSomething DEF IsACopy
  <2>7. slot = photo.page
    BY <1>1, <1>5, <2>3, <2>6 DEF SlotOf
  <2>8. page.rows = ReadAgainst(photo, p, copy[photo.page], photo.page, pile.basis)
    BY <1>2, <2>6, <2>7 DEF RowsRead
  <2>9. photo \in Photos /\ PaperOf(photo) \in Papers
    BY <1>1, PaperOfType DEF IsTaken, PaperInv
  <2> DEFINE rows == copy[photo.page]
  <2>10. rows \in Seq(Lines) /\ Len(rows) <= ItemsPerPage /\ rows = PrintedRows(photo)
    BY <2>3, <2>5
  <2> HIDE DEF rows
  <2>11. /\ pile.generation \in DOMAIN printed /\ pile.generation # 0
         /\ photo.page \in DOMAIN Copy(photo.pupil, PaperOf(photo))
    BY <1>1, <1>4, <1>6, <1>9 DEF SheetOK, IsTaken, IsPrinted
  <2>12. AreTold(photo,
           ReadAgainst(photo, photo.pupil, rows, photo.page, pile.basis))
    BY <1>4, <1>7, <1>9, <2>1, <2>9, <2>10, <2>11, ReadAgainstWhatWasPrinted
  <2> QED
    BY <1>4, <2>7, <2>8, <2>12 DEF rows
<1> QED
  BY <1>2, <1>4, <1>5, <1>7, <1>8, <1>9

\* A correction leaves the rows of a page to their questions.
LEMMA CorrectedIsTold ==
    ASSUME NEW rows, NEW d, NEW photo, NEW xs \in SUBSET DetectionRows, NEW x \in xs,
           NEW ys, ys = (xs \ {x}) \union {Corrected(x)}
    PROVE  /\ CorrectionsSaySo(xs) => CorrectionsSaySo(ys)
           /\ AllTold(rows, d, photo, xs) => AllTold(rows, d, photo, ys)
<1> PICK y : y = Corrected(x)
  OBVIOUS
<1>1. y.row = x.row /\ y.exercise = x.exercise /\ y.corrected
      /\ y.outcome = "corrected"
  BY DEF Corrected
<1>2. CorrectionsSaySo(xs) => CorrectionsSaySo(ys)
  BY <1>1 DEF CorrectionsSaySo
<1>3. ASSUME AllTold(rows, d, photo, xs) PROVE AllTold(rows, d, photo, ys)
  <2>1. Told(rows, d, photo, x)
    BY <1>3 DEF AllTold
  <2>2. Told(rows, d, photo, y)
    BY <1>1, <2>1 DEF Told
  <2>3. \A z \in ys : Told(rows, d, photo, z)
    BY <1>3, <2>2 DEF AllTold
  <2>4. \A v, w \in xs : v.row = w.row => v = w
    BY <1>3 DEF AllTold
  <2>5. \A v, w \in ys : v.row = w.row => v = w
    BY <1>1, <2>4
  <2>6. \A z \in xs : \E w \in ys : w.row = z.row
    BY <1>1
  <2>7. \A r \in DOMAIN rows : rows[r].part # "statement" => \E z \in ys : z.row = r
    BY <1>3, <2>6 DEF AllTold
  <2> QED
    BY <2>3, <2>5, <2>7 DEF AllTold
<1> QED
  BY <1>2, <1>3

\* And so do corrections that are taken over to a new reading.
LEMMA CarriedIsTold ==
    ASSUME NEW rows, NEW d, NEW photo, NEW corrections \in SUBSET DetectionRows,
           NEW read \in SUBSET DetectionRows,
           \A c \in corrections : c.corrected, CorrectionsSaySo(corrections),
           \A x \in read : ~x.corrected
    PROVE  LET ys == Carried(corrections, read)
           IN /\ CorrectionsSaySo(ys)
              /\ AllTold(rows, d, photo, read) => AllTold(rows, d, photo, ys)
<1> DEFINE kept(x) == CHOOSE c \in Taken(corrections, read, x) : TRUE
           new(x) == IF Taken(corrections, read, x) = {} THEN x ELSE MovedTo(kept(x), x)
           ys == Carried(corrections, read)
<1>1. ys = {new(x) : x \in read}
  BY DEF Carried
<1>2. ASSUME NEW x \in read
      PROVE  /\ new(x).row = x.row /\ new(x).exercise = x.exercise
             /\ \/ new(x) = x
                \/ new(x).corrected /\ new(x).outcome = "corrected"
  <2>1. CASE Taken(corrections, read, x) = {}
    BY <2>1
  <2>2. CASE Taken(corrections, read, x) # {}
    <3>1. kept(x) \in corrections
      BY <2>2 DEF Taken
    <3> HIDE DEF kept
    <3>2. kept(x) \in DetectionRows /\ kept(x).corrected
          /\ kept(x).outcome = "corrected"
      BY <3>1 DEF CorrectionsSaySo
    <3>3. new(x) = MovedTo(kept(x), x)
      BY <2>2
    <3> HIDE DEF new
    <3> QED
      BY <3>2, <3>3 DEF MovedTo, DetectionRows
  <2> QED
    BY <2>1, <2>2
<1> HIDE DEF new, ys
<1>3. CorrectionsSaySo(ys)
  BY <1>1, <1>2 DEF CorrectionsSaySo
<1>4. ASSUME AllTold(rows, d, photo, read) PROVE AllTold(rows, d, photo, ys)
  <2>1. ASSUME NEW x \in read PROVE Told(rows, d, photo, new(x))
    <3>1. Told(rows, d, photo, x)
      BY <1>4 DEF AllTold
    <3> QED
      BY <1>2, <3>1 DEF Told
  <2>2. \A z \in ys : Told(rows, d, photo, z)
    BY <1>1, <2>1
  <2>3. \A x, y \in read : x.row = y.row => x = y
    BY <1>4 DEF AllTold
  <2>4. \A x, y \in ys : x.row = y.row => x = y
    BY <1>1, <1>2, <2>3
  <2>5. \A r \in DOMAIN rows : rows[r].part # "statement" => \E x \in read : x.row = r
    BY <1>4 DEF AllTold
  <2>6. \A r \in DOMAIN rows : rows[r].part # "statement" => \E y \in ys : y.row = r
    BY <1>1, <1>2, <2>5
  <2> QED
    BY <2>2, <2>4, <2>6 DEF AllTold
<1> QED
  BY <1>3, <1>4 DEF ys

\* Whatever the teacher does, it stays one.
LEMMA ReviewedOnItsPaper ==
    ASSUME PaperInv, pile.layout = "v2", pile.stage = "review",
           NEW k \in DOMAIN pages, IsOnItsPaper(pages[k]), NEW page,
           \/ Corrects(k, page) \/ Moves(k, page)
           \/ Names(k, page) \/ ReadsAgain(k, page)
    PROVE  IsOnItsPaper(page)
<1> DEFINE g == pages[k]
<1>1. g \in PageRows /\ IsTaken(g.photo)
  BY DEF PaperInv, PagesOK
<1>2. g.rows \in SUBSET DetectionRows
  BY <1>1 DEF PageRows
<1>3. page.photo = g.photo /\ page.uid = g.uid /\ page.flags = g.flags
  BY ReviewedType
<1>4. CASE Corrects(k, page)
  <2> PICK x \in g.rows : page = WithRows(g, (g.rows \ {x}) \union {Corrected(x)})
    BY <1>4 DEF Corrects
  <2>1. Corrected(x) \in DetectionRows
    BY <1>2, CorrectedType
  <2>2. (g.rows \ {x}) \union {Corrected(x)} \in SUBSET DetectionRows
    BY <1>2, <2>1
  <2>3. page.rows = (g.rows \ {x}) \union {Corrected(x)}
        /\ page.student = g.student /\ page.slot = g.slot
    BY <1>1, <2>2, WithRowsType
  <2>4. /\ CorrectionsSaySo(g.rows) => CorrectionsSaySo(page.rows)
        /\ AreTold(g.photo, g.rows) => AreTold(g.photo, page.rows)
    BY <1>2, <2>3, CorrectedIsTold DEF AreTold
  <2>5. g.rows # {}
    OBVIOUS
  <2> HIDE DEF g
  <2>6. IsOnItsPaper(g) => IsOnItsPaper(page)
    BY <1>3, <2>3, <2>4, <2>5 DEF IsOnItsPaper, OnPaper, AreTold
  <2> QED
    BY <2>6 DEF g
<1>5. CASE Moves(k, page)
  <2>1. page.rows = g.rows /\ page.slot = g.slot
        /\ page.student \in {g.student, Nothing}
    BY <1>1, <1>5, RestoredType, DiscardedType DEF Moves
  <2> HIDE DEF g
  <2>2. IsOnItsPaper(g) => IsOnItsPaper(page)
    BY <1>3, <2>1 DEF IsOnItsPaper, OnPaper
  <2> QED
    BY <2>2 DEF g
<1>6. CASE Names(k, page)
  <2>1. ~g.photo.legible /\ page.rows = g.rows
    BY <1>1, <1>6, NamedAsType DEF Names
  <2> QED
    BY <1>3, <2>1 DEF IsOnItsPaper, OnPaper
<1>7. CASE ReadsAgain(k, page)
  <2> PICK p \in Pupils : \E slot, rows, read :
        /\ IsReadAgain(k, p, slot, rows, read)
        /\ page = At(NamedAs(g, p), slot, Carried(CorrectionsOf(k), read))
    BY <1>7 DEF ReadsAgain
  <2> PICK slot, rows, read :
        /\ IsReadAgain(k, p, slot, rows, read)
        /\ page = At(NamedAs(g, p), slot, Carried(CorrectionsOf(k), read))
    OBVIOUS
  <2>1. /\ CorrectionsOf(k) \in SUBSET DetectionRows
        /\ \A c \in CorrectionsOf(k) : c.corrected
        /\ CorrectionsSaySo(CorrectionsOf(k))
    BY <1>2 DEF CorrectionsOf, CorrectionsSaySo, IsOnItsPaper, OnPaper
  <2>2. /\ slot \in Nat \ {0} /\ read \in SUBSET DetectionRows
        /\ slot = IF g.slot = Nothing THEN 1 ELSE g.slot
        /\ rows = Copy(p, Today)[IF slot \in DOMAIN Copy(p, Today) THEN slot
                                 ELSE Len(Copy(p, Today))]
        /\ rows \in Seq(Lines) /\ Len(rows) <= ItemsPerPage
        /\ read = ReadAgainst(g.photo, p, rows, slot, Today)
        /\ \A x \in read : ~x.corrected
    BY DEF IsReadAgain
  <2> PICK corrections : corrections = CorrectionsOf(k)
    OBVIOUS
  <2>3. /\ Carried(corrections, read) \in SUBSET DetectionRows
        /\ CorrectionsSaySo(Carried(corrections, read))
        /\ AreTold(g.photo, read) => AreTold(g.photo, Carried(corrections, read))
    <3>1. /\ corrections \in SUBSET DetectionRows /\ CorrectionsSaySo(corrections)
          /\ \A c \in corrections : c.corrected
      BY <2>1
    <3>2. read \in SUBSET DetectionRows /\ \A x \in read : ~x.corrected
      BY <2>2
    <3>3. Carried(corrections, read) \subseteq DetectionRows
      BY <3>1, <3>2, CarriedType
    <3> HIDE DEF g
    <3> QED
      BY <3>1, <3>2, <3>3, CarriedIsTold DEF AreTold
  <2>4. /\ page.rows = Carried(CorrectionsOf(k), read)
        /\ page.slot = slot /\ page.student = p
    <3>1. NamedAs(g, p) \in PageRows /\ NamedAs(g, p).student = p
      BY <1>1, NamedAsType
    <3> QED
      BY <2>2, <2>3, <3>1, AtType
  <2>5. p \notin Strangers /\ g.photo \in Photos
    BY <1>1, PaperAssumption DEF IsTaken
  <2>6. ASSUME g.uid # Nothing, "wrong_sheet" \notin g.flags,
               g.uid \in Pupils, pile.generation \notin altered
        PROVE  /\ slot = g.photo.page
               /\ p = g.uid => AreTold(g.photo, page.rows)
    <3>1. g.slot = g.photo.page /\ g.uid = g.photo.pupil
          /\ g.photo.generation = pile.generation
      BY <2>6 DEF IsOnItsPaper, OnPaper
    <3>2. g.photo.page # Nothing
      <4>1. g.photo.page \in 1 .. 16
        BY <2>5 DEF Photos
      <4> QED
        BY <4>1, PagesAreSomething
    <3>3. slot = g.photo.page
      BY <2>2, <3>1, <3>2
    <3>4. ASSUME p = g.uid PROVE AreTold(g.photo, page.rows)
      <4>1. Today \in Papers /\ Today.plan = plan /\ Today.edition = edition
        BY TodayType DEF PaperInv, Today
      <4>2. pile.generation \in 1 .. generation
        BY DEF PaperInv, PileOK, SheetOK
      <4>3. /\ slot \in DOMAIN Copy(p, Today)
            /\ PrintedRows(g.photo) = Copy(p, Today)[slot]
        BY <1>1, <2>6, <3>1, <3>3, <3>4, <4>1, <4>2, SameCopy DEF PaperInv
      <4>4. rows = PrintedRows(g.photo)
        BY <2>2, <4>3
      <4>5. PaperOf(g.photo) \in Papers
        BY <1>1, PaperOfType DEF PaperInv
      <4>6. /\ pile.generation \in DOMAIN printed /\ pile.generation # 0
            /\ g.photo.page \in DOMAIN Copy(g.photo.pupil, PaperOf(g.photo))
        <5>1. generation \in Nat /\ DOMAIN printed = 1 .. generation
          BY DEF PaperInv, SheetOK
        <5> QED
          BY <1>1, <2>6, <3>1, <4>2, <5>1 DEF IsTaken, IsPrinted
      <4> PICK photo : photo = g.photo
        OBVIOUS
      <4>7. /\ p = photo.pupil /\ slot = photo.page
            /\ read = ReadAgainst(photo, photo.pupil, rows, photo.page, Today)
        <5>1. p = photo.pupil /\ slot = photo.page
          BY <3>1, <3>3, <3>4
        <5>2. read = ReadAgainst(photo, p, rows, slot, Today)
          BY <2>2
        <5> QED
          BY <5>1, <5>2
      <4>8. /\ photo \in Photos /\ PaperOf(photo) \in Papers /\ photo.pupil \in Pupils
            /\ photo.page \in DOMAIN Copy(photo.pupil, PaperOf(photo))
            /\ photo.generation = pile.generation
        BY <2>5, <3>1, <4>5, <4>6, <4>7
      <4>9. rows \in Seq(Lines) /\ Len(rows) <= ItemsPerPage
            /\ rows = PrintedRows(photo)
        BY <2>2, <4>4
      <4> HIDE DEF g
      <4>10. AreTold(photo, read)
        BY <4>1, <4>6, <4>7, <4>8, <4>9, ReadAgainstWhatWasPrinted
      <4> QED
        BY <2>3, <2>4, <4>10 DEF g
    <3> QED
      BY <3>3, <3>4
  <2>7. IsOnItsPaper(g)
    OBVIOUS
  <2> HIDE DEF g
  <2> QED
    BY <1>3, <2>3, <2>4, <2>5, <2>6, <2>7 DEF IsOnItsPaper, OnPaper, AreTold
<1> QED
  BY <1>4, <1>5, <1>6, <1>7

\* Pages that were there stay so: their photographs show what they showed, and
\* the sheet is no less altered.
LEMMA OldPagesStay ==
    ASSUME PaperInv, PaperIsRead, pile.layout = "v2",
           pile'.generation = pile.generation,
           altered \subseteq altered',
           \A photo : IsTaken(photo) => PaperOf(photo)' = PaperOf(photo),
           NEW j \in DOMAIN pages', NEW k \in DOMAIN pages,
           IsFlagged(pages[k], pages'[j])
    PROVE  OnPaper(pages'[j], PrintedRows(pages[k].photo),
                   PaperOf(pages[k].photo).edition, pile'.generation, altered')
<1> PICK g : g = pages[k]
  OBVIOUS
<1> PICK h : h = pages'[j]
  OBVIOUS
<1>1. /\ h.photo = g.photo /\ h.uid = g.uid /\ h.student = g.student
      /\ h.slot = g.slot /\ h.rows = g.rows
      /\ "wrong_sheet" \in g.flags => "wrong_sheet" \in h.flags
  BY DEF IsFlagged
<1> PICK d : d = PaperOf(g.photo).edition
  OBVIOUS
<1>2. OnPaper(g, PrintedRows(g.photo), d, pile.generation, altered)
  BY DEF PaperIsRead, IsOnItsPaper
<1>3. OnPaper(h, PrintedRows(g.photo), d, pile.generation, altered')
  BY <1>1, <1>2 DEF OnPaper
<1> QED
  BY <1>3

\* A photograph shows the same rows, in the same words, when its paper is the
\* same.
LEMMA SameRows ==
    ASSUME NEW photo, PaperOf(photo)' = PaperOf(photo),
           NEW j, pages'[j].photo = photo
    PROVE  /\ (PrintedRows(pages[j].photo))' = PrintedRows(photo)
           /\ (PaperOf(pages[j].photo).edition)' = PaperOf(photo).edition
<1> PICK paper : paper = PaperOf(photo)
  OBVIOUS
<1>1. (PaperOf(pages[j].photo))' = paper
  BY DEF PaperOf
<1>2. PrintedRows(photo) =
        IF photo.pupil \in Strangers THEN <<>>
        ELSE IF photo.page \in DOMAIN Copy(photo.pupil, paper)
             THEN Copy(photo.pupil, paper)[photo.page] ELSE <<>>
  BY DEF PrintedRows
<1>3. (PrintedRows(pages[j].photo))' =
        IF photo.pupil \in Strangers THEN <<>>
        ELSE IF photo.page \in DOMAIN Copy(photo.pupil, paper)
             THEN Copy(photo.pupil, paper)[photo.page] ELSE <<>>
  BY <1>1 DEF PrintedRows, Copy
<1> QED
  BY <1>1, <1>2, <1>3

\* So a step keeps PaperIsRead when each page is an old one, or is on its paper.
LEMMA PagesStayRead ==
    ASSUME PaperInv, PaperIsRead, pile'.layout = pile.layout,
           pile'.generation = pile.generation, altered \subseteq altered',
           \A photo : IsTaken(photo) => PaperOf(photo)' = PaperOf(photo),
           \A j \in DOMAIN pages' :
             \/ \E k \in DOMAIN pages : IsFlagged(pages[k], pages'[j])
             \/ /\ IsTaken(pages'[j].photo)
                /\ pile.layout = "v2" => IsOnItsPaper(pages'[j])
    PROVE  PaperIsRead'
<1> SUFFICES ASSUME pile.layout = "v2", NEW j \in DOMAIN pages'
             PROVE  (IsOnItsPaper(pages[j]))'
  BY DEF PaperIsRead
<1> PICK h : h = pages'[j]
  OBVIOUS
<1>1. (IsOnItsPaper(pages[j]))' <=>
        OnPaper(h, (PrintedRows(pages[j].photo))', (PaperOf(pages[j].photo).edition)',
                pile'.generation, altered')
  BY DEF IsOnItsPaper, OnPaper, CorrectionsSaySo, AllTold, Told, IsLeftBlank, Asked,
         Seen, Shown, Marked
<1>2. ASSUME NEW k \in DOMAIN pages, IsFlagged(pages[k], pages'[j])
      PROVE  (IsOnItsPaper(pages[j]))'
  <2> PICK photo : photo = pages[k].photo
    OBVIOUS
  <2>1. pages'[j].photo = photo /\ IsTaken(photo)
    BY <1>2 DEF IsFlagged, PaperInv, PagesOK
  <2>2. /\ (PrintedRows(pages[j].photo))' = PrintedRows(photo)
        /\ (PaperOf(pages[j].photo).edition)' = PaperOf(photo).edition
    BY <2>1, SameRows
  <2>3. OnPaper(h, PrintedRows(photo), PaperOf(photo).edition,
                pile'.generation, altered')
    BY <1>2, OldPagesStay
  <2> QED
    BY <1>1, <2>2, <2>3
<1>3. ASSUME IsTaken(pages'[j].photo), IsOnItsPaper(pages'[j])
      PROVE  (IsOnItsPaper(pages[j]))'
  <2> PICK photo : photo = pages'[j].photo
    OBVIOUS
  <2>1. IsTaken(photo)
    BY <1>3
  <2>2. /\ (PrintedRows(pages[j].photo))' = PrintedRows(photo)
        /\ (PaperOf(pages[j].photo).edition)' = PaperOf(photo).edition
    BY <2>1, SameRows
  <2>3. OnPaper(h, PrintedRows(photo), PaperOf(photo).edition,
                pile.generation, altered)
    BY <1>3 DEF IsOnItsPaper
  <2>4. OnPaper(h, PrintedRows(photo), PaperOf(photo).edition,
                pile.generation, altered')
    BY <2>3 DEF OnPaper
  <2> QED
    BY <1>1, <2>2, <2>4
<1> QED
  BY <1>2, <1>3

\* The layout and the render of a pile stay what its upload pinned.
LEMMA PilePinned ==
    ASSUME PaperInv, AppendPages \/ BeginReading \/ ReadPage \/ EndReading
    PROVE  pile'.layout = pile.layout /\ pile'.generation = pile.generation
<1>1. pile \in PileRecords
  BY DEF PaperInv, PileOK
<1>2. CASE AppendPages
  <2> PICK photos : pile' = Joined(photos)
    BY <1>2 DEF AppendPages
  <2> QED
    BY <1>1 DEF Joined, PileRecords
<1>3. CASE BeginReading
  <2> DEFINE stage == IF Printable(Today) THEN "reading" ELSE "failed"
             seen == [p \in Pupils |->
                        IF ~pile.retaken THEN 0
                        ELSE Cardinality({k \in DOMAIN pages :
                                            InPile(k) /\ pages[k].uid = p})]
  <2>1. pile' = [pile EXCEPT !.stage = stage, !.basis = Today, !.seen = seen]
    BY <1>3 DEF BeginReading
  <2> HIDE DEF stage, seen
  <2> QED
    BY <1>1, <2>1 DEF PileRecords
<1>4. CASE ReadPage
  <2> PICK p, copy : pile' = Counted(p, copy)
    BY <1>4 DEF ReadPage
  <2> QED
    BY <1>1 DEF Counted, PileRecords
<1>5. CASE EndReading
  <2> DEFINE seen == [p \in Pupils |-> 0]
  <2>1. pile' = [pile EXCEPT !.stage = "review", !.basis = Nothing, !.seen = seen]
    BY <1>5 DEF EndReading
  <2> HIDE DEF seen
  <2> QED
    BY <1>1, <2>1 DEF PileRecords
<1> QED
  BY <1>2, <1>3, <1>4, <1>5

LEMMA PaperReadKept ==
    ASSUME PaperInv, PaperIsRead, [Next]_vars
    PROVE  PaperIsRead'
<1>1. \A k \in DOMAIN pages : IsFlagged(pages[k], pages[k])
  BY DEF PaperInv, PagesOK, IsFlagged
<1>2. CASE Render \/ ReplaceItems \/ EditStatement
  <2>1. pile' = pile /\ pages' = pages /\ altered \subseteq altered'
    BY <1>2 DEF Render, ReplaceItems, EditStatement, Alter
  <2>2. \A photo : IsTaken(photo) => PaperOf(photo)' = PaperOf(photo)
    BY <1>2, PaperStays DEF PaperInv
  <2>3. \A j \in DOMAIN pages' : \E k \in DOMAIN pages : IsFlagged(pages[k], pages'[j])
    BY <1>1, <2>1
  <2> QED
    BY <2>1, <2>2, <2>3, PagesStayRead
<1>3. CASE Upload
  <2>1. pages = <<>> /\ pages' = pages
    BY <1>3 DEF Upload, PaperInv, PileOK
  <2> QED
    BY <2>1 DEF PaperIsRead
<1>4. ASSUME UNCHANGED <<sheet, altered>>
      PROVE  altered \subseteq altered'
             /\ \A photo : IsTaken(photo) => PaperOf(photo)' = PaperOf(photo)
  BY <1>4, SheetStays
<1>5. CASE AppendPages \/ BeginReading
  <2>1. UNCHANGED <<sheet, altered>> /\ pages' = pages
    BY <1>5 DEF AppendPages, BeginReading
  <2>2. \A j \in DOMAIN pages' : \E k \in DOMAIN pages : IsFlagged(pages[k], pages'[j])
    BY <1>1, <2>1
  <2> QED
    BY <1>4, <1>5, <2>1, <2>2, PilePinned, PagesStayRead
<1>6. CASE ReadPage
  <2> PICK photo, code, p, copy, slot, page :
        /\ IsFiled(photo, code, p, copy, slot, page)
        /\ pages' = Append(pages, page)
    BY <1>6, OnePageIsRead
  <2>1. UNCHANGED <<sheet, altered>> /\ pile.stage = "reading"
    BY <1>6 DEF ReadPage
  <2>2. IsTaken(page.photo) /\ page \in PageRows
    BY DEF IsFiled, PageRow
  <2>3. pile.layout = "v2" => IsOnItsPaper(page)
    BY <2>1, FiledOnItsPaper
  <2>4. pages \in Seq(PageRows)
    BY DEF PaperInv, PagesOK
  <2>5. /\ DOMAIN pages' = 1 .. Len(pages) + 1 /\ Len(pages) \in Nat
        /\ \A k \in 1 .. Len(pages) : pages'[k] = pages[k]
        /\ pages'[Len(pages) + 1] = page /\ DOMAIN pages = 1 .. Len(pages)
    BY <2>2, <2>4, AppendProperties
  <2>6. ASSUME NEW j \in DOMAIN pages'
        PROVE  \/ \E k \in DOMAIN pages : IsFlagged(pages[k], pages'[j])
               \/ /\ IsTaken(pages'[j].photo)
                  /\ pile.layout = "v2" => IsOnItsPaper(pages'[j])
    <3>1. j \in DOMAIN pages \/ j = Len(pages) + 1
      BY <2>5
    <3>2. CASE j \in DOMAIN pages
      BY <1>1, <2>5, <3>2
    <3>3. CASE j = Len(pages) + 1
      BY <2>2, <2>3, <2>5, <3>3
    <3> QED
      BY <3>1, <3>2, <3>3
  <2> QED
    BY <1>4, <1>6, <2>1, <2>6, PilePinned, PagesStayRead
<1>7. CASE EndReading
  <2>1. UNCHANGED <<sheet, altered>>
    BY <1>7 DEF EndReading
  <2>2. \A j \in DOMAIN pages' : \E k \in DOMAIN pages : IsFlagged(pages[k], pages'[j])
    BY <1>7, EndingFlags
  <2> QED
    BY <1>4, <1>7, <2>1, <2>2, PilePinned, PagesStayRead
<1>8. ASSUME NEW k \in DOMAIN pages, Review(k) PROVE PaperIsRead'
  <2>1. UNCHANGED <<sheet, altered>> /\ pile' = pile /\ pile.stage = "review"
    BY <1>8 DEF Review, CorrectDetection, SetPageDiscarded, AssignPageStudent
  <2> PICK page :
        /\ DOMAIN pages' = DOMAIN pages
        /\ IsFlagged(page, pages'[k])
        /\ \A l \in DOMAIN pages : l # k => IsFlagged(pages[l], pages'[l])
        /\ \/ Corrects(k, page) \/ Moves(k, page)
           \/ Names(k, page) \/ ReadsAgain(k, page)
    BY <1>8, ReviewedPages
  <2>2. IsTaken(page.photo)
    BY ReviewedType DEF PaperInv, PagesOK
  <2>3. pile.layout = "v2" => IsOnItsPaper(page)
    BY <2>1, ReviewedOnItsPaper DEF PaperIsRead
  <2>4. /\ IsTaken(pages'[k].photo)
        /\ pile.layout = "v2" => IsOnItsPaper(pages'[k])
    BY <2>2, <2>3 DEF IsFlagged, IsOnItsPaper, OnPaper
  <2>5. \A j \in DOMAIN pages' :
          \/ \E l \in DOMAIN pages : IsFlagged(pages[l], pages'[j])
          \/ /\ IsTaken(pages'[j].photo)
             /\ pile.layout = "v2" => IsOnItsPaper(pages'[j])
    BY <2>4
  <2> QED
    BY <1>4, <2>1, <2>5, PagesStayRead
<1>9. CASE UNCHANGED vars
  <2>1. UNCHANGED <<sheet, altered>> /\ pile' = pile /\ pages' = pages
    BY <1>9 DEF vars
  <2>2. \A j \in DOMAIN pages' : \E k \in DOMAIN pages : IsFlagged(pages[k], pages'[j])
    BY <1>1, <2>1
  <2> QED
    BY <1>4, <2>1, <2>2, PagesStayRead
<1> QED
  BY <1>2, <1>3, <1>5, <1>6, <1>7, <1>8, <1>9 DEF Next

LEMMA PapersAreRead == Spec => [](PaperInv /\ PaperIsRead)
<1>1. Init => PaperIsRead
  BY DEF Init, PaperIsRead
<1>2. PaperInv /\ PaperIsRead /\ [Next]_vars => PaperIsRead'
  BY PaperReadKept
<1>3. Spec => []PaperInv
  BY Invariance
<1> QED
  BY <1>1, <1>2, <1>3, PTL DEF Spec

\* The rows of a page the system answers for say what is so.  They are none on
\* a page of another class.
LEMMA AnswerableIsTold ==
    ASSUME PaperInv, PaperIsRead, NEW k \in DOMAIN pages, Answerable(pages[k]),
           pages[k].rows # {} \/ pages[k].student \in Pupils
    PROVE  /\ pages[k].uid \in Pupils
           /\ AreTold(pages[k].photo, pages[k].rows)
<1> PICK g : g = pages[k]
  OBVIOUS
<1>1. /\ IsOnItsPaper(g) /\ g.uid # Nothing /\ "wrong_sheet" \notin g.flags
      /\ g.student = g.photo.pupil /\ pile.generation \notin altered
  BY DEF PaperIsRead, Answerable
<1>2. g.uid \in Somebody \union {Nothing}
  <2>1. g \in PageRows
    BY DEF PaperInv, PagesOK
  <2> QED
    BY <2>1 DEF PageRows
<1>3. g.uid = g.student /\ g.uid \in Pupils
  BY <1>1, <1>2 DEF IsOnItsPaper, OnPaper, Somebody
<1> QED
  BY <1>1, <1>3 DEF IsOnItsPaper, OnPaper, AreTold

\* What the system takes for an answer is one (scan_processing.py, "which is how
\* a detection is paired with the question the student actually answered"): for
\* every class, every item plan and ink, whatever order the pages come in, with
\* retakes, duplicates, misread codes and everything a teacher does to a pile.
THEOREM AnswersAreRight == Spec => []AnswersAreTrue
<1> SUFFICES ASSUME PaperInv, PaperIsRead PROVE AnswersAreTrue
  BY PapersAreRead, PTL
<1>1. ASSUME NEW k \in DOMAIN pages, NEW x \in pages[k].rows, Answerable(pages[k])
      PROVE  Told(PrintedRows(pages[k].photo), PaperOf(pages[k].photo).edition,
                  pages[k].photo, x)
  <2>1. AreTold(pages[k].photo, pages[k].rows)
    BY <1>1, AnswerableIsTold
  <2> QED
    BY <2>1 DEF AreTold, AllTold
<1>2. MarksFindTheirQuestion
  BY <1>1 DEF MarksFindTheirQuestion, Told
<1>3. SureMarksAreTrue
  BY <1>1 DEF SureMarksAreTrue, Told
<1> QED
  BY <1>2, <1>3 DEF AnswersAreTrue

-----------------------------------------------------------------------------
(* Every answer is read                                                    *)

\* What has been printed could be.
PrintedOK == \A g \in DOMAIN printed : Printable(printed[g])

LEMMA PrintedKept ==
    ASSUME PaperInv, PrintedOK, [Next]_vars
    PROVE  PrintedOK'
<1>1. CASE Render
  <2> PICK now : now = Rendered
    OBVIOUS
  <2>1. /\ printed' = [g \in 1 .. generation + 1 |->
                         IF g = generation + 1 THEN now ELSE printed[g]]
        /\ Printable(now)
    BY <1>1 DEF Render
  <2>2. generation \in Nat /\ DOMAIN printed = 1 .. generation
    BY PaperAssumption DEF PaperInv, SheetOK
  <2>3. ASSUME NEW g \in DOMAIN printed' PROVE Printable(printed'[g])
    <3>1. printed'[g] = now \/ (g \in DOMAIN printed /\ printed'[g] = printed[g])
      BY <2>1, <2>2
    <3> QED
      BY <2>1, <3>1 DEF PrintedOK
  <2> QED
    BY <2>3 DEF PrintedOK, Printable, Copy
<1>2. ASSUME printed' = printed PROVE PrintedOK'
  BY <1>2 DEF PrintedOK, Printable, Copy
<1>3. CASE ReplaceItems \/ EditStatement
  BY <1>2, <1>3 DEF ReplaceItems, EditStatement
<1>4. CASE Upload \/ AppendPages \/ BeginReading \/ ReadPage \/ EndReading
  BY <1>2, <1>4 DEF Upload, AppendPages, BeginReading, ReadPage, EndReading, sheet
<1>5. ASSUME NEW k \in DOMAIN pages, Review(k) PROVE PrintedOK'
  BY <1>2, <1>5 DEF Review, CorrectDetection, SetPageDiscarded, AssignPageStudent, sheet
<1>6. CASE UNCHANGED vars
  BY <1>2, <1>6 DEF vars, sheet
<1> QED
  BY <1>1, <1>3, <1>4, <1>5, <1>6 DEF Next

LEMMA PrintedIsPrintable == Spec => []PrintedOK
<1>1. Init => PrintedOK
  <2> SUFFICES ASSUME Init PROVE PrintedOK
    OBVIOUS
  <2> PICK now : now = Today
    OBVIOUS
  <2>1. printed = [g \in {1} |-> now] /\ Printable(now)
    BY DEF Init
  <2> QED
    BY <2>1 DEF PrintedOK
<1>2. PaperInv /\ PrintedOK /\ [Next]_vars => PrintedOK'
  BY PrintedKept
<1>3. Spec => []PaperInv
  BY Invariance
<1> QED
  BY <1>1, <1>2, <1>3, PTL DEF Spec

\* Where a copy asks for an answer: at the line of an item, or at its box.
AnswerPlaces(copy) == {a \in Places(copy) : LineAt(copy, a).part # "statement"}

\* Every item of the list has one such place, split or not.
LEMMA AnswersHaveOnePlace ==
    ASSUME NEW list \in Seq(Exercises), NEW copy, FitsItsPages(list, copy)
    PROVE  /\ \A a \in AnswerPlaces(copy) :
                /\ LineAt(copy, a).number \in DOMAIN list
                /\ LineAt(copy, a).key = list[LineAt(copy, a).number]
           /\ \A a, b \in AnswerPlaces(copy) :
                LineAt(copy, a).number = LineAt(copy, b).number => a = b
           /\ \A m \in DOMAIN list : \E a \in AnswerPlaces(copy) :
                LineAt(copy, a).number = m
<1> DEFINE at(a) == LineAt(copy, a)
           above(a) == <<a[1] - 1, Len(copy[a[1] - 1])>>
           below(a) == <<a[1] + 1, 1>>
<1>1. copy \in Seq(Seq(Lines)) /\ PrintsTheList(list, copy) /\ HoldsItsPages(copy)
  BY DEF FitsItsPages, IsACopy
<1>2. /\ DOMAIN copy = 1 .. Len(copy) /\ Len(copy) \in Nat
      /\ \A n \in DOMAIN copy : /\ copy[n] \in Seq(Lines)
                                /\ DOMAIN copy[n] = 1 .. Len(copy[n])
                                /\ Len(copy[n]) \in Nat
  BY <1>1
<1>3. ASSUME NEW n \in DOMAIN copy, NEW r \in DOMAIN copy[n]
      PROVE  /\ <<n, r>> \in Places(copy) /\ at(<<n, r>>) = copy[n][r]
             /\ copy[n][r] \in Lines
  BY <1>2, PlacesAre DEF LineAt
<1>4. ASSUME NEW a \in Places(copy)
      PROVE  /\ a = <<a[1], a[2]>> /\ a[1] \in DOMAIN copy /\ a[2] \in DOMAIN copy[a[1]]
             /\ at(a) = copy[a[1]][a[2]]
             /\ at(a).number \in Nat /\ at(a).part \in {"whole", "statement", "box"}
  <2> PICK n \in DOMAIN copy : \E r \in DOMAIN copy[n] : a = <<n, r>>
    BY PlacesAre
  <2> PICK r \in DOMAIN copy[n] : a = <<n, r>>
    OBVIOUS
  <2>1. copy[n][r] \in Lines
    BY <1>3
  <2> QED
    BY <2>1 DEF LineAt, Lines
<1>5. /\ {at(a).number : a \in Begun(copy)} = DOMAIN list
      /\ \A a, b \in Begun(copy) : Precedes(a, b) => at(a).number < at(b).number
      /\ \A a \in Places(copy) : at(a).key = list[at(a).number]
  BY <1>1 DEF PrintsTheList, Begun, LineAt
<1>6. \A a \in Begun(copy) : a \in Places(copy) /\ at(a).part # "box"
  BY DEF Begun
<1>7. ASSUME NEW a \in Begun(copy), NEW b \in Begun(copy), at(a).number = at(b).number
      PROVE  a = b
  <2>1. ~Precedes(a, b) /\ ~Precedes(b, a)
    <3>1. at(a).number \in Nat /\ at(b).number \in Nat
      BY <1>4, <1>6
    <3> QED
      BY <1>5, <1>7, <3>1
  <2>2. /\ a = <<a[1], a[2]>> /\ b = <<b[1], b[2]>>
        /\ a[1] \in Nat /\ a[2] \in Nat /\ b[1] \in Nat /\ b[2] \in Nat
    BY <1>2, <1>4, <1>6
  <2>3. a[1] = b[1] /\ a[2] = b[2]
    BY <2>1, <2>2 DEF Precedes
  <2> QED
    BY <2>2, <2>3
<1>8. \A a \in AnswerPlaces(copy) : a \in Places(copy) /\ at(a).part # "statement"
  BY DEF AnswerPlaces
<1>9. ASSUME NEW a \in AnswerPlaces(copy), at(a).part = "box"
      PROVE  /\ a[2] = 1 /\ above(a) \in Begun(copy)
             /\ at(above(a)).part = "statement"
             /\ at(above(a)).number = at(a).number
  <2> PICK n, r : n = a[1] /\ r = a[2]
    OBVIOUS
  <2>1. n \in DOMAIN copy /\ r \in DOMAIN copy[n] /\ at(a) = copy[n][r]
    BY <1>4, <1>8
  <2>2. r = 1 /\ IsSplit(copy, n - 1, copy[n][r].number)
    BY <1>1, <1>9, <2>1 DEF HoldsItsPages
  <2> PICK m, s : m = n - 1 /\ s = Len(copy[m])
    OBVIOUS
  <2>3. /\ m \in DOMAIN copy /\ copy[m] # <<>>
        /\ copy[m][s].part = "statement" /\ copy[m][s].number = copy[n][r].number
    BY <2>2 DEF IsSplit
  <2>4. s \in DOMAIN copy[m]
    <3>1. copy[m] \in Seq(Lines)
      BY <1>2, <2>3
    <3>2. Len(copy[m]) # 0
      BY <2>3, <3>1, EmptySeq
    <3> QED
      BY <3>1, <3>2
  <2>5. <<m, s>> \in Places(copy) /\ at(<<m, s>>) = copy[m][s]
    BY <1>3, <2>3, <2>4
  <2>6. <<m, s>> \in Begun(copy)
    BY <2>3, <2>5 DEF Begun
  <2> QED
    BY <2>1, <2>2, <2>3, <2>5, <2>6
<1>10. ASSUME NEW a \in Begun(copy), at(a).part = "statement"
       PROVE  below(a) \in AnswerPlaces(copy) /\ at(below(a)).number = at(a).number
  <2> PICK n, r : n = a[1] /\ r = a[2]
    OBVIOUS
  <2>1. n \in DOMAIN copy /\ r \in DOMAIN copy[n] /\ at(a) = copy[n][r]
    BY <1>4, <1>6
  <2>2. IsSplit(copy, n, copy[n][r].number)
    BY <1>1, <1>10, <2>1 DEF HoldsItsPages
  <2> PICK m : m = n + 1
    OBVIOUS
  <2>3. /\ m \in DOMAIN copy /\ copy[m] # <<>>
        /\ copy[m][1].part = "box" /\ copy[m][1].number = copy[n][r].number
    BY <2>2 DEF IsSplit
  <2>4. 1 \in DOMAIN copy[m]
    <3>1. copy[m] \in Seq(Lines)
      BY <1>2, <2>3
    <3>2. Len(copy[m]) # 0
      BY <2>3, <3>1, EmptySeq
    <3> QED
      BY <3>1, <3>2
  <2>5. <<m, 1>> \in Places(copy) /\ at(<<m, 1>>) = copy[m][1]
    BY <1>3, <2>3, <2>4
  <2>6. <<m, 1>> \in AnswerPlaces(copy)
    BY <2>3, <2>5 DEF AnswerPlaces
  <2> QED
    BY <2>1, <2>3, <2>5, <2>6
<1>11. ASSUME NEW a \in AnswerPlaces(copy), at(a).part # "box" PROVE a \in Begun(copy)
  BY <1>8, <1>11 DEF Begun
<1> HIDE DEF at
<1>12. ASSUME NEW a \in AnswerPlaces(copy)
       PROVE  at(a).number \in DOMAIN list /\ at(a).key = list[at(a).number]
  <2>1. at(a).number \in DOMAIN list
    <3>1. \E b \in Begun(copy) : at(b).number = at(a).number
      BY <1>9, <1>11
    <3> QED
      BY <1>5, <3>1
  <2> QED
    BY <1>5, <1>8, <2>1
<1>13. ASSUME NEW a \in AnswerPlaces(copy), NEW b \in AnswerPlaces(copy),
              at(a).number = at(b).number
       PROVE  a = b
  <2>1. CASE at(a).part # "box" /\ at(b).part # "box"
    BY <1>7, <1>11, <1>13, <2>1
  <2>2. CASE at(a).part = "box" /\ at(b).part # "box"
    <3>1. above(a) \in Begun(copy) /\ at(above(a)).number = at(a).number
          /\ at(above(a)).part = "statement"
      BY <1>9, <2>2
    <3>2. above(a) = b
      BY <1>7, <1>11, <1>13, <2>2, <3>1
    <3> QED
      BY <1>8, <3>1, <3>2
  <2>3. CASE at(a).part # "box" /\ at(b).part = "box"
    <3>1. above(b) \in Begun(copy) /\ at(above(b)).number = at(b).number
          /\ at(above(b)).part = "statement"
      BY <1>9, <2>3
    <3>2. above(b) = a
      BY <1>7, <1>11, <1>13, <2>3, <3>1
    <3> QED
      BY <1>8, <3>1, <3>2
  <2>4. CASE at(a).part = "box" /\ at(b).part = "box"
    <3>1. /\ above(a) \in Begun(copy) /\ above(b) \in Begun(copy)
          /\ at(above(a)).number = at(a).number /\ at(above(b)).number = at(b).number
          /\ a[2] = 1 /\ b[2] = 1
      BY <1>9, <2>4
    <3>2. above(a) = above(b)
      BY <1>7, <1>13, <3>1
    <3>3. a = <<a[1], a[2]>> /\ b = <<b[1], b[2]>> /\ a[1] \in Nat /\ b[1] \in Nat
      BY <1>2, <1>4, <1>8
    <3>4. a[1] - 1 = b[1] - 1
      BY <3>2
    <3>5. a[1] = b[1]
      BY <3>3, <3>4
    <3> QED
      BY <3>1, <3>3, <3>5
  <2> QED
    BY <2>1, <2>2, <2>3, <2>4
<1>14. ASSUME NEW m \in DOMAIN list
       PROVE  \E a \in AnswerPlaces(copy) : at(a).number = m
  <2> PICK b \in Begun(copy) : at(b).number = m
    BY <1>5
  <2>1. CASE at(b).part = "statement"
    BY <1>10, <2>1
  <2>2. CASE at(b).part # "statement"
    <3>1. b \in AnswerPlaces(copy)
      BY <1>6, <2>2 DEF AnswerPlaces, at
    <3> QED
      BY <3>1
  <2> QED
    BY <2>1, <2>2
<1> QED
  BY <1>12, <1>13, <1>14 DEF at

\* The pages of a copy, each of its slots once.
MakeUp(own, copy, d) ==
    /\ IsFiniteSet(own) /\ Cardinality(own) = Len(copy)
    /\ {pages[k].slot : k \in own} = DOMAIN copy
    /\ \A k \in own :
         AllTold(copy[pages[k].slot], d, pages[k].photo, pages[k].rows)

\* No two of them are of one slot.
LEMMA SlotsDiffer ==
    ASSUME NEW copy \in Seq(Seq(Lines)), NEW d, NEW own, MakeUp(own, copy, d),
           NEW k \in own, NEW l \in own, pages[k].slot = pages[l].slot
    PROVE  k = l
<1> PICK f : f = [j \in own |-> pages[j].slot]
  OBVIOUS
<1>1. f \in [own -> DOMAIN copy] /\ \A n \in DOMAIN copy : \E j \in own : f[j] = n
  BY DEF MakeUp
<1>2. f \in Surjection(own, DOMAIN copy)
  BY <1>1, Fun_IsSurj
<1>3. Cardinality(DOMAIN copy) = Cardinality(own) /\ IsFiniteSet(own)
  <2>1. DOMAIN copy = 1 .. Len(copy) /\ Len(copy) \in Nat
    OBVIOUS
  <2>2. Cardinality(1 .. Len(copy)) = Len(copy)
    <3> PICK n \in Nat : n = Len(copy)
      BY <2>1, Zenon
    <3>1. n \in Int /\ 1 \in Int
      OBVIOUS
    <3>2. Cardinality(1 .. n) = IF 1 > n THEN 0 ELSE n - 1 + 1
      BY <3>1, FS_Interval
    <3> QED
      BY <3>2
  <2> QED
    BY <2>1, <2>2 DEF MakeUp
<1>4. f \in Injection(own, DOMAIN copy)
  BY <1>2, <1>3, FS_SurjSameCardinalityImpliesInj
<1>5. f[k] = f[l] /\ DOMAIN f = own
  BY <1>1
<1> QED
  BY <1>4, <1>5 DEF Injection, IsInjective

\* The pages of a copy read each exercise as often as its list asks it.
LEMMA ReadingsAreCounted ==
    ASSUME NEW list \in Seq(Exercises), NEW copy, FitsItsPages(list, copy),
           NEW d, NEW own, MakeUp(own, copy, d), NEW e
    PROVE  Cardinality(ReadingsOf(own, e)) = Cardinality(AskedAt(list, e))
<1> DEFINE place(r) == <<pages[r[1]].slot, r[2].row>>
           number(r) == LineAt(copy, place(r)).number
<1>1. copy \in Seq(Seq(Lines))
  BY DEF FitsItsPages, IsACopy
<1>2. ASSUME NEW k \in own, NEW x \in pages[k].rows
      PROVE  LET a == <<pages[k].slot, x.row>>
             IN a \in AnswerPlaces(copy) /\ LineAt(copy, a).key = x.exercise
  <2>1. pages[k].slot \in DOMAIN copy
        /\ Told(copy[pages[k].slot], d, pages[k].photo, x)
    BY DEF MakeUp, AllTold
  <2>2. x.row \in DOMAIN copy[pages[k].slot]
    BY <2>1 DEF Told
  <2>3. <<pages[k].slot, x.row>> \in Places(copy)
    BY <2>1, <2>2, PlacesAre
  <2> QED
    BY <2>1, <2>3 DEF Told, AnswerPlaces, LineAt
<1>3. ASSUME NEW r \in ReadingsOf(own, e)
      PROVE  /\ r = <<r[1], r[2]>> /\ r[1] \in own /\ r[2] \in pages[r[1]].rows
             /\ r[2].exercise = e
  BY DEF ReadingsOf
<1>4. ASSUME NEW k \in own, NEW x \in pages[k].rows, x.exercise = e
      PROVE  <<k, x>> \in ReadingsOf(own, e)
  BY <1>4 DEF ReadingsOf
<1>5. ASSUME NEW r \in ReadingsOf(own, e)
      PROVE  place(r) \in AnswerPlaces(copy) /\ LineAt(copy, place(r)).key = e
  BY <1>2, <1>3
<1>6. ASSUME NEW r \in ReadingsOf(own, e), NEW s \in ReadingsOf(own, e),
             place(r) = place(s)
      PROVE  r = s
  <2>1. pages[r[1]].slot = pages[s[1]].slot /\ r[2].row = s[2].row
    BY <1>6
  <2>2. r[1] = s[1]
    BY <1>1, <1>3, <2>1, SlotsDiffer
  <2>3. r[2] = s[2]
    BY <1>3, <2>1, <2>2 DEF MakeUp, AllTold
  <2> QED
    BY <1>3, <2>2, <2>3
<1>7. ASSUME NEW a \in AnswerPlaces(copy), LineAt(copy, a).key = e
      PROVE  \E r \in ReadingsOf(own, e) : place(r) = a
  <2> PICK n \in DOMAIN copy : \E m \in DOMAIN copy[n] : a = <<n, m>>
    BY PlacesAre DEF AnswerPlaces
  <2> PICK m \in DOMAIN copy[n] : a = <<n, m>>
    OBVIOUS
  <2>1. copy[n][m].part # "statement" /\ copy[n][m].key = e
    BY <1>7 DEF AnswerPlaces, LineAt
  <2>2. PICK k \in own : pages[k].slot = n
    BY DEF MakeUp
  <2>3. PICK x \in pages[k].rows : x.row = m
    BY <2>1, <2>2 DEF MakeUp, AllTold
  <2>4. x.exercise = e
    BY <2>1, <2>2, <2>3 DEF MakeUp, AllTold, Told
  <2> QED
    BY <1>4, <2>2, <2>3, <2>4
<1> HIDE DEF place
<1>8. /\ \A r \in ReadingsOf(own, e) : number(r) \in AskedAt(list, e)
      /\ \A r, s \in ReadingsOf(own, e) : number(r) = number(s) => r = s
      /\ \A m \in AskedAt(list, e) : \E r \in ReadingsOf(own, e) : number(r) = m
  <2>1. ASSUME NEW r \in ReadingsOf(own, e) PROVE number(r) \in AskedAt(list, e)
    BY <1>5, AnswersHaveOnePlace DEF AskedAt
  <2>2. ASSUME NEW r \in ReadingsOf(own, e), NEW s \in ReadingsOf(own, e),
               number(r) = number(s)
        PROVE  r = s
    BY <1>5, <1>6, <2>2, AnswersHaveOnePlace
  <2>3. ASSUME NEW m \in AskedAt(list, e)
        PROVE  \E r \in ReadingsOf(own, e) : number(r) = m
    <3>1. m \in DOMAIN list /\ list[m] = e
      BY DEF AskedAt
    <3>2. PICK a \in AnswerPlaces(copy) : LineAt(copy, a).number = m
      BY <3>1, AnswersHaveOnePlace
    <3>3. LineAt(copy, a).key = e
      BY <3>1, <3>2, AnswersHaveOnePlace
    <3> QED
      BY <1>7, <3>2, <3>3
  <2> QED
    BY <2>1, <2>2, <2>3
<1> HIDE DEF number
<1> PICK S, T : S = ReadingsOf(own, e) /\ T = AskedAt(list, e)
  OBVIOUS
<1> PICK f : f = [r \in S |-> number(r)]
  OBVIOUS
<1>9. /\ f \in [S -> T] /\ \A r, s \in S : f[r] = f[s] => r = s
      /\ \A m \in T : \E r \in S : f[r] = m
  BY <1>8
<1>10. ExistsBijection(T, S)
  <2>1. f \in Bijection(S, T)
    BY <1>9, Fun_IsBij
  <2>2. ExistsBijection(S, T)
    BY <2>1 DEF ExistsBijection
  <2> QED
    BY <2>2, Fun_ExistsBijSymmetric
<1>11. IsFiniteSet(T)
  <2>1. DOMAIN list = 1 .. Len(list) /\ Len(list) \in Nat
    OBVIOUS
  <2>2. IsFiniteSet(1 .. Len(list))
    BY <2>1, FS_Interval
  <2>3. T \in SUBSET (1 .. Len(list))
    BY <2>1 DEF AskedAt
  <2> QED
    BY <2>2, <2>3, FS_Subset
<1>12. Cardinality(S) = Cardinality(T)
  BY <1>10, <1>11, FS_Bijection
<1> QED
  BY <1>12

\* When all of them are there they make up the copy that was printed.
LEMMA OwnPagesMakeUpTheCopy ==
    ASSUME PaperInv, PaperIsRead, PrintedOK, pile.stage = "review",
           NEW p \in Pupils, NEW paper, paper = printed[pile.generation],
           {pages[k].slot : k \in OwnPages(p)} = DOMAIN Copy(p, paper),
           Cardinality(OwnPages(p)) = Len(Copy(p, paper))
    PROVE  /\ paper \in Papers
           /\ FitsItsPages(ListOf[paper.plan][p], Copy(p, paper))
           /\ MakeUp(OwnPages(p), Copy(p, paper), paper.edition)
<1> DEFINE own == OwnPages(p)
           copy == Copy(p, paper)
<1>1. pile.generation \in 1 .. generation /\ DOMAIN printed = 1 .. generation
      /\ printed \in [1 .. generation -> Papers] /\ generation \in Nat
  BY DEF PaperInv, SheetOK, PileOK
<1>2. paper \in Papers /\ Printable(paper)
  BY <1>1 DEF PrintedOK
<1>3. FitsItsPages(ListOf[paper.plan][p], copy)
  <2>1. copy # TooTall
    BY <1>2 DEF Printable
  <2>2. paper.plan \in Plans /\ paper.edition \in Editions
    BY <1>2 DEF Papers
  <2> QED
    BY <2>1, <2>2, EveryCopyHolds DEF EveryCopyFits, Fits, Copy
<1>4. IsFiniteSet(own)
  <2>1. DOMAIN pages = 1 .. Len(pages) /\ Len(pages) \in Nat
    BY DEF PaperInv, PagesOK
  <2>2. IsFiniteSet(1 .. Len(pages))
    BY <2>1, FS_Interval
  <2>3. own \in SUBSET (1 .. Len(pages))
    BY <2>1 DEF OwnPages
  <2> QED
    BY <2>2, <2>3, FS_Subset
<1>5. ASSUME NEW k \in own
      PROVE  AllTold(copy[pages[k].slot], paper.edition, pages[k].photo, pages[k].rows)
  <2> PICK g : g = pages[k]
    OBVIOUS
  <2>1. k \in DOMAIN pages /\ Answerable(g) /\ g.student = p
    BY DEF OwnPages
  <2>2. g.uid \in Pupils /\ AreTold(g.photo, g.rows)
    BY <2>1, AnswerableIsTold
  <2>3. /\ IsOnItsPaper(g) /\ g.uid # Nothing /\ "wrong_sheet" \notin g.flags
        /\ g.student = g.photo.pupil /\ pile.generation \notin altered
        /\ IsTaken(g.photo)
    BY <2>1 DEF PaperIsRead, Answerable, PaperInv, PagesOK
  <2>4. /\ g.slot = g.photo.page /\ g.photo.generation = pile.generation
        /\ g.photo.pupil = p
    BY <2>1, <2>2, <2>3 DEF IsOnItsPaper, OnPaper
  <2>5. PaperOf(g.photo) = paper
    BY <1>1, <2>4 DEF PaperOf
  <2>6. g.photo.page \in DOMAIN copy /\ p \notin Strangers
    BY <2>3, <2>4, <2>5, PaperAssumption DEF IsTaken, IsPrinted
  <2>7. PrintedRows(g.photo) = copy[g.slot]
    BY <2>4, <2>5, <2>6 DEF PrintedRows
  <2> QED
    BY <2>2, <2>5, <2>7 DEF AreTold
<1> QED
  BY <1>2, <1>3, <1>4, <1>5 DEF MakeUp

\* What is not graded had neither bubbles nor a box.
LEMMA UngradedWasNotAsked ==
    ASSUME NEW copy, NEW d, NEW own, MakeUp(own, copy, d), NEW e,
           NEW r \in ReadingsOf(own, e), r[2].outcome = "not_gradeable"
    PROVE  ~PrintsBox(Says[d][e]) /\ OptionCount(Says[d][e]) = 0
<1> PICK k, x : k = r[1] /\ x = r[2]
  OBVIOUS
<1>1. k \in own /\ x \in pages[k].rows /\ x.exercise = e
  BY DEF ReadingsOf
<1>2. AllTold(copy[pages[k].slot], d, pages[k].photo, pages[k].rows)
  BY <1>1 DEF MakeUp
<1>3. Told(copy[pages[k].slot], d, pages[k].photo, x)
  BY <1>1, <1>2 DEF AllTold
<1>4. x.outcome = "not_gradeable"
  OBVIOUS
<1>5. ~PrintsBox(Says[d][x.exercise]) /\ OptionCount(Says[d][x.exercise]) = 0
  BY <1>3, <1>4, Zenon DEF Told
<1> QED
  BY <1>1, <1>5, Zenon

\* No answer is overlooked, and what is taken for blank is (scan_processing.py,
\* _copies_by_uid and _crop_written_boxes; detection.py): when the pages of a
\* copy are in, each of its questions has as many readings as the list asks it,
\* each of which can be graded if the pupil was given bubbles or a box; for every
\* class, list, wording, ink and photocopy, and all that may happen to a pile.
THEOREM NoAnswerIsOverlooked == Spec => []NoAnswerIsMissed
<1> SUFFICES ASSUME PaperInv, PaperIsRead, PrintedOK PROVE NoAnswerIsMissed
  BY PapersAreRead, PrintedIsPrintable, PTL
<1>1. EveryAnswerReadOnce
  <2> SUFFICES ASSUME pile.stage = "review", NEW p \in Pupils,
                      NEW paper, paper = printed[pile.generation],
                      {pages[k].slot : k \in OwnPages(p)} = DOMAIN Copy(p, paper),
                      Cardinality(OwnPages(p)) = Len(Copy(p, paper)),
                      NEW n \in DOMAIN ListOf[paper.plan][p]
               PROVE  LET e == ListOf[paper.plan][p][n]
                          i == Says[paper.edition][e]
                          read == ReadingsOf(OwnPages(p), e)
                      IN /\ Cardinality(read)
                              = Cardinality(AskedAt(ListOf[paper.plan][p], e))
                         /\ PrintsBox(i) \/ OptionCount(i) > 0 =>
                              \A r \in read : r[2].outcome # "not_gradeable"
    BY DEF EveryAnswerReadOnce
  <2> PICK list : list = ListOf[paper.plan][p]
    OBVIOUS
  <2> PICK e : e = list[n]
    OBVIOUS
  <2> PICK i : i = Says[paper.edition][e]
    OBVIOUS
  <2>1. /\ paper \in Papers /\ FitsItsPages(list, Copy(p, paper))
        /\ MakeUp(OwnPages(p), Copy(p, paper), paper.edition)
    BY OwnPagesMakeUpTheCopy
  <2>2. list \in Seq(Exercises)
    BY <2>1, PaperAssumption DEF Papers
  <2>3. Cardinality(ReadingsOf(OwnPages(p), e)) = Cardinality(AskedAt(list, e))
    BY <2>1, <2>2, ReadingsAreCounted
  <2>4. ASSUME PrintsBox(i) \/ OptionCount(i) > 0, NEW r \in ReadingsOf(OwnPages(p), e)
        PROVE  r[2].outcome # "not_gradeable"
    <3> SUFFICES ASSUME r[2].outcome = "not_gradeable" PROVE FALSE
      OBVIOUS
    <3>1. ~PrintsBox(i) /\ OptionCount(i) = 0
      BY <2>1, UngradedWasNotAsked, Zenon
    <3>2. ~(0 > 0)
      OBVIOUS
    <3> QED
      BY <2>4, <3>1, <3>2, Zenon
  <2>5. /\ Cardinality(ReadingsOf(OwnPages(p), e)) = Cardinality(AskedAt(list, e))
        /\ PrintsBox(i) \/ OptionCount(i) > 0 =>
             \A r \in ReadingsOf(OwnPages(p), e) : r[2].outcome # "not_gradeable"
    BY <2>3, <2>4, Zenon
  <2> QED
    BY <2>5, Zenon
<1>2. ASSUME NEW k \in DOMAIN pages, NEW x \in pages[k].rows, Answerable(pages[k]),
             ~x.corrected, x.outcome = "blank"
      PROVE  IsLeftBlank(pages[k].photo, PrintedRows(pages[k].photo), x)
  <2>1. AreTold(pages[k].photo, pages[k].rows)
    BY <1>2, AnswerableIsTold
  <2> QED
    BY <1>2, <2>1 DEF AreTold, AllTold, Told
<1>3. BlanksAreTrue
  BY <1>2 DEF BlanksAreTrue
<1> QED
  BY <1>1, <1>3 DEF NoAnswerIsMissed
==============================================================================
