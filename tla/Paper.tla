-------------------------------- MODULE Paper --------------------------------
(***************************************************************************)
(* What a mark on paper comes to mean: a sheet is printed, photographed    *)
(* and read back by services/scan_processing.py, which paginates the sheet *)
(* again to learn which question stands at which answer row of a page.     *)
(*                                                                         *)
(* The browser and the scanner are abstracted to what a photograph shows:  *)
(* the cells of the code with up to two of them misread, and the ink at    *)
(* the bubbles, which may have faded.  Reading commits page by page and    *)
(* ends with a sweep over the pile.                                        *)
(***************************************************************************)
EXTENDS Pagination, PrintedCodes, BubbleDetector

CONSTANTS
    Pupils,       \* of the class the sheet is for
    Strangers,    \* pupils of another class, who carry UIDs too
    UidRow,       \* UidRow[p]: the UID of a pupil
    Exercises,
    Editions,     \* the corpus as it is and as it may be edited to
    Says,         \* Says[d][e]: how an exercise prints in edition d
    Plans,        \* the item plans a teacher may give the copies
    ListOf,       \* ListOf[n][p]: the exercises of p's copy under plan n
    FirstEdition, FirstPlan,
    Layouts,      \* the layouts of the paper that is lying about
    Ink,          \* Ink[p][e]: what a pupil put into the bubbles of e
    Written,      \* Written[p]: the boxes a pupil wrote into
    Shots,        \* the photographs there may be: whose, which page, how good
    Uploads,      \* the sequences of shots of an upload
    Retakes,      \* those that may join a pile later
    NonceOf,      \* sheet_nonce; generation 0 stands for another sheet
    MaxGeneration, MaxActs, \* bounds
    Copies,       \* the table of CopyOf
    Nothing

\* The pages of p's copy under plan n, worded as in edition d.
CopyOf(n, d, p) == Paginate(ListOf[n][p], Says[d])

ASSUME CopiesAssumption ==
    Copies = [n \in Plans |-> [d \in Editions |-> [p \in Pupils |->
                CopyOf(n, d, p)]]]

Somebody == Pupils \union Strangers
NonceMax == 8388607   \* 23 bits
Nonces == 0 .. NonceMax

ASSUME PaperAssumption ==
    /\ Pupils \cap Strangers = {}
    /\ \A p \in Somebody : WellFormed(UidRow[p])
    /\ \A p, q \in Somebody : UidRow[p] = UidRow[q] => p = q  \* uq_student_uid
    /\ Says \in [Editions -> [Exercises -> Wordings]]
    /\ \A n \in Plans, p \in Pupils : ListOf[n][p] \in Seq(Exercises)
    /\ FirstEdition \in Editions /\ FirstPlan \in Plans
    /\ Layouts \subseteq {"v1", "v2"}
    /\ MaxGeneration \in Nat \ {0} /\ MaxActs \in Nat
    /\ Shots \subseteq [pupil : Somebody, page : 1 .. 16, kept : 0 .. 100,
                        legible : BOOLEAN]
    /\ Uploads \union Retakes \subseteq Seq(Shots)
    /\ \A g \in 0 .. MaxGeneration : NonceOf[g] \in Nonces
    /\ \A g, h \in 0 .. MaxGeneration : NonceOf[g] = NonceOf[h] => g = h
    /\ Nothing \notin Somebody \union Exercises
    /\ Nothing \notin Nonces /\ Nothing \notin Nat

\* There is ink where there are bubbles; an edit changes what an exercise says
\* and not how many options it has.
ASSUME InkAssumption ==
    \A p \in Pupils, e \in Exercises :
      /\ Ink[p][e] \in Seq([fill : 0 .. 100, cross : 0 .. 100])
      /\ \A d \in Editions : Len(Ink[p][e]) = OptionCount(Says[d][e])

VARIABLES
    plan,       \* the item_plan of the copies
    edition,    \* what the exercises say today
    generation, \* the sheet's render_generation
    layout,     \* the sheet's layout_version
    printed,    \* printed[g]: what the paper of a render shows
    pile,       \* the scan: its stage, its pinned layout and generation, ...
    pages,      \* the scan_page rows and their detections
    reported,   \* the corrections the last assignment reported as lost
    altered,    \* history: renders whose paper no longer shows the sheet
    acts        \* how often somebody has acted beside the first reading

sheet == <<plan, edition, generation, layout, printed>>
vars == <<sheet, pile, pages, reported, altered, acts>>

-----------------------------------------------------------------------------
(* The sheet and its paper                                                 *)

Copy(p, paper) == Copies[paper.plan][paper.edition][p]
Today == [layout |-> layout, plan |-> plan, edition |-> edition]
Printable(paper) == \A p \in Pupils : Copy(p, paper) # TooTall

\* The four bits of a v2 page number reach sixteen; encode_page_code refuses more.
LastPage == 16
Encodable(paper) ==
    paper.layout = "v2" => \A p \in Pupils : Len(Copy(p, paper)) <= LastPage

NoPile == [stage |-> "none", layout |-> "v2", generation |-> 0,
           waiting |-> <<>>, retaken |-> FALSE, basis |-> Nothing,
           seen |-> [p \in Pupils |-> 0]]

\* The sheet has been rendered once, by this build or by one before it.
Init ==
    /\ plan = FirstPlan /\ edition = FirstEdition
    /\ layout \in Layouts
    /\ generation = 1 /\ Printable(Today) /\ Encodable(Today)
    /\ printed = [g \in {1} |-> Today]
    /\ pile = NoPile /\ pages = <<>> /\ reported = {}
    /\ altered = {} /\ acts = 0

Act == acts < MaxActs /\ acts' = acts + 1

\* What a render of this build puts on paper.
Rendered == [Today EXCEPT !.layout = "v2"]

\* A render that no page can hold, or no page code can number, is refused; the
\* others bump the generation and stamp the layout of this build.
Render ==
    /\ generation < MaxGeneration /\ Act
    /\ Printable(Rendered) /\ Encodable(Rendered)
    /\ generation' = generation + 1
    /\ layout' = "v2"
    /\ printed' = [g \in 1 .. generation + 1 |->
                     IF g = generation + 1 THEN Rendered ELSE printed[g]]
    /\ reported' = {}
    /\ UNCHANGED <<plan, edition, pile, pages, altered>>

Alter == Act /\ altered' = altered \union DOMAIN printed

\* PUT on the items of a sheet replaces the plan of every copy.  The PDF is
\* thrown away; the generation stays.
ReplaceItems ==
    /\ plan' \in Plans \ {plan}
    /\ Alter
    /\ reported' = {}
    /\ UNCHANGED <<edition, generation, layout, printed, pile, pages>>

\* An exercise is edited: no sheet that prints it hears of it.
EditStatement ==
    /\ edition' \in Editions \ {edition}
    /\ Alter
    /\ reported' = {}
    /\ UNCHANGED <<plan, generation, layout, printed, pile, pages>>

-----------------------------------------------------------------------------
(* What a photograph shows                                                 *)

\* A photograph is a shot of the paper of one render; generation 0 is paper of
\* another sheet, with the questions of the first render here.
PaperOf(photo) == printed[IF photo.generation = 0 THEN 1 ELSE photo.generation]

\* The page in the photograph exists.
IsPrinted(photo) ==
    photo.pupil \in Pupils => photo.page \in DOMAIN Copy(photo.pupil, PaperOf(photo))

PrintedRows(photo) ==
    IF photo.pupil \in Strangers THEN <<>>
    ELSE LET copy == Copy(photo.pupil, PaperOf(photo))
         IN IF photo.page \in DOMAIN copy THEN copy[photo.page] ELSE <<>>

NoInk == [fill |-> 0, cross |-> 0]
Faded(ink, kept) == [fill |-> (ink.fill * kept) \div 100,
                     cross |-> (ink.cross * kept) \div 100]

\* The ink where row r would have its bubbles.
InkAt(photo, r, options) ==
    LET rows == PrintedRows(photo)
        there == IF r \in DOMAIN rows
                 THEN Ink[photo.pupil][rows[r].key] ELSE <<>>
    IN [o \in 1 .. options |->
          IF o \in DOMAIN there THEN Faded(there[o], photo.kept) ELSE NoInk]

\* The code as printed, and what may be read out of it.
CodeOf(p, page, g) ==
    [uid |-> UidRow[p], schoolYear |-> 1, page |-> page, canton |-> CantonUnset,
     nonce |-> NonceOf[g]]

UidReads == [p \in {s.pupil : s \in Shots} |-> ReadsOfUid(UidRow[p])]
CodeReads ==
    [c \in {CodeOf(s.pupil, s.page, g) :
              s \in Shots, g \in 0 .. MaxGeneration} |->
       ReadsOfPageCode(c)]

\* A page is read in the layout the pile was pinned to; in the other one the
\* cells are somewhere else.
CodesRead(photo) ==
    IF ~photo.legible \/ PaperOf(photo).layout # pile.layout THEN {Unreadable}
    ELSE IF pile.layout = "v1"
      THEN {IF u = Unreadable THEN u
            ELSE [uid |-> u, page |-> Nothing, nonce |-> Nothing]
              : u \in UidReads[photo.pupil]}
      ELSE {IF c = Unreadable THEN c
            ELSE [uid |-> c.uid, page |-> c.page, nonce |-> c.nonce]
              : c \in CodeReads[CodeOf(photo.pupil, photo.page,
                                        photo.generation)]}

-----------------------------------------------------------------------------
(* Detections                                                              *)

\* The first detection pass knows no copy and looks at every bubble there is.
FullGrid == [r \in 1 .. ItemsPerPage |-> 4]
Counts(rows, paper) ==
    [r \in DOMAIN rows |-> OptionCount(Says[paper.edition][rows[r].key])]

Detect(photo, counts) ==
    DetectPage([r \in DOMAIN counts |-> InkAt(photo, r, counts[r])])

\* The boxes that were measured when the pinned render was printed.
BoxRows(pupil, slot, g) ==
    IF g \notin DOMAIN printed THEN {}
    ELSE LET copy == Copy(pupil, printed[g])
         IN IF slot \notin DOMAIN copy THEN {}
            ELSE {r \in DOMAIN copy[slot] :
                    /\ copy[slot][r].part # "statement"
                    /\ PrintsBox(Says[printed[g].edition][copy[slot][r].key])}

\* What is cut out of the photograph there: blank, or an answer to grade.
BoxHasInk(photo, r) ==
    LET rows == PrintedRows(photo)
    IN r \in DOMAIN rows /\ rows[r].part # "statement"
         /\ rows[r].key \in Written[photo.pupil]

WithCrop(d, photo, r, boxes) ==
    IF d.outcome # "not_gradeable" \/ r \notin boxes THEN d
    ELSE IF BoxHasInk(photo, r) THEN Detection("pending", NoOption, 0)
    ELSE Detection("blank", NoOption, 100)

Row(r, e, d) ==
    [row |-> r, exercise |-> e, outcome |-> d.outcome, option |-> d.option,
     sure |-> StoodBehind(d), corrected |-> FALSE]

\* Each reading is paired with the exercise at its row.  The statement of a
\* split item has no row of its own: its box is read.
Paired(rows, read) ==
    {Row(r, rows[r].key, read[r]) :
       r \in {n \in DOMAIN read : rows[n].part # "statement"}}

Unpaired(read) == {Row(r, Nothing, read[r]) : r \in DOMAIN read}

\* The photograph against one page of a pupil's copy.
ReadAgainst(photo, pupil, rows, slot, paper) ==
    LET read == Detect(photo, Counts(rows, paper))
        boxes == BoxRows(pupil, slot, pile.generation)
    IN Paired(rows, [r \in DOMAIN read |-> WithCrop(read[r], photo, r, boxes)])
-----------------------------------------------------------------------------
(* Reading a pile                                                          *)

\* An upload pins the layout and the render generation the sheet has now; the
\* paper may be of any render, or of another sheet.
PhotographedFrom(shots, g) ==
    [k \in DOMAIN shots |->
        [pupil |-> shots[k].pupil, page |-> shots[k].page,
         kept |-> shots[k].kept, legible |-> shots[k].legible,
         generation |-> g]]

Photographs(shots) ==
    {photos \in {PhotographedFrom(shots, g) : g \in {0} \union DOMAIN printed} :
       \A k \in DOMAIN photos : IsPrinted(photos[k])}

Uploaded(photos) ==
    [NoPile EXCEPT !.stage = "queued", !.layout = layout,
                   !.generation = generation, !.waiting = photos]

Upload ==
    /\ pile.stage = "none"
    /\ \E shots \in Uploads : \E photos \in Photographs(shots) :
         pile' = Uploaded(photos)
    /\ reported' = {}
    /\ UNCHANGED <<sheet, pages, altered, acts>>

Joined(photos) ==
    [pile EXCEPT !.stage = "queued", !.waiting = photos, !.retaken = TRUE]

AppendPages ==
    /\ pile.stage = "review" /\ ~pile.retaken /\ Act
    /\ \E shots \in Retakes : \E photos \in Photographs(shots) :
         pile' = Joined(photos)
    /\ reported' = {}
    /\ UNCHANGED <<sheet, pages, altered>>

InPile(k) == ~pages[k].discarded

\* The run paginates every copy once.  A retake's run counts the pages that
\* are already there.
BeginReading ==
    /\ pile.stage = "queued"
    /\ pile' = [pile EXCEPT
         !.stage = IF Printable(Today) THEN "reading" ELSE "failed",
         !.basis = Today,
         !.seen = [p \in Pupils |->
           IF ~pile.retaken THEN 0
           ELSE Cardinality({k \in DOMAIN pages :
                               InPile(k) /\ pages[k].uid = p})]]
    /\ reported' = {}
    /\ UNCHANGED <<sheet, pages, altered, acts>>

Resolve(code) ==
    LET named == {p \in Pupils \union Strangers :
                    code # Unreadable /\ UidRow[p] = code.uid}
    IN IF named = {} THEN Nothing ELSE CHOOSE p \in named : TRUE

IsForeign(code) == /\ code # Unreadable /\ code.nonce # Nothing
                   /\ code.nonce # NonceOf[pile.generation]

\* Faulty variant: a page goes to the next free slot of its copy.
NextSlot(code, p, copy) ==
    IF pile.seen[p] < Len(copy) THEN pile.seen[p] + 1 ELSE Nothing

\* A v2 page says which page it is; a v1 page is the next of its copy.
SlotOf(code, p, copy) ==
    LET slot == IF code.page = Nothing THEN pile.seen[p] + 1 ELSE code.page
    IN IF slot \in DOMAIN copy THEN slot ELSE Nothing

PageRow(photo, p, slot, rows, flags) ==
    [photo |-> photo, uid |-> p, student |-> p, slot |-> slot, rows |-> rows,
     flags |-> flags, discarded |-> FALSE, foreign |-> p \in Strangers,
     byHand |-> FALSE, restored |-> FALSE]

CopyNamed(p, code) ==
    IF p \in Pupils /\ ~IsForeign(code) THEN Copy(p, pile.basis) ELSE <<>>

RowsRead(photo, code, p, copy, slot) ==
    CASE slot # Nothing -> ReadAgainst(photo, p, copy[slot], slot, pile.basis)
      [] slot = Nothing /\ (\/ p \in Strangers \/ IsForeign(code)
                            \/ ~photo.legible) -> {}
      [] OTHER -> Unpaired(Detect(photo, FullGrid))

FlagsRaised(code, copy, slot) ==
    (IF IsForeign(code) THEN {"wrong_sheet"} ELSE {})
      \union (IF copy # <<>> /\ slot = Nothing THEN {"extra_page"} ELSE {})

\* The pile when the next page of p's copy has been read.
Counted(p, copy) ==
    [pile EXCEPT !.waiting = Tail(@),
                 !.seen = [q \in Pupils |->
                             @[q] + IF q = p /\ copy # <<>> THEN 1 ELSE 0]]

ReadPage ==
    /\ pile.stage = "reading" /\ pile.waiting # <<>>
    /\ \E photo \in {Head(pile.waiting)} : \E code \in CodesRead(photo) :
            \E p \in {Resolve(code)} : \E copy \in {CopyNamed(p, code)} :
            \E slot \in {IF copy = <<>> THEN Nothing
                        ELSE SlotOf(code, p, copy)} :
               /\ pages' = Append(pages,
                    PageRow(photo, p, slot, RowsRead(photo, code, p, copy, slot),
                            FlagsRaised(code, copy, slot)))
               /\ pile' = Counted(p, copy)
    /\ reported' = {}
    /\ UNCHANGED <<sheet, altered, acts>>

Live(g) == ~g.discarded /\ ~g.foreign

SameSlot(g, h) == /\ Live(g) /\ Live(h)
                  /\ g.uid # Nothing /\ g.uid = h.uid
                  /\ g.slot # Nothing /\ g.slot = h.slot

\* Faulty variant: no sweep.
NothingIsFlagged(rows) == rows

Flagged(g, flag) == [g EXCEPT !.flags = @ \union {flag}]

FlagDuplicateSlots(rows) ==
    [k \in DOMAIN rows |->
       IF \E l \in DOMAIN rows \ {k} : SameSlot(rows[k], rows[l])
       THEN Flagged(rows[k], "duplicate_page") ELSE rows[k]]

FlagShortCopies(rows) ==
    [k \in DOMAIN rows |->
       IF Live(rows[k]) /\ rows[k].uid \in Pupils
          /\ pile.seen[rows[k].uid] < Len(Copy(rows[k].uid, pile.basis))
       THEN Flagged(rows[k], "short_copy") ELSE rows[k]]

EndReading ==
    /\ pile.stage = "reading" /\ pile.waiting = <<>>
    /\ pile' = [pile EXCEPT !.stage = "review", !.basis = Nothing,
                            !.seen = [p \in Pupils |-> 0]]
    /\ pages' = FlagDuplicateSlots(FlagShortCopies(pages))
    /\ reported' = {}
    /\ UNCHANGED <<sheet, altered, acts>>

-----------------------------------------------------------------------------
(* The teacher at the pile, here once it has been read; what it means to   *)
(* work on one that is being read is the business of ScanReview            *)

Corrected(x) == [row |-> x.row, exercise |-> x.exercise, option |-> 1,
                 outcome |-> "corrected", sure |-> TRUE, corrected |-> TRUE]
WithRows(g, rows) == [g EXCEPT !.rows = rows]

CorrectDetection(k, x) ==
    /\ ~x.corrected
    /\ pages' = [pages EXCEPT ![k] =
                   WithRows(@, (@.rows \ {x}) \union {Corrected(x)})]
    /\ reported' = {}
    /\ UNCHANGED <<sheet, pile, altered>>

Restored(g) == [g EXCEPT !.discarded = FALSE, !.restored = TRUE]
Discarded(g) == [g EXCEPT !.discarded = TRUE, !.student = Nothing]

SetPageDiscarded(k) ==
    /\ pages' = [pages EXCEPT ![k] =
                   IF @.discarded THEN Restored(@) ELSE Discarded(@)]
    /\ reported' = {}
    /\ UNCHANGED <<sheet, pile, altered>>

\* Faulty variant: a correction stays at the row of the page it was made at.
TakenByRow(corrections, read, x) == {c \in corrections : c.row = x.row}

\* A correction goes to where its question is first asked; one made before the
\* copy was known stays at its row.
Taken(corrections, read, x) ==
    LET same == {c \in corrections : c.exercise = x.exercise}
        first == \A y \in read : y.exercise = x.exercise => x.row <= y.row
    IN IF same # {} /\ first THEN same
       ELSE {c \in corrections : c.exercise = Nothing /\ c.row = x.row}

MovedTo(c, x) == [c EXCEPT !.row = x.row, !.exercise = x.exercise]

Carried(corrections, read) ==
    {IF Taken(corrections, read, x) = {} THEN x
     ELSE MovedTo(CHOOSE c \in Taken(corrections, read, x) : TRUE, x) : x \in read}

NamedAs(g, p) == [g EXCEPT !.student = p, !.foreign = FALSE,
                           !.discarded = FALSE, !.byHand = TRUE]
At(g, slot, rows) == [g EXCEPT !.slot = slot, !.rows = rows]

\* Naming the pupil reads the page again against that pupil's copy: at the
\* slot it had, or as a first page.  A photograph that did not register
\* keeps its rows, of which it has none.
AssignPageStudent(k, p) ==
    /\ pages[k].photo.legible => Printable(Today)
    /\ LET g == pages[k]
           slot == IF g.slot = Nothing THEN 1 ELSE g.slot
           copy == Copy(p, Today)
           rows == copy[IF slot \in DOMAIN copy THEN slot ELSE Len(copy)]
           corrections == {x \in g.rows : x.corrected}
           named == NamedAs(g, p)
       IN \/ /\ ~g.photo.legible
             /\ pages' = FlagDuplicateSlots([pages EXCEPT ![k] = named])
             /\ reported' = {}
          \/ /\ g.photo.legible
             /\ \E read \in {ReadAgainst(g.photo, p, rows, slot, Today)} :
                  /\ pages' = FlagDuplicateSlots([pages EXCEPT ![k] =
                       At(named, slot, Carried(corrections, read))])
                  /\ reported' = corrections \
                       UNION {Taken(corrections, read, x) : x \in read}
    /\ UNCHANGED <<sheet, pile, altered>>

Review(k) ==
    /\ pile.stage = "review"
    /\ Act
    /\ \/ \E x \in pages[k].rows : CorrectDetection(k, x)
       \/ SetPageDiscarded(k)
       \/ \E p \in Pupils : AssignPageStudent(k, p)

Next ==
    \/ Render \/ ReplaceItems \/ EditStatement
    \/ Upload \/ AppendPages \/ BeginReading \/ ReadPage \/ EndReading
    \/ \E k \in DOMAIN pages : Review(k)

Spec == Init /\ [][Next]_vars
-----------------------------------------------------------------------------
(* Properties                                                              *)

DetectionRows ==
    [row : 1 .. ItemsPerPage, exercise : Exercises \union {Nothing},
     outcome : {"blank", "detected", "low", "multiple", "not_gradeable",
                "pending", "corrected"},
     option : 0 .. 4, sure : BOOLEAN, corrected : BOOLEAN]

Flags == {"wrong_sheet", "extra_page", "short_copy", "duplicate_page"}

Photos == [pupil : Somebody, page : 1 .. 16, kept : 0 .. 100,
           legible : BOOLEAN, generation : 0 .. MaxGeneration]

PageRows ==
    [photo : Photos, uid : Somebody \union {Nothing},
     student : Somebody \union {Nothing},
     slot : (Nat \ {0}) \union {Nothing}, rows : SUBSET DetectionRows,
     flags : SUBSET Flags, discarded : BOOLEAN, foreign : BOOLEAN,
     byHand : BOOLEAN, restored : BOOLEAN]

TypeOK ==
    /\ plan \in Plans /\ edition \in Editions
    /\ generation \in 1 .. MaxGeneration /\ layout \in {"v1", "v2"}
    /\ DOMAIN printed = 1 .. generation /\ altered \subseteq DOMAIN printed
    /\ pile.stage \in {"none", "queued", "reading", "review", "failed"}
    /\ \A k \in DOMAIN pages : pages[k] \in PageRows

\* What stands at an answer row of a page.
Lines == [key : Exercises, number : Nat, part : {"whole", "statement", "box"},
          height : Nat]

\* A page at least, and no page with more rows than the grid.
IsACopy(copy) ==
    /\ copy \in Seq(Seq(Lines)) /\ copy # <<>>
    /\ \A n \in DOMAIN copy : Len(copy[n]) <= ItemsPerPage

\* Where the lines of a copy stand, and which comes before which.
Places(copy) == UNION {{n} \X DOMAIN copy[n] : n \in DOMAIN copy}
Precedes(a, b) == a[1] < b[1] \/ (a[1] = b[1] /\ a[2] < b[2])

\* Every item of the list is printed once and in its place.
PrintsTheList(list, copy) ==
    LET line(a) == copy[a[1]][a[2]]
        begun == {a \in Places(copy) : line(a).part # "box"}
    IN /\ {line(a).number : a \in begun} = DOMAIN list
       /\ \A a, b \in begun : Precedes(a, b) => line(a).number < line(b).number
       /\ \A a \in Places(copy) : line(a).key = list[line(a).number]

\* A statement alone is last on its page, and its box first on the next.
IsSplit(copy, n, number) ==
    /\ n \in DOMAIN copy /\ n + 1 \in DOMAIN copy
    /\ copy[n] # <<>> /\ copy[n + 1] # <<>>
    /\ LET above == copy[n][Len(copy[n])]
           below == copy[n + 1][1]
       IN /\ above.part = "statement" /\ above.number = number
          /\ below.part = "box" /\ below.number = number

\* No page is overfull, and a split item is at the turn of two pages.
HoldsItsPages(copy) ==
    \A n \in DOMAIN copy :
      /\ Total([r \in DOMAIN copy[n] |-> copy[n][r].height]) <= UsableHeight
      /\ \A r \in DOMAIN copy[n] :
           /\ copy[n][r].part = "statement" =>
                r = Len(copy[n]) /\ IsSplit(copy, n, copy[n][r].number)
           /\ copy[n][r].part = "box" =>
                r = 1 /\ IsSplit(copy, n - 1, copy[n][r].number)

FitsItsPages(list, copy) ==
    IsACopy(copy) /\ PrintsTheList(list, copy) /\ HoldsItsPages(copy)

Fits == [n \in Plans |-> [d \in Editions |-> [p \in Pupils |->
           \/ Copies[n][d][p] = TooTall
           \/ FitsItsPages(ListOf[n][p], Copies[n][d][p])]]]

\* Every item of a copy is printed once and in order: whole, or its statement
\* last on a page and its box first on the next; and no page has more rows
\* than the grid or more statement than its region (pagination.py).
CopiesFitTheirPages == \A p \in Pupils : Fits[plan][edition][p]

\* The same of every plan and edition there may be.
EveryCopyFits == \A n \in Plans, d \in Editions, p \in Pupils : Fits[n][d][p]

\* The pictures that would not fit even a page of their own, though their item
\* leaves them room.
PictureRefused ==
    [d \in Editions |-> [e \in Exercises |->
       LET i == Says[d][e]
       IN /\ Paginate(<<e>>, Says[d]) = TooTall
          /\ i.figure # NoFigure /\ i.lines <= BoxMaxLines /\ FigureRoom(i) > 100]]

\* An item printed as a picture is never what no page can hold, however tall
\* the crop and its box of up to BoxMaxLines lines: it is shrunk to what its own
\* text leaves (figure_room_mm, "never refused").
PicturesAreNeverRefused ==
    \A p \in Pupils : \A n \in DOMAIN ListOf[plan][p] :
      ~PictureRefused[edition][ListOf[plan][p][n]]

\* The copies of today's sheet hold: every page can be printed, every item is
\* on one, and only an item whose own text is too tall is refused
\* (pagination.py).
PagesHold == TypeOK /\ CopiesFitTheirPages /\ PicturesAreNeverRefused

\* Up to two misread cells never make another code out of one that is printed.
MisreadsAreRefused ==
    /\ \A p \in DOMAIN UidReads : UidReads[p] \subseteq {UidRow[p], Unreadable}
    /\ \A c \in DOMAIN CodeReads : CodeReads[c] \subseteq {c, Unreadable}

FiledUnderItsWriter ==
    \A k \in DOMAIN pages :
      ~pages[k].byHand => pages[k].student \in {pages[k].photo.pupil, Nothing}

\* With up to two cells of its code misread, a page is filed under the pupil
\* who wrote on it or under nobody; only a teacher files it otherwise
\* (uid_code.py: "Failing sends the page to the teacher").
NeverSomeoneElse == MisreadsAreRefused /\ FiledUnderItsWriter

\* The pages whose reading the system answers for: the code was read, the paper
\* is of the pile's own render, filed under who wrote on it, and the sheet still
\* is what that render printed.
Answerable(g) ==
    /\ pile.layout = "v2" /\ pile.generation \notin altered
    /\ g.uid # Nothing /\ g.student = g.photo.pupil
    /\ "wrong_sheet" \notin g.flags

\* A mark counts for the question the pupil read beside it: whatever order the
\* pages came in, whether a retake joined them, on copies that differ from
\* pupil to pupil and on items split over two pages (_copies_by_uid).
MarksFindTheirQuestion ==
    \A k \in DOMAIN pages : \A x \in pages[k].rows :
      LET rows == PrintedRows(pages[k].photo)
      IN Answerable(pages[k]) /\ x.exercise # Nothing =>
           x.row \in DOMAIN rows /\ rows[x.row].key = x.exercise

\* The pages of p's copy in the pile, what is read of an exercise on such pages,
\* and where a list asks it.
OwnPages(p) ==
    {k \in DOMAIN pages :
       /\ InPile(k) /\ Answerable(pages[k])
       /\ pages[k].student = p /\ pages[k].photo.legible}
ReadingsOf(own, e) ==
    {r \in UNION {{k} \X pages[k].rows : k \in own} : r[2].exercise = e}
AskedAt(list, e) == {m \in DOMAIN list : list[m] = e}

\* Once all pages of a copy are in, every question of it has one reading, or as
\* many as the list asks it, and one that can be graded when the pupil was given
\* bubbles or a box.
EveryAnswerReadOnce ==
    pile.stage = "review" =>
      \A p \in Pupils :
        LET own == OwnPages(p)
            paper == printed[pile.generation]
            list == ListOf[paper.plan][p]
        IN /\ {pages[k].slot : k \in own} = DOMAIN Copy(p, paper)
           /\ Cardinality(own) = Len(Copy(p, paper))
           => \A n \in DOMAIN list :
                LET i == Says[paper.edition][list[n]]
                    read == ReadingsOf(own, list[n])
                IN /\ Cardinality(read) = Cardinality(AskedAt(list, list[n]))
                   /\ PrintsBox(i) \/ OptionCount(i) > 0 =>
                        \A r \in read : r[2].outcome # "not_gradeable"

Marked(p, e) == {o \in DOMAIN Ink[p][e] : MarkStrength(Ink[p][e][o]) >= FillMarked}

\* A mark the detector is sure of is the only one the pupil made.
SureMarksAreTrue ==
    \A k \in DOMAIN pages : \A x \in pages[k].rows :
      LET g == pages[k]
      IN /\ Answerable(g) /\ g.photo.kept = 100 /\ x.exercise # Nothing
         /\ x.sure /\ ~x.corrected /\ x.outcome = "detected"
         => Marked(g.photo.pupil, x.exercise) = {x.option}

\* The bubbles at which the photograph shows more than nothing; the rows of its
\* page that have bubbles, and those where it does.
Shown(photo, e) ==
    LET ink == Ink[photo.pupil][e]
    IN {o \in DOMAIN ink : MarkStrength(Faded(ink[o], photo.kept)) >= FillBlank}
Asked(photo, rows) == {r \in DOMAIN rows : Ink[photo.pupil][rows[r].key] # <<>>}
Seen(photo, rows) ==
    {r \in Asked(photo, rows) : Shown(photo, rows[r].key) # {}}

\* No bubble shows anything, and the photocopy has not lost the pencil: of four
\* questions or more, more than four in ten show something.  No box was
\* written into.
IsLeftBlank(photo, rows, x) ==
    LET asked == Asked(photo, rows)
    IN IF x.row \in asked
       THEN /\ Shown(photo, x.exercise) = {}
            /\ Cardinality(asked) >= 4 =>
                 10 * Cardinality(Seen(photo, rows)) > 4 * Cardinality(asked)
       ELSE x.exercise \notin Written[photo.pupil]

\* An answer that is taken for missing is.
BlanksAreTrue ==
    \A k \in DOMAIN pages : \A x \in pages[k].rows :
      LET g == pages[k]
      IN Answerable(g) /\ ~x.corrected /\ x.outcome = "blank"
           => IsLeftBlank(g.photo, PrintedRows(g.photo), x)

\* What is taken for an answer is one: it stands under the question the pupil
\* read beside it, and is the mark the pupil made (scan_processing.py: "which is
\* how a detection is paired with the question the student actually answered").
AnswersAreTrue == MarksFindTheirQuestion /\ SureMarksAreTrue

\* No answer is overlooked: each question of a copy is read, and once, and
\* what is taken for blank is.
NoAnswerIsMissed == EveryAnswerReadOnce /\ BlanksAreTrue

\* While a pile is reviewed, two pages in it that claim one slot of one copy
\* say so, whether a photograph was taken twice or an assignment did it;
\* unless the teacher put one of them back (_flag_duplicate_slots).
DuplicatesAreFlagged ==
    pile.stage = "review" =>
      \A k, l \in DOMAIN pages :
        /\ k # l /\ SameSlot(pages[k], pages[l])
        /\ ~pages[k].restored /\ ~pages[l].restored
        => "duplicate_page" \in pages[k].flags

\* A correction made by hand is never lost in silence: when a page is read
\* again for another pupil it is found at its question, wherever that copy has
\* it, or the teacher is told (_CarriedCorrections).
CorrectionsFollowTheirQuestion ==
    [][\A k \in DOMAIN pages : \A x \in pages[k].rows :
         x.corrected =>
           \/ \E y \in pages'[k].rows :
                /\ y.corrected
                /\ IF x.exercise = Nothing THEN y.row = x.row
                   ELSE y.exercise = x.exercise
           \/ x \in reported']_vars
=============================================================================
