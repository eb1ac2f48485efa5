----------------------------- MODULE Pagination -----------------------------
(***************************************************************************)
(* sheets/pagination.py: an ordered item list becomes physical pages.  A   *)
(* page ends when its answer rows are used up or when the statements would *)
(* overflow it.  Lengths are hundredths of a millimetre.                   *)
(***************************************************************************)
EXTENDS Integers, Sequences, FiniteSetsExt

CONSTANTS
    UsableHeight,  \* USABLE_H_MM
    ItemsPerPage,  \* answer rows of a page
    NoFigure

\* The sum of a sequence of lengths.
Total(lengths) ==
    LET upTo[k \in 0 .. Len(lengths)] ==
          IF k = 0 THEN 0 ELSE upTo[k - 1] + lengths[k]
    IN upTo[Len(lengths)]

-----------------------------------------------------------------------------
(* What an item costs                                                      *)

LineHeight == 762
PaddingAndRule == 600 + 20
OptionsGap == 100
FigureGap == 100
FigureMax == 11600
TextWidth == 15800
LinePitch == 800
BoxMargins == 400 + 350

\* An exercise as it is laid out: the lengths of the paragraphs it says and of
\* those of each option, the lines of its box, and its picture.
Figures == [width : Nat \ {0}, height : Nat, worded : BOOLEAN]
Wordings == [kind : {"true_false", "mcq", "open"}, statement : Seq(Nat),
             options : Seq(Seq(Nat)), lines : Nat,
             figure : Figures \union {NoFigure}]

\* Characters of a line, of a statement and of an option.
TextChars == 66
OptionChars == 60

OptionCount(i) == CASE i.kind = "true_false" -> 2
                    [] i.kind = "mcq" -> Min({Len(i.options), 4})
                    [] OTHER -> 0

\* Every paragraph takes a line at least, and so does no paragraph at all.
LinesOf(length, chars) == Max({1, (length + chars - 1) \div chars})
WrappedLines(paragraphs, chars) ==
    Max({1, Total([k \in DOMAIN paragraphs |-> LinesOf(paragraphs[k], chars)])})

TextAboveFigure(i) ==
    IF i.figure # NoFigure /\ i.figure.worded
    THEN LineHeight * WrappedLines(i.statement, TextChars) ELSE LineHeight

OptionsHeight(i) ==
    IF i.options = <<>> THEN 0
    ELSE OptionsGap + Total([o \in DOMAIN i.options |->
                        LineHeight * WrappedLines(i.options[o], OptionChars)])

\* The room left for the picture by the rest of the item, its box excepted.
FigureRoom(i) ==
    Max({100, Min({FigureMax, UsableHeight - PaddingAndRule - FigureGap
                                - TextAboveFigure(i) - OptionsHeight(i)})})

\* A picture is shrunk to the column and to its room, never enlarged.
FigureHeight(i) ==
    Min({i.figure.height, (i.figure.height * TextWidth) \div i.figure.width,
         FigureRoom(i)})

PrintsBox(i) == i.kind = "open" /\ i.lines > 0
BoxBlock(i) == IF PrintsBox(i) THEN i.lines * LinePitch + BoxMargins ELSE 0

StatementHeight(i) ==
    PaddingAndRule + OptionsHeight(i)
      + IF i.figure = NoFigure
        THEN LineHeight * WrappedLines(i.statement, TextChars)
        ELSE TextAboveFigure(i) + FigureGap + FigureHeight(i)

ItemHeight(i) == StatementHeight(i) + BoxBlock(i)

\* A box carried over repeats the number on a line of its own.
ContinuationHeight(i) == PaddingAndRule + LineHeight + BoxBlock(i)

\* The tallest box fits a page of its own: "14 lines is 133.3 mm of the 134 mm".
BoxMaxLines == 14

ASSUME PaginationAssumption ==
    /\ ItemsPerPage \in 1 .. 16
    /\ UsableHeight \in Nat
    /\ UsableHeight >= PaddingAndRule + LineHeight
                          + BoxMaxLines * LinePitch + BoxMargins

-----------------------------------------------------------------------------
(* Pages                                                                   *)

\* A page under construction, the pages before it, and whether an item was
\* too tall for any page.
Blank == [pages |-> <<>>, current |-> <<>>, used |-> 0, number |-> 0,
          refused |-> FALSE]

Flush(s) ==
    [s EXCEPT !.pages = Append(@, s.current), !.current = <<>>, !.used = 0]

\* Faulty variant: a page is closed one row late.
AlmostFull(s, height) ==
    \/ Len(s.current) > ItemsPerPage
    \/ s.current # <<>> /\ s.used + height > UsableHeight

Full(s, height) ==
    \/ Len(s.current) >= ItemsPerPage
    \/ s.current # <<>> /\ s.used + height > UsableHeight

Place(s, e, height, part) ==
    LET t == IF Full(s, height) THEN Flush(s) ELSE s
    IN [t EXCEPT !.current = Append(@, [key |-> e, number |-> s.number,
                                        part |-> part, height |-> height]),
                 !.used = @ + height]

\* What does not fit a page with its box prints its statement there and its
\* box on the next, when each of the two fits.
Put(s, e, i) ==
    LET t == [s EXCEPT !.number = @ + 1]
    IN IF s.refused THEN s
       ELSE IF ItemHeight(i) <= UsableHeight
         THEN Place(t, e, ItemHeight(i), "whole")
       ELSE IF \/ ~PrintsBox(i)
               \/ StatementHeight(i) > UsableHeight
               \/ ContinuationHeight(i) > UsableHeight
         THEN [t EXCEPT !.refused = TRUE]
       ELSE Place(Flush(Place(t, e, StatementHeight(i), "statement")),
                  e, ContinuationHeight(i), "box")

TooTall == <<>>

\* The pages when the first k exercises of `list` have been put.
Paging(list, item) ==
    LET upTo[k \in 0 .. Len(list)] ==
          IF k = 0 THEN Blank ELSE Put(upTo[k - 1], list[k], item[list[k]])
    IN upTo

\* The pages of a copy with the exercises `list`, worded as in `item`; an
\* empty list still has a page, and no page at all stands for ItemTooTallError.
Paginate(list, item) ==
    LET s == Paging(list, item)[Len(list)]
    IN IF s.refused THEN TooTall ELSE Flush(s).pages
=============================================================================
