--------------------------- MODULE BubbleDetector ---------------------------
(***************************************************************************)
(* scan/detector.py: what is read into the ink measured at the bubbles of  *)
(* a page.  Ink is a pair of percentages: how much of the disc is dark,    *)
(* and how clearly the dark has the shape of a cross.                      *)
(***************************************************************************)
EXTENDS Integers, Sequences, FiniteSetsExt

FillMarked == 35
FillBlank == 18
MarginConfident == 20
LowConfidence == 65
CrossBlank == 20
CrossMarked == 55
Saturated == 56     \* FILL_MARKED * 1.6

\* Either measure will do: a thin cross has little ink.
MarkStrength(ink) ==
    LET mapped ==
          CASE ink.cross <= CrossBlank -> 0
            [] ink.cross \in CrossBlank + 1 .. CrossMarked ->
                 FillBlank + ((ink.cross - CrossBlank) * (FillMarked - FillBlank))
                               \div (CrossMarked - CrossBlank)
            [] OTHER -> FillMarked + ((ink.cross - CrossMarked)
                           * (Saturated - FillMarked)) \div (100 - CrossMarked)
    IN Max({ink.fill, mapped})

Detection(outcome, option, confidence) ==
    [outcome |-> outcome, option |-> option, confidence |-> confidence]

NoOption == 0
NotAsked == Detection("not_gradeable", NoOption, 100)

Separation(margin) == Min({MarginConfident, margin})

\* Confidence that a mark is a mark, and that it is the only one.
MarkConfidence(best, margin) ==
    (45 * Min({Saturated, best}) * MarginConfident
       + 55 * Separation(margin) * Saturated) \div (Saturated * MarginConfident)

\* Of two equal marks the first is the best.
Strongest(mark) ==
    CHOOSE o \in DOMAIN mark : \A n \in DOMAIN mark :
        mark[n] < mark[o] \/ (mark[n] = mark[o] /\ o <= n)

NextStrongest(mark, option) ==
    Max({0} \union {mark[n] : n \in DOMAIN mark \ {option}})

Faint(best) == Min({LowConfidence - 5,
    30 + (30 * (best - FillBlank)) \div (FillMarked - FillBlank)})

Confident(option, sure) ==
    Detection(IF sure >= LowConfidence THEN "detected" ELSE "low", option, sure)

\* What the strongest mark and the next one amount to.
Judged(option, best, second) ==
    IF best < FillBlank THEN
      Detection("blank", NoOption, (100 * (FillBlank - best)) \div FillBlank)
    ELSE IF second >= FillMarked THEN
      Detection("multiple", NoOption,
                50 - (50 * Separation(best - second)) \div MarginConfident)
    ELSE IF best < FillMarked THEN Detection("low", option, Faint(best))
    ELSE Confident(option, MarkConfidence(best, best - second))

Compared(mark, option) ==
    Judged(option, mark[option], NextStrongest(mark, option))

Weighed(mark) == Compared(mark, Strongest(mark))

\* The bubbles of one item.
DetectItem(inks) ==
    IF inks = <<>> THEN NotAsked
    ELSE Weighed([o \in DOMAIN inks |-> MarkStrength(inks[o])])

\* A page that is almost all blank may have lost its pencil.
FlagSuspiciousBlanks(read) ==
    LET asked == {r \in DOMAIN read : read[r].outcome # "not_gradeable"}
        blanks == {r \in asked : read[r].outcome = "blank"}
    IN IF Cardinality(asked) < 4
          \/ 10 * Cardinality(blanks) < 6 * Cardinality(asked)
       THEN read
       ELSE [r \in DOMAIN read |->
               IF r \in blanks
               THEN Detection("low", NoOption, Min({read[r].confidence, 35}))
               ELSE read[r]]

\* Faulty variant: every blank is believed.
DetectEachItem(page) == [r \in DOMAIN page |-> DetectItem(page[r])]

\* A page: for every answer row, the ink of its bubbles.
DetectPage(page) ==
    FlagSuspiciousBlanks([r \in DOMAIN page |-> DetectItem(page[r])])

\* What the review screen does not ask the teacher to look at.
StoodBehind(d) ==
    d.outcome \in {"detected", "blank"} /\ d.confidence >= LowConfidence
=============================================================================
