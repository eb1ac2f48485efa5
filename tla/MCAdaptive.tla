----------------------------- MODULE MCAdaptive -----------------------------
(***************************************************************************)
(* A class of three, two competencies, a textbook that answers one of      *)
(* them, two teachers.  Calls carry two plans; a model may repeat itself,  *)
(* come short, send a malformed item or nothing.                           *)
(***************************************************************************)
EXTENDS Adaptive, TLC

CONSTANTS anna, beat, c1, c2, g1, e1, bad, nothing, stmt1, stmt2

MCRoster == <<1, 2, 3>>
MCCorpus == {e1}
MCCorpusCovers == [e \in MCCorpus |-> {1}]

Signal(competency, band, score) ==
    [competency |-> competency, band |-> band, score |-> score]
Weak1 == Signal(1, "weak", 2)
Weak2 == Signal(2, "weak", 1)

\* The second competency is short everywhere; the source sheet says otherwise
\* than the term of the first pupil.
MCEvidence ==
    {[s \in 1 .. 3 |-> [sheet |-> IF s = 1 THEN <<Weak2>> ELSE <<>>,
        term |-> CASE s = 1 -> <<Weak1>> [] s = 2 -> <<Weak2>>
                   [] OTHER -> <<Weak2, Weak1>>]]}

Request(groups, together, byModel, items, fromSheet) ==
    [groups |-> groups, together |-> together, byModel |-> byModel,
     items |-> items, generate |-> TRUE, fromSheet |-> fromSheet]

\* Three lists of one's own, which take two calls, about the source
\* sheet; and two series partitioned by the model.
MCRequests == (c1 :> {Request(3, FALSE, FALSE, 2, TRUE)} @@
               c2 :> {Request(2, FALSE, TRUE, 1, FALSE)})

\* A partition, a child seated twice, and a child left out.
MCGroupings == {<<<<2>>, <<1, 3>>>>, <<<<1, 2>>, <<2, 3>>>>, <<<<1>>, <<2>>>>}
MCMaxCrashes == (c1 :> 0 @@ c2 :> 1)
MCStatements == {stmt1, stmt2}
MCAnswers == {<<>>, <<stmt1>>, <<bad, stmt2>>}
TeacherSymmetry == Permutations({anna, beat})
=============================================================================
