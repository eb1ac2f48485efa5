---------------------------- MODULE MCScanReview ----------------------------
(***************************************************************************)
(* Small classes and small piles.                                          *)
(***************************************************************************)
EXTENDS ScanReview

CONSTANTS A, B, C, s1, s2, q1, q2

Right == [outcome |-> "detected", mark |-> "right"]
Wrong == [outcome |-> "detected", mark |-> "wrong"]
Unsure == [outcome |-> "low", mark |-> "right"]
Twice == [outcome |-> "multiple", mark |-> "none"]

MCOne == {Right}
MCDoubtful == {Unsure, Twice}
MCVision == {Wrong, Blank}
MCVerdict == {Wrong}
MCAffirm == {"right"}

\* One photograph of a pupil's copy to a pile, the second on the paper of another
\* sheet and the third under the code of another class; or all to the same pile.
MCPages2 == {1, 2}
MCPages3 == {1, 2, 3}
MCOnePile == [g \in MCPages2 |-> A]
MCPileOf3 == [g \in MCPages3 |-> IF g = 1 THEN A ELSE IF g = 2 THEN B ELSE C]
MCCode2 == [g \in MCPages2 |-> s1]
MCCode3 == [g \in MCPages3 |-> IF g = 3 THEN Stranger ELSE s1]

\* Every photograph is read once, with its own job.
MCReadOnce ==
    [g \in Pages |-> First(Job(PileOf[g], g \in Retakes))]

\* One photograph, whose job is delivered twice.
MCReadTwice ==
    [g \in Pages |-> [pile |-> PileOf[g], append |-> FALSE, try |-> g]]
=============================================================================
