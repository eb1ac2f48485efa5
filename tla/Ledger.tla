------------------------------- MODULE Ledger -------------------------------
(***************************************************************************)
(* What the marks of one sheet promise, whoever photographs, reads and     *)
(* corrects: an answer has one mark at most, it changes when a pile is     *)
(* signed or reopened and at no other time, and the evidence it was given  *)
(* on stays as it was signed.                                              *)
(***************************************************************************)
CONSTANTS
    Piles,    \* what is signed as one
    Answers,  \* a pupil's answer to an item
    Grades,   \* what a reading of it may be worth
    NoMark    \* nobody asserts anything of it

VARIABLES
    signed,   \* the piles a signature stands on
    evidence, \* evidence[p][a]: the grades the pages of signed pile p give a
    mark,     \* mark[a]: the attempt row
    older     \* older[p]: the piles that were signed when p was

vars == <<signed, evidence, mark, older>>

Marked == [pile : Piles, grade : Grades]
NoEvidence == [a \in Answers |-> {}]

Init ==
    /\ signed = {}
    /\ evidence = [p \in Piles |-> NoEvidence]
    /\ mark = [a \in Answers |-> NoMark]
    /\ older = [p \in Piles |-> {}]

\* A pile is signed with the evidence it has then. Every answer it has some for
\* is marked by it; no other mark is touched.
Sign(p) ==
    /\ p \notin signed
    /\ signed' = signed \union {p}
    /\ evidence' \in [Piles -> [Answers -> SUBSET Grades]]
    /\ \A q \in Piles \ {p} : evidence'[q] = evidence[q]
    /\ mark' \in [Answers -> Marked \union {NoMark}]
    /\ \A a \in Answers :
         IF evidence'[p][a] = {} THEN mark'[a] = mark[a]
         ELSE mark'[a] \in [pile : {p}, grade : evidence'[p][a]]
    /\ older' = [q \in Piles |-> IF q = p THEN signed ELSE older[q] \ {p}]

\* The marks evidence may put back once p is gone: those of the pile signed
\* last among the ones that have any.
PutBack(p, a) ==
    {m \in Marked :
        /\ m.pile \in signed \ {p}
        /\ m.grade \in evidence[m.pile][a]
        /\ \A q \in signed \ {p} :
             evidence[q][a] # {} => q = m.pile \/ q \in older[m.pile]}

\* A pile is reopened: each of its marks is withdrawn, and an older one may take
\* its place.
Reopen(p) ==
    /\ p \in signed
    /\ signed' = signed \ {p}
    /\ evidence' = [evidence EXCEPT ![p] = NoEvidence]
    /\ mark' \in [Answers -> Marked \union {NoMark}]
    /\ \A a \in Answers :
         IF mark[a] # NoMark /\ mark[a].pile = p
         THEN mark'[a] \in PutBack(p, a) \union {NoMark}
         ELSE mark'[a] = mark[a]
    /\ UNCHANGED older

Next == \E p \in Piles : Sign(p) \/ Reopen(p)

Spec == Init /\ [][Next]_vars
=============================================================================
