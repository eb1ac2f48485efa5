------------------------------ MODULE Ordering ------------------------------
(***************************************************************************)
(* What sorted() and a comprehension with a condition make of a list, for  *)
(* the lists whose order decides something: the pupils, the gaps and the   *)
(* groups of a class (Targeting), the chapters of a book (Outline).        *)
(***************************************************************************)
EXTENDS Integers, FiniteSets

\* The order of Python's tuples, over tuples of integers of one length.
Before(a, b) ==
    \E i \in DOMAIN a : a[i] < b[i] /\ \A j \in 1 .. i - 1 : a[j] = b[j]

\* What is in a set, in an order of it.
InOrder(S, order) ==
    LET before(x) == {y \in S : <<y, x>> \in order}
    IN  [n \in 1 .. Cardinality(S) |->
           CHOOSE x \in S : Cardinality(before(x)) = n - 1]

\* Some of the places of a sequence, the first one first.
Smaller(places) == {p \in places \X places : p[1] < p[2]}
Ascending(places) == InOrder(places, Smaller(places))

Those(seq, places) ==
    [n \in DOMAIN Ascending(places) |-> seq[Ascending(places)[n]]]

\* A stable sort, by the key of each place.
ByKey(keys) ==
    {p \in (DOMAIN keys) \X (DOMAIN keys) :
       \/ Before(keys[p[1]], keys[p[2]])
       \/ keys[p[1]] = keys[p[2]] /\ p[1] < p[2]}

SortedBy(seq, keys) ==
    LET place == InOrder(DOMAIN keys, ByKey(keys))
    IN  [n \in DOMAIN place |-> seq[place[n]]]

=============================================================================
