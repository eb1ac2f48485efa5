----------------------------- MODULE Targeting -----------------------------
(***************************************************************************)
(* Whom a differentiated sheet is for and what it is about: the pure part  *)
(* of services/adaptive_service.py and services/adaptive_clustering.py.    *)
(*                                                                         *)
(* A pupil is the number the class list gives them.  A signal is what one  *)
(* sheet, or the whole term, says of one competency, with a score.         *)
(***************************************************************************)
EXTENDS Sequences, Functions, Ordering

CONSTANTS
    MaxTargets,      \* MAX_TARGET_COMPETENCIES
    MaxStretch       \* MAX_STRETCH_COMPETENCIES

ASSUME TargetingAssumption ==
    /\ MaxTargets \in Nat \ {0}
    /\ MaxStretch \in 0 .. MaxTargets

\* Weakest first.  "none" is an absence of evidence and is never a target.
TargetBands == <<"fading", "weak", "ok", "solid">>
BandPriority == [b \in Range(TargetBands) |->
                   CHOOSE i \in DOMAIN TargetBands : TargetBands[i] = b]

Signals ==
    [competency : Int, band : Range(TargetBands) \union {"none"}, score : Int]

-----------------------------------------------------------------------------
(* One pupil's gaps                                                        *)

\* A number of a sequence, or all of it.
Leading(seq, n) == SubSeq(seq, 1, IF n < Len(seq) THEN n ELSE Len(seq))

\* Real gaps fill the sheet; what is solid is stretch, admitted into the room
\* that is left, and without limit when there is no gap at all.
PickGaps(signals) ==
    LET known   == Those(signals, {i \in DOMAIN signals :
                                     signals[i].band # "none"})
        scored  == SortedBy(known, [i \in DOMAIN known |->
                     <<BandPriority[known[i].band], known[i].score>>])
        solid   == {i \in DOMAIN scored : scored[i].band = "solid"}
        taken   == Leading(Those(scored, DOMAIN scored \ solid), MaxTargets)
        room    == MaxTargets - Len(taken)
        allowed == IF taken = <<>> \/ room < MaxStretch THEN room
                                                        ELSE MaxStretch
    IN  taken \o Leading(Those(scored, solid), allowed)

\* What the source sheet says wins whenever it says anything.
GapsOf(sheetSignals, termSignals) ==
    IF sheetSignals # <<>> THEN PickGaps(sheetSignals)
                           ELSE PickGaps(termSignals)

-----------------------------------------------------------------------------
(* What a group is taught                                                  *)

GapsIn(members, gaps) ==
    UNION {{<<s, g>> : g \in Range(gaps[s])} : s \in Range(members)}

\* The competencies most of the group need, then the worst, then by id.
GroupTargets(members, gaps) ==
    LET here == GapsIn(members, gaps)
        needed == {p[2].competency : p \in here}
        need(c) == Cardinality({p \in here : p[2].competency = c})
        severities(c) == {<<BandPriority[p[2].band], p[2].score>> :
                            p \in {q \in here : q[2].competency = c}}
        worst(c) == CHOOSE w \in severities(c) :
                      \A v \in severities(c) : ~Before(v, w)
        key(c) == <<0 - need(c), worst(c)[1], worst(c)[2], c>>
    IN  Leading(InOrder(needed, {p \in needed \X needed :
                                 Before(key(p[1]), key(p[2]))}), MaxTargets)

-----------------------------------------------------------------------------
(* The partition of a class                                                *)

\* Everyone of a set is in one of the lists, and there once.
Divides(lists, S) ==
    /\ \A i \in DOMAIN lists : IsInjective(lists[i])
    /\ \A i, j \in DOMAIN lists :
         i # j => Range(lists[i]) \cap Range(lists[j]) = {}
    /\ UNION {Range(lists[i]) : i \in DOMAIN lists} = S

\* A pupil with no gap sorts last: no evidence is not a weakness.
Severity(gaps, s) ==
    IF gaps[s] = <<>> THEN <<Len(TargetBands) + 1, 0>>
    ELSE <<BandPriority[gaps[s][1].band], gaps[s][1].score>>

RankOf(gaps, s) == <<Severity(gaps, s)[1], Severity(gaps, s)[2], s>>

Ranked(members, gaps) ==
    SortedBy(members, [i \in DOMAIN members |-> RankOf(gaps, members[i])])

Sum(numbers) ==
    LET upTo[n \in 0 .. Len(numbers)] ==
          IF n = 0 THEN 0 ELSE upTo[n - 1] + numbers[n]
    IN  upTo[Len(numbers)]

\* The average severity of a group, over a denominator the groups share.
Shared(buckets) ==
    LET upTo[n \in 0 .. Len(buckets)] ==
          IF n = 0 THEN 1 ELSE upTo[n - 1] * Len(buckets[n])
    IN  upTo[Len(buckets)]

AverageSeverity(gaps, members, shared) ==
    LET sum(k) == Sum([i \in DOMAIN members |-> Severity(gaps, members[i])[k]])
        share == shared \div Len(members)
    IN  <<sum(1) * share, sum(2) * share>>

\* Pupils with the same principal gap, in the order of the roster.
ByPrincipalGap(roster, gaps) ==
    LET principal(i) == IF gaps[roster[i]] = <<>> THEN <<>>
                        ELSE <<gaps[roster[i]][1].competency>>
        alike(i) == {j \in DOMAIN roster : principal(j) = principal(i)}
        first == Ascending({i \in DOMAIN roster : \A j \in alike(i) : i <= j})
    IN  [k \in DOMAIN first |-> Ranked(Those(roster, alike(first[k])), gaps)]

\* More gaps than groups: the two smallest become one.
MergeSmallest(buckets, gaps, groups) ==
    LET average(b) == AverageSeverity(gaps, b, Shared(buckets))
        order == SortedBy(buckets, [i \in DOMAIN buckets |->
                   <<Len(buckets[i])>> \o average(buckets[i])])
    IN  IF Len(buckets) <= groups THEN buckets
        ELSE Append(SubSeq(order, 3, Len(order)),
                    Ranked(order[1] \o order[2], gaps))

\* Fewer gaps than groups: the largest is cut in two by severity.
SplitLargest(buckets, groups) ==
    LET order == SortedBy(buckets,
                          [i \in DOMAIN buckets |-> <<0 - Len(buckets[i])>>])
        big   == order[1]
        half  == (Len(big) + 1) \div 2
    IN  IF Len(buckets) >= groups \/ Len(big) < 2 THEN buckets
        ELSE Append(Append(Tail(order), SubSeq(big, 1, half)),
                    SubSeq(big, half + 1, Len(big)))

MergeAll(buckets, gaps, groups) ==
    LET merged[n \in 0 .. Len(buckets)] ==
          IF n = 0 THEN buckets
          ELSE MergeSmallest(merged[n - 1], gaps, groups)
    IN  merged[Len(buckets)]

SplitAll(buckets, groups) ==
    LET split[n \in 0 .. groups] ==
          IF n = 0 THEN buckets ELSE SplitLargest(split[n - 1], groups)
    IN  split[groups]

\* The rule a teacher can defend to a parent.
ClusterStudents(roster, gaps, groups) ==
    LET merged  == MergeAll(ByPrincipalGap(roster, gaps), gaps, groups)
        buckets == SplitAll(merged, groups)
    IN  IF groups <= 1 \/ Len(roster) <= 1 THEN <<roster>>
        ELSE SortedBy(buckets, [i \in DOMAIN buckets |->
               AverageSeverity(gaps, buckets[i], Shared(buckets))])

\* What a model answers is taken when it is a partition of this class into
\* as many groups as were asked for, and otherwise not repaired.
IsPartition(answer, roster, groups) ==
    /\ Len(answer) = groups
    /\ \A i \in DOMAIN answer : answer[i] # <<>>
    /\ Divides(answer, Range(roster))

ModelOrSeed(answer, roster, gaps, groups) ==
    IF Len(roster) > 1 /\ groups > 1 /\ IsPartition(answer, roster, groups)
    THEN answer ELSE ClusterStudents(roster, gaps, groups)
=============================================================================
