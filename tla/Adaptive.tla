------------------------------ MODULE Adaptive ------------------------------
(***************************************************************************)
(* Differentiated sheets: the routes of api/v1/adaptive.py, the task       *)
(* worker/tasks.py:propose_adaptive and services/adaptive_service.py.      *)
(*                                                                         *)
(* A proposal is a job.  The worker reads the class and its results,       *)
(* retrieves what the corpus has, commits, asks a model for what is        *)
(* missing, in calls that carry several plans, commits the rows it made    *)
(* with a progress report, and commits the proposal with the job's         *)
(* success.  Teachers ask, approve, discard and regenerate in between.     *)
(*                                                                         *)
(* A generated row is identified by who made it, and its statement is part *)
(* of its identity: a teacher who rewrites a statement is left out.        *)
(***************************************************************************)
EXTENDS Targeting

CONSTANTS
    Teachers,
    Clicks,          \* the requests for a proposal: each makes at most one job
    Regenerations,   \* the requests to replace one item
    Roster,          \* the class list, in order
    Leavers,         \* the pupils who may move away
    Corpus,          \* exercises of the textbook
    CorpusCovers,    \* the competencies of each
    Evidence,        \* what results a class may have when the term starts
    Requests,        \* Requests[c]: the parameters a click may send
    Groupings,       \* partitions a model may answer
    Statements,      \* what a generated item may say
    Answers,         \* what a model may answer for one plan
    Malformed,       \* an item the response schema refuses
    BatchMax,        \* ADAPTIVE_BATCH_MAX_PLANS
    MaxCrashes,      \* bound: deaths of the worker, of each run
    MaxReviewed,     \* bound: generated rows a teacher gets round to
    Nothing

\* The parameters of a click.
RequestType ==
    [groups : Nat, together : BOOLEAN, byModel : BOOLEAN, items : Nat,
     generate : BOOLEAN, fromSheet : BOOLEAN]

ASSUME AdaptiveAssumption ==
    /\ Roster \in Seq(Int) /\ IsInjective(Roster)
    /\ IsFiniteSet(Corpus)
    /\ \A e \in Evidence, s \in Range(Roster) :
         e[s].sheet \in Seq(Signals) /\ e[s].term \in Seq(Signals)
    /\ \A c \in Clicks : Requests[c] \subseteq RequestType
    /\ Groupings \subseteq Seq(Seq(Int))
    /\ Clicks \cap Regenerations = {}
    /\ Leavers \subseteq Range(Roster)
    /\ Malformed \notin Statements
    /\ BatchMax \in Nat \ {0} /\ MaxCrashes \in [Clicks -> Nat] /\ MaxReviewed \in Nat
    /\ \A a \in Answers : a \in Seq(Statements \union {Malformed})
    /\ <<>> \in Answers /\ Nothing \notin Answers

VARIABLES
    results,    \* the confirmed results of the pupils
    enrolled,   \* the pupils of the class today
    rows,       \* the generated exercises
    approved,   \* those with approved_at
    discarded,  \* those with discarded_at
    stage,      \* stage[c]: how far the request and its job are
    teacher,    \* teacher[c]: who clicked
    request,    \* request[c]: the parameters she clicked with
    handed,     \* handed[c]: the running job it was answered with instead
    work,       \* work[c]: the pupils, the plans and what the plans lack
    seen,       \* seen[c]: the statements that may not come again
    filled,     \* filled[c]: what came back for each ask sent so far
    made,       \* made[c]: the rows the answers became
    proposal,   \* proposal[c]: the adaptive_proposal row of the job
    regen,      \* regen[r]: how far a regeneration is
    crashes,    \* crashes[c]: how often a worker died over the run
    told,       \* history: told[c], what was already discarded at the request
    signedOff   \* history: the generated rows a teacher has ever approved

corpusVars == <<results, enrolled, rows, approved, discarded, signedOff>>
clickVars  == <<teacher, request, handed, told>>
workerVars == <<work, seen, filled, made>>
vars == <<corpusVars, stage, clickVars, workerVars, proposal, regen, crashes>>

-----------------------------------------------------------------------------
(* The rows                                                                *)

Stages == {"idle", "looked", "handed", "queued", "planned", "made", "done",
           "failed"}
InFlight == {"queued", "planned", "made"}

NoWork == [pupils |-> <<>>, plans |-> <<>>, asks |-> <<>>]
NoRegeneration == [stage |-> "idle", target |-> Nothing, made |-> {}]

Init ==
    /\ results \in Evidence
    /\ enrolled = Range(Roster)
    /\ rows = {} /\ approved = {} /\ discarded = {} /\ signedOff = {}
    /\ stage = [c \in Clicks |-> "idle"]
    /\ teacher = [c \in Clicks |-> Nothing]
    /\ request = [c \in Clicks |-> Nothing]
    /\ handed = [c \in Clicks |-> Nothing]
    /\ work = [c \in Clicks |-> NoWork]
    /\ seen = [c \in Clicks |-> {}]
    /\ filled = [c \in Clicks |-> {}]
    /\ made = [c \in Clicks |-> {}]
    /\ proposal = [c \in Clicks |-> Nothing]
    /\ regen = [r \in Regenerations |-> NoRegeneration]
    /\ crashes = [c \in Clicks |-> 0]
    /\ told = [c \in Clicks |-> {}]

\* A row of a run carries the ask it fills and the attempt that made it; that
\* of a regeneration has no ask.
GeneratedRow(by, ask, attempt, statement, covers) ==
    [by |-> by, ask |-> ask, attempt |-> attempt, statement |-> statement,
     covers |-> covers]

-----------------------------------------------------------------------------
(* The request                                                             *)

\* The guard is keyed on the teacher, because the parameters are hers.
IsHers(t, d) == stage[d] \in InFlight /\ teacher[d] = t

\* A click that finds her own run in flight is answered with that job.
Look(c, t) ==
    /\ stage[c] = "idle"
    /\ teacher' = [teacher EXCEPT ![c] = t]
    /\ \E q \in Requests[c] : request' = [request EXCEPT ![c] = q]
    /\ \/ \E d \in Clicks : /\ IsHers(t, d)
                            /\ stage' = [stage EXCEPT ![c] = "handed"]
                            /\ handed' = [handed EXCEPT ![c] = d]
       \/ /\ \A d \in Clicks : ~IsHers(t, d)
          /\ stage' = [stage EXCEPT ![c] = "looked"]
          /\ UNCHANGED handed
    /\ UNCHANGED <<corpusVars, told, workerVars, proposal, regen, crashes>>

\* The insert does not look again.
Insert(c) ==
    /\ stage[c] = "looked"
    /\ stage' = [stage EXCEPT ![c] = "queued"]
    /\ told' = [told EXCEPT ![c] = discarded]
    /\ UNCHANGED <<corpusVars, teacher, request, handed, workerVars, proposal,
                   regen, crashes>>

-----------------------------------------------------------------------------
(* Targeting and retrieval                                                 *)

Retrievable ==
    Corpus \union {e \in rows : e \in approved /\ e \notin discarded}

CoversOf(e) == IF e \in Corpus THEN CorpusCovers[e] ELSE e.covers

\* Without targets the whole subject is a candidate.
Candidates(targets) ==
    {e \in Retrievable : targets = {} \/ CoversOf(e) \cap targets # {}}

\* The ranking is a fixed order here: which of the candidates come first is
\* a matter of scores.
Foremost(S, n) ==
    CHOOSE T \in SUBSET S :
        Cardinality(T) = IF Cardinality(S) < n THEN Cardinality(S) ELSE n

Selected(targets, wanted) ==
    Candidates(targets) \cap Foremost(Candidates(targets), wanted)

GapsByPupil(q) ==
    [s \in Range(Roster) |-> GapsOf(IF q.fromSheet THEN results[s].sheet
                                    ELSE <<>>, results[s].term)]

\* One shared list for some pupils; a list of one's own is a group of one.
PlanFor(members, q, gaps) ==
    LET targets == GroupTargets(members, gaps)
        found   == Selected(Range(targets), q.items)
    IN  [members |-> members, targets |-> Range(targets), retrieved |-> found,
         missing |-> IF q.generate /\ targets # <<>> /\ members # <<>>
                     THEN q.items - Cardinality(found) ELSE 0]

WantsGroups(q, pupils) == q.groups > 1 /\ q.groups < Len(pupils)

\* Either end of the range is a mode that already existed.
Partitions(q, pupils, gaps) ==
    IF WantsGroups(q, pupils)
    THEN IF q.byModel
         THEN {ModelOrSeed(a, pupils, gaps, q.groups) : a \in Groupings}
         ELSE {ClusterStudents(pupils, gaps, q.groups)}
    ELSE IF q.together \/ q.groups = 1 THEN {<<pupils>>}
    ELSE {[i \in DOMAIN pupils |-> <<pupils[i]>>]}

\* Only a plan that lacks items asks for any.  In a run by groups the label of
\* a group is written over that of the last ask so far: the label an ask ends
\* with is that of the last group before the next one to ask.
AsksOf(plans, grouped) ==
    LET nth == Ascending({i \in DOMAIN plans : plans[i].missing > 0})
        label(n) == IF n < Len(nth) THEN nth[n + 1] - 1 ELSE Len(plans)
    IN  [n \in DOMAIN nth |->
           [plan |-> nth[n], count |-> plans[nth[n]].missing,
            label |-> IF grouped THEN label(n) ELSE nth[n]]]

\* The work of a run, before its first call.
WorkOn(plans, pupils, q) ==
    [pupils |-> pupils, plans |-> plans,
     asks |-> AsksOf(plans, WantsGroups(q, pupils))]

PlansOf(partition, q, gaps) ==
    [i \in DOMAIN partition |-> PlanFor(partition[i], q, gaps)]

\* Faulty variant: discards are forgotten between runs.
NothingRejected == {}

RejectedStatements == {e.statement : e \in discarded}

\* Retrieval is durable before the first model call goes out, and the run
\* learns what the teachers have thrown away.
Target(c) ==
    LET q == request[c]
        pupils == Those(Roster, {i \in DOMAIN Roster : Roster[i] \in enrolled})
    IN  /\ stage[c] = "queued"
        /\ \E gaps \in {GapsByPupil(q)} :
           \E partition \in Partitions(q, pupils, gaps) :
             work' = [work EXCEPT ![c] =
                        WorkOn(PlansOf(partition, q, gaps), pupils, q)]
        /\ seen' = [seen EXCEPT ![c] = RejectedStatements]
        /\ filled' = [filled EXCEPT ![c] = {}]
        /\ made' = [made EXCEPT ![c] = {}]
        /\ stage' = [stage EXCEPT ![c] = "planned"]
        /\ UNCHANGED <<corpusVars, clickVars, proposal, regen, crashes>>

-----------------------------------------------------------------------------
(* Generation                                                              *)

\* As many items as were asked for are looked at, and a malformed one costs
\* its neighbours nothing.
ValidItems(answer, count) ==
    IF answer = Nothing THEN {}
    ELSE {answer[i] : i \in {j \in DOMAIN answer : j <= count}} \ {Malformed}

\* Faulty variant: what is seen is rebuilt for every plan.
SeenByPlan(c, answer, k) == seen[c]

\* What may not come again when ask k is filled: the run's memory, which the
\* asks filled before it in the same call have grown.
SeenBefore(c, answer, k) ==
    seen[c] \union UNION {ValidItems(answer[j], work[c].asks[j].count) :
                            j \in {i \in DOMAIN answer : i < k}}

SeenAfter(c, answer) ==
    seen[c] \union UNION {ValidItems(answer[j], work[c].asks[j].count) :
                            j \in DOMAIN answer}

Kept(c, answer, k) ==
    ValidItems(answer[k], work[c].asks[k].count) \ SeenBefore(c, answer, k)

\* The asks of the next call, in order.
Chunk(c) ==
    {k \in 1 .. Len(work[c].asks) :
       /\ k > Cardinality(filled[c])
       /\ k <= Cardinality(filled[c]) + BatchMax}

\* One call fills the next BatchMax asks.  A call that fails is repeated plan
\* by plan, so that each ask ends with an answer of its own, empty when the
\* response has no entry for it or its own call failed.
Generate(c) ==
    /\ stage[c] = "planned"
    /\ Chunk(c) # {}
    /\ \E answer \in [Chunk(c) -> Answers \union {Nothing}] :
         /\ filled' = [filled EXCEPT ![c] = @ \union
              {[ask |-> k, kept |-> Kept(c, answer, k)] : k \in Chunk(c)}]
         /\ seen' = [seen EXCEPT ![c] = SeenAfter(c, answer)]
    /\ UNCHANGED <<corpusVars, stage, clickVars, work, made, proposal, regen,
                   crashes>>

RowsOf(c) ==
    UNION {{GeneratedRow(c, f.ask, crashes[c], s,
                         work[c].plans[work[c].asks[f.ask].plan].targets) :
              s \in f.kept} : f \in filled[c]}

\* "Proposal built": the progress report commits the rows.
Make(c) ==
    /\ stage[c] = "planned"
    /\ Chunk(c) = {}
    /\ stage' = [stage EXCEPT ![c] = "made"]
    /\ rows' = rows \union RowsOf(c)
    /\ made' = [made EXCEPT ![c] = RowsOf(c)]
    /\ UNCHANGED <<results, enrolled, approved, discarded, signedOff,
                   clickVars, work, seen, filled, proposal, regen, crashes>>

\* A line for each ask of a set, owned by the first of its pupils.
FailureLines(c, short) ==
    {[owner |-> work[c].plans[work[c].asks[f.ask].plan].members[1],
      label |-> work[c].asks[f.ask].label,
      requested |-> work[c].asks[f.ask].count,
      produced |-> Cardinality(f.kept)] : f \in short}

\* Faulty variant: only an ask that came back empty is reported.
FailuresWhenEmpty(c) ==
    FailureLines(c, {f \in filled[c] : f.kept = {}})

Failures(c) ==
    FailureLines(c, {f \in filled[c] :
                       Cardinality(f.kept) < work[c].asks[f.ask].count})

\* The generated items of a plan: every member points at the same list.
GeneratedFor(c, i) == {e \in made[c] : work[c].asks[e.ask].plan = i}

\* The proposal row and the job's success are one commit.
Store(c) ==
    /\ stage[c] = "made"
    /\ stage' = [stage EXCEPT ![c] = "done"]
    /\ proposal' = [proposal EXCEPT ![c] =
         [groups |-> [i \in DOMAIN work[c].plans |->
                        [members |-> work[c].plans[i].members,
                         retrieved |-> work[c].plans[i].retrieved,
                         generated |-> GeneratedFor(c, i),
                         missing |-> work[c].plans[i].missing]],
          failures |-> Failures(c)]]
    /\ UNCHANGED <<corpusVars, clickVars, workerVars, regen, crashes>>

\* The worker dies: what it had not committed is gone, and the job is
\* delivered again or written off.
Die(c) ==
    /\ stage[c] \in {"planned", "made"}
    /\ crashes[c] < MaxCrashes[c]
    /\ crashes' = [crashes EXCEPT ![c] = @ + 1]
    /\ \E s \in {"queued", "failed"} : stage' = [stage EXCEPT ![c] = s]
    /\ work' = [work EXCEPT ![c] = NoWork]
    /\ seen' = [seen EXCEPT ![c] = {}]
    /\ filled' = [filled EXCEPT ![c] = {}]
    /\ made' = [made EXCEPT ![c] = {}]
    /\ UNCHANGED <<corpusVars, clickVars, proposal, regen>>

-----------------------------------------------------------------------------
(* The teachers                                                            *)

Reviewable(e) ==
    Cardinality(signedOff \union discarded \union {e}) <= MaxReviewed

Approvable == rows \ discarded

Approve(e) ==
    /\ e \in Approvable
    /\ Reviewable(e)
    /\ approved' = approved \union {e}
    /\ signedOff' = signedOff \union {e}
    /\ UNCHANGED <<results, enrolled, rows, discarded, stage, clickVars,
                   workerVars, proposal, regen, crashes>>

\* PATCH /exercises sets or clears the stamp, also of a discarded row.
PatchExercise(e, stamp) ==
    /\ e \in rows
    /\ Reviewable(e)
    /\ IF stamp THEN /\ approved' = approved \union {e}
                     /\ signedOff' = signedOff \union {e}
                ELSE /\ approved' = approved \ {e}
                     /\ UNCHANGED signedOff
    /\ UNCHANGED <<results, enrolled, rows, discarded, stage, clickVars,
                   workerVars, proposal, regen, crashes>>

Discard(e) ==
    /\ e \in rows
    /\ Reviewable(e)
    /\ discarded' = discarded \union {e}
    /\ approved' = approved \ {e}
    /\ UNCHANGED <<results, enrolled, rows, signedOff, stage, clickVars,
                   workerVars, proposal, regen, crashes>>

\* Faulty variant: the item being replaced is not rejected yet.
OnlyTheRejected(e) == RejectedStatements

\* The outgoing statement counts as rejected before anything is written.
NotAgain(e) == RejectedStatements \union {e.statement}

AskAgain(r) ==
    /\ regen[r].stage = "idle"
    /\ \E e \in rows, item \in Statements \union {Malformed} :
         regen' = [regen EXCEPT ![r] =
           [stage |-> "answered", target |-> e,
            made |-> ValidItems(<<item>>, 1) \ NotAgain(e)]]
    /\ UNCHANGED <<corpusVars, stage, clickVars, workerVars, proposal,
                   crashes>>

Answered(r, s) ==
    [stage |-> s, target |-> regen[r].target, made |-> regen[r].made]

\* Only with a replacement in hand is anything taken away.
Replace(r) ==
    LET e == regen[r].target
        new == {GeneratedRow(r, 0, 0, s, e.covers) : s \in regen[r].made}
    IN  /\ regen[r].stage = "answered"
        /\ IF new = {}
           THEN /\ regen' = [regen EXCEPT ![r] = Answered(r, "failed")]
                /\ UNCHANGED <<rows, approved, discarded>>
           ELSE /\ regen' = [regen EXCEPT ![r] = Answered(r, "done")]
                /\ rows' = rows \union new
                /\ discarded' = discarded \union {e}
                /\ approved' = approved \ {e}
        /\ UNCHANGED <<results, enrolled, signedOff, stage, clickVars,
                       workerVars, proposal, crashes>>

\* A pupil moves away between the request and the run.
Leave(s) ==
    /\ s \in enrolled
    /\ enrolled' = enrolled \ {s}
    /\ UNCHANGED <<results, rows, approved, discarded, signedOff, stage,
                   clickVars, workerVars, proposal, regen, crashes>>

Next ==
    \/ \E c \in Clicks, t \in Teachers : Look(c, t)
    \/ \E c \in Clicks : \/ Insert(c) \/ Target(c) \/ Generate(c)
                          \/ Make(c) \/ Store(c) \/ Die(c)
    \/ \E e \in rows : \/ Approve(e) \/ Discard(e)
                       \/ \E stamp \in BOOLEAN : PatchExercise(e, stamp)
    \/ \E r \in Regenerations : AskAgain(r) \/ Replace(r)
    \/ \E s \in Leavers : Leave(s)

Spec == Init /\ [][Next]_vars

-----------------------------------------------------------------------------
(* What a proposal promises                                                *)

\* The rows stay what their names say.
TypeOK ==
    /\ results \in Evidence /\ enrolled \subseteq Range(Roster)
    /\ approved \subseteq rows /\ discarded \subseteq rows
    /\ \A e \in rows : e.statement \in Statements
    /\ \A c \in Clicks : /\ stage[c] \in Stages
                         /\ seen[c] \subseteq Statements
                         /\ made[c] \subseteq rows
                         /\ told[c] \subseteq discarded
                         /\ proposal[c] # Nothing => stage[c] = "done"
    /\ \A r \in Regenerations : regen[r].made \subseteq Statements
    /\ \A c \in Clicks : crashes[c] \in 0 .. MaxCrashes[c]
    /\ signedOff \subseteq rows

\* Two plans of one run never get the same statement, whichever call each
\* was filled by (adaptive_service.py:428 and 1466).
NothingTwice ==
    \A c \in Clicks : \A f, g \in filled[c] :
        f.ask # g.ask => f.kept \cap g.kept = {}

\* What a teacher had thrown away when she asked is in no proposal she gets,
\* neither the item nor another with its statement, whatever the model says
\* and however often the worker died.
RejectedNeverReturns ==
    \A c \in Clicks : proposal[c] # Nothing =>
        \A i \in DOMAIN proposal[c].groups :
            /\ proposal[c].groups[i].retrieved \cap told[c] \subseteq Corpus
            /\ \A e \in proposal[c].groups[i].generated, d \in told[c] :
                 e.statement # d.statement

\* An item a model wrote comes back from the corpus only after a teacher
\* approved it: what one run generates is not another run's textbook.
RetrievedWasReviewed ==
    \A c \in Clicks : \A i \in DOMAIN work[c].plans :
        work[c].plans[i].retrieved \subseteq Corpus \union signedOff

\* Whose name may stand on the line of list i: its own or, in a run by groups,
\* that of a series after it up to which nothing is asked for.
Names(label, i, lists, grouped) ==
    /\ label \in DOMAIN lists /\ i <= label
    /\ label # i => grouped
    /\ \A j \in i + 1 .. label : ~(lists[j].missing > 0)

\* A list that is shorter than was asked for says so, once, to the pupil it
\* is filed under, with what is missing; and nothing else is reported.  The
\* name the line carries is that of its own list, except that a series which
\* asks for nothing writes its name over that of the ask before it, although the
\* comment at adaptive_service.py:1153-1155 says it "reaches the right one".
ShortfallIsTold ==
    \A c \in Clicks : proposal[c] # Nothing =>
        LET groups  == proposal[c].groups
            grouped == WantsGroups(request[c], work[c].pupils)
            short == {i \in DOMAIN groups :
                        Cardinality(groups[i].generated) < groups[i].missing}
            of(i) == {f \in proposal[c].failures :
                        f.owner = groups[i].members[1]}
        IN  /\ \A i \in short : \E f \in of(i) :
                 /\ of(i) = {f}
                 /\ f.requested = groups[i].missing
                 /\ f.produced = Cardinality(groups[i].generated)
                 /\ Names(f.label, i, groups, grouped)
            /\ proposal[c].failures = UNION {of(i) : i \in short}

\* Every pupil the worker found in the class has one list, nobody has two,
\* nobody is left out, and there are as many series as were asked for, whoever
\* made the partition.
EveryPupilOnce ==
    \A c \in Clicks : proposal[c] # Nothing =>
        LET groups == proposal[c].groups
        IN  /\ Divides([i \in DOMAIN groups |-> groups[i].members],
                       Range(work[c].pupils))
            /\ WantsGroups(request[c], work[c].pupils) =>
                 Len(groups) = request[c].groups
            /\ \A i \in DOMAIN groups :
                 groups[i].members # <<>> \/ work[c].pupils = <<>>

\* Every pupil is served: with one list, and with word of what is missing on
\* it, in whichever call it was filled and whoever drew the groups.
EveryPupilIsServed == EveryPupilOnce /\ ShortfallIsTold

\* A click is never answered with a run to a colleague's parameters
\* (api/v1/adaptive.py:119).
NotAColleaguesRun ==
    \A c \in Clicks : handed[c] # Nothing =>
        teacher[handed[c]] = teacher[c]

\* Replacing takes the old item away in the step that brings the new one, and
\* the new one says something else; a regeneration that fails takes nothing.
ReplacementTakesThePlace ==
    [][\A r \in Regenerations : regen'[r].stage # regen[r].stage =>
         /\ rows' \ rows # {} <=> regen'[r].stage = "done"
         /\ \A e \in rows' \ rows : /\ regen[r].target \in discarded'
                                    /\ e.statement # regen[r].target.statement
         /\ rows' = rows => discarded' = discarded /\ approved' = approved]_vars
=============================================================================
