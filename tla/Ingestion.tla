----------------------------- MODULE Ingestion -----------------------------
(***************************************************************************)
(* The shelf of a school: a book is uploaded, indexed and read for         *)
(* exercises by the worker, its other chapters are read when a teacher     *)
(* opens them, and it is taken off the shelf (api/v1/sources.py,           *)
(* ingest/pipeline.py).                                                    *)
(*                                                                         *)
(* An ingest is one transaction: it takes the lock of its source row, then *)
(* works, then commits.  So is the reading of a chapter, which takes no    *)
(* lock before its end.  Of a model call the answer says what stands whole *)
(* in the text it was given, or the call fails.                            *)
(***************************************************************************)
EXTENDS Integers, Sequences, FiniteSets, FiniteSetsExt, Functions

CONSTANTS
    Rows,            \* the ids of source rows
    Readers,         \* jobs that read one chapter
    Library,         \* the books there are
    Book,            \* [opens, text, chapters, chunks, regions] of one
    Emitted,         \* what the model emits of a statement
    Themes,          \* the chapters of the subject, in order: sets of competencies
    MAX_EXTRACTION_CHUNKS, MAX_SECTION_CHUNKS,
    MaxDeliveries, MaxFaults, MaxActs,
    Nothing

ASSUME IngestionAssumption ==
    /\ {MAX_EXTRACTION_CHUNKS, MAX_SECTION_CHUNKS, MaxDeliveries} \subseteq Nat \ {0}
    /\ MAX_SECTION_CHUNKS <= MAX_EXTRACTION_CHUNKS
    /\ {MaxFaults, MaxActs} \subseteq Nat
    /\ Nothing \notin Rows \union Library \union DOMAIN Themes
    /\ Nothing \notin {"ungrounded", "untagged", "rest_waits", "cut_short"}

\* Competencies are finitely many; pages and statements are those there are,
\* and every region that is cut from a page has its code.
ASSUME BooksAssumption ==
    /\ DOMAIN Themes \subseteq Nat /\ IsFiniteSet(UNION Range(Themes))
    /\ \A b \in Library :
         /\ Book[b].chapters \in Seq([from : Nat, to : Nat])
         /\ DOMAIN Book[b].chunks \subseteq Nat /\ IsFiniteSet(DOMAIN Book[b].chunks)
         /\ \A c \in DOMAIN Book[b].chunks : Book[b].chunks[c].says \in Seq(DOMAIN Emitted)
         /\ IsFiniteSet(DOMAIN Book[b].regions)
         /\ \A g \in DOMAIN Book[b].regions :
              Book[b].regions[g].says \in DOMAIN Emitted /\ Book[b].regions[g].label /= Nothing

VARIABLES
    request,    \* of each row, how far the upload that makes it has come
    source,     \* the row: its book, its status, what the shelf says of it
    sections,   \* its chapters
    indexed,    \* whether its chunks are there
    exercises,  \* the textbook exercises of the school
    run,        \* the deliveries of each row's ingest job
    reader,
    deleting,   \* rows a teacher was told nothing cites, and is deleting
    grounded,   \* a model is configured that reads what it is given
    raced,      \* history: rows with two chapters being read at once
    torn,       \* history: copies of a book that was taken away or redone meanwhile
    late,       \* history: what was committed under such a deletion
    acts, faults

shelf == <<source, sections, indexed, exercises>>
history == <<raced, torn, late>>
vars == <<request, shelf, run, reader, deleting, grounded, history, acts, faults>>

Deliveries == 1 .. MaxDeliveries
Runs == Rows \X Deliveries
RunStates == {"none", "begun", "copying", "reading", "dead", "ended"}
ReaderStates == {"idle", "asked", "reading", "ended"}
Statuses == {"absent", "queued", "succeeded", "failed", "deleted"}
Notices == {Nothing, "ungrounded", "untagged", "rest_waits", "cut_short"}

Act == acts < MaxActs /\ acts' = acts + 1
Fault == faults < MaxFaults /\ faults' = faults + 1

HasRow(r) == source[r].status \in {"queued", "succeeded", "failed"}
Of(r) == {e \in exercises : e.src = r}
BookOf(r) == Book[source[r].book]

-----------------------------------------------------------------------------
(* What a reading makes of the model's answer                              *)

Competencies == UNION Range(Themes)

\* A multiple choice needs two options and keeps an answer that is one of
\* them; nothing else keeps either, and only true/false keeps a truth value.
Coerced(item) ==
    LET mcq == item.type = "mcq"
    IN  [type    |-> item.type,
         options |-> IF mcq THEN item.options ELSE 0,
         index   |-> IF mcq /\ item.index /= Nothing /\ item.index \in 0 .. item.options - 1
                     THEN item.index ELSE Nothing,
         bool    |-> IF item.type = "true_false" THEN item.bool ELSE Nothing]

IsClassified(item) == item.type = "mcq" => item.options >= 2

OpenQuestion == [type |-> "open", options |-> 0, index |-> Nothing, bool |-> Nothing]

\* Codes outside the catalogue are dropped.
Catalogue == Competencies
Resolved(item) == item.codes \intersect Catalogue

\* The theme that asks for most of them, the first of equals.
ThemeFor(codes) ==
    LET overlap(t) == Cardinality(Themes[t] \intersect codes)
        best == {t \in DOMAIN Themes : \A u \in DOMAIN Themes : overlap(u) <= overlap(t)}
    IN  IF \A t \in DOMAIN Themes : overlap(t) = 0 THEN Nothing ELSE Min(best)

Tagged(e, item) == [e EXCEPT !.tags = Resolved(item), !.theme = ThemeFor(Resolved(item))]

\* An exercise as it stands on the page, in a chapter of a row.
Exercise(id, r, gen, i, page, says, coded) ==
    [id |-> id, src |-> r, gen |-> gen, sec |-> i, page |-> page, says |-> says,
     coded |-> coded, key |-> OpenQuestion, tags |-> {}, theme |-> Nothing]

Within(page, section) == page \in section.from .. section.to

\* The chunks of a chapter, as places in the book, and those that are read.
ChunksIn(book, section) ==
    {c \in DOMAIN book.chunks : Within(book.chunks[c].page, section)}
ReadIn(book, section) ==
    LET all == ChunksIn(book, section)
    IN  {c \in all : Cardinality({d \in all : d < c}) < MAX_SECTION_CHUNKS}

RegionsIn(book, section) ==
    {g \in DOMAIN book.regions : Within(book.regions[g].page, section)}

\* The places <<chapter, chunk, n>> of the statements the model answers about
\* when some chapters are read and the calls on some chunks fail.
Places(book, chapters, which, failing) ==
    UNION {UNION {{<<i, c, n>> : n \in DOMAIN book.chunks[c].says} :
                    c \in ReadIn(book, chapters[i]) \ failing} : i \in which}
Precedes(p, q) ==
    \/ p[1] < q[1]
    \/ p[1] = q[1] /\ p[2] < q[2]
    \/ p[1] = q[1] /\ p[2] = q[2] /\ p[3] < q[3]
StatementAt(book, p) == book.chunks[p[2]].says[p[3]]

\* Faulty variant: a reading drops what it has found itself, not what the book has already.
NewIn_ThisRun(book, places, seen) ==
    {p \in places :
        /\ IsClassified(Emitted[StatementAt(book, p)])
        /\ \A q \in places : Precedes(q, p) => StatementAt(book, q) /= StatementAt(book, p)}

\* The places that become exercises: what is classified and not seen yet.
NewIn(book, places, seen) ==
    {p \in places :
        /\ IsClassified(Emitted[StatementAt(book, p)])
        /\ StatementAt(book, p) \notin seen
        /\ \A q \in places : Precedes(q, p) => StatementAt(book, q) /= StatementAt(book, p)}

\* The exercises transcribed from those places, chapter after chapter.
Transcribed(r, gen, book, places, seen, by) ==
    LET item(p) == Emitted[StatementAt(book, p)]
        written(p) == Exercise(<<by, p[2], StatementAt(book, p)>>, r, gen, p[1],
                               book.chunks[p[2]].page, StatementAt(book, p), Nothing)
    IN  {[Tagged(written(p), item(p)) EXCEPT !.key = Coerced(item(p))] :
           p \in NewIn(book, places, seen)}

\* What the model says of an exercise that is there already: what cannot be
\* classified stays open.
Classified(e) ==
    LET item == Emitted[e.says]
    IN  [Tagged(e, item) EXCEPT !.key = IF IsClassified(item) THEN Coerced(item) ELSE OpenQuestion]

\* The coded exercises of a chapter that are asked about, the first in order.
IsAskedFirst(d, e) ==
    \/ d.page < e.page
    \/ d.page = e.page /\ d.coded < e.coded
Asked(set) == {e \in set : Cardinality({d \in set : IsAskedFirst(d, e)}) < MAX_SECTION_CHUNKS}

\* What the first chapters cost together, for each number of them.
Together(costs) ==
    LET sum[n \in 0 .. Len(costs)] == IF n = 0 THEN 0 ELSE sum[n - 1] + costs[n]
    IN  sum

\* How many chapters an import reads when they cost so much: it stops before
\* one that does not fit whole, and never before the first.
EagerlyRead(costs) ==
    LET spent == Together(costs)
        goesOn(n) == \/ n = 1
                     \/ spent[n - 1] < MAX_EXTRACTION_CHUNKS /\ spent[n] <= MAX_EXTRACTION_CHUNKS
    IN  Max({n \in 0 .. Len(costs) : \A m \in 1 .. n : goesOn(m)})

-----------------------------------------------------------------------------
(* What an ingest writes                                                   *)

\* Of a chapter it is remembered whose calls failed, and whether it is marked
\* read because it has no coded exercise.
Section(gen, chapter) ==
    [gen |-> gen, from |-> chapter.from, to |-> chapter.to,
     read |-> FALSE, notice |-> Nothing, missed |-> {}, blank |-> FALSE]

\* Faulty variant: a chapter too long for one reading is stamped like any other.
Stamped_Silent(section, cost, missed) ==
    [section EXCEPT !.read = TRUE, !.missed = missed, !.notice = Nothing]

\* A chapter read, with the notice that says it was too long for one reading.
Stamped(section, cost, missed) ==
    [section EXCEPT !.read = TRUE, !.missed = missed,
        !.notice = IF cost > MAX_SECTION_CHUNKS THEN "cut_short" ELSE Nothing]

Content(chapters, new, notice, calls) ==
    [sections |-> chapters, exercises |-> new, notice |-> notice, calls |-> calls]

CallsFor(costs, done) ==
    Together([i \in DOMAIN costs |-> Min({costs[i], MAX_SECTION_CHUNKS})])[done]

\* What the shelf says of a book whose last chapters wait to be opened.
RestNotice(done, chapters) == IF done < Len(chapters) THEN "rest_waits" ELSE Nothing

\* A book without coded exercises: the chapters that fit are transcribed.
FromText(r, gen, book, failing) ==
    LET chapters == [i \in DOMAIN book.chapters |-> Section(gen, book.chapters[i])]
        costs == [i \in DOMAIN chapters |-> Cardinality(ChunksIn(book, chapters[i]))]
        done == EagerlyRead(costs)
    IN  IF ~ grounded THEN Content(chapters, {}, "ungrounded", 0)
        ELSE Content([i \in DOMAIN chapters |->
                        IF i > done THEN chapters[i]
                        ELSE Stamped(chapters[i], costs[i],
                                     failing \intersect ReadIn(book, chapters[i]))],
                     Transcribed(r, gen, book, Places(book, chapters, 1 .. done, failing), {}, gen),
                     RestNotice(done, chapters),
                     CallsFor(costs, done))

\* A book with coded exercises: each is there at once, and the chapters that
\* fit are classified.
FromLayout(r, gen, book, failing) ==
    LET chapters == [i \in DOMAIN book.chapters |-> Section(gen, book.chapters[i])]
        costs == [i \in DOMAIN chapters |-> Cardinality(RegionsIn(book, chapters[i]))]
        done == EagerlyRead(costs)
        cut(i) == {Exercise(<<gen, book.regions[g].label>>, r, gen, i, book.regions[g].page,
                            book.regions[g].says, book.regions[g].label) :
                     g \in RegionsIn(book, chapters[i])}
        answered(i) == {e \in Asked(cut(i)) : e.coded \notin failing}
    IN  IF ~ grounded
        THEN Content([i \in DOMAIN chapters |-> [chapters[i] EXCEPT !.notice = "untagged"]],
                     UNION {cut(i) : i \in DOMAIN chapters}, "untagged", 0)
        ELSE Content([i \in DOMAIN chapters |->
                        IF i > done THEN chapters[i]
                        ELSE [Stamped(chapters[i], costs[i], {}) EXCEPT !.blank = costs[i] = 0]],
                     UNION {IF i > done THEN cut(i)
                            ELSE (cut(i) \ answered(i)) \union {Classified(e) : e \in answered(i)}
                              : i \in DOMAIN chapters},
                     RestNotice(done, chapters),
                     CallsFor(costs, done))

-----------------------------------------------------------------------------
(* Uploading                                                               *)

Idle(set) == [x \in set |-> [pc |-> "idle", row |-> Nothing, gen |-> Nothing, at |-> 0, seen |-> {}]]

Init ==
    /\ request = [r \in Rows |-> "none"]
    /\ source = [r \in Rows |-> [book |-> Nothing, status |-> "absent", notice |-> Nothing, calls |-> 0]]
    /\ sections = [r \in Rows |-> <<>>]
    /\ indexed = [r \in Rows |-> FALSE]
    /\ exercises = {}
    /\ run = [j \in Runs |-> [pc |-> "none", twin |-> Nothing, sections |-> <<>>]]
    /\ reader = Idle(Readers)
    /\ deleting = [r \in Rows |-> FALSE]
    /\ grounded \in BOOLEAN
    /\ raced = {} /\ torn = {} /\ late = {}
    /\ acts = 0 /\ faults = 0

\* The book is looked for by its digest.  One found is the answer, and two
\* are an error: either way nothing changes.  Any unused row will do.
Upload(r, b) ==
    /\ Act
    /\ request[r] = "none" /\ r = CHOOSE q \in Rows : request[q] = "none"
    /\ \A q \in Rows : HasRow(q) => source[q].book /= b
    /\ request' = [request EXCEPT ![r] = "looked"]
    /\ source' = [source EXCEPT ![r].book = b]
    /\ UNCHANGED <<sections, indexed, exercises, run, reader, deleting, grounded, history, faults>>

\* The row and its job, in one commit.
Store(r) ==
    /\ request[r] = "looked"
    /\ request' = [request EXCEPT ![r] = "stored"]
    /\ source' = [source EXCEPT ![r].status = "queued"]
    /\ UNCHANGED <<sections, indexed, exercises, run, reader, deleting, grounded, history, acts, faults>>

\* The queue takes the job, or it does not and the upload is answered 503.
HandOver(r) ==
    /\ request[r] = "stored"
    /\ \/ /\ request' = [request EXCEPT ![r] = "pushed"]
          /\ UNCHANGED faults
       \/ /\ Fault
          /\ request' = [request EXCEPT ![r] = "refused"]
    /\ UNCHANGED <<shelf, run, reader, deleting, grounded, history, acts>>

-----------------------------------------------------------------------------
(* The ingest job                                                          *)

HoldsLock(j) == run[j].pc \in {"copying", "reading"}
Unlocked(r) == \A k \in Deliveries : ~ HoldsLock(<<r, k>>)

IsDone(r) == source[r].status = "succeeded" /\ indexed[r]

\* Faulty variant: a job is delivered once.
Deliver_Once(r, k) ==
    /\ k = 1 /\ request[r] = "pushed" /\ run[<<r, k>>].pc = "none"
    /\ run' = [run EXCEPT ![<<r, k>>].pc = IF HasRow(r) /\ ~ IsDone(r) THEN "begun" ELSE "ended"]
    /\ UNCHANGED <<request, shelf, reader, deleting, grounded, history, acts, faults>>

\* A delivery is the first, or follows one whose worker died or that ran out
\* of time with its thread going on.
Deliver(r, k) ==
    /\ request[r] = "pushed"
    /\ run[<<r, k>>].pc = "none"
    /\ \/ k = 1 /\ UNCHANGED faults
       \/ k > 1 /\ run[<<r, k - 1>>].pc = "dead" /\ UNCHANGED faults
       \/ k > 1 /\ run[<<r, k - 1>>].pc \in {"begun", "copying", "reading"} /\ Fault
    /\ run' = [run EXCEPT ![<<r, k>>].pc = IF HasRow(r) /\ ~ IsDone(r) THEN "begun" ELSE "ended"]
    /\ UNCHANGED <<request, shelf, reader, deleting, grounded, history, acts>>

Die(j) ==
    /\ Fault
    /\ run[j].pc \in {"begun", "copying", "reading"}
    /\ run' = [run EXCEPT ![j].pc = "dead"]
    /\ UNCHANGED <<request, shelf, reader, deleting, grounded, history, acts>>

Twins(r) == {t \in Rows \ {r} : source[t].status = "succeeded" /\ source[t].book = source[r].book}

\* The row is marked running, which takes its lock until the commit, and
\* another that has the same bytes and succeeded is looked for.
Lock(r, k) ==
    LET j == <<r, k>> IN
    /\ run[j].pc = "begun"
    /\ Unlocked(r)
    /\ \/ /\ ~ HasRow(r)
          /\ run' = [run EXCEPT ![j].pc = "ended"]
       \/ /\ HasRow(r) /\ Twins(r) = {}
          /\ run' = [run EXCEPT ![j].pc = "reading"]
       \/ /\ HasRow(r)
          /\ \E t \in Twins(r) :
               run' = [run EXCEPT ![j] = [pc |-> "copying", twin |-> t, sections |-> sections[t]]]
    /\ UNCHANGED <<request, shelf, reader, deleting, grounded, history, acts, faults>>

End(j) == run' = [run EXCEPT ![j].pc = "ended"]

\* What the ingest found, in place of what an earlier one left.
Replace(r, j, content) ==
    /\ source' = [source EXCEPT ![r].status = "succeeded", ![r].notice = content.notice,
                                ![r].calls = content.calls]
    /\ sections' = [sections EXCEPT ![r] = content.sections]
    /\ exercises' = (exercises \ Of(r)) \union content.exercises
    /\ late' = IF deleting[r] THEN late \union {e.id : e \in content.exercises} ELSE late

\* The chapters that can fail to be answered about: none, one call, or all.
Failures(calls) == {{}, calls} \union {{c} : c \in calls}

\* What an ingest may find; the layout that cannot be read is a fault.
TextContents(r, j) ==
    {FromText(r, j, BookOf(r), failing) : failing \in Failures(DOMAIN BookOf(r).chunks)}
LayoutContents(r, j) ==
    {FromLayout(r, j, BookOf(r), failing) :
       failing \in Failures({g.label : g \in Range(BookOf(r).regions)})}

Read(r, k) ==
    LET j == <<r, k>> IN
    /\ run[j].pc = "reading"
    /\ BookOf(r).opens /\ BookOf(r).text
    /\ IF BookOf(r).regions = <<>>
       THEN UNCHANGED faults /\ \E content \in TextContents(r, j) : Replace(r, j, content)
       ELSE \/ UNCHANGED faults /\ \E content \in LayoutContents(r, j) : Replace(r, j, content)
            \/ Fault /\ \E content \in TextContents(r, j) : Replace(r, j, content)
    /\ indexed' = [indexed EXCEPT ![r] = TRUE]
    /\ End(j)
    /\ UNCHANGED <<request, reader, deleting, grounded, raced, torn, acts>>

\* A file that does not open, has no text, or an error on the way: what was
\* there stays, and the row says that the ingest failed.
Fail(r, k) ==
    LET j == <<r, k>>
        readable == BookOf(r).opens /\ BookOf(r).text
    IN
    /\ HoldsLock(j)
    /\ \/ run[j].pc = "reading" /\ ~ readable /\ UNCHANGED faults
       \/ readable /\ Fault
    /\ source' = [source EXCEPT ![r].status = "failed"]
    /\ End(j)
    /\ UNCHANGED <<request, sections, indexed, exercises, reader, deleting, grounded, history, acts>>

\* Faulty variant: a copied exercise keeps the chapter of the book it was copied from.
Copied_NoMap(e, j) == [e EXCEPT !.id = <<j, e.id>>, !.src = j[1]]

\* The exercises of the twin go to the chapters that were copied from it.
Copied(e, j) ==
    LET carried == e.gen = run[j].sections[1].gen
    IN  [e EXCEPT !.id = <<j, e.id>>, !.src = j[1],
                  !.gen = IF carried THEN j ELSE Nothing,
                  !.sec = IF carried THEN e.sec ELSE Nothing]

SameChapters(some, others) ==
    some /= <<>> /\ others /= <<>> /\ some[1].gen = others[1].gen

Copy(r, k) ==
    LET j == <<r, k>>
        t == run[j].twin
    IN
    /\ run[j].pc = "copying"
    /\ Replace(r, j, Content([i \in DOMAIN run[j].sections |-> [run[j].sections[i] EXCEPT !.gen = j]],
                             {Copied(e, j) : e \in Of(t)}, source[t].notice, 0))
    /\ indexed' = [indexed EXCEPT ![r] = indexed[t]]
    /\ raced' = IF t \in raced THEN raced \union {r} ELSE raced
    /\ torn' = IF t \in torn \/ ~ SameChapters(run[j].sections, sections[t])
               THEN torn \union {r} ELSE torn
    /\ End(j)
    /\ UNCHANGED <<request, reader, deleting, grounded, acts, faults>>

-----------------------------------------------------------------------------
(* Reading one chapter                                                     *)

\* A teacher opens a chapter; any idle reader will do.
Ask(x, r, i) ==
    /\ Act
    /\ reader[x].pc = "idle" /\ x = CHOOSE y \in Readers : reader[y].pc = "idle"
    /\ source[r].status = "succeeded"
    /\ i \in DOMAIN sections[r]
    /\ reader' = [reader EXCEPT ![x] = [pc |-> "asked", row |-> r, gen |-> sections[r][i].gen,
                                        at |-> i, seen |-> {}]]
    /\ UNCHANGED <<request, shelf, run, deleting, grounded, history, faults>>

IsThere(x) ==
    LET r == reader[x].row
    IN  HasRow(r) /\ sections[r] /= <<>> /\ sections[r][1].gen = reader[x].gen

Layout(r, i) == {e \in Of(r) : e.sec = i /\ e.coded /= Nothing}

ReadingOf(r) == {x \in Readers : reader[x].pc = "reading" /\ reader[x].row = r}

\* A chapter already read is left alone, and so is any without a model; then
\* the statements the book has already are taken down.
Start(x) ==
    LET r == reader[x].row
        unread == IsThere(x) /\ ~ sections[r][reader[x].at].read /\ grounded
    IN
    /\ reader[x].pc = "asked"
    /\ IF unread
       THEN /\ reader' = [reader EXCEPT ![x].pc = "reading", ![x].seen = {e.says : e \in Of(r)}]
            /\ raced' = IF ReadingOf(r) /= {} THEN raced \union {r} ELSE raced
       ELSE /\ reader' = [reader EXCEPT ![x].pc = "ended"]
            /\ UNCHANGED raced
    /\ UNCHANGED <<request, shelf, run, deleting, grounded, torn, late, acts, faults>>

\* Exercises take the place of others, and the chapter is stamped, in one commit.
WriteChapter(r, i, cost, missed, new, gone) ==
    /\ exercises' = (exercises \ gone) \union new
    /\ sections' = [sections EXCEPT ![r][i] = Stamped(sections[r][i], cost, missed)]
    /\ late' = IF deleting[r] THEN late \union {e.id : e \in new} ELSE late

\* The coded exercises of a chapter are classified, as far as the model answers.
ClassifyChapter(r, i) ==
    \E failing \in Failures({e.coded : e \in Layout(r, i)}) :
        LET answered == {e \in Asked(Layout(r, i)) : e.coded \notin failing}
        IN  WriteChapter(r, i, Cardinality(Layout(r, i)), {}, {Classified(e) : e \in answered}, answered)

\* What a chapter says is transcribed, without the statements that were taken down.
TranscribeChapter(r, i, seen, by) ==
    LET section == sections[r][i]
        found(failing) == Transcribed(r, section.gen, BookOf(r),
                                      Places(BookOf(r), sections[r], {i}, failing), seen, by)
    IN  \E failing \in Failures(ReadIn(BookOf(r), section)) :
            WriteChapter(r, i, Cardinality(ChunksIn(BookOf(r), section)), failing, found(failing), {})

\* The chapter that was asked for is read, if it is still there.
Finish(x) ==
    LET r == reader[x].row
        i == reader[x].at
    IN
    /\ reader[x].pc = "reading"
    /\ reader' = [reader EXCEPT ![x].pc = "ended"]
    /\ \/ ~ IsThere(x) /\ UNCHANGED <<sections, exercises, late>>
       \/ IsThere(x) /\ Layout(r, i) /= {} /\ ClassifyChapter(r, i)
       \/ IsThere(x) /\ Layout(r, i) = {} /\ TranscribeChapter(r, i, reader[x].seen, x)
    /\ UNCHANGED <<request, source, indexed, run, deleting, grounded, raced, torn, acts, faults>>

-----------------------------------------------------------------------------
(* Teachers and the deployment                                             *)

IsCited(r) == Of(r) /= {}

\* Nothing cites the book when it is asked for ...
AskDelete(r) ==
    /\ Act
    /\ HasRow(r)
    /\ ~ IsCited(r)
    /\ ~ deleting[r]
    /\ deleting' = [deleting EXCEPT ![r] = TRUE]
    /\ UNCHANGED <<request, shelf, run, reader, grounded, history, faults>>

\* An exercise outlives its book and its chapter.
Freed(e) == [e EXCEPT !.src = Nothing, !.gen = Nothing, !.sec = Nothing]

\* ... and the row goes once no ingest holds it.
Delete(r) ==
    /\ deleting[r]
    /\ Unlocked(r)
    /\ deleting' = [deleting EXCEPT ![r] = FALSE]
    /\ source' = [source EXCEPT ![r].status = "deleted"]
    /\ sections' = [sections EXCEPT ![r] = <<>>]
    /\ indexed' = [indexed EXCEPT ![r] = FALSE]
    /\ exercises' = (exercises \ Of(r)) \union {Freed(e) : e \in Of(r)}
    /\ UNCHANGED <<request, run, reader, grounded, history, acts, faults>>

\* A provider and its key are set.
Configure ==
    /\ ~ grounded
    /\ grounded' = TRUE
    /\ UNCHANGED <<request, shelf, run, reader, deleting, history, acts, faults>>

-----------------------------------------------------------------------------
Deliveries_(r) == \E k \in Deliveries : Deliver(r, k)
Work(j) == Lock(j[1], j[2]) \/ Read(j[1], j[2]) \/ Fail(j[1], j[2]) \/ Copy(j[1], j[2])

\* What Work does to the run itself: it gets its lock, and it ends.
Turn(j) == Lock(j[1], j[2]) \/ (HoldsLock(j) /\ End(j))

Next ==
    \/ \E r \in Rows : \/ \E b \in Library : Upload(r, b)
                       \/ Store(r) \/ HandOver(r) \/ AskDelete(r) \/ Delete(r)
                       \/ Deliveries_(r)
    \/ \E j \in Runs : Work(j) \/ Die(j)
    \/ \E x \in Readers : \/ \E r \in Rows : \E i \in DOMAIN sections[r] : Ask(x, r, i)
                          \/ Start(x) \/ Finish(x)
    \/ Configure

\* Redis delivers what it took and delivers it again after a death, a thread
\* of the worker goes on, and the database gives the lock it waits for.
Fairness ==
    /\ \A r \in Rows : WF_vars(Deliveries_(r))
    /\ \A j \in Runs : WF_run(Turn(j))

Spec == Init /\ [][Next]_vars /\ Fairness

-----------------------------------------------------------------------------
(* Properties                                                              *)

TypeOK ==
    /\ request \in [Rows -> {"none", "looked", "stored", "pushed", "refused"}]
    /\ source \in [Rows -> [book : Library \union {Nothing}, status : Statuses,
                            notice : Notices, calls : 0 .. MAX_EXTRACTION_CHUNKS]]
    /\ indexed \in [Rows -> BOOLEAN]
    /\ \A r \in Rows : \A i \in DOMAIN sections[r] :
         sections[r][i].read \in BOOLEAN /\ sections[r][i].notice \in Notices
    /\ \A e \in exercises : e.src \in Rows \union {Nothing}
    /\ \A j \in Runs : run[j].pc \in RunStates
    /\ \A x \in Readers : reader[x].pc \in ReaderStates
    /\ deleting \in [Rows -> BOOLEAN]
    /\ raced \subseteq Rows /\ torn \subseteq Rows

\* An exercise of a book stands in one of its chapters, which holds the page
\* the exercise is on, however the book came to the shelf: the chapter is how
\* a teacher finds it (_persist_sections, _copy_from_twin).
EveryExerciseHasItsChapter ==
    \A e \in exercises : e.src \in Rows \ torn =>
        \E i \in DOMAIN sections[e.src] :
            /\ e.sec = i
            /\ e.gen = sections[e.src][i].gen
            /\ Within(e.page, sections[e.src][i])

\* No statement is transcribed twice from one book, whatever is read, copied
\* or done again in whatever order, unless two of its chapters were being
\* read at the same time (_existing_statements, extract_section).
NothingTranscribedTwice ==
    \A d, e \in exercises :
        /\ d /= e /\ d.src = e.src /\ d.says = e.says
        /\ d.coded = Nothing \/ e.coded = Nothing
        => d.src \in raced \union {Nothing}

\* A chapter was read to its end: what can be classified in it is an exercise
\* of the book, or stands in a chunk for which the model did not answer.
IsReadWhole(r, section) ==
    \A c \in ChunksIn(BookOf(r), section) \ section.missed :
        \A s \in Range(BookOf(r).chunks[c].says) :
            IsClassified(Emitted[s]) => \E e \in Of(r) : e.says = s

\* A chapter is shown as read, and nothing is said about it; of a chapter with
\* coded exercises only those are read.
IsShownAsRead(r, i) ==
    sections[r][i].read /\ sections[r][i].notice = Nothing /\ Layout(r, i) = {}

\* A chapter that is shown as read was read to its end, unless the import of a
\* coded book passed it over (_extract_into_section).
ReadMeansRead ==
    \A r \in Rows \ torn : \A i \in DOMAIN sections[r] :
        IsShownAsRead(r, i) /\ ~ sections[r][i].blank => IsReadWhole(r, sections[r][i])

\* A book that succeeded without a notice has every chapter read: a green tick
\* never hides chapters that were left out (_extract_eagerly, Source.notice).
GreenTickIsHonest ==
    \A r \in Rows \ torn : source[r].status = "succeeded" /\ source[r].notice = Nothing =>
        indexed[r] /\ \A i \in DOMAIN sections[r] : sections[r][i].read

\* An import makes no more calls than its ceiling, the first chapter being
\* read whatever its length (MAX_EXTRACTION_CHUNKS).
ImportStaysInBudget ==
    \A r \in Rows : source[r].calls <= MAX_EXTRACTION_CHUNKS

\* What is tagged leads to a theme that asks for one of its competencies, and
\* a key is one of the options that are printed (_coerce_classification,
\* _resolve_competencies, _chapter_for).
TagsAndKeysHold ==
    \A e \in exercises :
        /\ e.tags = {} <=> e.theme = Nothing
        /\ e.theme /= Nothing => Themes[e.theme] \intersect e.tags /= {}
        /\ e.key.index /= Nothing => e.key.type = "mcq" /\ e.key.index \in 0 .. e.key.options - 1
        /\ e.key.type = "mcq" => e.key.options >= 2

\* An exercise cut from a book loses its book only if it was committed while
\* that book, which nothing cited, was being deleted (nouns.delete_source).
ProvenanceIsKept ==
    \A e \in exercises : e.src = Nothing => e.id \in late

\* An exercise keeps its place: it is in a chapter of its book that holds its
\* page, under themes and with a key that fit it, and it loses the book only
\* with the book.
EveryExerciseHasItsPlace ==
    TypeOK /\ EveryExerciseHasItsChapter /\ TagsAndKeysHold /\ ProvenanceIsKept

\* The shelf is honest: what it shows as read was read, what it shows as
\* finished hides no chapter, and the import spent no more than its budget.
ShelfIsHonest == ReadMeansRead /\ GreenTickIsHonest /\ ImportStaysInBudget

\* An ingest the queue took ends, with the book on the shelf, a failure that
\* says so or the book deleted, through deaths and lock waits.
PushedIsIngested ==
    \A r \in Rows : request[r] = "pushed" ~> source[r].status \in {"succeeded", "failed", "deleted"}
=============================================================================
