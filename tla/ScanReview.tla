----------------------------- MODULE ScanReview -----------------------------
(***************************************************************************)
(* The piles of one sheet, from upload to the marks they leave:            *)
(* services/scan_service.py, the page loop of services/scan_processing.py  *)
(* and the grader of services/open_answer_grading.py.                      *)
(*                                                                         *)
(* A handler is one transaction and is one action here.  The worker        *)
(* commits page by page and the grader answer by answer, so requests fall  *)
(* between any two of those.  arq delivers a job again when its worker is  *)
(* killed; each delivery reads from its first file and adds pages of its   *)
(* own.  Copies are one page long and all print the same Items.            *)
(***************************************************************************)
EXTENDS Naturals, FiniteSets

CONSTANTS
    Piles,         \* the scans uploaded against the sheet
    Pages,         \* the pages a delivery makes of a photograph, in the order of
                   \* page_index and, where two have one, of the database
    Items,         \* the exercises of the sheet
    Written,       \* those of them that are answered in writing
    Students,      \* the class the sheet was printed for
    PileOf,        \* PileOf[g]: the pile the photograph of g is uploaded to
    Retakes,       \* those of a photograph added to its pile after the upload
    MaxTries,      \* arq delivers a job so many times at most
    ReadBy,        \* ReadBy[g]: the delivery that makes page g
    Code,          \* Code[g]: who the printed UID of g names, if it registers
    Nobody,        \* the UID does not decode
    Stranger,      \* it names a pupil of another class
    PageCodes,     \* the paper prints which page of its copy each page is
    OtherPaper,    \* the photographs whose nonce is another sheet's or render's
    BubbleReads,   \* what the detector may read of a bubble item
    Overrides,     \* what a teacher may say of an answer
    VisionReads,   \* what the vision model may conclude of a written answer
    EarlyConfirm,  \* a confirmation may come while the pile is being read
    MayFail        \* Redis, the worker and the storage may fail

\* The PROCESS_SCAN jobs, of an upload or of the photographs appended to it
\* (at most one appending to a pile), and their deliveries.
Jobs == [pile : Piles, append : BOOLEAN]
Runs == [pile : Piles, append : BOOLEAN, try : 1 .. MaxTries]
Job(p, append) == [pile |-> p, append |-> append]
First(j) == [pile |-> j.pile, append |-> j.append, try |-> 1]
JobOf(r) == [pile |-> r.pile, append |-> r.append]

ASSUME PilesAssumption ==
    /\ PileOf \in [Pages -> Piles]
    /\ MaxTries \in Nat \ {0}
    /\ ReadBy \in [Pages -> Runs]
    /\ \A g \in Pages :
         ReadBy[g].pile = PileOf[g] /\ (ReadBy[g].append => g \in Retakes)
    /\ Retakes \subseteq Pages /\ OtherPaper \subseteq Pages
    /\ PageCodes \in BOOLEAN /\ (OtherPaper # {} => PageCodes)
    /\ Written \subseteq Items
    /\ Code \in [Pages -> Students \union {Nobody, Stranger}]
    /\ Nobody \notin Students \union Piles /\ Stranger \notin Students
    /\ Nobody # Stranger
    /\ EarlyConfirm \in BOOLEAN /\ MayFail \in BOOLEAN

\* Any set of pages has a last one.
ASSUME PagesAssumption ==
    /\ Pages \subseteq Nat
    /\ \A S \in SUBSET Pages : S # {} => \E g \in S : \A h \in S : h <= g

-----------------------------------------------------------------------------
(* Readings, and what they are worth                                       *)

Outcomes == {"blank", "detected", "low", "multiple", "not_gradeable",
             "pending", "corrected"}
Marks == {"right", "wrong", "none"}
Readings == [outcome : Outcomes, mark : Marks]

Pending == [outcome |-> "pending", mark |-> "none"]
NotGradeable == [outcome |-> "not_gradeable", mark |-> "none"]
Blank == [outcome |-> "blank", mark |-> "none"]

\* What the pipeline leaves of a written answer: nothing in the box, a crop
\* for the grader, or no crop at all.
BoxReads == {Blank, Pending, NotGradeable}

\* A call that fails settles its answer as not gradeable: no verdict is
\* another promise.
ASSUME ReadsAssumption ==
    /\ BubbleReads \subseteq Readings
    /\ VisionReads \subseteq {r \in Readings : r.outcome # "pending"}
    /\ Overrides \subseteq Marks

Ungradeable == "ungradeable"

\* A blank is a graded zero; two marks, no answer and no verdict are nothing.
Grade(reading) ==
    IF reading.outcome = "blank" THEN "zero"
    ELSE IF reading.outcome \in {"multiple", "pending"} \/ reading.mark = "none"
         THEN Ungradeable
         ELSE reading.mark

NoRow == [now |-> NotGradeable, machine |-> NotGradeable,
          byTeacher |-> FALSE, exists |-> FALSE]
Machine(reading) == [now |-> reading, machine |-> reading,
                     byTeacher |-> FALSE, exists |-> TRUE]
Rows == [now : Readings, machine : Readings,
         byTeacher : BOOLEAN, exists : BOOLEAN]

NoAttempt == [pile |-> Nobody, page |-> 0, mark |-> Ungradeable]
Attempts == [pile : Piles, page : Pages, mark : {"right", "wrong", "zero"}]

-----------------------------------------------------------------------------
VARIABLES
    status,   \* status[p]: scan.status
    job,      \* job[j]: the PROCESS_SCAN row of j
    reader,   \* reader[r]: how far delivery r of such a job has got
    todo,     \* todo[r]: the photographs it has decoded and still to read
    seen,     \* seen[r]: the UIDs it has met, its Counter
    chain,    \* chain[r]: it counted a written answer left pending
    strayed,  \* strayed[p]: a job of p was delivered again, or was to run on
              \* after its row had told of an end (auxiliary)
    overrun,  \* overrun[p]: a reader wrote into p after it was signed, and it
              \* has not been reopened since (auxiliary)
    gradeJob, \* gradeJob[p]: the GRADE_OPEN_ANSWERS job row of p
    held,     \* held[p]: the rows the grader of p loaded and has not settled
    grading,  \* grading[p]: the thread of that grader is alive
    page,     \* page[g]: the scan_page row
    row,      \* row[g][i]: the detection rows
    attempt,  \* attempt[s][i]: the one live mark of s on i for this sheet
    older     \* older[p]: the piles last signed before p was, by confirmed_at

jobs == <<job, reader, todo, seen, chain, strayed, overrun>>
graders == <<gradeJob, held, grading>>
readings == <<page, row>>
ledger == <<attempt, older>>
vars == <<status, jobs, graders, readings, ledger>>

Statuses == {"unsent", "uploaded", "processing", "needs_review", "failed",
             "confirmed"}

PageRows == [at : {"unsent", "stored", "live", "discarded"},
             student : Students \union {Nobody}, foreign : BOOLEAN,
             registered : BOOLEAN, paired : BOOLEAN]

\* A loaded detection: the verdict it had then, and whether the table still
\* has it.
HeldRows == [page : Pages, item : Items, mark : Marks, there : BOOLEAN]

\* Between its begin and the first commit a reader will write the status
\* ("running"), or found it written by a delivery before it ("resuming").
Busy == {"running", "resuming", "reading", "ended"}

TypeOK ==
    /\ status \in [Piles -> Statuses]
    /\ job \in [Jobs -> {"none", "queued", "running", "ended"}]
    /\ reader \in [Runs -> {"none", "queued", "over"} \union Busy]
    /\ todo \in [Runs -> SUBSET Pages]
    /\ seen \in [Runs -> SUBSET Students]
    /\ chain \in [Runs -> BOOLEAN]
    /\ strayed \in [Piles -> BOOLEAN]
    /\ overrun \in [Piles -> BOOLEAN]
    /\ gradeJob \in [Piles -> {"none", "queued", "running"}]
    /\ held \in [Piles -> SUBSET HeldRows]
    /\ grading \in [Piles -> BOOLEAN]
    /\ page \in [Pages -> PageRows]
    /\ row \in [Pages -> [Items -> Rows]]
    /\ attempt \in [Students -> [Items -> Attempts \union {NoAttempt}]]
    /\ older \in [Piles -> SUBSET Piles]

Unsent == [at |-> "unsent", student |-> Nobody, foreign |-> FALSE,
           registered |-> FALSE, paired |-> FALSE]

Init ==
    /\ status = [p \in Piles |-> "unsent"]
    /\ job = [j \in Jobs |-> "none"]
    /\ reader = [r \in Runs |-> "none"]
    /\ todo = [r \in Runs |-> {}]
    /\ seen = [r \in Runs |-> {}]
    /\ chain = [r \in Runs |-> FALSE]
    /\ strayed = [p \in Piles |-> FALSE]
    /\ overrun = [p \in Piles |-> FALSE]
    /\ gradeJob = [p \in Piles |-> "none"]
    /\ held = [p \in Piles |-> {}]
    /\ grading = [p \in Piles |-> FALSE]
    /\ page = [g \in Pages |-> Unsent]
    /\ row = [g \in Pages |-> [i \in Items |-> NoRow]]
    /\ attempt = [s \in Students |-> [i \in Items |-> NoAttempt]]
    /\ older = [p \in Piles |-> {}]

PagesOf(p) == {g \in Pages : PileOf[g] = p}
HasRow(g) == page[g].at \in {"live", "discarded"}

\* The pages still in the pile and of this class.
Live(p) == {g \in PagesOf(p) : page[g].at = "live" /\ ~page[g].foreign}

\* pending_detections: the written answers of the pile that await a verdict.
PendingRows(p) ==
    {r \in Live(p) \X Items :
        page[r[1]].paired /\ row[r[1]][r[2]].now.outcome = "pending"}

GradingInProgress(p) == gradeJob[p] # "none"

-----------------------------------------------------------------------------
(* Uploading                                                               *)

\* Stray(p, now): whether p has a stray reading is known from now on.
Stray(p, now) == strayed' = [strayed EXCEPT ![p] = @ \/ now]

\* start_job, after the commit: the worker gets the job, or Redis refuses it
\* and the row is marked failed. A push that timed out may be in Redis too.
Enqueue(j) ==
    \/ /\ job' = [job EXCEPT ![j] = "queued"]
       /\ reader' = [reader EXCEPT ![First(j)] = "queued"]
       /\ UNCHANGED strayed
    \/ /\ MayFail
       /\ job' = [job EXCEPT ![j] = "ended"]
       /\ UNCHANGED <<reader, strayed>>
    \/ /\ MayFail
       /\ job' = [job EXCEPT ![j] = "ended"]
       /\ reader' = [reader EXCEPT ![First(j)] = "queued"]
       /\ Stray(j.pile, TRUE)

Store(photographs) ==
    [g \in Pages |-> IF g \in photographs THEN [page[g] EXCEPT !.at = "stored"]
                                          ELSE page[g]]

Upload(p) ==
    /\ status[p] = "unsent"
    /\ status' = [status EXCEPT ![p] = "uploaded"]
    /\ page' = Store(PagesOf(p) \ Retakes)
    /\ Enqueue(Job(p, FALSE))
    /\ UNCHANGED <<todo, seen, chain, overrun, graders, row, ledger>>

ReadingInFlight(p) == \E j \in Jobs : j.pile = p /\ job[j] \in {"queued", "running"}

\* More photographs into a pile: refused once it is signed and while the row of
\* a reading is in flight. The page they replace, if any, is discarded with
\* them.
Added(p) == {g \in PagesOf(p) \cap Retakes : page[g].at = "unsent"}

AppendPages(p) ==
    /\ status[p] \notin {"unsent", "confirmed"}
    /\ ~ReadingInFlight(p)
    /\ job[Job(p, TRUE)] = "none" /\ Added(p) # {}
    /\ status' = [status EXCEPT ![p] = "uploaded"]
    /\ \E superseded \in SUBSET {g \in PagesOf(p) : HasRow(g)} :
         /\ Cardinality(superseded) <= 1
         /\ page' = [g \in Pages |->
                IF g \in superseded THEN [page[g] EXCEPT !.at = "discarded"]
                                    ELSE Store(Added(p))[g]]
    /\ Enqueue(Job(p, TRUE))
    /\ UNCHANGED <<todo, seen, chain, overrun, graders, row, ledger>>

-----------------------------------------------------------------------------
(* The worker reads the pile                                               *)

\* A delivery begins whatever the row says, and decodes every file of its job
\* that is in the pile by then. A run over retakes starts from the UIDs the
\* earlier runs met.
BeginReading(r) ==
    /\ reader[r] = "queued"
    /\ reader' = [reader EXCEPT ![r] =
            IF status[r.pile] = "processing" THEN "resuming" ELSE "running"]
    /\ job' = [job EXCEPT ![JobOf(r)] = "running"]
    /\ todo' = [todo EXCEPT ![r] =
            {g \in Pages : ReadBy[g] = r /\ page[g].at = "stored"}]
    /\ seen' = [seen EXCEPT ![r] =
            IF r.append
            THEN {Code[g] : g \in {h \in PagesOf(r.pile) :
                                     page[h].at = "live" /\ page[h].registered}}
                     \cap Students
            ELSE {}]
    /\ chain' = [chain EXCEPT ![r] = FALSE]
    /\ UNCHANGED <<status, strayed, overrun, graders, readings, ledger>>

\* One machine reading of every item of a page: bubbles on the default grid
\* until the copy is known, the box of a written answer once it is.
FreshReads(paired) ==
    {reads \in [Items -> BubbleReads \union BoxReads] :
        \A i \in Items : reads[i] \in IF paired /\ i \in Written THEN BoxReads
                                                                 ELSE BubbleReads}

ReadCode(g, registered) == IF registered THEN Code[g] ELSE Nobody

\* Paper without page codes is placed by counting: a pupil's second photograph
\* has no place.
Pairs(r, g, code) ==
    /\ code \in Students
    /\ g \notin OtherPaper
    /\ PageCodes \/ code \notin seen[r]

PageRead(code, registered, paired) ==
    [at |-> "live",
     student |-> IF code \in Students THEN code ELSE Nobody,
     foreign |-> code = Stranger,
     registered |-> registered,
     paired |-> paired]

\* The next photograph becomes a page, in one commit. The count of pending
\* answers is taken from the table, which this page's rows have not reached
\* yet.
ReadAs(r, g, code, registered) ==
    /\ page' = [page EXCEPT ![g] = PageRead(code, registered, Pairs(r, g, code))]
    /\ IF registered /\ code # Stranger /\ g \notin OtherPaper
         THEN \E reads \in FreshReads(Pairs(r, g, code)) :
                row' = [row EXCEPT ![g] = [i \in Items |-> Machine(reads[i])]]
         ELSE UNCHANGED row
    /\ chain' = [chain EXCEPT ![r] =
            @ \/ \E i \in Items : row[g][i].exists /\ row[g][i].now = Pending]
    /\ seen' = [seen EXCEPT ![r] =
            IF g \in OtherPaper THEN @ ELSE @ \union ({code} \cap Students)]
    /\ todo' = [todo EXCEPT ![r] = @ \ {g}]

\* No reader asks whether the pile it writes into is still open.
WritesInto(p) == overrun' = [overrun EXCEPT ![p] = @ \/ status[p] = "confirmed"]

\* The status was written before the first page and goes out with it.
ReadPage(r) ==
    /\ reader[r] \in {"running", "resuming", "reading"}
    /\ \E g \in todo[r], registered \in BOOLEAN :
         /\ \A h \in todo[r] : g <= h
         /\ ReadAs(r, g, ReadCode(g, registered), registered)
    /\ status' = IF reader[r] = "running"
                 THEN [status EXCEPT ![r.pile] = "processing"] ELSE status
    /\ WritesInto(r.pile)
    /\ reader' = [reader EXCEPT ![r] = "reading"]
    /\ UNCHANGED <<job, strayed, graders, ledger>>

\* Faulty variant: the pile is never moved to review.
LeavesProcessing(r) ==
    /\ reader[r] \in {"running", "resuming", "reading"}
    /\ todo[r] = {}
    /\ reader' = [reader EXCEPT ![r] = "ended"]
    /\ UNCHANGED <<status, job, todo, seen, chain, strayed, overrun, graders, readings, ledger>>

\* Every scan lands in review, whatever has become of it meanwhile.
EndReading(r) ==
    /\ reader[r] \in {"running", "resuming", "reading"}
    /\ todo[r] = {}
    /\ status' = [status EXCEPT ![r.pile] = "needs_review"]
    /\ WritesInto(r.pile)
    /\ reader' = [reader EXCEPT ![r] = "ended"]
    /\ UNCHANGED <<job, todo, seen, chain, strayed, graders, readings, ledger>>

\* Delivery r is over or goes on, as at says. A worker that is killed before
\* arq has heard of its end leaves the job to be delivered again.
Left(r, at) ==
    \/ /\ reader' = [reader EXCEPT ![r] = at]
       /\ UNCHANGED strayed
    \/ LET next == [r EXCEPT !.try = @ + 1] IN
       /\ MayFail
       /\ r.try < MaxTries /\ reader[next] = "none"
       /\ reader' = [reader EXCEPT ![r] = at, ![next] = "queued"]
       /\ Stray(r.pile, TRUE)

\* The job succeeds, and hands its pile to the grader when it counted a
\* written answer.
EndJob(r) ==
    /\ reader[r] = "ended"
    /\ job' = [job EXCEPT ![JobOf(r)] = "ended"]
    /\ Left(r, "over")
    /\ \E chained \in {chain[r]} \union (IF MayFail THEN {FALSE} ELSE {}) :
         gradeJob' = IF chained THEN [gradeJob EXCEPT ![r.pile] = "queued"] ELSE gradeJob
    /\ UNCHANGED <<status, todo, seen, chain, overrun, held, grading, readings, ledger>>

\* A file that does not decode fails the pile before any page is written, and
\* the job.
DecodeFails(r) ==
    /\ MayFail
    /\ reader[r] \in {"running", "resuming"}
    /\ status' = [status EXCEPT ![r.pile] = "failed"]
    /\ WritesInto(r.pile)
    /\ job' = [job EXCEPT ![JobOf(r)] = "ended"]
    /\ Left(r, "over")
    /\ UNCHANGED <<todo, seen, chain, graders, readings, ledger>>

\* Any other exception fails the job and leaves the pile as it is.
ReadingRaises(r) ==
    /\ MayFail
    /\ reader[r] \in Busy
    /\ job' = [job EXCEPT ![JobOf(r)] = "ended"]
    /\ Left(r, "over")
    /\ UNCHANGED <<status, todo, seen, chain, overrun, graders, readings, ledger>>

\* The worker is killed, or told to stop while its thread reads on; or no
\* exception could be written. The row goes on saying that it runs.
ReadingBreaks(r) ==
    /\ MayFail
    /\ reader[r] \in Busy
    /\ \E at \in {"over", reader[r]} : Left(r, at)
    /\ UNCHANGED <<status, job, todo, seen, chain, overrun, graders, readings, ledger>>

\* No heartbeat: the row is failed, and what still reads for it reads on.
ReapReader(j) ==
    /\ MayFail
    /\ job[j] = "running"
    /\ job' = [job EXCEPT ![j] = "ended"]
    /\ Stray(j.pile, \E r \in Runs : JobOf(r) = j /\ reader[r] \in Busy)
    /\ UNCHANGED <<status, reader, todo, seen, chain, overrun, graders, readings, ledger>>

-----------------------------------------------------------------------------
(* The grader of written answers                                           *)

\* Every answer still pending is loaded before the first is sent.
StartGrading(p) ==
    /\ gradeJob[p] = "queued"
    /\ gradeJob' = [gradeJob EXCEPT ![p] = "running"]
    /\ grading' = [grading EXCEPT ![p] = TRUE]
    /\ held' = [held EXCEPT ![p] = @ \union
            {[page |-> r[1], item |-> r[2], mark |-> row[r[1]][r[2]].now.mark,
              there |-> TRUE] : r \in PendingRows(p)}]
    /\ UNCHANGED <<status, jobs, readings, ledger>>

\* _settle writes both halves of the row. An update carries only what differs
\* from the row as it was loaded: an absent verdict over none writes none.
Settled(r, loaded, reading) ==
    LET over(old) == [outcome |-> reading.outcome,
                      mark |-> IF reading.mark = loaded THEN old.mark
                                                        ELSE reading.mark]
    IN  [r EXCEPT !.now = over(@), !.machine = over(@)]

\* Faulty variant: the failed commit ends the thread and not the job row.
JobRowStaysRunning(p) ==
    /\ grading[p]
    /\ \E h \in held[p] :
         \/ /\ h.there
            /\ \E reading \in VisionReads :
                 row' = [row EXCEPT ![h.page][h.item] = Settled(@, h.mark, reading)]
            /\ held' = [held EXCEPT ![p] = @ \ {h}]
            /\ UNCHANGED grading
         \/ /\ ~h.there
            /\ held' = [held EXCEPT ![p] = {}]
            /\ grading' = [grading EXCEPT ![p] = FALSE]
            /\ UNCHANGED row
    /\ UNCHANGED <<status, jobs, gradeJob, page, ledger>>

\* One answer, one verdict, one commit. A row that re-reading its page has
\* deleted meanwhile makes the commit fail, and the job with it.
SettleAnswer(p) ==
    /\ grading[p]
    /\ \E h \in held[p] :
         \/ /\ h.there
            /\ \E reading \in VisionReads :
                 row' = [row EXCEPT ![h.page][h.item] = Settled(@, h.mark, reading)]
            /\ held' = [held EXCEPT ![p] = @ \ {h}]
            /\ UNCHANGED <<gradeJob, grading>>
         \/ /\ ~h.there
            /\ held' = [held EXCEPT ![p] = {}]
            /\ gradeJob' = [gradeJob EXCEPT ![p] = "none"]
            /\ grading' = [grading EXCEPT ![p] = FALSE]
            /\ UNCHANGED row
    /\ UNCHANGED <<status, jobs, page, ledger>>

Settle(rows) ==
    [g \in Pages |-> [i \in Items |->
        IF <<g, i>> \in rows
        THEN Settled(row[g][i], row[g][i].now.mark, NotGradeable)
        ELSE row[g][i]]]

\* Whatever became pending while the job ran is settled with it.
EndGrading(p) ==
    /\ grading[p]
    /\ held[p] = {}
    /\ row' = Settle(PendingRows(p))
    /\ grading' = [grading EXCEPT ![p] = FALSE]
    /\ gradeJob' = [gradeJob EXCEPT ![p] = IF @ = "running" THEN "none" ELSE @]
    /\ UNCHANGED <<status, jobs, held, page, ledger>>

GraderDies(p) ==
    /\ MayFail
    /\ grading[p]
    /\ grading' = [grading EXCEPT ![p] = FALSE]
    /\ held' = [held EXCEPT ![p] = {}]
    /\ UNCHANGED <<status, jobs, gradeJob, readings, ledger>>

\* No heartbeat for job_stale_after_s: presumed dead, dead or not.
GradeJobGoesStale(p) ==
    /\ MayFail
    /\ gradeJob[p] = "running"
    /\ gradeJob' = [gradeJob EXCEPT ![p] = "none"]
    /\ UNCHANGED <<status, jobs, held, grading, readings, ledger>>

-----------------------------------------------------------------------------
(* The teacher reviews                                                     *)

\* Faulty variant: the guard of a confirmed pile is missing.
AnyPage(g) == HasRow(g)

\* A confirmed pile is read-only until it is reopened.
Editable(g) == HasRow(g) /\ status[PileOf[g]] # "confirmed"

\* Any value the item printed, none among them; a written answer may also get
\* a new transcription under the verdict it has.
CorrectDetection(g, i) ==
    /\ Editable(g)
    /\ row[g][i].exists
    /\ \E mark \in Overrides :
         row' = [row EXCEPT ![g][i] = [@ EXCEPT
                    !.now = [outcome |-> "corrected", mark |-> mark],
                    !.byTeacher = TRUE]]
    /\ UNCHANGED <<status, jobs, graders, page, ledger>>

RevertDetection(g, i) ==
    /\ Editable(g)
    /\ row[g][i].exists
    /\ row[g][i].now.outcome = "corrected"
    /\ row' = [row EXCEPT ![g][i] = [@ EXCEPT !.now = row[g][i].machine,
                                              !.byTeacher = FALSE]]
    /\ UNCHANGED <<status, jobs, graders, page, ledger>>

SetPageDiscarded(g) ==
    /\ Editable(g)
    /\ \/ page' = [page EXCEPT ![g] = [@ EXCEPT !.at = "discarded",
                                                !.student = Nobody]]
       \/ page' = [page EXCEPT ![g].at = "live"]
    /\ UNCHANGED <<status, jobs, graders, row, ledger>>

\* The correction a teacher made stays on the row it was made on; the machine
\* half is refreshed. What a bubble said is no verdict on a written answer.
Carried(g, i, reading) ==
    LET old == row[g][i]
        verdict == i \in Written /\ ~page[g].paired
    IN  [old EXCEPT
            !.now.mark = IF verdict THEN "none" ELSE @,
            !.machine = IF i \in Written
                        THEN [outcome |-> reading.outcome,
                              mark |-> IF verdict THEN "none" ELSE @.mark]
                        ELSE reading]

\* Faulty variant: every row is deleted, as it was before B6.
CorrectionsDropped(g, reads) == [i \in Items |-> Machine(reads[i])]

\* Redetection: the page is read again, as the copy of a known pupil. Rows no
\* teacher has touched are deleted and written anew.
Redetected(g, reads) ==
    [i \in Items |-> IF row[g][i].byTeacher THEN Carried(g, i, reads[i])
                                            ELSE Machine(reads[i])]

\* The rows a grader holds of a page that is written anew are gone.
Deleted(p, g) ==
    {IF h.page = g /\ ~row[g][h.item].byTeacher THEN [h EXCEPT !.there = FALSE]
                                                ELSE h : h \in held[p]}

\* A page is given to a pupil of the class, and read again if its image can
\* be. A grader is sent for the written answers this leaves pending.
AssignPageStudent(g, s) ==
    LET p == PileOf[g] IN
    /\ Editable(g)
    /\ \E reread \in BOOLEAN :
         /\ reread => page[g].registered
         /\ page' = [page EXCEPT ![g] = [@ EXCEPT !.student = s, !.at = "live",
                        !.foreign = FALSE, !.paired = page[g].paired \/ reread]]
         /\ IF reread
              THEN /\ \E reads \in FreshReads(TRUE) :
                        row' = [row EXCEPT ![g] = Redetected(g, reads)]
                   /\ held' = [held EXCEPT ![p] = Deleted(p, g)]
              ELSE UNCHANGED <<row, held>>
    /\ \/ /\ PendingRows(p)' # {} /\ ~GradingInProgress(p)
          /\ gradeJob' = [gradeJob EXCEPT ![p] = "queued"]
       \/ /\ PendingRows(p)' = {} \/ GradingInProgress(p) \/ MayFail
          /\ UNCHANGED gradeJob
    /\ UNCHANGED <<status, jobs, grading, ledger>>

-----------------------------------------------------------------------------
(* The teacher signs, and takes it back                                    *)

\* The pages of p that give pupil s a mark for item i, under readings rows.
Marking(p, s, i, rows) ==
    {g \in Live(p) : /\ page[g].student = s
                     /\ page[g].paired
                     /\ rows[g][i].exists
                     /\ Grade(rows[g][i].now) # Ungradeable}

LastOf(S) == CHOOSE g \in S : \A h \in S : h <= g

AttemptFrom(p, g, i, rows) ==
    [pile |-> p, page |-> g, mark |-> Grade(rows[g][i].now)]

\* Faulty variant: the button is never disabled.
ButtonIsOn(p) == TRUE

\* The review screen keeps its button disabled while the pile is being read or
\* an answer is pending. The server does not refuse either.
ReadyToSign(p) ==
    \/ EarlyConfirm
    \/ /\ status[p] = "needs_review"
       /\ \A g \in PagesOf(p), i \in Items :
            row[g][i].exists => row[g][i].now.outcome # "pending"

EveryPageIsAssigned(p) == \A g \in Live(p) : page[g].student # Nobody

\* Faulty variant: nobody asks whether a grader is at work.
NoGraderToWaitFor(p) == TRUE

\* A pending answer is a promise, kept or broken.
NoAnswerIsPromised(p) == PendingRows(p) # {} => ~GradingInProgress(p)

\* Faulty variant: a low confidence is counted and nothing else.
UnsureIsGoodEnough(p, rows) == TRUE

\* What the machine was unsure of, somebody has looked at.
EveryReadingIsReviewed(p, rows) ==
    \A g \in Live(p), i \in Items :
        rows[g][i].exists => rows[g][i].now.outcome # "low"

\* Marks were read, and none of them could be matched to the sheet.
MatchesTheSheet(p, rows) ==
    \/ \E s \in Students, i \in Items : Marking(p, s, i, rows) # {}
    \/ \A g \in Live(p), i \in Items : ~rows[g][i].exists

\* What confirm_scan asks of a pile before it writes a mark.
Signable(p, rows) ==
    /\ status[p] \notin {"unsent", "confirmed", "failed"}
    /\ EveryPageIsAssigned(p)
    /\ NoAnswerIsPromised(p)
    /\ EveryReadingIsReviewed(p, rows)
    /\ MatchesTheSheet(p, rows)

\* The lookup of the mark to supersede does not see the insert of the page
\* before: two pages that both mark a new pair violate the unique key.
Collides(p, rows) ==
    \E s \in Students, i \in Items :
        /\ attempt[s][i] = NoAttempt
        /\ Cardinality(Marking(p, s, i, rows)) > 1

\* Faulty variant: a confirmation only ever adds.
OlderMarkStays(p, rows) ==
    [s \in Students |-> [i \in Items |->
        LET marking == Marking(p, s, i, rows) IN
        IF marking = {} \/ attempt[s][i] # NoAttempt
        THEN attempt[s][i]
        ELSE AttemptFrom(p, LastOf(marking), i, rows)]]

\* A mark supersedes the one that is there, whoever wrote it; the last of
\* several pages has the last word.
Superseded(p, rows) ==
    [s \in Students |-> [i \in Items |->
        LET marking == Marking(p, s, i, rows) IN
        IF marking = {} THEN attempt[s][i]
                        ELSE AttemptFrom(p, LastOf(marking), i, rows)]]

\* A reader that has written the status and not committed it holds the row of
\* the scan, which the confirmation locks before it looks.
Locked(p) == \E r \in Runs : r.pile = p /\ reader[r] = "running"

ConfirmScan(p) ==
    LET rows == Settle(PendingRows(p)) IN
    /\ ~Locked(p)
    /\ ReadyToSign(p)
    /\ Signable(p, rows)
    /\ ~Collides(p, rows)
    /\ row' = rows
    /\ attempt' = Superseded(p, rows)
    /\ status' = [status EXCEPT ![p] = "confirmed"]
    /\ older' = [q \in Piles |-> IF q = p THEN {o \in Piles \ {p} : status[o] = "confirmed"}
                                         ELSE older[q] \ {p}]
    /\ UNCHANGED <<jobs, graders, page>>

\* The pages of signed piles, p aside, that carry a reading of i for s.
Standing(p, s, i) ==
    {g \in Pages : /\ PileOf[g] # p
                   /\ status[PileOf[g]] = "confirmed"
                   /\ g \in Live(PileOf[g])
                   /\ page[g].student = s
                   /\ page[g].paired
                   /\ row[g][i].exists}

\* Faulty variant: no ORDER BY.
AnyOf(S) == S

\* _newest_other_confirmed: those of the pile signed last, gradeable or not.
Newest(S) ==
    {g \in S : \A h \in S : PileOf[h] = PileOf[g] \/ PileOf[h] \in older[PileOf[g]]}

\* What is put back for a withdrawn mark; tie picks a page where one pile has
\* two, which the query leaves to the database.
Fallback(p, s, i, tie) ==
    LET found == Newest(Standing(p, s, i))
        g == IF tie \in found THEN tie ELSE LastOf(found)
    IN  IF found = {} \/ Grade(row[g][i].now) = Ungradeable
        THEN NoAttempt
        ELSE AttemptFrom(PileOf[g], g, i, row)

\* Faulty variant: reopening flips the status alone.
NothingIsWithdrawn(p, tie) == attempt

Withdrawn(p, tie) ==
    [s \in Students |-> [i \in Items |->
        IF attempt[s][i].pile = p THEN Fallback(p, s, i, tie) ELSE attempt[s][i]]]

UnvalidateScan(p) ==
    /\ status[p] = "confirmed"
    /\ \E tie \in Pages : attempt' = Withdrawn(p, tie)
    /\ status' = [status EXCEPT ![p] = "needs_review"]
    /\ overrun' = [overrun EXCEPT ![p] = FALSE]
    /\ UNCHANGED <<job, reader, todo, seen, chain, strayed, graders, readings, older>>

-----------------------------------------------------------------------------
Reader(r) == BeginReading(r) \/ ReadPage(r) \/ EndReading(r) \/ EndJob(r)
Grader(p) == StartGrading(p) \/ SettleAnswer(p) \/ EndGrading(p)

ReaderFails(r) == DecodeFails(r) \/ ReadingRaises(r) \/ ReadingBreaks(r)
GraderFails(p) == GraderDies(p) \/ GradeJobGoesStale(p)

OnPile(p) ==
    \/ Upload(p) \/ AppendPages(p) \/ ConfirmScan(p) \/ UnvalidateScan(p)

OnPage(g) ==
    \/ SetPageDiscarded(g)
    \/ \E s \in Students : AssignPageStudent(g, s)
    \/ \E i \in Items : CorrectDetection(g, i) \/ RevertDetection(g, i)

Next ==
    \/ \E r \in Runs : Reader(r) \/ ReaderFails(r)
    \/ \E j \in Jobs : ReapReader(j)
    \/ \E p \in Piles : OnPile(p) \/ Grader(p) \/ GraderFails(p)
    \/ \E g \in Pages : OnPage(g)

Spec == Init /\ [][Next]_vars

\* arq runs the jobs it is handed, several at a time, each to its end; nobody
\* obliges a teacher to do anything.
FairSpec ==
    /\ Spec
    /\ \A r \in Runs : WF_vars(Reader(r))
    /\ \A p \in Piles : WF_vars(Grader(p))

-----------------------------------------------------------------------------
(* The ledger, as its readers see it                                       *)

Answers == Students \X Items

SignedPiles == {p \in Piles : status[p] = "confirmed"}

\* What the pages of a signed pile are worth.
Evidence ==
    [p \in Piles |-> [a \in Answers |->
        IF status[p] = "confirmed"
        THEN {Grade(row[g][a[2]].now) : g \in Marking(p, a[1], a[2], row)}
        ELSE {}]]

\* The attempt rows without the pages they came from.
LiveMarks ==
    [a \in Answers |->
        LET t == attempt[a[1]][a[2]] IN
        IF t = NoAttempt THEN NoAttempt ELSE [pile |-> t.pile, grade |-> t.mark]]

Promise == INSTANCE Ledger WITH
    Grades <- {"right", "wrong", "zero"}, NoMark <- NoAttempt,
    signed <- SignedPiles, evidence <- Evidence, mark <- LiveMarks

-----------------------------------------------------------------------------
(* What must hold                                                          *)

\* Every mark of the ledger stands on a reading that is still there: its pile
\* is signed, its page is in that pile and is that pupil's, and the mark is
\* what that reading grades to today (scan_service.py:375 _refuse_when_confirmed:
\* no "disagreement between a grade and its own evidence"). Excepted are the
\* marks of a pile a reader wrote into after it was signed.
MarkStandsOnReading ==
    \A s \in Students, i \in Items :
        LET a == attempt[s][i] IN
        a # NoAttempt /\ ~overrun[a.pile] =>
            /\ status[a.pile] = "confirmed"
            /\ a.page \in Marking(a.pile, s, i, row)
            /\ a.mark = Grade(row[a.page][i].now)

\* Of all the signed readings of a pupil's answer, the mark is that of the pile
\* signed last among those that can be graded: re-signing and reopening in any
\* order never bring an older mark back over a newer one. Readings of a pile
\* written into after it was signed may be newer than every mark.
NewestSignedWins ==
    \A s \in Students, i \in Items :
        LET a == attempt[s][i] IN
        a # NoAttempt /\ ~overrun[a.pile] =>
            \A g \in Pages :
                /\ status[PileOf[g]] = "confirmed" /\ ~overrun[PileOf[g]]
                /\ g \in Marking(PileOf[g], s, i, row)
                => PileOf[g] = a.pile \/ PileOf[g] \in older[a.pile]

\* No mark rests on a reading the machine was unsure of and nobody reviewed, as
\* long as no reader has written into its signed pile.
NoUnreviewedMark ==
    \A s \in Students, i \in Items :
        LET a == attempt[s][i] IN
        a # NoAttempt /\ ~overrun[a.pile] => row[a.page][i].now.outcome # "low"

\* A signed pile holds no answer that still awaits a verdict, unless a reader
\* added pages to it: "confirming now would lock the pile with that child's
\* answer unrecorded" (scan_service.py:910).
SignedIsSettled ==
    \A p \in Piles :
        status[p] = "confirmed" /\ ~overrun[p] => PendingRows(p) = {}

\* A reader writes into a signed pile only where a job of that pile was
\* delivered again or outlived the end its row tells of. In every other case the
\* in-flight guard of the retakes, the status and the disabled button keep
\* signing and reading apart.
OnlyStraysOverrun ==
    \A p \in Piles : overrun[p] => strayed[p]

\* Signing waits for the grader: it never writes off an answer that a grader
\* holds and has not settled.
SigningWaitsForGrader ==
    [][\A p \in Piles : \A h \in held[p] :
          status[p] # "confirmed" /\ status'[p] = "confirmed" =>
              row'[h.page][h.item] = row[h.page][h.item]]_vars

\* A pile that is and stays signed is read-only: none of its pages changes, and
\* none of its readings (scan_service.py:375). Also a reader that is late only
\* adds pages of its own ("leave everything already read exactly as it is",
\* scan_processing.py:804), and the pile is known to be overrun then.
SignedIsReadOnly ==
    [][\A g \in Pages :
          status[PileOf[g]] = "confirmed" /\ status'[PileOf[g]] = "confirmed" =>
              \/ page'[g] = page[g] /\ row'[g] = row[g]
              \/ ~HasRow(g) /\ overrun'[PileOf[g]]]_vars

\* A signature is taken back by reopening alone, or by a reader that comes after
\* it and leaves its marks in force (a job that runs twice does not cost "time and
\* nothing else", cli.py:215-217). Reopening withdraws what that signature wrote,
\* all of it, and touches no mark of another pile.
ReopeningWithdrawsItsOwn ==
    [][\A p \in Piles :
          status[p] = "confirmed" /\ status'[p] # "confirmed" /\ ~overrun'[p] =>
              \A s \in Students, i \in Items :
                  IF attempt[s][i].pile = p THEN attempt'[s][i].pile # p
                                            ELSE attempt'[s][i] = attempt[s][i]]_vars

\* The piles keep the promise of the ledger while no worker fails: between a
\* signature and its withdrawal neither the marks nor what they stand on change,
\* whatever readers, graders and teachers do meanwhile; a signature marks all it
\* has evidence for, and a withdrawal brings back only the newest of what still
\* stands ("withdraw exactly what it wrote", scan_service.py:647).
KeepsThePromise == Promise!Spec

\* The same of a step, whatever fails: it signs a pile, reopens one or is
\* invisible, unless a reader has written into a signed pile.
KeptUnlessOverrun ==
    [][\/ \E p \in Piles : overrun[p] \/ overrun'[p]
       \/ Promise!Next]_<<SignedPiles, Evidence, LiveMarks, older>>

\* What a teacher has said of an answer stands until a teacher says otherwise:
\* no reader, no grader and no redetection puts a machine's word over it. Only
\* a verdict on what turns out to be a written answer may be unsaid ("a
\* teacher's correction goes beside them", open_answer_grading.py:19).
TeacherHasTheLastWord ==
    [][\A g \in Pages, i \in Items :
          row[g][i].byTeacher =>
              \/ /\ row'[g][i].byTeacher
                 /\ row'[g][i].now.outcome = row[g][i].now.outcome
                 /\ row'[g][i].now.mark = row[g][i].now.mark \/ i \in Written
              \/ CorrectDetection(g, i) \/ RevertDetection(g, i)]_vars

\* A pile whose job was queued comes to review, or is said to have failed.
PileIsRead ==
    \A r \in Runs :
        reader[r] = "queued" ~> status[r.pile] \in {"needs_review", "failed", "confirmed"}

\* A grader that is queued or running is done one day, and no confirmation is
\* refused for its sake for ever.
GradingEnds ==
    \A p \in Piles : GradingInProgress(p) ~> ~GradingInProgress(p)
=============================================================================
