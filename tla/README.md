# Alppy in TLA+

Alppy prints worksheets for a class, photographs them when they come back, reads
the marks, lets a teacher correct the readings, and keeps the marks a teacher has
signed. The back end is a FastAPI application over Postgres (`src/apps/api/alppy`),
with an arq worker fed through Redis; the front end is a Next.js application.

This directory models the parts of it where steps of several actors meet: the
request, its retry, the worker that reads a pile of photographs, the grader of
written answers, the renderer of a sheet, the importer of a book, the operator who
migrates the database, and the teacher. Paths below are relative to
`src/apps/api/alppy/` unless they begin with `src/`.

## 1. The system

| part | state it keeps | operations | talks to |
|---|---|---|---|
| Idempotent requests (`services/idempotency.py`, `api/deps.py:start_job`, `worker/queue.py`) | `idempotency_key` rows, `job` rows, the Redis queue | claim, work, enqueue, finish, release | every POST that creates work |
| Scan review (`services/scan_service.py`, `api/v1/scans.py`) | `scan.status`, `scan_page`, `detection` | upload, append, correct, revert, discard, assign, confirm, unvalidate | worker (jobs), ledger |
| Reading a pile (`services/scan_processing.py`, `scan/`) | pages and detections, one commit a page | process_scan, redetect_page | storage, the printed codes, the sheet's render |
| Grading written answers (`services/open_answer_grading.py`) | the verdict halves of a detection, a grading job | queue, chain, grade_open_answers, settle_abandoned | the AI provider, scan review |
| The ledger (`Attempt`) | one live mark per pupil, exercise and sheet | superseded on confirmation, withdrawn on reopening | mastery, reports |
| Jobs (`worker/tasks.py`, `worker/main.py`, `cli.py`) | `job.status`, progress as a heartbeat | run, fail, succeed, reap | all workers |
| Sheets and approval (`services/sheet_service.py`, `services/approval.py`, `sheets/render.py`) | items, instances, render generation, PDF keys, answer-box placements | edit, approve, discard, render, mark printed | the worker, storage, scan reading (nonce, placements) |
| Printed codes (`sheets/uid_code.py`) | none | encode, decode | rendering, reading |
| Pagination (`sheets/pagination.py`) | none | paginate | rendering |
| Mastery (`mastery/model.py`, `services/mastery_service.py`) | none of its own, folds attempts | estimate, roll up, band | reports, adaptive sheets |
| Adaptive sheets (`services/adaptive_service.py`) | proposals, generated exercises awaiting approval | propose, generate | AI provider, approval |
| Ingestion (`ingest/`, `api/v1/sources.py`) | source status, sections, exercises, media | ingest, extract_section | AI provider, storage |
| Enrolment (`services/enrollment.py`, `db/validity.py`) | half-open memberships | who may read whom | every gate of the API |
| Nouns, erasure, storage (`services/nouns_service.py`, `storage.py`) | rows and objects | delete a pupil | every part |
| Sessions and limits (`api/deps.py`, `api/v1/auth.py`) | cookies, token buckets | log in, throttle | requests |
| Events, audit, export | append-only logs | record | none |
| AI client and privacy gate (`ai/`) | prompt log | complete | external provider |
| Seed, command line, migrations (`alembic/`, `cli.py`) | the schema, `alembic_version` | upgrade, downgrade, reap jobs (modelled with jobs) | database |
| Web front end (`src/apps/web`) | drafts, polling | review screen | API |

### Interactions that make it hard

- **Commits that are not one.** A keyed upload is four transactions and a push to
  Redis. The reader of a pile commits page by page and the grader answer by answer,
  so any request can fall between two of them.
- **Retries.** The client retries with the same `Idempotency-Key`; arq redelivers a
  job; a teacher adds retakes to a pile that failed.
- **Edits during long work.** A render, a proposal, a chapter's reading and a grading read
  the database, spend minutes in a browser or with a model, and write afterwards; every
  request may fall in between, and so may another run of the same kind.
- **Paper does not forget.** What was printed stays as it was, while the sheet, its item
  plan and its exercises are edited; a photograph is read against what the database says today.
- **Crashes.** A process dies between two commits; a worker dies with its job row at
  `running`; a grader dies or only looks dead (`job_stale_after_s`).
- **Stale reads.** The session does not autoflush (`db/session.py:76`): what was
  added is not in the table a later query reads. The grader writes over rows it
  loaded minutes before.
- **Long sequences of legal calls.** Piles of one sheet are signed, reopened and
  signed again, and each pupil's answer has one mark in the ledger that must follow.

### What makes each part correct

- *Requests*: one worker per key, a claim nobody else releases, all the 2xx answers
  of a key tell of one committed piece of work, a stored answer is final, a claim ends.
- *Review and ledger*: a mark stands on a reading that is still in a signed pile and
  still grades to it; the newest signed gradeable reading wins; reopening withdraws
  its own marks and no others; a signed pile is read-only; no mark comes from a doubtful
  reading nobody looked at; a teacher has the last word.
- *Reading and grading*: a queued pile comes to review; a grader ends; an answer left
  pending gets its verdict; a signature waits for a grader that lives and not for one
  that is gone.
- *Jobs*: a job that started is ended by its own thread or the reaper, once.
- *Sheets*: what is on paper was approved; the generation printed on a page names one
  layout; a page is read against what was printed on it.
- *Answers*: a mark counts for the question the pupil read beside it, under the pupil who
  wrote it; none is missed, none is counted twice in silence, no correction is lost.
- *Adaptive sheets*: each pupil of today gets one list; nothing is printed twice, nothing
  rejected comes back, nothing unreviewed is retrieved.
- *Ingestion*: an exercise has its chapter, no statement is transcribed twice, and what the
  shelf shows as read was read.
- *Migrations*: each statement finds what it needs, the chain ends at the models, also after a
  run that died in its middle.
- *Pure parts*: the checksum rejects small misreadings, pagination loses and splits
  nothing, a roll-up lies between its parts, half-open memberships meet only when the
  people did.

## 2. The modules

A component has its module, an `MC…` module and a `.cfg` with the instance, and where it is
proved about a `…Proofs` module. Definitions under *Faulty variant* belong to no behaviour:
each is a plausible bug of the definition after it, kept to see that a property notices.
`PROJECT.json` names the lines each definition stands for.

### Idempotency (`Idempotency.tla`, `IdempotencyProofs.tla`)

A request is a process with a program counter: `Claim` (insert and commit),
`Collide`/`ReadExisting` (the unique constraint refused it, the row is read in the
*next* transaction), `WorkCommits`/`WorkRaises`, `EnqueueSucceeds`/`EnqueueFails`
(`start_job`), `AnswerIsBuilt`/`AnswerRaises` (the pile is read back and its links are signed, after
the hand-over), `Finish`, `Release`, and `Crash` between any two. `row[k]` is the
`idempotency_key` row, `effect[r]` the pile and job row that request committed,
`pushed` what Redis holds, `answer[r]` whose work its 2xx answer describes. A push that times
out may or may not have reached Redis.

### ScanReview (`ScanReview.tla`, `ScanReviewProofs.tla`)

All the piles of one sheet. One action per HTTP handler, as each is one transaction. The worker is split
where it commits, per *delivery* `r` of a reading job (`Jobs`, `Runs`): `BeginReading` (the row goes to
running), `ReadPage` once per photograph, `EndReading`, `EndJob` (with `_chain_after`), and the grader into
`StartGrading` (load the pending rows), `SettleAnswer` per answer, `EndGrading` (settle what is left).
`job[j]` is the row, `reader[r]` what a delivery of it does: they part when the row is reaped under a
reader that goes on (`ReapReader`), a push is refused that Redis took (`Enqueue`), or a worker is killed
before arq has heard of the end (`Left`), which brings the next delivery. Each delivery reads from its first file and makes
pages of its own (`ReadBy`), whatever has become of the pile meanwhile. A reader holds the row of the pile from its
first write to its first commit, and a confirmation waits for it (`Locked`). `gradeJob` is the grader's row,
`grading`/`held` its thread and the rows in its session, `row[g][i]` the
detection with its current half (`now`), its machine half and whether a teacher
corrected it; `attempt[s][i]` the ledger; `older[p]` the order of `confirmed_at`.

Two histories say what the code allows and no more: `overrun[p]`, a reader wrote into `p` after it was signed
and it has not been reopened since; `strayed[p]`, a job of `p` was delivered again or had a reader left when its row
told of an end. No action reads them.

Abstractions: a mark is right, wrong or none instead of an option index (grading is
`Grade`, from `scan/grading.py`); a confidence is reduced to sure or low; a printed
code names a pupil, a stranger or nobody; a copy is one page long; the detector and
the vision model may read anything the configuration lists. `ReadyToSign` with
`EarlyConfirm = FALSE` is the review screen, whose button is disabled while a pile is
being read or an answer is pending (`src/apps/web/.../scans/[scanId]/page.tsx:266`);
with `TRUE` it is the API itself, which does not refuse.

### Ledger (`Ledger.tla`)

What the marks of a sheet promise to mastery and to the reports, which see neither pages
nor workers: `Sign` takes the evidence a pile has at that moment and marks every
answer it has some for; `Reopen` withdraws the pile's marks and may put back one of the
newest pile that still has evidence; nothing else changes a mark or the evidence under it.
`ScanReview` maps to it by `SignedPiles`, `Evidence` (what the pages of a signed pile are
worth), `LiveMarks` and `older`. `KeepsThePromise` is that instance's specification, and holds while no worker fails;
`KeptUnlessOverrun` says of every step, whatever fails, that it is one of the ledger's or invisible to it, unless a
reader has written into a signed pile. That
a reopening puts back *all* that stands is not promised, because the code does not do it
(section 5).

### JobLifecycle (`JobLifecycle.tla`, `JobLifecycleProofs.tla`)

One kind of job with an in-flight guard, from the click to the row that says how it ended.
`request` is the handler (check, write the row, push), `job` the row, `queue` and `slot` what
arq holds and counts, `thread` the Python thread that goes on when arq's task is cancelled.
The push that fails, the thread and the reaper of `cli.py` each write the row without looking
at what they overwrite. `TimeOut`, `Kill` and redelivery are arq's; `reported` and `overlap` are
histories that let a property say what the code allows and no more.

### SheetPrinting (`SheetPrinting.tla`, `SheetPrintingProofs.tla`)

One sheet: its items or per-pupil plans, what was generated and by whom it was approved, its
feedback notes, its renders. A request is one action. A render, queued by either of two routes (`Doors`,
each with its own object keys; both take any sheet), reads under READ COMMITTED what stands at each
moment: `OpenSheet` loads the row, `PassDoor` the items and refuses what waits for approval, and
`BuildDocument` the copies, after the pictures were fetched. Then `StoreBlank`/`StoreKey`/`StoreFeedback`
put objects under keys without a generation, and `CommitRender` writes generation, PDF key and the
rectangles of the answer boxes. A pile pins the generation of the day it is uploaded. The histories
`slipped` (a document whose sheet was edited between the door and its making) and `spoilt` (a key whose
object came from a render an edit had overtaken, or was refused by the store) let the properties say what the
code allows and no more.

### Pagination, PrintedCodes, BubbleDetector

Pure parts, proved about in `PrintProofs.tla`. `Pagination` packs the items of a copy on pages in hundredths of a millimetre:
wrapped lines, options, a picture shrunk to the room its text leaves, a box split from its
statement. `PrintedCodes` encodes the UID and the page code to the bits of the printed grid with
their checksums and decodes them with up to two cells misread. `BubbleDetector` decides an item
from the darkness of its bubbles, in hundredths, and lowers the confidence of blanks on a page
that has too many.

### Paper (`Paper.tla`, `PaperProofs.tla`)

What a mark on paper comes to mean; it composes those three. A sheet of several pages per copy is
printed (`Render`), edited (`ReplaceItems`, `EditStatement`), photographed (`Upload`,
`AppendPages`), read page by page (`BeginReading`, `ReadPage`, `EndReading`) and reviewed
(`CorrectDetection`, `SetPageDiscarded`, `AssignPageStudent` with its redetection). `printed[g]` is
what the paper of render *g* shows, `Today` what the database says now; a photograph is of the paper
of some render or of another sheet, and `ReadAgainst` is the pairing of its rows with the page that
is paginated again to read it.

### Adaptive (`Ordering.tla`, `Targeting.tla`, `Adaptive.tla`, `AdaptiveProofs.tla`)

`Targeting` is the pure part: bands, the competencies a pupil is served, groups and their repair. A sort
is an order of the places of a sequence (`Ordering`: what has n before it comes after n), and a loop that
merges or splits groups is a recursive function of its turns.
`Adaptive` is the run: a click, the guard, retrieval, calls to a model that carry several asks and
whose answers come short, malformed, repeated or not at all, the proposal; and the teachers, who
approve, discard and regenerate rows meanwhile.

### Ingestion (`Chunking.tla`, `Outline.tla`, `Ingestion.tla`, `IngestionProofs.tla`)

`Outline` divides a book in chapters and coded regions, `Chunking` a page in chunks. A coded exercise is open
(`pending`) while pages say that it goes on; a page takes part in it only when something stands above its first
header. `Ingestion` is
the shelf: an upload that looks for a twin, an ingest under the lock of its source row that copies
the twin or reads the first chapters, its redelivery after a death, readings of single chapters
with no lock, and a deletion split at its check.

What stands in a chapter is a set of places `<<chapter, chunk, n>>` in the order of the book
(`Precedes`): the loop of `_extract_into_section` over chunks and items, with its set of seen
statements, keeps a place if the model's item can be classified, the statement was not seen when the
loop began, and no earlier place has it (`NewIn`). `EagerlyRead` is how many chapters the budget of an
import pays for, over their costs added up (`Together`). `exercises` are rows with the ingest (`gen`) and the
chapter (`sec`) they point to; `raced`, `torn` and `late` are histories that let a property say what
the code allows and no more.

### Migrations (`Schema.tla`, `Revisions.tla`, `Models.tla`, `Migrations.tla`)

A schema is a set of facts. `Schema` says what a statement needs and does, `Revisions` is the chain
of fifty-two migrations, upgrade and downgrade, statement by statement, `Models` the schema
the SQLAlchemy models declare, and `Migrations` alembic's runner: one transaction for a whole run,
`COMMIT`s inside five migrations, the concurrent index of 0042, deaths and the retry of
`entrypoint.sh`.

## 3. What is checked

| run | instance | properties |
|---|---|---|
| `idempotency` | 3 POSTs of one key, one without; the processes of two keyed ones and of the unkeyed may die | `OneAnswer`, `OneLiveWrite`, `ClaimIsMine`; `ClaimEnds` for the immortal request |
| `three_piles` | 3 piles, one photograph each (a pupil's, one of another sheet, one of another class) and one pupil to give them to, one item: the least number where a reopening has two older signed piles to choose from | `NewestSignedWins`; `KeepsThePromise`, the refinement of `Ledger` |
| `read_again` | one photograph whose job may be delivered twice, 2 pupils, every fault of the worker, signed at any time through the API | `MarkStandsOnReading`, `NoUnreviewedMark`, `SignedIsReadOnly`, `ReopeningWithdrawsItsOwn`, `KeptUnlessOverrun`, `TeacherHasTheLastWord` |
| `written` | a photograph of one written answer and a retake, signed at any time through the API; no fault | `SigningWaitsForGrader`; `PileIsRead`, `GradingEnds` |
| `written_faults` | one photograph, one written answer, every fault, up to two deliveries, signed on the review screen | `SignedIsSettled`, `OnlyStraysOverrun` |
| `printing` | one book item, one generated; a class sheet, or a batch with a note for one of 2 pupils; 2 renders by either route that may overlap, 2 generations, one pile | `PaperWasApproved`, `StaleOnlyIfOvertaken` |
| `jobs` | two clicks, one of whose processes may die; one slot, two kills | `SuccessHasItsResult`, `OneRunAtATime`; `AnsweredJobEnds` |
| `migrations` | the whole chain between eight revisions, two runs that die | `ChainIsSound`, `NothingIsRefused`, `HeadIsTheModels` |
| `adaptive` | 2 teachers, 2 clicks, 3 pupils, two asks a call; one worker death | `NothingTwice`, `RejectedNeverReturns`, `EveryPupilIsServed`, `ReplacementTakesThePlace` |
| `paper` | 2 pupils and a stranger; 2 plans, 2 editions, 2 renders; uploads of one or two photographs and a retake; 3 acts | `PagesHold`, `NeverSomeoneElse`, `AnswersAreTrue`, `NoAnswerIsMissed`, `DuplicatesAreFlagged`, `CorrectionsFollowTheirQuestion` |
| `ingestion` | 2 rows, 2 readers of chapters, 4 books; ceilings of 3, 3 acts, one fault, 2 deliveries | `EveryExerciseHasItsPlace`, `NothingTranscribedTwice`, `ShelfIsHonest`, `BooksAreDivided`; `PushedIsIngested` |
| `last_word` | two photographs of one written answer | a violation of `TeacherHasTheLastWord`: a correction made while the grader holds the answer is overwritten by its verdict |

The violation is the finding of `PROJECT.json`, with the line of the code it contradicts. The other defects the models
reach are named by the exception of the property that meets them, and section 5 lists them: `Disowned`
(`OneLiveWrite`), `overrun` and `strayed` (review), `slipped` (`PaperWasApproved`), `Names` (`ShortfallIsTold`), `torn`
(`HeadIsTheModels`), `raced`, `missed` and `blank` (ingestion).

Some properties have several parts, each stated and commented in its module: `NeverSomeoneElse`
(misread codes are refused; pages are filed under their writers), `AnswersAreTrue` (marks find their
question; sure marks are the only ones made), `NoAnswerIsMissed` (every answer is read once; what
is taken for blank is), `PagesHold`, `EveryExerciseHasItsPlace`, `ShelfIsHonest`, `BooksAreDivided`,
`ChainIsSound`, `EveryPupilIsServed`. Every property has a mutant in `PROJECT.json`: a change of one
definition, of the kind a slip in the code would be, under which TLC finds it violated.

### Bounds

- *Idempotency, review*: the instances are the bounds, no counter is unbounded and the state
  spaces are complete. One delivery more than the first makes a reading that comes late, and a third would only come
  later still; a pile gets one job that appends to it, as a second would meet the first as that met the upload. One item suffices because items of a copy interact only through the pile's
  status and its grader; two photographs give duplicates and a retake gives a second run.
- *Printing*: two renders overlap in every way two can; a third would meet the same two kinds of
  neighbour. Generations end with the renders. A class sheet has no notes, so it shows the renders without them.
- *Jobs*: two clicks make the guard matter; two kills give a redelivery that dies again.
- *Migrations*: eight goals are the ends of the chain, the neighbours of the migrations with a `COMMIT`
  of their own and one between; every migration is climbed and descended. Two deaths reach a retry
  that dies.
- *Adaptive*: three pupils in calls of two asks give a full call and a rest, two series give a model
  a partition to get wrong; `MaxReviewed` bounds the rows teachers look at.
- *Paper*: a page has 5 rows instead of 16, so that copies of a few items fill pages; the
  items include a statement split from its box, a picture that needs the page, faint and doubled
  marks. Two cells misread is what the checksums are asked to refuse. `MaxActs = 3`
  is a render or an edit, a retake and an assignment, or a discard, a restore and an assignment.
  `Copies` tabulates the pagination; `CopiesAssumption` says it is what `Paginate` gives. Only
  pages that were printed are photographed.
- *Ingestion*: the books are written out and cover a chapter that gives an exercise of another again, one
  too long for a reading, coded exercises with two chapters that have none (the import reaches the first
  and not the second) and a scan; `BooksAreDivided` looks at every book of a few pages. Two rows are a book
  and its twin. Of several unused rows or idle readers the first is taken. `MaxActs = 3` is two uploads and a
  chapter, or an upload and two chapters or a deletion.

`CHECK_DEADLOCK FALSE` where the systems may really stop: every request answered, every
teacher content. The migrations never stop.

### Fairness

- `Serve(r)` (idempotency) is weakly fair: FastAPI runs a handler to its end. The immortal request is.
- `Reader(r)`, of each delivery, and `Grader(p)` (review) are weakly fair: arq runs the jobs it is handed, each to its
  end. `written` has no faults of the worker, which would leave a pile where it was.
- Jobs: the handlers, arq's `Start`, `Acknowledge` and `TimeOut` and the scheduled reaper are weakly
  fair; **the threads are not**: a thread that hangs is what the reaper is for.
- Ingestion: Redis delivers what it took (`Deliveries_`), and a run that can take its lock or end does
  (`WF_run(Turn)`, fairness in the run's own variable, so that what other actors do in between does not
  count as progress). Deaths are bounded by `MaxDeliveries`.

Nothing is assumed of teachers, clients or faults: what must happen happens whatever they do.

## 4. What is proved

The theorems hold for every value of the constants that satisfies the named assumptions of the
modules; TLC evaluates those assumptions on the instances.

### Idempotency

From `KeyAssumption` (the header's absence is not a key, every request has a key or none).
That one request owns a key follows only if the row in the table is the owner's
(`ClaimIsMine`), that the answers agree only if the stored answer is a committed and pushed
piece of work. The invariant is

    IInv == TypeOK /\ ClaimIsMine /\ LiveWriteIsClaimed /\ AnswerIsStored
                   /\ StoredAnswerIsWork /\ Progress

`LiveWriteIsClaimed`: a write whose job still reads queued has its request's row
under the key, unless that request was answered with an error; `Progress` says that this happens to a
queued write only after its job was handed over, so `OneLiveWrite` excepts those and no others. `AnswerIsStored`: an answered request was told what the row
says. `StoredAnswerIsWork`: what a row answers was committed and pushed. `Progress`: what
each program counter says of the request's own effect. From `Invariance` follow `TypeCorrect`,
`ClaimsAreKept`, `Exclusion` (one worker per key), `OneAnswerPerKey`, `OneWaitingWrite` and the
action property `AnswersAreKept`.

### Scan review

For any number of piles, pages, items and pupils, from `PilesAssumption` (each photograph
belongs to one pile and names a pupil, a stranger or nobody), `PagesAssumption` (page numbers are
naturals and a set of pages has a last one, as every finite set has) and `ReadsAssumption` (what is
read or said is a reading or a mark).

`TypeCorrect` needs nothing more. What the others except, they except by `overrun`: a pile a reader wrote into after
it was signed, where the code does leave marks without evidence (section 5). When a pile comes to that is a
theorem of its own, `OnlyStrays`.

| theorem | property | of |
|---|---|---|
| `MarksStand`, `TheNewestWins`, `MarksAreReviewed` | `MarkStandsOnReading`, `NewestSignedWins`, `NoUnreviewedMark` | bubble sheets, whatever fails |
| `SignedPilesAreReadOnly`, `ReopeningIsItsOwn`, `TeachersAreHeard` | `SignedIsReadOnly`, `ReopeningWithdrawsItsOwn`, `TeacherHasTheLastWord` | bubble sheets, whatever fails |
| `PromiseOutlivesFaults` | `KeptUnlessOverrun` | bubble sheets, whatever fails |
| `PromiseIsKept` | `KeepsThePromise` | bubble sheets signed on the review screen, while nothing fails |
| `OnlyStrays` | `OnlyStraysOverrun` | all sheets signed on the review screen, whatever fails |
| `SignedPilesAreSettled` | `SignedIsSettled` | all sheets, however signed, whatever fails |
| `SigningWaits` | `SigningWaitsForGrader` | all sheets, however signed, while nothing fails |

*Bubble sheets* (`BubbleSheets`) have no written item and no reading that awaits a grader. The condition
is not a convenience: with a grader a verdict may overwrite what was said or signed meanwhile (`last_word`, section 5).
"Whatever fails" is all of `ReaderFails`, `ReapReader`, `GraderFails`, refused and doubtful pushes, and any number of
deliveries, with confirmations through the API at any time.

None of these is inductive. The argument has layers, each with its own invariant:

    Placed     == TypeOK /\ ReadersApart
    QuietInv   == Placed /\ NothingPends /\ NobodyGrades
    SignedInv  == QuietInv /\ MarkStandsOnReading /\ NewestSignedWins /\ Reviewed
    SettledInv == Placed, and nothing awaits a verdict in a signed pile that is not overrun
    StrayInv   == TypeOK /\ \A p \in Piles : strayed[p] \/ Orderly(p)

- `Placed`: all that a delivery has still to read is of its own pile and has no page yet. So a late reader adds, and never changes, and it
  marks the pile it adds to. `LeavesSigned` says that of a step; `NothingSigned` is the lemma that every step but
  signing and reopening is such a step, as long as no grader is at work.
- `SignedInv` then has only two steps to look at. `ConfirmStep`: the marks it writes
  stand on the pile it signs, and every other signed pile becomes older than it.
  `UnvalidateStep`: what is put back comes from the pile that was signed last among those that
  still are, so nothing newer stands. `Reviewed` (no live page of a signed pile that is not overrun carries an
  unsure reading) is what `NoUnreviewedMark` needs to hold after the fallback too.
- `SettledInv`: signing settles what is pending, a grader never makes an answer pending, and a reader that does so in a signed
  pile overruns it.
- `StrayInv` is why the review screen is enough. A pile that is `Orderly` has only first deliveries, one job at a time, each reader under a row that
  says so, and a reader at work only while the pile is `uploaded` or `processing`, when the button is disabled. Only a
  stray ends that order.
- `SigningWaits` ties what a grader holds to its job row (`HoldersAreKnown`); without faults no row is presumed stale.
  With faults it is false: a grader that is slow and alive looks like one that is gone.

For the ledger, `PromisedSign` and `PromisedReopen` map the two steps that matter, and
`PromisedStutter` all the others, by `NothingSigned`.

### Printing, jobs, adaptive sheets

- `SheetPrintingProofs`, from `PrintingAssumption`. `PaperApproved` and `FreshPaperClean` follow from an
  invariant that ties what is in the store to what renders have read: what the door let through was approved
  and is what the sheet has until an edit comes (`GateIsSigned`), the copies print no more than the
  items (`PlanIsWithinItems`), so a document in whose making no edit came is signed off (`DocumentSigned`).
  `DownloadIsCurrent` speaks of the stored object: `Currency` says that a document no edit has overtaken, and
  an unspoilt object that the sheet names or a render is about to name, are of what the sheet has now.
  `RectanglesKept` says that some rectangles are there for every generation in use; that they are those
  of the paper in hand it does not say (hazards).
- `JobLifecycleProofs`: `SuccessIsReal`, `FailuresAreTold` (a row carries an error exactly while its job has
  failed or was overtaken by a late success), `RunsDoNotOverlap`.
- `AdaptiveProofs`: `NothingIsPrintedTwice`, `RejectedStaysAway`, `CorpusIsReviewed`, `RunsAreOnesOwn`,
  `OldGoesWhenNewComes`, and `EveryPupilHasAList` (`EveryPupilIsServed`), for every class list, evidence,
  partition a model answers and answer it gives, from `AdaptiveAssumption` (no pupil is on the class list twice,
  the textbook is finite, evidence, requests and partitions have the types of the schemas) and
  `TargetingAssumption`. The last has two halves.

  *The groups.* `ClustersDivide`: the rule gives as many groups as were asked for, none empty, and every
  pupil one seat. `InOrderPlaces` says that an order of a finite set puts each of its members at one place,
  so a sort keeps what it sorts (`SortedIsDrawn`, `BucketsDrawn`). `PrincipalGapsDivide` is where the rule
  starts; `MergedIs` and `SplitIs` are one turn of its loops: the two smallest become one, the largest is cut
  into two that are not empty, the class stays divided, and there is a group fewer or more. `AllMerged` and
  `AllSplit` follow by `Recursion` and `Induction`; that splitting reaches the number asked for is because
  groups of one would be as many as the class (`PupilsAreCounted`). `PartitionsAreSeated` adds what a model
  answers, a list each and one for all.

  *The run.* `EveryPupilIsServed` speaks of the last step only, so the invariant carries the run up to it:

      Serving == RowsAreFew /\ \A c \in Clicks : Serves(c, ...)

  A planned run has a plan for each group and one ask for each plan that lacks items (`Planned`,
  `AskedOnce`), each under its own name or that of a later one
  that lacks nothing (`Labelled`, from `AscendingIncreases`); what came back is for the first asks, once each (`Filled`, kept by `CallFillsOn`); when
  nothing is left to ask every ask is filled, and the rows made are what was kept (`RowsAreKept`, a
  bijection). `ShortfallTold` is the step to the proposal: lines of failure are told apart by their owners,
  for two lists have no pupil in common (`OwnersDiffer`). `RowsAreFew` is needed because what a plan lacks is a
  difference with a cardinality. TLC checks `Serving` on the instance of `adaptive` too.

### Paper

For every class, corpus, item plans, ink, photographs and misreadings, from `PaperAssumption` and
`InkAssumption` (UIDs are distinct and well formed, the nonces of the renders differ, there is ink
where there are bubbles, an edit does not change how many options an item has), `CopiesAssumption`
and `PaginationAssumption` (a page holds the tallest box with its number, and up to sixteen rows). The
theorems rest on what is printed, below: that a copy has pages the grid can number and that no code is
misread for another.

- `TypeCorrect`, from `PaperInv == SheetOK /\ PileOK /\ PagesOK`. `SheetOK`: a render whose paper was not
  altered since still has today's plan and edition. `PileOK`: a run reads against a basis that can be
  printed and, while the pile's render is unaltered, is what that render printed.
- `DuplicatesSaySo`: two live pages that claim one slot are flagged. Inductive with the invariant:
  the sweep at the end of a run and of an assignment flags all, and what comes between them (a
  correction, a discard) brings no new claim but by restoring, which the property excludes.
- `CorrectionsAreKept`: the action property that a correction is found at its question or reported.
- `PagesAreTheirWriters`: pages are filed under their writer or under nobody, unless by hand.
- `AnswersAreRight`, the theorem the rest leads to: a mark counts for the question the pupil read
  beside it, and a sure one is the only one the pupil made. `AnswersAreTrue` is not inductive, for a page
  may become answerable later: filed under nobody and then given its pupil. The strengthening is

      PaperIsRead == pile.layout = "v2" => \A k \in DOMAIN pages : IsOnItsPaper(pages[k])

  A page whose code was read and is of this sheet shows the pile's own render, stands at the slot it
  was printed as (`CodeIsTrue`, and the nonces differ), and while it is filed under its writer its rows
  say what is so (`AllTold`: each question of the page has one row, whose question it is; a mark is the one
  the pupil made, a blank is one, and what is not graded had neither bubbles nor a box). `SameCopy` carries that from the paper to today's pagination while the sheet is
  unaltered; `FiledOnItsPaper` is the step that files a page and `ReviewedOnItsPaper` the teacher's.
  `DetectedOnThePage` and `FreshInk` say that a mark the detector takes is the only bubble filled to
  the threshold on paper that kept its ink.
- `NoAnswerIsOverlooked` (`NoAnswerIsMissed`), from the same invariant and `PrintedOK` (what was printed could
  be). `BlankOnThePage` is the arithmetic of the sweep over suspicious blanks: where an item stays blank, more
  than four in ten of its page show something. `ReadingsAreCounted`: pages that are as many as the copy has
  and fill its slots are of different slots (`SlotsDiffer`), and an item has one place where it is answered,
  its line or its box (`AnswersHaveOnePlace`, from `FitsItsPages`), so the readings of an exercise and the
  places of the list that ask it are in bijection.

TLC checks `PaperInv`, `PaperIsRead` and `PrintedOK` on the instance of `paper` too.

What is printed (`PrintProofs`), for every list of exercises, every wording and every UID:

- `PaginationHolds` and `PrintedPagesHold` (`PagesHold`). Pages, totals and heights are recursive functions over
  a list; `Recursion` shows that such a function exists and takes the values its definition says, by the least
  number up to which there is none (`First`, from `WFMin`), and `Induction` goes along it. The induction of
  `PagingIsSound` carries more than the property: the pages so far hold what was put (`HoldsSoFar`), the
  page under construction is not overfull, and what is split has just been closed. `PicturesAreSmallEnough` is
  arithmetic over `figure_room_mm`.
- `UidReadsAre` and `PageCodeReadsAre` (`MisreadsAreRefused`): up to two misread cells, in the payload or in the
  checksum itself, never make another code. A register is a set of positions and a step of it is linear
  (`TimesIsLinear`), so what two misread cells do to the checksum does not depend on the code: it is a sum of
  two powers of x (`RegistersDiffer`), which vanishes only if some power below the length of the
  code is one. `NoOtherIsOne8` and `NoOtherIsOne16` say that none is, for the two polynomials as they are and
  as far as the two codes reach; `MisreadingsShow` puts it together. That fields come back from their bits
  is `UidComesBack` and `PageCodeComesBack`.

### Ingestion

For every library, model's answers, themes, rows, readers, deliveries, deaths and ceilings, from
`IngestionAssumption` (the ceilings are positive and a chapter's is not above an import's; `Nothing` is
nothing else) and `BooksAssumption` (a book's chunks, regions and competencies are finitely many, what they
say are statements the model answers about, a region has its code): `ExercisesHaveTheirPlace`,
`TranscribedOnce` and `TheShelfIsHonest`. They follow from one invariant, `ShelfAlways`:

    ShelfInv == Typed /\ ExercisesFit /\ RowsAreUploaded /\ ChaptersAreOne /\ CopiesAreOfTwins
                /\ ReadersHaveTheirChapter /\ ReadersKnowTheBook /\ RowsAreSound
                /\ CopiesAreTrue /\ DeletionsAreKnown

- `RowsAreSound` is what is promised of one row. It is not inductive alone: an ingest, a copy and a
  reader each write what they computed from an earlier state.
- An ingest writes a content that is sound for its book whatever calls fail (`FromTextIsSound`,
  `FromLayoutIsSound`), in place of what was there (`Replaced`). Every run has its own `gen` and no run writes
  twice, so chapters written together are recognised (`ChaptersAreOne`) and whoever still works on the chapters
  that were there does not find them any more.
- A copy takes the twin's chapters down when it starts and its exercises when it ends. `CopiesAreTrue`: while the
  twin still has chapters of that ingest, what was taken down of it is true of its exercises, which may have
  become more. `CopyIsContent` turns that into a sound content.
- A reader compares with statements it took down at its start. `ReadersKnowTheBook`: these are all the book has,
  unless two readers were at work on it. With that `WrittenInv` keeps statements single and the
  stamp true; it is one lemma for both ways to read a chapter.
- `DeletionsAreKnown`: a book nothing cites can only have been given exercises by a commit that came during its
  deletion, and those are what loses its book.

TLC checks each of these conjuncts on the instance of `ingestion` as well. The recursive functions of the budget are
proved about by the least number for which a claim fails (`Least`, from `WFMin`): `TogetherIsSum`,
`EagerlyReadGoesOn`, `CallsStayInBudget`; and so is that a statement has a first place (`FirstPlace`).

How a book is divided is proved for books of any length, which `BooksAreDivided` looks at up to five pages:

- `PagesHaveTheirChapter`: the beginnings of chapters in ascending order (`AscendingIs`, from counting what is
  before each) split the pages, since the preface is a chapter of its own (`ChaptersShareNoPage`).
- `HeadersAreExercises`: `IsReadTo` says of the pages read so far that each header on them has its region, at the
  place its number in the book gives it, and that only blank pages that go on follow the page of the open one.
  Every page keeps it (`PageIsRead`), whether it closes the open region, carries it on or opens another.

### What stays with TLC

- All liveness (`ClaimEnds`, `PileIsRead`, `GradingEnds`, `AnsweredJobEnds`, `PushedIsIngested`): fairness and
  ENABLED are outside the prover's reach.
- What folds with an operator as parameter compute, as the library's induction theorems have one, which the
  installed provers cannot instantiate: of `BooksAreDivided`, the part about chunks, and that the books written
  out for the instance are what their pages make. The parts about chapters and coded exercises are proved.
- `ChainIsSound`, `NothingIsRefused`, `HeadIsTheModels`: facts about one concrete
  chain of migrations, whose state space TLC exhausts; there is no parameter to generalise.

## 5. What the models say of the code

Met while modelling. The run `last_word` shows one as a violation. Where another meets a property, the
property names it as its exception (section 3), and without the exception TLC finds the property violated.

- *The wrong series.* Each series writes its name over the last ask of the run, also when it asked for nothing
  itself (`adaptive_service.py:1156`), so the line of a short series can carry the name of the one after it, under
  a comment that says it reaches the right one. `ShortfallIsTold` allows
  exactly that name (`Names`).
- *Marked and not read.* `models/__init__.py:994-996` says that `extracted_at` is when the model last read a chapter
  and none means it was never transcribed. The import of a coded book sets it on every chapter its budget
  reaches (`ingest/pipeline.py:775`, `909`), also on one without coded exercises, on whose text no call was made;
  `extract_section` (`974`) then leaves that chapter alone for ever. `ReadMeansRead`, a part of `ShelfIsHonest`,
  leaves out exactly these (`blank`); without that condition TLC finds it violated on the coded book of `ingestion`.
- *A call that failed.* A chapter is stamped as read when a call for one of its chunks failed, without a word
  (`ingest/pipeline.py:687-694`); `ShelfIsHonest` excuses those chunks (`missed`).
- *Ingest once.* `worker/queue.py:62-64` reasons that a retry under one key is deduplicated; a push that
  timed out after Redis took it is retried with a new job id, and both are delivered. `OneLiveWrite`
  holds of that: the first write was marked failed. It does not hold of an upload whose answer
  cannot be built after the hand-over (`api/v1/scans.py:114-117`): the claim is released, and the retry
  uploads the pile again (`Disowned`).
- *Fallback.* A reopening puts back marks of the newest older signed pile (`scan_service.py:634`); where that
  one has no gradeable reading it stops, though a still older one has (`scan_service.py:646`).
- *A second reading.* `cli.py:215-217` says that a reading that runs twice rewrites what it wrote and costs time and
  nothing else. It adds a second set of pages (`scan_processing.py:804`: nothing is deleted), and the end of it sets a
  pile back to review that was signed meanwhile, with its marks in force. Confirming it again replaces them; reopening it is refused, as
  it is not signed (`overrun`).
- *Early confirmation.* The API signs a pile the worker is reading (`scan_service.py:877`, a retake joins at
  376): pages then appear in a signed pile, and the end of the run takes it back to review with its
  marks in the ledger.
- *Two photographs of one copy* insert one ledger key twice when both are signed
  (`scan_service.py:1005`); the flag of `scan_processing.py:763` is a warning, not a refusal.
- *A failed first reading*, then a retake: the run starts behind files nobody read (`scan_service.py:343-345`).
- *Pending answers* are counted before they are flushed (`scan_processing.py:1048`, `worker/tasks.py:226`), so a
  grader may not be sent.
- *The last door.* `sheets/render.py:786` asks about the items, and the copies are loaded at 617 after the
  pictures were fetched: an edit in between is printed without having been asked about, under a comment
  that calls this the door that has to be locked. `PaperWasApproved` holds
  of every document that was not edited in its making.
- *A download that stays away.* A sheet whose PDF key is unchanged in the session is not written
  (`CommitRender`): after an edit during a second render the key stays empty although the row says rendered.
- *Editing what is printed.* Items, statements or figures edited after printing change the pagination
  while generation and nonce stay, so answers pair with other questions, without a flag
  (`scan_processing.py:298-300`, `879-881`). The properties of `Paper` exclude such renders by `altered`.
- *Review gate.* Confirmation refuses outcomes of low confidence only; a faint blank passes it, while the
  queue of the web page asks for anything below 0.65.
- *Pages by hand.* A page whose code was not read and that is given to a pupil is read as page 1 and never
  called a duplicate; a discarded page restored after its retake leaves a duplicate that is not flagged.
- *Codes.* A class code with a leading zero encodes like the one without (`UidRow` is distinct for canonical
  codes); `sheets/layout.py:117` speaks of 57 payload bits, `payload_bits` is 56; a 23-bit nonce may collide.
- *Jobs.* `core/config.py:282` has a `job_timeout_s`, `worker/main.py:68` uses 600. A process that dies between the job's
  row and its push leaves a row no reaper looks at (`AnsweredJobEnds` is about answered requests).
- *A cancelled build.* 0042 calls its `IF NOT EXISTS` what makes a re-run safe (41-43); the re-run passes over
  an index that is invalid, and the head is reached with it (`durable.invalid`). A downgrade past 0042
  that dies after its drop leaves no index at a revision that has it. `HeadIsTheModels` excepts that index after such a death (`torn`) and demands
  it valid otherwise; `ChainIsSound` is about the rest of the schema.
- *Migrations.* `entrypoint.sh` says the API owns the migrations, but its loop runs for every role.
- *Chunks.* `TARGET_CHARS` has no effect: chunks are packed to `MAX_CHARS`.

## 6. What is not modelled

- The handlers of `ScanReview` are atomic, so the gap between their status check and their write is not
  there; nor are two confirmations at once. `Paper` takes the teacher to
  work on piles that have been read.
- Layout v1 in `Paper` is read, but `AnswersAreTrue` is about v2: a v1 page says nothing of its number and is
  slotted by arrival. The flag for pages printed after they were photographed is left out.
- `SheetPrinting` has one sheet; titles, points and sources of a sheet are left out, as are notes and
  feedback in `Adaptive` and the rewriting of a statement by hand.
- `Ingestion` leaves out exercises edited by hand, the reading of PDF and pictures, and embeddings.
- Mastery's score is a real exponential of dates, which TLC does not have; `Targeting` starts at its bands.
- Enrolment and staffing, erasure of a pupil, cookies and rate limits, events, audit and export, the
  AI client and the privacy gate, the seed, and the rendering of the web front end: pure computation, queries
  over dates, append-only logs or I/O of libraries. `PROJECT.json` lists each.
- Image arithmetic, HTML and PDF output.

## 7. What is left

1. The chunks of `BooksAreDivided`, with `Chunking` written without folds.
2. `ScanReview` with handlers split at their status check.
