-------------------------- MODULE ScanReviewProofs --------------------------
(***************************************************************************)
(* The piles of one sheet and their marks, for any number of piles, pages, *)
(* items and pupils.                                                       *)
(***************************************************************************)
EXTENDS ScanReview, TLAPS

-----------------------------------------------------------------------------
(* What the operators return                                               *)

\* A reading is graded to a mark of the ledger or not at all.
LEMMA GradeType ==
    ASSUME NEW r \in Readings
    PROVE  Grade(r) \in {"right", "wrong", "zero", Ungradeable}
  BY DEF Readings, Marks, Grade, Ungradeable

\* The last of some pages is one of them.
LEMMA LastOfType ==
    ASSUME NEW S \in SUBSET Pages, S # {}
    PROVE  LastOf(S) \in S
  BY PagesAssumption DEF LastOf

\* What the machine reads of an item is a reading.
LEMMA FreshReadsType ==
    ASSUME NEW paired, NEW reads \in FreshReads(paired)
    PROVE  reads \in [Items -> Readings]
<1>1. BubbleReads \union BoxReads \subseteq Readings
  BY ReadsAssumption
     DEF BoxReads, Readings, Outcomes, Marks, Blank, Pending, NotGradeable
<1>2. reads \in [Items -> BubbleReads \union BoxReads]
  BY DEF FreshReads
<1> QED
  BY <1>1, <1>2

\* A machine's reading makes a row.
LEMMA MachineType == ASSUME NEW r \in Readings PROVE Machine(r) \in Rows
  BY DEF Machine, Rows

\* A settled row is a row.
LEMMA SettledType ==
    ASSUME NEW r \in Rows, NEW loaded \in Marks, NEW reading \in Readings
    PROVE  Settled(r, loaded, reading) \in Rows
  BY DEF Settled, Rows, Readings

\* The special readings are readings, and the empty row is a row.
LEMMA Specials ==
    /\ Pending \in Readings /\ NotGradeable \in Readings /\ Blank \in Readings
    /\ NoRow \in Rows
  BY DEF Pending, NotGradeable, Blank, Readings, Outcomes, Marks, NoRow, Rows

\* A page put out of its pile is still a page.
LEMMA DiscardedType ==
    ASSUME NEW r \in PageRows
    PROVE  [r EXCEPT !.at = "discarded"] \in PageRows
  BY DEF PageRows

\* Settling some rows of a table leaves a table.
LEMMA SettleType ==
    ASSUME row \in [Pages -> [Items -> Rows]], NEW S
    PROVE  Settle(S) \in [Pages -> [Items -> Rows]]
<1> SUFFICES ASSUME NEW g \in Pages, NEW i \in Items
             PROVE  Settled(row[g][i], row[g][i].now.mark, NotGradeable) \in Rows
  BY DEF Settle
<1>1. row[g][i] \in Rows
  OBVIOUS
<1>2. row[g][i].now.mark \in Marks
  BY <1>1 DEF Rows, Readings
<1> QED
  BY <1>1, <1>2, Specials, SettledType

\* The mark a gradeable reading of a page leaves is an attempt of its pile.
LEMMA AttemptFromType ==
    ASSUME NEW rows \in [Pages -> [Items -> Rows]],
           NEW p \in Piles, NEW g \in Pages, NEW i \in Items,
           Grade(rows[g][i].now) # Ungradeable
    PROVE  AttemptFrom(p, g, i, rows) \in Attempts
<1>1. rows[g][i].now \in Readings
  BY DEF Rows
<1>2. Grade(rows[g][i].now) \in {"right", "wrong", "zero"}
  BY <1>1, GradeType
<1> QED
  BY <1>2 DEF AttemptFrom, Attempts

\* What a confirmation writes is a ledger.
LEMMA SupersededType ==
    ASSUME TypeOK, NEW p \in Piles, NEW rows \in [Pages -> [Items -> Rows]]
    PROVE  Superseded(p, rows) \in [Students -> [Items -> Attempts \union {NoAttempt}]]
<1> SUFFICES ASSUME NEW s \in Students, NEW i \in Items, Marking(p, s, i, rows) # {}
             PROVE  AttemptFrom(p, LastOf(Marking(p, s, i, rows)), i, rows) \in Attempts
  BY DEF Superseded, TypeOK
<1> DEFINE marking == Marking(p, s, i, rows)
<1>1. marking \in SUBSET Pages
  BY DEF Marking, Live, PagesOf
<1>2. LastOf(marking) \in marking
  BY <1>1, LastOfType
<1>3. \A g \in marking : Grade(rows[g][i].now) # Ungradeable
  BY DEF Marking
<1> HIDE DEF marking
<1>4. LastOf(marking) \in Pages /\ Grade(rows[LastOf(marking)][i].now) # Ungradeable
  BY <1>1, <1>2, <1>3
<1>5. AttemptFrom(p, LastOf(marking), i, rows) \in Attempts
  BY <1>4, AttemptFromType
<1> QED
  BY <1>5 DEF marking

\* What is put back for a withdrawn mark is a mark of another signed pile,
\* or none.
LEMMA FallbackType ==
    ASSUME TypeOK, NEW p \in Piles, NEW s \in Students, NEW i \in Items, NEW tie
    PROVE  \/ Fallback(p, s, i, tie) = NoAttempt
           \/ \E g \in Newest(Standing(p, s, i)) :
                /\ g \in Pages
                /\ Grade(row[g][i].now) # Ungradeable
                /\ Fallback(p, s, i, tie) = AttemptFrom(PileOf[g], g, i, row)
<1> DEFINE found == Newest(Standing(p, s, i))
           g == IF tie \in found THEN tie ELSE LastOf(found)
<1>1. found \in SUBSET Pages
  BY DEF Newest, Standing
<1>2. CASE found = {} \/ Grade(row[g][i].now) = Ungradeable
  BY <1>2 DEF Fallback
<1>3. CASE ~(found = {} \/ Grade(row[g][i].now) = Ungradeable)
  <2>1. g \in found
    BY <1>1, <1>3, LastOfType
  <2>2. Fallback(p, s, i, tie) = AttemptFrom(PileOf[g], g, i, row)
    BY <1>3 DEF Fallback
  <2> QED
    BY <1>1, <1>3, <2>1, <2>2
<1> QED
  BY <1>2, <1>3

\* What a reopening leaves is a ledger.
LEMMA WithdrawnType ==
    ASSUME TypeOK, NEW p \in Piles, NEW tie
    PROVE  Withdrawn(p, tie) \in [Students -> [Items -> Attempts \union {NoAttempt}]]
<1> SUFFICES ASSUME NEW s \in Students, NEW i \in Items
             PROVE  Fallback(p, s, i, tie) \in Attempts \union {NoAttempt}
  BY DEF Withdrawn, TypeOK
<1>1. CASE Fallback(p, s, i, tie) = NoAttempt
  BY <1>1
<1>2. ASSUME NEW g \in Pages, Grade(row[g][i].now) # Ungradeable
      PROVE  AttemptFrom(PileOf[g], g, i, row) \in Attempts
  <2>1. PileOf[g] \in Piles
    BY PilesAssumption
  <2> QED
    BY <1>2, <2>1, AttemptFromType DEF TypeOK
<1> QED
  BY <1>1, <1>2, FallbackType

-----------------------------------------------------------------------------
(* Type correctness                                                        *)

Ways == {"none", "queued", "over"} \union Busy

\* Jobs and their deliveries tell their pile, and a job's deliveries differ in
\* their number.
LEMMA Deliveries ==
    /\ \A p \in Piles, append \in BOOLEAN :
         Job(p, append) \in Jobs /\ Job(p, append).pile = p
    /\ \A j \in Jobs : /\ j.pile \in Piles
                       /\ First(j) \in Runs /\ First(j).try = 1
                       /\ First(j).pile = j.pile /\ JobOf(First(j)) = j
    /\ \A r \in Runs : /\ r.pile \in Piles
                       /\ JobOf(r) \in Jobs /\ JobOf(r).pile = r.pile
    /\ \A r, q \in Runs : JobOf(r) = JobOf(q) /\ r.try = q.try => r = q
<1>1. 1 \in 1 .. MaxTries
  BY PilesAssumption
<1> QED
  BY <1>1 DEF Job, Jobs, First, Runs, JobOf

LEMMA InitTypeOK == Init => TypeOK
  BY Specials DEF Init, TypeOK, Statuses, PageRows, Unsent

\* What a job that is handed over leaves of the queue.
LEMMA EnqueueType ==
    ASSUME TypeOK, NEW j \in Jobs, Enqueue(j)
    PROVE  /\ job' \in [Jobs -> {"none", "queued", "running", "ended"}]
           /\ reader' \in [Runs -> Ways]
           /\ strayed' \in [Piles -> BOOLEAN]
  BY Deliveries DEF TypeOK, Enqueue, Stray, Ways

\* The same of a delivery that is over, or goes on.
LEMMA LeftType ==
    ASSUME TypeOK, NEW r \in Runs, NEW at \in Ways, Left(r, at)
    PROVE  /\ reader' \in [Runs -> Ways]
           /\ strayed' \in [Piles -> BOOLEAN]
<1>1. CASE reader' = [reader EXCEPT ![r] = at] /\ UNCHANGED strayed
  BY <1>1 DEF TypeOK, Ways
<1>2. ASSUME NEW next, reader' = [reader EXCEPT ![r] = at, ![next] = "queued"],
             Stray(r.pile, TRUE)
      PROVE  /\ reader' \in [Runs -> Ways]
             /\ strayed' \in [Piles -> BOOLEAN]
  BY <1>2 DEF TypeOK, Stray, Ways
<1> QED
  BY <1>1, <1>2 DEF Left

\* The upload and the retakes only store photographs and hand them over.
LEMMA UploadingTypeOK ==
    ASSUME TypeOK, NEW p \in Piles, Upload(p) \/ AppendPages(p)
    PROVE  TypeOK'
<1>1. \A S : Store(S) \in [Pages -> PageRows]
  BY DEF TypeOK, Store, PageRows
<1>2. PICK j \in Jobs : Enqueue(j)
  BY Deliveries DEF Upload, AppendPages
<1>3. /\ job' \in [Jobs -> {"none", "queued", "running", "ended"}]
      /\ reader' \in [Runs -> Ways]
      /\ strayed' \in [Piles -> BOOLEAN]
  BY <1>2, EnqueueType
<1>4. page' \in [Pages -> PageRows]
  <2>1. CASE Upload(p)
    BY <1>1, <2>1 DEF Upload
  <2>2. CASE AppendPages(p)
    <3>1. PICK superseded \in SUBSET {g \in PagesOf(p) : HasRow(g)} :
             page' = [g \in Pages |->
                IF g \in superseded THEN [page[g] EXCEPT !.at = "discarded"]
                                    ELSE Store(Added(p))[g]]
      BY <2>2 DEF AppendPages
    <3>2. \A g \in Pages : [page[g] EXCEPT !.at = "discarded"] \in PageRows
      BY DiscardedType DEF TypeOK
    <3> QED
      BY <1>1, <3>1, <3>2
  <2> QED
    BY <2>1, <2>2
<1>5. /\ status' = [status EXCEPT ![p] = "uploaded"]
      /\ UNCHANGED <<todo, seen, chain, overrun, graders, row, ledger>>
  BY DEF Upload, AppendPages
<1> QED
  BY <1>3, <1>4, <1>5 DEF TypeOK, Ways, Statuses, graders, ledger

\* The worker.
LEMMA ReaderTypeOK ==
    ASSUME TypeOK, NEW r \in Runs, Reader(r)
    PROVE  TypeOK'
<1>1. CASE BeginReading(r)
  <2>1. {g \in Pages : ReadBy[g] = r /\ page[g].at = "stored"} \in SUBSET Pages
    OBVIOUS
  <2>2. (IF r.append
         THEN {Code[g] : g \in {h \in PagesOf(r.pile) :
                                  page[h].at = "live" /\ page[h].registered}}
                \cap Students
         ELSE {}) \in SUBSET Students
    OBVIOUS
  <2>3. todo' \in [Runs -> SUBSET Pages]
    BY <1>1, <2>1 DEF BeginReading, TypeOK
  <2>4. seen' \in [Runs -> SUBSET Students]
    BY <1>1, <2>2 DEF BeginReading, TypeOK
  <2>5. /\ job' \in [Jobs -> {"none", "queued", "running", "ended"}]
        /\ reader' \in [Runs -> Ways]
        /\ chain' \in [Runs -> BOOLEAN]
    BY <1>1 DEF BeginReading, TypeOK, Ways, Busy
  <2>6. UNCHANGED <<status, strayed, overrun, graders, readings, ledger>>
    BY <1>1 DEF BeginReading
  <2> QED
    BY <2>3, <2>4, <2>5, <2>6 DEF TypeOK, Ways, graders, readings, ledger
<1>2. CASE ReadPage(r)
  <2>1. PICK g \in todo[r], registered \in BOOLEAN :
          ReadAs(r, g, ReadCode(g, registered), registered)
    BY <1>2 DEF ReadPage
  <2> DEFINE code == ReadCode(g, registered)
  <2>2. g \in Pages
    BY DEF TypeOK
  <2>3. row' \in [Pages -> [Items -> Rows]]
    <3>1. CASE UNCHANGED row
      BY <3>1 DEF TypeOK
    <3>2. ASSUME NEW reads \in FreshReads(Pairs(r, g, code)),
                 row' = [row EXCEPT ![g] = [i \in Items |-> Machine(reads[i])]]
          PROVE  row' \in [Pages -> [Items -> Rows]]
      <4>1. [i \in Items |-> Machine(reads[i])] \in [Items -> Rows]
        BY FreshReadsType, MachineType
      <4> QED
        BY <3>2, <4>1 DEF TypeOK
    <3> QED
      BY <2>1, <3>1, <3>2 DEF ReadAs
  <2>4. page' \in [Pages -> PageRows]
    <3>1. PageRead(code, registered, Pairs(r, g, code)) \in PageRows
      BY DEF PageRead, PageRows, Pairs
    <3> QED
      BY <2>1, <3>1 DEF ReadAs, TypeOK
  <2>5. seen' \in [Runs -> SUBSET Students]
    BY <2>1 DEF ReadAs, TypeOK
  <2>6. chain' \in [Runs -> BOOLEAN] /\ todo' \in [Runs -> SUBSET Pages]
    BY <2>1 DEF ReadAs, TypeOK
  <2>7. /\ status' \in [Piles -> Statuses]
        /\ overrun' \in [Piles -> BOOLEAN]
        /\ reader' \in [Runs -> Ways]
    BY <1>2 DEF ReadPage, WritesInto, TypeOK, Statuses, Ways, Busy
  <2>8. UNCHANGED <<job, strayed, graders, ledger>>
    BY <1>2 DEF ReadPage
  <2> QED
    BY <2>3, <2>4, <2>5, <2>6, <2>7, <2>8 DEF TypeOK, Ways, graders, ledger
<1>3. CASE EndReading(r)
  BY <1>3 DEF TypeOK, EndReading, WritesInto, Statuses, Busy, graders, readings, ledger
<1>4. CASE EndJob(r)
  <2>1. /\ reader' \in [Runs -> Ways]
        /\ strayed' \in [Piles -> BOOLEAN]
    BY <1>4, LeftType DEF EndJob, Ways
  <2> QED
    BY <1>4, <2>1 DEF EndJob, TypeOK, Ways, readings, ledger
<1> QED
  BY <1>1, <1>2, <1>3, <1>4 DEF Reader

\* The grader.
LEMMA GraderTypeOK ==
    ASSUME TypeOK, NEW p \in Piles, Grader(p)
    PROVE  TypeOK'
<1>1. CASE StartGrading(p)
  <2>1. \A r \in PendingRows(p) :
          [page |-> r[1], item |-> r[2], mark |-> row[r[1]][r[2]].now.mark,
           there |-> TRUE] \in HeldRows
    <3> SUFFICES ASSUME NEW r \in PendingRows(p)
                 PROVE  [page |-> r[1], item |-> r[2],
                         mark |-> row[r[1]][r[2]].now.mark, there |-> TRUE] \in HeldRows
      OBVIOUS
    <3>1. r[1] \in Pages /\ r[2] \in Items
      BY DEF PendingRows, Live, PagesOf
    <3>2. row[r[1]][r[2]] \in Rows
      BY <3>1 DEF TypeOK
    <3>3. row[r[1]][r[2]].now.mark \in Marks
      BY <3>2 DEF Rows, Readings
    <3> QED
      BY <3>1, <3>3 DEF HeldRows
  <2> QED
    BY <1>1, <2>1 DEF TypeOK, StartGrading, jobs, readings, ledger
<1>2. CASE SettleAnswer(p)
  <2>1. row' \in [Pages -> [Items -> Rows]]
    <3>1. ASSUME NEW h \in held[p], NEW reading \in VisionReads,
                 row' = [row EXCEPT ![h.page][h.item] = Settled(@, h.mark, reading)]
          PROVE  row' \in [Pages -> [Items -> Rows]]
      <4>1. h \in HeldRows
        BY DEF TypeOK
      <4>2. h.page \in Pages /\ h.item \in Items /\ h.mark \in Marks
        BY <4>1 DEF HeldRows
      <4>3. Settled(row[h.page][h.item], h.mark, reading) \in Rows
        BY <4>2, SettledType, ReadsAssumption DEF TypeOK
      <4> QED
        BY <3>1, <4>2, <4>3 DEF TypeOK
    <3> QED
      BY <1>2, <3>1 DEF SettleAnswer, TypeOK
  <2>2. held' \in [Piles -> SUBSET HeldRows]
    <3>1. \/ \E h \in held[p] : held' = [held EXCEPT ![p] = @ \ {h}]
          \/ held' = [held EXCEPT ![p] = {}]
      BY <1>2, Zenon DEF SettleAnswer
    <3> QED
      BY <3>1 DEF TypeOK
  <2>3. \/ UNCHANGED <<gradeJob, grading>>
        \/ /\ gradeJob' = [gradeJob EXCEPT ![p] = "none"]
           /\ grading' = [grading EXCEPT ![p] = FALSE]
    BY <1>2 DEF SettleAnswer
  <2>4. gradeJob' \in [Piles -> {"none", "queued", "running"}]
    BY <2>3 DEF TypeOK
  <2>5. grading' \in [Piles -> BOOLEAN]
    BY <2>3 DEF TypeOK
  <2> QED
    BY <1>2, <2>1, <2>2, <2>4, <2>5 DEF SettleAnswer, TypeOK, jobs, ledger
<1>3. CASE EndGrading(p)
  BY <1>3, SettleType DEF TypeOK, EndGrading, jobs, ledger
<1> QED
  BY <1>1, <1>2, <1>3 DEF Grader

\* The faults of a reader, of its row and of a grader.
LEMMA ReaderFailsTypeOK ==
    ASSUME TypeOK, NEW r \in Runs, ReaderFails(r)
    PROVE  TypeOK'
<1>1. PICK at \in Ways : Left(r, at)
  <2>1. reader[r] \in Ways /\ "over" \in Ways
    BY DEF TypeOK, Ways
  <2> QED
    BY <2>1 DEF ReaderFails, DecodeFails, ReadingRaises, ReadingBreaks
<1>2. /\ reader' \in [Runs -> Ways]
      /\ strayed' \in [Piles -> BOOLEAN]
  BY <1>1, LeftType
<1>3. CASE DecodeFails(r)
  BY <1>2, <1>3
     DEF DecodeFails, WritesInto, TypeOK, Ways, Statuses, graders, readings, ledger
<1>4. CASE ReadingRaises(r)
  BY <1>2, <1>4 DEF ReadingRaises, TypeOK, Ways, graders, readings, ledger
<1>5. CASE ReadingBreaks(r)
  BY <1>2, <1>5 DEF ReadingBreaks, TypeOK, Ways, graders, readings, ledger
<1> QED
  BY <1>3, <1>4, <1>5 DEF ReaderFails

LEMMA ReapTypeOK ==
    ASSUME TypeOK, NEW j \in Jobs, ReapReader(j)
    PROVE  TypeOK'
<1>1. strayed' \in [Piles -> BOOLEAN]
  BY DEF ReapReader, Stray, TypeOK
<1> QED
  BY <1>1 DEF TypeOK, ReapReader, graders, readings, ledger

LEMMA GraderFailsTypeOK ==
    ASSUME TypeOK, NEW p \in Piles, GraderFails(p)
    PROVE  TypeOK'
<1>1. CASE GraderDies(p)
  BY <1>1 DEF TypeOK, GraderDies, jobs, readings, ledger
<1>2. CASE GradeJobGoesStale(p)
  BY <1>2 DEF TypeOK, GradeJobGoesStale, jobs, readings, ledger
<1> QED
  BY <1>1, <1>2 DEF GraderFails

\* What a redetection writes over a row is a row.
LEMMA CarriedType ==
    ASSUME TypeOK, NEW g \in Pages, NEW i \in Items, NEW reading \in Readings
    PROVE  Carried(g, i, reading) \in Rows
<1> DEFINE old == row[g][i]
<1>1. old \in Rows
  BY DEF TypeOK
<1>2. PICK now \in Readings, machine \in Readings :
        Carried(g, i, reading) = [old EXCEPT !.now = now, !.machine = machine]
  <2>1. "none" \in Marks
    BY DEF Marks
  <2> DEFINE verdict == i \in Written /\ ~page[g].paired
             now == [old.now EXCEPT !.mark = IF verdict THEN "none" ELSE @]
             machine == IF i \in Written
                        THEN [outcome |-> reading.outcome,
                              mark |-> IF verdict THEN "none" ELSE old.machine.mark]
                        ELSE reading
  <2>2. now \in Readings
    BY <1>1, <2>1 DEF Rows, Readings
  <2>3. machine \in Readings
    BY <1>1, <2>1 DEF Rows, Readings
  <2>4. Carried(g, i, reading) = [old EXCEPT !.now = now, !.machine = machine]
    BY <1>1 DEF Carried, Rows, Readings
  <2> HIDE DEF now, machine, old
  <2> QED
    BY <2>2, <2>3, <2>4, Zenon
<1> QED
  BY <1>1, <1>2 DEF Rows

\* The teacher's handling of a page.
LEMMA PageTypeOK ==
    ASSUME TypeOK, NEW g \in Pages, OnPage(g)
    PROVE  TypeOK'
<1>1. CASE SetPageDiscarded(g)
  <2>1. page' \in [Pages -> PageRows]
    <3>1. page[g] \in PageRows
      BY DEF TypeOK
    <3>2. /\ [page[g] EXCEPT !.at = "discarded", !.student = Nobody] \in PageRows
          /\ [page[g] EXCEPT !.at = "live"] \in PageRows
      BY <3>1 DEF PageRows
    <3> QED
      BY <1>1, <3>2 DEF SetPageDiscarded, TypeOK
  <2> QED
    BY <1>1, <2>1 DEF SetPageDiscarded, TypeOK, jobs, graders, ledger
<1>2. ASSUME NEW s \in Students, AssignPageStudent(g, s) PROVE TypeOK'
  <2> DEFINE p == PileOf[g]
  <2>1. p \in Piles
    BY PilesAssumption
  <2>2. PICK reread \in BOOLEAN :
          page' = [page EXCEPT ![g] = [@ EXCEPT !.student = s, !.at = "live",
                        !.foreign = FALSE, !.paired = page[g].paired \/ reread]]
    BY <1>2, Zenon DEF AssignPageStudent
  <2>3. page' \in [Pages -> PageRows]
    <3>1. page[g] \in PageRows
      BY DEF TypeOK
    <3>2. [page[g] EXCEPT !.student = s, !.at = "live", !.foreign = FALSE,
                          !.paired = page[g].paired \/ reread] \in PageRows
      BY <3>1 DEF PageRows
    <3> QED
      BY <2>2, <3>2 DEF TypeOK
  <2>4. row' \in [Pages -> [Items -> Rows]]
    <3>1. ASSUME NEW reads \in FreshReads(TRUE),
                 row' = [row EXCEPT ![g] = Redetected(g, reads)]
          PROVE  row' \in [Pages -> [Items -> Rows]]
      <4>1. \A i \in Items : reads[i] \in Readings
        BY FreshReadsType
      <4>2. Redetected(g, reads) \in [Items -> Rows]
        BY <4>1, CarriedType, MachineType DEF Redetected
      <4> QED
        BY <3>1, <4>2 DEF TypeOK
    <3>2. CASE UNCHANGED row
      BY <3>2 DEF TypeOK
    <3> QED
      BY <1>2, <3>1, <3>2 DEF AssignPageStudent
  <2>5. held' \in [Piles -> SUBSET HeldRows]
    <3>1. Deleted(p, g) \subseteq HeldRows
      <4>1. \A h \in HeldRows : [h EXCEPT !.there = FALSE] \in HeldRows
        BY DEF HeldRows
      <4>2. held[p] \subseteq HeldRows
        BY <2>1 DEF TypeOK
      <4> QED
        BY <4>1, <4>2 DEF Deleted
    <3>2. \/ held' = [held EXCEPT ![p] = Deleted(p, g)]
          \/ UNCHANGED held
      BY <1>2 DEF AssignPageStudent
    <3> QED
      BY <3>1, <3>2 DEF TypeOK
  <2>6. gradeJob' \in [Piles -> {"none", "queued", "running"}]
    BY <1>2 DEF AssignPageStudent, TypeOK
  <2> QED
    BY <1>2, <2>3, <2>4, <2>5, <2>6 DEF AssignPageStudent, TypeOK, jobs, ledger
<1>3. ASSUME NEW i \in Items, CorrectDetection(g, i) PROVE TypeOK'
  <2>1. PICK mark \in Overrides :
          row' = [row EXCEPT ![g][i] = [@ EXCEPT
                    !.now = [outcome |-> "corrected", mark |-> mark],
                    !.byTeacher = TRUE]]
    BY <1>3, Zenon DEF CorrectDetection
  <2>2. row[g][i] \in Rows
    BY DEF TypeOK
  <2>3. [outcome |-> "corrected", mark |-> mark] \in Readings
    BY ReadsAssumption DEF Readings, Outcomes
  <2>4. [row[g][i] EXCEPT !.now = [outcome |-> "corrected", mark |-> mark],
                          !.byTeacher = TRUE] \in Rows
    BY <2>2, <2>3 DEF Rows
  <2> QED
    BY <1>3, <2>1, <2>4 DEF CorrectDetection, TypeOK, jobs, graders, ledger
<1>4. ASSUME NEW i \in Items, RevertDetection(g, i) PROVE TypeOK'
  <2>1. row[g][i] \in Rows
    BY DEF TypeOK
  <2>2. [row[g][i] EXCEPT !.now = row[g][i].machine, !.byTeacher = FALSE] \in Rows
    BY <2>1 DEF Rows
  <2> QED
    BY <1>4, <2>2 DEF RevertDetection, TypeOK, jobs, graders, ledger
<1> QED
  BY <1>1, <1>2, <1>3, <1>4 DEF OnPage

\* Signing and reopening.
LEMMA SigningTypeOK ==
    ASSUME TypeOK, NEW p \in Piles, ConfirmScan(p) \/ UnvalidateScan(p)
    PROVE  TypeOK'
<1>1. CASE ConfirmScan(p)
  <2> DEFINE rows == Settle(PendingRows(p))
  <2>1. rows \in [Pages -> [Items -> Rows]]
    BY SettleType DEF TypeOK
  <2>2. Superseded(p, rows) \in [Students -> [Items -> Attempts \union {NoAttempt}]]
    BY <2>1, SupersededType
  <2>3. older' \in [Piles -> SUBSET Piles]
    BY <1>1 DEF ConfirmScan, TypeOK
  <2> QED
    BY <1>1, <2>1, <2>2, <2>3 DEF ConfirmScan, TypeOK, Statuses, jobs, graders
<1>2. CASE UnvalidateScan(p)
  BY <1>2, WithdrawnType DEF UnvalidateScan, TypeOK, Statuses, jobs, graders, readings
<1> QED
  BY <1>1, <1>2

\* Every step keeps every variable in its type.
LEMMA StepTypeOK == TypeOK /\ [Next]_vars => TypeOK'
<1> SUFFICES ASSUME TypeOK, [Next]_vars PROVE TypeOK'
  OBVIOUS
<1>1. ASSUME NEW p \in Piles, OnPile(p) PROVE TypeOK'
  BY <1>1, UploadingTypeOK, SigningTypeOK DEF OnPile
<1>2. CASE UNCHANGED vars
  BY <1>2 DEF TypeOK, vars, jobs, graders, readings, ledger
<1> QED
  BY <1>1, <1>2, ReaderTypeOK, ReaderFailsTypeOK, ReapTypeOK, GraderTypeOK,
     GraderFailsTypeOK, PageTypeOK
     DEF Next

\* The rows, jobs and marks keep the shapes the tables give them, whatever is
\* uploaded, read, corrected, signed and reopened (models/__init__.py:1623).
THEOREM TypeCorrect == Spec => []TypeOK
  BY InitTypeOK, StepTypeOK, PTL DEF Spec

-----------------------------------------------------------------------------
(* Who writes where, on any sheet                                          *)

\* A delivery holds photographs of its own that have no page yet.
ReadersApart ==
    \A r \in Runs : todo[r] \subseteq
        {g \in Pages : ReadBy[g] = r /\ page[g].at = "stored"}

Placed == TypeOK /\ ReadersApart

\* So it writes into its own pile, and over nobody's rows.
LEMMA PageOfReader ==
    ASSUME Placed, NEW r \in Runs, NEW g \in todo[r]
    PROVE  g \in Pages /\ PileOf[g] = r.pile /\ ReadBy[g] = r /\ ~HasRow(g)
  BY PilesAssumption DEF Placed, ReadersApart, HasRow

\* The photographs of a delivery become pages one at a time.
LEMMA ReadPageElsewhere ==
    ASSUME Placed, NEW r \in Runs, ReadPage(r)
    PROVE  \E g \in todo[r] :
             /\ page'[g].at = "live"
             /\ todo' = [todo EXCEPT ![r] = @ \ {g}]
             /\ \A h \in Pages \ {g} : page'[h] = page[h] /\ row'[h] = row[h]
<1>1. PICK g \in todo[r], registered \in BOOLEAN :
        ReadAs(r, g, ReadCode(g, registered), registered)
  BY DEF ReadPage
<1>2. g \in Pages
  BY DEF Placed, TypeOK
<1>3. /\ page'[g].at = "live"
      /\ \A h \in Pages \ {g} : page'[h] = page[h] /\ row'[h] = row[h]
  BY <1>1, <1>2 DEF ReadAs, PageRead, Placed, TypeOK
<1>4. todo' = [todo EXCEPT ![r] = @ \ {g}]
  BY <1>1 DEF ReadAs
<1> QED
  BY <1>3, <1>4

\* Uploading touches the pages of its pile, and makes none that had a row or
\* was waiting to be read any less so.
LEMMA UploadingElsewhere ==
    ASSUME TypeOK, NEW p \in Piles, Upload(p) \/ AppendPages(p), NEW g \in Pages
    PROVE  /\ g \notin PagesOf(p) => page'[g] = page[g]
           /\ page[g].at = "stored" => page'[g].at = "stored"
           /\ HasRow(g) /\ AppendPages(p) => HasRow(g)'
<1>1. page[g] \in PageRows
  BY DEF TypeOK
<1>2. CASE Upload(p)
  BY <1>1, <1>2 DEF Upload, AppendPages, Store, PageRows, PagesOf
<1>3. CASE AppendPages(p)
  <2>1. PICK superseded \in SUBSET {h \in PagesOf(p) : HasRow(h)} :
          page' = [h \in Pages |->
                IF h \in superseded THEN [page[h] EXCEPT !.at = "discarded"]
                                    ELSE Store(Added(p))[h]]
    BY <1>3, Zenon DEF AppendPages
  <2>2. CASE g \in superseded
    BY <1>1, <2>1, <2>2 DEF HasRow, PageRows
  <2>3. CASE g \notin superseded
    BY <1>1, <2>1, <2>3 DEF Store, Added, HasRow, PageRows, PagesOf
  <2> QED
    BY <2>2, <2>3
<1> QED
  BY <1>2, <1>3

\* What the teacher does to a page is done to a page of an open pile, and to
\* that page alone.
LEMMA OnPageElsewhere ==
    ASSUME TypeOK, NEW g \in Pages, OnPage(g)
    PROVE  /\ UNCHANGED <<status, todo, overrun, ledger>>
           /\ HasRow(g) /\ status[PileOf[g]] # "confirmed"
           /\ \A h \in Pages \ {g} : page'[h] = page[h] /\ row'[h] = row[h]
<1>1. /\ UNCHANGED <<status, todo, overrun, ledger>>
      /\ HasRow(g) /\ status[PileOf[g]] # "confirmed"
  BY Zenon DEF OnPage, SetPageDiscarded, AssignPageStudent, CorrectDetection,
               RevertDetection, Editable, jobs
<1>2. CASE SetPageDiscarded(g)
  BY <1>1, <1>2 DEF SetPageDiscarded, TypeOK
<1>3. ASSUME NEW s \in Students, AssignPageStudent(g, s)
      PROVE  \A h \in Pages \ {g} : page'[h] = page[h] /\ row'[h] = row[h]
  BY <1>3 DEF AssignPageStudent, TypeOK
<1>4. ASSUME NEW i \in Items, RevertDetection(g, i)
      PROVE  \A h \in Pages \ {g} : page'[h] = page[h] /\ row'[h] = row[h]
  <2> DEFINE new == [row[g][i] EXCEPT !.now = row[g][i].machine, !.byTeacher = FALSE]
  <2>1. row' = [row EXCEPT ![g][i] = new] /\ page' = page
    BY <1>4 DEF RevertDetection
  <2> HIDE DEF new
  <2> QED
    BY <2>1 DEF TypeOK
<1>5. ASSUME NEW i \in Items, CorrectDetection(g, i)
      PROVE  \A h \in Pages \ {g} : page'[h] = page[h] /\ row'[h] = row[h]
  <2>1. PICK mark \in Overrides :
          row' = [row EXCEPT ![g][i] = [@ EXCEPT
                    !.now = [outcome |-> "corrected", mark |-> mark],
                    !.byTeacher = TRUE]]
    BY <1>5, Zenon DEF CorrectDetection
  <2>2. page' = page
    BY <1>5, Zenon DEF CorrectDetection
  <2> QED
    BY <2>1, <2>2 DEF TypeOK
<1> QED
  BY <1>1, <1>2, <1>3, <1>4, <1>5 DEF OnPage

\* Whoever acts, the deliveries stay apart.
LEMMA ApartStep == ASSUME Placed, [Next]_vars PROVE ReadersApart'
<1> USE DEF Placed
<1>1. CASE UNCHANGED <<todo, page>>
  BY <1>1 DEF ReadersApart
<1>2. ASSUME NEW p \in Piles, Upload(p) \/ AppendPages(p) PROVE ReadersApart'
  <2>1. todo' = todo
    BY <1>2 DEF Upload, AppendPages
  <2>2. \A g \in Pages : page[g].at = "stored" => page'[g].at = "stored"
    BY <1>2, UploadingElsewhere
  <2> QED
    BY <2>1, <2>2 DEF ReadersApart
<1>3. ASSUME NEW r \in Runs, Reader(r) \/ ReaderFails(r) PROVE ReadersApart'
  <2>1. CASE BeginReading(r)
    <3> DEFINE own == {g \in Pages : ReadBy[g] = r /\ page[g].at = "stored"}
    <3>1. todo' = [todo EXCEPT ![r] = own] /\ page' = page
      BY <2>1 DEF BeginReading, readings
    <3> QED
      BY <3>1 DEF ReadersApart, TypeOK
  <2>2. CASE ReadPage(r)
    <3>1. PICK g \in todo[r] :
             /\ todo' = [todo EXCEPT ![r] = @ \ {g}]
             /\ \A h \in Pages \ {g} : page'[h] = page[h]
      BY <2>2, ReadPageElsewhere
    <3>2. ReadBy[g] = r
      BY PageOfReader
    <3> QED
      BY <3>1, <3>2 DEF ReadersApart, TypeOK
  <2>3. CASE EndReading(r) \/ EndJob(r) \/ ReaderFails(r)
    BY <1>1, <2>3, Zenon
       DEF EndReading, EndJob, ReaderFails, DecodeFails, ReadingRaises, ReadingBreaks, readings
  <2> QED
    BY <1>3, <2>1, <2>2, <2>3 DEF Reader
<1>4. ASSUME NEW j \in Jobs, ReapReader(j) PROVE ReadersApart'
  BY <1>1, <1>4 DEF ReapReader, readings
<1>5. ASSUME NEW p \in Piles, Grader(p) \/ GraderFails(p) PROVE ReadersApart'
  BY <1>1, <1>5, Zenon
     DEF Grader, StartGrading, SettleAnswer, EndGrading, GraderFails, GraderDies,
         GradeJobGoesStale, jobs, readings
<1>6. ASSUME NEW p \in Piles, ConfirmScan(p) \/ UnvalidateScan(p) PROVE ReadersApart'
  BY <1>1, <1>6, Zenon DEF ConfirmScan, UnvalidateScan, jobs, readings
<1>7. ASSUME NEW g \in Pages, OnPage(g) PROVE ReadersApart'
  BY <1>7, OnPageElsewhere DEF ReadersApart, HasRow
<1>8. CASE UNCHANGED vars
  BY <1>1, <1>8 DEF vars, jobs, readings
<1> QED
  BY <1>2, <1>3, <1>4, <1>5, <1>6, <1>7, <1>8 DEF Next, OnPile

\* The base of every invariant below.
LEMMA PlacedInit == Init => Placed
  BY InitTypeOK DEF Init, Placed, ReadersApart

LEMMA PlacedStep == ASSUME Placed, [Next]_vars PROVE Placed'
  BY StepTypeOK, ApartStep DEF Placed

\* What a step that is no signature, no reopening and no verdict leaves alone:
\* the ledger, and the signed piles it does not overrun. In a pile it overruns it
\* writes pages that had no row.
LeavesSigned ==
    /\ UNCHANGED ledger
    /\ \A p \in Piles : overrun[p] => overrun'[p]
    /\ \A p \in Piles : ~overrun'[p] =>
         ((status'[p] = "confirmed") <=> (status[p] = "confirmed"))
    /\ \A g \in Pages : status[PileOf[g]] = "confirmed" =>
         \/ page'[g] = page[g] /\ row'[g] = row[g]
         \/ ~HasRow(g) /\ overrun'[PileOf[g]]

\* The upload, the retakes and the worker's faults are such steps.
LEMMA UploadingLeaves ==
    ASSUME TypeOK, NEW p \in Piles, Upload(p) \/ AppendPages(p) PROVE LeavesSigned
<1>1. /\ UNCHANGED <<row, overrun, ledger>> /\ status[p] # "confirmed"
      /\ status' = [status EXCEPT ![p] = "uploaded"]
  BY DEF Upload, AppendPages
<1>2. \A g \in Pages : PileOf[g] # p => page'[g] = page[g]
  BY UploadingElsewhere DEF PagesOf
<1> QED
  BY <1>1, <1>2 DEF LeavesSigned, TypeOK

\* A step that writes what is left of a pile's reading.
LEMMA StatusLeaves ==
    ASSUME TypeOK, NEW p \in Piles, NEW x \in {"processing", "needs_review", "failed"},
           \/ status' = [status EXCEPT ![p] = x] /\ WritesInto(p)
           \/ UNCHANGED <<status, overrun>>,
           UNCHANGED <<readings, ledger>>
    PROVE  LeavesSigned
  BY DEF LeavesSigned, WritesInto, readings, TypeOK

LEMMA ReaderLeaves ==
    ASSUME Placed, NEW r \in Runs, Reader(r) \/ ReaderFails(r) PROVE LeavesSigned
<1> USE DEF Placed
<1>1. r.pile \in Piles
  BY Deliveries
<1>2. CASE ReadPage(r)
  <2>1. PICK g \in todo[r] :
           \A h \in Pages \ {g} : page'[h] = page[h] /\ row'[h] = row[h]
    BY <1>2, ReadPageElsewhere
  <2>2. PileOf[g] = r.pile /\ ~HasRow(g)
    BY PageOfReader
  <2>3. /\ UNCHANGED ledger
        /\ overrun' = [overrun EXCEPT ![r.pile] = @ \/ status[r.pile] = "confirmed"]
        /\ status' = status \/ status' = [status EXCEPT ![r.pile] = "processing"]
    BY <1>2 DEF ReadPage, WritesInto
  <2> QED
    BY <1>1, <2>1, <2>2, <2>3 DEF LeavesSigned, TypeOK
<1>3. CASE BeginReading(r) \/ EndJob(r) \/ ReadingRaises(r) \/ ReadingBreaks(r)
  <2>1. UNCHANGED <<status, overrun, readings, ledger>>
    BY <1>3, Zenon DEF BeginReading, EndJob, ReadingRaises, ReadingBreaks
  <2> QED
    BY <1>1, <2>1, StatusLeaves
<1>4. CASE EndReading(r)
  BY <1>1, <1>4, StatusLeaves DEF EndReading
<1>5. CASE DecodeFails(r)
  BY <1>1, <1>5, StatusLeaves DEF DecodeFails
<1> QED
  BY <1>2, <1>3, <1>4, <1>5 DEF Reader, ReaderFails

LEMMA NothingSigned ==
    ASSUME Placed, [Next]_vars,
           \A p \in Piles : ~ConfirmScan(p) /\ ~UnvalidateScan(p) /\ ~Grader(p)
    PROVE  LeavesSigned
<1> USE DEF Placed
<1>1. CASE UNCHANGED <<status, overrun, readings, ledger>>
  BY <1>1 DEF LeavesSigned, readings
<1>2. ASSUME NEW j \in Jobs, ReapReader(j) PROVE LeavesSigned
  BY <1>1, <1>2 DEF ReapReader
<1>3. ASSUME NEW p \in Piles, GraderFails(p) PROVE LeavesSigned
  BY <1>1, <1>3 DEF GraderFails, GraderDies, GradeJobGoesStale, jobs
<1>4. ASSUME NEW g \in Pages, OnPage(g) PROVE LeavesSigned
  BY <1>4, OnPageElsewhere DEF LeavesSigned
<1>5. CASE UNCHANGED vars
  BY <1>1, <1>5 DEF vars, jobs
<1> QED
  BY <1>2, <1>3, <1>4, <1>5, UploadingLeaves, ReaderLeaves DEF Next, OnPile

-----------------------------------------------------------------------------
(* Bubble sheets                                                           *)
(*                                                                         *)
(* With written answers a grader may still hold a row of a signed pile;    *)
(* the ledger then can part from its readings.  Without it cannot, as long *)
(* as no reader writes into a signed pile.                                 *)

BubbleSheets ==
    /\ Written = {}
    /\ \A r \in BubbleReads : r.outcome # "pending"

\* No answer awaits a grader.
NothingPends ==
    \A g \in Pages, i \in Items :
        /\ row[g][i].now.outcome # "pending"
        /\ row[g][i].machine.outcome # "pending"

\* So none is ever sent.
NobodyGrades ==
    /\ \A p \in Piles : gradeJob[p] = "none" /\ held[p] = {} /\ ~grading[p]
    /\ \A r \in Runs : ~chain[r]

QuietInv == Placed /\ NothingPends /\ NobodyGrades

\* No row is pending: there is nothing for a grader, and nothing to settle.
LEMMA NothingToSettle ==
    ASSUME QuietInv, NEW p \in Piles
    PROVE  PendingRows(p) = {} /\ Settle(PendingRows(p)) = row
<1>1. PendingRows(p) = {}
  <2> SUFFICES ASSUME NEW r \in PendingRows(p) PROVE FALSE
    OBVIOUS
  <2>1. r[1] \in Pages /\ r[2] \in Items /\ row[r[1]][r[2]].now.outcome = "pending"
    BY DEF PendingRows, Live, PagesOf
  <2> QED
    BY <2>1 DEF QuietInv, NothingPends
<1>2. row \in [Pages -> [Items -> Rows]]
  BY DEF QuietInv, Placed, TypeOK
<1>3. Settle({}) = [g \in Pages |-> [i \in Items |-> row[g][i]]]
  BY DEF Settle
<1> QED
  BY <1>1, <1>2, <1>3

\* A bubble is read as anything but pending.
LEMMA BubbleReadsOnly ==
    ASSUME BubbleSheets, NEW paired, NEW reads \in FreshReads(paired), NEW i \in Items
    PROVE  reads[i] \in Readings /\ reads[i].outcome # "pending"
  BY ReadsAssumption DEF BubbleSheets, FreshReads

\* The upload and the retakes write no readings.
LEMMA UploadingQuiet ==
    ASSUME QuietInv, NEW p \in Piles, Upload(p) \/ AppendPages(p)
    PROVE  NothingPends' /\ NobodyGrades'
<1>1. UNCHANGED <<chain, gradeJob, held, grading, row>>
  BY DEF Upload, AppendPages, graders
<1> QED
  BY <1>1 DEF QuietInv, NothingPends, NobodyGrades

\* What the worker reads is not pending.
LEMMA ReaderQuiet ==
    ASSUME BubbleSheets, QuietInv, NEW r \in Runs, Reader(r) \/ ReaderFails(r)
    PROVE  NothingPends' /\ NobodyGrades'
<1> USE DEF QuietInv, Placed
<1>1. CASE ReadPage(r)
  <2>1. PICK g \in todo[r], registered \in BOOLEAN :
          ReadAs(r, g, ReadCode(g, registered), registered)
    BY <1>1 DEF ReadPage
  <2> DEFINE code == ReadCode(g, registered)
  <2>2. g \in Pages
    BY DEF TypeOK
  <2>3. NothingPends'
    <3>1. CASE UNCHANGED row
      BY <3>1 DEF NothingPends
    <3>2. ASSUME NEW reads \in FreshReads(Pairs(r, g, code)),
                 row' = [row EXCEPT ![g] = [i \in Items |-> Machine(reads[i])]]
          PROVE  NothingPends'
      BY <2>2, <3>2, BubbleReadsOnly DEF NothingPends, Machine, TypeOK
    <3> QED
      BY <2>1, <3>1, <3>2 DEF ReadAs
  <2>4. NobodyGrades'
    <3>1. \A i \in Items : row[g][i].now # Pending
      BY <2>2 DEF NothingPends, Pending
    <3>2. chain' = [chain EXCEPT ![r] =
            @ \/ \E i \in Items : row[g][i].exists /\ row[g][i].now = Pending]
      BY <2>1 DEF ReadAs
    <3>3. ~chain'[r] /\ \A q \in Runs \ {r} : chain'[q] = chain[q]
      BY <3>1, <3>2 DEF TypeOK, NobodyGrades
    <3> QED
      BY <1>1, <3>3 DEF ReadPage, graders, NobodyGrades
  <2> QED
    BY <2>3, <2>4
<1>2. CASE ~ReadPage(r)
  <2>1. UNCHANGED <<row, held, grading>>
    BY <1>2, Zenon DEF Reader, BeginReading, EndReading, EndJob, ReaderFails, DecodeFails,
               ReadingRaises, ReadingBreaks, graders, readings
  <2>2. chain' = chain \/ chain' = [chain EXCEPT ![r] = FALSE]
    BY <1>2, Zenon DEF Reader, BeginReading, EndReading, EndJob, ReaderFails, DecodeFails,
               ReadingRaises, ReadingBreaks
  <2>3. gradeJob' = gradeJob
    <3>1. CASE EndJob(r)
      BY <3>1 DEF EndJob, NobodyGrades
    <3>2. CASE ~EndJob(r)
      BY <1>2, <3>2, Zenon DEF Reader, BeginReading, EndReading, ReaderFails, DecodeFails,
                 ReadingRaises, ReadingBreaks, graders
    <3> QED
      BY <3>1, <3>2
  <2> QED
    BY <2>1, <2>2, <2>3 DEF NothingPends, NobodyGrades, TypeOK
<1> QED
  BY <1>1, <1>2

\* No grader acts.
LEMMA GraderQuiet == ASSUME QuietInv, NEW p \in Piles PROVE ~Grader(p)
  BY DEF QuietInv, NobodyGrades, Grader, StartGrading, SettleAnswer, EndGrading

\* The teacher's handling of a page keeps it so.
LEMMA PageQuiet ==
    ASSUME BubbleSheets, QuietInv, NEW g \in Pages, OnPage(g)
    PROVE  NothingPends' /\ NobodyGrades'
<1> USE DEF QuietInv, Placed
<1>1. CASE SetPageDiscarded(g)
  BY <1>1 DEF SetPageDiscarded, jobs, graders, NothingPends, NobodyGrades
<1>2. ASSUME NEW s \in Students, AssignPageStudent(g, s)
      PROVE  NothingPends' /\ NobodyGrades'
  <2> DEFINE p == PileOf[g]
  <2>1. p \in Piles
    BY PilesAssumption
  <2>2. NothingPends'
    <3>1. ASSUME NEW reads \in FreshReads(TRUE),
                 row' = [row EXCEPT ![g] = Redetected(g, reads)]
          PROVE  NothingPends'
      <4>1. ASSUME NEW i \in Items
            PROVE  /\ Redetected(g, reads)[i].now.outcome # "pending"
                   /\ Redetected(g, reads)[i].machine.outcome # "pending"
        <5>1. row[g][i] \in Rows /\ row[g][i].now.outcome # "pending"
          BY DEF TypeOK, NothingPends
        <5>2. i \notin Written
          BY DEF BubbleSheets
        <5>3. reads[i].outcome # "pending"
          BY BubbleReadsOnly
        <5>4. /\ Carried(g, i, reads[i]).now.outcome = row[g][i].now.outcome
              /\ Carried(g, i, reads[i]).machine = reads[i]
          BY <5>1, <5>2 DEF Carried, Rows, Readings
        <5> QED
          BY <5>1, <5>3, <5>4 DEF Redetected, Machine
      <4> QED
        BY <3>1, <4>1 DEF TypeOK, NothingPends
    <3>2. CASE UNCHANGED row
      BY <3>2 DEF NothingPends
    <3> QED
      BY <1>2, <3>1, <3>2 DEF AssignPageStudent
  <2>3. PendingRows(p)' = {}
    <3> SUFFICES ASSUME NEW r \in PendingRows(p)' PROVE FALSE
      OBVIOUS
    <3>1. r[1] \in Pages /\ r[2] \in Items /\ row'[r[1]][r[2]].now.outcome = "pending"
      BY DEF PendingRows, Live, PagesOf
    <3> QED
      BY <2>2, <3>1 DEF NothingPends
  <2>4. gradeJob' = gradeJob
    BY <1>2, <2>3 DEF AssignPageStudent
  <2>5. \A q \in Piles : held'[q] = {}
    <3>1. Deleted(p, g) = {}
      BY <2>1 DEF NobodyGrades, Deleted
    <3>2. held' = [held EXCEPT ![p] = Deleted(p, g)] \/ UNCHANGED held
      BY <1>2 DEF AssignPageStudent
    <3> QED
      BY <3>1, <3>2 DEF TypeOK, NobodyGrades
  <2>6. UNCHANGED <<chain, grading>>
    BY <1>2 DEF AssignPageStudent, jobs
  <2> QED
    BY <2>2, <2>4, <2>5, <2>6 DEF NobodyGrades
<1>3. ASSUME NEW i \in Items, CorrectDetection(g, i)
      PROVE  NothingPends' /\ NobodyGrades'
  <2>1. PICK mark \in Overrides :
          row' = [row EXCEPT ![g][i] = [@ EXCEPT
                    !.now = [outcome |-> "corrected", mark |-> mark],
                    !.byTeacher = TRUE]]
    BY <1>3, Zenon DEF CorrectDetection
  <2>2. row[g][i] \in Rows
    BY DEF TypeOK
  <2> DEFINE new == [row[g][i] EXCEPT !.now = [outcome |-> "corrected", mark |-> mark],
                                      !.byTeacher = TRUE]
  <2>3. new.now.outcome = "corrected" /\ new.machine = row[g][i].machine
    BY <2>2 DEF Rows
  <2>4. NothingPends'
    BY <2>1, <2>3 DEF NothingPends, TypeOK
  <2> QED
    BY <1>3, <2>4 DEF CorrectDetection, jobs, graders, NobodyGrades
<1>4. ASSUME NEW i \in Items, RevertDetection(g, i)
      PROVE  NothingPends' /\ NobodyGrades'
  <2>1. row[g][i] \in Rows
    BY DEF TypeOK
  <2> DEFINE new == [row[g][i] EXCEPT !.now = row[g][i].machine, !.byTeacher = FALSE]
  <2>2. new.now = row[g][i].machine /\ new.machine = row[g][i].machine
    BY <2>1 DEF Rows
  <2>3. row' = [row EXCEPT ![g][i] = new]
    BY <1>4 DEF RevertDetection
  <2> HIDE DEF new
  <2>4. NothingPends'
    BY <2>2, <2>3 DEF NothingPends, TypeOK
  <2> QED
    BY <1>4, <2>4 DEF RevertDetection, jobs, graders, NobodyGrades
<1> QED
  BY <1>1, <1>2, <1>3, <1>4 DEF OnPage

\* Signing and reopening settle nothing.
LEMMA SigningQuiet ==
    ASSUME QuietInv, NEW p \in Piles, ConfirmScan(p) \/ UnvalidateScan(p)
    PROVE  /\ NothingPends' /\ NobodyGrades'
           /\ UNCHANGED <<page, row>>
<1>1. row' = row
  BY NothingToSettle DEF ConfirmScan, UnvalidateScan, readings
<1>2. UNCHANGED <<page, chain, graders>>
  BY DEF ConfirmScan, UnvalidateScan, jobs, readings
<1> QED
  BY <1>1, <1>2 DEF QuietInv, NothingPends, NobodyGrades, graders

\* So it stays.
LEMMA QuietStep == ASSUME BubbleSheets, QuietInv, [Next]_vars PROVE QuietInv'
<1>1. ASSUME NEW p \in Piles, OnPile(p) \/ Grader(p) \/ GraderFails(p)
      PROVE  NothingPends' /\ NobodyGrades'
  BY <1>1, UploadingQuiet, SigningQuiet, GraderQuiet
     DEF OnPile, GraderFails, GraderDies, GradeJobGoesStale, QuietInv, NobodyGrades
<1>2. ASSUME NEW j \in Jobs, ReapReader(j) PROVE NothingPends' /\ NobodyGrades'
  BY <1>2 DEF ReapReader, graders, readings, QuietInv, NothingPends, NobodyGrades
<1>3. ASSUME UNCHANGED vars PROVE NothingPends' /\ NobodyGrades'
  BY <1>3 DEF vars, jobs, graders, readings, QuietInv, NothingPends, NobodyGrades
<1>4. Placed'
  BY PlacedStep DEF QuietInv
<1>5. NothingPends' /\ NobodyGrades'
  BY <1>1, <1>2, <1>3, ReaderQuiet, PageQuiet DEF Next
<1> QED
  BY <1>4, <1>5 DEF QuietInv

-----------------------------------------------------------------------------
(* Signed piles and their marks                                            *)

\* What was signed had been looked at: no live page of a signed pile that no
\* reader wrote into carries a reading the machine was unsure of.
Reviewed ==
    \A g \in Pages, i \in Items :
        /\ status[PileOf[g]] = "confirmed" /\ ~overrun[PileOf[g]]
        /\ g \in Live(PileOf[g])
        /\ row[g][i].exists
        => row[g][i].now.outcome # "low"

SignedInv == QuietInv /\ MarkStandsOnReading /\ NewestSignedWins /\ Reviewed

\* An attempt is told from NoAttempt by its pile.
LEMMA AttemptOfAPile ==
    ASSUME QuietInv, NEW s \in Students, NEW i \in Items
    PROVE  /\ attempt[s][i] \in Attempts \union {NoAttempt}
           /\ attempt[s][i] # NoAttempt => attempt[s][i].pile \in Piles
           /\ attempt[s][i].pile \in Piles => attempt[s][i] # NoAttempt
<1>1. attempt[s][i] \in Attempts \union {NoAttempt}
  BY DEF QuietInv, Placed, TypeOK
<1>2. NoAttempt.pile \notin Piles
  BY PilesAssumption DEF NoAttempt
<1> QED
  BY <1>1, <1>2 DEF Attempts

\* What marks an answer depends on the pile's pages and readings alone.
LEMMA MarkingKept ==
    ASSUME NEW p \in Piles, NEW s \in Students, NEW i \in Items,
           \A g \in PagesOf(p) : page'[g] = page[g] /\ row'[g] = row[g]
    PROVE  Marking(p, s, i, row)' = Marking(p, s, i, row)
  BY DEF Marking, Live, PagesOf

\* A step of nobody who signs or reopens leaves a quiet pile's signature alone.
LEMMA QuietLeaves ==
    ASSUME QuietInv, [Next]_vars,
           \A p \in Piles : ~ConfirmScan(p) /\ ~UnvalidateScan(p)
    PROVE  /\ LeavesSigned
           /\ \A p \in Piles : ~overrun'[p] => ~overrun[p]
           /\ \A g \in Pages :
                status[PileOf[g]] = "confirmed" /\ ~overrun'[PileOf[g]] =>
                    page'[g] = page[g] /\ row'[g] = row[g]
<1>1. LeavesSigned
  BY NothingSigned, GraderQuiet DEF QuietInv
<1> QED
  BY <1>1 DEF LeavesSigned

\* So a step that signs nothing and reopens nothing keeps every mark standing.
LEMMA UnsignedStep ==
    ASSUME SignedInv, [Next]_vars,
           \A p \in Piles : ~ConfirmScan(p) /\ ~UnvalidateScan(p)
    PROVE  (MarkStandsOnReading /\ NewestSignedWins /\ Reviewed)'
<1>1. /\ UNCHANGED ledger
      /\ \A p \in Piles : ~overrun'[p] =>
           ~overrun[p] /\ ((status'[p] = "confirmed") <=> (status[p] = "confirmed"))
      /\ \A g \in Pages : status[PileOf[g]] = "confirmed" /\ ~overrun'[PileOf[g]] =>
           page'[g] = page[g] /\ row'[g] = row[g]
  BY QuietLeaves DEF SignedInv, LeavesSigned
<1>2. ASSUME NEW p \in Piles, status[p] = "confirmed", ~overrun'[p],
             NEW s \in Students, NEW i \in Items
      PROVE  Marking(p, s, i, row)' = Marking(p, s, i, row)
  BY <1>1, <1>2, MarkingKept DEF PagesOf
<1>3. MarkStandsOnReading'
  <2> SUFFICES ASSUME NEW s \in Students, NEW i \in Items, attempt'[s][i] # NoAttempt,
                      ~overrun'[attempt'[s][i].pile]
               PROVE  /\ status'[attempt'[s][i].pile] = "confirmed"
                      /\ attempt'[s][i].page \in Marking(attempt[s][i].pile, s, i, row)'
                      /\ attempt'[s][i].mark = Grade(row'[attempt'[s][i].page][i].now)
    BY DEF MarkStandsOnReading
  <2>1. attempt' = attempt
    BY <1>1 DEF ledger
  <2>2. PICK p \in Piles, g \in Pages : p = attempt[s][i].pile /\ g = attempt[s][i].page
    BY <2>1, AttemptOfAPile DEF SignedInv, Attempts
  <2>3. /\ status[p] = "confirmed"
        /\ g \in Marking(p, s, i, row)
        /\ attempt[s][i].mark = Grade(row[g][i].now)
    BY <1>1, <2>1, <2>2 DEF SignedInv, MarkStandsOnReading
  <2>4. PileOf[g] = p
    BY <2>3 DEF Marking, Live, PagesOf
  <2>5. g \in Marking(p, s, i, row)'
    BY <1>2, <2>1, <2>2, <2>3
  <2>6. status'[p] = "confirmed" /\ row'[g] = row[g]
    BY <1>1, <2>1, <2>2, <2>3, <2>4
  <2> QED
    BY <2>1, <2>2, <2>3, <2>5, <2>6
<1>4. NewestSignedWins'
  <2> SUFFICES ASSUME NEW s \in Students, NEW i \in Items, attempt[s][i] # NoAttempt,
                      ~overrun'[attempt[s][i].pile],
                      NEW g \in Pages, status'[PileOf[g]] = "confirmed",
                      ~overrun'[PileOf[g]],
                      g \in Marking(PileOf[g], s, i, row)'
               PROVE  \/ PileOf[g] = attempt[s][i].pile
                      \/ PileOf[g] \in older[attempt[s][i].pile]
    BY <1>1 DEF NewestSignedWins, ledger
  <2>1. PileOf[g] \in Piles /\ attempt[s][i].pile \in Piles
    BY PilesAssumption, AttemptOfAPile DEF SignedInv
  <2>2. /\ status[PileOf[g]] = "confirmed" /\ ~overrun[PileOf[g]]
        /\ g \in Marking(PileOf[g], s, i, row)
    BY <1>1, <1>2, <2>1
  <2> QED
    BY <1>1, <2>1, <2>2 DEF SignedInv, NewestSignedWins
<1>5. Reviewed'
  <2> SUFFICES ASSUME NEW g \in Pages, NEW i \in Items,
                      status'[PileOf[g]] = "confirmed", ~overrun'[PileOf[g]],
                      g \in Live(PileOf[g])', row'[g][i].exists
               PROVE  row'[g][i].now.outcome # "low"
    BY DEF Reviewed
  <2>1. status[PileOf[g]] = "confirmed" /\ ~overrun[PileOf[g]]
    BY <1>1, PilesAssumption
  <2>2. page'[g] = page[g] /\ row'[g] = row[g]
    BY <1>1, <2>1
  <2>3. g \in Live(PileOf[g])
    BY <2>2 DEF Live, PagesOf
  <2> QED
    BY <2>1, <2>2, <2>3 DEF SignedInv, Reviewed
<1> QED
  BY <1>3, <1>4, <1>5

\* A signature keeps the ledger and the signed evidence together.
LEMMA ConfirmStep ==
    ASSUME SignedInv, NEW p \in Piles, ConfirmScan(p)
    PROVE  (MarkStandsOnReading /\ NewestSignedWins /\ Reviewed)'
<1>1. /\ UNCHANGED <<page, row, overrun>>
      /\ attempt' = Superseded(p, row)
      /\ status' = [status EXCEPT ![p] = "confirmed"]
      /\ EveryReadingIsReviewed(p, row)
      /\ older' = [q \in Piles |->
             IF q = p THEN {o \in Piles \ {p} : status[o] = "confirmed"}
                      ELSE older[q] \ {p}]
  BY NothingToSettle, SigningQuiet DEF SignedInv, ConfirmScan, Signable, jobs
<1>2. status[p] # "confirmed"
  BY DEF ConfirmScan, Signable
<1>3. status \in [Piles -> Statuses]
  BY DEF SignedInv, QuietInv, Placed, TypeOK
<1>4. ASSUME NEW q \in Piles, NEW s \in Students, NEW i \in Items
      PROVE  Marking(q, s, i, row)' = Marking(q, s, i, row)
  BY <1>1, MarkingKept DEF PagesOf
<1>5. ASSUME NEW s \in Students, NEW i \in Items, Marking(p, s, i, row) # {}
      PROVE  \E g \in Marking(p, s, i, row) :
                g \in Pages /\ attempt'[s][i] = AttemptFrom(p, g, i, row)
  <2>1. Marking(p, s, i, row) \in SUBSET Pages
    BY DEF Marking, Live, PagesOf
  <2>2. LastOf(Marking(p, s, i, row)) \in Marking(p, s, i, row)
    BY <1>5, <2>1, LastOfType
  <2>3. attempt'[s][i] = AttemptFrom(p, LastOf(Marking(p, s, i, row)), i, row)
    BY <1>1, <1>5 DEF Superseded
  <2> QED
    BY <2>1, <2>2, <2>3
<1>6. ASSUME NEW s \in Students, NEW i \in Items, Marking(p, s, i, row) = {}
      PROVE  attempt'[s][i] = attempt[s][i]
  BY <1>1, <1>6 DEF Superseded
<1>7. MarkStandsOnReading'
  <2> SUFFICES ASSUME NEW s \in Students, NEW i \in Items, attempt'[s][i] # NoAttempt,
                      ~overrun'[attempt'[s][i].pile]
               PROVE  /\ status'[attempt'[s][i].pile] = "confirmed"
                      /\ attempt'[s][i].page \in Marking(attempt[s][i].pile, s, i, row)'
                      /\ attempt'[s][i].mark = Grade(row'[attempt'[s][i].page][i].now)
    BY DEF MarkStandsOnReading
  <2>1. CASE Marking(p, s, i, row) # {}
    <3>1. PICK g \in Marking(p, s, i, row) :
             g \in Pages /\ attempt'[s][i] = AttemptFrom(p, g, i, row)
      BY <1>5, <2>1
    <3>2. g \in Marking(p, s, i, row)'
      BY <1>4
    <3> QED
      BY <1>1, <1>3, <3>1, <3>2 DEF AttemptFrom
  <2>2. CASE Marking(p, s, i, row) = {}
    <3>1. attempt'[s][i] = attempt[s][i]
      BY <1>6, <2>2
    <3>2. PICK q \in Piles, g \in Pages : q = attempt[s][i].pile /\ g = attempt[s][i].page
      BY <3>1, AttemptOfAPile DEF SignedInv, Attempts
    <3>3. /\ status[q] = "confirmed"
          /\ g \in Marking(q, s, i, row)
          /\ attempt[s][i].mark = Grade(row[g][i].now)
      BY <1>1, <3>1, <3>2 DEF SignedInv, MarkStandsOnReading
    <3>4. g \in Marking(q, s, i, row)'
      BY <1>4, <3>3
    <3>5. status'[q] = "confirmed"
      BY <1>1, <1>3, <3>3
    <3> QED
      BY <1>1, <3>1, <3>2, <3>3, <3>4, <3>5
  <2> QED
    BY <2>1, <2>2
<1>8. NewestSignedWins'
  <2> SUFFICES ASSUME NEW s \in Students, NEW i \in Items, attempt'[s][i] # NoAttempt,
                      ~overrun'[attempt'[s][i].pile],
                      NEW g \in Pages, status'[PileOf[g]] = "confirmed",
                      ~overrun'[PileOf[g]],
                      g \in Marking(PileOf[g], s, i, row)'
               PROVE  \/ PileOf[g] = attempt'[s][i].pile
                      \/ PileOf[g] \in older'[attempt'[s][i].pile]
    BY DEF NewestSignedWins
  <2>1. PileOf[g] \in Piles
    BY PilesAssumption
  <2>2. g \in Marking(PileOf[g], s, i, row)
    BY <1>4, <2>1
  <2>3. PileOf[g] = p \/ status[PileOf[g]] = "confirmed"
    BY <1>1, <1>3, <2>1
  <2>4. CASE Marking(p, s, i, row) # {}
    <3>1. PICK h \in Pages : attempt'[s][i] = AttemptFrom(p, h, i, row)
      BY <1>5, <2>4
    <3>2. attempt'[s][i].pile = p
      BY <3>1 DEF AttemptFrom
    <3> QED
      BY <1>1, <2>1, <2>3, <3>2
  <2>5. CASE Marking(p, s, i, row) = {}
    <3>1. attempt'[s][i] = attempt[s][i]
      BY <1>6, <2>5
    <3>2. PileOf[g] # p
      BY <2>2, <2>5
    <3>3. PICK q \in Piles : q = attempt[s][i].pile
      BY <3>1, AttemptOfAPile DEF SignedInv
    <3>4. q # p
      BY <1>1, <1>2, <3>1, <3>3 DEF SignedInv, MarkStandsOnReading
    <3>5. PileOf[g] = q \/ PileOf[g] \in older[q]
      BY <1>1, <2>2, <2>3, <3>1, <3>2, <3>3 DEF SignedInv, NewestSignedWins
    <3> QED
      BY <1>1, <3>1, <3>2, <3>3, <3>4, <3>5
  <2> QED
    BY <2>4, <2>5
<1>9. Reviewed'
  <2> SUFFICES ASSUME NEW g \in Pages, NEW i \in Items,
                      status'[PileOf[g]] = "confirmed", ~overrun'[PileOf[g]],
                      g \in Live(PileOf[g])', row'[g][i].exists
               PROVE  row'[g][i].now.outcome # "low"
    BY DEF Reviewed
  <2>1. g \in Live(PileOf[g])
    BY <1>1 DEF Live, PagesOf
  <2>2. PileOf[g] = p \/ status[PileOf[g]] = "confirmed"
    BY <1>1, <1>3, PilesAssumption
  <2> QED
    BY <1>1, <2>1, <2>2 DEF SignedInv, Reviewed, EveryReadingIsReviewed
<1> QED
  BY <1>7, <1>8, <1>9

\* A reopening puts back only what still stands, and the newest of it.
LEMMA UnvalidateStep ==
    ASSUME SignedInv, NEW p \in Piles, UnvalidateScan(p)
    PROVE  (MarkStandsOnReading /\ NewestSignedWins /\ Reviewed)'
<1>1. PICK tie \in Pages : attempt' = Withdrawn(p, tie)
  BY DEF UnvalidateScan
<1>2. /\ UNCHANGED <<page, row, older>>
      /\ status' = [status EXCEPT ![p] = "needs_review"]
      /\ overrun' = [overrun EXCEPT ![p] = FALSE]
  BY DEF UnvalidateScan, readings
<1>3. status \in [Piles -> Statuses] /\ overrun \in [Piles -> BOOLEAN]
  BY DEF SignedInv, QuietInv, Placed, TypeOK
<1>4. ASSUME NEW q \in Piles, NEW s \in Students, NEW i \in Items
      PROVE  Marking(q, s, i, row)' = Marking(q, s, i, row)
  BY <1>2, MarkingKept DEF PagesOf
<1>5. ASSUME NEW q \in Piles, status'[q] = "confirmed"
      PROVE  q # p /\ status[q] = "confirmed"
  BY <1>2, <1>3, <1>5
<1>a. ASSUME NEW q \in Piles, q # p PROVE overrun'[q] = overrun[q]
  BY <1>a, <1>2, <1>3
<1>6. ASSUME NEW s \in Students, NEW i \in Items, attempt'[s][i] # NoAttempt
      PROVE  \/ attempt[s][i].pile # p /\ attempt'[s][i] = attempt[s][i]
             \/ \E g \in Newest(Standing(p, s, i)) :
                  /\ g \in Pages
                  /\ Grade(row[g][i].now) # Ungradeable
                  /\ attempt'[s][i] = AttemptFrom(PileOf[g], g, i, row)
  <2>1. TypeOK
    BY DEF SignedInv, QuietInv, Placed
  <2>2. attempt'[s][i] = IF attempt[s][i].pile = p THEN Fallback(p, s, i, tie)
                                                   ELSE attempt[s][i]
    BY <1>1 DEF Withdrawn
  <2> QED
    BY <1>6, <2>1, <2>2, FallbackType
<1>7. MarkStandsOnReading'
  <2> SUFFICES ASSUME NEW s \in Students, NEW i \in Items, attempt'[s][i] # NoAttempt,
                      ~overrun'[attempt'[s][i].pile]
               PROVE  /\ status'[attempt'[s][i].pile] = "confirmed"
                      /\ attempt'[s][i].page \in Marking(attempt[s][i].pile, s, i, row)'
                      /\ attempt'[s][i].mark = Grade(row'[attempt'[s][i].page][i].now)
    BY DEF MarkStandsOnReading
  <2>1. CASE attempt[s][i].pile # p /\ attempt'[s][i] = attempt[s][i]
    <3>1. PICK q \in Piles, g \in Pages : q = attempt[s][i].pile /\ g = attempt[s][i].page
      BY <2>1, AttemptOfAPile DEF SignedInv, Attempts
    <3>2. /\ status[q] = "confirmed"
          /\ g \in Marking(q, s, i, row)
          /\ attempt[s][i].mark = Grade(row[g][i].now)
      BY <1>a, <2>1, <3>1 DEF SignedInv, MarkStandsOnReading
    <3>3. g \in Marking(q, s, i, row)'
      BY <1>4, <3>2
    <3>4. status'[q] = "confirmed"
      BY <1>2, <1>3, <2>1, <3>1, <3>2
    <3> QED
      BY <1>2, <2>1, <3>1, <3>2, <3>3, <3>4
  <2>2. ASSUME NEW g \in Newest(Standing(p, s, i)), g \in Pages,
               Grade(row[g][i].now) # Ungradeable,
               attempt'[s][i] = AttemptFrom(PileOf[g], g, i, row)
        PROVE  /\ status'[attempt'[s][i].pile] = "confirmed"
               /\ attempt'[s][i].page \in Marking(attempt[s][i].pile, s, i, row)'
               /\ attempt'[s][i].mark = Grade(row'[attempt'[s][i].page][i].now)
    <3>1. g \in Standing(p, s, i)
      BY DEF Newest
    <3>2. PileOf[g] \in Piles /\ PileOf[g] # p /\ status[PileOf[g]] = "confirmed"
      BY <3>1, PilesAssumption DEF Standing
    <3>3. g \in Marking(PileOf[g], s, i, row)
      BY <2>2, <3>1 DEF Standing, Marking
    <3>4. g \in Marking(PileOf[g], s, i, row)'
      BY <1>4, <3>2, <3>3
    <3>5. status'[PileOf[g]] = "confirmed"
      BY <1>2, <1>3, <3>2
    <3> QED
      BY <1>2, <2>2, <3>4, <3>5 DEF AttemptFrom
  <2> QED
    BY <1>6, <2>1, <2>2
<1>8. NewestSignedWins'
  <2> SUFFICES ASSUME NEW s \in Students, NEW i \in Items, attempt'[s][i] # NoAttempt,
                      ~overrun'[attempt'[s][i].pile],
                      NEW g \in Pages, status'[PileOf[g]] = "confirmed",
                      ~overrun'[PileOf[g]],
                      g \in Marking(PileOf[g], s, i, row)'
               PROVE  \/ PileOf[g] = attempt'[s][i].pile
                      \/ PileOf[g] \in older'[attempt'[s][i].pile]
    BY DEF NewestSignedWins
  <2>1. PileOf[g] \in Piles
    BY PilesAssumption
  <2>2. g \in Marking(PileOf[g], s, i, row)
    BY <1>4, <2>1
  <2>3. PileOf[g] # p /\ status[PileOf[g]] = "confirmed" /\ ~overrun[PileOf[g]]
    BY <1>a, <1>5, <2>1
  <2>4. CASE attempt[s][i].pile # p /\ attempt'[s][i] = attempt[s][i]
    <3>1. attempt[s][i].pile \in Piles
      BY <2>4, AttemptOfAPile DEF SignedInv
    <3> QED
      BY <1>a, <1>2, <2>2, <2>3, <2>4, <3>1 DEF SignedInv, NewestSignedWins
  <2>5. ASSUME NEW h \in Newest(Standing(p, s, i)), h \in Pages,
               attempt'[s][i] = AttemptFrom(PileOf[h], h, i, row)
        PROVE  \/ PileOf[g] = attempt'[s][i].pile
               \/ PileOf[g] \in older'[attempt'[s][i].pile]
    <3>1. g \in Standing(p, s, i)
      BY <2>2, <2>3 DEF Standing, Marking
    <3>2. PileOf[g] = PileOf[h] \/ PileOf[g] \in older[PileOf[h]]
      BY <3>1 DEF Newest
    <3> QED
      BY <1>2, <2>5, <3>2 DEF AttemptFrom
  <2> QED
    BY <1>6, <2>4, <2>5
<1>9. Reviewed'
  <2> SUFFICES ASSUME NEW g \in Pages, NEW i \in Items,
                      status'[PileOf[g]] = "confirmed", ~overrun'[PileOf[g]],
                      g \in Live(PileOf[g])', row'[g][i].exists
               PROVE  row'[g][i].now.outcome # "low"
    BY DEF Reviewed
  <2>1. g \in Live(PileOf[g])
    BY <1>2 DEF Live, PagesOf
  <2>2. status[PileOf[g]] = "confirmed" /\ ~overrun[PileOf[g]]
    BY <1>a, <1>5, PilesAssumption
  <2> QED
    BY <1>2, <2>1, <2>2 DEF SignedInv, Reviewed
<1> QED
  BY <1>7, <1>8, <1>9

\* At first nothing is signed and nothing is marked.
LEMMA SignedInit == Init => SignedInv
<1> SUFFICES ASSUME Init PROVE SignedInv
  OBVIOUS
<1>1. Placed
  BY PlacedInit
<1>2. NothingPends
  BY DEF Init, NothingPends, NoRow, NotGradeable
<1>3. NobodyGrades
  BY DEF Init, NobodyGrades
<1>4. MarkStandsOnReading /\ NewestSignedWins
  BY DEF Init, MarkStandsOnReading, NewestSignedWins
<1>5. Reviewed
  BY PilesAssumption DEF Init, Reviewed
<1> QED
  BY <1>1, <1>2, <1>3, <1>4, <1>5 DEF SignedInv, QuietInv

\* Every step keeps the marks on the readings they were given for.
LEMMA SignedStep == ASSUME BubbleSheets, SignedInv, [Next]_vars PROVE SignedInv'
<1>1. QuietInv'
  BY QuietStep DEF SignedInv
<1>2. (MarkStandsOnReading /\ NewestSignedWins /\ Reviewed)'
  <2>1. CASE \A p \in Piles : ~ConfirmScan(p) /\ ~UnvalidateScan(p)
    BY <2>1, UnsignedStep
  <2>2. CASE ~ \A p \in Piles : ~ConfirmScan(p) /\ ~UnvalidateScan(p)
    BY <2>2, ConfirmStep, UnvalidateStep
  <2> QED
    BY <2>1, <2>2
<1> QED
  BY <1>1, <1>2 DEF SignedInv

\* The invariant holds for ever.
LEMMA Signed == BubbleSheets /\ Spec => []SignedInv
<1> SUFFICES ASSUME BubbleSheets PROVE Spec => []SignedInv
  OBVIOUS
<1>1. SignedInv /\ [Next]_vars => SignedInv'
  BY SignedStep
<1> QED
  BY SignedInit, <1>1, PTL DEF Spec

\* On bubble sheets, no grade disagrees with its own evidence unless a reader
\* wrote into its signed pile: every other mark is of a signed pile, of a page of
\* it that is that pupil's, and what its reading grades to today, whatever fails
\* (scan_service.py:375).
THEOREM MarksStand == BubbleSheets /\ Spec => []MarkStandsOnReading
<1>1. SignedInv => MarkStandsOnReading
  BY DEF SignedInv
<1> QED
  BY Signed, <1>1, PTL

\* On bubble sheets, signing and reopening in any order never bring an older
\* mark back over a newer one (scan_service.py:600).
THEOREM TheNewestWins == BubbleSheets /\ Spec => []NewestSignedWins
<1>1. SignedInv => NewestSignedWins
  BY DEF SignedInv
<1> QED
  BY Signed, <1>1, PTL

\* On bubble sheets, no mark rests on a reading the machine was unsure of and
\* nobody reviewed, but where a reader wrote into the signed pile
\* (scan_service.py:942).
THEOREM MarksAreReviewed == BubbleSheets /\ Spec => []NoUnreviewedMark
<1>1. ASSUME SignedInv, NEW s \in Students, NEW i \in Items,
             attempt[s][i] # NoAttempt, ~overrun[attempt[s][i].pile]
      PROVE  row[attempt[s][i].page][i].now.outcome # "low"
  <2> DEFINE a == attempt[s][i]
  <2>1. /\ status[a.pile] = "confirmed"
        /\ a.page \in Marking(a.pile, s, i, row)
    BY <1>1 DEF SignedInv, MarkStandsOnReading
  <2>2. /\ a.page \in Pages /\ PileOf[a.page] = a.pile
        /\ a.page \in Live(a.pile) /\ row[a.page][i].exists
    BY <2>1 DEF Marking, Live, PagesOf
  <2> QED
    BY <1>1, <2>1, <2>2 DEF SignedInv, Reviewed
<1>2. SignedInv => NoUnreviewedMark
  BY <1>1 DEF NoUnreviewedMark
<1> QED
  BY Signed, <1>2, PTL

\* On bubble sheets, a pile that is and stays signed is read-only, to the
\* teacher and to the worker, but for the pages a late reader adds; and those
\* are known (scan_service.py:375, scan_processing.py:804).
THEOREM SignedPilesAreReadOnly == BubbleSheets /\ Spec => SignedIsReadOnly
<1> SUFFICES ASSUME BubbleSheets PROVE Spec => SignedIsReadOnly
  OBVIOUS
<1> DEFINE Step == \A g \in Pages :
      status[PileOf[g]] = "confirmed" /\ status'[PileOf[g]] = "confirmed" =>
          \/ page'[g] = page[g] /\ row'[g] = row[g]
          \/ ~HasRow(g) /\ overrun'[PileOf[g]]
<1>1. SignedInv /\ [Next]_vars => Step
  <2> SUFFICES ASSUME SignedInv, [Next]_vars PROVE Step
    OBVIOUS
  <2>1. CASE \A p \in Piles : ~ConfirmScan(p) /\ ~UnvalidateScan(p)
    BY <2>1, QuietLeaves DEF SignedInv, LeavesSigned
  <2>2. CASE ~ \A p \in Piles : ~ConfirmScan(p) /\ ~UnvalidateScan(p)
    BY <2>2, SigningQuiet DEF SignedInv
  <2> QED
    BY <2>1, <2>2
<1>2. SignedInv /\ [Next]_vars => [Step]_vars
  BY <1>1
<1> QED
  BY Signed, <1>2, PTL DEF Spec, SignedIsReadOnly

\* On bubble sheets, only a reopening or a late reader takes a signature back,
\* and a reopening withdraws all that it wrote and touches no mark of another
\* pile (scan_service.py:640).
THEOREM ReopeningIsItsOwn == BubbleSheets /\ Spec => ReopeningWithdrawsItsOwn
<1> SUFFICES ASSUME BubbleSheets PROVE Spec => ReopeningWithdrawsItsOwn
  OBVIOUS
<1> DEFINE Own(p) == \A s \in Students, i \in Items :
               IF attempt[s][i].pile = p THEN attempt'[s][i].pile # p
                                         ELSE attempt'[s][i] = attempt[s][i]
           Step == \A p \in Piles :
               status[p] = "confirmed" /\ status'[p] # "confirmed" /\ ~overrun'[p]
                   => Own(p)
<1>1. SignedInv /\ [Next]_vars => Step
  <2> SUFFICES ASSUME SignedInv, [Next]_vars, NEW p \in Piles,
                      status[p] = "confirmed", status'[p] # "confirmed", ~overrun'[p]
               PROVE  Own(p)
    OBVIOUS
  <2>1. UnvalidateScan(p)
    <3>1. PICK q \in Piles : ConfirmScan(q) \/ UnvalidateScan(q)
      BY QuietLeaves DEF SignedInv, LeavesSigned
    <3>2. \E x : status' = [status EXCEPT ![q] = x]
      BY <3>1 DEF ConfirmScan, UnvalidateScan
    <3>3. p = q
      BY <3>2 DEF SignedInv, QuietInv, Placed, TypeOK
    <3> QED
      BY <3>1, <3>3 DEF ConfirmScan, Signable
  <2>2. PICK tie \in Pages : attempt' = Withdrawn(p, tie)
    BY <2>1 DEF UnvalidateScan
  <2> SUFFICES ASSUME NEW s \in Students, NEW i \in Items
               PROVE  IF attempt[s][i].pile = p THEN attempt'[s][i].pile # p
                                                ELSE attempt'[s][i] = attempt[s][i]
    OBVIOUS
  <2>3. attempt'[s][i] = IF attempt[s][i].pile = p THEN Fallback(p, s, i, tie)
                                                   ELSE attempt[s][i]
    BY <2>2 DEF Withdrawn
  <2>4. Fallback(p, s, i, tie).pile # p
    <3>1. NoAttempt.pile # p
      BY PilesAssumption DEF NoAttempt
    <3>2. ASSUME NEW g \in Newest(Standing(p, s, i))
          PROVE  AttemptFrom(PileOf[g], g, i, row).pile # p
      BY DEF Newest, Standing, AttemptFrom
    <3>3. TypeOK
      BY DEF SignedInv, QuietInv, Placed
    <3> QED
      BY <3>1, <3>2, <3>3, FallbackType
  <2> QED
    BY <2>3, <2>4
<1>2. SignedInv /\ [Next]_vars => [Step]_vars
  BY <1>1
<1> QED
  BY Signed, <1>2, PTL DEF Spec, ReopeningWithdrawsItsOwn

-----------------------------------------------------------------------------
(* Written answers                                                         *)

Awaits(g, i) ==
    /\ page[g].at = "live" /\ ~page[g].foreign /\ page[g].paired
    /\ row[g][i].now.outcome = "pending"

\* Nothing awaits a verdict in a signed pile no reader wrote into.
SettledInv ==
    /\ Placed
    /\ \A p \in Piles : status[p] = "confirmed" /\ ~overrun[p] =>
         \A g \in PagesOf(p), i \in Items : ~Awaits(g, i)

\* The pending rows of a pile are its pages' answers that await a verdict.
LEMMA PendingRowsAwait ==
    ASSUME NEW p \in Piles
    PROVE  PendingRows(p) = {r \in PagesOf(p) \X Items : Awaits(r[1], r[2])}
  BY DEF PendingRows, Live, Awaits, PagesOf

\* Settling leaves no answer of the pile waiting, and makes none wait.
LEMMA SettlingSettles ==
    ASSUME TypeOK, NEW p \in Piles, row' = Settle(PendingRows(p)), page' = page
    PROVE  /\ \A g \in PagesOf(p), i \in Items : ~Awaits(g, i)'
           /\ \A g \in Pages, i \in Items : Awaits(g, i)' => Awaits(g, i)
<1> SUFFICES ASSUME NEW g \in Pages, NEW i \in Items
             PROVE  /\ g \in PagesOf(p) => ~Awaits(g, i)'
                    /\ Awaits(g, i)' => Awaits(g, i)
  BY DEF PagesOf
<1>1. row'[g][i] = IF <<g, i>> \in PendingRows(p)
                   THEN Settled(row[g][i], row[g][i].now.mark, NotGradeable)
                   ELSE row[g][i]
  BY DEF Settle
<1>2. <<g, i>> \in PendingRows(p) <=> g \in PagesOf(p) /\ Awaits(g, i)
  BY PendingRowsAwait DEF PagesOf
<1>3. row[g][i] \in Rows
  BY DEF TypeOK
<1>4. <<g, i>> \in PendingRows(p) => row'[g][i].now.outcome = "not_gradeable"
  BY <1>1, <1>3 DEF Settled, Rows, NotGradeable
<1>5. <<g, i>> \notin PendingRows(p) => (Awaits(g, i)' <=> Awaits(g, i))
  BY <1>1 DEF Awaits
<1> QED
  BY <1>2, <1>4, <1>5 DEF Awaits

\* A verdict is never another promise, whatever pile its answer is of.
LEMMA GraderSettled == ASSUME SettledInv, NEW p \in Piles, Grader(p) PROVE SettledInv'
<1> USE DEF SettledInv, Placed
<1>1. Placed'
  BY PlacedStep DEF Next
<1>2. UNCHANGED <<status, overrun>>
  BY DEF Grader, StartGrading, SettleAnswer, EndGrading, jobs
<1>3. \A g \in Pages, i \in Items : Awaits(g, i)' => Awaits(g, i)
  <2>1. CASE StartGrading(p)
    BY <2>1 DEF StartGrading, readings, Awaits
  <2>2. CASE SettleAnswer(p)
    <3>1. CASE UNCHANGED <<page, row>>
      BY <3>1 DEF Awaits
    <3>2. ASSUME NEW h \in held[p], NEW reading \in VisionReads,
                 row' = [row EXCEPT ![h.page][h.item] = Settled(@, h.mark, reading)]
          PROVE  \A g \in Pages, i \in Items :
                   row'[g][i] = row[g][i] \/ row'[g][i].now.outcome # "pending"
      <4>1. h.page \in Pages /\ h.item \in Items
        BY DEF TypeOK, HeldRows
      <4>2. Settled(row[h.page][h.item], h.mark, reading).now.outcome # "pending"
        BY <4>1, ReadsAssumption DEF Settled, TypeOK, Rows
      <4>3. ASSUME NEW g \in Pages, NEW i \in Items, g # h.page \/ i # h.item
            PROVE  row'[g][i] = row[g][i]
        BY <3>2, <4>1, <4>3 DEF TypeOK
      <4>4. row'[h.page][h.item] = Settled(row[h.page][h.item], h.mark, reading)
        BY <3>2, <4>1 DEF TypeOK
      <4> QED
        BY <4>2, <4>3, <4>4
    <3>3. page' = page
      BY <2>2 DEF SettleAnswer
    <3> QED
      BY <2>2, <3>1, <3>2, <3>3 DEF SettleAnswer, Awaits
  <2>3. CASE EndGrading(p)
    BY <2>3, SettlingSettles DEF EndGrading
  <2> QED
    BY <2>1, <2>2, <2>3 DEF Grader
<1> QED
  BY <1>1, <1>2, <1>3 DEF PagesOf

\* Signing settles its pile, and no other step makes an answer of a signed pile
\* wait, but where it overruns it.
LEMMA SettledStep == ASSUME SettledInv, [Next]_vars PROVE SettledInv'
<1> USE DEF SettledInv
<1>1. Placed' /\ TypeOK
  BY PlacedStep DEF Placed
<1>2. CASE \A p \in Piles : ~ConfirmScan(p) /\ ~UnvalidateScan(p) /\ ~Grader(p)
  <2>1. LeavesSigned
    BY <1>2, NothingSigned
  <2> SUFFICES ASSUME NEW p \in Piles, status'[p] = "confirmed", ~overrun'[p],
                      NEW g \in PagesOf(p), NEW i \in Items
               PROVE  ~Awaits(g, i)'
    BY <1>1 DEF PagesOf
  <2>2. status[p] = "confirmed" /\ ~overrun[p]
    BY <2>1 DEF LeavesSigned
  <2>3. page'[g] = page[g] /\ row'[g] = row[g]
    BY <2>1, <2>2 DEF LeavesSigned, PagesOf
  <2> QED
    BY <2>2, <2>3 DEF Awaits
<1>3. ASSUME NEW p \in Piles, ConfirmScan(p) PROVE SettledInv'
  <2>1. /\ row' = Settle(PendingRows(p)) /\ UNCHANGED <<page, overrun>>
        /\ status' = [status EXCEPT ![p] = "confirmed"]
    BY <1>3 DEF ConfirmScan, jobs
  <2>2. \A g \in PagesOf(p), i \in Items : ~Awaits(g, i)'
    BY <1>1, <2>1, SettlingSettles
  <2>3. \A q \in Piles : \A g \in PagesOf(q), i \in Items :
          Awaits(g, i)' => Awaits(g, i)
    BY <1>1, <2>1, SettlingSettles DEF PagesOf
  <2>4. \A q \in Piles \ {p} : status'[q] = status[q]
    BY <1>1, <2>1 DEF TypeOK
  <2> QED
    BY <1>1, <2>1, <2>2, <2>3, <2>4 DEF PagesOf
<1>4. ASSUME NEW p \in Piles, UnvalidateScan(p) PROVE SettledInv'
  <2>1. /\ status' = [status EXCEPT ![p] = "needs_review"]
        /\ overrun' = [overrun EXCEPT ![p] = FALSE]
        /\ UNCHANGED <<page, row>>
    BY <1>4 DEF UnvalidateScan, readings
  <2>2. \A q \in Piles : status'[q] = "confirmed" =>
          status[q] = "confirmed" /\ overrun'[q] = overrun[q]
    BY <1>1, <2>1 DEF TypeOK
  <2> QED
    BY <1>1, <2>1, <2>2 DEF Awaits, PagesOf
<1> QED
  BY <1>2, <1>3, <1>4, GraderSettled

\* A signed pile no reader wrote into holds no answer that still awaits a
\* verdict, on written sheets as on others, signed early or in time and whatever
\* fails: signing settles what is pending, and nothing becomes pending after it
\* (scan_service.py:910).
THEOREM SignedPilesAreSettled == Spec => []SignedIsSettled
<1>1. Init => SettledInv
  BY PlacedInit DEF Init, SettledInv
<1>2. SettledInv /\ [Next]_vars => SettledInv'
  BY SettledStep
<1>3. SettledInv => SignedIsSettled
  BY PendingRowsAwait DEF SettledInv, SignedIsSettled
<1> QED
  BY <1>1, <1>2, <1>3, PTL DEF Spec

\* A grader that holds answers is queued or running, where nobody presumes it
\* dead.
HoldersAreKnown ==
    TypeOK /\ \A p \in Piles : held[p] # {} => gradeJob[p] # "none"

\* Every step of every actor keeps it so.
LEMMA HoldersKept ==
    ASSUME ~MayFail, HoldersAreKnown, [Next]_vars PROVE HoldersAreKnown'
<1> USE DEF HoldersAreKnown
<1>1. TypeOK'
  BY StepTypeOK
<1>2. CASE UNCHANGED <<held, gradeJob>>
  BY <1>1, <1>2
<1>3. ASSUME NEW p \in Piles, Grader(p) PROVE HoldersAreKnown'
  <2>1. CASE StartGrading(p)
    BY <1>1, <2>1 DEF StartGrading, TypeOK
  <2>2. CASE SettleAnswer(p)
    <3>1. \/ gradeJob' = gradeJob /\ \E h \in held[p] : held' = [held EXCEPT ![p] = @ \ {h}]
          \/ /\ gradeJob' = [gradeJob EXCEPT ![p] = "none"]
             /\ held' = [held EXCEPT ![p] = {}]
      BY <2>2, Zenon DEF SettleAnswer
    <3> QED
      BY <1>1, <3>1 DEF TypeOK
  <2>3. CASE EndGrading(p)
    BY <1>1, <2>3 DEF EndGrading, TypeOK
  <2> QED
    BY <1>3, <2>1, <2>2, <2>3 DEF Grader
<1>4. ASSUME NEW r \in Runs, Reader(r) PROVE HoldersAreKnown'
  <2>1. held' = held /\ gradeJob' \in {gradeJob, [gradeJob EXCEPT ![r.pile] = "queued"]}
    BY <1>4 DEF Reader, BeginReading, ReadPage, EndReading, EndJob, graders
  <2> QED
    BY <1>1, <2>1, Deliveries DEF TypeOK
<1>5. ASSUME NEW p \in Piles, OnPile(p) PROVE HoldersAreKnown'
  BY <1>2, <1>5 DEF OnPile, Upload, AppendPages, ConfirmScan, UnvalidateScan, graders
<1>6. /\ \A r \in Runs : ~ReaderFails(r)
      /\ \A j \in Jobs : ~ReapReader(j)
      /\ \A p \in Piles : ~GraderFails(p)
  BY DEF ReaderFails, DecodeFails, ReadingRaises, ReadingBreaks, ReapReader, GraderFails,
         GraderDies, GradeJobGoesStale
<1>7. ASSUME NEW g \in Pages, OnPage(g) PROVE HoldersAreKnown'
  <2>1. PileOf[g] \in Piles
    BY PilesAssumption
  <2>2. ASSUME NEW s \in Students, AssignPageStudent(g, s) PROVE HoldersAreKnown'
    <3>1. gradeJob' \in {gradeJob, [gradeJob EXCEPT ![PileOf[g]] = "queued"]}
      BY <2>2 DEF AssignPageStudent
    <3>2. held' \in {held, [held EXCEPT ![PileOf[g]] = Deleted(PileOf[g], g)]}
      BY <2>2 DEF AssignPageStudent
    <3>3. held[PileOf[g]] = {} => Deleted(PileOf[g], g) = {}
      BY DEF Deleted
    <3> QED
      BY <1>1, <2>1, <3>1, <3>2, <3>3 DEF TypeOK
  <2>3. (SetPageDiscarded(g) \/ \E i \in Items : CorrectDetection(g, i) \/ RevertDetection(g, i))
          => UNCHANGED <<held, gradeJob>>
    BY Zenon DEF SetPageDiscarded, CorrectDetection, RevertDetection, graders
  <2> QED
    BY <1>2, <1>7, <2>2, <2>3 DEF OnPage
<1>8. CASE UNCHANGED vars
  BY <1>2, <1>8 DEF vars, graders
<1> QED
  BY <1>3, <1>4, <1>5, <1>6, <1>7, <1>8 DEF Next

\* A pile is signed by a confirmation.
LEMMA SignedByConfirming ==
    ASSUME TypeOK, [Next]_vars, NEW p \in Piles,
           status[p] # "confirmed", status'[p] = "confirmed"
    PROVE  ConfirmScan(p)
<1>1. ASSUME NEW r \in Runs, Reader(r) \/ ReaderFails(r) PROVE FALSE
  <2>1. \/ status' = status
        \/ \E x \in {"processing", "needs_review", "failed"} :
              status' = [status EXCEPT ![r.pile] = x]
    BY <1>1, Zenon
       DEF Reader, BeginReading, ReadPage, EndReading, EndJob, ReaderFails, DecodeFails,
           ReadingRaises, ReadingBreaks
  <2> QED
    BY <2>1, Deliveries DEF TypeOK
<1>2. ASSUME NEW q \in Piles, Grader(q) \/ GraderFails(q) PROVE FALSE
  <2>1. status' = status
    BY <1>2, Zenon DEF Grader, StartGrading, SettleAnswer, EndGrading, GraderFails, GraderDies,
                       GradeJobGoesStale
  <2> QED
    BY <2>1
<1>3. \A g \in Pages : ~OnPage(g)
  BY OnPageElsewhere
<1>4. \A j \in Jobs : ~ReapReader(j)
  BY DEF ReapReader
<1>5. PICK q \in Piles : OnPile(q)
  BY <1>1, <1>2, <1>3, <1>4 DEF Next, vars
<1>6. ConfirmScan(q) /\ status' = [status EXCEPT ![q] = "confirmed"]
  BY <1>5 DEF OnPile, Upload, AppendPages, ConfirmScan, UnvalidateScan, TypeOK
<1> QED
  BY <1>6 DEF TypeOK

\* While no process dies, signing never writes off an answer that a grader
\* holds and has not settled, be it signed early or from the review screen
\* (scan_service.py:899).
THEOREM SigningWaits == ~MayFail /\ Spec => SigningWaitsForGrader
<1> SUFFICES ASSUME ~MayFail PROVE Spec => SigningWaitsForGrader
  OBVIOUS
<1> DEFINE Step == \A p \in Piles : \A h \in held[p] :
      status[p] # "confirmed" /\ status'[p] = "confirmed" =>
          row'[h.page][h.item] = row[h.page][h.item]
<1>1. Init => HoldersAreKnown
  BY InitTypeOK DEF Init, HoldersAreKnown
<1>2. HoldersAreKnown /\ [Next]_vars => HoldersAreKnown'
  BY HoldersKept
<1>3. HoldersAreKnown /\ [Next]_vars => Step
  <2> SUFFICES ASSUME HoldersAreKnown, [Next]_vars, NEW p \in Piles, NEW h \in held[p],
                      status[p] # "confirmed", status'[p] = "confirmed"
               PROVE  row' = row
    OBVIOUS
  <2>1. ConfirmScan(p)
    BY SignedByConfirming DEF HoldersAreKnown
  <2>2. GradingInProgress(p)
    BY DEF HoldersAreKnown, GradingInProgress
  <2>3. PendingRows(p) = {}
    BY <2>1, <2>2 DEF ConfirmScan, Signable, NoAnswerIsPromised
  <2>4. row' = [g \in Pages |-> [i \in Items |-> row[g][i]]]
    BY <2>1, <2>3 DEF ConfirmScan, Settle
  <2>5. row \in [Pages -> [Items -> Rows]]
    BY DEF HoldersAreKnown, TypeOK
  <2> QED
    BY <2>4, <2>5
<1>4. HoldersAreKnown /\ [Next]_vars => [Step]_vars
  BY <1>3
<1> QED
  BY <1>1, <1>2, <1>4, PTL DEF Spec, SigningWaitsForGrader

-----------------------------------------------------------------------------
(* What a teacher has said, on bubble sheets                               *)

\* A photograph that is still to be read has no row anybody could have
\* corrected.
UntouchedInv ==
    /\ \A p \in Piles : status[p] = "unsent" =>
         \A g \in PagesOf(p) : page[g].at = "unsent"
    /\ \A g \in Pages, i \in Items : row[g][i].byTeacher => HasRow(g)

\* Uploading stores photographs that have no page yet.
LEMMA UploadingUntouched ==
    ASSUME TypeOK, UntouchedInv, NEW p \in Piles, Upload(p) \/ AppendPages(p)
    PROVE  UntouchedInv' /\ row' = row
<1>1. row' = row /\ status' = [status EXCEPT ![p] = "uploaded"]
  BY DEF Upload, AppendPages
<1>2. ASSUME NEW g \in Pages
      PROVE  /\ g \notin PagesOf(p) => page'[g] = page[g]
             /\ HasRow(g) => HasRow(g)'
  <2>1. CASE Upload(p)
    <3>1. g \in PagesOf(p) => ~HasRow(g)
      BY <2>1 DEF Upload, UntouchedInv, HasRow
    <3>2. g \notin PagesOf(p) => page'[g] = page[g]
      BY <2>1, UploadingElsewhere
    <3> QED
      BY <3>1, <3>2 DEF HasRow
  <2>2. CASE AppendPages(p)
    BY <2>2, UploadingElsewhere
  <2> QED
    BY <2>1, <2>2
<1>3. \A q \in Piles : status'[q] = "unsent" => \A g \in PagesOf(q) : page'[g].at = "unsent"
  BY <1>1, <1>2 DEF TypeOK, UntouchedInv, PagesOf
<1> QED
  BY <1>1, <1>2, <1>3 DEF UntouchedInv

\* The worker writes the rows of a page nobody has seen.
LEMMA ReaderUntouched ==
    ASSUME Placed, UntouchedInv, NEW r \in Runs, Reader(r) \/ ReaderFails(r)
    PROVE  /\ UntouchedInv'
           /\ \A g \in Pages, i \in Items : row[g][i].byTeacher => row'[g] = row[g]
<1> USE DEF Placed, UntouchedInv
<1>1. \A q \in Piles : status'[q] = "unsent" => status[q] = "unsent"
  <2>1. \/ status' = status
        \/ \E x \in {"processing", "needs_review", "failed"} :
              status' = [status EXCEPT ![r.pile] = x]
    BY Zenon
       DEF Reader, BeginReading, ReadPage, EndReading, EndJob, ReaderFails, DecodeFails,
           ReadingRaises, ReadingBreaks
  <2> QED
    BY <2>1, Deliveries DEF TypeOK
<1>2. CASE ReadPage(r)
  <2>1. PICK g \in todo[r] :
          /\ page'[g].at = "live"
          /\ \A h \in Pages \ {g} : page'[h] = page[h] /\ row'[h] = row[h]
    BY <1>2, ReadPageElsewhere
  <2>2. /\ g \in Pages /\ page[g].at = "stored" /\ ~HasRow(g)
        /\ \A i \in Items : ~row[g][i].byTeacher
    BY PageOfReader DEF ReadersApart
  <2>3. \A q \in Piles : status'[q] = "unsent" => \A h \in PagesOf(q) : page'[h].at = "unsent"
    BY <1>1, <2>1, <2>2 DEF PagesOf
  <2>4. \A h \in Pages, i \in Items : row'[h][i].byTeacher => HasRow(h)'
    BY <2>1, <2>2 DEF HasRow
  <2> QED
    BY <2>1, <2>2, <2>3, <2>4
<1>3. CASE ~ReadPage(r)
  <2>1. UNCHANGED <<page, row>>
    BY <1>3, Zenon DEF Reader, BeginReading, EndReading, EndJob, ReaderFails, DecodeFails,
                       ReadingRaises, ReadingBreaks, readings
  <2> QED
    BY <1>1, <2>1 DEF HasRow
<1> QED
  BY <1>2, <1>3

\* Signing and reopening touch neither pages nor readings.
LEMMA SigningUntouched ==
    ASSUME QuietInv, UntouchedInv, NEW p \in Piles, ConfirmScan(p) \/ UnvalidateScan(p)
    PROVE  UntouchedInv' /\ row' = row
<1>1. UNCHANGED <<page, row>>
  BY SigningQuiet
<1>2. status' \in {[status EXCEPT ![p] = "confirmed"], [status EXCEPT ![p] = "needs_review"]}
  BY DEF ConfirmScan, UnvalidateScan
<1> QED
  BY <1>1, <1>2 DEF QuietInv, Placed, UntouchedInv, TypeOK, HasRow

\* A teacher works on pages that have been read.
LEMMA PageUntouched ==
    ASSUME TypeOK, UntouchedInv, NEW g \in Pages, OnPage(g)
    PROVE  UntouchedInv'
<1> USE DEF UntouchedInv
<1>1. /\ status' = status /\ HasRow(g)
      /\ \A h \in Pages \ {g} : page'[h] = page[h] /\ row'[h] = row[h]
  BY OnPageElsewhere
<1>2. HasRow(g)'
  <2>1. page[g] \in PageRows
    BY DEF TypeOK
  <2>2. CASE SetPageDiscarded(g)
    <3> DEFINE out == [page[g] EXCEPT !.at = "discarded", !.student = Nobody]
               in == [page[g] EXCEPT !.at = "live"]
    <3>1. page' = [page EXCEPT ![g] = out] \/ page' = [page EXCEPT ![g] = in]
      BY <2>2 DEF SetPageDiscarded
    <3>2. out.at = "discarded" /\ in.at = "live"
      BY <2>1 DEF PageRows
    <3> HIDE DEF out, in
    <3>3. page'[g].at \in {"live", "discarded"}
      BY <3>1, <3>2 DEF TypeOK
    <3> QED
      BY <3>3 DEF HasRow
  <2>3. ASSUME NEW s \in Students, AssignPageStudent(g, s) PROVE HasRow(g)'
    <3>1. page'[g].at = "live"
      BY <2>1, <2>3 DEF AssignPageStudent, TypeOK, PageRows
    <3> QED
      BY <3>1 DEF HasRow
  <2>4. ASSUME NEW i \in Items, CorrectDetection(g, i) \/ RevertDetection(g, i)
        PROVE  page' = page
    BY <2>4, Zenon DEF CorrectDetection, RevertDetection
  <2> QED
    BY <1>1, <2>2, <2>3, <2>4 DEF OnPage, HasRow
<1> QED
  BY <1>1, <1>2 DEF HasRow, PagesOf

\* A teacher's word on a page is changed by a teacher's word on that answer.
LEMMA PageLastWord ==
    ASSUME BubbleSheets, QuietInv, NEW h \in Pages, OnPage(h),
           NEW g \in Pages, NEW i \in Items, row[g][i].byTeacher
    PROVE  \/ /\ row'[g][i].byTeacher
              /\ row'[g][i].now = row[g][i].now
           \/ CorrectDetection(g, i) \/ RevertDetection(g, i)
<1> USE DEF QuietInv, Placed
<1>1. CASE h # g
  BY <1>1, OnPageElsewhere
<1>2. CASE h = g /\ SetPageDiscarded(h)
  BY <1>2 DEF SetPageDiscarded
<1>3. ASSUME h = g, NEW s \in Students, AssignPageStudent(h, s)
      PROVE  row'[g][i].byTeacher /\ row'[g][i].now = row[g][i].now
  <2>1. row[g][i] \in Rows /\ i \notin Written
    BY DEF TypeOK, BubbleSheets
  <2>2. ASSUME NEW reads \in FreshReads(TRUE), row' = [row EXCEPT ![g] = Redetected(g, reads)]
        PROVE  row'[g][i].byTeacher /\ row'[g][i].now = row[g][i].now
    <3>1. row'[g][i] = Carried(g, i, reads[i])
      BY <2>2 DEF TypeOK, Redetected
    <3>2. /\ Carried(g, i, reads[i]).byTeacher = row[g][i].byTeacher
          /\ Carried(g, i, reads[i]).now = row[g][i].now
      BY <2>1 DEF Carried, Rows, Readings
    <3> QED
      BY <3>1, <3>2
  <2> QED
    BY <1>3, <2>2 DEF AssignPageStudent
<1>4. ASSUME h = g, NEW j \in Items, j # i, RevertDetection(g, j)
      PROVE  row'[g][i] = row[g][i]
  <2> DEFINE new == [row[g][j] EXCEPT !.now = row[g][j].machine, !.byTeacher = FALSE]
  <2>1. row' = [row EXCEPT ![g][j] = new]
    BY <1>4 DEF RevertDetection
  <2> HIDE DEF new
  <2> QED
    BY <1>4, <2>1 DEF TypeOK
<1>5. ASSUME h = g, NEW j \in Items, j # i, CorrectDetection(g, j)
      PROVE  row'[g][i] = row[g][i]
  <2>1. PICK mark \in Overrides :
          row' = [row EXCEPT ![g][j] = [@ EXCEPT
                    !.now = [outcome |-> "corrected", mark |-> mark],
                    !.byTeacher = TRUE]]
    BY <1>5, Zenon DEF CorrectDetection
  <2> QED
    BY <1>5, <2>1 DEF TypeOK
<1> QED
  BY <1>1, <1>2, <1>3, <1>4, <1>5 DEF OnPage

\* On bubble sheets, what a teacher has said of an answer stands until a
\* teacher says otherwise: no reading, rereading or fault puts the machine's
\* word over it (open_answer_grading.py:19, scan_service.py:484).
THEOREM TeachersAreHeard == BubbleSheets /\ Spec => TeacherHasTheLastWord
<1> SUFFICES ASSUME BubbleSheets PROVE Spec => TeacherHasTheLastWord
  OBVIOUS
<1> DEFINE Step == \A g \in Pages, i \in Items :
      row[g][i].byTeacher =>
          \/ /\ row'[g][i].byTeacher
             /\ row'[g][i].now.outcome = row[g][i].now.outcome
             /\ row'[g][i].now.mark = row[g][i].now.mark \/ i \in Written
          \/ CorrectDetection(g, i) \/ RevertDetection(g, i)
           Inv == QuietInv /\ UntouchedInv
<1>1. Init => Inv
  <2> SUFFICES ASSUME Init PROVE Inv
    OBVIOUS
  <2>1. QuietInv
    BY SignedInit DEF SignedInv
  <2>2. UntouchedInv
    BY DEF Init, UntouchedInv, Unsent, NoRow, PagesOf
  <2> QED
    BY <2>1, <2>2
<1>2. ASSUME Inv, [Next]_vars PROVE UntouchedInv' /\ Step
  <2>1. ASSUME row' = row PROVE Step
    BY <2>1
  <2>2. ASSUME NEW p \in Piles, OnPile(p) PROVE UntouchedInv' /\ Step
    BY <1>2, <2>1, <2>2, UploadingUntouched, SigningUntouched DEF OnPile, QuietInv, Placed
  <2>3. ASSUME NEW r \in Runs, Reader(r) \/ ReaderFails(r) PROVE UntouchedInv' /\ Step
    BY <1>2, <2>3, ReaderUntouched DEF QuietInv
  <2>4. CASE UNCHANGED <<status, page, row>>
    BY <1>2, <2>1, <2>4 DEF UntouchedInv, HasRow, PagesOf
  <2>5. ASSUME NEW g \in Pages, OnPage(g) PROVE UntouchedInv' /\ Step
    BY <1>2, <2>5, PageUntouched, PageLastWord DEF QuietInv, Placed
  <2>6. CASE \/ UNCHANGED vars \/ \E j \in Jobs : ReapReader(j)
           \/ \E p \in Piles : GraderFails(p)
    BY <2>4, <2>6 DEF vars, readings, ReapReader, GraderFails, GraderDies, GradeJobGoesStale
  <2> HIDE DEF Inv, Step
  <2> QED
    BY <1>2, <2>2, <2>3, <2>4, <2>5, <2>6, GraderQuiet DEF Next, Inv
<1>3. Inv /\ [Next]_vars => Inv'
  BY <1>2, QuietStep
<1>4. Inv /\ [Next]_vars => [Step]_vars
  BY <1>2
<1> QED
  BY <1>1, <1>3, <1>4, PTL DEF Spec, TeacherHasTheLastWord

-----------------------------------------------------------------------------
(* Signing and reading apart                                               *)
(*                                                                         *)
(* On the review screen, a pile none of whose jobs is delivered twice or   *)
(* outlives its row has one reading at a time, and that reading is over    *)
(* before anybody signs.                                                   *)

AtWork == {"queued", "running", "resuming", "reading"}

Orderly(p) ==
    /\ \A r \in Runs : r.pile = p =>
         /\ reader[r] # "none" => r.try = 1
         /\ reader[r] = "queued" => job[JobOf(r)] = "queued"
         /\ reader[r] \in Busy => job[JobOf(r)] = "running"
         /\ reader[r] \in AtWork => status[p] \in {"uploaded", "processing"}
    /\ \A j, k \in Jobs :
         /\ j.pile = p /\ job[j] \in {"queued", "running"}
         /\ k.pile = p /\ job[k] \in {"queued", "running"}
         => j = k
    /\ status[p] = "unsent" => \A j \in Jobs : j.pile = p => job[j] = "none"
    /\ ~overrun[p]

StrayInv == TypeOK /\ \A p \in Piles : strayed[p] \/ Orderly(p)

\* What a pile does not show of a step to another.
LEMMA OrderlyKept ==
    ASSUME NEW p \in Piles, strayed[p] \/ Orderly(p),
           strayed[p] => strayed'[p],
           status'[p] = status[p], overrun'[p] = overrun[p],
           \A r \in Runs : r.pile = p => reader'[r] = reader[r],
           \A j \in Jobs : j.pile = p => job'[j] = job[j]
    PROVE  strayed'[p] \/ Orderly(p)'
  BY Deliveries DEF Orderly

\* So it is enough to look at the pile a step is about.
LEMMA OrderlyElsewhere ==
    ASSUME StrayInv, TypeOK', NEW p \in Piles, strayed'[p] \/ Orderly(p)',
           \A q \in Piles \ {p} :
             /\ strayed[q] => strayed'[q]
             /\ status'[q] = status[q] /\ overrun'[q] = overrun[q]
             /\ \A r \in Runs : r.pile = q => reader'[r] = reader[r]
             /\ \A j \in Jobs : j.pile = q => job'[j] = job[j]
    PROVE  StrayInv'
<1>1. ASSUME NEW q \in Piles, q # p PROVE strayed'[q] \/ Orderly(q)'
  <2>1. strayed[q] \/ Orderly(q)
    BY DEF StrayInv
  <2> QED
    BY <1>1, <2>1, OrderlyKept
<1> QED
  BY <1>1 DEF StrayInv

\* A stray job is known, and the step concerns the pile it is of.
LEMMA LeftStrays ==
    ASSUME TypeOK, NEW r \in Runs, NEW at, Left(r, at)
    PROVE  /\ \A q \in Runs : q.pile # r.pile => reader'[q] = reader[q]
           /\ \A q \in Piles : strayed[q] => strayed'[q]
           /\ strayed'[r.pile] \/ reader' = [reader EXCEPT ![r] = at]
<1>1. CASE reader' = [reader EXCEPT ![r] = at] /\ UNCHANGED strayed
  BY <1>1 DEF TypeOK
<1>2. CASE r.try < MaxTries /\ Stray(r.pile, TRUE)
           /\ reader' = [reader EXCEPT ![r] = at, ![[r EXCEPT !.try = @ + 1]] = "queued"]
  <2>1. [r EXCEPT !.try = @ + 1].pile = r.pile
    BY DEF Runs
  <2>2. r.pile \in Piles
    BY Deliveries
  <2> QED
    BY <1>2, <2>1, <2>2 DEF TypeOK, Stray
<1> QED
  BY <1>1, <1>2 DEF Left

\* The upload and the retakes begin a reading where none is under way.
LEMMA UploadingOrderly ==
    ASSUME StrayInv, NEW p \in Piles, Upload(p) \/ AppendPages(p)
    PROVE  StrayInv'
<1> USE DEF StrayInv
<1>1. TypeOK'
  BY UploadingTypeOK
<1>2. PICK j \in Jobs : j.pile = p /\ Enqueue(j)
  BY Deliveries DEF Upload, AppendPages
<1>3. status' = [status EXCEPT ![p] = "uploaded"] /\ overrun' = overrun
  BY DEF Upload, AppendPages
<1>4. First(j) \in Runs /\ First(j).pile = p /\ First(j).try = 1 /\ JobOf(First(j)) = j
  BY <1>2, Deliveries
<1>5. ASSUME ~strayed'[p] PROVE Orderly(p)'
  <2>1. ~strayed[p] /\ Orderly(p)
    BY <1>2, <1>5 DEF Enqueue, Stray, TypeOK
  <2>2. \A k \in Jobs : k.pile = p => job[k] \notin {"queued", "running"}
    BY <2>1 DEF Upload, AppendPages, ReadingInFlight, Orderly
  <2>3. \A r \in Runs : r.pile = p => reader[r] # "queued" /\ reader[r] \notin Busy
    BY <2>1, <2>2, Deliveries DEF Orderly
  <2>4. CASE job' = [job EXCEPT ![j] = "queued"]
             /\ reader' = [reader EXCEPT ![First(j)] = "queued"]
    <3>1. \A r \in Runs : r # First(j) => reader'[r] = reader[r]
      BY <2>4 DEF TypeOK
    <3>2. reader'[First(j)] = "queued" /\ job'[j] = "queued"
      BY <1>4, <2>4 DEF TypeOK
    <3>3. \A k \in Jobs : k # j => job'[k] = job[k]
      BY <2>4 DEF TypeOK
    <3>4. status'[p] = "uploaded"
      BY <1>3 DEF TypeOK
    <3> QED
      BY <1>3, <1>4, <2>1, <2>2, <2>3, <3>1, <3>2, <3>3, <3>4 DEF Orderly, AtWork, Busy
  <2>5. CASE job' = [job EXCEPT ![j] = "ended"] /\ reader' = reader
    <3>1. \A k \in Jobs : k.pile = p => job'[k] \notin {"queued", "running"}
      BY <2>2, <2>5 DEF TypeOK
    <3>2. status'[p] = "uploaded"
      BY <1>3 DEF TypeOK
    <3> QED
      BY <1>3, <2>1, <2>3, <2>5, <3>1, <3>2 DEF Orderly, AtWork
  <2> QED
    BY <1>2, <1>5, <2>4, <2>5 DEF Enqueue, Stray, TypeOK
<1>6. ASSUME NEW q \in Piles, q # p
      PROVE  /\ strayed[q] => strayed'[q]
             /\ status'[q] = status[q] /\ overrun'[q] = overrun[q]
             /\ \A r \in Runs : r.pile = q => reader'[r] = reader[r]
             /\ \A k \in Jobs : k.pile = q => job'[k] = job[k]
  BY <1>2, <1>3, <1>4, <1>6 DEF Enqueue, Stray, TypeOK
<1> QED
  BY <1>1, <1>5, <1>6, OrderlyElsewhere

\* A reading that is in order is the only one of its pile.
LEMMA OnlyReading ==
    ASSUME TypeOK, NEW r \in Runs, Orderly(r.pile), reader[r] = "queued" \/ reader[r] \in Busy
    PROVE  /\ job[JobOf(r)] = IF reader[r] = "queued" THEN "queued" ELSE "running"
           /\ \A q \in Runs : q.pile = r.pile /\ q # r =>
                reader[q] # "queued" /\ reader[q] \notin Busy
           /\ \A k \in Jobs : k.pile = r.pile /\ k # JobOf(r) =>
                job[k] \notin {"queued", "running"}
<1>1. JobOf(r) \in Jobs /\ JobOf(r).pile = r.pile
  BY Deliveries
<1>2. job[JobOf(r)] = IF reader[r] = "queued" THEN "queued" ELSE "running"
  BY DEF Orderly, Busy
<1>3. \A k \in Jobs : k.pile = r.pile /\ k # JobOf(r) => job[k] \notin {"queued", "running"}
  BY <1>1, <1>2 DEF Orderly
<1>4. ASSUME NEW q \in Runs, q.pile = r.pile, q # r
      PROVE  reader[q] # "queued" /\ reader[q] \notin Busy
  <2> SUFFICES ASSUME reader[q] = "queued" \/ reader[q] \in Busy PROVE FALSE
    OBVIOUS
  <2>1. job[JobOf(q)] \in {"queued", "running"}
    BY <1>4 DEF Orderly
  <2>2. JobOf(q) = JobOf(r)
    BY <1>3, <1>4, <2>1, Deliveries
  <2>3. q.try = 1 /\ r.try = 1
    BY <1>4 DEF Orderly, Busy
  <2> QED
    BY <1>4, <2>2, <2>3, Deliveries
<1> QED
  BY <1>2, <1>3, <1>4

\* A worker's step, faulty or not: a delivery in order goes on, ends with its job
\* or goes astray.
LEMMA ReaderOrderly ==
    ASSUME StrayInv, NEW r \in Runs, Reader(r) \/ ReaderFails(r)
    PROVE  StrayInv'
<1> USE DEF StrayInv
<1> DEFINE p == r.pile
<1>1. TypeOK'
  BY ReaderTypeOK, ReaderFailsTypeOK
<1>2. p \in Piles /\ JobOf(r) \in Jobs /\ JobOf(r).pile = p
  BY Deliveries
<1>3. reader[r] = "queued" \/ reader[r] \in Busy
  BY DEF Reader, BeginReading, ReadPage, EndReading, EndJob, ReaderFails, DecodeFails,
         ReadingRaises, ReadingBreaks, Busy
<1>4. \/ \E x : status' = [status EXCEPT ![p] = x]
      \/ status' = status
  BY Zenon DEF Reader, BeginReading, ReadPage, EndReading, EndJob, ReaderFails, DecodeFails,
         ReadingRaises, ReadingBreaks
<1>5. \/ \E x : job' = [job EXCEPT ![JobOf(r)] = x]
      \/ job' = job
  BY Zenon DEF Reader, BeginReading, ReadPage, EndReading, EndJob, ReaderFails, DecodeFails,
         ReadingRaises, ReadingBreaks
<1>6. overrun' = overrun \/ WritesInto(p)
  BY Zenon DEF Reader, BeginReading, ReadPage, EndReading, EndJob, ReaderFails, DecodeFails,
         ReadingRaises, ReadingBreaks
<1>7. \/ strayed' = strayed /\ \E x : reader' = [reader EXCEPT ![r] = x]
      \/ \E x : Left(r, x)
  BY Zenon DEF Reader, BeginReading, ReadPage, EndReading, EndJob, ReaderFails, DecodeFails,
         ReadingRaises, ReadingBreaks
<1>8. /\ \A q \in Runs : q.pile # p => reader'[q] = reader[q]
      /\ \A q \in Piles : strayed[q] => strayed'[q]
      /\ \A q \in Runs \ {r} : strayed'[p] \/ reader'[q] = reader[q]
  BY <1>7, LeftStrays DEF TypeOK
<1>9. ASSUME ~strayed'[p] PROVE Orderly(p)'
  <2>1. Orderly(p)
    BY <1>2, <1>8, <1>9
  <2>2. /\ job[JobOf(r)] = IF reader[r] = "queued" THEN "queued" ELSE "running"
        /\ \A q \in Runs : q.pile = p /\ q # r => reader[q] # "queued" /\ reader[q] \notin Busy
        /\ \A k \in Jobs : k.pile = p /\ k # JobOf(r) => job[k] \notin {"queued", "running"}
    BY <1>3, <2>1, OnlyReading
  <2>3. /\ \A q \in Runs : q.pile = p /\ q # r => reader'[q] # "queued" /\ reader'[q] \notin Busy
        /\ \A k \in Jobs : k.pile = p /\ k # JobOf(r) => job'[k] \notin {"queued", "running"}
    BY <1>5, <1>8, <1>9, <2>2 DEF TypeOK
  <2>4. r.try = 1 /\ status[p] # "unsent" /\ ~overrun[p]
    BY <1>2, <1>3, <2>1, <2>2 DEF Orderly, Busy
  <2>5. reader[r] \in AtWork => status[p] \in {"uploaded", "processing"}
    BY <2>1 DEF Orderly
  <2>6. /\ reader'[r] \in Busy => job'[JobOf(r)] = "running"
        /\ reader'[r] # "queued" /\ ~overrun'[p] /\ status'[p] # "unsent"
        /\ reader'[r] \in AtWork => status'[p] \in {"uploaded", "processing"}
    <3>1. CASE BeginReading(r)
      <4>1. reader'[r] \in {"resuming", "running"} /\ job'[JobOf(r)] = "running"
        BY <1>2, <3>1 DEF BeginReading, TypeOK
      <4>2. reader[r] = "queued" /\ UNCHANGED <<status, overrun>>
        BY <3>1 DEF BeginReading
      <4> QED
        BY <2>4, <2>5, <4>1, <4>2 DEF AtWork
    <3>2. CASE ReadPage(r)
      <4>1. reader'[r] = "reading" /\ job' = job /\ reader[r] \in AtWork \cap Busy
        BY <3>2 DEF ReadPage, TypeOK, AtWork, Busy
      <4>2. status'[p] \in {status[p], "processing"}
        BY <1>2, <3>2 DEF ReadPage, TypeOK
      <4>3. overrun'[p] = overrun[p]
        BY <1>2, <2>5, <3>2, <4>1 DEF ReadPage, WritesInto, TypeOK
      <4> QED
        BY <2>2, <2>4, <2>5, <4>1, <4>2, <4>3 DEF Busy
    <3>3. CASE EndReading(r)
      <4>1. reader'[r] = "ended" /\ job' = job /\ reader[r] \in AtWork \cap Busy
        BY <3>3 DEF EndReading, TypeOK, AtWork, Busy
      <4>2. status'[p] = "needs_review"
        BY <1>2, <3>3 DEF EndReading, TypeOK
      <4>3. overrun'[p] = overrun[p]
        BY <1>2, <2>5, <3>3, <4>1 DEF EndReading, WritesInto, TypeOK
      <4> QED
        BY <2>2, <2>4, <4>1, <4>2, <4>3 DEF AtWork, Busy
    <3>4. CASE DecodeFails(r)
      <4>1. Left(r, "over")
        BY <3>4 DEF DecodeFails
      <4>2. reader'[r] = "over" /\ reader[r] \in AtWork
        BY <1>9, <3>4, <4>1, LeftStrays DEF DecodeFails, TypeOK, AtWork
      <4>3. status'[p] = "failed"
        BY <1>2, <3>4 DEF DecodeFails, TypeOK
      <4>4. overrun'[p] = overrun[p]
        BY <1>2, <2>5, <3>4, <4>2 DEF DecodeFails, WritesInto, TypeOK
      <4> QED
        BY <2>4, <4>2, <4>3, <4>4 DEF AtWork, Busy
    <3>5. CASE EndJob(r) \/ ReadingRaises(r)
      <4>1. Left(r, "over") /\ UNCHANGED <<status, overrun>>
        BY <3>5 DEF EndJob, ReadingRaises
      <4>2. reader'[r] = "over"
        BY <1>9, <4>1, LeftStrays DEF TypeOK
      <4> QED
        BY <2>4, <4>1, <4>2 DEF AtWork, Busy
    <3>6. CASE ReadingBreaks(r)
      <4>1. PICK at \in {"over", reader[r]} : Left(r, at)
        BY <3>6 DEF ReadingBreaks
      <4>2. reader'[r] = at
        BY <1>9, <4>1, LeftStrays DEF TypeOK
      <4>3. UNCHANGED <<status, job, overrun>> /\ reader[r] \in Busy
        BY <3>6 DEF ReadingBreaks
      <4> QED
        BY <2>2, <2>4, <2>5, <4>2, <4>3 DEF AtWork, Busy
    <3> QED
      BY <3>1, <3>2, <3>3, <3>4, <3>5, <3>6 DEF Reader, ReaderFails
  <2>7. \A q \in Runs : q.pile = p /\ q # r /\ reader'[q] # "none" => q.try = 1
    BY <1>8, <1>9, <2>1 DEF Orderly
  <2>8. \A q \in Runs : q.pile = p /\ q # r => reader'[q] \notin AtWork
    BY <2>3 DEF AtWork, Busy
  <2> QED
    BY <1>2, <2>3, <2>4, <2>6, <2>7, <2>8 DEF Orderly
<1>10. ASSUME NEW q \in Piles, q # p
       PROVE  /\ strayed[q] => strayed'[q]
              /\ status'[q] = status[q] /\ overrun'[q] = overrun[q]
              /\ \A q1 \in Runs : q1.pile = q => reader'[q1] = reader[q1]
              /\ \A k \in Jobs : k.pile = q => job'[k] = job[k]
  <2>1. status'[q] = status[q] /\ overrun'[q] = overrun[q]
    BY <1>4, <1>6, <1>10 DEF WritesInto, TypeOK
  <2>2. \A k \in Jobs : k.pile = q => job'[k] = job[k]
    BY <1>2, <1>5, <1>10 DEF TypeOK
  <2> QED
    BY <1>8, <1>10, <2>1, <2>2
<1> HIDE DEF p
<1> QED
  BY <1>1, <1>2, <1>9, <1>10, OrderlyElsewhere

\* A row that is reaped has no reading left, or the reading is a stray.
LEMMA ReapOrderly == ASSUME StrayInv, NEW j \in Jobs, ReapReader(j) PROVE StrayInv'
<1> USE DEF StrayInv
<1>1. TypeOK'
  BY ReapTypeOK
<1>2. j.pile \in Piles
  BY Deliveries
<1>3. /\ job[j] = "running" /\ job' = [job EXCEPT ![j] = "ended"]
      /\ UNCHANGED <<status, reader, overrun>>
      /\ strayed' = [strayed EXCEPT ![j.pile] =
             @ \/ \E r \in Runs : JobOf(r) = j /\ reader[r] \in Busy]
  BY DEF ReapReader, Stray
<1>4. ASSUME ~strayed'[j.pile] PROVE Orderly(j.pile)'
  <2>1. Orderly(j.pile) /\ \A r \in Runs : JobOf(r) = j => reader[r] \notin Busy
    BY <1>2, <1>3, <1>4 DEF TypeOK
  <2>2. \A r \in Runs : JobOf(r) = j => reader[r] # "queued"
    BY <1>3, <2>1, Deliveries DEF Orderly
  <2>3. job'[j] = "ended" /\ \A k \in Jobs \ {j} : job'[k] = job[k]
    BY <1>3 DEF TypeOK
  <2>4. status[j.pile] # "unsent"
    BY <1>3, <2>1 DEF Orderly
  <2> QED
    BY <1>3, <2>1, <2>2, <2>3, <2>4, Deliveries DEF Orderly
<1>5. ASSUME NEW q \in Piles, q # j.pile
      PROVE  /\ strayed[q] => strayed'[q]
             /\ status'[q] = status[q] /\ overrun'[q] = overrun[q]
             /\ \A r \in Runs : r.pile = q => reader'[r] = reader[r]
             /\ \A k \in Jobs : k.pile = q => job'[k] = job[k]
  BY <1>3, <1>5 DEF TypeOK
<1> QED
  BY <1>1, <1>2, <1>4, <1>5, OrderlyElsewhere

\* The screen signs a pile in review, and no reading is at work on it then.
LEMMA SigningOrderly ==
    ASSUME ~EarlyConfirm, StrayInv, NEW p \in Piles, ConfirmScan(p) \/ UnvalidateScan(p)
    PROVE  StrayInv'
<1> USE DEF StrayInv
<1>1. TypeOK'
  BY SigningTypeOK
<1>2. UNCHANGED <<strayed, reader, job>>
  BY DEF ConfirmScan, UnvalidateScan, jobs
<1>3. /\ status[p] \in {"needs_review", "confirmed"}
      /\ status'[p] \in {"needs_review", "confirmed"}
  BY DEF ConfirmScan, ReadyToSign, UnvalidateScan, TypeOK
<1>4. /\ \A q \in Piles \ {p} : status'[q] = status[q] /\ overrun'[q] = overrun[q]
      /\ overrun'[p] => overrun[p]
  BY DEF ConfirmScan, UnvalidateScan, jobs, TypeOK
<1>5. strayed'[p] \/ Orderly(p)'
  BY <1>2, <1>3, <1>4 DEF Orderly, AtWork
<1> QED
  BY <1>1, <1>2, <1>4, <1>5, OrderlyElsewhere

\* Nobody else begins or ends a reading.
LEMMA StrayStep == ASSUME ~EarlyConfirm, StrayInv, [Next]_vars PROVE StrayInv'
<1>1. TypeOK'
  BY StepTypeOK DEF StrayInv
<1>2. CASE UNCHANGED <<status, jobs>>
  BY <1>1, <1>2 DEF StrayInv, Orderly, jobs
<1>3. ASSUME NEW p \in Piles, Grader(p) \/ GraderFails(p) PROVE UNCHANGED <<status, jobs>>
  BY <1>3, Zenon DEF Grader, StartGrading, SettleAnswer, EndGrading, GraderFails, GraderDies,
                     GradeJobGoesStale
<1>4. ASSUME NEW g \in Pages, OnPage(g) PROVE UNCHANGED <<status, jobs>>
  BY <1>4, Zenon DEF OnPage, SetPageDiscarded, AssignPageStudent, CorrectDetection,
                     RevertDetection
<1>5. CASE UNCHANGED vars
  BY <1>2, <1>5 DEF vars
<1> QED
  BY <1>2, <1>3, <1>4, <1>5, UploadingOrderly, ReaderOrderly, ReapOrderly, SigningOrderly
     DEF Next, OnPile

\* The invariant holds for ever.
LEMMA Strays == ~EarlyConfirm /\ Spec => []StrayInv
<1> SUFFICES ASSUME ~EarlyConfirm PROVE Spec => []StrayInv
  OBVIOUS
<1>1. Init => StrayInv
  <2> SUFFICES ASSUME Init PROVE StrayInv
    OBVIOUS
  <2>1. \A r \in Runs : reader[r] = "none"
    BY DEF Init
  <2>2. \A j \in Jobs : job[j] = "none"
    BY DEF Init
  <2>3. \A p \in Piles : ~overrun[p]
    BY DEF Init
  <2> QED
    BY <2>1, <2>2, <2>3, InitTypeOK DEF StrayInv, Orderly, Busy, AtWork
<1>2. StrayInv /\ [Next]_vars => StrayInv'
  BY StrayStep
<1> QED
  BY <1>1, <1>2, PTL DEF Spec

\* Signed on the review screen, a pile is overrun only by a job that was
\* delivered again, or that outlived the end its row told of: the in-flight guard
\* of the retakes and the status a reading leaves keep all others apart
\* (scan_service.py:877, 1131).
THEOREM OnlyStrays == ~EarlyConfirm /\ Spec => []OnlyStraysOverrun
<1>1. StrayInv => OnlyStraysOverrun
  BY DEF StrayInv, Orderly, OnlyStraysOverrun
<1> QED
  BY Strays, <1>1, PTL

\* Where nothing fails nothing goes astray.
LEMMA NoStrays == ~MayFail /\ Spec => [](\A p \in Piles : ~strayed[p])
<1> SUFFICES ASSUME ~MayFail PROVE Spec => [](\A p \in Piles : ~strayed[p])
  OBVIOUS
<1> DEFINE Inv == \A p \in Piles : ~strayed[p]
<1>1. Init => Inv
  BY DEF Init
<1>2. Inv /\ [Next]_vars => Inv'
  <2> SUFFICES ASSUME [Next]_vars PROVE strayed' = strayed
    BY DEF Inv
  <2>1. ASSUME NEW r \in Runs, Reader(r) PROVE strayed' = strayed
    BY <2>1 DEF Reader, BeginReading, ReadPage, EndReading, EndJob, Left
  <2>2. ASSUME NEW p \in Piles, Upload(p) \/ AppendPages(p) PROVE strayed' = strayed
    BY <2>2 DEF Upload, AppendPages, Enqueue
  <2>3. ASSUME NEW p \in Piles, ConfirmScan(p) \/ UnvalidateScan(p) PROVE strayed' = strayed
    BY <2>3 DEF ConfirmScan, UnvalidateScan, jobs
  <2>4. ASSUME NEW p \in Piles, Grader(p) PROVE strayed' = strayed
    BY <2>4, Zenon DEF Grader, StartGrading, SettleAnswer, EndGrading, jobs
  <2>5. ASSUME NEW g \in Pages, OnPage(g) PROVE strayed' = strayed
    BY <2>5, Zenon DEF OnPage, SetPageDiscarded, AssignPageStudent, CorrectDetection,
                       RevertDetection, jobs
  <2>6. /\ \A r \in Runs : ~ReaderFails(r)
        /\ \A j \in Jobs : ~ReapReader(j)
        /\ \A p \in Piles : ~GraderFails(p)
    BY DEF ReaderFails, DecodeFails, ReadingRaises, ReadingBreaks, ReapReader, GraderFails,
           GraderDies, GradeJobGoesStale
  <2>7. CASE UNCHANGED vars
    BY <2>7 DEF vars, jobs
  <2> QED
    BY <2>1, <2>2, <2>3, <2>4, <2>5, <2>6, <2>7 DEF Next, OnPile
<1> QED
  BY <1>1, <1>2, PTL DEF Spec

-----------------------------------------------------------------------------
(* The ledger: every step of the piles signs a pile, reopens one, or leaves *)
(* the ledger and its evidence alone                                       *)

\* What a page of a signed pile is worth is a grade.
LEMMA EvidenceType ==
    TypeOK => Evidence \in [Piles -> [Answers -> SUBSET {"right", "wrong", "zero"}]]
<1> SUFFICES ASSUME TypeOK, NEW p \in Piles, NEW s \in Students, NEW i \in Items,
                    NEW g \in Marking(p, s, i, row)
             PROVE  Grade(row[g][i].now) \in {"right", "wrong", "zero"}
  BY DEF Evidence, Answers
<1>1. g \in Pages /\ Grade(row[g][i].now) # Ungradeable
  BY DEF Marking, Live, PagesOf
<1>2. row[g][i].now \in Readings
  BY <1>1 DEF TypeOK, Rows
<1> QED
  BY <1>1, <1>2, GradeType

\* The evidence of a signed pile for an answer, and that of any other pile.
LEMMA EvidenceOf ==
    ASSUME NEW p \in Piles, NEW a \in Answers
    PROVE  /\ status[p] = "confirmed" => Evidence[p][a] =
                {Grade(row[g][a[2]].now) : g \in Marking(p, a[1], a[2], row)}
           /\ status[p] # "confirmed" => Evidence[p][a] = {}
  BY DEF Evidence

\* The live mark of an answer tells its pile and its grade.
LEMMA LiveMarkOf ==
    ASSUME QuietInv, NEW a \in Answers
    PROVE  /\ a[1] \in Students /\ a[2] \in Items
           /\ LiveMarks[a] = NoAttempt <=> attempt[a[1]][a[2]] = NoAttempt
           /\ LiveMarks[a] # NoAttempt => LiveMarks[a] =
                [pile |-> attempt[a[1]][a[2]].pile, grade |-> attempt[a[1]][a[2]].mark]
<1>1. a[1] \in Students /\ a[2] \in Items
  BY DEF Answers
<1>2. \A q \in Piles : \A m : [pile |-> q, grade |-> m] # NoAttempt
  <2> SUFFICES ASSUME NEW q \in Piles, NEW m, [pile |-> q, grade |-> m] = NoAttempt
               PROVE  FALSE
    OBVIOUS
  <2>1. q = Nobody
    BY DEF NoAttempt
  <2> QED
    BY <2>1, PilesAssumption
<1>3. attempt[a[1]][a[2]] # NoAttempt => attempt[a[1]][a[2]].pile \in Piles
  BY <1>1, AttemptOfAPile
<1> QED
  BY <1>1, <1>2, <1>3 DEF LiveMarks

\* The marks the ledger may hold.
LEMMA LiveMarksType ==
    QuietInv => LiveMarks \in [Answers -> Promise!Marked \union {NoAttempt}]
<1> SUFFICES ASSUME QuietInv, NEW a \in Answers
             PROVE  LiveMarks[a] \in Promise!Marked \union {NoAttempt}
  BY DEF LiveMarks
<1>1. attempt[a[1]][a[2]] \in Attempts \union {NoAttempt}
  BY LiveMarkOf, AttemptOfAPile
<1>2. CASE attempt[a[1]][a[2]] = NoAttempt
  BY <1>2, LiveMarkOf
<1>3. CASE attempt[a[1]][a[2]] # NoAttempt
  <2>1. /\ attempt[a[1]][a[2]].pile \in Piles
        /\ attempt[a[1]][a[2]].mark \in {"right", "wrong", "zero"}
    BY <1>1, <1>3 DEF Attempts
  <2>2. LiveMarks[a] =
          [pile |-> attempt[a[1]][a[2]].pile, grade |-> attempt[a[1]][a[2]].mark]
    BY <1>3, LiveMarkOf
  <2> QED
    BY <2>1, <2>2 DEF Promise!Marked
<1> QED
  BY <1>2, <1>3

\* At first the ledger is empty.
LEMMA PromisedInit == Init => Promise!Init
<1> SUFFICES ASSUME Init PROVE Promise!Init
  OBVIOUS
<1>1. SignedPiles = {}
  BY DEF Init, SignedPiles
<1>2. Evidence = [p \in Piles |-> Promise!NoEvidence]
  BY DEF Init, Evidence, Promise!NoEvidence
<1>3. LiveMarks = [a \in Answers |-> NoAttempt]
  BY DEF Init, LiveMarks, Answers
<1>4. older = [p \in Piles |-> {}]
  BY DEF Init
<1> QED
  BY <1>1, <1>2, <1>3, <1>4 DEF Promise!Init

\* The evidence of a pile that keeps its signature, its pages and its readings.
LEMMA EvidenceKept ==
    ASSUME NEW p \in Piles, status[p] = "confirmed", status'[p] = "confirmed",
           \A g \in PagesOf(p) : page'[g] = page[g] /\ row'[g] = row[g]
    PROVE  Evidence'[p] = Evidence[p]
<1>1. ASSUME NEW a \in Answers
      PROVE  {Grade(row'[g][a[2]].now) : g \in Marking(p, a[1], a[2], row)'}
                = {Grade(row[g][a[2]].now) : g \in Marking(p, a[1], a[2], row)}
  <2>1. Marking(p, a[1], a[2], row)' = Marking(p, a[1], a[2], row)
    BY MarkingKept DEF Answers
  <2>2. \A g \in Marking(p, a[1], a[2], row) : row'[g] = row[g]
    BY DEF Marking, Live, PagesOf
  <2> QED
    BY <2>1, <2>2
<1> QED
  BY <1>1 DEF Evidence

\* A step that neither signs nor reopens is no step of the ledger.
LEMMA PromisedStutter ==
    ASSUME SignedInv, [Next]_vars, \A p \in Piles : ~overrun'[p],
           \A p \in Piles : ~ConfirmScan(p) /\ ~UnvalidateScan(p)
    PROVE  UNCHANGED Promise!vars
<1>1. /\ UNCHANGED ledger
      /\ \A p \in Piles : (status'[p] = "confirmed") <=> (status[p] = "confirmed")
      /\ \A g \in Pages : status[PileOf[g]] = "confirmed" =>
           page'[g] = page[g] /\ row'[g] = row[g]
  BY QuietLeaves, PilesAssumption DEF SignedInv, LeavesSigned
<1>2. SignedPiles' = SignedPiles
  BY <1>1 DEF SignedPiles
<1>3. ASSUME NEW p \in Piles PROVE Evidence'[p] = Evidence[p]
  <2>1. CASE status[p] = "confirmed"
    BY <1>1, <2>1, EvidenceKept DEF PagesOf
  <2>2. CASE status[p] # "confirmed"
    BY <1>1, <2>2 DEF Evidence
  <2> QED
    BY <2>1, <2>2
<1>4. Evidence' = Evidence
  BY <1>3 DEF Evidence
<1>5. LiveMarks' = LiveMarks /\ older' = older
  BY <1>1 DEF LiveMarks, ledger
<1> QED
  BY <1>2, <1>4, <1>5 DEF Promise!vars

\* A signature is a step of the ledger.
LEMMA PromisedSign ==
    ASSUME BubbleSheets, SignedInv, NEW p \in Piles, ConfirmScan(p)
    PROVE  Promise!Sign(p)
<1>1. /\ UNCHANGED <<page, row>>
      /\ attempt' = Superseded(p, row)
      /\ status' = [status EXCEPT ![p] = "confirmed"]
      /\ older' = [q \in Piles |->
             IF q = p THEN {o \in Piles \ {p} : status[o] = "confirmed"}
                      ELSE older[q] \ {p}]
  BY NothingToSettle, SigningQuiet DEF SignedInv, ConfirmScan
<1>2. status[p] # "confirmed"
  BY DEF ConfirmScan, Signable
<1>3. status \in [Piles -> Statuses]
  BY DEF SignedInv, QuietInv, Placed, TypeOK
<1>4. QuietInv' /\ TypeOK'
  <2>1. [Next]_vars
    BY DEF Next, OnPile
  <2> QED
    BY <2>1, QuietStep DEF SignedInv, QuietInv, Placed
<1>5. p \notin SignedPiles /\ SignedPiles' = SignedPiles \union {p}
  BY <1>1, <1>2, <1>3 DEF SignedPiles
<1>6. (Evidence \in [Piles -> [Answers -> SUBSET {"right", "wrong", "zero"}]])'
  BY <1>4, EvidenceType, PTL
<1>7. ASSUME NEW q \in Piles \ {p} PROVE Evidence'[q] = Evidence[q]
  <2>1. status'[q] = status[q]
    BY <1>1, <1>3
  <2>2. CASE status[q] = "confirmed"
    BY <1>1, <2>1, <2>2, EvidenceKept
  <2>3. CASE status[q] # "confirmed"
    BY <2>1, <2>3 DEF Evidence
  <2> QED
    BY <2>2, <2>3
<1>8. (LiveMarks \in [Answers -> Promise!Marked \union {NoAttempt}])'
  BY <1>4, LiveMarksType, PTL
<1>9. ASSUME NEW a \in Answers
      PROVE  IF Evidence'[p][a] = {} THEN LiveMarks'[a] = LiveMarks[a]
             ELSE LiveMarks'[a] \in [pile : {p}, grade : Evidence'[p][a]]
  <2> DEFINE s == a[1]
             i == a[2]
  <2>1. s \in Students /\ i \in Items
    BY DEF Answers
  <2>2. Marking(p, s, i, row)' = Marking(p, s, i, row)
    BY <1>1, <2>1, MarkingKept DEF PagesOf
  <2>3. Evidence'[p][a] = {Grade(row[g][i].now) : g \in Marking(p, s, i, row)}
    BY <1>1, <1>3, <2>2 DEF Evidence
  <2>4. attempt'[s][i] = IF Marking(p, s, i, row) = {} THEN attempt[s][i]
                         ELSE AttemptFrom(p, LastOf(Marking(p, s, i, row)), i, row)
    BY <1>1, <2>1 DEF Superseded
  <2>5. CASE Marking(p, s, i, row) = {}
    <3>1. attempt'[s][i] = attempt[s][i]
      BY <2>4, <2>5
    <3>2. LiveMarks'[a] = LiveMarks[a]
      BY <3>1 DEF LiveMarks
    <3>3. Evidence'[p][a] = {}
      BY <2>3, <2>5
    <3> QED
      BY <3>2, <3>3
  <2>6. CASE Marking(p, s, i, row) # {}
    <3> DEFINE g == LastOf(Marking(p, s, i, row))
    <3>1. Marking(p, s, i, row) \in SUBSET Pages
      BY DEF Marking, Live, PagesOf
    <3>2. g \in Marking(p, s, i, row)
      BY <2>6, <3>1, LastOfType
    <3>3. attempt'[s][i] = AttemptFrom(p, g, i, row)
      BY <2>4, <2>6
    <3>4. attempt'[s][i] # NoAttempt
      BY <3>3, PilesAssumption DEF AttemptFrom, NoAttempt
    <3>5. LiveMarks'[a] = [pile |-> p, grade |-> Grade(row[g][i].now)]
      BY <3>3, <3>4 DEF LiveMarks, AttemptFrom
    <3>6. Grade(row[g][i].now) \in Evidence'[p][a]
      BY <2>3, <3>2
    <3> QED
      BY <3>5, <3>6
  <2> QED
    BY <2>5, <2>6
<1>10. older' = [q \in Piles |-> IF q = p THEN SignedPiles ELSE older[q] \ {p}]
  BY <1>1, <1>2 DEF SignedPiles
<1> QED
  BY <1>5, <1>6, <1>7, <1>8, <1>9, <1>10 DEF Promise!Sign

\* A reopening is a step of the ledger.
LEMMA PromisedReopen ==
    ASSUME BubbleSheets, SignedInv, NEW p \in Piles, UnvalidateScan(p)
    PROVE  Promise!Reopen(p)
<1>1. PICK tie \in Pages : attempt' = Withdrawn(p, tie)
  BY DEF UnvalidateScan
<1>2. /\ UNCHANGED <<page, row, older>>
      /\ status[p] = "confirmed"
      /\ status' = [status EXCEPT ![p] = "needs_review"]
  BY DEF UnvalidateScan, readings
<1>3. TypeOK /\ status \in [Piles -> Statuses]
  BY DEF SignedInv, QuietInv, Placed, TypeOK
<1>4. QuietInv'
  <2>1. [Next]_vars
    BY DEF Next, OnPile
  <2> QED
    BY <2>1, QuietStep DEF SignedInv
<1>5. p \in SignedPiles /\ SignedPiles' = SignedPiles \ {p}
  BY <1>2, <1>3 DEF SignedPiles
<1>6. Evidence' = [Evidence EXCEPT ![p] = Promise!NoEvidence]
  <2>1. Evidence'[p] = Promise!NoEvidence
    BY <1>2, <1>3 DEF Evidence, Promise!NoEvidence
  <2>2. ASSUME NEW q \in Piles \ {p} PROVE Evidence'[q] = Evidence[q]
    <3>1. status'[q] = status[q]
      BY <1>2, <1>3
    <3>2. CASE status[q] = "confirmed"
      BY <1>2, <3>1, <3>2, EvidenceKept
    <3>3. CASE status[q] # "confirmed"
      BY <3>1, <3>3 DEF Evidence
    <3> QED
      BY <3>2, <3>3
  <2> QED
    BY <2>1, <2>2 DEF Evidence
<1>7. (LiveMarks \in [Answers -> Promise!Marked \union {NoAttempt}])'
  BY <1>4, LiveMarksType, PTL
<1>8. ASSUME NEW a \in Answers
      PROVE  IF LiveMarks[a] # NoAttempt /\ LiveMarks[a].pile = p
             THEN LiveMarks'[a] \in Promise!PutBack(p, a) \union {NoAttempt}
             ELSE LiveMarks'[a] = LiveMarks[a]
  <2> DEFINE s == a[1]
             i == a[2]
  <2>1. s \in Students /\ i \in Items
    BY DEF Answers
  <2>2. attempt'[s][i] = IF attempt[s][i].pile = p THEN Fallback(p, s, i, tie)
                                                   ELSE attempt[s][i]
    BY <1>1, <2>1 DEF Withdrawn
  <2>3. (LiveMarks[a] # NoAttempt /\ LiveMarks[a].pile = p) <=> attempt[s][i].pile = p
    <3>1. QuietInv
      BY DEF SignedInv
    <3>2. attempt[s][i].pile = p => attempt[s][i] # NoAttempt
      BY <2>1, <3>1, AttemptOfAPile
    <3>3. LiveMarks[a] # NoAttempt <=> attempt[s][i] # NoAttempt
      BY <3>1, LiveMarkOf
    <3>4. LiveMarks[a] # NoAttempt => LiveMarks[a].pile = attempt[s][i].pile
      <4> SUFFICES ASSUME LiveMarks[a] # NoAttempt
                   PROVE  LiveMarks[a].pile = attempt[s][i].pile
        OBVIOUS
      <4>1. LiveMarks[a] = [pile |-> attempt[s][i].pile, grade |-> attempt[s][i].mark]
        BY <3>1, LiveMarkOf
      <4> QED
        BY <4>1
    <3> QED
      BY <3>2, <3>3, <3>4
  <2>4. CASE attempt[s][i].pile # p
    <3>1. attempt'[s][i] = attempt[s][i]
      BY <2>2, <2>4
    <3>2. LiveMarks'[a] = LiveMarks[a]
      BY <3>1 DEF LiveMarks
    <3> QED
      BY <2>3, <2>4, <3>2
  <2>5. CASE attempt[s][i].pile = p
    <3>1. attempt'[s][i] = Fallback(p, s, i, tie)
      BY <2>2, <2>5
    <3>2. CASE Fallback(p, s, i, tie) = NoAttempt
      <4>1. LiveMarks'[a] = NoAttempt
        BY <3>1, <3>2 DEF LiveMarks
      <4> QED
        BY <2>3, <2>5, <4>1
    <3>3. ASSUME NEW g \in Newest(Standing(p, s, i)), g \in Pages,
                 Grade(row[g][i].now) # Ungradeable,
                 Fallback(p, s, i, tie) = AttemptFrom(PileOf[g], g, i, row)
          PROVE  LiveMarks'[a] \in Promise!PutBack(p, a)
      <4> DEFINE m == [pile |-> PileOf[g], grade |-> Grade(row[g][i].now)]
      <4>1. g \in Standing(p, s, i)
        BY DEF Newest
      <4>2. /\ PileOf[g] \in Piles /\ PileOf[g] # p
            /\ status[PileOf[g]] = "confirmed"
        BY <4>1, PilesAssumption DEF Standing
      <4>3. g \in Marking(PileOf[g], s, i, row)
        BY <3>3, <4>1 DEF Standing, Marking
      <4>4. attempt'[s][i] # NoAttempt
        BY <3>1, <3>3, <4>2, PilesAssumption DEF AttemptFrom, NoAttempt
      <4>5. LiveMarks'[a] = m
        BY <3>1, <3>3, <4>4 DEF LiveMarks, AttemptFrom
      <4>6. m.pile \in SignedPiles \ {p} /\ m.grade \in Evidence[m.pile][a]
        BY <4>2, <4>3, EvidenceOf DEF SignedPiles
      <4>7. m \in Promise!Marked
        <5>1. Evidence[PileOf[g]][a] \subseteq {"right", "wrong", "zero"}
          BY <1>3, <4>2, EvidenceType
        <5> QED
          BY <4>2, <4>6, <5>1 DEF Promise!Marked
      <4>8. ASSUME NEW q \in SignedPiles \ {p}, Evidence[q][a] # {}
            PROVE  q = m.pile \/ q \in older[m.pile]
        <5>1. q \in Piles /\ status[q] = "confirmed"
          BY DEF SignedPiles
        <5>2. PICK h : h \in Marking(q, s, i, row)
          BY <4>8, <5>1, EvidenceOf
        <5>3. h \in Standing(p, s, i) /\ PileOf[h] = q
          BY <4>8, <5>1, <5>2 DEF Standing, Marking, Live, PagesOf
        <5> QED
          BY <5>3 DEF Newest
      <4> QED
        BY <4>5, <4>6, <4>7, <4>8 DEF Promise!PutBack
    <3>4. CASE Fallback(p, s, i, tie) # NoAttempt
      <4>1. LiveMarks'[a] \in Promise!PutBack(p, a)
        BY <1>3, <2>1, <3>3, <3>4, FallbackType
      <4> QED
        BY <2>3, <2>5, <4>1
    <3> QED
      BY <3>2, <3>4
  <2> QED
    BY <2>4, <2>5
<1> QED
  BY <1>2, <1>5, <1>6, <1>7, <1>8 DEF Promise!Reopen

\* A step of the piles, where no signed pile is written into by a reader, is a
\* step of the ledger or invisible in it.
LEMMA PromisedStep ==
    ASSUME BubbleSheets, SignedInv, [Next]_vars, \A p \in Piles : ~overrun[p] /\ ~overrun'[p]
    PROVE  [Promise!Next]_(Promise!vars)
<1>1. CASE \A p \in Piles : ~ConfirmScan(p) /\ ~UnvalidateScan(p)
  BY <1>1, PromisedStutter
<1>2. CASE ~ \A p \in Piles : ~ConfirmScan(p) /\ ~UnvalidateScan(p)
  BY <1>2, PromisedSign, PromisedReopen DEF Promise!Next
<1> QED
  BY <1>1, <1>2

\* On bubble sheets, uploads, readings, faults and corrections are invisible in
\* the ledger, unless a reader has written into a signed pile: it changes only by
\* a signature, which marks all the evidence of its pile, and by a withdrawal,
\* which brings back none but the newest of what still stands
\* (scan_service.py:640, 836).
THEOREM PromiseOutlivesFaults == BubbleSheets /\ Spec => KeptUnlessOverrun
<1> SUFFICES ASSUME BubbleSheets PROVE Spec => KeptUnlessOverrun
  OBVIOUS
<1> DEFINE Step == \/ \E p \in Piles : overrun[p] \/ overrun'[p]
                   \/ Promise!Next
<1>1. SignedInv /\ [Next]_vars => [Step]_<<SignedPiles, Evidence, LiveMarks, older>>
  <2> SUFFICES ASSUME SignedInv, [Next]_vars, \A p \in Piles : ~overrun[p] /\ ~overrun'[p]
               PROVE  Promise!Next \/ UNCHANGED <<SignedPiles, Evidence, LiveMarks, older>>
    OBVIOUS
  <2> QED
    BY PromisedStep DEF Promise!vars
<1> QED
  BY Signed, <1>1, PTL DEF Spec, KeptUnlessOverrun

\* On bubble sheets signed on the review screen, the piles implement the ledger
\* as long as nothing fails (scan_service.py:640, 836).
THEOREM PromiseIsKept ==
    ~MayFail /\ ~EarlyConfirm /\ BubbleSheets /\ Spec => KeepsThePromise
<1> SUFFICES ASSUME ~MayFail, ~EarlyConfirm, BubbleSheets PROVE Spec => KeepsThePromise
  OBVIOUS
<1> DEFINE Inv == SignedInv /\ StrayInv /\ \A p \in Piles : ~strayed[p]
<1>1. Inv => \A p \in Piles : ~overrun[p]
  BY DEF StrayInv, Orderly
<1>2. Inv /\ Inv' /\ [Next]_vars => [Promise!Next]_(Promise!vars)
  <2>1. Inv' => \A p \in Piles : ~overrun'[p]
    BY DEF StrayInv, Orderly
  <2> QED
    BY <1>1, <2>1, PromisedStep
<1>3. Spec => []Inv
  BY Signed, Strays, NoStrays, PTL
<1> QED
  BY <1>2, <1>3, PromisedInit, PTL DEF Spec, KeepsThePromise, Promise!Spec
=============================================================================
