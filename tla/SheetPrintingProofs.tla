------------------------- MODULE SheetPrintingProofs -------------------------
(***************************************************************************)
(* What reaches paper was approved, for any corpus, roster, item lists,    *)
(* plans, number of renders and of piles.                                  *)
(***************************************************************************)
EXTENDS SheetPrinting, TLAPS

HasDocument(r) == render[r].stage \in {"built", "blank", "key", "closing"}

\* A render past its reads holds the document it made.
WorkHasDocument == \A r \in Renders : HasDocument(r) => render[r].doc \in Documents

\* There is a generation after the one a render has loaded.
WorkHasRoom ==
    \A r \in Renders :
        render[r].stage \in {"opened", "gated"} => render[r].generation < MaxGeneration

Shape == TypeOK /\ WorkHasDocument /\ WorkHasRoom

\* The copies print no more than the items the gate is asked about.
PlanIsWithinItems == \A s \in Students : sheet.plan[s] \subseteq sheet.items

\* Before the sheet exists nothing renders it.
NothingWithoutSheet ==
    sheet.kind = "none" => sheet.items = {} /\ \A r \in Renders : render[r].stage = "idle"

\* A stamp that is set was set by a teacher.
StampIsSigned ==
    \A t \in FromModel \union Notes : review[t].approved => t \in signedOff

\* What the last door let through was approved, and is what the sheet has as
\* long as no edit has come.
GateIsSigned ==
    \A r \in Renders : render[r].stage = "gated" =>
        /\ \A e \in render[r].gated : e \in FromModel => e \in signedOff
        /\ ~render[r].late => render[r].gated = sheet.items

Signed(doc) ==
    ~doc.slipped =>
        \A s \in Students : \A e \in doc.plan[s] : e \in FromModel => e \in signedOff

\* Every document at work, in the store or on paper is signed off.
DocumentsAreSigned ==
    /\ \A r \in Renders : HasDocument(r) => Signed(render[r].doc)
    /\ \A d \in Doors : store.blank[d] # Nothing => Signed(store.blank[d])
    /\ \A d \in Doors : store.key[d] # Nothing => Signed(store.key[d])
    /\ \A doc \in paper : Signed(doc)

FeedbackIsSigned == store.feedback \subseteq signedOff

IInv ==
    /\ Shape
    /\ PlanIsWithinItems
    /\ NothingWithoutSheet
    /\ StampIsSigned
    /\ GateIsSigned
    /\ DocumentsAreSigned
    /\ FeedbackIsSigned

-----------------------------------------------------------------------------
\* The first state has the shape, and nothing to sign.
LEMMA InitIInv == Init => IInv
<1> SUFFICES ASSUME Init PROVE IInv
  OBVIOUS
<1>1. TypeOK
  <2>1. review \in [Texts -> Reviews]
    BY DEF Init, Reviews
  <2>2. sheet \in SheetRows
    BY PrintingAssumption DEF Init, NoSheet, SheetRows, Kinds, Plans, Generations, Doors
  <2>3. render \in [Renders -> RenderRows]
    BY PrintingAssumption DEF Init, NoRender, RenderRows, Stages, Doors, Generations
  <2> QED
    BY <2>1, <2>2, <2>3 DEF Init, TypeOK, Objects
<1>2. /\ WorkHasDocument /\ WorkHasRoom /\ PlanIsWithinItems /\ NothingWithoutSheet
      /\ GateIsSigned /\ DocumentsAreSigned /\ FeedbackIsSigned
  BY DEF Init, NoRender, NoSheet, WorkHasDocument, WorkHasRoom, HasDocument,
         PlanIsWithinItems, NothingWithoutSheet, GateIsSigned, DocumentsAreSigned,
         FeedbackIsSigned
<1>3. StampIsSigned
  BY PrintingAssumption DEF Init, StampIsSigned, Texts
<1> QED
  BY <1>1, <1>2, <1>3 DEF IInv, Shape

-----------------------------------------------------------------------------
(* The shape of the rows                                                   *)

\* The decisions on texts keep the shape.
LEMMA ReviewShape ==
    ASSUME Shape,
           \/ \E t \in Texts : Approve(t) \/ Discard(t)
           \/ \E e \in FromModel, b \in BOOLEAN : PatchExercise(e, b)
    PROVE  Shape'
<1>1. review' \in [Texts -> Reviews]
  <2>1. ASSUME NEW t \in Texts, Approve(t) PROVE review' \in [Texts -> Reviews]
    BY <2>1 DEF Shape, TypeOK, Approve, Reviews
  <2>0. ASSUME NEW t \in Texts, Discard(t) PROVE review' \in [Texts -> Reviews]
    BY <2>0 DEF Shape, TypeOK, Discard, Reviews
  <2>2. ASSUME NEW e \in FromModel, NEW b \in BOOLEAN, PatchExercise(e, b)
        PROVE  review' \in [Texts -> Reviews]
    BY <2>2, PrintingAssumption DEF Shape, TypeOK, PatchExercise, Reviews, Texts
  <2> QED
    BY <2>0, <2>1, <2>2
<1>2. signedOff' \subseteq Texts
  BY PrintingAssumption DEF Shape, TypeOK, Approve, Discard, PatchExercise, Texts
<1> QED
  BY <1>1, <1>2 DEF Shape, TypeOK, WorkHasDocument, WorkHasRoom, HasDocument, Approve,
                    Discard, PatchExercise

\* An edit touches no field of a render but the mark of an edit.
LEMMA EditMarks ==
    ASSUME Shape, NEW items \in ItemLists, UpdateItems(items), NEW r \in Renders
    PROVE  /\ render'[r] = IF AtWork(r) THEN [render[r] EXCEPT !.late = TRUE] ELSE render[r]
           /\ render'[r] \in RenderRows
           /\ render'[r].stage = render[r].stage /\ render'[r].doc = render[r].doc
           /\ render'[r].generation = render[r].generation
           /\ render'[r].door = render[r].door /\ render'[r].gated = render[r].gated
           /\ render'[r].late = (render[r].late \/ AtWork(r))
<1>0. render[r] \in RenderRows
  BY DEF Shape, TypeOK
<1>1. render'[r] = IF AtWork(r) THEN [render[r] EXCEPT !.late = TRUE] ELSE render[r]
  BY DEF UpdateItems
<1>2. CASE AtWork(r)
  <2>1. render'[r] = [render[r] EXCEPT !.late = TRUE]
    BY <1>1, <1>2
  <2> QED
    BY <1>0, <1>1, <1>2, <2>1 DEF RenderRows
<1>3. CASE ~AtWork(r)
  <2>1. render'[r] = render[r]
    BY <1>1, <1>3
  <2>2. render[r].late \in BOOLEAN
    BY <1>0 DEF RenderRows
  <2> QED
    BY <1>0, <1>1, <1>3, <2>1, <2>2
<1> QED
  BY <1>2, <1>3

\* An edit keeps the shape.
LEMMA EditShape ==
    ASSUME Shape, NEW items \in ItemLists, UpdateItems(items)
    PROVE  Shape'
<1>0. items \subseteq Exercises /\ [s \in Students |-> items] \in Plans
  BY PrintingAssumption DEF Plans
<1>1. sheet' \in SheetRows
  <2>1. sheet' = [Unrendered(sheet) EXCEPT !.items = items, !.plan = [s \in Students |-> items]]
    BY DEF UpdateItems
  <2>2. sheet \in SheetRows
    BY DEF Shape, TypeOK
  <2> QED
    BY <1>0, <2>1, <2>2 DEF Unrendered, SheetRows
<1>2. render' \in [Renders -> RenderRows]
  <2>1. \A r \in Renders : render'[r] \in RenderRows
    BY EditMarks
  <2>2. render' = [r \in Renders |-> render'[r]]
    BY DEF UpdateItems
  <2> QED
    BY <2>1, <2>2
<1>3. \A r \in Renders : /\ render'[r].stage = render[r].stage
                         /\ render'[r].doc = render[r].doc
                         /\ render'[r].generation = render[r].generation
  BY EditMarks
<1>4. WorkHasDocument' /\ WorkHasRoom'
  BY <1>3 DEF Shape, WorkHasDocument, WorkHasRoom, HasDocument
<1>5. spoilt' \subseteq Doors
  <2>1. \A r \in Renders : render[r].door \in Doors
    BY DEF Shape, TypeOK, RenderRows
  <2>2. spoilt \subseteq Doors
    BY DEF Shape, TypeOK
  <2> QED
    BY <2>1, <2>2 DEF UpdateItems
<1>6. UNCHANGED <<review, placement, store, pinned, signedOff, paper>>
  BY DEF UpdateItems
<1> QED
  BY <1>1, <1>2, <1>4, <1>5, <1>6 DEF Shape, TypeOK

\* The builder keeps the shape.
LEMMA BuilderShape ==
    ASSUME Shape,
           \/ \E items \in ItemLists : CreateSheet(items) \/ UpdateItems(items)
           \/ \E plan \in BatchPlans, note \in BatchNotes :
                 CreateAdaptiveSheet(plan, note)
    PROVE  Shape'
<1>1. CASE \E items \in ItemLists : CreateSheet(items)
  <2> PICK items \in ItemLists : CreateSheet(items)
    BY <1>1
  <2>1. sheet' \in SheetRows
    BY PrintingAssumption
       DEF CreateSheet, BindInstances, NoSheet, SheetRows, Kinds, Plans, Generations
  <2> QED
    BY <2>1 DEF Shape, TypeOK, WorkHasDocument, WorkHasRoom, HasDocument, CreateSheet
<1>2. CASE \E plan \in BatchPlans, note \in BatchNotes :
              CreateAdaptiveSheet(plan, note)
  <2> PICK plan \in BatchPlans, note \in BatchNotes :
              CreateAdaptiveSheet(plan, note)
    BY <1>2
  <2>1. plan \in Plans /\ UNION {plan[s] : s \in Students} \in SUBSET Exercises
    BY PrintingAssumption DEF Plans
  <2>2. sheet' \in SheetRows
    BY <2>1, PrintingAssumption
       DEF CreateAdaptiveSheet, BindInstances, NoSheet, SheetRows, Kinds, Generations
  <2> QED
    BY <2>2 DEF Shape, TypeOK, WorkHasDocument, WorkHasRoom, HasDocument, CreateAdaptiveSheet
<1>3. CASE \E items \in ItemLists : UpdateItems(items)
  BY <1>3, EditShape
<1> QED
  BY <1>1, <1>2, <1>3

\* What a render that is done leaves of its row.
LEMMA DoneIsRow == Done \in RenderRows /\ Done.stage = "done"
<1>1. 0 \in Generations
  BY PrintingAssumption DEF Generations
<1>2. NoRender \in RenderRows
  BY <1>1 DEF NoRender, RenderRows, Stages, Doors
<1> QED
  BY <1>2 DEF Done, RenderRows, Stages

\* The document of a render has the items of its copies.
LEMMA DocumentIs ==
    ASSUME Shape, NEW r \in Renders, render[r].stage = "gated"
    PROVE  Document(r) \in Documents
<1>1. render[r] \in RenderRows /\ sheet \in SheetRows /\ render[r].generation < MaxGeneration
  BY DEF Shape, TypeOK, WorkHasRoom
<1>2. Copies(render[r].gated, sheet.plan) \in Plans
  BY <1>1 DEF Copies, Plans, RenderRows, SheetRows
<1>3. render[r].generation + 1 \in Generations
  BY <1>1, PrintingAssumption DEF RenderRows, Generations
<1> QED
  BY <1>1, <1>2, <1>3 DEF Document, Documents, RenderRows

\* A click leaves the render queued and nothing else.
LEMMA QueueIs ==
    ASSUME Shape, NEW r \in Renders, NEW door \in Doors, QueueRender(r, door)
    PROVE  /\ \E row \in RenderRows : row.stage = "queued" /\ render' = [render EXCEPT ![r] = row]
           /\ UNCHANGED <<review, sheet, placement, store, pinned, signedOff, paper, spoilt>>
           /\ render[r].stage = "idle"
<1>1. render \in [Renders -> RenderRows] /\ render[r] \in RenderRows
  BY DEF Shape, TypeOK
<1> DEFINE row == [render[r] EXCEPT !.stage = "queued", !.door = door]
<1>2. row \in RenderRows /\ row.stage = "queued"
  BY <1>1 DEF RenderRows, Stages
<1>3. render' = [render EXCEPT ![r] = row]
  BY <1>1 DEF QueueRender
<1> HIDE DEF row
<1> QED
  BY <1>2, <1>3 DEF QueueRender

\* A render that reads, and one that ends, holds no document and touches no
\* other render.
LEMMA ReaderIs ==
    ASSUME Shape, NEW r \in Renders,
           OpenSheet(r) \/ PassDoor(r) \/ CommitRender(r) \/ RenderFails(r)
    PROVE  /\ render'[r].stage \in {"opened", "gated", "done"}
           /\ \A q \in Renders \ {r} : render'[q] = render[q]
<1>0. render \in [Renders -> RenderRows] /\ render[r] \in RenderRows
  BY DEF Shape, TypeOK
<1>1. CASE OpenSheet(r)
  BY <1>0, <1>1 DEF OpenSheet, RenderRows
<1>2. CASE PassDoor(r)
  BY <1>0, <1>2 DEF PassDoor, RenderRows
<1>3. CASE CommitRender(r) \/ RenderFails(r)
  BY <1>0, <1>3, DoneIsRow DEF CommitRender, RenderFails
<1> QED
  BY <1>1, <1>2, <1>3

\* A render that stores its key or its feedback pages keeps its document.
LEMMA StorerIs ==
    ASSUME Shape, NEW r \in Renders, StoreKey(r) \/ StoreFeedback(r)
    PROVE  /\ render[r].stage \in {"blank", "key"}
           /\ render'[r].doc = render[r].doc /\ render'[r].late = render[r].late
           /\ render'[r].door = render[r].door
           /\ \A q \in Renders \ {r} : render'[q] = render[q]
<1>0. render \in [Renders -> RenderRows] /\ render[r] \in RenderRows
  BY DEF Shape, TypeOK
<1>1. CASE StoreKey(r)
  BY <1>0, <1>1 DEF StoreKey, RenderRows
<1>2. CASE StoreFeedback(r)
  BY <1>0, <1>2 DEF StoreFeedback, RenderRows
<1> QED
  BY <1>1, <1>2

\* What a render leaves alone until it commits, and an edit whenever it comes.
LEMMA RenderLeaves ==
    ASSUME NEW r \in Renders,
           \/ OpenSheet(r) \/ PassDoor(r) \/ BuildDocument(r) \/ StoreBlank(r)
           \/ StoreKey(r) \/ StoreFeedback(r) \/ RenderFails(r)
    PROVE  UNCHANGED <<review, sheet, placement, pinned, signedOff, paper>>
  BY DEF OpenSheet, PassDoor, BuildDocument, StoreBlank, StoreKey, StoreFeedback, RenderFails

LEMMA EditLeaves ==
    ASSUME NEW items \in ItemLists, UpdateItems(items)
    PROVE  UNCHANGED <<review, placement, store, pinned, signedOff, paper>>
  BY DEF UpdateItems

\* So does a render, whatever it stores, files or loses.
LEMMA RenderShape ==
    ASSUME Shape, NEW r \in Renders,
           \/ \E door \in Doors : QueueRender(r, door)
           \/ OpenSheet(r) \/ PassDoor(r) \/ BuildDocument(r)
           \/ StoreBlank(r) \/ StoreKey(r) \/ StoreFeedback(r)
           \/ CommitRender(r) \/ RenderFails(r)
    PROVE  Shape'
<1> USE DEF Shape
<1>a. render \in [Renders -> RenderRows] /\ render[r] \in RenderRows /\ sheet \in SheetRows
  BY DEF TypeOK
<1>b. HasDocument(r) => render[r].doc \in Documents
  BY DEF WorkHasDocument
<1>c. ASSUME NEW row \in RenderRows, render' = [render EXCEPT ![r] = row],
             row.stage \in {"built", "blank", "key", "closing"} => row.doc \in Documents,
             row.stage \in {"opened", "gated"} => row.generation < MaxGeneration
      PROVE  render' \in [Renders -> RenderRows] /\ WorkHasDocument' /\ WorkHasRoom'
  <2>1. render' \in [Renders -> RenderRows]
    BY <1>a, <1>c
  <2>2. \A q \in Renders : render'[q] = IF q = r THEN row ELSE render[q]
    BY <1>a, <1>c
  <2> QED
    BY <1>c, <2>1, <2>2 DEF WorkHasDocument, WorkHasRoom, HasDocument
<1>1. ASSUME NEW door \in Doors, QueueRender(r, door) PROVE Shape'
  <2> PICK row \in RenderRows : row.stage = "queued" /\ render' = [render EXCEPT ![r] = row]
    BY <1>1, QueueIs
  <2>1. render' \in [Renders -> RenderRows] /\ WorkHasDocument' /\ WorkHasRoom'
    BY <1>c
  <2>2. UNCHANGED <<review, sheet, placement, store, pinned, signedOff, paper, spoilt>>
    BY <1>1, QueueIs
  <2> QED
    BY <2>1, <2>2 DEF TypeOK
<1>2. CASE OpenSheet(r)
  <2> DEFINE row == [render[r] EXCEPT !.stage = "opened", !.generation = sheet.generation,
                                      !.pdf = sheet.pdf]
  <2>1. row \in RenderRows /\ row.stage = "opened" /\ row.generation < MaxGeneration
    BY <1>2, <1>a DEF OpenSheet, RenderRows, Stages, SheetRows
  <2>2. render' = [render EXCEPT ![r] = row]
    BY <1>2, <1>a DEF OpenSheet, RenderRows
  <2> HIDE DEF row
  <2>3. render' \in [Renders -> RenderRows] /\ WorkHasDocument' /\ WorkHasRoom'
    BY <1>c, <2>1, <2>2
  <2> QED
    BY <1>2, <2>3 DEF TypeOK, OpenSheet
<1>3. CASE PassDoor(r)
  <2> DEFINE row == [render[r] EXCEPT !.stage = "gated", !.gated = sheet.items]
  <2>1. row \in RenderRows /\ row.stage = "gated" /\ row.generation < MaxGeneration
    BY <1>3, <1>a DEF PassDoor, RenderRows, Stages, SheetRows, WorkHasRoom
  <2>2. render' = [render EXCEPT ![r] = row]
    BY <1>3, <1>a DEF PassDoor, RenderRows
  <2> HIDE DEF row
  <2>3. render' \in [Renders -> RenderRows] /\ WorkHasDocument' /\ WorkHasRoom'
    BY <1>c, <2>1, <2>2
  <2> QED
    BY <1>3, <2>3 DEF TypeOK, PassDoor
<1>4. CASE BuildDocument(r)
  <2> DEFINE row == [render[r] EXCEPT !.stage = "built", !.doc = Document(r)]
  <2>0. Document(r) \in Documents
    BY <1>4, DocumentIs DEF BuildDocument
  <2>1. row \in RenderRows /\ row.stage = "built" /\ row.doc \in Documents
    BY <2>0, <1>a DEF RenderRows, Stages
  <2>2. render' = [render EXCEPT ![r] = row]
    BY <1>4, <1>a DEF BuildDocument, RenderRows
  <2> HIDE DEF row
  <2>3. render' \in [Renders -> RenderRows] /\ WorkHasDocument' /\ WorkHasRoom'
    BY <1>c, <2>1, <2>2
  <2> QED
    BY <1>4, <2>3 DEF TypeOK, BuildDocument
<1>5. CASE StoreBlank(r) \/ StoreKey(r) \/ StoreFeedback(r)
  <2> PICK stage \in {"blank", "key", "closing"} :
             render' = [render EXCEPT ![r].stage = stage]
    BY <1>5 DEF StoreBlank, StoreKey, StoreFeedback
  <2> DEFINE row == [render[r] EXCEPT !.stage = stage]
  <2>0. HasDocument(r) /\ render[r].doc \in Documents /\ render[r].door \in Doors
    BY <1>5, <1>a, <1>b DEF StoreBlank, StoreKey, StoreFeedback, HasDocument, RenderRows
  <2>1. row \in RenderRows /\ row.stage = stage /\ row.doc \in Documents
    BY <2>0, <1>a DEF RenderRows, Stages
  <2>2. render' = [render EXCEPT ![r] = row]
    BY <1>a DEF RenderRows
  <2> HIDE DEF row
  <2>3. render' \in [Renders -> RenderRows] /\ WorkHasDocument' /\ WorkHasRoom'
    BY <1>c, <2>1, <2>2
  <2>4. FeedbackPages \subseteq Notes
    BY DEF FeedbackPages
  <2>5. store' \in Objects /\ spoilt' \subseteq Doors
    <3>1. CASE StoreBlank(r)
      BY <3>1, <2>0 DEF TypeOK, StoreBlank, Objects
    <3>2. CASE StoreKey(r)
      BY <3>2, <2>0 DEF TypeOK, StoreKey, Objects
    <3>3. CASE StoreFeedback(r)
      BY <3>3, <2>4 DEF TypeOK, StoreFeedback, Objects
    <3> QED
      BY <1>5, <3>1, <3>2, <3>3
  <2> QED
    BY <1>5, <2>3, <2>5 DEF TypeOK, StoreBlank, StoreKey, StoreFeedback
<1>6. CASE CommitRender(r)
  <2>1. render[r].doc \in Documents /\ render[r].door \in Doors
    BY <1>6, <1>a, <1>b DEF CommitRender, HasDocument, RenderRows
  <2>2. sheet' \in SheetRows
    BY <1>6, <1>a, <2>1 DEF CommitRender, SheetRows, Documents
  <2>3. placement' \in [Generations -> Plans \union {Nothing}]
    BY <1>6, <2>1 DEF CommitRender, TypeOK, Filed, Documents
  <2>4. render' \in [Renders -> RenderRows] /\ WorkHasDocument' /\ WorkHasRoom'
    BY <1>6, <1>c, DoneIsRow DEF CommitRender
  <2> QED
    BY <1>6, <2>2, <2>3, <2>4 DEF TypeOK, CommitRender
<1>7. CASE RenderFails(r)
  <2>4. render' \in [Renders -> RenderRows] /\ WorkHasDocument' /\ WorkHasRoom'
    BY <1>7, <1>c, DoneIsRow DEF RenderFails
  <2> QED
    BY <1>7, <2>4 DEF TypeOK, RenderFails
<1> QED
  BY <1>1, <1>2, <1>3, <1>4, <1>5, <1>6, <1>7

\* Printing takes a document of the store, an upload the generation as it is.
LEMMA PaperShape ==
    ASSUME Shape, PrintPaper \/ \E p \in Piles : UploadPile(p)
    PROVE  Shape'
<1>1. CASE PrintPaper
  BY <1>1 DEF Shape, TypeOK, WorkHasDocument, WorkHasRoom, HasDocument, PrintPaper,
              SheetRows, Objects
<1>2. CASE \E p \in Piles : UploadPile(p)
  <2>1. sheet.generation \in Generations
    BY DEF Shape, TypeOK, SheetRows
  <2> QED
    BY <1>2, <2>1 DEF Shape, TypeOK, WorkHasDocument, WorkHasRoom, HasDocument, UploadPile
<1> QED
  BY <1>1, <1>2

\* Every step keeps the shape.
LEMMA NextShape == Shape /\ [Next]_vars => Shape'
<1> SUFFICES ASSUME Shape, [Next]_vars PROVE Shape'
  OBVIOUS
<1>1. CASE UNCHANGED vars
  BY <1>1 DEF vars, Shape, TypeOK, WorkHasDocument, WorkHasRoom, HasDocument
<1>2. CASE Next
  BY <1>2, ReviewShape, BuilderShape, RenderShape, PaperShape DEF Next
<1> QED
  BY <1>1, <1>2

-----------------------------------------------------------------------------
(* The signatures                                                          *)

\* Every edit of the items writes the same list on every copy, and nothing
\* else touches either.
LEMMA NextPlan == Shape /\ PlanIsWithinItems /\ [Next]_vars => PlanIsWithinItems'
<1> SUFFICES ASSUME Shape, PlanIsWithinItems, [Next]_vars PROVE PlanIsWithinItems'
  OBVIOUS
<1> USE DEF PlanIsWithinItems
<1>0. sheet \in SheetRows
  BY DEF Shape, TypeOK
<1>1. ASSUME NEW items \in ItemLists, CreateSheet(items) PROVE PlanIsWithinItems'
  BY <1>1 DEF CreateSheet, BindInstances
<1>2. ASSUME NEW items \in ItemLists, UpdateItems(items) PROVE PlanIsWithinItems'
  BY <1>2, <1>0 DEF UpdateItems, Unrendered, SheetRows
<1>3. ASSUME NEW plan \in BatchPlans, NEW note \in BatchNotes,
             CreateAdaptiveSheet(plan, note)
      PROVE  PlanIsWithinItems'
  BY <1>3 DEF CreateAdaptiveSheet, BindInstances
<1>4. ASSUME NEW r \in Renders, CommitRender(r) PROVE PlanIsWithinItems'
  BY <1>4, <1>0 DEF CommitRender, SheetRows
<1>5. CASE PrintPaper
  BY <1>5, <1>0 DEF PrintPaper, SheetRows
<1>6. CASE UNCHANGED sheet
  BY <1>6
<1>7. ASSUME NEW r \in Renders, NEW door \in Doors, QueueRender(r, door)
      PROVE  PlanIsWithinItems'
  BY <1>6, <1>7, QueueIs
<1> QED
  BY <1>1, <1>2, <1>3, <1>4, <1>5, <1>6, <1>7, RenderLeaves
     DEF Next, vars, Approve, Discard, PatchExercise, UploadPile

\* A stamp is set together with the signature, which is never taken back.
LEMMA NextStamp ==
    Shape /\ StampIsSigned /\ [Next]_vars => StampIsSigned' /\ signedOff \subseteq signedOff'
<1> SUFFICES ASSUME Shape, StampIsSigned, [Next]_vars
             PROVE  StampIsSigned' /\ signedOff \subseteq signedOff'
  OBVIOUS
<1>0. review \in [Texts -> Reviews] /\ FromModel \union Notes \subseteq Texts
  BY PrintingAssumption DEF Shape, TypeOK, Texts
<1>1. ASSUME NEW t \in Texts, Approve(t) PROVE StampIsSigned' /\ signedOff \subseteq signedOff'
  BY <1>0, <1>1 DEF Approve, StampIsSigned, Reviews
<1>2. ASSUME NEW t \in Texts, Discard(t) PROVE StampIsSigned' /\ signedOff \subseteq signedOff'
  BY <1>0, <1>2 DEF Discard, StampIsSigned, Reviews
<1>3. ASSUME NEW e \in FromModel, NEW b \in BOOLEAN, PatchExercise(e, b)
      PROVE  StampIsSigned' /\ signedOff \subseteq signedOff'
  BY <1>0, <1>3 DEF PatchExercise, StampIsSigned, Reviews
<1>4. CASE UNCHANGED <<review, signedOff>>
  BY <1>4 DEF StampIsSigned
<1>5. ASSUME NEW r \in Renders, NEW door \in Doors, QueueRender(r, door)
      PROVE  StampIsSigned' /\ signedOff \subseteq signedOff'
  BY <1>4, <1>5, QueueIs
<1>6. ASSUME NEW items \in ItemLists, CreateSheet(items) \/ UpdateItems(items)
      PROVE  StampIsSigned' /\ signedOff \subseteq signedOff'
  BY <1>4, <1>6, EditLeaves DEF CreateSheet
<1>7. ASSUME NEW r \in Renders, CommitRender(r)
      PROVE  StampIsSigned' /\ signedOff \subseteq signedOff'
  BY <1>4, <1>7 DEF CommitRender
<1> QED
  BY <1>1, <1>2, <1>3, <1>4, <1>5, <1>6, <1>7, RenderLeaves
     DEF Next, vars, CreateAdaptiveSheet, PrintPaper, UploadPile

\* Only the builder makes a sheet of nothing, and a route refuses that one.
LEMMA NextSheet == Shape /\ NothingWithoutSheet /\ [Next]_vars => NothingWithoutSheet'
<1> SUFFICES ASSUME Shape, NothingWithoutSheet, [Next]_vars PROVE NothingWithoutSheet'
  OBVIOUS
<1> USE DEF NothingWithoutSheet
<1>0. sheet \in SheetRows /\ render \in [Renders -> RenderRows]
  BY DEF Shape, TypeOK
<1>1. ASSUME NEW items \in ItemLists, CreateSheet(items) PROVE NothingWithoutSheet'
  BY <1>1 DEF CreateSheet, BindInstances
<1>2. ASSUME NEW items \in ItemLists, UpdateItems(items) PROVE NothingWithoutSheet'
  BY <1>0, <1>2 DEF UpdateItems, Unrendered, SheetRows
<1>3. ASSUME NEW plan \in BatchPlans, NEW note \in BatchNotes,
             CreateAdaptiveSheet(plan, note)
      PROVE  NothingWithoutSheet'
  BY <1>3 DEF CreateAdaptiveSheet, BindInstances
<1>4. ASSUME NEW r \in Renders, NEW door \in Doors, QueueRender(r, door)
      PROVE  NothingWithoutSheet'
  BY <1>4 DEF QueueRender
<1>5. ASSUME NEW r \in Renders, render[r].stage # "idle",
             sheet' = sheet \/ (sheet'.kind = sheet.kind)
      PROVE  NothingWithoutSheet'
  BY <1>5
<1>6. ASSUME NEW r \in Renders, CommitRender(r) PROVE NothingWithoutSheet'
  BY <1>0, <1>5, <1>6 DEF CommitRender, SheetRows
<1>7. ASSUME NEW r \in Renders,
             \/ OpenSheet(r) \/ PassDoor(r) \/ BuildDocument(r)
             \/ StoreBlank(r) \/ StoreKey(r) \/ StoreFeedback(r) \/ RenderFails(r)
      PROVE  NothingWithoutSheet'
  BY <1>5, <1>7 DEF OpenSheet, PassDoor, BuildDocument, StoreBlank, StoreKey, StoreFeedback,
                    RenderFails
<1>8. CASE PrintPaper
  BY <1>0, <1>8 DEF PrintPaper, SheetRows
<1>9. CASE UNCHANGED <<sheet, render>>
  BY <1>9
<1> QED
  BY <1>1, <1>2, <1>3, <1>4, <1>6, <1>7, <1>8, <1>9
     DEF Next, vars, Approve, Discard, PatchExercise, UploadPile

\* What a step may leave of the renders whose items were read: a row as it
\* was, but for the mark of an edit.
LEMMA GateStep ==
    ASSUME Shape, [Next]_vars, NEW r \in Renders, render'[r].stage = "gated",
           ~PassDoor(r)
    PROVE  /\ render[r].stage = "gated" /\ render'[r].gated = render[r].gated
           /\ render'[r].late = render[r].late \/ render'[r].late
           /\ render'[r].late \/ (\A items \in ItemLists : ~UpdateItems(items))
<1>0. render \in [Renders -> RenderRows]
  BY DEF Shape, TypeOK
<1>1. ASSUME NEW items \in ItemLists, UpdateItems(items)
      PROVE  /\ render[r].stage = "gated" /\ render'[r].gated = render[r].gated
             /\ render'[r].late
  BY <1>0, <1>1 DEF UpdateItems, AtWork, RenderRows
<1>2. ASSUME NEW q \in Renders, NEW row, render' = [render EXCEPT ![q] = row],
             row.stage # "gated"
      PROVE  render'[r] = render[r]
  BY <1>0, <1>2
<1>3. ASSUME NEW q \in Renders, NEW door \in Doors, QueueRender(q, door)
      PROVE  render'[r] = render[r]
  BY <1>0, <1>3 DEF QueueRender, RenderRows
<1>4. ASSUME NEW q \in Renders,
             \/ OpenSheet(q) \/ BuildDocument(q)
             \/ StoreBlank(q) \/ StoreKey(q) \/ StoreFeedback(q)
      PROVE  render'[r] = render[r]
  BY <1>0, <1>4 DEF OpenSheet, BuildDocument, StoreBlank, StoreKey, StoreFeedback, RenderRows
<1>5. ASSUME NEW q \in Renders, CommitRender(q) \/ RenderFails(q)
      PROVE  render'[r] = render[r]
  BY <1>2, <1>5, DoneIsRow DEF CommitRender, RenderFails
<1>6. ASSUME NEW q \in Renders, PassDoor(q) PROVE render'[r] = render[r]
  BY <1>0, <1>6 DEF PassDoor
<1>7. CASE UNCHANGED render
  BY <1>1, <1>7
<1>8. CASE render'[r] = render[r]
  BY <1>1, <1>8
<1> QED
  BY <1>1, <1>3, <1>4, <1>5, <1>6, <1>7, <1>8
     DEF Next, vars, Approve, Discard, PatchExercise, CreateSheet, CreateAdaptiveSheet,
         PrintPaper, UploadPile

\* Which steps change the items of the sheet.
LEMMA ItemsStep ==
    ASSUME Shape, [Next]_vars,
           \A items \in ItemLists : ~UpdateItems(items), sheet.kind # "none"
    PROVE  sheet'.items = sheet.items /\ sheet'.plan = sheet.plan /\ sheet'.kind = sheet.kind
<1>0. sheet \in SheetRows
  BY DEF Shape, TypeOK
<1>1. ASSUME NEW r \in Renders, CommitRender(r)
      PROVE  /\ sheet'.items = sheet.items /\ sheet'.plan = sheet.plan
             /\ sheet'.kind = sheet.kind
  BY <1>0, <1>1 DEF CommitRender, SheetRows
<1>2. CASE PrintPaper
  BY <1>0, <1>2 DEF PrintPaper, SheetRows
<1>3. CASE UNCHANGED sheet
  BY <1>3
<1>4. ASSUME NEW r \in Renders, NEW door \in Doors, QueueRender(r, door)
      PROVE  UNCHANGED sheet
  BY <1>4, QueueIs
<1> QED
  BY <1>1, <1>2, <1>3, <1>4, RenderLeaves
     DEF Next, vars, Approve, Discard, PatchExercise, CreateSheet, CreateAdaptiveSheet,
         UploadPile

\* What the door lets through is signed and is what the sheet has; an edit
\* that changes the items marks whoever has read them.
LEMMA NextGate == IInv /\ [Next]_vars => GateIsSigned'
<1> SUFFICES ASSUME IInv, [Next]_vars, NEW r \in Renders, render'[r].stage = "gated"
             PROVE  /\ \A e \in render'[r].gated : e \in FromModel => e \in signedOff'
                    /\ ~render'[r].late => render'[r].gated = sheet'.items
  BY DEF GateIsSigned
<1> USE DEF IInv
<1>0. render \in [Renders -> RenderRows] /\ signedOff \subseteq signedOff'
  BY NextStamp DEF Shape, TypeOK
<1>1. CASE PassDoor(r)
  <2>1. render'[r].gated = sheet.items /\ UNCHANGED <<sheet, signedOff>>
    BY <1>0, <1>1 DEF PassDoor, RenderRows
  <2>2. \A e \in sheet.items : e \in FromModel => e \in signedOff
    BY <1>1 DEF PassDoor, IsPrintable, StampIsSigned
  <2> QED
    BY <2>1, <2>2
<1>2. CASE ~PassDoor(r)
  <2>1. render[r].stage = "gated" /\ render'[r].gated = render[r].gated
    BY <1>2, GateStep
  <2>2. \A e \in render'[r].gated : e \in FromModel => e \in signedOff'
    BY <2>1, <1>0 DEF GateIsSigned
  <2>3. ASSUME ~render'[r].late PROVE render'[r].gated = sheet'.items
    <3>1. ~render[r].late /\ \A items \in ItemLists : ~UpdateItems(items)
      BY <1>2, <2>3, GateStep
    <3>2. sheet.kind # "none"
      BY <2>1 DEF NothingWithoutSheet
    <3>3. sheet'.items = sheet.items
      BY <3>1, <3>2, ItemsStep
    <3> QED
      BY <2>1, <3>1, <3>3 DEF GateIsSigned
  <2> QED
    BY <2>2, <2>3
<1> QED
  BY <1>1, <1>2

\* The copies are within the items, and what the door saw is signed: so is a
\* document in whose making no edit has come.
LEMMA DocumentSigned ==
    ASSUME IInv, NEW r \in Renders, render[r].stage = "gated"
    PROVE  /\ Signed(Document(r))
           /\ render[r].late \/ TextsOf(Document(r)) \subseteq render[r].gated
<1> USE DEF IInv
<1>1. /\ Document(r).slipped = render[r].late
      /\ Document(r).plan = Copies(render[r].gated, sheet.plan)
  BY DEF Document
<1>2. ASSUME ~render[r].late
      PROVE  \A s \in Students : Document(r).plan[s] \subseteq render[r].gated
  BY <1>1, <1>2 DEF GateIsSigned, PlanIsWithinItems, Copies
<1> QED
  BY <1>1, <1>2 DEF Signed, GateIsSigned, TextsOf

\* Documents move from the session to the store and from the store to paper;
\* only a render that was let through makes one.
LEMMA NextDocuments == IInv /\ [Next]_vars => DocumentsAreSigned'
<1> SUFFICES ASSUME IInv, [Next]_vars PROVE DocumentsAreSigned'
  OBVIOUS
<1> USE DEF IInv, Shape
<1>a. signedOff \subseteq signedOff'
  BY NextStamp
<1>b. render \in [Renders -> RenderRows] /\ store \in Objects
  BY DEF TypeOK
<1>c. ASSUME NEW doc, Signed(doc) PROVE Signed(doc)'
  BY <1>a, <1>c DEF Signed
<1>1. ASSUME UNCHANGED <<store, paper>>,
             \A r \in Renders : HasDocument(r)' => HasDocument(r) /\ render'[r].doc = render[r].doc
      PROVE  DocumentsAreSigned'
  BY <1>1, <1>a DEF DocumentsAreSigned, Signed
<1>2. ASSUME NEW r \in Renders, BuildDocument(r) PROVE DocumentsAreSigned'
  <2>1. Signed(Document(r))
    BY <1>2, DocumentSigned DEF BuildDocument
  <2>2. render'[r].doc = Document(r) /\ UNCHANGED <<store, paper, signedOff>>
    BY <1>2, <1>b DEF BuildDocument, RenderRows
  <2>3. \A q \in Renders \ {r} : render'[q] = render[q]
    BY <1>2, <1>b DEF BuildDocument
  <2> QED
    BY <2>1, <2>2, <2>3 DEF DocumentsAreSigned, Signed, HasDocument
<1>3. ASSUME NEW r \in Renders, StoreBlank(r) \/ StoreKey(r) PROVE DocumentsAreSigned'
  <2>1. HasDocument(r) /\ Signed(render[r].doc) /\ UNCHANGED <<paper, signedOff>>
    BY <1>3 DEF StoreBlank, StoreKey, HasDocument, DocumentsAreSigned
  <2>2. \A d \in Doors : /\ store'.blank[d] \in {store.blank[d], render[r].doc}
                         /\ store'.key[d] \in {store.key[d], render[r].doc}
    BY <1>3, <1>b DEF StoreBlank, StoreKey, Objects
  <2>3. \A q \in Renders : HasDocument(q)' => HasDocument(q) /\ render'[q].doc = render[q].doc
    BY <1>3, <1>b DEF StoreBlank, StoreKey, HasDocument, RenderRows
  <2> QED
    BY <2>1, <2>2, <2>3 DEF DocumentsAreSigned, Signed
<1>4. ASSUME NEW r \in Renders, StoreFeedback(r) PROVE DocumentsAreSigned'
  <2>1. store'.blank = store.blank /\ store'.key = store.key /\ UNCHANGED <<paper, signedOff>>
    BY <1>4, <1>b DEF StoreFeedback, Objects
  <2>2. \A q \in Renders : HasDocument(q)' => HasDocument(q) /\ render'[q].doc = render[q].doc
    BY <1>4, <1>b DEF StoreFeedback, HasDocument, RenderRows
  <2> QED
    BY <2>1, <2>2 DEF DocumentsAreSigned, Signed
<1>5. CASE PrintPaper
  <2>0. sheet.pdf \in Doors
    BY <1>5 DEF PrintPaper, TypeOK, SheetRows
  <2>1. /\ paper' = paper \union {store.blank[sheet.pdf]} /\ store.blank[sheet.pdf] # Nothing
        /\ UNCHANGED <<store, render, signedOff>>
    BY <1>5 DEF PrintPaper
  <2> QED
    BY <2>0, <2>1 DEF DocumentsAreSigned, Signed, HasDocument
<1>6. ASSUME NEW r \in Renders,
             \/ CommitRender(r) \/ RenderFails(r) \/ OpenSheet(r) \/ PassDoor(r)
      PROVE  DocumentsAreSigned'
  <2>1. \A q \in Renders : HasDocument(q)' => HasDocument(q) /\ render'[q].doc = render[q].doc
    BY <1>6, ReaderIs DEF HasDocument
  <2> QED
    BY <1>1, <1>6, <2>1 DEF CommitRender, RenderFails, OpenSheet, PassDoor
<1>9. ASSUME NEW r \in Renders, NEW door \in Doors, QueueRender(r, door)
      PROVE  DocumentsAreSigned'
  <2>1. \A q \in Renders : HasDocument(q)' => HasDocument(q) /\ render'[q].doc = render[q].doc
    BY <1>9, <1>b, QueueIs DEF HasDocument
  <2> QED
    BY <1>1, <1>9, <2>1, QueueIs
<1>7. ASSUME NEW items \in ItemLists, UpdateItems(items) PROVE DocumentsAreSigned'
  <2>1. \A q \in Renders : HasDocument(q)' => HasDocument(q) /\ render'[q].doc = render[q].doc
    BY <1>7, <1>b DEF UpdateItems, HasDocument, RenderRows
  <2> QED
    BY <1>1, <1>7, <2>1 DEF UpdateItems
<1>8. CASE UNCHANGED <<render, store, paper>>
  BY <1>1, <1>8 DEF HasDocument
<1> QED
  BY <1>2, <1>3, <1>4, <1>5, <1>6, <1>7, <1>8, <1>9
     DEF Next, vars, Approve, Discard, PatchExercise, CreateSheet, CreateAdaptiveSheet,
         UploadPile

\* The feedback pages are the notes that may be printed, and no others.
LEMMA NextFeedback == IInv /\ [Next]_vars => FeedbackIsSigned'
<1> SUFFICES ASSUME IInv, [Next]_vars PROVE FeedbackIsSigned'
  OBVIOUS
<1> USE DEF IInv, Shape
<1>a. signedOff \subseteq signedOff'
  BY NextStamp
<1>b. store \in Objects
  BY DEF TypeOK
<1>1. ASSUME NEW r \in Renders, StoreFeedback(r) PROVE FeedbackIsSigned'
  <2>1. FeedbackPages \subseteq signedOff
    BY DEF FeedbackPages, IsNotePrintable, StampIsSigned
  <2>2. store'.feedback \in {store.feedback, FeedbackPages}
    BY <1>1, <1>b DEF StoreFeedback, Objects
  <2> QED
    BY <2>1, <2>2, <1>a DEF FeedbackIsSigned
<1>2. ASSUME NEW r \in Renders, StoreBlank(r) \/ StoreKey(r) PROVE FeedbackIsSigned'
  <2>1. store'.feedback = store.feedback
    BY <1>2, <1>b DEF StoreBlank, StoreKey, Objects
  <2> QED
    BY <2>1, <1>a DEF FeedbackIsSigned
<1>3. CASE UNCHANGED store
  BY <1>3, <1>a DEF FeedbackIsSigned
<1>4. ASSUME NEW r \in Renders, NEW door \in Doors, QueueRender(r, door)
      PROVE  FeedbackIsSigned'
  BY <1>3, <1>4, QueueIs
<1>5. ASSUME NEW items \in ItemLists, CreateSheet(items) \/ UpdateItems(items)
      PROVE  FeedbackIsSigned'
  BY <1>3, <1>5, EditLeaves DEF CreateSheet
<1>6. ASSUME NEW r \in Renders,
             OpenSheet(r) \/ PassDoor(r) \/ BuildDocument(r) \/ CommitRender(r) \/ RenderFails(r)
      PROVE  FeedbackIsSigned'
  BY <1>3, <1>6 DEF OpenSheet, PassDoor, BuildDocument, CommitRender, RenderFails
<1> QED
  BY <1>1, <1>2, <1>3, <1>4, <1>5, <1>6
     DEF Next, vars, Approve, Discard, PatchExercise, CreateAdaptiveSheet, PrintPaper,
         UploadPile

\* The invariant is inductive.
LEMMA NextIInv == IInv /\ [Next]_vars => IInv'
  BY NextShape, NextPlan, NextSheet, NextStamp, NextGate, NextDocuments, NextFeedback DEF IInv

\* The invariant gives the property.
LEMMA IInvIsApproved == IInv => PaperWasApproved
<1> SUFFICES ASSUME IInv, NEW doc \in Printed, ~doc.slipped, NEW t \in TextsOf(doc) \cap FromModel
             PROVE  t \in signedOff
  BY DEF PaperWasApproved, IInv, FeedbackIsSigned
<1> USE DEF IInv, Shape
<1>1. Signed(doc)
  BY DEF Printed, DocumentsAreSigned
<1> QED
  BY <1>1 DEF Signed, TextsOf

-----------------------------------------------------------------------------
\* Every row, object and job holds values of its columns (models Sheet,
\* SheetItem, SheetInstance and AnswerBoxPlacement).
THEOREM TypeCorrect == Spec => []TypeOK
<1>1. IInv => TypeOK
  BY DEF IInv, Shape
<1> QED
  BY InitIInv, NextIInv, <1>1, PTL DEF Spec

\* Nothing a model wrote is in the store or on paper that no teacher ever
\* approved, whatever is edited, discarded and rendered in between, but in a
\* document whose sheet was edited between the door and its making
\* (services/approval.py, sheets/render.py _refuse_unapproved).
THEOREM PaperApproved == Spec => []PaperWasApproved
  BY InitIInv, NextIInv, IInvIsApproved, PTL DEF Spec

\* The door is asked about the items of the sheet, and that covers what the
\* copies print; the document that is made then holds nothing else, unless the
\* items were edited in between (render.py _refuse_unapproved, build_sheet_data).
THEOREM FreshPaperClean == Spec => FreshPaperIsClean
<1> DEFINE Fresh ==
      \A r \in Renders :
         /\ render[r].stage = "opened" /\ render'[r].stage = "gated" =>
              \A s \in Students : \A e \in Copies(sheet.items, sheet.plan)[s] :
                  IsPrintable(e)
         /\ render[r].stage = "gated" /\ render'[r].stage = "built" =>
              render[r].late \/ TextsOf(render'[r].doc) \subseteq render[r].gated
<1>1. ASSUME IInv, Next, NEW r \in Renders,
             render[r].stage = "opened", render'[r].stage = "gated"
      PROVE  \A s \in Students : \A e \in Copies(sheet.items, sheet.plan)[s] : IsPrintable(e)
  <2>1. PassDoor(r)
    BY <1>1, GateStep DEF IInv
  <2> QED
    BY <1>1, <2>1 DEF PassDoor, IInv, PlanIsWithinItems, Copies
<1>2. ASSUME IInv, Next, NEW r \in Renders,
             render[r].stage = "gated", render'[r].stage = "built"
      PROVE  render[r].late \/ TextsOf(render'[r].doc) \subseteq render[r].gated
  <2>0. render \in [Renders -> RenderRows]
    BY <1>1, <1>2 DEF IInv, Shape, TypeOK
  <2>1. CASE BuildDocument(r)
    <3>1. render'[r].doc = Document(r)
      BY <2>0, <2>1 DEF BuildDocument, RenderRows
    <3> QED
      BY <1>2, <3>1, DocumentSigned
  <2>2. ASSUME NEW q \in Renders,
               \/ OpenSheet(q) \/ PassDoor(q)
               \/ StoreBlank(q) \/ StoreKey(q) \/ StoreFeedback(q)
               \/ CommitRender(q) \/ RenderFails(q)
        PROVE  FALSE
    BY <1>2, <2>0, <2>2, DoneIsRow
       DEF OpenSheet, PassDoor, StoreBlank, StoreKey, StoreFeedback, CommitRender,
           RenderFails, RenderRows
  <2>6. ASSUME NEW q \in Renders, NEW door \in Doors, QueueRender(q, door) PROVE FALSE
    BY <1>2, <2>0, <2>6, QueueIs DEF IInv
  <2>3. ASSUME NEW q \in Renders, q # r, BuildDocument(q) PROVE FALSE
    BY <1>2, <2>0, <2>3 DEF BuildDocument
  <2>4. ASSUME NEW items \in ItemLists, UpdateItems(items) PROVE FALSE
    BY <1>2, <2>0, <2>4 DEF UpdateItems, RenderRows
  <2>5. CASE UNCHANGED render
    BY <1>2, <2>5
  <2> QED
    BY <1>2, <2>1, <2>2, <2>3, <2>4, <2>5, <2>6
       DEF Next, Approve, Discard, PatchExercise, CreateSheet, CreateAdaptiveSheet, PrintPaper,
           UploadPile
<1>3. IInv /\ [Next]_vars => [Fresh]_vars
  BY <1>1, <1>2
<1>4. Spec => [][Fresh]_vars
  BY InitIInv, NextIInv, <1>3, PTL DEF Spec
<1> QED
  BY <1>4 DEF FreshPaperIsClean, Fresh

-----------------------------------------------------------------------------
(* The rectangles and the download                                         *)

\* A document has a plan, which is not nothing.
LEMMA PlanIsSomething == ASSUME NEW doc \in Documents PROVE doc.plan # Nothing
  BY PrintingAssumption DEF Documents, Plans

\* A render files its rectangles under its own generation and leaves the
\* others; a pile pins the generation the sheet is at.
LEMMA NextRectangles == Shape /\ RectanglesAreKept /\ [Next]_vars => RectanglesAreKept'
<1> SUFFICES ASSUME Shape, RectanglesAreKept, [Next]_vars PROVE RectanglesAreKept'
  OBVIOUS
<1> USE DEF Shape
<1>0. /\ sheet \in SheetRows
      /\ placement \in [Generations -> Plans \union {Nothing}]
      /\ pinned \in [Piles -> Generations \union {Nothing}]
  BY DEF TypeOK
<1>1. ASSUME NEW r \in Renders, CommitRender(r) PROVE RectanglesAreKept'
  <2> DEFINE doc == render[r].doc
  <2>1. doc \in Documents
    BY <1>1, PrintingAssumption DEF CommitRender, WorkHasDocument, HasDocument
  <2>2. doc.plan # Nothing
    BY <2>1, PlanIsSomething
  <2>3. sheet'.generation = doc.generation /\ doc.generation \in Generations
    BY <1>1, <1>0, <2>1 DEF CommitRender, SheetRows, Documents
  <2>4. \A g \in Generations :
           placement'[g] = IF g = doc.generation THEN doc.plan ELSE placement[g]
    BY <1>1, <1>0 DEF CommitRender, Filed
  <2> QED
    BY <1>0, <1>1, <2>2, <2>3, <2>4 DEF CommitRender, RectanglesAreKept
<1>2. ASSUME NEW p \in Piles, UploadPile(p) PROVE RectanglesAreKept'
  <2>1. sheet.generation \in Nat
    BY <1>0, PrintingAssumption DEF SheetRows, Generations
  <2> QED
    BY <1>0, <1>2, <2>1 DEF UploadPile, RectanglesAreKept
<1>3. ASSUME UNCHANGED <<placement, pinned>>, sheet'.generation \in {0, sheet.generation}
      PROVE  RectanglesAreKept'
  BY <1>3 DEF RectanglesAreKept
<1>4. ASSUME NEW items \in ItemLists, CreateSheet(items) \/ UpdateItems(items)
      PROVE  RectanglesAreKept'
  <2>1. CASE CreateSheet(items)
    BY <1>3, <2>1 DEF CreateSheet, BindInstances
  <2>2. CASE UpdateItems(items)
    <3>1. sheet'.generation = sheet.generation
      BY <1>0, <2>2 DEF UpdateItems, Unrendered, SheetRows
    <3> QED
      BY <1>3, <2>2, <3>1 DEF UpdateItems
  <2> QED
    BY <1>4, <2>1, <2>2
<1>5. ASSUME NEW plan \in BatchPlans, NEW note \in BatchNotes,
             CreateAdaptiveSheet(plan, note)
      PROVE  RectanglesAreKept'
  BY <1>3, <1>5 DEF CreateAdaptiveSheet, BindInstances
<1>6. CASE PrintPaper
  BY <1>0, <1>3, <1>6 DEF PrintPaper, SheetRows
<1>7. CASE UNCHANGED <<sheet, placement, pinned>>
  BY <1>3, <1>7
<1>8. ASSUME NEW r \in Renders, NEW door \in Doors, QueueRender(r, door)
      PROVE  RectanglesAreKept'
  BY <1>7, <1>8, QueueIs
<1> QED
  BY <1>1, <1>2, <1>4, <1>5, <1>6, <1>7, <1>8, RenderLeaves
     DEF Next, vars, Approve, Discard, PatchExercise

Today == Copies(sheet.items, sheet.plan)

\* A document no edit has overtaken is of what the sheet has now.
WorkIsCurrent ==
    \A r \in Renders : HasDocument(r) /\ ~render[r].late => render[r].doc.plan = Today

HasStored(r) == render[r].stage \in {"blank", "key", "closing"}

\* An object that the download names, or that a render is about to name, is
\* of what the sheet has now, unless it is spoilt.
StoredIsCurrent ==
    \A d \in Doors \ spoilt :
        (sheet.pdf = d \/ \E r \in Renders : HasStored(r) /\ render[r].door = d) =>
            store.blank[d] # Nothing /\ store.blank[d].plan = Today

Currency == WorkIsCurrent /\ StoredIsCurrent

\* An edit marks every render at work, and takes the download back.
LEMMA NextCurrency == IInv /\ Currency /\ [Next]_vars => Currency'
<1> SUFFICES ASSUME IInv, Currency, [Next]_vars PROVE Currency'
  OBVIOUS
<1> USE DEF IInv, Shape, Currency
<1>0. /\ sheet \in SheetRows
      /\ render \in [Renders -> RenderRows]
      /\ store \in Objects
      /\ spoilt \subseteq Doors
  BY DEF TypeOK
<1>a. ASSUME NEW doc \in Documents PROVE doc # Nothing
  <2>1. doc \in [generation : Nat, plan : [Students -> SUBSET Exercises], slipped : BOOLEAN]
    BY PrintingAssumption DEF Documents, Generations, Plans
  <2> QED
    BY <2>1, PrintingAssumption
<1>b. Nothing \notin Doors
  BY PrintingAssumption
<1>1. ASSUME sheet'.items = sheet.items, sheet'.plan = sheet.plan, UNCHANGED <<spoilt>>,
             store'.blank = store.blank,
             \A r \in Renders : HasDocument(r)' => /\ HasDocument(r)
                                                   /\ render'[r].doc = render[r].doc
                                                   /\ render'[r].late = render[r].late,
             \A r \in Renders : HasStored(r)' => /\ HasStored(r)
                                                 /\ render'[r].door = render[r].door,
             \/ sheet'.pdf \in {sheet.pdf, Nothing}
             \/ \E r \in Renders : HasStored(r) /\ render[r].door = sheet'.pdf
      PROVE  Currency'
  <2>1. Today' = Today
    BY <1>1 DEF Today
  <2>3. WorkIsCurrent'
    BY <1>1, <2>1 DEF WorkIsCurrent
  <2>4. ASSUME NEW d \in Doors,
               sheet'.pdf = d \/ \E r \in Renders : HasStored(r)' /\ render'[r].door = d
        PROVE  sheet.pdf = d \/ \E r \in Renders : HasStored(r) /\ render[r].door = d
    BY <1>1, <1>b, <2>4
  <2> HIDE DEF Currency
  <2>5. StoredIsCurrent
    BY DEF Currency
  <2>6. StoredIsCurrent'
    BY <1>1, <2>1, <2>4, <2>5 DEF StoredIsCurrent
  <2> QED
    BY <2>3, <2>6 DEF Currency
<1>2. ASSUME NEW r \in Renders, BuildDocument(r) PROVE Currency'
  <2>1. /\ \A q \in Renders \ {r} : render'[q] = render[q]
        /\ render'[r] = [render[r] EXCEPT !.stage = "built", !.doc = Document(r)]
        /\ UNCHANGED <<sheet, store, spoilt>>
    BY <1>0, <1>2 DEF BuildDocument, RenderRows
  <2>2. ~HasStored(r)' /\ Today' = Today
    BY <1>0, <2>1 DEF HasStored, RenderRows, Today
  <2>3. ~render'[r].late => render'[r].doc.plan = Today
    BY <1>0, <1>2, <2>1 DEF Document, Today, GateIsSigned, RenderRows, BuildDocument
  <2>4. WorkIsCurrent'
    BY <2>1, <2>2, <2>3 DEF WorkIsCurrent, HasDocument
  <2>5. \A q \in Renders : HasStored(q)' => HasStored(q) /\ render'[q].door = render[q].door
    BY <2>1, <2>2 DEF HasStored
  <2>6. spoilt' = spoilt /\ sheet' = sheet /\ store' = store /\ Today' = Today
    BY <2>1, <2>2
  <2> HIDE DEF Currency, HasStored, Today
  <2>7. StoredIsCurrent
    BY DEF Currency
  <2>8. StoredIsCurrent'
    BY <2>5, <2>6, <2>7 DEF StoredIsCurrent
  <2> QED
    BY <2>4, <2>8 DEF Currency
<1>3. ASSUME NEW r \in Renders, StoreBlank(r) PROVE Currency'
  <2> DEFINE door == render[r].door
  <2>1. /\ \A q \in Renders \ {r} : render'[q] = render[q]
        /\ render'[r].late = render[r].late /\ render'[r].doc = render[r].doc
        /\ render'[r].door = door /\ HasDocument(r) /\ UNCHANGED sheet
        /\ Today' = Today /\ door \in Doors /\ render[r].doc \in Documents
    BY <1>0, <1>3 DEF StoreBlank, RenderRows, HasDocument, Today, WorkHasDocument
  <2>2. WorkIsCurrent'
    BY <2>1 DEF WorkIsCurrent, HasDocument
  <2>3. \A d \in Doors \ {door} : store'.blank[d] = store.blank[d] /\ (d \in spoilt' <=> d \in spoilt)
    BY <1>0, <1>3 DEF StoreBlank, Objects
  <2>4. door \notin spoilt' => store'.blank[door] = render[r].doc /\ ~render[r].late
    BY <1>0, <1>3, <2>1 DEF StoreBlank, Objects
  <2>5. ASSUME NEW d \in Doors \ {door},
               sheet'.pdf = d \/ \E q \in Renders : HasStored(q)' /\ render'[q].door = d
        PROVE  sheet.pdf = d \/ \E q \in Renders : HasStored(q) /\ render[q].door = d
    BY <2>1, <2>5 DEF HasStored
  <2>6. door \notin spoilt' => store'.blank[door] # Nothing /\ store'.blank[door].plan = Today
    BY <1>a, <2>1, <2>4 DEF WorkIsCurrent
  <2> HIDE DEF door
  <2>7. StoredIsCurrent'
    BY <2>1, <2>3, <2>5, <2>6 DEF StoredIsCurrent
  <2> QED
    BY <2>2, <2>7
<1>4. ASSUME NEW r \in Renders,
             OpenSheet(r) \/ PassDoor(r) \/ StoreKey(r) \/ StoreFeedback(r) \/ RenderFails(r)
      PROVE  Currency'
  <2>1. \A q \in Renders : HasDocument(q)' => /\ HasDocument(q)
                                              /\ render'[q].doc = render[q].doc
                                              /\ render'[q].late = render[q].late
    BY <1>4, ReaderIs, StorerIs DEF HasDocument
  <2>2. \A q \in Renders : HasStored(q)' => HasStored(q) /\ render'[q].door = render[q].door
    BY <1>4, ReaderIs, StorerIs DEF HasStored
  <2>3. store'.blank = store.blank /\ UNCHANGED <<sheet, spoilt>>
    BY <1>0, <1>4
       DEF OpenSheet, PassDoor, StoreKey, StoreFeedback, RenderFails, Objects
  <2> QED
    BY <1>1, <2>1, <2>2, <2>3
<1>12. ASSUME NEW r \in Renders, NEW door \in Doors, QueueRender(r, door) PROVE Currency'
  <2>1. \A q \in Renders : HasDocument(q)' => HasDocument(q) /\ render'[q] = render[q]
    BY <1>0, <1>12, QueueIs DEF HasDocument
  <2>2. \A q \in Renders : HasStored(q)' => HasStored(q) /\ render'[q] = render[q]
    BY <1>0, <1>12, QueueIs DEF HasStored
  <2>3. UNCHANGED <<sheet, store, spoilt>>
    BY <1>12, QueueIs
  <2> QED
    BY <1>1, <2>1, <2>2, <2>3
<1>5. ASSUME NEW r \in Renders, CommitRender(r) PROVE Currency'
  <2>1. \A q \in Renders : HasDocument(q)' => HasDocument(q) /\ render'[q] = render[q]
    BY <1>0, <1>5, DoneIsRow DEF CommitRender, HasDocument
  <2>2. \A q \in Renders : HasStored(q)' => HasStored(q) /\ render'[q] = render[q]
    BY <1>0, <1>5, DoneIsRow DEF CommitRender, HasStored
  <2>3. /\ sheet'.items = sheet.items /\ sheet'.plan = sheet.plan
        /\ sheet'.pdf = sheet.pdf \/ sheet'.pdf = render[r].door
        /\ HasStored(r) /\ UNCHANGED <<store, spoilt>>
    BY <1>0, <1>5 DEF CommitRender, SheetRows, HasStored
  <2> QED
    BY <1>1, <2>1, <2>2, <2>3
<1>6. ASSUME sheet.kind = "none", sheet'.pdf = Nothing, UNCHANGED render
      PROVE  Currency'
  BY <1>b, <1>6
     DEF NothingWithoutSheet, WorkIsCurrent, StoredIsCurrent, HasDocument, HasStored
<1>7. ASSUME NEW items \in ItemLists, CreateSheet(items) PROVE Currency'
  BY <1>6, <1>7 DEF CreateSheet, BindInstances
<1>8. ASSUME NEW plan \in BatchPlans, NEW note \in BatchNotes,
             CreateAdaptiveSheet(plan, note)
      PROVE  Currency'
  BY <1>6, <1>8 DEF CreateAdaptiveSheet, BindInstances
<1>9. ASSUME NEW items \in ItemLists, UpdateItems(items) PROVE Currency'
  <2>1. sheet'.pdf = Nothing
    BY <1>0, <1>9 DEF UpdateItems, Unrendered, SheetRows
  <2>2. \A q \in Renders : HasDocument(q)' => render'[q].late
    BY <1>0, <1>9 DEF UpdateItems, AtWork, HasDocument, RenderRows
  <2>3. \A q \in Renders : HasStored(q)' => render'[q].door \in spoilt'
    BY <1>0, <1>9 DEF UpdateItems, AtWork, HasStored, RenderRows
  <2> QED
    BY <1>b, <2>1, <2>2, <2>3 DEF WorkIsCurrent, StoredIsCurrent
<1>10. CASE PrintPaper
  <2>1. /\ sheet'.items = sheet.items /\ sheet'.plan = sheet.plan /\ sheet'.pdf = sheet.pdf
        /\ UNCHANGED <<store, render, spoilt>>
    BY <1>0, <1>10 DEF PrintPaper, SheetRows
  <2> QED
    BY <1>1, <2>1 DEF HasDocument, HasStored
<1>11. CASE UNCHANGED <<sheet, store, render, spoilt>>
  BY <1>1, <1>11 DEF HasDocument, HasStored
<1> QED
  BY <1>2, <1>3, <1>4, <1>5, <1>7, <1>8, <1>9, <1>10, <1>11, <1>12
     DEF Next, vars, Approve, Discard, PatchExercise, UploadPile

\* The generation a sheet is at, and the one a pile pinned, keep their
\* rectangles (sheets/render.py _persist_answer_box_placements).
THEOREM RectanglesKept == Spec => []RectanglesAreKept
<1>1. Init => RectanglesAreKept
  BY DEF Init, NoSheet, RectanglesAreKept
<1>2. Init => Shape
  BY InitIInv DEF IInv
<1> QED
  BY <1>1, <1>2, NextShape, NextRectangles, PTL DEF Spec

\* The object the download names shows, copy by copy, what the sheet has now,
\* unless a render overtaken by an edit put it there or the store refused it
\* (services/sheet_service.py update_sheet, sheets/render.py store_pdf).
THEOREM DownloadIsCurrent == Spec => []StaleOnlyIfOvertaken
<1>1. Init => Currency
  BY PrintingAssumption
     DEF Init, NoSheet, NoRender, Currency, WorkIsCurrent, StoredIsCurrent, HasDocument,
         HasStored
<1>2. IInv /\ Currency => StaleOnlyIfOvertaken
  BY DEF IInv, Shape, TypeOK, SheetRows, Currency, StoredIsCurrent, StaleOnlyIfOvertaken, Today
<1> QED
  BY <1>1, <1>2, InitIInv, NextIInv, NextCurrency, PTL DEF Spec

=============================================================================
