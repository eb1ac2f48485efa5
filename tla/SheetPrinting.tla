--------------------------- MODULE SheetPrinting ---------------------------
(***************************************************************************)
(* One sheet from the builder to the paper: services/sheet_service.py,     *)
(* services/approval.py and sheets/render.py, with the routes and the task *)
(* that call them.                                                         *)
(*                                                                         *)
(* A request is one transaction and is one action.  A render is a job that *)
(* takes minutes: it reads the sheet's row, then its items, then its       *)
(* copies, each as it stands committed at that moment (READ COMMITTED),    *)
(* drives a browser, puts objects in the store, which no transaction       *)
(* covers, and commits at the end; every request may fall between those    *)
(* steps, and so may another render of the same sheet.  The object keys    *)
(* carry no generation.                                                    *)
(***************************************************************************)
EXTENDS Naturals, FiniteSets

CONSTANTS
    Exercises,    \* the corpus
    FromModel,    \* those whose origin is AI_GENERATED
    Notes,        \* the feedback notes, all written by a model
    Students,     \* the roster
    ItemLists,    \* the item lists a teacher may give a class sheet
    BatchPlans,   \* the differentiated plans a teacher may ask for
    BatchNotes,   \* and the notes to go with the copies
    Renders,      \* the render jobs of the sheet
    Piles,        \* the piles photographed against it
    MaxGeneration, \* bound: render generations
    Nothing       \* no document, no note, no value yet

\* The two routes that render, each with its own task and its own object keys.
Doors == {"sheet", "batch"}

ASSUME PrintingAssumption ==
    /\ FromModel \subseteq Exercises
    /\ Notes \cap Exercises = {}
    /\ ItemLists \subseteq SUBSET Exercises
    /\ BatchPlans \subseteq [Students -> SUBSET Exercises]
    /\ BatchNotes \subseteq [Students -> Notes \union {Nothing}]
    /\ MaxGeneration \in Nat
    /\ Nothing \notin Notes \union Nat \union Doors
    /\ Nothing \notin [Students -> SUBSET Exercises]
    /\ Nothing \notin [generation : Nat, plan : [Students -> SUBSET Exercises],
                        slipped : BOOLEAN]

Texts == Exercises \union Notes
Generations == 0 .. MaxGeneration
Plans == [Students -> SUBSET Exercises]

\* What comes off the printer: the items of every copy, and the generation
\* that is half of the nonce in its UID grid. slipped (history): the items of
\* the sheet were edited after the door had looked at them and before this
\* document was made.
Documents == [generation : Generations, plan : Plans, slipped : BOOLEAN]

VARIABLES
    review,    \* review[t]: approved_at and discarded_at of a text
    sheet,     \* the sheet row, its items and its instances
    placement, \* placement[g]: the answer-box rows filed under generation g
    store,     \* the objects under the keys of the sheet
    render,    \* render[r]: how far a render job is, and what it read
    pinned,    \* pinned[p]: the render_generation a pile recorded at upload
    signedOff, \* history: the texts a teacher has ever approved
    paper,     \* history: what has been printed for the pupils
    spoilt     \* history: the routes whose object is not what was meant for it

vars == <<review, sheet, placement, store, render, pinned,
          signedOff, paper, spoilt>>

-----------------------------------------------------------------------------
(* The rows                                                                *)

Kinds == {"none", "class", "batch"}
SheetRows == [kind : Kinds, items : SUBSET Exercises, plan : Plans,
              note : [Students -> Notes \union {Nothing}],
              generation : Generations, pdf : Doors \union {Nothing},
              rendered : BOOLEAN, printed : BOOLEAN]

NoSheet == [kind |-> "none", items |-> {}, plan |-> [s \in Students |-> {}],
            note |-> [s \in Students |-> Nothing], generation |-> 0,
            pdf |-> Nothing, rendered |-> FALSE, printed |-> FALSE]

Reviews == [approved : BOOLEAN, discarded : BOOLEAN]

Objects == [blank : [Doors -> Documents \union {Nothing}],
            key : [Doors -> Documents \union {Nothing}],
            feedback : SUBSET Notes]

\* door: the route that queued it; generation and pdf: of the sheet's row as
\* the session loaded it; gated: the items the last door was asked about;
\* doc: the SheetData; late (history): an edit came after the items were read.
Stages == {"idle", "queued", "opened", "gated", "built", "blank", "key",
           "closing", "done"}
RenderRows == [stage : Stages, door : Doors, generation : Generations,
               pdf : Doors \union {Nothing}, gated : SUBSET Exercises,
               doc : Documents \union {Nothing}, late : BOOLEAN]
NoRender == [stage |-> "idle", door |-> "sheet", generation |-> 0,
             pdf |-> Nothing, gated |-> {}, doc |-> Nothing, late |-> FALSE]
Done == [NoRender EXCEPT !.stage = "done"]

\* The items were read, and the render has not ended.
AtWork(r) == render[r].stage \in {"gated", "built", "blank", "key", "closing"}

Init ==
    /\ review = [t \in Texts |->
                   [approved |-> t \in Exercises \ FromModel,
                    discarded |-> FALSE]]
    /\ sheet = NoSheet
    /\ placement = [g \in Generations |-> Nothing]
    /\ store = [blank |-> [d \in Doors |-> Nothing],
                key |-> [d \in Doors |-> Nothing], feedback |-> {}]
    /\ render = [r \in Renders |-> NoRender]
    /\ pinned = [p \in Piles |-> Nothing]
    /\ signedOff = {} /\ paper = {} /\ spoilt = {}

-----------------------------------------------------------------------------
(* The approval gate                                                       *)

\* Faulty variant: a text is refused only once it was thrown away.
OnlyNotThrownAway(e) == e \in FromModel => ~review[e].discarded

\* An item a model wrote prints once approved, unless it was thrown away; the
\* book's and the teacher's own items pass on their origin.
IsPrintable(e) ==
    e \in FromModel => review[e].approved /\ ~review[e].discarded

IsNotePrintable(n) == review[n].approved /\ ~review[n].discarded

\* Approving and discarding touch only what a model wrote, and a discarded
\* text is not approved again.
Approve(t) ==
    /\ t \in FromModel \union Notes
    /\ ~review[t].discarded
    /\ review' = [review EXCEPT ![t] = [approved |-> TRUE,
                                        discarded |-> FALSE]]
    /\ signedOff' = signedOff \union {t}
    /\ UNCHANGED <<sheet, placement, store, render, pinned, paper, spoilt>>

Discard(t) ==
    /\ t \in FromModel \union Notes
    /\ review' = [review EXCEPT ![t] = [approved |-> FALSE,
                                        discarded |-> TRUE]]
    /\ UNCHANGED <<sheet, placement, store, render, pinned, signedOff, paper,
                   spoilt>>

\* PATCH /exercises sets or clears the stamp of any exercise, also of one
\* that was discarded.
PatchExercise(e, approved) ==
    /\ review' = [review EXCEPT ![e].approved = approved]
    /\ signedOff' = IF approved THEN signedOff \union {e} ELSE signedOff
    /\ UNCHANGED <<sheet, placement, store, render, pinned, paper, spoilt>>

-----------------------------------------------------------------------------
(* The builder                                                             *)

BindInstances(items, plan, note, kind) ==
    sheet' = [kind |-> kind, items |-> items, plan |-> plan, note |-> note,
              generation |-> 0, pdf |-> Nothing, rendered |-> FALSE,
              printed |-> FALSE]

\* Nothing is asked of the items of a class sheet when it is built.
CreateSheet(items) ==
    /\ sheet.kind = "none" /\ items # {}
    /\ BindInstances(items, [s \in Students |-> items], NoSheet.note, "class")
    /\ UNCHANGED <<review, placement, store, render, pinned, signedOff, paper,
                   spoilt>>

\* The first door: a batch is not built of texts nobody has approved.
CreateAdaptiveSheet(plan, note) ==
    LET union == UNION {plan[s] : s \in Students}
        bound == {note[s] : s \in Students} \ {Nothing}
    IN /\ sheet.kind = "none"
       /\ \A e \in union : IsPrintable(e)
       /\ \A n \in bound : IsNotePrintable(n)
       /\ BindInstances(union, plan, note, "batch")
       /\ UNCHANGED <<review, placement, store, render, pinned, signedOff,
                      paper, spoilt>>

\* Faulty variant: an edit leaves the row saying that it was rendered.
StillRendered(row) == row

\* What an edit forgets of the last render. The generation stays.
Unrendered(row) == [row EXCEPT !.pdf = Nothing, !.rendered = FALSE]

\* PATCH of the items: the list is replaced, every copy gets it, and the
\* render is forgotten.
UpdateItems(items) ==
    /\ sheet.kind # "none"
    /\ sheet' = [Unrendered(sheet) EXCEPT !.items = items,
                                          !.plan = [s \in Students |-> items]]
    /\ render' = [r \in Renders |->
                    IF AtWork(r) THEN [render[r] EXCEPT !.late = TRUE]
                    ELSE render[r]]
    /\ spoilt' = spoilt \union
         {render[r].door : r \in {q \in Renders :
                                   render[q].stage \in {"blank", "key", "closing"}}}
    /\ UNCHANGED <<review, placement, store, pinned, signedOff, paper>>

-----------------------------------------------------------------------------
(* A render                                                                *)

\* POST /sheets/{id}/render takes any sheet with items on it, POST
\* /adaptive/batch/{id}/render any sheet with copies.
QueueRender(r, door) ==
    /\ render[r].stage = "idle"
    /\ IF door = "sheet" THEN sheet.items # {} ELSE sheet.kind # "none"
    /\ render' = [render EXCEPT ![r] = [@ EXCEPT !.stage = "queued", !.door = door]]
    /\ UNCHANGED <<review, sheet, placement, store, pinned, signedOff, paper,
                   spoilt>>

\* The sheet's row is loaded once; what the session will compare with at the
\* commit is what it says now.
OpenSheet(r) ==
    /\ render[r].stage = "queued"
    /\ sheet.generation < MaxGeneration
    /\ render' = [render EXCEPT
         ![r] = [@ EXCEPT !.stage = "opened", !.generation = sheet.generation,
                          !.pdf = sheet.pdf]]
    /\ UNCHANGED <<review, sheet, placement, store, pinned, signedOff, paper,
                   spoilt>>

\* The last door loads the items of the sheet: nothing unapproved among them.
PassDoor(r) ==
    /\ render[r].stage = "opened"
    /\ \A e \in sheet.items : IsPrintable(e)
    /\ render' = [render EXCEPT
         ![r] = [@ EXCEPT !.stage = "gated", !.gated = sheet.items]]
    /\ UNCHANGED <<review, sheet, placement, store, pinned, signedOff, paper,
                   spoilt>>

\* A copy without a plan of its own prints the items of the sheet.
Copies(items, plan) ==
    [s \in Students |-> IF plan[s] = {} THEN items ELSE plan[s]]

Document(r) ==
    [generation |-> render[r].generation + 1,
     plan |-> Copies(render[r].gated, sheet.plan),
     slipped |-> render[r].late]

\* The pictures of the items are fetched, and only then are the copies loaded,
\* with the plans they have by now. A sheet without an item is refused.
BuildDocument(r) ==
    /\ render[r].stage = "gated"
    /\ \E s \in Students : Document(r).plan[s] # {}
    /\ render' = [render EXCEPT
         ![r] = [@ EXCEPT !.stage = "built", !.doc = Document(r)]]
    /\ UNCHANGED <<review, sheet, placement, store, pinned, signedOff, paper,
                   spoilt>>

\* Both documents are made before either is stored. An object the store
\* refuses goes to the worker's disk, and the key is returned all the same.
StoreBlank(r) ==
    LET door == render[r].door IN
    /\ render[r].stage = "built"
    /\ render' = [render EXCEPT ![r].stage = "blank"]
    /\ \/ /\ store' = [store EXCEPT !.blank[door] = render[r].doc]
          /\ spoilt' = IF render[r].late THEN spoilt \union {door}
                       ELSE spoilt \ {door}
       \/ /\ spoilt' = spoilt \union {door}
          /\ UNCHANGED store
    /\ UNCHANGED <<review, sheet, placement, pinned, signedOff, paper>>

StoreKey(r) ==
    /\ render[r].stage = "blank"
    /\ render' = [render EXCEPT ![r].stage = "key"]
    /\ store' \in {[store EXCEPT !.key[render[r].door] = render[r].doc], store}
    /\ UNCHANGED <<review, sheet, placement, pinned, signedOff, paper,
                   spoilt>>

\* The feedback pages of a batch: the notes of its copies, as they stand now.
FeedbackPages ==
    {n \in Notes : IsNotePrintable(n) /\ \E s \in Students : sheet.note[s] = n}

StoreFeedback(r) ==
    /\ render[r].stage = "key" /\ render[r].door = "batch"
    /\ render' = [render EXCEPT ![r].stage = "closing"]
    /\ store' \in {store, IF FeedbackPages = {} THEN store
                          ELSE [store EXCEPT !.feedback = FeedbackPages]}
    /\ UNCHANGED <<review, sheet, placement, pinned, signedOff, paper,
                   spoilt>>

\* The rows of this generation are replaced, those of the others stay.
Filed(doc) == [placement EXCEPT ![doc.generation] = doc.plan]

\* The stamp, the placements of this generation, and the commit. A column
\* whose value in the session does not change is not written: a sheet whose key
\* was this one when the row was loaded stays as an edit left it.
CommitRender(r) ==
    LET doc == render[r].doc
    IN /\ \/ render[r].stage = "key" /\ render[r].door = "sheet"
          \/ render[r].stage = "closing"
       /\ sheet' = [sheet EXCEPT
            !.generation = doc.generation,
            !.pdf = IF render[r].pdf = render[r].door THEN sheet.pdf
                    ELSE render[r].door,
            !.rendered = TRUE]
       /\ placement' = Filed(doc)
       /\ render' = [render EXCEPT ![r] = Done]
       /\ UNCHANGED <<review, store, pinned, signedOff, paper, spoilt>>

\* The gate, the browser, or the worker itself: the session is rolled back,
\* the objects already stored stay.
RenderFails(r) ==
    /\ render[r].stage \notin {"idle", "done"}
    /\ render' = [render EXCEPT ![r] = Done]
    /\ UNCHANGED <<review, sheet, placement, store, pinned, signedOff, paper,
                   spoilt>>

-----------------------------------------------------------------------------
(* Paper                                                                   *)

\* The download: whatever object the key names at that moment.
PrintPaper ==
    /\ sheet.pdf # Nothing /\ store.blank[sheet.pdf] # Nothing
    /\ paper' = paper \union {store.blank[sheet.pdf]}
    /\ sheet' = [sheet EXCEPT !.printed = TRUE]
    /\ UNCHANGED <<review, placement, store, render, pinned, signedOff,
                   spoilt>>

\* The upload pins the generation of the sheet as it is now.
UploadPile(p) ==
    /\ pinned[p] = Nothing /\ paper # {}
    /\ pinned' = [pinned EXCEPT ![p] = sheet.generation]
    /\ UNCHANGED <<review, sheet, placement, store, render, signedOff, paper,
                   spoilt>>

Next ==
    \/ \E t \in Texts : Approve(t) \/ Discard(t)
    \/ \E e \in FromModel, b \in BOOLEAN : PatchExercise(e, b)
    \/ \E items \in ItemLists : CreateSheet(items) \/ UpdateItems(items)
    \/ \E plan \in BatchPlans, note \in BatchNotes : CreateAdaptiveSheet(plan, note)
    \/ \E r \in Renders :
          \/ \E door \in Doors : QueueRender(r, door)
          \/ OpenSheet(r) \/ PassDoor(r) \/ BuildDocument(r)
          \/ StoreBlank(r) \/ StoreKey(r) \/ StoreFeedback(r)
          \/ CommitRender(r) \/ RenderFails(r)
    \/ PrintPaper
    \/ \E p \in Piles : UploadPile(p)

Spec == Init /\ [][Next]_vars

-----------------------------------------------------------------------------
(* Properties                                                              *)

\* Every row, object and job holds values of its columns.
TypeOK ==
    /\ review \in [Texts -> Reviews]
    /\ sheet \in SheetRows
    /\ placement \in [Generations -> Plans \union {Nothing}]
    /\ store \in Objects
    /\ render \in [Renders -> RenderRows]
    /\ pinned \in [Piles -> Generations \union {Nothing}]
    /\ signedOff \subseteq Texts
    /\ paper \subseteq Documents
    /\ spoilt \subseteq Doors

TextsOf(doc) == UNION {doc.plan[s] : s \in Students}

\* The documents printed, and those that wait in the store.
Printed ==
    (paper \union {store.blank[d] : d \in Doors} \union {store.key[d] : d \in Doors})
    \ {Nothing}

\* Nothing a model wrote is in the object store or on paper that no teacher
\* ever approved: through edits that add any item, renders that overlap them,
\* stamps cleared and discards in between. Only a document whose sheet was
\* edited between the door and its making may hold such a text: the last door,
\* "the one that has to be locked" (render._refuse_unapproved), looks earlier.
PaperWasApproved ==
    /\ \A doc \in Printed :
          ~doc.slipped => TextsOf(doc) \cap FromModel \subseteq signedOff
    /\ store.feedback \subseteq signedOff

\* Whatever a render is let through for may be printed at that moment, copy by
\* copy, although the door asks about the items of the sheet and the copies
\* print their plans; and the document it makes then holds nothing else,
\* unless the items were edited in between.
FreshPaperIsClean ==
    [][\A r \in Renders :
         /\ render[r].stage = "opened" /\ render'[r].stage = "gated" =>
              \A s \in Students : \A e \in Copies(sheet.items, sheet.plan)[s] :
                  IsPrintable(e)
         /\ render[r].stage = "gated" /\ render'[r].stage = "built" =>
              render[r].late \/ TextsOf(render'[r].doc) \subseteq render[r].gated]_vars

\* The generation the sheet is at, and the one each pile pinned, have their
\* rectangles, and no render of another generation takes them away
\* (render._persist_answer_box_placements).
RectanglesAreKept ==
    /\ sheet.generation > 0 => placement[sheet.generation] # Nothing
    /\ \A p \in Piles :
         pinned[p] # Nothing /\ pinned[p] # 0 => placement[pinned[p]] # Nothing

\* What the download gives is what the sheet has now, copy by copy: an edit
\* takes the download back and only a render of the edited sheet gives it
\* again, whichever route rendered and however renders overlap. Excepted is an
\* object that a render overtaken by an edit has put there, or that the store
\* refused (spoilt).
StaleOnlyIfOvertaken ==
    sheet.pdf \notin spoilt \union {Nothing} =>
        /\ store.blank[sheet.pdf] # Nothing
        /\ store.blank[sheet.pdf].plan = Copies(sheet.items, sheet.plan)
=============================================================================
