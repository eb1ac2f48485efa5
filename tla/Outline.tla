------------------------------- MODULE Outline -------------------------------
(***************************************************************************)
(* How a book is divided: its chapters, from the bookmarks of the file or  *)
(* from what looks like a heading (ingest/sections.py), and the exercises  *)
(* its layout codes (ingest/regions.py).                                   *)
(*                                                                         *)
(* A page is the lines it begins with, the headers of the coded exercises  *)
(* on it, whether anything but titles and marks stands above the first of  *)
(* them, and whether it says that the last one goes on overleaf.           *)
(***************************************************************************)
EXTENDS Sequences, FiniteSetsExt, Ordering

CONSTANTS
    Headings,                  \* the lines that look like a heading
    RUNNING_HEAD_MIN_PAGES,
    MIN_OUTLINE_ENTRIES

-----------------------------------------------------------------------------
(* Chapters                                                                *)

\* The chapters that begin at some pages, each until the next one begins.
Between(begin, last) ==
    [i \in DOMAIN begin |->
       [from |-> begin[i],
        to   |-> IF i = Len(begin) THEN last ELSE begin[i + 1] - 1]]

\* Faulty variant: what comes before the first heading belongs to no chapter.
Chapters_NoPreface(starts, last) == Between(Ascending(starts), last)

\* What comes before the first heading is a chapter of its own.
Chapters(starts, last) == Between(Ascending(starts \union {1}), last)

\* The lines at the top of a quarter of the pages, and of four at least.
RunningHeads(pages) ==
    LET tops(line) ==
            {at \in (DOMAIN pages) \X (1 .. 3) :
                /\ at[2] <= Len(pages[at[1]].lines)
                /\ pages[at[1]].lines[at[2]] = line}
        enough == Max({RUNNING_HEAD_MIN_PAGES, Len(pages) \div 4})
    IN  IF Len(pages) < RUNNING_HEAD_MIN_PAGES THEN {}
        ELSE {line \in UNION {Range(pages[p].lines) : p \in DOMAIN pages} :
                Cardinality(tops(line)) >= enough}

\* The pages with a heading on them that is not the book's own name.
HeadingPages(pages) ==
    LET furniture == RunningHeads(pages)
    IN  {p \in DOMAIN pages :
           \E line \in Range(pages[p].lines) : line \in Headings \ furniture}

DetectSections(pages) == Chapters(HeadingPages(pages), Len(pages))

\* Of the bookmarks of a page the deepest counts; one alone is no outline.
OutlinePages(entries, last) ==
    {entries[i].page : i \in {j \in DOMAIN entries :
        entries[j].title /= "" /\ entries[j].page \in 1 .. last}}

SectionsFromOutline(entries, last) ==
    IF Cardinality(OutlinePages(entries, last)) < MIN_OUTLINE_ENTRIES THEN <<>>
    ELSE Chapters(OutlinePages(entries, last), last)

\* The bookmarks of the file first.
SectionsOf(document) ==
    LET marked == SectionsFromOutline(document.outline, Len(document.pages))
    IN  IF marked /= <<>> THEN marked ELSE DetectSections(document.pages)

-----------------------------------------------------------------------------
(* Coded exercises                                                         *)

\* An exercise carried over is pending until a page does not carry it on; a
\* page with no header that says so again is the middle of it.
OnPage(st, p, page) ==
    LET carried == IF st.pending = <<>> \/ ~page.above THEN st.pending
                   ELSE <<[st.pending[1] EXCEPT !.parts = Append(@, p)]>>
        carries == carried /= <<>> /\ page.coded = <<>> /\ page.continues
        own == [i \in DOMAIN page.coded |-> [label |-> page.coded[i], parts |-> <<p>>]]
        closed == IF page.continues /\ own /= <<>> THEN Len(own) - 1 ELSE Len(own)
    IN  IF carries THEN [st EXCEPT !.pending = carried]
        ELSE [regions |-> st.regions \o carried \o SubSeq(own, 1, closed),
              pending |-> SubSeq(own, closed + 1, Len(own))]

\* What is known after each page.
ReadUpTo(pages) ==
    LET read[p \in 0 .. Len(pages)] ==
          IF p = 0 THEN [regions |-> <<>>, pending |-> <<>>]
          ELSE OnPage(read[p - 1], p, pages[p])
    IN  read

DetectExerciseRegions(pages) ==
    LET read == ReadUpTo(pages)[Len(pages)]
    IN  read.regions \o read.pending

\* The page an exercise is filed under is the one it begins on.
PageOf(region) == region.parts[1]

-----------------------------------------------------------------------------
(* What the divisions of a book promise                                    *)

\* Every page of a book is in one chapter, so no exercise of it is outside
\* them all (detect_sections, sections_from_outline).
InOneChapter(chapters, last) ==
    \A p \in 1 .. last :
        \E i \in DOMAIN chapters :
            /\ p \in chapters[i].from .. chapters[i].to
            /\ \A j \in DOMAIN chapters :
                 p \in chapters[j].from .. chapters[j].to => j = i

\* How many coded headers there are up to each page.
HeadersUpTo(pages) ==
    LET headers == [p \in DOMAIN pages |-> Len(pages[p].coded)]
        upTo[p \in 0 .. Len(headers)] ==
          IF p = 0 THEN 0 ELSE upTo[p - 1] + headers[p]
    IN  upTo

\* A region begins under the i-th header of a page, and takes in later pages
\* in their order, as long as none has a header before or does not go on.
RegionOf(region, pages, p, i) ==
    /\ region.label = pages[p].coded[i]
    /\ PageOf(region) = p
    /\ \A n \in 2 .. Len(region.parts) :
         LET q == region.parts[n]
         IN  /\ region.parts[n - 1] < q /\ q \in DOMAIN pages
             /\ \A between \in p + 1 .. q - 1 :
                  pages[between].coded = <<>> /\ pages[between].continues

\* Every coded header yields one exercise, in the order of the book, which is
\* filed under its own page and runs over no other (detect_exercise_regions).
OnePerHeader(regions, pages) ==
    LET before == HeadersUpTo(pages)
    IN  /\ Len(regions) = before[Len(pages)]
        /\ \A p \in DOMAIN pages : \A i \in DOMAIN pages[p].coded :
             RegionOf(regions[before[p - 1] + i], pages, p, i)

=============================================================================
