---------------------------- MODULE MCIngestion ----------------------------
EXTENDS Ingestion, TLC, SequencesExt

CONSTANTS r1, r2, x1, x2, algebra, primer, coded, scan

Chunks == INSTANCE Chunking
    WITH MIN_CHARS <- 500, MAX_CHARS <- 800, OVERLAP_CHARS <- 120, MERGE_TAIL_CHARS <- 120, Word <- 5
Divided == INSTANCE Outline
    WITH Headings <- {"fractions", "areas"}, RUNNING_HEAD_MIN_PAGES <- 4, MIN_OUTLINE_ENTRIES <- 2

Says(s, n) == [sentences |-> <<n>>, opens |-> TRUE, says |-> s]
Page(lines, blocks, codes) ==
    [lines |-> lines, blocks |-> blocks, coded |-> codes, above |-> TRUE, continues |-> FALSE]

\* A book of three chapters, where the second gives an exercise of the first
\* again and the third two of its own.
Algebra == [opens |-> TRUE, text |-> TRUE, outline |-> <<>>, pages |-> <<
    Page(<<>>, <<Says("a", 300)>>, <<>>),
    Page(<<"fractions">>, <<Says("a", 300), Says("b", 400)>>, <<>>),
    Page(<<"areas">>, <<Says("b", 600), Says("c", 450), Says("d", 90)>>, <<>>)>>]

\* One without a heading, longer than one reading.
Primer == [opens |-> TRUE, text |-> TRUE, outline |-> <<>>, pages |->
    [p \in 1 .. 4 |-> Page(<<>>, <<Says(<<"a", "b", "c", "d">>[p], 550)>>, <<>>)]]

\* One that codes its exercises, with two chapters that do not: the import
\* passes over the first and leaves the other.
Mark(title, page) == [title |-> title, page |-> page]
Coded == [opens |-> TRUE, text |-> TRUE,
          outline |-> <<Mark("numbers", 1), Mark("games", 2), Mark("sums", 3), Mark("annexe", 4)>>,
          pages |-> <<Page(<<>>, <<Says("a", 300)>>, <<1, 2>>),
                      Page(<<>>, <<Says("d", 300)>>, <<>>),
                      Page(<<>>, <<Says("c", 300)>>, <<3, 4>>),
                      Page(<<>>, <<Says("c", 300), Says("d", 300)>>, <<>>)>>]

Scan == [opens |-> TRUE, text |-> FALSE, outline |-> <<>>, pages |-> <<Page(<<>>, <<>>, <<>>)>>]

Chunk(page, says) == [page |-> page, says |-> says]
Span(from, to) == [from |-> from, to |-> to]
Region(label, page, says) == [label |-> label, page |-> page, says |-> says]
Opened(document, chapters, chunks, regions) ==
    [opens |-> document.opens, text |-> document.text,
     chapters |-> chapters, chunks |-> chunks, regions |-> regions]

\* What the worker makes of each, written out; TheBooksAreRead checks it.
MCBook ==
    algebra :> Opened(Algebra, <<Span(1, 1), Span(2, 2), Span(3, 3)>>,
                      <<Chunk(1, <<"a">>), Chunk(2, <<"a", "b">>),
                        Chunk(3, <<"b">>), Chunk(3, <<"c", "d">>)>>, <<>>)
    @@ primer :> Opened(Primer, <<Span(1, 4)>>,
                        <<Chunk(1, <<"a">>), Chunk(2, <<"b">>),
                          Chunk(3, <<"c">>), Chunk(4, <<"d">>)>>, <<>>)
    @@ coded :> Opened(Coded, <<Span(1, 1), Span(2, 2), Span(3, 3), Span(4, 4)>>,
                       <<Chunk(1, <<"a">>), Chunk(2, <<"d">>),
                         Chunk(3, <<"c">>), Chunk(4, <<"c", "d">>)>>,
                       <<Region(1, 1, "a"), Region(2, 1, "b"),
                         Region(3, 3, "c"), Region(4, 3, "b")>>)
    @@ scan :> Opened(Scan, <<Span(1, 1)>>, <<>>, <<>>)

Statement == <<"a", "b", "c", "b">>
FiledRegions(regions) ==
    [g \in DOMAIN regions |->
       Region(regions[g].label, Divided!PageOf(regions[g]), Statement[regions[g].label])]
ReadChunks(chunks) ==
    [c \in DOMAIN chunks |-> Chunk(chunks[c].page, Chunks!WholeIn(chunks[c]))]
AsRead(document) ==
    Opened(document, Divided!SectionsOf(document),
           ReadChunks(Chunks!ChunkPages(document.pages)),
           FiledRegions(Divided!DetectExerciseRegions(document.pages)))

Item(type, options, index, bool, codes) ==
    [type |-> type, options |-> options, index |-> index, bool |-> bool, codes |-> codes]
MCEmitted == [a |-> Item("mcq", 3, 3, Nothing, {"n1"}),
          b |-> Item("true_false", 2, 1, TRUE, {"n2", "g1"}),
          c |-> Item("mcq", 1, 0, Nothing, {"n1"}),
          d |-> Item("open", 0, Nothing, Nothing, {"x9"})]
MCThemes == <<{"n1"}, {"n2", "g1"}, {"g1", "n2"}>>

-----------------------------------------------------------------------------
(* The divisions of a book, over all short books                           *)

\* Five pages that begin with the book's name, a heading, or neither; two
\* bookmarks at most.
Marks == {<<>>} \union {<<Mark(t, p), Mark("areas", q)>> :
                          t \in {"", "numbers"}, p, q \in 0 .. 6}
Outlined ==
    {[outline |-> marks, pages |-> [p \in 1 .. 5 |-> Page(tops[p], <<>>, <<>>)]] :
       marks \in Marks, tops \in [1 .. 5 -> {<<>>, <<"fractions">>, <<"areas", "fractions">>}]}
CodedPages ==
    [1 .. 4 -> {[coded |-> codes, above |-> above, continues |-> c] :
                  codes \in {<<>>, <<1>>, <<1, 2>>}, above, c \in BOOLEAN}]
Sentences == {<<60>>, <<300>>, <<520>>, <<500, 400, 850>>}
Blocks == {[sentences |-> s, opens |-> o] : s \in Sentences, o \in BOOLEAN}
BlockSeqs ==
    {[i \in DOMAIN blocks |-> [says |-> i] @@ blocks[i]] :
       blocks \in UNION {[1 .. n -> Blocks] : n \in 0 .. 4}}
Firsts(seq) == FoldLeft(LAMBDA firsts, x : IF x \in Range(firsts) THEN firsts ELSE Append(firsts, x), <<>>, seq)

\* What follows is about the books alone, so it is looked at once.
Untouched == \A r \in Rows : request[r] = "none"

\* The books of this instance are the ones their pages and lines make.
TheBooksAreRead ==
    Untouched => /\ MCBook[algebra] = AsRead(Algebra)
                 /\ MCBook[primer] = AsRead(Primer)
                 /\ MCBook[coded] = AsRead(Coded)
                 /\ MCBook[scan] = AsRead(Scan)

\* Every page of a short book is in one chapter.
EveryPageHasOneChapter ==
    Untouched => \A document \in Outlined :
        Divided!InOneChapter(Divided!SectionsOf(document), Len(document.pages))

\* Every coded header of one is one exercise.
EveryHeaderIsOneExercise ==
    Untouched => \A pages \in CodedPages :
        Divided!OnePerHeader(Divided!DetectExerciseRegions(pages), pages)

\* The chunks of a page hold every piece of it in the order of the page; one
\* that opens with an exercise takes nothing over from the one before; and
\* only a sentence too long by itself makes one longer than the ceiling and
\* an overlap (chunk.py).
ChunksKeepThePage ==
    Untouched => \A blocks \in BlockSeqs : \A chunks \in {Chunks!PackPage(blocks)} :
        LET in(i) == chunks[i].text.pieces
        IN  /\ Firsts(FlattenSeq([i \in DOMAIN chunks |-> in(i)])) = Chunks!PiecesOf(blocks)
            /\ \A i \in DOMAIN chunks : chunks[i].opens => in(i)[1].opens
            /\ \A i \in DOMAIN chunks : chunks[i].text.len > 800 + 120 + Chunks!BlankLine =>
                 \E m \in DOMAIN in(i) : in(i)[m].len > 800

\* The divisions of a book lose nothing of it and repeat nothing: its pages
\* into chapters, its coded exercises into regions, its text into chunks.
BooksAreDivided ==
    TheBooksAreRead /\ EveryPageHasOneChapter /\ EveryHeaderIsOneExercise
      /\ ChunksKeepThePage
=============================================================================
