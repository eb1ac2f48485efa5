------------------------------ MODULE Chunking ------------------------------
(***************************************************************************)
(* The chunks a page is cut into (ingest/chunk.py), in characters.         *)
(*                                                                         *)
(* A block is a paragraph or one numbered exercise: the lengths of its     *)
(* sentences, whether it opens an exercise, and what it says.  A piece is  *)
(* a block, or a run of the sentences of one that is too long.  A text is  *)
(* a sequence of pieces and a length, which the beginning of a piece cut   *)
(* off by an overlap adds to without being in the sequence.                *)
(***************************************************************************)
EXTENDS Integers, Sequences
LOCAL INSTANCE SequencesExt
LOCAL INSTANCE FiniteSetsExt

CONSTANTS
    MIN_CHARS, MAX_CHARS, OVERLAP_CHARS, MERGE_TAIL_CHARS,
    Word             \* what snapping an overlap to a word takes off it

BlankLine == 2

\* Sentences are a space apart.
Total(sentences) == FoldLeft(+, Len(sentences) - 1, sentences)
Length(block) == Total(block.sentences)

NoText == [pieces |-> <<>>, len |-> 0]

Joined(text, piece) ==
    [pieces |-> Append(text.pieces, piece),
     len |-> IF text.len = 0 THEN piece.len ELSE text.len + BlankLine + piece.len]

-----------------------------------------------------------------------------
(* One block too long for a chunk is split on sentence ends                *)

Piece(block, sentences) ==
    [says |-> block.says, opens |-> FALSE,
     sentences |-> sentences, len |-> Total(sentences),
     whole |-> sentences = block.sentences]

Take(runs, s) ==
    IF runs /= <<>> /\ Total(Append(Last(runs), s)) <= MAX_CHARS
    THEN [runs EXCEPT ![Len(runs)] = Append(@, s)]
    ELSE Append(runs, <<s>>)

Pieces(block, runs) ==
    [i \in DOMAIN runs |->
       [Piece(block, runs[i]) EXCEPT !.opens = block.opens /\ i = 1]]

SplitOversized(block) ==
    Pieces(block, IF Length(block) <= MAX_CHARS THEN <<block.sentences>>
                  ELSE FoldLeft(Take, <<>>, block.sentences))

-----------------------------------------------------------------------------
(* The packer                                                              *)

From(text, n) == SubSeq(text.pieces, n, Len(text.pieces))
FitsOverlap(pieces) ==
    FoldLeft(Joined, NoText, pieces).len + BlankLine + Word <= OVERLAP_CHARS

\* The last characters of a chunk, from the first space on: the pieces that
\* are whole in them, and what is left of the one before.
OverlapTail(text) ==
    IF text.len <= OVERLAP_CHARS THEN text
    ELSE [pieces |-> From(text, Min({n \in 1 .. Len(text.pieces) + 1 :
                                       FitsOverlap(From(text, n))})),
          len |-> OVERLAP_CHARS - Word]

Flush(st) ==
    [out |-> Append(st.out, [text |-> st.buffer, opens |-> st.opens]),
     buffer |-> NoText, opens |-> FALSE, overlap |-> OverlapTail(st.buffer)]

\* An exercise opens a chunk once the buffer is long enough; a piece that
\* would push the buffer past the ceiling opens one whatever it is.
BreaksBefore(buffer, piece) ==
    /\ buffer.len > 0
    /\ \/ piece.opens /\ buffer.len >= MIN_CHARS
       \/ buffer.len + piece.len + BlankLine > MAX_CHARS

\* A chunk that opens with an exercise takes nothing from the one before.
Begin(st, piece) ==
    IF st.buffer.len > 0 THEN st
    ELSE [st EXCEPT !.buffer = IF piece.opens THEN NoText ELSE st.overlap,
                    !.opens = piece.opens, !.overlap = NoText]

Add(st, piece) == [st EXCEPT !.buffer = Joined(@, piece)]

FlushIfFull(st) == IF st.buffer.len >= MAX_CHARS THEN Flush(st) ELSE st

Pack(st, piece) ==
    FlushIfFull(Add(Begin(IF BreaksBefore(st.buffer, piece) THEN Flush(st) ELSE st,
                          piece),
                    piece))

\* A scrap goes back into the chunk before it.
IsScrap(merged, chunk) ==
    /\ merged /= <<>>
    /\ chunk.text.len < MERGE_TAIL_CHARS
    /\ ~ chunk.opens
    /\ Last(merged).text.len + chunk.text.len + BlankLine <= MAX_CHARS + MERGE_TAIL_CHARS

Merged(chunks) ==
    LET Merge(merged, chunk) ==
            IF ~ IsScrap(merged, chunk) THEN Append(merged, chunk)
            ELSE [merged EXCEPT ![Len(merged)].text =
                    [pieces |-> @.pieces \o chunk.text.pieces,
                     len |-> @.len + BlankLine + chunk.text.len]]
    IN  FoldLeft(Merge, <<>>, chunks)

PiecesOf(blocks) == FlattenSeq([i \in DOMAIN blocks |-> SplitOversized(blocks[i])])

Rest(st) == IF st.buffer.len > 0 THEN Flush(st).out ELSE st.out

\* The chunks of one page.
PackPage(blocks) ==
    LET start == [out |-> <<>>, buffer |-> NoText, opens |-> FALSE, overlap |-> NoText]
    IN  Merged(Rest(FoldLeft(Pack, start, PiecesOf(blocks))))

\* The chunks of a document, each with its page, in one numbering.
OnPage(p, packed) ==
    [i \in DOMAIN packed |->
       [page |-> p, text |-> packed[i].text, opens |-> packed[i].opens]]

ChunkPages(pages) ==
    FlattenSeq([p \in DOMAIN pages |-> OnPage(p, PackPage(pages[p].blocks))])

\* What a reader finds whole in a chunk, in the chunk's order.
WholeIn(chunk) ==
    LET whole == SelectSeq(chunk.text.pieces, LAMBDA piece : piece.whole)
    IN  [i \in DOMAIN whole |-> whole[i].says]

=============================================================================
