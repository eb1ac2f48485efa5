------------------------------ MODULE MCPaper ------------------------------
(***************************************************************************)
(* Two pupils whose copies differ and one of another class; true/false     *)
(* items, one whose statement may grow, a choice under a tall picture, and *)
(* a written answer that does not fit a page with its box.                 *)
(***************************************************************************)
EXTENDS Paper, TLC
LOCAL INSTANCE SequencesExt

CONSTANTS lea, noah, zoe, t1, t2, t3, t4, t5, m1, o1, o2

Item(kind, statement, options, lines, figure) ==
    [kind |-> kind, statement |-> statement, options |-> options,
     lines |-> lines, figure |-> figure]
Claim(length) == Item("true_false", <<length>>, <<>>, 0, NoFigure)
Picture(width, height) == [width |-> width, height |-> height, worded |-> FALSE]

MCPupils == {lea, noah}
MCUidRow ==
    LET Uid(letter, number) == [year |-> 10, letter1 |-> letter,
                                letter2 |-> LetterAbsent, number |-> number]
    IN lea :> Uid(1, 3) @@ noah :> Uid(1, 4) @@ zoe :> Uid(2, 3)

\* o1 prints its statement after four claims and its box on the next page; m1
\* has a page to itself.
MCSays ==
    LET draft == t1 :> Claim(40) @@ t2 :> Claim(40) @@ t3 :> Claim(60) @@
                 t4 :> Claim(10) @@ t5 :> Claim(40) @@
                 m1 :> Item("mcq", <<>>, <<<<20>>, <<30>>, <<10>>, <<10>>>>, 0,
                            Picture(15000, 11000)) @@
                 o1 :> Item("open", <<>>, <<>>, 8, Picture(15000, 6000)) @@
                 o2 :> Item("open", <<40>>, <<>>, 0, NoFigure)
    IN 1 :> draft @@ 2 :> [draft EXCEPT ![t1] = Claim(700)]

MCListOf ==
    1 :> (lea :> <<t1, t2, t3, t4, o1>> @@ noah :> <<t4, t2, t1, t3, o2, t5>>) @@
    2 :> (lea :> <<t2, t1, t3, t4, o1>> @@ noah :> <<t4, t3, t2, t1, t5, m1>>)

Bubble(fill, cross) == [fill |-> fill, cross |-> cross]
Empty == Bubble(3, 0)
Filled == Bubble(60, 0)
Crossed == Bubble(22, 80)
Left(mark) == <<mark, Empty>>
Right(mark) == <<Empty, mark>>

\* Fills and crosses; two marks, one half filled; a faint one; none.
MCInk ==
    lea :> (t1 :> Left(Filled) @@ t2 :> Right(Crossed) @@
            t3 :> <<Filled, Bubble(38, 0)>> @@ t4 :> Left(Bubble(25, 0)) @@
            t5 :> Left(Filled) @@ m1 :> <<Empty, Empty, Crossed, Empty>> @@
            o1 :> <<>> @@ o2 :> <<>>) @@
    noah :> (t1 :> Right(Filled) @@ t2 :> Left(Empty) @@
             t3 :> Left(Crossed) @@ t4 :> Right(Filled) @@
             t5 :> Right(Filled) @@ m1 :> <<Empty, Filled, Empty, Empty>> @@
             o1 :> <<>> @@ o2 :> <<>>)
MCWritten == lea :> {o1} @@ noah :> {}

Shot(p, page, kept, legible) ==
    [pupil |-> p, page |-> page, kept |-> kept, legible |-> legible]
MCUploads == {<<Shot(lea, 2, 100, TRUE), Shot(lea, 1, 100, TRUE)>>,
              <<Shot(noah, 1, 5, TRUE), Shot(lea, 1, 100, FALSE)>>,
              <<Shot(zoe, 1, 100, TRUE)>>}
MCRetakes == {<<Shot(lea, 1, 40, TRUE)>>, <<Shot(noah, 2, 100, TRUE)>>}
MCShots == UNION {{s[k] : k \in DOMAIN s} : s \in MCUploads \union MCRetakes}

\* The copies as a fold, which TLC evaluates faster than Paging; that they are
\* the same is CopiesAssumption.
MCPages(list, item) ==
    LET s == FoldLeft(LAMBDA t, e : Put(t, e, item[e]), Blank, list)
    IN IF s.refused THEN TooTall ELSE Flush(s).pages
MCCopies == [n \in {1, 2} |-> [d \in {1, 2} |-> [p \in MCPupils |->
               MCPages(MCListOf[n][p], MCSays[d])]]]
MCNonceOf == 0 :> 1234567 @@ 1 :> 7654321 @@ 2 :> 4194303
=============================================================================
