-------------------------- MODULE MCSheetPrinting --------------------------
(***************************************************************************)
(* One sheet over a book item and a generated one, two pupils, renders     *)
(* that may overlap, and a pile. In the batch one pupil has a note and the *)
(* other no plan of his own.                                               *)
(***************************************************************************)
EXTENDS SheetPrinting, TLC

CONSTANTS book, made, note1, lea, noah, r1, r2

MCItemLists == {{book}, {book, made}}
MCBatchPlans == {[s \in Students |-> IF s = lea THEN {made} ELSE {}]}
MCBatchNotes == {[s \in Students |-> IF s = lea THEN note1 ELSE Nothing]}
MCSymmetry == Permutations(Renders)
=============================================================================
