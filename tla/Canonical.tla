------------------------------ MODULE Canonical ------------------------------
(***************************************************************************)
(* canonical_key of src/exact/equivalence.cpp: what a position is when the *)
(* names of its pieces do not matter.                                      *)
(*                                                                         *)
(* Sorted arrays of the code are bags here: two of them are equal when the *)
(* bags are.                                                               *)
(***************************************************************************)
EXTENDS Game

(* Mutant of Look: what a piece may be is left out. *)
LookWithoutMask(p) == <<owner[p]>>

(* What a key keeps of a piece, wherever it is. *)
Look(p) == <<owner[p], mask[p]>>

(* Mutant of CanonicalPosition: hand slots keep their numbers. *)
NumberedPosition(p) == pos[p]

(* All hand slots are one place. *)
CanonicalPosition(p) == IF InHand(p) THEN BoardSize ELSE pos[p]

PieceTuple(p) == <<CanonicalPosition(p), Look(p)>>

(* The sorted tuples of the pieces born on one side. *)
PiecesOf(side) ==
  LET tuple == [p \in Group(side) |-> PieceTuple(p)] IN
  [t \in {tuple[p] : p \in Group(side)} |-> Cardinality({p \in Group(side) : tuple[p] = t})]

CanonicalBoard ==
  [s \in Square |-> IF board[s] = Empty THEN {} ELSE {<<Origin[board[s]], Look(board[s])>>}]

CanonKey ==
  [board |-> CanonicalBoard, pieces |-> [side \in Side |-> PiecesOf(side)],
   sideToMove |-> sideToMove, turn |-> turn, terminal |-> terminal, winner |-> winner]
==============================================================================
