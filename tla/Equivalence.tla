----------------------------- MODULE Equivalence -----------------------------
(***************************************************************************)
(* The successor classes of src/exact/equivalence.cpp and the reduced move *)
(* list a search is given: of all moves whose successors have one key only *)
(* a representative is searched.                                           *)
(***************************************************************************)
EXTENDS Canonical

CONSTANT RequireHint   \* require_hint, with a threshold other than 0

NoMove == <<Empty, 0>>   \* no preferred move

(* Every move apply_move accepts, with the masks it leaves. *)
Applied ==
  UNION {{<<m, masks>> : masks \in MasksAfter(m[1], m[2])} :
    m \in {n \in Piece \X Square : Admissible(n[1], n[2])}}

(* Another State: the one apply_move makes of its copy. *)
In(squares, places, masks, owners, result) == INSTANCE Canonical WITH
  board <- squares, pos <- places, mask <- masks, owner <- owners,
  sideToMove <- Opposite(sideToMove), turn <- turn + 1,
  terminal <- result[1], winner <- result[2]

(* The key of the successor. *)
KeyAfter(m, masks) ==
  LET squares == BoardAfter(m[1], m[2])
      places == PosAfter(m[1], m[2])
      owners == OwnerAfter(m[1], m[2])
      result == In(squares, places, masks, owners, <<"None", "None">>)!Verdict
  IN In(squares, places, masks, owners, result)!CanonKey

(* generate_equivalent_successor_classes: each key and the moves it has. *)
Classes ==
  LET keyed == {<<a[1], KeyAfter(a[1], a[2])>> : a \in Applied} IN
  {[key |-> k, moves |-> {x[1] : x \in {y \in keyed : y[2] = k}}] : k \in {x[2] : x \in keyed}}

Keys(classes) == {c.key : c \in classes}

(* representative_score: the preferred move, a capture of a known Lion, a  *)
(* capture, and then the lowest squares.                                   *)
Score(m, preferred) ==
  IF m = preferred THEN 2000000
  ELSE LET captured == board[m[2]] IN
       (IF captured = Empty THEN 0
        ELSE IF mask[captured] = {"Lion"} THEN 1200000 ELSE 200000)
         - (pos[m[1]] * BoardSize + m[2])

Representative(moves, preferred) ==
  CHOOSE m \in moves : \A n \in moves : Score(m, preferred) >= Score(n, preferred)

(* Mutant of HasDuplicateDropHint: the hand of either player will do. *)
HintOfEitherHand ==
  \E p, q \in Piece :
    /\ p # q /\ InHand(p) /\ InHand(q) /\ owner[p] = owner[q]
    /\ mask[p] = mask[q] /\ Origin[p] = Origin[q]

(* has_duplicate_drop_hint. *)
HasDuplicateDropHint ==
  \E p, q \in Piece :
    /\ p # q
    /\ InHand(p) /\ Owns(sideToMove, p)
    /\ InHand(q) /\ Owns(sideToMove, q)
    /\ mask[p] = mask[q] /\ Origin[p] = Origin[q]

(* reduce_successors: the lists it may return.  Its gates on depth, time,  *)
(* number of moves and share of duplicates are left open.                  *)
MoveLists(classes, preferred) ==
  {UNION {c.moves : c \in classes}} \cup
  (IF RequireHint => HasDuplicateDropHint
   THEN {{Representative(c.moves, preferred) : c \in classes}} ELSE {})
==============================================================================
