------------------------------- MODULE Lineage -------------------------------
(***************************************************************************)
(* Identity masks and their propagation (src/rules/game.cpp, namespace     *)
(* helpers; include/core/animal.hpp).                                      *)
(*                                                                         *)
(* A piece carries the set of forms it may still have.  The pieces born on *)
(* one side are, in some order, exactly one of each lineage; propagation   *)
(* removes the forms no such order supports.  A bit mask is the set of its *)
(* forms.                                                                  *)
(***************************************************************************)

Form == {"Chick", "Giraffe", "Elephant", "Lion", "Hen"}

(* all_animals: a Hen is a promoted Chick, not a lineage of its own. *)
Animal == {"Chick", "Giraffe", "Elephant", "Lion"}

Side == {"South", "North"}

CONSTANTS
  Piece,     \* physical pieces
  Origin     \* [Piece -> Side], the origin bits: never written after setup

ASSUME LineageConstants == Origin \in [Piece -> Side]

Mask == [Piece -> SUBSET Form]

LineageOf(f) == IF f = "Hen" THEN "Chick" ELSE f

FormsForLineages(forms, lineages) == {f \in forms : LineageOf(f) \in lineages}

Group(side) == {p \in Piece : Origin[p] = side}

(* The orders std::next_permutation runs through, for each origin. *)
Assignments ==
  [side \in Side |->
    {a \in [Group(side) -> Animal] :
      /\ \A p, q \in Group(side) : a[p] = a[q] => p = q
      /\ \A l \in Animal : \E p \in Group(side) : a[p] = l}]

(* Those that give every piece a lineage its mask allows (lineage_mask). *)
Worlds(mask, side) ==
  {a \in Assignments[side] : \A p \in DOMAIN a : \E f \in mask[p] : LineageOf(f) = a[p]}

Supported(worlds, p) == {a[p] : a \in worlds}

(* One pass of propagate over both origins. *)
Pass(mask) ==
  LET south == Worlds(mask, "South")
      north == Worlds(mask, "North")
  IN [p \in Piece |->
       FormsForLineages(mask[p], Supported(IF Origin[p] = "South" THEN south ELSE north, p))]

(* Propagation does not meet a contradiction: no mask is empty or holds    *)
(* unknown bits, and each origin has an assignment left.                   *)
Consistent(mask) ==
  /\ mask \in [Piece -> (SUBSET Form) \ {{}}]
  /\ \A side \in Side : Worlds(mask, side) # {}

(* propagate repeats the pass until no mask changes; the second pass never *)
(* changes one (PassIsIdempotent in GameProofs), so one pass stands for    *)
(* the loop.  The value is the set of masks propagate may leave: one, or   *)
(* none when it reports a contradiction.                                   *)
Propagate(mask) == IF Consistent(mask) THEN {Pass(mask)} ELSE {}

Settled(mask) == Consistent(mask) /\ Pass(mask) = mask

==============================================================================
