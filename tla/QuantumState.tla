---------------------------- MODULE QuantumState ----------------------------
(***************************************************************************)
(* QuantumState (src/core/quantum_state.cpp): the identities of the four   *)
(* pieces of one side, told apart by the operations of the development     *)
(* solver (src/main.cpp).                                                  *)
(*                                                                         *)
(* The class keeps one mask per piece, never the set of assignments.  An   *)
(* operation intersects one mask with the animals it allows and normalises *)
(* all masks to what some complete assignment supports.  Identities states *)
(* what the masks stand for.                                               *)
(***************************************************************************)
EXTENDS Integers

CONSTANT Piece     \* 0 .. piece_count - 1

(* all_animals; all_forms, which parse_animal accepts; and the sides. *)
Animal == {"Chick", "Giraffe", "Elephant", "Lion"}
Form == Animal \cup {"Hen"}
Side == {"South", "North"}

(* The permutations assignments() tries. *)
Assignment ==
  {a \in [Piece -> Animal] :
    /\ \A p, q \in Piece : a[p] = a[q] => p = q
    /\ \A x \in Animal : \E p \in Piece : a[p] = x}

ASSUME QuantumConstants == Assignment # {}

VARIABLE masks     \* masks_

(* assignments(), of the masks m. *)
Assignments(m) == {a \in Assignment : \A p \in Piece : a[p] \in m[p]}

(* Mutant of Normalize: only the animals of pieces already certain are     *)
(* taken from the others.                                                  *)
NormalizeCertain(m) ==
  [p \in Piece |->
    {x \in m[p] : \A q \in Piece \ {p} : m[q] # {x}}]

(* normalize(), where some assignment is valid. *)
Normalize(m) == [p \in Piece |-> {a[p] : a \in Assignments(m)}]

(* probability(): the assignments that match. *)
Matching(p, x) == {a \in Assignments(masks) : a[p] = x}

SolverInit == masks = [p \in Piece |-> Animal]

(* Mutant of Cut: the new observation replaces the earlier ones. *)
CutReplaces(p, allowed) == [masks EXCEPT ![p] = allowed \cap Animal]

(* The masks constrain tries. *)
Cut(p, allowed) == [masks EXCEPT ![p] = @ \cap allowed]

(* constrain(): on a contradiction the previous masks are restored. *)
Constrain(p, allowed) ==
  masks' = IF Assignments(Cut(p, allowed)) # {} THEN Normalize(Cut(p, allowed)) ELSE masks

(* animals_for_move *)
AnimalsForMove(dx, dy, side) ==
  LET forward == IF side = "South" THEN -1 ELSE 1 IN
  {x \in Animal :
    /\ dx \in -1..1 /\ dy \in -1..1 /\ <<dx, dy>> # <<0, 0>>
    /\ \/ x = "Lion"
       \/ x = "Elephant" /\ dx # 0 /\ dy # 0
       \/ x = "Giraffe" /\ (dx = 0 \/ dy = 0)
       \/ x = "Chick" /\ dx = 0 /\ dy = forward}

(* A move no animal can make is refused before the masks are touched. *)
ObserveMove(p, dx, dy, side) ==
  /\ AnimalsForMove(dx, dy, side) # {}
  /\ Constrain(p, AnimalsForMove(dx, dy, side))

Require(p, x) == Constrain(p, {x})

Eliminate(p, x) == Constrain(p, Animal \ {x})

(* A captured piece cannot measure as the Lion. *)
MeasureCapture(p, x) == x # "Lion" /\ Require(p, x)

(* The operations of the solver's input; PROMOTE and DECLINE are FIX and   *)
(* FORBID of the Chick.                                                    *)
SolverNext ==
  \E p \in Piece :
    \/ \E dx, dy \in -1..1, side \in Side : ObserveMove(p, dx, dy, side)
    \/ \E x \in Form : Require(p, x)
    \/ \E x \in Form : Eliminate(p, x)
    \/ \E x \in Form : MeasureCapture(p, x)

SolverSpec == SolverInit /\ [][SolverNext]_masks

-----------------------------------------------------------------------------

(* Every piece always keeps an animal it may be. *)
SolverTypeOK == masks \in [Piece -> (SUBSET Animal) \ {{}}]

(* possible() names an animal exactly when probability() of it is not      *)
(* zero: observations of one piece reach the masks of all others.          *)
MasksAreMarginals ==
  \A p \in Piece, x \in Animal : x \in masks[p] <=> Matching(p, x) # {}

(* Four masks are enough: the assignments they allow are exactly the       *)
(* worlds that agree with every operation accepted so far, in whatever     *)
(* order they came, and a refused operation changes none of them.          *)
Known == INSTANCE Identities WITH worlds <- Assignments(masks)

KnowledgeImplemented == Known!KnowSpec

==============================================================================
