------------------------------ MODULE MCSearch ------------------------------
(***************************************************************************)
(* Game trees for TLC: one graph of eleven positions on five turns, with   *)
(* transpositions, and several ways to evaluate its positions and to end   *)
(* its games.  The search looks two plies ahead, so what it knows of the   *)
(* last turns depends on the root.                                         *)
(***************************************************************************)
EXTENDS Search, TLC

Node == 1 .. 11
Tree == 1 .. 3
Position == Node \X Tree

TurnOf(n) == CASE n = 1 -> 0 [] n \in 2 .. 3 -> 1 [] n \in 4 .. 6 -> 2
               [] n \in 7 .. 9 -> 3 [] OTHER -> 4

Edges(n) == CASE n = 1 -> {2, 3}
              [] n = 2 -> {4, 5} [] n = 3 -> {5, 6}
              [] n = 4 -> {7, 8} [] n = 5 -> {7, 8, 9} [] n = 6 -> {9}
              [] n = 7 -> {10, 11} [] n = 8 -> {10} [] n = 9 -> {11}
              [] OTHER -> {}

(* Turn 4 is the turn limit. In the second tree the mover can end the game *)
(* at 8, in the third one at 4 as well.                                    *)
Ends(n, t) ==
  CASE n = 11 -> "lost"
    [] n = 10 -> "draw"
    [] n = 8 /\ t > 1 -> "lost"
    [] n = 4 /\ t > 2 -> "lost"
    [] OTHER -> "open"

Evals == << <<0, 1, -1, 2, 0, -2, 1, 3, -1, 0, 0>>,
            <<1, 0, 2, -1, 3, 0, -2, 0, 2, 0, 0>>,
            <<0, 2, 2, 0, 1, -1, 0, 0, 1, 0, 0>> >>

TurnAt == [p \in Position |-> TurnOf(p[1])]
EndAt == [p \in Position |-> Ends(p[1], p[2])]
MovesAt == [p \in Position |->
  IF EndAt[p] = "open" THEN Edges(p[1]) \X {p[2]} ELSE {}]
EvalAt == [p \in Position |-> Evals[p[2]][p[1]]]

Largest(S) == CHOOSE v \in S : \A u \in S : u <= v

Minimax[d \in Depths] ==
  [p \in Position |->
    IF EndAt[p] # "open" THEN CASE EndAt[p] = "draw" -> 0 [] OTHER -> -Mate
    ELSE IF d = 0 THEN EvalAt[p]
    ELSE Largest({-FromTable(Minimax[d - 1][q], 1) : q \in MovesAt[p]})]

Starts == {1} \X Tree

(* After an answer and a reply, or in a new game. *)
Replies == {<<p, q>> \in Position \X Position :
  /\ p[2] = q[2]
  /\ \/ p[1] = 1 /\ q[1] \in {1, 4, 5, 6}
     \/ p[1] \in {4, 5, 6} /\ q[1] = 1}

(* Some keys share an entry. *)
SlotOf == [p \in Position |-> p[1] % 6]

Contest == [pvs |-> TRUE, aspiration |-> TRUE, table |-> TRUE, clear |-> FALSE,
            deepening |-> TRUE]
Plain == [Contest EXCEPT !.pvs = FALSE, !.aspiration = FALSE]
Chosen == {Contest, Plain, [Contest EXCEPT !.clear = TRUE], [Contest EXCEPT !.deepening = FALSE], [Contest EXCEPT !.table = FALSE]}
=============================================================================
