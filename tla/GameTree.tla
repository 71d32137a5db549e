------------------------------ MODULE GameTree ------------------------------
(***************************************************************************)
(* What the search of src/search/alpha_beta.cpp promises to compute: the   *)
(* minimax value of a position for a fixed depth, over the positions and   *)
(* moves of the rules engine.  A position is what a Zobrist key stands     *)
(* for, the turn included, and a move is named by the position it leads to.*)
(***************************************************************************)
EXTENDS Integers

CONSTANTS
  Pos,
  Turn,      \* [Pos -> State.turn]
  Moves,     \* [Pos -> set of successors], after the reduction by L_eq
  Outcome,   \* [Pos -> State.terminal and winner, for the side to move]
  Eval,      \* [Pos -> evaluate]
  Longest,   \* a depth no game is longer than
  Value,     \* [Depths -> [Pos -> minimax value]], the mover's view
  Mate,      \* mate_score
  Margin     \* kMateScoreMargin

Depths == 0 .. Longest

MateScore(v) == v > Mate - Margin \/ v < Margin - Mate

(* Mutant of ToTable: mate scores are stored as the search counts them. *)
ToTableAsIs(score, ply) == score

(* score_from_tt and score_to_tt: mate scores count plies from the root of *)
(* the search, the table's from the position itself.                       *)
FromTable(score, ply) ==
  IF score > Mate - Margin THEN score - ply
  ELSE IF score < Margin - Mate THEN score + ply
  ELSE score

ToTable(score, ply) ==
  IF score > Mate - Margin THEN score + ply
  ELSE IF score < Margin - Mate THEN score - ply
  ELSE score

(* terminal_score *)
TerminalScore(p, ply) ==
  CASE Outcome[p] = "draw" -> 0
    [] Outcome[p] = "won"  -> Mate - ply
    [] Outcome[p] = "lost" -> ply - Mate

(* The value of a move is the opponent's value one ply later, negated. *)
MoveValue(d, q) == -FromTable(Value[d - 1][q], 1)

IsLargest(v, S) == v \in S /\ \A u \in S : u <= v

ASSUME Positions ==
  /\ Turn \in [Pos -> Nat]
  /\ Moves \in [Pos -> SUBSET Pos]
  /\ Outcome \in [Pos -> {"open", "draw", "won", "lost"}]
  /\ Eval \in [Pos -> Int]
  /\ \A p \in Pos : Outcome[p] # "open" => Moves[p] = {}
  /\ \A p \in Pos : \A q \in Moves[p] : Turn[q] = Turn[p] + 1

(* No game has a turn of Longest or later, so a mate score is told from an *)
(* evaluation at whatever ply it is counted.                               *)
ASSUME Scores ==
  /\ Mate \in Nat /\ Margin \in Nat /\ Margin < Mate
  /\ \A p \in Pos : ~MateScore(Eval[p])
  /\ Longest <= Margin /\ \A p \in Pos : Turn[p] < Longest

ASSUME ValueIsMinimax ==
  /\ Longest \in Nat
  /\ Value \in [Depths -> [Pos -> Int]]
  /\ \A d \in Depths, p \in Pos :
       CASE Outcome[p] # "open" -> Value[d][p] = TerminalScore(p, 0)
         [] OTHER ->
              IF d = 0 THEN Value[d][p] = Eval[p]
              ELSE IF Moves[p] = {} THEN Value[d][p] = -Mate
              ELSE IsLargest(Value[d][p], {MoveValue(d, q) : q \in Moves[p]})
=============================================================================
