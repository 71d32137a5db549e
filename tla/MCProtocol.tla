----------------------------- MODULE MCProtocol -----------------------------
(***************************************************************************)
(* The real board and pieces for TLC.  Play is free for the first moves of *)
(* a game, or after one of two openings.  After the long one pieces have   *)
(* been captured on both sides and dropped again, and two pieces may be    *)
(* Hens; in the short one South takes three pieces, two of which have      *)
(* shown the same.  A search with successor reduction follows the games    *)
(* that start with the short one.                                          *)
(***************************************************************************)
EXTENDS Protocol, ReducedGame, Sequences

Pieces == 0..7
Origins == [p \in Pieces |-> IF p < 4 THEN "South" ELSE "North"]
InitialPositions ==
  [p \in Pieces |-> <<9, 10, 11, 7, 0, 1, 2, 4>>[p + 1]]

Long ==
  << <<0, 6>>, <<7, 7>>, <<0, 7>>, <<3, 6>>, <<7, 8>>, <<3, 9>>, <<7, 5>>,
     <<4, 4>>, <<2, 8>>, <<5, 0>>, <<7, 2>>, <<3, 6>>, <<7, 1>>, <<3, 10>> >>

Short == << <<3, 4>>, <<4, 3>>, <<3, 3>>, <<5, 4>>, <<3, 4>>, <<6, 5>> >>

VARIABLE line   \* the opening of this game

(* Bounds on the free moves from the initial position and after the short  *)
(* opening; TurnLimit is the bound after the long one.                     *)
FreeMoves == IF line = Short THEN 2 ELSE 3

MCInit ==
  /\ ProtocolInit /\ FollowInit
  /\ line \in { << >>, Long, Short}
  /\ followed = (line = Short)

(* The engine's answer follows the line while it lasts. *)
OnLine ==
  (turn < Len(line) /\ phase = "search") =>
    answer' = EncodeAction(PublicSquare(pos[line[turn + 1][1]], sideToMove),
                           PublicSquare(line[turn + 1][2], sideToMove))

Bound == phase = "request" /\ turn = Len(line) + FreeMoves

(* The search follows the move that the referee applies. *)
SearchLooks ==
  IF phase = "apply" THEN \E m \in ActualMove(answer) : Looks(m) ELSE UNCHANGED redVars

PlayOn == ~Bound /\ ProtocolNext /\ OnLine /\ SearchLooks /\ UNCHANGED line

mcVars == <<protocolVars, redVars, line>>

StopAtBound == Bound /\ UNCHANGED mcVars

MCSpec == MCInit /\ [][PlayOn \/ StopAtBound]_mcVars
==============================================================================
