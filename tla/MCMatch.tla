------------------------------- MODULE MCMatch -------------------------------
(***************************************************************************)
(* A small game for TLC: two actions, of which the second one is legal     *)
(* except in the opening, and a verdict of each kind.                      *)
(***************************************************************************)
EXTENDS Match

CONSTANTS a, b, v1, v2

TwoActions == {a, b}

TwoVersions == {v1, v2}

Positions == UNION {[1 .. n -> TwoActions] : n \in 0 .. 4}

LegalActions == [p \in Positions |-> IF p = <<>> THEN {a} ELSE TwoActions]

(* Catch by the player who moved, Try of the opponent of the one who       *)
(* moved, draw at the horizon.                                             *)
Outcomes ==
  [p \in Positions |->
    CASE p = <<a, b>> -> [terminal |-> "catch", winner |-> "second"]
      [] p = <<a, a, b>> -> [terminal |-> "try", winner |-> "second"]
      [] Len(p) = 4 -> [terminal |-> "draw", winner |-> Nothing]
      [] OTHER -> [terminal |-> "none", winner |-> Nothing]]
==============================================================================
