--------------------------- MODULE MCEvaluationRun ---------------------------
(***************************************************************************)
(* Profiles for TLC.                                                       *)
(***************************************************************************)
EXTENDS EvaluationRun

OnePair == <<1>>

(* promotion_test plays more pairs against the champion than the anchor. *)
ChampionAndAnchor == <<2, 1>>
==============================================================================
