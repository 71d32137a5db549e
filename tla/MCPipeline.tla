------------------------------ MODULE MCPipeline ------------------------------
(***************************************************************************)
(* Candidates for TLC: some deserve to be accepted, each of the others has *)
(* one thing against it.                                                   *)
(***************************************************************************)
EXTENDS Pipeline

CONSTANTS new, champion

OneOpponent == <<champion>>

TwoKinds == [fixed |-> <<"fixed">>, time |-> <<"time">>]

FixedTwice == [fixed |-> 2, time |-> 1]

(* One pair shows little, two show what there is to see. *)
Intervals ==
  <<[weaker |-> [lower |-> 20, upper |-> 60], equal |-> [lower |-> 40, upper |-> 60],
     stronger |-> [lower |-> 45, upper |-> 80]],
    [weaker |-> [lower |-> 30, upper |-> 45], equal |-> [lower |-> 48, upper |-> 52],
     stronger |-> [lower |-> 52, upper |-> 70]]>>

Plain ==
  [category |-> "mixed", permissions |-> Permission, artifactBinding |-> TRUE,
   sameConfig |-> TRUE, selective |-> TRUE, id |-> new,
   nature |-> [legal |-> TRUE, score |-> "same", elapsed |-> 100, nodes |-> 100,
               memory |-> 100, shallower |-> FALSE, reference |-> TRUE, measurable |-> TRUE,
               strength |-> "stronger"]]

Stronger(category) == [Plain EXCEPT !.category = category]
Equal(category) == [Plain EXCEPT !.category = category, !.nature.strength = "equal"]
Leaner == [Equal("performance_only") EXCEPT !.nature.nodes = 88, !.nature.elapsed = 90]

Candidates ==
  {Stronger("selective_search"), Leaner, Equal("move_ordering"),
   [Stronger("mixed") EXCEPT !.nature.shallower = TRUE],
   [Stronger("move_ordering") EXCEPT !.nature.score = "other"],
   [Stronger("selective_search") EXCEPT !.nature.reference = FALSE],
   [Stronger("mixed") EXCEPT !.id = champion],
   [Leaner EXCEPT !.nature.strength = "weaker"], Equal("performance_only"),
   [Leaner EXCEPT !.nature.measurable = FALSE, !.nature.elapsed = 150]}
==============================================================================
