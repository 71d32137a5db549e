--------------------------- MODULE MCJobExecution ---------------------------
(***************************************************************************)
(* Jobs for TLC: t is a tournament, b a benchmark, e a full evaluation.    *)
(* The second worker lacks the threads that the tournament asks for.       *)
(***************************************************************************)
EXTENDS JobExecution, TLC

CONSTANTS t, b, e, w1, w2

Kinds == [j \in Job |->
  CASE j = t -> "tournament" [] j = b -> "benchmark" [] j = e -> "evaluation"]
Enough == (Worker \X Job) \ {<<w2, t>>}
TwoAttempts == [j \in Job |-> 2]

(* Jobs meet only where one keeps a worker from another, so two at a time  *)
(* will do: the benchmark, and the tournament or the evaluation.           *)
OneBesideBenchmark == status'[t] = "absent" \/ status'[e] = "absent"

TwoJobsSpec ==
  /\ ExecInit
  /\ [][ExecNext /\ OneBesideBenchmark]_allVars
  /\ ExecFairness
==============================================================================
