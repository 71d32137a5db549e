--------------------------- MODULE MCClusterWorker ---------------------------
(***************************************************************************)
(* Instances of ClusterWorker for TLC.                                     *)
(***************************************************************************)
EXTENDS ClusterWorker, TLC

CONSTANTS j1, j2, w1, w2, h1, h2

OneJobRunnable == Worker \X {j1}
TwoAttempts == [j \in Job |-> 2]
FlatRank == [j \in Job |-> 1]

(* A job no worker can run is ahead of one that only w1 can run. *)
OnlySecond == {<<w1, j2>>}
SecondTwice == [j \in Job |-> IF j = j2 THEN 2 ELSE 1]
FirstAhead == [j \in Job |-> IF j = j1 THEN 1 ELSE 2]

(* Claims compete only if two requests run at a time.  To keep that small, *)
(* the second handler takes only the claims of w2, the worker that cannot  *)
(* run the jobs, and a disturbance comes only when it matters: the master  *)
(* crashes while a job is held and no call runs, a request is given up     *)
(* while the second handler is free, and the job that runs is cancelled.   *)
(* MCClusterSafety has all of them everywhere.                             *)
Starts(h) == call[h].pc = "idle" /\ call'[h].pc # "idle"

SecondHandlerClaims ==
  Starts(h2) => call'[h2].pc = "register" /\ call'[h2].worker = w2

Untimely ==
  \/ MasterCrash /\ (status[j2] \notin Held \/ \E h \in Handler : call[h].pc # "idle")
  \/ (\E w \in Worker : waitsFor[w] # NoCall /\ GiveUp(w)) /\ call[h2].pc # "idle"
  \/ (\E h \in Handler : CancelRequest(h, j1))
  \/ (\E h \in Handler : CancelRequest(h, j2)) /\ status[j2] \notin Held

CompetingSpec ==
  /\ ClusterInit
  /\ [][ClusterNext /\ SecondHandlerClaims /\ ~Untimely]_clusterVars
  /\ Fairness

Symmetry == Permutations(Worker) \cup Permutations(Handler)
==============================================================================
