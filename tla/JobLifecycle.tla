---------------------------- MODULE JobLifecycle ----------------------------
(***************************************************************************)
(* What the evaluation cluster promises about a submitted job, with no     *)
(* mention of MySQL, Redis, leases or HTTP: a job waits, is granted to one *)
(* worker at a time and at most Budget[j] times in all, and reaches one of *)
(* three ends, which it never leaves.                                      *)
(***************************************************************************)
EXTENDS Naturals

CONSTANTS
  Job,       \* submitted work, one element per idempotency key
  Worker,    \* worker keys
  Budget,    \* [Job -> number of times the job may be granted]
  NoWorker   \* the owner of a job nobody holds

VARIABLES
  phase,     \* [Job -> Phase]
  owner,     \* [Job -> Worker \cup {NoWorker}]
  grants     \* [Job -> Nat]: how often the job has been granted

lifeVars == <<phase, owner, grants>>

Phase == {"unsubmitted", "waiting", "held", "completed", "failed", "cancelled"}

LifeInit ==
  /\ phase = [j \in Job |-> "unsubmitted"]
  /\ owner = [j \in Job |-> NoWorker]
  /\ grants = [j \in Job |-> 0]

Move(j, from, to) ==
  /\ phase[j] = from
  /\ phase' = [phase EXCEPT ![j] = to]

Submit(j) ==
  /\ Move(j, "unsubmitted", "waiting")
  /\ UNCHANGED <<owner, grants>>

(* The budget is a guard here; the code has to earn it. *)
Grant(j, w) ==
  /\ grants[j] < Budget[j]
  /\ Move(j, "waiting", "held")
  /\ owner' = [owner EXCEPT ![j] = w]
  /\ grants' = [grants EXCEPT ![j] = @ + 1]

(* The holder is done with the job, or has lost it: it waits again only    *)
(* while some of its budget is left.                                       *)
Release(j) ==
  /\ \/ Move(j, "held", "completed")
     \/ grants[j] < Budget[j] /\ Move(j, "held", "waiting")
     \/ grants[j] = Budget[j] /\ Move(j, "held", "failed")
  /\ owner' = [owner EXCEPT ![j] = NoWorker]
  /\ UNCHANGED grants

Cancel(j) ==
  /\ \/ Move(j, "waiting", "cancelled")
     \/ Move(j, "held", "cancelled")
  /\ owner' = [owner EXCEPT ![j] = NoWorker]
  /\ UNCHANGED grants

LifeNext ==
  \E j \in Job :
    \/ Submit(j)
    \/ \E w \in Worker : Grant(j, w)
    \/ Release(j)
    \/ Cancel(j)

LifeSpec == LifeInit /\ [][LifeNext]_lifeVars
=============================================================================
