------------------------------ MODULE JobStore ------------------------------
(***************************************************************************)
(* The durable half of the cluster master: the rows of cluster_jobs and    *)
(* cluster_workers, and the statements of ClusterRepository that change    *)
(* them (evaluation/cluster_master/cluster_repository.mjs).  Each action   *)
(* is one SQL statement or one committed transaction, the grain at which   *)
(* MySQL serialises the master's concurrent requests.                      *)
(*                                                                         *)
(* A job stands for its idempotency key.  Payload, progress, result and    *)
(* the time columns other than the lease are left out: no statement        *)
(* branches on them.                                                       *)
(***************************************************************************)
EXTENDS Naturals

CONSTANTS
  Job,          \* idempotency keys of the jobs clients may submit
  Worker,       \* worker keys
  CanRun,       \* <<worker, job>> pairs whose requirements are met
  MaxAttempts,  \* [Job -> max_attempts column]
  NoWorker      \* worker_id IS NULL

ASSUME StoreConstants ==
  /\ CanRun \subseteq Worker \X Job
  /\ MaxAttempts \in [Job -> 1..10]
  /\ NoWorker \notin Worker

VARIABLES
  status,       \* [Job -> Status]; "absent" is a row not inserted yet
  holder,       \* worker_id column
  attempts,     \* attempt_count column
  lease,        \* lease_expires_at column: NULL, in the future or in the past
  known         \* keys that have a row in cluster_workers

rowVars == <<status, holder, attempts, lease, known>>

Held     == {"claimed", "running"}
Terminal == {"completed", "failed", "cancelled"}
Open     == {"queued"} \cup Held
Status   == {"absent"} \cup Open \cup Terminal

StoreTypeOK ==
  /\ status \in [Job -> Status]
  /\ holder \in [Job -> Worker \cup {NoWorker}]
  /\ attempts \in [Job -> 0..10]
  /\ lease \in [Job -> {"null", "live", "past"}]
  /\ known \subseteq Worker

StoreInit ==
  /\ status = [j \in Job |-> "absent"]
  /\ holder = [j \in Job |-> NoWorker]
  /\ attempts = [j \in Job |-> 0]
  /\ lease = [j \in Job |-> "null"]
  /\ known = {}

-----------------------------------------------------------------------------

(* INSERT INTO cluster_jobs: status, attempt_count and worker_id take      *)
(* their column defaults.  A second insert of the key is ER_DUP_ENTRY.     *)
InsertRow(j) ==
  /\ status[j] = "absent"
  /\ status' = [status EXCEPT ![j] = "queued"]
  /\ UNCHANGED <<holder, attempts, lease, known>>

(* heartbeatWorker: insert or refresh the worker's row. *)
RegisterRow(w) ==
  /\ known' = known \cup {w}
  /\ UNCHANGED <<status, holder, attempts, lease>>

(* The test that claim makes with both rows locked. *)
Claimable(j, w) ==
  /\ w \in known
  /\ status[j] = "queued"
  /\ <<w, j>> \in CanRun

(* Mutant of ClaimRow: worker_id is not written. *)
ClaimWithoutHolder(j, w) ==
  /\ Claimable(j, w)
  /\ status' = [status EXCEPT ![j] = "claimed"]
  /\ attempts' = [attempts EXCEPT ![j] = @ + 1]
  /\ lease' = [lease EXCEPT ![j] = "live"]
  /\ UNCHANGED <<holder, known>>

ClaimRow(j, w) ==
  /\ Claimable(j, w)
  /\ status' = [status EXCEPT ![j] = "claimed"]
  /\ holder' = [holder EXCEPT ![j] = w]
  /\ attempts' = [attempts EXCEPT ![j] = @ + 1]
  /\ lease' = [lease EXCEPT ![j] = "live"]
  /\ UNCHANGED known

(* What heartbeatJob and finish ask of a row before they touch it.  Only   *)
(* the worker key is compared: neither the lease nor the attempt.          *)
HeldBy(j, w) == status[j] \in Held /\ holder[j] = w

HeartbeatRow(j, w) ==
  /\ HeldBy(j, w)
  /\ status' = [status EXCEPT ![j] = "running"]
  /\ lease' = [lease EXCEPT ![j] = "live"]
  /\ UNCHANGED <<holder, attempts, known>>

(* Mutant of ShouldRetry: one attempt too many. *)
RetryOnceMore(j) == attempts[j] <= MaxAttempts[j]

ShouldRetry(j) == attempts[j] < MaxAttempts[j]

(* Mutants of RetryRow: worker_id stays, and a lost attempt is not counted. *)
RetryKeepsHolder(j) ==
  /\ ShouldRetry(j)
  /\ status' = [status EXCEPT ![j] = "queued"]
  /\ lease' = [lease EXCEPT ![j] = "null"]
  /\ UNCHANGED <<holder, attempts, known>>

RetryRefundsAttempt(j) ==
  /\ ShouldRetry(j)
  /\ status' = [status EXCEPT ![j] = "queued"]
  /\ holder' = [holder EXCEPT ![j] = NoWorker]
  /\ attempts' = [attempts EXCEPT ![j] = @ - 1]
  /\ lease' = [lease EXCEPT ![j] = "null"]
  /\ UNCHANGED known

(* The two ways a failed attempt leaves the held states; finish and        *)
(* requeueExpired write the same columns.                                  *)
RetryRow(j) ==
  /\ ShouldRetry(j)
  /\ status' = [status EXCEPT ![j] = "queued"]
  /\ holder' = [holder EXCEPT ![j] = NoWorker]
  /\ lease' = [lease EXCEPT ![j] = "null"]
  /\ UNCHANGED <<attempts, known>>

CloseRow(j, outcome) ==
  /\ status' = [status EXCEPT ![j] = outcome]
  /\ lease' = [lease EXCEPT ![j] = "null"]
  /\ UNCHANGED <<holder, attempts, known>>

FailRow(j) ==
  /\ ~ShouldRetry(j)
  /\ CloseRow(j, "failed")

FinishRow(j, w, completed) ==
  /\ HeldBy(j, w)
  /\ IF completed THEN CloseRow(j, "completed") ELSE RetryRow(j) \/ FailRow(j)

CancelRow(j) ==
  /\ status[j] \in Open
  /\ CloseRow(j, "cancelled")

Expired(j) == status[j] \in Held /\ lease[j] = "past"

(* One UPDATE of requeueExpired. *)
ExpireRow(j) ==
  /\ Expired(j)
  /\ RetryRow(j) \/ FailRow(j)

(* The clock passes lease_expires_at. *)
LeaseRunsOut(j) ==
  /\ lease[j] = "live"
  /\ lease' = [lease EXCEPT ![j] = "past"]
  /\ UNCHANGED <<status, holder, attempts, known>>

-----------------------------------------------------------------------------

StoreNext ==
  \/ \E w \in Worker : RegisterRow(w)
  \/ \E j \in Job :
       \/ InsertRow(j)
       \/ CancelRow(j)
       \/ ExpireRow(j)
       \/ LeaseRunsOut(j)
       \/ \E w \in Worker :
            \/ ClaimRow(j, w)
            \/ HeartbeatRow(j, w)
            \/ \E completed \in BOOLEAN : FinishRow(j, w, completed)

StoreSpec == StoreInit /\ [][StoreNext]_rowVars

-----------------------------------------------------------------------------

(* A row is in one of the shapes the code relies on: a lease exactly while *)
(* the job is held, a known worker while it is held, none while it waits,  *)
(* and attempts left over whenever it can still be claimed (claim itself   *)
(* never compares attempt_count with max_attempts).                        *)
RowShape(j) ==
  /\ lease[j] # "null" <=> status[j] \in Held
  /\ status[j] \in Held => holder[j] \in known
  /\ status[j] \in {"absent", "queued"} => holder[j] = NoWorker
  /\ status[j] \in {"absent", "queued"} => attempts[j] < MaxAttempts[j]
  /\ status[j] \in Held \cup {"completed", "failed"} => attempts[j] >= 1
  /\ attempts[j] <= MaxAttempts[j]

RowsConsistent == \A j \in Job : RowShape(j)

(* A finished, failed or cancelled job keeps that status, its holder and   *)
(* its attempt count for good, whatever requests arrive late.              *)
TerminalIsFinal ==
  [][\A j \in Job : status[j] \in Terminal =>
       /\ status'[j] = status[j]
       /\ holder'[j] = holder[j]
       /\ attempts'[j] = attempts[j]]_rowVars

-----------------------------------------------------------------------------

(* Refinement mapping to the abstract life cycle. *)
PhaseOf(s) ==
  CASE s = "absent" -> "unsubmitted"
    [] s = "queued" -> "waiting"
    [] s \in Held   -> "held"
    [] OTHER        -> s

Life == INSTANCE JobLifecycle WITH
  Budget <- MaxAttempts,
  phase  <- [j \in Job |-> PhaseOf(status[j])],
  owner  <- [j \in Job |-> IF status[j] \in Held THEN holder[j] ELSE NoWorker],
  grants <- attempts

(* The rows implement the promised life cycle. *)
LifecycleImplemented == Life!LifeSpec
=============================================================================
