--------------------------- MODULE JobStoreProofs ---------------------------
(***************************************************************************)
(* Proofs about the durable rows: types, the row invariant, finality of    *)
(* the terminal statuses, and the refinement of the abstract life cycle.   *)
(***************************************************************************)
EXTENDS JobStore, TLAPS

(* What one step does to the rows, whatever the step is: a row is inserted *)
(* with a job unsubmitted, claimed, kept alive, sent back, closed, or its  *)
(* lease runs out.  The invariants are proved from these six.              *)
RowStep(j) ==
  \/ InsertRow(j)
  \/ \E w \in Worker : ClaimRow(j, w) \/ HeartbeatRow(j, w)
  \/ status[j] \in Held /\ RetryRow(j)
  \/ status[j] \in Held /\ FailRow(j)
  \/ status[j] \in Held /\ CloseRow(j, "completed")
  \/ CancelRow(j)
  \/ LeaseRunsOut(j)

(* Every step of the store registers a worker or is a step of one row. *)
LEMMA StepCases ==
  StoreNext => (\E w \in Worker : RegisterRow(w)) \/ (\E j \in Job : RowStep(j))
<1>1. ASSUME NEW j \in Job, ExpireRow(j) PROVE RowStep(j)
  BY <1>1 DEF ExpireRow, Expired, RowStep
<1>2. ASSUME NEW j \in Job, NEW w \in Worker, NEW completed \in BOOLEAN,
             FinishRow(j, w, completed)
      PROVE  RowStep(j)
  BY <1>2 DEF FinishRow, HeldBy, RowStep
<1>3. ASSUME NEW j \in Job, NEW w \in Worker, ClaimRow(j, w) \/ HeartbeatRow(j, w)
      PROVE  RowStep(j)
  BY <1>3 DEF RowStep
<1>4. ASSUME NEW j \in Job, InsertRow(j) \/ CancelRow(j) \/ LeaseRunsOut(j)
      PROVE  RowStep(j)
  BY <1>4 DEF RowStep
<1> QED BY <1>1, <1>2, <1>3, <1>4, Zenon DEF StoreNext

(* The row invariant, with the types it needs, is inductive. *)
RowInv == StoreTypeOK /\ RowsConsistent

LEMMA RowInvInit == StoreInit => RowInv
  BY StoreConstants
  DEF StoreInit, RowInv, StoreTypeOK, RowsConsistent, RowShape, Status, Open, Held, Terminal

LEMMA RegisterKeepsRowInv ==
  ASSUME RowInv, NEW w \in Worker, RegisterRow(w)
  PROVE  RowInv'
  BY DEF RowInv, RegisterRow, StoreTypeOK, RowsConsistent, RowShape

LEMMA RowStepTypes ==
  ASSUME RowInv, NEW j \in Job, RowStep(j)
  PROVE  StoreTypeOK'
<1> USE StoreConstants DEF RowInv, StoreTypeOK, Status, Open, Held, Terminal
<1>1. CASE InsertRow(j)
  BY <1>1 DEF InsertRow
<1>2. ASSUME NEW w \in Worker, ClaimRow(j, w) PROVE StoreTypeOK'
  <2>1. attempts[j] + 1 \in 0..10
    BY <1>2 DEF ClaimRow, Claimable, RowsConsistent, RowShape
  <2> QED BY <1>2, <2>1 DEF ClaimRow
<1>3. ASSUME NEW w \in Worker, HeartbeatRow(j, w) PROVE StoreTypeOK'
  BY <1>3 DEF HeartbeatRow
<1>4. CASE RetryRow(j)
  BY <1>4 DEF RetryRow
<1>5. ASSUME NEW s \in Terminal, CloseRow(j, s) PROVE StoreTypeOK'
  BY <1>5 DEF CloseRow
<1>6. CASE LeaseRunsOut(j)
  BY <1>6 DEF LeaseRunsOut
<1> QED BY <1>1, <1>2, <1>3, <1>4, <1>5, <1>6 DEF RowStep, FailRow, CancelRow

LEMMA RowStepShape ==
  ASSUME RowInv, NEW j \in Job, RowStep(j)
  PROVE  RowsConsistent'
<1> USE StoreConstants
<1> SUFFICES ASSUME NEW i \in Job PROVE RowShape(i)'
  BY DEF RowsConsistent
<1>0. RowShape(i) /\ RowShape(j) /\ StoreTypeOK
  BY DEF RowInv, RowsConsistent
<1>1. CASE i # j
  <2>1. /\ status'[i] = status[i] /\ holder'[i] = holder[i]
        /\ attempts'[i] = attempts[i] /\ lease'[i] = lease[i]
        /\ known' = known
    BY <1>0, <1>1 DEF RowStep, InsertRow, ClaimRow, HeartbeatRow, RetryRow, FailRow,
                      CloseRow, CancelRow, LeaseRunsOut, StoreTypeOK
  <2> QED BY <1>0, <2>1 DEF RowShape
<1>2. CASE i = j
  <2> USE <1>0, <1>2 DEF RowShape, StoreTypeOK, Status, Open, Held, Terminal
  <2>1. CASE InsertRow(j)
    BY <2>1 DEF InsertRow
  <2>2. ASSUME NEW w \in Worker, ClaimRow(j, w) PROVE RowShape(i)'
    BY <2>2 DEF ClaimRow, Claimable
  <2>3. ASSUME NEW w \in Worker, HeartbeatRow(j, w) PROVE RowShape(i)'
    BY <2>3 DEF HeartbeatRow, HeldBy
  <2>4. CASE status[j] \in Held /\ RetryRow(j)
    BY <2>4 DEF RetryRow, ShouldRetry
  <2>5. CASE status[j] \in Held /\ FailRow(j)
    BY <2>5 DEF FailRow, CloseRow
  <2>6. CASE status[j] \in Held /\ CloseRow(j, "completed")
    BY <2>6 DEF CloseRow
  <2>7. CASE CancelRow(j)
    BY <2>7 DEF CancelRow, CloseRow
  <2>8. CASE LeaseRunsOut(j)
    BY <2>8 DEF LeaseRunsOut
  <2> QED BY <2>1, <2>2, <2>3, <2>4, <2>5, <2>6, <2>7, <2>8 DEF RowStep
<1> QED BY <1>1, <1>2

LEMMA RowInvStep == RowInv /\ [StoreNext]_rowVars => RowInv'
<1> SUFFICES ASSUME RowInv, [StoreNext]_rowVars PROVE RowInv'
  OBVIOUS
<1>1. CASE StoreNext
  BY <1>1, StepCases, RegisterKeepsRowInv, RowStepTypes, RowStepShape DEF RowInv
<1>2. CASE UNCHANGED rowVars
  BY <1>2 DEF rowVars, RowInv, StoreTypeOK, RowsConsistent, RowShape
<1> QED BY <1>1, <1>2

(* For any jobs, workers and attempt budgets, every reachable row has one  *)
(* of the shapes the code relies on: in particular attempt_count never     *)
(* exceeds max_attempts, although claim does not compare them.             *)
THEOREM RowsAreConsistent == StoreSpec => [](StoreTypeOK /\ RowsConsistent)
<1>1. RowInv => StoreTypeOK /\ RowsConsistent
  BY DEF RowInv
<1> QED BY <1>1, RowInvInit, RowInvStep, PTL DEF StoreSpec

-----------------------------------------------------------------------------

LEMMA TerminalStep ==
  ASSUME StoreTypeOK, [StoreNext]_rowVars, NEW j \in Job, status[j] \in Terminal
  PROVE  status'[j] = status[j] /\ holder'[j] = holder[j] /\ attempts'[j] = attempts[j]
<1> USE DEF StoreTypeOK
<1>1. CASE \E w \in Worker : RegisterRow(w)
  BY <1>1 DEF RegisterRow
<1>2. ASSUME NEW i \in Job, RowStep(i)
      PROVE  status'[j] = status[j] /\ holder'[j] = holder[j] /\ attempts'[j] = attempts[j]
  BY <1>2 DEF RowStep, InsertRow, ClaimRow, Claimable, HeartbeatRow, HeldBy, RetryRow, FailRow,
              CloseRow, CancelRow, LeaseRunsOut, Open, Held, Terminal
<1>3. CASE UNCHANGED rowVars
  BY <1>3 DEF rowVars
<1> QED BY <1>1, <1>2, <1>3, StepCases

(* No late heartbeat, result, cancellation or lease expiry reopens or      *)
(* rewrites a job that has ended.                                          *)
THEOREM TerminalStatusesAreFinal == StoreSpec => TerminalIsFinal
<1>1. StoreTypeOK /\ [StoreNext]_rowVars =>
        [\A j \in Job : status[j] \in Terminal =>
           /\ status'[j] = status[j]
           /\ holder'[j] = holder[j]
           /\ attempts'[j] = attempts[j]]_rowVars
  BY TerminalStep
<1> QED BY <1>1, RowsAreConsistent, PTL DEF StoreSpec, TerminalIsFinal

-----------------------------------------------------------------------------
(* The refinement: each step of a row is a step of the abstract life cycle *)
(* or leaves the abstract state alone.  RowInv supplies what the code does *)
(* not test: budget left when a job is claimed, none left when it fails.   *)

LEMMA LifeInitialised == StoreInit => Life!LifeInit
  BY StoreConstants DEF StoreInit, Life!LifeInit, PhaseOf, Held

LEMMA LifeOfRow ==
  ASSUME RowInv, NEW j \in Job, RowStep(j)
  PROVE  [Life!LifeNext]_(Life!lifeVars)
<1> USE StoreConstants DEF StoreTypeOK, PhaseOf, Status, Open, Held, Terminal
<1>0. RowShape(j) /\ StoreTypeOK
  BY DEF RowInv, RowsConsistent
<1>1. CASE InsertRow(j)
  <2>1. Life!Submit(j)
    BY <1>0, <1>1 DEF InsertRow, Life!Submit, Life!Move
  <2> QED BY <2>1 DEF Life!LifeNext
<1>2. ASSUME NEW w \in Worker, ClaimRow(j, w) PROVE Life!LifeNext
  <2>1. Life!Grant(j, w)
    BY <1>0, <1>2 DEF ClaimRow, Claimable, RowShape, Life!Grant, Life!Move
  <2> QED BY <2>1 DEF Life!LifeNext
<1>3. ASSUME NEW w \in Worker, HeartbeatRow(j, w) PROVE UNCHANGED Life!lifeVars
  BY <1>0, <1>3 DEF HeartbeatRow, HeldBy, Life!lifeVars
<1>4. CASE status[j] \in Held /\ RetryRow(j)
  <2>1. Life!Release(j)
    BY <1>0, <1>4 DEF RetryRow, ShouldRetry, Life!Release, Life!Move
  <2> QED BY <2>1 DEF Life!LifeNext
<1>5. CASE status[j] \in Held /\ FailRow(j)
  <2>1. attempts[j] = MaxAttempts[j]
    BY <1>0, <1>5 DEF FailRow, ShouldRetry, RowShape
  <2>2. Life!Release(j)
    BY <1>0, <1>5, <2>1 DEF FailRow, CloseRow, Life!Release, Life!Move
  <2> QED BY <2>2 DEF Life!LifeNext
<1>6. CASE status[j] \in Held /\ CloseRow(j, "completed")
  <2>1. Life!Release(j)
    BY <1>0, <1>6 DEF CloseRow, Life!Release, Life!Move
  <2> QED BY <2>1 DEF Life!LifeNext
<1>7. CASE CancelRow(j)
  <2>1. Life!Cancel(j)
    BY <1>0, <1>7 DEF CancelRow, CloseRow, RowShape, Life!Cancel, Life!Move
  <2> QED BY <2>1 DEF Life!LifeNext
<1>8. CASE LeaseRunsOut(j)
  BY <1>8 DEF LeaseRunsOut, Life!lifeVars
<1> QED BY <1>1, <1>2, <1>3, <1>4, <1>5, <1>6, <1>7, <1>8 DEF RowStep

(* The statements of ClusterRepository, interleaved in any way, implement  *)
(* the life cycle promised to clients: one owner at a time, at most        *)
(* max_attempts grants, one end.                                           *)
THEOREM StoreImplementsLifecycle == StoreSpec => LifecycleImplemented
<1>1. RowInv /\ [StoreNext]_rowVars => [Life!LifeNext]_(Life!lifeVars)
  <2> SUFFICES ASSUME RowInv, [StoreNext]_rowVars PROVE [Life!LifeNext]_(Life!lifeVars)
    OBVIOUS
  <2>1. CASE \E w \in Worker : RegisterRow(w)
    BY <2>1 DEF RegisterRow, Life!lifeVars
  <2>2. CASE UNCHANGED rowVars
    BY <2>2 DEF rowVars, Life!lifeVars
  <2> QED BY <2>1, <2>2, StepCases, LifeOfRow
<1> QED BY <1>1, LifeInitialised, RowInvInit, RowInvStep, PTL
        DEF StoreSpec, LifecycleImplemented, Life!LifeSpec
=============================================================================
