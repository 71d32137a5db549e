---------------------------- MODULE ClusterProofs ----------------------------
(***************************************************************************)
(* Proofs about the cluster: its master, and master and workers together.  *)
(*                                                                         *)
(* The master implements JobStore, so the row theorems hold of it; its     *)
(* calls are well formed; and four invariants relate MySQL, Redis, the     *)
(* audit trail and the requests in flight.  Whatever workers send, give up *)
(* on or repeat, the master only ever takes steps it takes alone, so these *)
(* theorems hold of the cluster; no attempt of a job is ever executed      *)
(* twice; and an acknowledged completion is one.                           *)
(***************************************************************************)
EXTENDS ClusterWorker, JobStoreProofs

(* What the rest of a call relies on once it is under way. *)
CallShape(c) ==
  /\ c.pc \in EnqueuePC \cup CancelPC \cup BeatPC \cup FinishPC
              \cup {"claim", "readClaimed", "recheck"} => c.job \in Job
  /\ c.pc \in ClaimPC \cup BeatPC \cup FinishPC \cup {"touch"} => c.worker \in Worker
  /\ c.pc \notin {"pop", "claim", "readClaimed", "recheck", "recover"} => c.deferred = {}
  /\ c.pc \in {"register", "gate"} => c.pops = 0
  /\ c.pc = "pop" => c.pops < PopLimit

TypeInv ==
  /\ MasterTypeOK
  /\ RowsConsistent
  /\ \A h \in Handler : CallShape(call[h])

-----------------------------------------------------------------------------
(* Types, and the implementation of JobStore. *)

LEMMA TypeInvInit == MasterInit => TypeInv
<1> SUFFICES ASSUME MasterInit PROVE TypeInv
  OBVIOUS
<1>1. StoreTypeOK /\ RowsConsistent
  BY RowInvInit DEF MasterInit, RowInv
<1>2. IdleCall \in Call /\ CallShape(IdleCall)
  BY DEF IdleCall, NewCall, Call, PC, CallShape, EnqueuePC, CancelPC, ClaimPC, BeatPC, FinishPC
<1>3. NoSweep \in Sweep
  BY DEF NoSweep, Sweep
<1>4. trail \in [Job -> Event]
  BY DEF MasterInit, Event
<1> QED BY <1>1, <1>2, <1>3, <1>4 DEF MasterInit, TypeInv, MasterTypeOK

(* Every step of a call does one statement of the repository or none. *)
LEMMA StepRows ==
  ASSUME TypeInv, NEW h \in Handler, Step(h)
  PROVE  StoreNext \/ UNCHANGED rowVars
<1>0. call[h] \in Call /\ CallShape(call[h])
  BY DEF TypeInv, MasterTypeOK
<1>1. CASE Insert(h)
  BY <1>0, <1>1 DEF Insert, At, CallShape, EnqueuePC, StoreNext, BeatPC, FinishPC
<1>2. CASE Register(h) \/ Touch(h)
  BY <1>0, <1>2 DEF Register, Touch, At, CallShape, ClaimPC, StoreNext, BeatPC, FinishPC
<1>3. CASE Claim(h)
  BY <1>0, <1>3 DEF Claim, At, CallShape, ClaimPC, StoreNext, BeatPC, FinishPC
<1>4. CASE Heartbeat(h)
  BY <1>0, <1>4 DEF Heartbeat, At, CallShape, StoreNext, BeatPC, FinishPC
<1>5. CASE Finish(h)
  <2>1. call[h].completed \in BOOLEAN
    BY <1>0 DEF Call
  <2> QED BY <1>0, <1>5, <2>1 DEF Finish, At, CallShape, StoreNext, BeatPC, FinishPC
<1>6. CASE CancelJob(h)
  BY <1>0, <1>6 DEF CancelJob, At, CallShape, CancelPC, StoreNext, BeatPC, FinishPC
<1>7. CASE LogQueued(h) \/ ReadJob(h) \/ Push(h) \/ Gate(h) \/ Pop(h) \/ Recheck(h)
             \/ Recover(h) \/ Remove(h) \/ LogCancelled(h) \/ ReadBack(h)
  BY <1>7 DEF LogQueued, ReadJob, Push, Gate, Pop, Recheck, Recover, Remove, LogCancelled, ReadBack
<1> QED BY <1>1, <1>2, <1>3, <1>4, <1>5, <1>6, <1>7 DEF Step

LEMMA NextRows ==
  ASSUME TypeInv, [MasterNext]_masterVars
  PROVE  [StoreNext]_rowVars
<1>1. ASSUME NEW h \in Handler, Request(h) \/ CallFails(h) \/ Reply(h)
      PROVE  UNCHANGED rowVars
  BY <1>1 DEF Request, Accept, EnqueueRequest, CancelRequest, ClaimRequest, WorkerRequest,
              HeartbeatRequest, FinishRequest, CallFails, Reply
<1>2. CASE Start \/ Crash
  BY <1>2 DEF Start, Crash
<1>3. CASE Hydrate
  BY <1>3 DEF Hydrate, RequeueExpired, LogExpired, ReadQueued, Listen, StoreNext
<1>4. ASSUME NEW j \in Job, Tick(j) PROVE StoreNext
  BY <1>4 DEF Tick, StoreNext
<1>5. CASE UNCHANGED masterVars
  BY <1>5 DEF masterVars
<1> QED BY <1>1, <1>2, <1>3, <1>4, <1>5, StepRows DEF MasterNext

(* Calls stay well formed.  Only call h moves, so one shape is to be shown. *)
CallsOK == call \in [Handler -> Call] /\ \A h \in Handler : CallShape(call[h])

LEMMA AcceptKeeps ==
  ASSUME TypeInv, NEW h \in Handler, NEW c \in Call, CallShape(c), Accept(h, c)
  PROVE  CallsOK'
  BY DEF TypeInv, MasterTypeOK, CallsOK, CallShape, Accept, BeatPC, FinishPC

LEMMA RequestCalls ==
  ASSUME TypeInv, NEW h \in Handler, Request(h)
  PROVE  CallsOK'
<1>1. ASSUME NEW j \in Job, EnqueueRequest(h, j)
      PROVE  CallsOK'
  <2> DEFINE c == NewCall("insert", j, NoWorker, FALSE)
  <2>1. c \in Call /\ CallShape(c)
    BY DEF NewCall, Call, CallShape, PC, BusyPC, EnqueuePC, ClaimPC, CancelPC, BeatPC, FinishPC
  <2> QED BY <1>1, <2>1, AcceptKeeps DEF EnqueueRequest
<1>2. ASSUME NEW j \in Job, CancelRequest(h, j)
      PROVE  CallsOK'
  <2> DEFINE c == NewCall("remove", j, NoWorker, FALSE)
  <2>1. c \in Call /\ CallShape(c)
    BY DEF NewCall, Call, CallShape, PC, BusyPC, EnqueuePC, ClaimPC, CancelPC, BeatPC, FinishPC
  <2> QED BY <1>2, <2>1, AcceptKeeps DEF CancelRequest
<1>3. ASSUME NEW w \in Worker, ClaimRequest(h, w)
      PROVE  CallsOK'
  <2> DEFINE c == NewCall("register", NoJob, w, FALSE)
  <2>1. c \in Call /\ CallShape(c)
    BY DEF NewCall, Call, CallShape, PC, BusyPC, EnqueuePC, ClaimPC, CancelPC, BeatPC, FinishPC
  <2> QED BY <1>3, <2>1, AcceptKeeps DEF ClaimRequest
<1>4. ASSUME NEW w \in Worker, WorkerRequest(h, w)
      PROVE  CallsOK'
  <2> DEFINE c == NewCall("touch", NoJob, w, FALSE)
  <2>1. c \in Call /\ CallShape(c)
    BY DEF NewCall, Call, CallShape, PC, BusyPC, EnqueuePC, ClaimPC, CancelPC, BeatPC, FinishPC
  <2> QED BY <1>4, <2>1, AcceptKeeps DEF WorkerRequest
<1>5. ASSUME NEW j \in Job, NEW w \in Worker, HeartbeatRequest(h, j, w)
      PROVE  CallsOK'
  <2> DEFINE c == NewCall("heartbeat", j, w, FALSE)
  <2>1. c \in Call /\ CallShape(c)
    BY DEF NewCall, Call, CallShape, PC, BusyPC, EnqueuePC, ClaimPC, CancelPC, BeatPC, FinishPC
  <2> QED BY <1>5, <2>1, AcceptKeeps DEF HeartbeatRequest
<1>6. ASSUME NEW j \in Job, NEW w \in Worker, NEW completed \in BOOLEAN,
             FinishRequest(h, j, w, completed)
      PROVE  CallsOK'
  <2> DEFINE c == NewCall("finish", j, w, completed)
  <2>1. c \in Call /\ CallShape(c)
    BY DEF NewCall, Call, CallShape, PC, BusyPC, EnqueuePC, ClaimPC, CancelPC, BeatPC, FinishPC
  <2> QED BY <1>6, <2>1, AcceptKeeps DEF FinishRequest
<1> QED BY <1>1, <1>2, <1>3, <1>4, <1>5, <1>6 DEF Request

(* The two steps that write several fields of their call. *)
LEMMA PoppedCallType ==
  ASSUME call \in [Handler -> Call], NEW h \in Handler,
         NEW p \in PC, NEW j \in Job, call[h].pops + 1 \in 0..25,
         call' = [call EXCEPT ![h].pc = p, ![h].job = j, ![h].pops = @ + 1]
  PROVE  call' \in [Handler -> Call]
  BY DEF Call

LEMMA RecoveredCallType ==
  ASSUME call \in [Handler -> Call], NEW h \in Handler,
         NEW p \in PC, NEW d \in SUBSET Job, NEW ok \in BOOLEAN,
         call' = [call EXCEPT ![h] = [@ EXCEPT !.pc = p, !.deferred = d, !.ok = ok]]
  PROVE  call' \in [Handler -> Call]
  BY DEF Call

LEMMA PopCalls ==
  ASSUME TypeInv, NEW h \in Handler, NEW j \in Job, call[h].pc = "pop", PopHead(h, j)
  PROVE  CallsOK'
<1>1. call \in [Handler -> Call] /\ call[h] \in Call /\ CallsOK
  BY DEF TypeInv, MasterTypeOK, CallsOK
<1>2. call[h].pops + 1 \in 0..25
  <2>1. call[h].pops \in 0..25
    BY <1>1 DEF Call
  <2>2. call[h].pops < PopLimit /\ PopLimit \in 1..25
    BY <1>1, MasterConstants DEF CallsOK, CallShape, BeatPC, FinishPC
  <2> QED BY <2>1, <2>2
<1>3. "claim" \in PC
  BY DEF PC, BusyPC, ClaimPC
<1>4. call' \in [Handler -> Call]
  BY <1>1, <1>2, <1>3, PoppedCallType DEF PopHead
<1>5. CallShape(call'[h])
  <2>1. /\ call'[h].pc = "claim" /\ call'[h].job = j /\ call'[h].worker = call[h].worker
    BY <1>1 DEF Call, PopHead
  <2> QED BY <1>1, <2>1 DEF CallsOK, CallShape, EnqueuePC, CancelPC, ClaimPC, BeatPC, FinishPC
<1> QED BY <1>1, <1>4, <1>5 DEF CallsOK, CallShape, PopHead, BeatPC, FinishPC

(* A re-read ticket leaves the call's worker and its count alone, and forgets the job. *)
LEMMA RecheckedCall ==
  ASSUME call \in [Handler -> Call], NEW h \in Handler, NEW p \in PC,
         NEW D \in SUBSET Job, NEW m \in Job \cup {NoJob},
         call' = [call EXCEPT ![h].pc = p, ![h].job = m, ![h].deferred = D]
  PROVE  /\ call' \in [Handler -> Call]
         /\ call'[h].pc = p
         /\ call'[h].worker = call[h].worker
         /\ call'[h].pops = call[h].pops
<1> DEFINE c == call[h]
           n == [c EXCEPT !.pc = p, !.job = m, !.deferred = D]
<1>1. c \in Call
  OBVIOUS
<1>2. call' = [call EXCEPT ![h] = n] /\ call'[h] = n
  OBVIOUS
<1>3. n \in Call /\ n.pc = p /\ n.worker = c.worker /\ n.pops = c.pops
  <2> HIDE DEF c
  <2> QED BY <1>1 DEF Call
<1>4. call' \in [Handler -> Call]
  <2> HIDE DEF n
  <2> QED BY <1>2, <1>3
<1> QED BY <1>2, <1>3, <1>4

LEMMA RecheckCalls ==
  ASSUME TypeInv, NEW h \in Handler, Recheck(h)
  PROVE  CallsOK'
<1> DEFINE p == IF call[h].pops < PopLimit THEN "pop" ELSE "recover"
           D == IF call[h].job \in Queued THEN call[h].deferred \cup {call[h].job}
                ELSE call[h].deferred
<1>1. call \in [Handler -> Call] /\ call[h] \in Call /\ CallsOK
  BY DEF TypeInv, MasterTypeOK, CallsOK
<1>2. call[h].pc = "recheck"
  BY DEF Recheck, At
<1>3. call[h].job \in Job /\ call[h].worker \in Worker
  BY <1>1, <1>2 DEF CallsOK, CallShape, ClaimPC, BeatPC, FinishPC
<1>4. D \in SUBSET Job
  BY <1>1, <1>3 DEF Call
<1>5. p \in PC /\ p \in {"pop", "recover"}
  BY DEF PC, BusyPC, ClaimPC
<1>6. call' = [call EXCEPT ![h].pc = p, ![h].job = NoJob, ![h].deferred = D]
  BY <1>1 DEF Recheck
<1>7. /\ call' \in [Handler -> Call]
      /\ call'[h].pc = p
      /\ call'[h].worker = call[h].worker
      /\ call'[h].pops = call[h].pops
  <2> HIDE DEF p, D
  <2> QED BY <1>1, <1>4, <1>5, <1>6, RecheckedCall
<1>8. p = "pop" => call[h].pops < PopLimit
  OBVIOUS
<1>9. CallShape(call'[h])
  <2> HIDE DEF p, D
  <2> QED BY <1>3, <1>5, <1>7, <1>8 DEF CallShape, EnqueuePC, CancelPC, BeatPC, FinishPC
<1>10. ASSUME NEW g \in Handler, g # h PROVE CallShape(call'[g])
  <2>1. call'[g] = call[g]
    <3> HIDE DEF p, D
    <3> QED BY <1>1, <1>6, <1>10
  <2> QED BY <1>1, <2>1 DEF CallsOK
<1> QED BY <1>7, <1>9, <1>10 DEF CallsOK

LEMMA StepCalls ==
  ASSUME TypeInv, StoreTypeOK', NEW h \in Handler, Step(h)
  PROVE  CallsOK'
<1> USE MasterConstants
    DEF TypeInv, MasterTypeOK, CallsOK, Call, CallShape, PC, BusyPC, EnqueuePC, ClaimPC,
        CancelPC, At, Goto, Respond, BeatPC, FinishPC
<1>1. CASE Insert(h)
  BY <1>1 DEF Insert
<1>2. CASE LogQueued(h) \/ ReadJob(h) \/ Push(h)
  BY <1>2 DEF LogQueued, ReadJob, Push
<1>3. CASE Register(h) \/ Gate(h)
  <2>1. CASE Register(h)
    BY <2>1 DEF Register
  <2>2. CASE Gate(h)
    BY <2>2 DEF Gate
  <2> QED BY <1>3, <2>1, <2>2
<1>4. CASE Pop(h)
  <2>0. call[h] \in Call /\ call[h].pc = "pop"
    BY <1>4 DEF Pop
  <2>1. CASE Goto(h, "recover")
    BY <2>0, <2>1
  <2>2. ASSUME NEW j \in Heads, PopHead(h, j) PROVE CallsOK'
    <3>1. j \in Job
      BY DEF Heads
    <3> HIDE DEF CallsOK, TypeInv
    <3> QED BY <2>0, <2>2, <3>1, PopCalls
  <2> QED BY <1>4, <2>1, <2>2 DEF Pop
<1>5. CASE Claim(h)
  BY <1>5 DEF Claim, StoreTypeOK
<1>6. CASE Recheck(h)
  <2> HIDE DEF CallsOK, TypeInv
  <2> QED BY <1>6, RecheckCalls
<1>7. CASE Recover(h)
  <2>1. call' \in [Handler -> Call]
    <3> HIDE DEF Call, PC
    <3>1. call \in [Handler -> Call] /\ "reply" \in PC
      BY DEF PC
    <3> QED BY <1>7, <3>1, RecoveredCallType DEF Recover
  <2>2. call'[h].pc = "reply" /\ call'[h].deferred = {}
    BY <1>7 DEF Recover
  <2> QED BY <1>7, <2>1, <2>2 DEF Recover
<1>8. CASE Touch(h) \/ Heartbeat(h)
  BY <1>8 DEF Touch, Heartbeat
<1>9. CASE Finish(h)
  BY <1>9 DEF Finish
<1>10. CASE Remove(h) \/ CancelJob(h) \/ LogCancelled(h)
  BY <1>10 DEF Remove, CancelJob, LogCancelled
<1>11. CASE ReadBack(h)
  BY <1>11 DEF ReadBack
<1> QED BY <1>1, <1>2, <1>3, <1>4, <1>5, <1>6, <1>7, <1>8, <1>9, <1>10, <1>11 DEF Step

LEMMA NextCalls ==
  ASSUME TypeInv, StoreTypeOK', [MasterNext]_masterVars
  PROVE  CallsOK'
<1>0. CallsOK
  BY DEF TypeInv, MasterTypeOK, CallsOK
<1>1. ASSUME NEW h \in Handler, CallFails(h) PROVE CallsOK'
  <2> DEFINE c == NewCall("reply", NoJob, NoWorker, FALSE)
  <2>1. c \in Call /\ CallShape(c)
    BY DEF NewCall, Call, CallShape, PC, BusyPC, EnqueuePC, ClaimPC, CancelPC, BeatPC, FinishPC
  <2> QED BY <1>0, <1>1, <2>1 DEF CallFails, CallsOK, CallShape, BeatPC, FinishPC
<1>2. IdleCall \in Call /\ CallShape(IdleCall)
  BY DEF IdleCall, NewCall, Call, PC, CallShape, EnqueuePC, CancelPC, ClaimPC, BeatPC, FinishPC
<1>3. ASSUME NEW h \in Handler, Reply(h) PROVE CallsOK'
  BY <1>0, <1>2, <1>3 DEF Reply, CallsOK, CallShape, BeatPC, FinishPC
<1>4. CASE Crash
  BY <1>2, <1>4 DEF Crash, CallsOK, CallShape, BeatPC, FinishPC
<1>5. ASSUME UNCHANGED call PROVE CallsOK'
  BY <1>0, <1>5 DEF CallsOK, CallShape, BeatPC, FinishPC
<1>6. Start \/ Hydrate \/ (\E j \in Job : Tick(j)) \/ UNCHANGED masterVars => UNCHANGED call
  BY DEF Start, Hydrate, RequeueExpired, LogExpired, ReadQueued, Listen, Tick, masterVars
<1> QED BY <1>1, <1>3, <1>4, <1>5, <1>6, RequestCalls, StepCalls DEF MasterNext

(* The other variables of the master. *)
SharedOK ==
  /\ queue \subseteq Job
  /\ trail \in [Job -> Event]
  /\ master \in {"down", "expiring", "restoring", "up"}
  /\ sweep \in Sweep
  /\ stranded \subseteq Job

LEMMA StepShared ==
  ASSUME TypeInv, StoreTypeOK', NEW h \in Handler, Step(h)
  PROVE  SharedOK'
<1> USE DEF SharedOK, At
<1>0. SharedOK /\ call[h] \in Call /\ CallShape(call[h])
  BY DEF TypeInv, MasterTypeOK
<1>1. CASE Insert(h) \/ ReadJob(h) \/ Register(h) \/ Gate(h) \/ Recheck(h) \/ Touch(h)
             \/ Heartbeat(h) \/ CancelJob(h) \/ ReadBack(h)
  BY <1>0, <1>1
     DEF Insert, ReadJob, Register, Gate, Recheck, Touch, Heartbeat, CancelJob, ReadBack
<1>2. CASE LogQueued(h) \/ LogCancelled(h)
  BY <1>0, <1>2 DEF LogQueued, LogCancelled, ReadBack, Log, Event
<1>3. CASE Push(h)
  BY <1>0, <1>3 DEF Push, CallShape, EnqueuePC, BeatPC, FinishPC
<1>4. CASE Pop(h) \/ Remove(h)
  BY <1>0, <1>4 DEF Pop, PopHead, Remove
<1>5. CASE Claim(h)
  BY <1>0, <1>5 DEF Claim, Log, Event
<1>6. CASE Recover(h)
  BY <1>0, <1>6 DEF Recover, Call
<1>7. CASE Finish(h)
  <2>1. ASSUME FinishRow(call[h].job, call[h].worker, call[h].completed)
        PROVE  status'[call[h].job] \in {"completed", "queued", "failed"}
    <3>1. status \in [Job -> Status] /\ call[h].job \in Job
      BY <1>0, <1>7 DEF TypeInv, MasterTypeOK, StoreTypeOK, CallShape, Finish, BeatPC, FinishPC
    <3> QED BY <2>1, <3>1 DEF FinishRow, CloseRow, RetryRow, FailRow
  <2> QED BY <1>0, <1>7, <2>1 DEF Finish, Log, Event
<1> QED BY <1>1, <1>2, <1>3, <1>4, <1>5, <1>6, <1>7 DEF Step

LEMMA NextShared ==
  ASSUME TypeInv, StoreTypeOK', [MasterNext]_masterVars
  PROVE  SharedOK'
<1>0. SharedOK /\ \A h \in Handler : call[h] \in Call
  BY DEF TypeInv, MasterTypeOK, SharedOK
<1>1. ASSUME NEW h \in Handler, Request(h) \/ Reply(h) PROVE SharedOK'
  BY <1>0, <1>1 DEF SharedOK, Request, Accept, EnqueueRequest, CancelRequest, ClaimRequest,
                    WorkerRequest, HeartbeatRequest, FinishRequest, Reply
<1>2. ASSUME NEW h \in Handler, CallFails(h) PROVE SharedOK'
  <2>1. Carried(h) \subseteq Job
    BY <1>0 DEF Carried, TypeInv, CallShape, EnqueuePC, CancelPC, Call, BeatPC, FinishPC
  <2> QED BY <1>0, <1>2, <2>1 DEF SharedOK, CallFails
<1>3. NoSweep \in Sweep
  BY DEF NoSweep, Sweep
<1>4. CASE Start
  BY <1>0, <1>4 DEF SharedOK, Start, NoSweep, Sweep
<1>5. CASE Crash
  BY <1>0, <1>3, <1>5 DEF SharedOK, Crash
<1>6. CASE Hydrate
  <2>1. ASSUME NEW j \in Job, RequeueExpired(j) PROVE SharedOK'
    BY <1>0, <2>1 DEF SharedOK, RequeueExpired, Sweep
  <2>2. CASE LogExpired
    BY <1>0, <2>2 DEF SharedOK, LogExpired, Sweep, Log, Event
  <2>3. CASE ReadQueued
    BY <1>0, <2>3 DEF SharedOK, ReadQueued, Sweep, Queued
  <2>4. CASE Listen
    BY <1>0, <1>3, <2>4 DEF SharedOK, Listen, Sweep
  <2> QED BY <1>6, <2>1, <2>2, <2>3, <2>4 DEF Hydrate
<1>7. CASE (\E j \in Job : Tick(j)) \/ UNCHANGED masterVars
  BY <1>0, <1>7 DEF SharedOK, Tick, masterVars
<1> QED BY <1>1, <1>2, <1>4, <1>5, <1>6, <1>7, StepShared DEF MasterNext

LEMMA TypeInvStep == TypeInv /\ [MasterNext]_masterVars => TypeInv'
<1> SUFFICES ASSUME TypeInv, [MasterNext]_masterVars PROVE TypeInv'
  OBVIOUS
<1>1. (StoreTypeOK /\ RowsConsistent)'
  BY NextRows, RowInvStep DEF RowInv, TypeInv, MasterTypeOK
<1>2. SharedOK' /\ CallsOK'
  BY <1>1, NextShared, NextCalls
<1> QED BY <1>1, <1>2 DEF TypeInv, MasterTypeOK, SharedOK, CallsOK

(* Types of the whole master, for any number of jobs, workers and requests *)
(* in flight.                                                              *)
THEOREM MasterTypesCorrect == MasterSpec => []MasterTypeOK
<1>1. TypeInv => MasterTypeOK
  BY DEF TypeInv
<1> QED BY <1>1, TypeInvInit, TypeInvStep, PTL DEF MasterSpec

(* However the requests of the master interleave, fail or are cut short by *)
(* a crash, the rows move only by the statements of JobStore.              *)
THEOREM MasterImplementsStore == MasterSpec => StoreSpec
<1>1. MasterInit => StoreInit
  BY DEF MasterInit
<1>2. TypeInv /\ [MasterNext]_masterVars => [StoreNext]_rowVars
  BY NextRows
<1> QED BY <1>1, <1>2, TypeInvInit, TypeInvStep, PTL DEF MasterSpec, StoreSpec

(* Hence the promised life cycle is what clients of the master observe.    *)
THEOREM MasterImplementsLifecycle == MasterSpec => LifecycleImplemented
  BY MasterImplementsStore, StoreImplementsLifecycle, PTL

-----------------------------------------------------------------------------
(* Queue coverage.  A step of call h may move an id between Redis and the  *)
(* call, and may bring a job to "queued" only while it carries its id.     *)

CarryPC == {"logQueued", "readJob", "readRequeued", "push", "claim", "recheck", "cancel"}

LEMMA CarriedIs ==
  ASSUME NEW h \in Handler, NEW i
  PROVE  /\ i \in Carried(h) <=>
              i \in call[h].deferred \/ (call[h].pc \in CarryPC /\ i = call[h].job)
         /\ i \in Carried(h)' <=>
              i \in call'[h].deferred \/ (call'[h].pc \in CarryPC /\ i = call'[h].job)
  BY DEF Carried, CarryPC

LEMMA GotoFields ==
  ASSUME call \in [Handler -> Call], NEW h \in Handler, NEW p, Goto(h, p)
  PROVE  call'[h].pc = p /\ call'[h].job = call[h].job /\ call'[h].deferred = call[h].deferred
  BY DEF Goto, Call

LEMMA RespondFields ==
  ASSUME call \in [Handler -> Call], NEW h \in Handler, NEW ok \in BOOLEAN, Respond(h, ok)
  PROVE  call'[h].pc = "reply" /\ call'[h].job = call[h].job /\ call'[h].deferred = call[h].deferred
  BY DEF Respond, Call

LEMMA StepCarries ==
  ASSUME TypeInv, StoreTypeOK', NEW h \in Handler, Step(h), NEW i \in Job, status'[i] = "queued"
  PROVE  \/ i \in Carried(h)'
         \/ status[i] = "queued" /\ (i \in queue \cup Carried(h) => i \in queue')
<1>0. /\ call \in [Handler -> Call] /\ CallShape(call[h])
      /\ status \in [Job -> Status] /\ call[h].deferred \subseteq Job
  BY DEF TypeInv, MasterTypeOK, StoreTypeOK, Call
<1>q. queue \subseteq Job
  BY DEF TypeInv, MasterTypeOK
<1>c. /\ i \in Carried(h) <=>
           i \in call[h].deferred \/ (call[h].pc \in CarryPC /\ i = call[h].job)
      /\ i \in Carried(h)' <=>
           i \in call'[h].deferred \/ (call'[h].pc \in CarryPC /\ i = call'[h].job)
  BY CarriedIs
<1>g. ASSUME NEW p, Goto(h, p)
      PROVE  call'[h].pc = p /\ call'[h].job = call[h].job /\ call'[h].deferred = call[h].deferred
  BY <1>0, <1>g, GotoFields
<1>r. ASSUME NEW ok \in BOOLEAN, Respond(h, ok)
      PROVE  /\ call'[h].pc = "reply" /\ call'[h].job = call[h].job
             /\ call'[h].deferred = call[h].deferred
  BY <1>0, <1>r, RespondFields
<1>1. CASE Insert(h)
  BY <1>0, <1>c, <1>g, <1>1 DEF Insert, InsertRow, At, CarryPC, rowVars, CallShape, EnqueuePC,
                                BeatPC, FinishPC
<1>2. CASE LogQueued(h)
  BY <1>0, <1>c, <1>g, <1>2 DEF LogQueued, At, CarryPC, rowVars
<1>3. CASE ReadJob(h)
  BY <1>0, <1>c, <1>g, <1>r, <1>3 DEF ReadJob, At, CarryPC, rowVars, CallShape, Queued, BeatPC,
                                      FinishPC
<1>4. CASE Push(h)
  BY <1>0, <1>c, <1>r, <1>4 DEF Push, At, CarryPC, rowVars, CallShape, BeatPC, FinishPC
<1>5. CASE Register(h) \/ Touch(h)
  BY <1>0, <1>c, <1>g, <1>r, <1>5 DEF Register, Touch, RegisterRow, At, CarryPC, rowVars,
                                      CallShape, BeatPC, FinishPC
<1>6. CASE Gate(h)
  BY <1>0, <1>c, <1>g, <1>r, <1>6 DEF Gate, At, CarryPC, rowVars, CallShape, BeatPC, FinishPC
<1>7. CASE Pop(h)
  <2>1. CASE queue = {} /\ Goto(h, "recover") /\ UNCHANGED queue
    BY <1>0, <1>c, <1>g, <1>7, <2>1 DEF Pop, At, CarryPC, rowVars
  <2>2. ASSUME NEW j \in Heads, PopHead(h, j)
        PROVE  \/ i \in Carried(h)'
               \/ status[i] = "queued" /\ (i \in queue \cup Carried(h) => i \in queue')
    <3>1. call'[h].pc = "claim" /\ call'[h].job = j /\ call'[h].deferred = call[h].deferred
      BY <1>0, <2>2 DEF PopHead, Call
    <3> QED BY <1>0, <1>c, <1>7, <2>2, <3>1 DEF Pop, PopHead, At, CarryPC, rowVars
  <2> QED BY <1>7, <2>1, <2>2 DEF Pop
<1>8. CASE Claim(h)
  <2>1. CASE Claimable(call[h].job, call[h].worker)
    <3>1. status' = [status EXCEPT ![call[h].job] = "claimed"]
      BY <1>8, <2>1 DEF Claim, ClaimRow
    <3>2. call'[h].deferred = call[h].deferred
      BY <1>0, <1>8, <2>1 DEF Claim, Call
    <3> QED BY <1>0, <1>c, <1>8, <3>1, <3>2 DEF Claim, At, CarryPC, rowVars, CallShape, BeatPC,
                                                FinishPC
  <2>2. CASE ~Claimable(call[h].job, call[h].worker)
    BY <1>0, <1>c, <1>g, <1>8, <2>2 DEF Claim, ClaimRow, At, CarryPC, rowVars
  <2> QED BY <2>1, <2>2
<1>9. CASE Recheck(h)
  <2>1. call'[h].deferred = IF call[h].job \in Queued THEN call[h].deferred \cup {call[h].job}
                            ELSE call[h].deferred
    BY <1>0, <1>9 DEF Recheck, Call
  <2> QED BY <1>0, <1>c, <1>9, <2>1 DEF Recheck, At, CarryPC, rowVars, Queued
<1>10. CASE Recover(h)
  BY <1>0, <1>c, <1>10 DEF Recover, At, CarryPC, rowVars
<1>11. CASE Heartbeat(h)
  BY <1>0, <1>c, <1>g, <1>r, <1>11 DEF Heartbeat, HeartbeatRow, At, CarryPC, rowVars, CallShape,
                                       BeatPC, FinishPC
<1>12. CASE Finish(h)
  <2> DEFINE j == call[h].job
  <2>1. j \in Job /\ call[h].pc = "finish" /\ call[h].deferred = {}
    BY <1>0, <1>12 DEF Finish, At, CallShape, BeatPC, FinishPC
  <2>2. CASE HeldBy(j, call[h].worker)
    <3>1. status' = [status EXCEPT ![j] = status'[j]]
      BY <1>0, <1>12, <2>1, <2>2 DEF Finish, FinishRow, RetryRow, FailRow, CloseRow
    <3>2. CASE status'[j] = "queued"
      BY <1>0, <1>c, <1>g, <1>12, <2>1, <2>2, <3>1, <3>2 DEF Finish, CarryPC, rowVars
    <3>3. CASE status'[j] # "queued"
      BY <1>0, <1>c, <1>12, <2>1, <2>2, <3>1, <3>3 DEF Finish, At, CarryPC, rowVars
    <3> QED BY <3>2, <3>3
  <2>3. CASE ~HeldBy(j, call[h].worker)
    BY <1>0, <1>c, <1>12, <2>1, <2>3 DEF Finish, FinishRow, CarryPC, rowVars
  <2> QED BY <2>2, <2>3
<1>13. CASE Remove(h)
  BY <1>0, <1>c, <1>g, <1>13 DEF Remove, At, CarryPC, rowVars
<1>14. CASE CancelJob(h)
  <2> DEFINE j == call[h].job
  <2>1. j \in Job /\ call[h].pc = "cancel" /\ call[h].deferred = {}
    BY <1>0, <1>14 DEF CancelJob, At, CallShape, CancelPC, BeatPC, FinishPC
  <2>2. status' = status \/ status' = [status EXCEPT ![j] = "cancelled"]
    BY <1>14 DEF CancelJob, CancelRow, CloseRow, rowVars
  <2>3. status'[j] # "queued" /\ queue' = queue
    BY <1>0, <1>14, <2>1 DEF CancelJob, CancelRow, CloseRow, Open, rowVars
  <2> QED BY <1>0, <1>c, <2>1, <2>2, <2>3 DEF CarryPC
<1>15. CASE LogCancelled(h)
  BY <1>0, <1>c, <1>g, <1>15 DEF LogCancelled, At, CarryPC, rowVars, CallShape, BeatPC, FinishPC
<1>16. CASE ReadBack(h)
  BY <1>0, <1>c, <1>g, <1>r, <1>16
     DEF ReadBack, At, CarryPC, rowVars, CallShape, BeatPC, FinishPC
<1> QED BY <1>1, <1>2, <1>3, <1>4, <1>5, <1>6, <1>7, <1>8, <1>9, <1>10, <1>11, <1>12, <1>13,
           <1>14, <1>15, <1>16 DEF Step

(* A step moves its own call only. *)
LEMMA OthersUnmoved ==
  ASSUME call \in [Handler -> Call], NEW h \in Handler, NEW g \in Handler, g # h,
         Step(h) \/ Request(h) \/ CallFails(h) \/ Reply(h)
  PROVE  call'[g] = call[g] /\ Carried(g)' = Carried(g)
<1>1. CASE Step(h)
  BY <1>1 DEF Step, Insert, LogQueued, ReadJob, Push, Register, Gate, Pop, PopHead, Claim, Recheck,
              Recover, Touch, Heartbeat, Finish, Remove, CancelJob, LogCancelled, ReadBack, Goto,
              Respond,
              Carried
<1>2. CASE Request(h)
  BY <1>2 DEF Request, Accept, EnqueueRequest, CancelRequest, ClaimRequest, WorkerRequest,
              HeartbeatRequest, FinishRequest, Carried
<1>3. CASE CallFails(h) \/ Reply(h)
  BY <1>3 DEF CallFails, Reply, Carried
<1> QED BY <1>1, <1>2, <1>3

(* Requests are in flight only while the master serves. *)
Quiet == master # "up" => \A h \in Handler : call[h].pc = "idle"

LEMMA BusyMeansUp ==
  ASSUME Quiet, NEW h \in Handler, Step(h) \/ Request(h) \/ CallFails(h) \/ Reply(h)
  PROVE  master = "up" /\ UNCHANGED <<master, sweep>>
<1>1. CASE Step(h)
  <2>1. call[h].pc # "idle"
    BY <1>1 DEF Step, Insert, LogQueued, ReadJob, Push, Register, Gate, Pop, Claim, Recheck,
                Recover, Touch, Heartbeat, Finish, Remove, CancelJob, LogCancelled, ReadBack, At
  <2>2. UNCHANGED <<master, sweep>>
    BY <1>1 DEF Step, Insert, LogQueued, ReadJob, Push, Register, Gate, Pop, Claim, Recheck,
                Recover, Touch, Heartbeat, Finish, Remove, CancelJob, LogCancelled, ReadBack, At
  <2> QED BY <2>1, <2>2 DEF Quiet
<1>2. CASE Request(h)
  BY <1>2 DEF Request, Accept, EnqueueRequest, CancelRequest, ClaimRequest, WorkerRequest,
              HeartbeatRequest, FinishRequest
<1>3. CASE CallFails(h) \/ Reply(h)
  BY <1>3 DEF Quiet, CallFails, Reply, BusyPC, EnqueuePC, ClaimPC, CancelPC, BeatPC, FinishPC
<1> QED BY <1>1, <1>2, <1>3

LEMMA QuietStep ==
  ASSUME TypeInv, Quiet, [MasterNext]_masterVars
  PROVE  Quiet'
<1>1. ASSUME NEW h \in Handler, Step(h) \/ Request(h) \/ CallFails(h) \/ Reply(h) PROVE Quiet'
  BY <1>1, BusyMeansUp DEF Quiet
<1>2. CASE Start \/ Hydrate \/ (\E j \in Job : Tick(j)) \/ UNCHANGED masterVars
  BY <1>2 DEF Quiet, Start, Hydrate, RequeueExpired, LogExpired, ReadQueued, Listen, Tick,
              masterVars
<1>3. CASE Crash
  BY <1>3 DEF Quiet, Crash, IdleCall, NewCall
<1> QED BY <1>1, <1>2, <1>3 DEF MasterNext

RestoreComplete == master = "restoring" => Queued \subseteq sweep.restore

CoverInv == Quiet /\ RestoreComplete /\ QueueCoverage

LEMMA CoverInit == MasterInit => CoverInv
  BY DEF MasterInit, CoverInv, Quiet, RestoreComplete, QueueCoverage, IdleCall, NewCall

LEMMA RestoreStep ==
  ASSUME TypeInv, Quiet, RestoreComplete, [MasterNext]_masterVars
  PROVE  RestoreComplete'
<1>1. ASSUME NEW h \in Handler, Step(h) \/ Request(h) \/ CallFails(h) \/ Reply(h)
      PROVE  RestoreComplete'
  BY <1>1, BusyMeansUp DEF RestoreComplete
<1>2. CASE Start \/ Crash \/ Listen \/ LogExpired \/ \E j \in Job : RequeueExpired(j)
  BY <1>2 DEF RestoreComplete, Start, Crash, Listen, LogExpired, RequeueExpired
<1>3. CASE ReadQueued
  BY <1>3 DEF RestoreComplete, ReadQueued, Queued, rowVars, TypeInv, MasterTypeOK, Sweep
<1>4. CASE (\E j \in Job : Tick(j)) \/ UNCHANGED masterVars
  BY <1>4 DEF RestoreComplete, Tick, LeaseRunsOut, Queued, masterVars, rowVars
<1> QED BY <1>1, <1>2, <1>3, <1>4 DEF MasterNext, Hydrate

(* Covered(i): job i can be found again. *)
Covered(i) == i \in queue \/ i \in stranded \/ \E h \in Handler : i \in Carried(h)

LEMMA CoverageStep ==
  ASSUME TypeInv, TypeInv', CoverInv, [MasterNext]_masterVars
  PROVE  QueueCoverage'
<1> SUFFICES ASSUME master' = "up", NEW i \in Job, status'[i] = "queued" PROVE Covered(i)'
  BY DEF QueueCoverage, Queued, Covered
<1>0. call \in [Handler -> Call] /\ \A h \in Handler : CallShape(call[h])
  BY DEF TypeInv, MasterTypeOK
<1>c. ASSUME master = "up", status[i] = "queued" PROVE Covered(i)
  BY <1>c DEF CoverInv, QueueCoverage, Queued, Covered
<1>1. ASSUME NEW h \in Handler, Step(h) PROVE Covered(i)'
  <2>1. master = "up" /\ stranded' = stranded
    BY <1>1, BusyMeansUp
       DEF CoverInv, Step, Insert, LogQueued, ReadJob, Push, Register, Gate, Pop, Claim, Recheck,
           Recover, Touch, Heartbeat, Finish, Remove, CancelJob, LogCancelled, ReadBack, At
  <2>2. \A g \in Handler : g # h => Carried(g)' = Carried(g)
    BY <1>0, <1>1, OthersUnmoved
  <2>3. \/ i \in Carried(h)'
        \/ status[i] = "queued" /\ (i \in queue \cup Carried(h) => i \in queue')
    BY <1>1, StepCarries DEF TypeInv, MasterTypeOK
  <2> QED BY <1>c, <2>1, <2>2, <2>3 DEF Covered
<1>2. ASSUME NEW h \in Handler, Request(h) \/ Reply(h) PROVE Covered(i)'
  <2>1. call[h].pc \in {"idle", "reply"} /\ UNCHANGED <<rowVars, queue, master, stranded>>
    BY <1>2 DEF Request, Accept, EnqueueRequest, CancelRequest, ClaimRequest, WorkerRequest,
                HeartbeatRequest, FinishRequest, Reply
  <2>2. i \notin Carried(h)
    BY <1>0, <2>1 DEF Carried, CallShape, BeatPC, FinishPC
  <2>3. \A g \in Handler : g # h => Carried(g)' = Carried(g)
    BY <1>0, <1>2, OthersUnmoved
  <2> QED BY <1>c, <2>1, <2>2, <2>3 DEF Covered, rowVars
<1>3. ASSUME NEW h \in Handler, CallFails(h) PROVE Covered(i)'
  <2>1. UNCHANGED <<rowVars, queue, master>> /\ stranded' = stranded \cup Carried(h)
    BY <1>3 DEF CallFails
  <2>2. \A g \in Handler : g # h => Carried(g)' = Carried(g)
    BY <1>0, <1>3, OthersUnmoved
  <2> QED BY <1>c, <2>1, <2>2 DEF Covered, rowVars
<1>4. CASE Listen
  BY <1>4 DEF Listen, Covered, CoverInv, RestoreComplete, Queued, rowVars
<1>5. CASE Start \/ Crash \/ LogExpired \/ ReadQueued \/ \E j \in Job : RequeueExpired(j)
  BY <1>5 DEF Start, Crash, LogExpired, ReadQueued, RequeueExpired
<1>6. CASE (\E j \in Job : Tick(j)) \/ UNCHANGED masterVars
  <2>1. UNCHANGED <<status, queue, master, stranded, call>>
    BY <1>6 DEF Tick, LeaseRunsOut, masterVars, rowVars
  <2> QED BY <1>c, <2>1 DEF Covered, Carried
<1> QED BY <1>1, <1>2, <1>3, <1>4, <1>5, <1>6 DEF MasterNext, Hydrate

LEMMA CoverStep ==
  TypeInv /\ TypeInv' /\ CoverInv /\ [MasterNext]_masterVars => CoverInv'
  BY QuietStep, RestoreStep, CoverageStep DEF CoverInv

(* While the master serves, every queued job is in Redis, in the hands of  *)
(* a request, or on record as dropped by a failed one.                     *)
THEOREM QueuedJobsAreCovered == MasterSpec => []QueueCoverage
<1>1. CoverInv => QueueCoverage
  BY DEF CoverInv
<1> QED BY <1>1, CoverInit, CoverStep, TypeInvInit, TypeInvStep, PTL DEF MasterSpec

-----------------------------------------------------------------------------
(* No dangling entries. *)

LEMMA RowsGrow ==
  ASSUME StoreTypeOK, [StoreNext]_rowVars
  PROVE  Inserted \subseteq Inserted'
<1> USE DEF Inserted, StoreTypeOK
<1>1. CASE \E w \in Worker : RegisterRow(w)
  BY <1>1 DEF RegisterRow
<1>2. ASSUME NEW j \in Job, RowStep(j) PROVE Inserted \subseteq Inserted'
  BY <1>2 DEF RowStep, InsertRow, ClaimRow, HeartbeatRow, RetryRow, FailRow, CloseRow, CancelRow,
              LeaseRunsOut
<1>3. CASE UNCHANGED rowVars
  BY <1>3 DEF rowVars
<1> QED BY <1>1, <1>2, <1>3, StepCases

(* The statements a call may be at only for a job that has a row. *)
NeedsRow == {"logQueued", "readJob", "readRequeued", "push", "claim", "recheck"}

Grounded(c) == c.deferred \subseteq Inserted /\ (c.pc \in NeedsRow => c.job \in Inserted)

RefInv ==
  /\ queue \subseteq Inserted
  /\ sweep.restore \subseteq Inserted
  /\ \A h \in Handler : Grounded(call[h])

LEMMA RefInit == MasterInit => RefInv
  BY DEF MasterInit, RefInv, Grounded, NeedsRow, IdleCall, NewCall, NoSweep

LEMMA StepGrounds ==
  ASSUME TypeInv, RefInv, Inserted \subseteq Inserted', NEW h \in Handler, Step(h)
  PROVE  queue' \subseteq Inserted' /\ Grounded(call[h])'
<1>0. /\ call \in [Handler -> Call] /\ CallShape(call[h]) /\ queue \subseteq Inserted
      /\ Grounded(call[h]) /\ status \in [Job -> Status]
  BY DEF TypeInv, MasterTypeOK, StoreTypeOK, RefInv
<1>g. ASSUME NEW p, Goto(h, p)
      PROVE  call'[h].pc = p /\ call'[h].job = call[h].job /\ call'[h].deferred = call[h].deferred
  BY <1>0, <1>g, GotoFields
<1>r. ASSUME NEW ok \in BOOLEAN, Respond(h, ok)
      PROVE  /\ call'[h].pc = "reply" /\ call'[h].job = call[h].job
             /\ call'[h].deferred = call[h].deferred
  BY <1>0, <1>r, RespondFields
<1> USE DEF Grounded, NeedsRow, At
<1>1. CASE Insert(h)
  <2>1. call'[h].job \in Inserted'
    BY <1>0, <1>g, <1>1 DEF Insert, InsertRow, Inserted, CallShape, EnqueuePC, BeatPC, FinishPC
  <2> QED BY <1>0, <1>g, <1>1, <2>1 DEF Insert
<1>2. CASE LogQueued(h)
  BY <1>0, <1>g, <1>2 DEF LogQueued
<1>3. CASE ReadJob(h)
  BY <1>0, <1>g, <1>r, <1>3 DEF ReadJob
<1>4. CASE Push(h)
  BY <1>0, <1>r, <1>4 DEF Push
<1>5. CASE Register(h) \/ Touch(h) \/ Gate(h)
  <2>1. queue' = queue
    BY <1>5 DEF Register, Touch, Gate
  <2>2. call'[h].pc \in {"gate", "pop", "reply"} /\ call'[h].deferred = call[h].deferred
    BY <1>g, <1>r, <1>5 DEF Register, Touch, Gate
  <2> QED BY <1>0, <2>1, <2>2
<1>7. CASE Pop(h)
  <2>1. CASE queue = {} /\ Goto(h, "recover") /\ UNCHANGED queue
    BY <1>0, <1>g, <2>1
  <2>2. ASSUME NEW j \in Heads, PopHead(h, j) PROVE queue' \subseteq Inserted' /\ Grounded(call[h])'
    <3>1. call'[h].pc = "claim" /\ call'[h].job = j /\ call'[h].deferred = call[h].deferred
      BY <1>0, <2>2 DEF PopHead, Call
    <3> QED BY <1>0, <2>2, <3>1 DEF PopHead, Heads
  <2> QED BY <1>7, <2>1, <2>2 DEF Pop
<1>8. CASE Claim(h)
  <2>1. call'[h].deferred = call[h].deferred /\ call'[h].job = call[h].job /\ queue' = queue
    BY <1>0, <1>8 DEF Claim, Goto, Call
  <2>2. call[h].job \in Inserted /\ call[h].deferred \subseteq Inserted
    BY <1>0, <1>8 DEF Claim
  <2> QED BY <1>0, <2>1, <2>2
<1>9. CASE Recheck(h)
  <2>1. /\ call'[h].deferred = IF call[h].job \in Queued THEN call[h].deferred \cup {call[h].job}
                               ELSE call[h].deferred
        /\ call'[h].pc \in {"pop", "recover"}
    BY <1>0, <1>9 DEF Recheck, Call
  <2> QED BY <1>0, <1>9, <2>1 DEF Recheck
<1>10. CASE Recover(h)
  <2>1. call'[h].deferred = {} /\ call'[h].pc = "reply"
    BY <1>0, <1>10 DEF Recover, Call
  <2> QED BY <1>0, <1>10, <2>1 DEF Recover
<1>11. CASE Heartbeat(h)
  <2>1. queue' = queue
    BY <1>11 DEF Heartbeat
  <2>2. call'[h].pc \in {"readBeat", "reply"} /\ call'[h].deferred = call[h].deferred
    BY <1>g, <1>r, <1>11 DEF Heartbeat
  <2> QED BY <1>0, <2>1, <2>2
<1>12. CASE Finish(h)
  <2>1. call[h].job \in Job /\ queue' = queue
    BY <1>0, <1>12 DEF Finish, CallShape, BeatPC, FinishPC
  <2>2. CASE status'[call[h].job] = "queued"
    <3>1. call[h].job \in Inserted'
      BY <2>1, <2>2 DEF Inserted
    <3> QED BY <1>0, <1>g, <1>r, <1>12, <2>1, <3>1 DEF Finish
  <2>3. CASE status'[call[h].job] # "queued"
    <3>1. call'[h].pc \in {"readFinished", "reply"} /\ call'[h].deferred = call[h].deferred
      BY <1>g, <1>r, <1>12, <2>3 DEF Finish
    <3> QED BY <1>0, <2>1, <3>1
  <2> QED BY <2>2, <2>3
<1>13. CASE Remove(h)
  BY <1>0, <1>g, <1>13 DEF Remove
<1>14. CASE CancelJob(h)
  <2>1. queue' = queue
    BY <1>14 DEF CancelJob
  <2>2. call'[h].pc \in {"logCancelled", "reply"} /\ call'[h].deferred = call[h].deferred
    BY <1>g, <1>r, <1>14 DEF CancelJob
  <2> QED BY <1>0, <2>1, <2>2
<1>15. CASE LogCancelled(h)
  BY <1>0, <1>g, <1>15 DEF LogCancelled
<1>16. CASE ReadBack(h)
  <2>1. /\ call'[h].job = call[h].job /\ call'[h].deferred = call[h].deferred
        /\ queue' = queue
    BY <1>g, <1>r, <1>16 DEF ReadBack
  <2>2. \/ call'[h].pc \in {"recover", "reply"}
        \/ call'[h].pc = "push" /\ call[h].pc = "readRequeued"
    BY <1>g, <1>r, <1>16 DEF ReadBack
  <2> QED BY <1>0, <2>1, <2>2
<1> QED BY <1>1, <1>2, <1>3, <1>4, <1>5, <1>7, <1>8, <1>9, <1>10, <1>11, <1>12, <1>13,
           <1>14, <1>15, <1>16 DEF Step

LEMMA RefStep ==
  TypeInv /\ Quiet /\ RefInv /\ [MasterNext]_masterVars => RefInv'
<1> SUFFICES ASSUME TypeInv, Quiet, RefInv, [MasterNext]_masterVars PROVE RefInv'
  OBVIOUS
<1>0. Inserted \subseteq Inserted' /\ call \in [Handler -> Call]
  BY NextRows, RowsGrow DEF TypeInv, MasterTypeOK
<1>1. ASSUME NEW h \in Handler, NEW g \in Handler, g # h,
             Step(h) \/ Request(h) \/ CallFails(h) \/ Reply(h)
      PROVE  Grounded(call[g])'
  <2>1. call'[g] = call[g]
    BY <1>0, <1>1, OthersUnmoved
  <2> QED BY <1>0, <2>1 DEF RefInv, Grounded
<1>2. ASSUME NEW h \in Handler, Step(h) PROVE RefInv'
  <2>1. UNCHANGED sweep
    BY <1>2, BusyMeansUp
  <2> QED BY <1>0, <1>1, <1>2, <2>1, StepGrounds DEF RefInv
<1>3. ASSUME NEW h \in Handler, Request(h) \/ CallFails(h) \/ Reply(h) PROVE RefInv'
  <2>1. UNCHANGED <<sweep, queue>>
    BY <1>3 DEF Request, Accept, EnqueueRequest, CancelRequest, ClaimRequest, WorkerRequest,
                HeartbeatRequest, FinishRequest, CallFails, Reply
  <2>2. Grounded(call[h])'
    BY <1>0, <1>3 DEF Request, Accept, EnqueueRequest, CancelRequest, ClaimRequest, WorkerRequest,
                HeartbeatRequest, FinishRequest, CallFails, Reply, IdleCall, NewCall, Grounded,
                NeedsRow
  <2> QED BY <1>0, <1>1, <1>3, <2>1, <2>2 DEF RefInv
<1>4. ASSUME UNCHANGED call PROVE \A h \in Handler : Grounded(call[h])'
  BY <1>0, <1>4 DEF RefInv, Grounded
<1>5. CASE Start \/ \E j \in Job : RequeueExpired(j)
  BY <1>0, <1>4, <1>5 DEF RefInv, Start, RequeueExpired, NoSweep, TypeInv, MasterTypeOK, Sweep
<1>6. CASE LogExpired \/ ReadQueued
  <2>1. /\ sweep.restore \subseteq Inserted /\ queue \subseteq Inserted
        /\ queue' = queue /\ call' = call /\ Queued \subseteq Inserted
    BY <1>6 DEF RefInv, LogExpired, ReadQueued, Queued, Inserted
  <2>2. sweep' \in Sweep /\ sweep \in Sweep
    BY <1>6, NextShared, NextRows, RowInvStep DEF SharedOK, TypeInv, MasterTypeOK, RowInv
  <2>3. sweep'.restore \subseteq sweep.restore \cup Queued
    BY <1>6, <2>2 DEF LogExpired, ReadQueued, Sweep
  <2> QED BY <1>0, <1>4, <2>1, <2>3 DEF RefInv
<1>7. CASE Listen
  BY <1>0, <1>4, <1>7 DEF RefInv, Listen, NoSweep
<1>8. CASE Crash
  BY <1>0, <1>8 DEF RefInv, Crash, NoSweep, IdleCall, NewCall, Grounded, NeedsRow
<1>9. CASE (\E j \in Job : Tick(j)) \/ UNCHANGED masterVars
  BY <1>0, <1>4, <1>9 DEF RefInv, Tick, masterVars
<1> QED BY <1>2, <1>3, <1>5, <1>6, <1>7, <1>8, <1>9 DEF MasterNext, Hydrate

(* Redis and the requests in flight name only jobs that have a row, so the *)
(* read that follows a refused claim finds one.                            *)
THEOREM QueueEntriesHaveRows == MasterSpec => []NoDanglingEntries
<1>1. RefInv => NoDanglingEntries
  BY DEF RefInv, NoDanglingEntries, Grounded, NeedsRow
<1>2. CoverInv => Quiet
  BY DEF CoverInv
<1> QED BY <1>1, <1>2, RefInit, RefStep, CoverInit, CoverStep, TypeInvInit, TypeInvStep, PTL
        DEF MasterSpec

(* Queue and rows agree. *)
THEOREM QueueAgreesWithRows == MasterSpec => []QueueMatchesRows
<1>1. QueueCoverage /\ NoDanglingEntries => QueueMatchesRows
  BY DEF QueueMatchesRows
<1> QED BY <1>1, QueuedJobsAreCovered, QueueEntriesHaveRows, PTL

-----------------------------------------------------------------------------
(* The audit trail. *)

(* Event e may be the last one of a row whose status is s. *)
Announces(e, s) ==
  /\ e \in {"completed", "failed", "cancelled"} => s = e
  /\ e = "lease_failed" => s = "failed"
  /\ e # "none" => s # "absent"

(* What was announced stays true, because terminal statuses are final. *)
LEMMA AuditFrame ==
  ASSUME TypeInv, [StoreNext]_rowVars, AuditNeverAhead, NEW i \in Job, trail'[i] = trail[i]
  PROVE  Announces(trail'[i], status'[i])
<1>1. StoreTypeOK /\ Announces(trail[i], status[i])
  BY DEF TypeInv, MasterTypeOK, AuditNeverAhead, Announces
<1>2. status[i] \in Terminal => status'[i] = status[i]
  BY <1>1, TerminalStep
<1>3. status[i] # "absent" => status'[i] # "absent"
  BY <1>1, RowsGrow DEF Inserted, StoreTypeOK
<1> QED BY <1>1, <1>2, <1>3 DEF Announces, Terminal

LEMMA AuditLog ==
  ASSUME TypeInv, [StoreNext]_rowVars, AuditNeverAhead, NEW j \in Job, NEW e, Log(j, e),
         Announces(e, status'[j])
  PROVE  AuditNeverAhead'
<1>1. trail'[j] = e /\ \A i \in Job : i # j => trail'[i] = trail[i]
  BY DEF Log, TypeInv, MasterTypeOK
<1>2. \A i \in Job : Announces(trail'[i], status'[i])
  BY <1>1, AuditFrame
<1> QED BY <1>2 DEF Announces, AuditNeverAhead

LEMMA AuditKept ==
  ASSUME TypeInv, [StoreNext]_rowVars, AuditNeverAhead, UNCHANGED trail
  PROVE  AuditNeverAhead'
<1>1. \A i \in Job : Announces(trail'[i], status'[i])
  BY AuditFrame
<1> QED BY <1>1 DEF Announces, AuditNeverAhead

(* A call that is about to log a cancellation, and the id hydrate is about *)
(* to log, are already where the event says.                               *)
AuditInv ==
  /\ AuditNeverAhead
  /\ \A h \in Handler : call[h].pc = "logCancelled" => status[call[h].job] = "cancelled"
  /\ sweep.logging # NoJob =>
       master = "expiring" /\ status[sweep.logging] \in {"queued", "failed"}

LEMMA AuditInit == MasterInit => AuditInv
  BY DEF MasterInit, StoreInit, AuditInv, AuditNeverAhead, IdleCall, NewCall, NoSweep

LEMMA StepAudit ==
  ASSUME TypeInv, RefInv, AuditInv, [StoreNext]_rowVars, NEW h \in Handler, Step(h)
  PROVE  AuditNeverAhead'
<1>0. /\ call[h] \in Call /\ CallShape(call[h]) /\ Grounded(call[h]) /\ AuditNeverAhead
      /\ status \in [Job -> Status]
  BY DEF TypeInv, MasterTypeOK, StoreTypeOK, RefInv, AuditInv
<1>1. CASE LogQueued(h)
  <2>1. call[h].job \in Job /\ status'[call[h].job] # "absent"
    BY <1>0, <1>1 DEF LogQueued, At, CallShape, EnqueuePC, Grounded, NeedsRow, Inserted, rowVars,
                      BeatPC, FinishPC
  <2>2. Log(call[h].job, "queued")
    BY <1>1 DEF LogQueued
  <2> QED BY <1>0, <2>1, <2>2, AuditLog DEF Announces
<1>2. CASE Claim(h)
  <2>1. CASE Claimable(call[h].job, call[h].worker)
    <3>1. call[h].job \in Job /\ status'[call[h].job] = "claimed" /\ Log(call[h].job, "claimed")
      BY <1>0, <1>2, <2>1 DEF Claim, ClaimRow, At, CallShape, BeatPC, FinishPC
    <3> QED BY <1>0, <3>1, AuditLog DEF Announces
  <2>2. CASE ~Claimable(call[h].job, call[h].worker)
    <3>1. UNCHANGED trail
      BY <1>2, <2>2 DEF Claim, ClaimRow
    <3> QED BY <1>0, <3>1, AuditKept
  <2> QED BY <2>1, <2>2
<1>3. CASE Finish(h)
  <2> DEFINE j == call[h].job
  <2>0. j \in Job
    BY <1>0, <1>3 DEF Finish, At, CallShape, BeatPC, FinishPC
  <2>1. CASE HeldBy(j, call[h].worker)
    <3>1. Log(j, status'[j]) /\ FinishRow(j, call[h].worker, call[h].completed)
      BY <1>3, <2>1 DEF Finish
    <3>2. status'[j] \in {"completed", "queued", "failed"}
      BY <1>0, <2>0, <3>1 DEF FinishRow, RetryRow, FailRow, CloseRow
    <3> QED BY <1>0, <2>0, <3>1, <3>2, AuditLog DEF Announces
  <2>2. CASE ~HeldBy(j, call[h].worker)
    <3>1. UNCHANGED trail
      BY <1>3, <2>2 DEF Finish, FinishRow
    <3> QED BY <1>0, <3>1, AuditKept
  <2> QED BY <2>1, <2>2
<1>4. CASE LogCancelled(h)
  <2>1. call[h].job \in Job /\ status'[call[h].job] = "cancelled"
    BY <1>0, <1>4 DEF LogCancelled, ReadBack, At, CallShape, CancelPC, AuditInv, rowVars, BeatPC,
                      FinishPC
  <2>2. Log(call[h].job, "cancelled")
    BY <1>4 DEF LogCancelled, ReadBack
  <2> QED BY <1>0, <2>1, <2>2, AuditLog DEF Announces
<1>5. CASE UNCHANGED trail
  BY <1>0, <1>5, AuditKept
<1>6. \/ LogQueued(h) \/ Claim(h) \/ Finish(h) \/ LogCancelled(h) \/ UNCHANGED trail
  BY DEF Step, Insert, ReadJob, Push, Register, Gate, Pop, Recheck, Recover, Touch, Heartbeat,
         Remove, CancelJob, ReadBack
<1> QED BY <1>1, <1>2, <1>3, <1>4, <1>5, <1>6

(* The second conjunct of AuditInv. *)
LEMMA CancelledStays ==
  ASSUME TypeInv, TypeInv', AuditInv, [StoreNext]_rowVars, [MasterNext]_masterVars,
         NEW g \in Handler, call'[g].pc = "logCancelled"
  PROVE  status'[call'[g].job] = "cancelled"
<1>0. /\ call \in [Handler -> Call] /\ StoreTypeOK /\ CallShape(call[g]) /\ CallShape(call'[g])
  BY DEF TypeInv, MasterTypeOK, CallShape, BeatPC, FinishPC
<1>1. ASSUME call'[g] = call[g] PROVE status'[call'[g].job] = "cancelled"
  <2>1. call[g].job \in Job /\ status[call[g].job] = "cancelled"
    BY <1>0, <1>1 DEF AuditInv, CallShape, CancelPC, BeatPC, FinishPC
  <2> QED BY <1>0, <1>1, <2>1, TerminalStep DEF Terminal
<1>2. ASSUME NEW h \in Handler, h # g, Step(h) \/ Request(h) \/ CallFails(h) \/ Reply(h)
      PROVE  call'[g] = call[g]
  BY <1>0, <1>2, OthersUnmoved
<1>3. CASE CancelJob(g)
  <2>1. CancelRow(call[g].job) /\ call'[g].job = call[g].job
    BY <1>0, <1>3 DEF CancelJob, Goto, Respond, Call
  <2>2. call[g].job \in Job
    BY <1>0, <1>3 DEF CancelJob, At, CallShape, CancelPC, BeatPC, FinishPC
  <2> QED BY <1>0, <2>1, <2>2 DEF CancelRow, CloseRow, StoreTypeOK
<1>4. CASE Step(g) /\ ~CancelJob(g)
  <2>1. CASE Insert(g) \/ LogQueued(g) \/ ReadJob(g) \/ Push(g) \/ Register(g) \/ Gate(g)
    BY <1>0, <2>1 DEF Insert, LogQueued, ReadJob, Push, Register, Gate, Goto, Respond, Call
  <2>2. CASE Pop(g)
    <3>1. CASE Goto(g, "recover")
      BY <1>0, <3>1 DEF Goto, Call
    <3>2. ASSUME NEW j \in Heads, PopHead(g, j) PROVE call'[g].pc = "claim"
      BY <1>0, <3>2 DEF PopHead, Call
    <3> QED BY <2>2, <3>1, <3>2 DEF Pop
  <2>3. CASE Claim(g)
    BY <1>0, <2>3 DEF Claim, Goto, Call
  <2>4. CASE Recheck(g)
    BY <1>0, <2>4 DEF Recheck, Call
  <2>7. CASE Recover(g)
    BY <1>0, <2>7 DEF Recover, Call
  <2>5. CASE Touch(g) \/ Heartbeat(g) \/ Remove(g) \/ LogCancelled(g)
    BY <1>0, <2>5 DEF Touch, Heartbeat, Remove, LogCancelled, ReadBack, Goto, Respond, Call
  <2>6. CASE Finish(g)
    BY <1>0, <2>6 DEF Finish, Goto, Respond, Call
  <2>8. CASE ReadBack(g)
    BY <1>0, <2>8 DEF ReadBack, Goto, Respond, Call
  <2> QED BY <1>4, <2>1, <2>2, <2>3, <2>4, <2>5, <2>6, <2>7, <2>8 DEF Step
<1>5. CASE Request(g) \/ CallFails(g) \/ Reply(g)
  BY <1>0, <1>5 DEF Request, Accept, EnqueueRequest, CancelRequest, ClaimRequest, WorkerRequest,
                    HeartbeatRequest, FinishRequest, CallFails, Reply, IdleCall, NewCall
<1>6. CASE Crash
  BY <1>6 DEF Crash, IdleCall, NewCall
<1>7. Start \/ Hydrate \/ (\E j \in Job : Tick(j)) \/ UNCHANGED masterVars => UNCHANGED call
  BY DEF Start, Hydrate, RequeueExpired, LogExpired, ReadQueued, Listen, Tick, masterVars
<1> QED BY <1>1, <1>2, <1>3, <1>4, <1>5, <1>6, <1>7 DEF MasterNext

(* The third conjunct of AuditInv. *)
LEMMA LoggedIdSettled ==
  ASSUME TypeInv, Quiet, AuditInv, [MasterNext]_masterVars, sweep'.logging # NoJob
  PROVE  master' = "expiring" /\ status'[sweep'.logging] \in {"queued", "failed"}
<1> DEFINE Goal == master' = "expiring" /\ status'[sweep'.logging] \in {"queued", "failed"}
<1>0. sweep \in Sweep /\ status \in [Job -> Status]
  BY DEF TypeInv, MasterTypeOK, StoreTypeOK
<1>1. ASSUME NEW h \in Handler, Step(h) \/ Request(h) \/ CallFails(h) \/ Reply(h) PROVE Goal
  BY <1>1, BusyMeansUp DEF AuditInv
<1>2. CASE Start \/ Crash \/ Listen
  BY <1>2 DEF Start, Crash, Listen, NoSweep
<1>3. ASSUME NEW j \in Job, RequeueExpired(j) PROVE Goal
  <2>1. sweep'.logging = j /\ master' = "expiring"
    BY <1>0, <1>3 DEF RequeueExpired, Sweep
  <2>2. status'[j] \in {"queued", "failed"}
    BY <1>0, <1>3 DEF RequeueExpired, ExpireRow, RetryRow, FailRow, CloseRow
  <2> QED BY <2>1, <2>2
<1>4. CASE LogExpired
  BY <1>0, <1>4 DEF LogExpired, Sweep
<1>5. CASE ReadQueued
  BY <1>0, <1>5 DEF ReadQueued, Sweep
<1>6. CASE (\E j \in Job : Tick(j)) \/ UNCHANGED masterVars
  BY <1>6 DEF Tick, LeaseRunsOut, masterVars, rowVars, AuditInv
<1> QED BY <1>1, <1>2, <1>3, <1>4, <1>5, <1>6 DEF MasterNext, Hydrate

LEMMA AuditStep ==
  TypeInv /\ TypeInv' /\ Quiet /\ RefInv /\ AuditInv /\ [MasterNext]_masterVars => AuditInv'
<1> SUFFICES ASSUME TypeInv, TypeInv', Quiet, RefInv, AuditInv, [MasterNext]_masterVars
             PROVE  AuditInv'
  OBVIOUS
<1>0. [StoreNext]_rowVars /\ AuditNeverAhead
  BY NextRows DEF AuditInv
<1>1. AuditNeverAhead'
  <2>1. ASSUME NEW h \in Handler, Step(h) PROVE AuditNeverAhead'
    BY <1>0, <2>1, StepAudit
  <2>2. CASE LogExpired
    <3> DEFINE j == sweep.logging
    <3>1. j \in Job /\ status'[j] = status[j] /\ status[j] \in {"queued", "failed"}
      BY <2>2 DEF LogExpired, AuditInv, TypeInv, MasterTypeOK, Sweep, rowVars
    <3>2. Log(j, IF status[j] = "queued" THEN "lease_requeued" ELSE "lease_failed")
      BY <2>2 DEF LogExpired
    <3> QED BY <1>0, <3>1, <3>2, AuditLog DEF Announces
  <2>3. ASSUME UNCHANGED trail PROVE AuditNeverAhead'
    BY <1>0, <2>3, AuditKept
  <2>4. ASSUME NEW h \in Handler, Request(h) \/ CallFails(h) \/ Reply(h) PROVE UNCHANGED trail
    BY <2>4 DEF Request, Accept, EnqueueRequest, CancelRequest, ClaimRequest, WorkerRequest,
                HeartbeatRequest, FinishRequest, CallFails, Reply
  <2>5. \/ Start \/ Crash \/ ReadQueued \/ Listen \/ UNCHANGED masterVars
        \/ \E j \in Job : RequeueExpired(j) \/ Tick(j)
        => UNCHANGED trail
    BY DEF Start, Crash, ReadQueued, Listen, RequeueExpired, Tick, masterVars
  <2> QED BY <2>1, <2>2, <2>3, <2>4, <2>5 DEF MasterNext, Hydrate
<1>2. \A g \in Handler : call'[g].pc = "logCancelled" => status'[call'[g].job] = "cancelled"
  BY <1>0, CancelledStays
<1> QED BY <1>1, <1>2, LoggedIdSettled DEF AuditInv

(* An announced end is an end the row has reached and keeps, whatever is   *)
(* requested, fails or crashes between the UPDATE and the INSERT of its    *)
(* event.                                                                  *)
THEOREM AuditTrailNeverAhead == MasterSpec => []AuditNeverAhead
<1>1. AuditInv => AuditNeverAhead
  BY DEF AuditInv
<1>2. CoverInv => Quiet
  BY DEF CoverInv
<1> QED BY <1>1, <1>2, AuditInit, AuditStep, RefInit, RefStep, CoverInit, CoverStep, TypeInvInit,
           TypeInvStep, PTL
        DEF MasterSpec

-----------------------------------------------------------------------------
(* The cluster implements its master. *)

(* What a worker sends names the job it has. *)
LEMMA WorkerHasJob ==
  ASSUME ClusterTypeOK, NEW w \in Worker, stage[w] \in Stage \ {"idle", "claiming", "down"}
  PROVE  task[w] \in Job
  BY DEF ClusterTypeOK

LEMMA RequestsAreRequests ==
  ASSUME ClusterTypeOK, NEW w \in Worker, NEW h \in Handler,
         Poll(w, h) \/ Beat(w, h) \/ PostComplete(w, h) \/ PostFail(w, h)
  PROVE  Request(h)
<1>1. CASE Poll(w, h)
  BY <1>1 DEF Poll, Request
<1>2. CASE Beat(w, h) \/ PostComplete(w, h) \/ PostFail(w, h)
  <2>1. task[w] \in Job
    BY <1>2, WorkerHasJob DEF Beat, PostComplete, PostFail, Send, Stage
  <2> QED BY <1>2, <2>1 DEF Beat, PostComplete, PostFail, Request
<1> QED BY <1>1, <1>2

LEMMA ResponsesAreReplies ==
  ASSUME ClusterTypeOK, NEW w \in Worker, WorkerResponses(w)
  PROVE  waitsFor[w] \in Handler /\ Reply(waitsFor[w])
  BY DEF ClusterTypeOK, WorkerResponses, ClaimAnswered, BeatAnswered, CompleteAnswered,
         FailAnswered, Answered

(* The steps of a worker that the master does not see. *)
Alone(w) == ExecutionFails(w) \/ GiveUp(w) \/ Refused(w) \/ Kill(w) \/ Revive(w)

LEMMA AloneIsUnseen ==
  ASSUME NEW w, Alone(w)
  PROVE  UNCHANGED masterVars
  BY DEF Alone, ExecutionFails, GiveUp, Refused, Kill, Revive

LEMMA NextIsMasterNext ==
  ASSUME ClusterTypeOK, [ClusterNext]_clusterVars
  PROVE  [MasterNext]_masterVars
<1>1. ASSUME NEW w \in Worker, WorkerRequests(w) PROVE MasterNext
  BY <1>1, RequestsAreRequests DEF WorkerRequests, MasterNext
<1>2. ASSUME NEW w \in Worker, WorkerResponses(w) PROVE MasterNext
  BY <1>2, ResponsesAreReplies DEF MasterNext
<1>3. ASSUME NEW w \in Worker, Alone(w) PROVE UNCHANGED masterVars
  BY <1>3, AloneIsUnseen
<1>4. ASSUME NEW h \in Handler, Serve(h) \/ Fault(h) \/ Unheard(h) \/ ClientRequest(h)
      PROVE  MasterNext
  BY <1>4 DEF Serve, Fault, Unheard, ClientRequest, Request, MasterNext
<1>5. MasterCrash \/ Boot \/ (\E j \in Job : TimePasses(j)) => MasterNext
  BY DEF MasterCrash, Boot, TimePasses, MasterNext
<1>6. UNCHANGED clusterVars => UNCHANGED masterVars
  BY DEF clusterVars
<1> QED BY <1>1, <1>2, <1>3, <1>4, <1>5, <1>6 DEF ClusterNext, Alone

-----------------------------------------------------------------------------
(* Types. *)

(* The part of ClusterTypeOK about the workers, and all a step relies on. *)
WorkerTypeOK ==
  /\ stage \in [Worker -> Stage]
  /\ task \in [Worker -> Job \cup {NoJob}]
  /\ attempt \in [Worker -> 0..10]
  /\ waitsFor \in [Worker -> Handler \cup {NoCall}]
  /\ \A w \in Worker : task[w] = NoJob <=> stage[w] \in {"idle", "claiming", "down"}

WorkerTypeInv == TypeInv /\ WorkerTypeOK

LEMMA WorkerTypeInvInit == ClusterInit => WorkerTypeInv
<1> SUFFICES ASSUME ClusterInit PROVE WorkerTypeInv
  OBVIOUS
<1>1. TypeInv
  BY TypeInvInit DEF ClusterInit
<1> QED BY <1>1 DEF ClusterInit, WorkerTypeInv, WorkerTypeOK, Stage

LEMMA ClusterTypes == WorkerTypeInv => ClusterTypeOK
  BY DEF WorkerTypeInv, TypeInv, WorkerTypeOK, ClusterTypeOK

LEMMA WorkerTypesStep ==
  ASSUME WorkerTypeInv, [ClusterNext]_clusterVars
  PROVE  WorkerTypeOK'
<1>0. WorkerTypeOK /\ NoJob \notin Job /\ call \in [Handler -> Call]
  BY MasterConstants DEF WorkerTypeInv, TypeInv, MasterTypeOK
<1>1. ASSUME NEW w \in Worker, WorkerRequests(w) PROVE WorkerTypeOK'
  BY <1>0, <1>1 DEF WorkerRequests, Poll, Beat, PostComplete, PostFail, Send, WorkerTypeOK, Stage,
                    Waiting
<1>2. ASSUME NEW w \in Worker, ClaimAnswered(w) PROVE WorkerTypeOK'
  <2>0. stage[w] = "claiming" /\ call[waitsFor[w]] \in Call
    BY <1>0, <1>2 DEF ClaimAnswered, Answered, WorkerTypeOK
  <2>1. call[waitsFor[w]].job \in Job \cup {NoJob} /\ call[waitsFor[w]].attempt \in 0..10
    BY <2>0 DEF Call
  <2> QED BY <1>0, <1>2, <2>0, <2>1 DEF ClaimAnswered, Proceed, Keep, WorkerTypeOK, Stage, Waiting
<1>3. ASSUME NEW w \in Worker, BeatAnswered(w) \/ CompleteAnswered(w) \/ FailAnswered(w)
      PROVE  WorkerTypeOK'
  BY <1>0, <1>3 DEF BeatAnswered, CompleteAnswered, FailAnswered, Answered, Proceed, Keep, Forget,
                    WorkerTypeOK, Stage, Waiting
<1>4. ASSUME NEW w \in Worker, Alone(w) PROVE WorkerTypeOK'
  BY <1>0, <1>4 DEF Alone, ExecutionFails, GiveUp, Refused, Kill, Revive, Proceed, Keep, Forget,
                    WorkerTypeOK, Stage, Waiting
<1>5. CASE MasterCrash
  BY <1>0, <1>5 DEF MasterCrash, WorkerTypeOK
<1>6. CASE UNCHANGED workerVars
  BY <1>0, <1>6 DEF workerVars, WorkerTypeOK
<1>7. ASSUME NEW h \in Handler, Serve(h) \/ Fault(h) \/ Unheard(h) \/ ClientRequest(h)
      PROVE  UNCHANGED workerVars
  BY <1>7 DEF Serve, Fault, Unheard, ClientRequest
<1>8. Boot \/ (\E j \in Job : TimePasses(j)) \/ UNCHANGED clusterVars => UNCHANGED workerVars
  BY DEF Boot, TimePasses, clusterVars
<1> QED BY <1>1, <1>2, <1>3, <1>4, <1>5, <1>6, <1>7, <1>8 DEF ClusterNext, Alone, WorkerResponses

LEMMA WorkerTypeInvStep == WorkerTypeInv /\ [ClusterNext]_clusterVars => WorkerTypeInv'
<1> SUFFICES ASSUME WorkerTypeInv, [ClusterNext]_clusterVars PROVE WorkerTypeInv'
  OBVIOUS
<1>1. TypeInv'
  BY ClusterTypes, NextIsMasterNext, TypeInvStep DEF WorkerTypeInv
<1> QED BY <1>1, WorkerTypesStep DEF WorkerTypeInv

(* Types of the workers and the master, for any number of either. *)
THEOREM ClusterTypesCorrect == ClusterSpec => []ClusterTypeOK
  BY WorkerTypeInvInit, WorkerTypeInvStep, ClusterTypes, PTL DEF ClusterSpec

(* Workers, with their time-outs, lost responses, kills and restarts, give *)
(* the master nothing to do that the open environment of MasterSpec does   *)
(* not: the cluster implements its master.                                 *)
THEOREM ClusterImplementsMaster == ClusterSpec => MasterSpec
<1>1. ClusterInit => MasterInit
  BY DEF ClusterInit
<1>2. WorkerTypeInv /\ [ClusterNext]_clusterVars => [MasterNext]_masterVars
  BY ClusterTypes, NextIsMasterNext
<1> QED BY <1>1, <1>2, WorkerTypeInvInit, WorkerTypeInvStep, PTL DEF ClusterSpec, MasterSpec

(* So what the master keeps it keeps under its real workers. *)
THEOREM ClusterKeepsMasterInvariants ==
  ClusterSpec => [](RowsConsistent /\ QueueMatchesRows /\ AuditNeverAhead)
<1>1. MasterSpec => []RowsConsistent
  BY MasterImplementsStore, RowsAreConsistent, PTL
<1> QED BY <1>1, ClusterImplementsMaster, QueueAgreesWithRows, AuditTrailNeverAhead, PTL

(* And clients of the cluster observe the promised life cycle. *)
THEOREM ClusterImplementsLifecycle == ClusterSpec => LifecycleImplemented
  BY ClusterImplementsMaster, MasterImplementsLifecycle, PTL

-----------------------------------------------------------------------------
(* Attempts.  A granted attempt of a job lives in one place at a time: in  *)
(* the claim call that was granted it, until the worker has the response,  *)
(* and then in the worker.                                                 *)

(* The last two columns of row j, for one who was granted attempt a of it:  *)
(* if that is the latest attempt and the job still held, it is held by w.  *)
LatestOwns(j, a, w) ==
  /\ j \in Job /\ a \in 1..10 /\ a <= attempts[j]
  /\ a = attempts[j] /\ status[j] \in Held => holder[j] = w

(* attempt is 0 until the transaction of claim has committed. *)
GrantShape(c) ==
  /\ c.attempt # 0 =>
       c.pc \in {"readClaimed", "recover", "reply"} /\ LatestOwns(c.job, c.attempt, c.worker)
  /\ c.pc \in {"register", "gate", "pop"} => c.job = NoJob
  /\ c.pc \in {"readClaimed", "recover"} /\ c.job # NoJob => c.attempt # 0

GrantInv ==
  /\ \A h \in Handler : GrantShape(call[h])
  /\ \A w \in Worker : task[w] # NoJob => LatestOwns(task[w], attempt[w], w)
  /\ \A g, h \in Handler :
       g # h /\ call[g].attempt # 0 /\ call[g].job = call[h].job
         => call[g].attempt # call[h].attempt
  /\ \A w \in Worker, h \in Handler :
       task[w] # NoJob /\ call[h].job = task[w] => call[h].attempt # attempt[w]
  /\ OneWorkerPerAttempt

(* A row only counts up, and only a claim brings an attempt to a worker. *)
LEMMA RowMoves ==
  ASSUME StoreTypeOK, [StoreNext]_rowVars, NEW j \in Job
  PROVE  \/ attempts'[j] = attempts[j] + 1
         \/ /\ attempts'[j] = attempts[j]
            /\ status'[j] \in Held => status[j] \in Held /\ holder'[j] = holder[j]
<1> DEFINE Kept == /\ attempts'[j] = attempts[j]
                   /\ status'[j] \in Held => status[j] \in Held /\ holder'[j] = holder[j]
<1>1. ASSUME UNCHANGED <<status, holder, attempts>> PROVE Kept
  BY <1>1
<1>2. ASSUME NEW w \in Worker, RegisterRow(w) PROVE Kept
  BY <1>2 DEF RegisterRow
<1>3. ASSUME NEW i \in Job, InsertRow(i) \/ CancelRow(i) \/ ExpireRow(i) \/ LeaseRunsOut(i)
      PROVE  Kept
  BY <1>3 DEF InsertRow, CancelRow, ExpireRow, RetryRow, FailRow, CloseRow, LeaseRunsOut,
              StoreTypeOK, Held
<1>4. ASSUME NEW i \in Job, NEW w \in Worker, HeartbeatRow(i, w) PROVE Kept
  BY <1>4 DEF HeartbeatRow, HeldBy, StoreTypeOK, Held
<1>5. ASSUME NEW i \in Job, NEW w \in Worker, NEW completed \in BOOLEAN,
             FinishRow(i, w, completed)
      PROVE  Kept
  BY <1>5 DEF FinishRow, RetryRow, FailRow, CloseRow, HeldBy, StoreTypeOK, Held
<1>6. ASSUME NEW i \in Job, NEW w \in Worker, ClaimRow(i, w)
      PROVE  Kept \/ attempts'[j] = attempts[j] + 1
  BY <1>6 DEF ClaimRow, StoreTypeOK
<1>7. UNCHANGED rowVars => UNCHANGED <<status, holder, attempts>>
  BY DEF rowVars
<1> HIDE DEF Kept
<1>8. Kept \/ attempts'[j] = attempts[j] + 1
  BY <1>1, <1>2, <1>3, <1>4, <1>5, <1>6, <1>7 DEF StoreNext
<1> QED BY <1>8 DEF Kept

(* LatestOwns of the next state, for one who moves with nothing. *)
OwnsAfter(j, a, w) ==
  /\ j \in Job /\ a \in 1..10 /\ a <= attempts'[j]
  /\ a = attempts'[j] /\ status'[j] \in Held => holder'[j] = w

LEMMA GrantKept ==
  ASSUME StoreTypeOK, StoreTypeOK', [StoreNext]_rowVars,
         NEW j, NEW a, NEW w, LatestOwns(j, a, w)
  PROVE  OwnsAfter(j, a, w)
<1>1. j \in Job /\ a \in 1..10 /\ attempts[j] \in 0..10 /\ attempts'[j] \in 0..10
  BY DEF LatestOwns, StoreTypeOK
<1>2. CASE attempts'[j] = attempts[j] + 1
  BY <1>1, <1>2 DEF LatestOwns, OwnsAfter
<1>3. CASE /\ attempts'[j] = attempts[j]
           /\ status'[j] \in Held => status[j] \in Held /\ holder'[j] = holder[j]
  BY <1>1, <1>3 DEF LatestOwns, OwnsAfter
<1> QED BY <1>1, <1>2, <1>3, RowMoves

(* A step that grants nothing and moves no grant: calls keep theirs or     *)
(* lose it, and so do workers.                                             *)
CallKeepsGrant(h) ==
  \/ call'[h].attempt = 0
  \/ /\ call'[h].attempt = call[h].attempt /\ call[h].attempt # 0
     /\ call'[h].job = call[h].job /\ call'[h].worker = call[h].worker
     /\ call'[h].pc \in {"readClaimed", "recover", "reply"}

CallFlows(h) ==
  /\ call'[h].pc \in {"register", "gate", "pop"} => call'[h].job = NoJob
  /\ call'[h].pc \in {"readClaimed", "recover"} /\ call'[h].job # NoJob => call'[h].attempt # 0

(* The one step that grants: the transaction of claim commits. *)
Granted(h) ==
  /\ call[h].pc = "claim"
  /\ ClaimRow(call[h].job, call[h].worker)
  /\ call'[h].attempt = attempts'[call[h].job]
  /\ call'[h].job = call[h].job /\ call'[h].worker = call[h].worker
  /\ call'[h].pc = "readClaimed"

WorkerKeepsGrant(w) ==
  task'[w] = NoJob \/ (task'[w] = task[w] /\ attempt'[w] = attempt[w])

(* What a step does to the attempt of its call. *)
LEMMA StepAttempt ==
  ASSUME TypeInv, NEW h \in Handler, GrantShape(call[h]), Step(h)
  PROVE  Granted(h) \/ (CallKeepsGrant(h) /\ CallFlows(h))
<1> USE DEF CallKeepsGrant, CallFlows
<1>0. call \in [Handler -> Call] /\ call[h] \in Call
  BY DEF TypeInv, MasterTypeOK
<1>1. ASSUME NEW p, Goto(h, p)
      PROVE  /\ call'[h].pc = p /\ call'[h].job = call[h].job
             /\ call'[h].attempt = call[h].attempt
  BY <1>0, <1>1 DEF Goto, Call
<1>2. ASSUME NEW ok \in BOOLEAN, Respond(h, ok)
      PROVE  /\ call'[h].pc = "reply" /\ call'[h].job = call[h].job
             /\ call'[h].attempt = call[h].attempt
  BY <1>0, <1>2 DEF Respond, Call
<1>3. CASE Insert(h) \/ LogQueued(h) \/ ReadJob(h) \/ Push(h)
  <2>1. call[h].attempt = 0
    BY <1>3 DEF Insert, LogQueued, ReadJob, Push, At, GrantShape
  <2>2. call'[h].attempt = 0 /\ call'[h].pc \in {"logQueued", "readJob", "push", "reply"}
    BY <1>1, <1>2, <1>3, <2>1 DEF Insert, LogQueued, ReadJob, Push
  <2> QED BY <2>2
<1>4. CASE Register(h) \/ Gate(h)
  BY <1>1, <1>2, <1>4 DEF Register, Gate, At, GrantShape
<1>5. CASE Pop(h)
  <2>1. CASE Goto(h, "recover")
    BY <1>1, <1>5, <2>1 DEF Pop, At, GrantShape
  <2>2. ASSUME NEW j \in Heads, PopHead(h, j)
        PROVE  call'[h].pc = "claim" /\ call'[h].attempt = call[h].attempt
    BY <1>0, <2>2 DEF PopHead, Call
  <2> QED BY <1>5, <2>1, <2>2 DEF Pop, At, GrantShape
<1>6. CASE Claim(h)
  <2>1. CASE Claimable(call[h].job, call[h].worker)
    <3>1. /\ call'[h].pc = "readClaimed" /\ call'[h].attempt = attempts'[call[h].job]
          /\ call'[h].job = call[h].job /\ call'[h].worker = call[h].worker
      BY <1>0, <1>6, <2>1 DEF Claim, Call
    <3> QED BY <1>6, <2>1, <3>1 DEF Claim, At, Granted
  <2>2. CASE ~Claimable(call[h].job, call[h].worker)
    BY <1>1, <1>6, <2>2 DEF Claim, ClaimRow, At, GrantShape
  <2> QED BY <2>1, <2>2
<1>7. CASE Recheck(h)
  <2>1. /\ call'[h].job = NoJob /\ call'[h].attempt = call[h].attempt
        /\ call'[h].pc \in {"pop", "recover"}
    BY <1>0, <1>7 DEF Recheck, Call
  <2> QED BY <1>7, <2>1 DEF Recheck, At, GrantShape
<1>8. CASE Recover(h)
  <2>1. /\ call'[h].pc = "reply" /\ call'[h].attempt = call[h].attempt
        /\ call'[h].job = call[h].job /\ call'[h].worker = call[h].worker
    BY <1>0, <1>8 DEF Recover, Call
  <2> QED BY <2>1
<1>9. CASE Touch(h) \/ Heartbeat(h) \/ Finish(h)
  <2>1. call[h].attempt = 0
    BY <1>9 DEF Touch, Heartbeat, Finish, At, GrantShape
  <2>2. /\ call'[h].attempt = 0
        /\ call'[h].pc \in {"readBeat", "readFinished", "readRequeued", "reply"}
    BY <1>1, <1>2, <1>9, <2>1 DEF Touch, Heartbeat, Finish
  <2> QED BY <2>2
<1>10. CASE Remove(h) \/ CancelJob(h) \/ LogCancelled(h)
  <2>1. call[h].attempt = 0
    BY <1>10 DEF Remove, CancelJob, LogCancelled, ReadBack, At, GrantShape
  <2>2. /\ call'[h].attempt = 0
        /\ call'[h].pc \in {"cancel", "logCancelled", "readCancelled", "reply"}
    BY <1>1, <1>2, <1>10, <2>1 DEF Remove, CancelJob, LogCancelled
  <2> QED BY <2>2
<1>11. CASE ReadBack(h)
  <2>1. /\ call'[h].job = call[h].job /\ call'[h].attempt = call[h].attempt
        /\ call'[h].worker = call[h].worker /\ call'[h].pc \in {"recover", "push", "reply"}
    BY <1>0, <1>11 DEF ReadBack, Goto, Respond, Call
  <2>2. \/ call[h].pc = "readClaimed" /\ call'[h].pc = "recover"
        \/ call[h].pc = "readRequeued" /\ call'[h].pc = "push"
        \/ call'[h].pc = "reply"
    <3>1. CASE At(h, "readClaimed") /\ Goto(h, "recover")
      BY <1>1, <3>1 DEF At
    <3>2. CASE At(h, "readRequeued") /\ Goto(h, "push")
      BY <1>1, <3>2 DEF At
    <3>3. CASE Respond(h, TRUE)
      BY <1>2, <3>3
    <3> QED BY <1>11, <3>1, <3>2, <3>3 DEF ReadBack
  <2> QED BY <2>1, <2>2 DEF GrantShape
<1> QED BY <1>3, <1>4, <1>5, <1>6, <1>7, <1>8, <1>9, <1>10, <1>11 DEF Step

LEMMA GrantFrame ==
  ASSUME StoreTypeOK, StoreTypeOK', [StoreNext]_rowVars, GrantInv,
         \A h \in Handler : CallKeepsGrant(h) /\ CallFlows(h),
         \A w \in Worker : WorkerKeepsGrant(w)
  PROVE  GrantInv'
<1>1. ASSUME NEW h \in Handler PROVE GrantShape(call[h])'
  <2>1. CASE call'[h].attempt = 0
    BY <2>1 DEF CallFlows, GrantShape
  <2>2. CASE call'[h].attempt # 0
    <3>1. /\ call[h].attempt # 0 /\ call'[h].attempt = call[h].attempt
          /\ call'[h].job = call[h].job /\ call'[h].worker = call[h].worker
          /\ call'[h].pc \in {"readClaimed", "recover", "reply"}
      BY <2>2 DEF CallKeepsGrant
    <3>2. LatestOwns(call[h].job, call[h].attempt, call[h].worker)
      BY <3>1 DEF GrantInv, GrantShape
    <3>3. OwnsAfter(call[h].job, call[h].attempt, call[h].worker)
      BY <3>2, GrantKept
    <3> QED BY <2>2, <3>1, <3>3 DEF CallFlows, GrantShape, LatestOwns, OwnsAfter
  <2> QED BY <2>1, <2>2
<1>2. ASSUME NEW w \in Worker, task'[w] # NoJob
      PROVE  LatestOwns(task[w], attempt[w], w)'
  <2>1. task'[w] = task[w] /\ attempt'[w] = attempt[w] /\ LatestOwns(task[w], attempt[w], w)
    BY <1>2 DEF WorkerKeepsGrant, GrantInv
  <2>2. OwnsAfter(task[w], attempt[w], w)
    BY <2>1, GrantKept
  <2> QED BY <2>1, <2>2 DEF LatestOwns, OwnsAfter
<1>3. ASSUME NEW g \in Handler, NEW h \in Handler, g # h, call'[g].attempt # 0,
             call'[g].job = call'[h].job
      PROVE  call'[g].attempt # call'[h].attempt
  BY <1>3 DEF CallKeepsGrant, GrantInv
<1>4. ASSUME NEW w \in Worker, NEW h \in Handler, task'[w] # NoJob, call'[h].job = task'[w]
      PROVE  call'[h].attempt # attempt'[w]
  <2>1. task'[w] = task[w] /\ attempt'[w] = attempt[w] /\ attempt[w] # 0
    BY <1>4 DEF WorkerKeepsGrant, GrantInv, LatestOwns
  <2> QED BY <1>4, <2>1 DEF CallKeepsGrant, GrantInv
<1>5. OneWorkerPerAttempt'
  BY DEF WorkerKeepsGrant, GrantInv, OneWorkerPerAttempt
<1> QED BY <1>1, <1>2, <1>3, <1>4, <1>5 DEF GrantInv

(* The claim transaction: its attempt is newer than any other of the job.  *)
LEMMA ClaimGrants ==
  ASSUME TypeInv, StoreTypeOK', [StoreNext]_rowVars, GrantInv, UNCHANGED <<task, attempt>>,
         NEW h \in Handler, NEW j \in Job, NEW w \in Worker, ClaimRow(j, w),
         call'[h].job = j, call'[h].worker = w, call'[h].attempt = attempts'[j],
         call'[h].pc = "readClaimed",
         \A g \in Handler : g # h => call'[g] = call[g]
  PROVE  GrantInv'
<1>0. StoreTypeOK /\ attempts[j] \in 0..10 /\ attempts'[j] \in 0..10
  BY DEF TypeInv, MasterTypeOK, StoreTypeOK
<1>1. attempts'[j] = attempts[j] + 1 /\ holder'[j] = w
  BY <1>0 DEF ClaimRow, StoreTypeOK
<1>2. ASSUME NEW v \in Worker, task'[v] # NoJob
      PROVE  LatestOwns(task[v], attempt[v], v)' /\ LatestOwns(task[v], attempt[v], v)
  <2>1. task'[v] = task[v] /\ attempt'[v] = attempt[v] /\ LatestOwns(task[v], attempt[v], v)
    BY <1>2 DEF GrantInv
  <2>2. OwnsAfter(task[v], attempt[v], v)
    BY <1>0, <2>1, GrantKept
  <2> QED BY <2>1, <2>2 DEF LatestOwns, OwnsAfter
<1>3. ASSUME NEW g \in Handler PROVE GrantShape(call[g])'
  <2>1. CASE g = h
    <3>1. LatestOwns(call[g].job, call[g].attempt, call[g].worker)'
      BY <1>0, <1>1, <2>1 DEF LatestOwns
    <3> QED BY <1>0, <1>1, <2>1, <3>1 DEF GrantShape
  <2>2. CASE g # h
    <3>1. call'[g] = call[g] /\ GrantShape(call[g])
      BY <2>2 DEF GrantInv
    <3>2. CASE call[g].attempt = 0
      BY <3>1, <3>2 DEF GrantShape
    <3>3. CASE call[g].attempt # 0
      <4>1. OwnsAfter(call[g].job, call[g].attempt, call[g].worker)
        BY <1>0, <3>1, <3>3, GrantKept DEF GrantShape
      <4> QED BY <3>1, <3>3, <4>1 DEF GrantShape, LatestOwns, OwnsAfter
    <3> QED BY <3>2, <3>3
  <2> QED BY <2>1, <2>2
<1>4. ASSUME NEW g \in Handler, g # h, call[g].attempt # 0, call[g].job = j
      PROVE  call[g].attempt \in 1..10 /\ call[g].attempt < attempts'[j]
  <2>1. LatestOwns(call[g].job, call[g].attempt, call[g].worker)
    BY <1>4 DEF GrantInv, GrantShape
  <2> QED BY <1>0, <1>1, <1>4, <2>1 DEF LatestOwns
<1>5. ASSUME NEW g \in Handler, NEW k \in Handler, g # k, call'[g].attempt # 0,
             call'[g].job = call'[k].job
      PROVE  call'[g].attempt # call'[k].attempt
  BY <1>0, <1>1, <1>4, <1>5 DEF GrantInv
<1>6. ASSUME NEW v \in Worker, NEW g \in Handler, task'[v] # NoJob, call'[g].job = task'[v]
      PROVE  call'[g].attempt # attempt'[v]
  <2>1. CASE g = h
    BY <1>0, <1>1, <1>2, <1>6, <2>1 DEF LatestOwns
  <2>2. CASE g # h
    BY <1>6, <2>2 DEF GrantInv
  <2> QED BY <2>1, <2>2
<1>7. OneWorkerPerAttempt'
  BY DEF GrantInv, OneWorkerPerAttempt
<1> QED BY <1>2, <1>3, <1>5, <1>6, <1>7 DEF GrantInv

(* Every step of a call keeps GrantInv. *)
LEMMA ServeGrants ==
  ASSUME TypeInv, StoreTypeOK', [StoreNext]_rowVars, GrantInv, NEW h \in Handler, Serve(h)
  PROVE  GrantInv'
<1>0. /\ StoreTypeOK /\ GrantShape(call[h]) /\ Step(h) /\ CallShape(call[h])
      /\ UNCHANGED <<task, attempt>>
  BY DEF TypeInv, MasterTypeOK, GrantInv, Serve, workerVars
<1>1. ASSUME NEW g \in Handler, g # h PROVE call'[g] = call[g]
  BY <1>0, <1>1, OthersUnmoved DEF TypeInv, MasterTypeOK
<1>2. \A w \in Worker : WorkerKeepsGrant(w)
  BY <1>0 DEF WorkerKeepsGrant
<1>3. ASSUME NEW g \in Handler, g # h PROVE CallKeepsGrant(g) /\ CallFlows(g)
  BY <1>1, <1>3 DEF CallKeepsGrant, CallFlows, GrantInv, GrantShape
<1>4. CASE CallKeepsGrant(h) /\ CallFlows(h)
  BY <1>0, <1>2, <1>3, <1>4, GrantFrame
<1>5. CASE Granted(h)
  <2>1. call[h].pc = "claim"
    BY <1>5 DEF Granted
  <2>2. call[h].job \in Job /\ call[h].worker \in Worker
    BY <1>0, <2>1 DEF CallShape, ClaimPC, BeatPC, FinishPC
  <2> QED BY <1>0, <1>1, <1>5, <2>2, ClaimGrants DEF Granted
<1> QED BY <1>0, <1>4, <1>5, StepAttempt

(* A call that a request, a failure or a response has just written. *)
FreshCall(c) ==
  /\ c.attempt = 0 /\ c.pc \notin {"readClaimed", "recover"}
  /\ c.pc \in {"register", "gate", "pop"} => c.job = NoJob

LEMMA FreshFrame ==
  ASSUME StoreTypeOK, StoreTypeOK', [StoreNext]_rowVars, GrantInv,
         \A h \in Handler : call'[h] = call[h] \/ FreshCall(call'[h]),
         \A w \in Worker : WorkerKeepsGrant(w)
  PROVE  GrantInv'
<1>1. \A h \in Handler : CallKeepsGrant(h) /\ CallFlows(h)
  BY DEF FreshCall, CallKeepsGrant, CallFlows, GrantInv, GrantShape
<1> QED BY <1>1, GrantFrame

LEMMA RequestWrites ==
  ASSUME call \in [Handler -> Call], NEW h \in Handler,
         Request(h) \/ CallFails(h) \/ Reply(h)
  PROVE  \A g \in Handler : call'[g] = call[g] \/ FreshCall(call'[g])
<1>1. ASSUME NEW g \in Handler, g # h PROVE call'[g] = call[g]
  BY <1>1, OthersUnmoved
<1>2. FreshCall(call'[h])
  BY DEF Request, Accept, EnqueueRequest, CancelRequest, ClaimRequest, WorkerRequest,
         HeartbeatRequest, FinishRequest, CallFails, Reply, NewCall, IdleCall, FreshCall
<1> QED BY <1>1, <1>2

LEMMA AnsweredWorkers ==
  ASSUME WorkerTypeOK, NEW w \in Worker,
         \/ BeatAnswered(w) \/ CompleteAnswered(w) \/ FailAnswered(w) \/ Alone(w)
         \/ WorkerRequests(w)
  PROVE  \A v \in Worker : WorkerKeepsGrant(v)
  BY DEF WorkerTypeOK, WorkerKeepsGrant, BeatAnswered, CompleteAnswered, FailAnswered, Alone,
         ExecutionFails, GiveUp, Refused, Kill, Revive, WorkerRequests, Poll, Beat, PostComplete,
         PostFail, Send, Proceed, Keep, Forget

-----------------------------------------------------------------------------
(* Requests in flight.  A worker that waits for a call waits for its own:  *)
(* nobody else does, and the call does what the worker asked for, unless   *)
(* it has failed.                                                          *)

Failed(c) == c.pc = "reply" /\ c.job = NoJob /\ ~c.ok

Serves(c, w) ==
  /\ c.worker = w
  /\ stage[w] = "claiming" =>
       /\ c.pc \in ClaimPC \cup {"reply"}
       /\ c.pc = "reply" /\ c.job # NoJob => c.attempt # 0
  /\ stage[w] = "beating" => c.pc \in {"heartbeat", "readBeat", "reply"}
  /\ stage[w] = "completing" =>
       /\ c.pc \in {"finish", "readFinished", "reply"}
       /\ c.job = task[w] /\ c.completed
       /\ c.pc = "readFinished" \/ (c.pc = "reply" /\ c.ok) => status[task[w]] = "completed"
  /\ stage[w] = "failing" =>
       c.pc \in {"finish", "readFinished", "readRequeued", "push", "reply"}

AwaitInv ==
  /\ \A w \in Worker : waitsFor[w] # NoCall =>
       /\ stage[w] \in Waiting
       /\ Failed(call[waitsFor[w]]) \/ Serves(call[waitsFor[w]], w)
  /\ \A v, w \in Worker : v # w /\ waitsFor[v] # NoCall => waitsFor[v] # waitsFor[w]

(* The response to a claim moves its grant into the worker. *)
LEMMA ClaimMovesGrant ==
  ASSUME WorkerTypeInv, GrantInv, AwaitInv, NEW w \in Worker, ClaimAnswered(w), UNCHANGED rowVars
  PROVE  GrantInv'
<1> DEFINE h == waitsFor[w]
           c == call[h]
<1>0. /\ WorkerTypeOK /\ h \in Handler /\ stage[w] = "claiming" /\ Reply(h)
      /\ call \in [Handler -> Call] /\ StoreTypeOK
  BY DEF WorkerTypeInv, TypeInv, MasterTypeOK, WorkerTypeOK, ClaimAnswered, Answered
<1>1. StoreTypeOK' /\ [StoreNext]_rowVars
  BY <1>0 DEF rowVars, StoreTypeOK
<1>2. \A g \in Handler : call'[g] = call[g] \/ FreshCall(call'[g])
  BY <1>0, RequestWrites
<1>3. CASE ~(c.ok /\ c.job # NoJob)
  <2>1. UNCHANGED <<task, attempt>>
    BY <1>3 DEF ClaimAnswered, Keep
  <2> QED BY <1>0, <1>1, <1>2, <2>1, FreshFrame DEF WorkerKeepsGrant
<1>4. CASE c.ok /\ c.job # NoJob
  <2>1. /\ task' = [task EXCEPT ![w] = c.job]
        /\ attempt' = [attempt EXCEPT ![w] = c.attempt]
    BY <1>4 DEF ClaimAnswered
  <2>2. c.worker = w /\ c.attempt # 0
    BY <1>0, <1>4, WorkerConstants DEF AwaitInv, Failed, Serves, Reply, WorkerTypeOK
  <2>3. LatestOwns(c.job, c.attempt, w)
    BY <1>0, <2>2 DEF GrantInv, GrantShape
  <2>4. /\ task'[w] = c.job /\ attempt'[w] = c.attempt
        /\ \A v \in Worker : v # w => task'[v] = task[v] /\ attempt'[v] = attempt[v]
    BY <1>0, <2>1 DEF WorkerTypeOK
  <2>5. call'[h].attempt = 0 /\ \A g \in Handler : g # h => call'[g] = call[g]
    BY <1>0 DEF Reply, IdleCall, NewCall
  <2>6. \A g \in Handler : GrantShape(call[g])'
    BY <1>0, <1>2 DEF FreshCall, GrantInv, GrantShape, LatestOwns, rowVars
  <2>7. \A v \in Worker : task'[v] # NoJob => LatestOwns(task[v], attempt[v], v)'
    BY <2>3, <2>4 DEF GrantInv, LatestOwns, rowVars
  <2>8. \A g, k \in Handler :
          g # k /\ call'[g].attempt # 0 /\ call'[g].job = call'[k].job
            => call'[g].attempt # call'[k].attempt
    BY <2>5 DEF GrantInv
  <2>9. \A v \in Worker, g \in Handler :
          task'[v] # NoJob /\ call'[g].job = task'[v] => call'[g].attempt # attempt'[v]
    <3> SUFFICES ASSUME NEW v \in Worker, NEW g \in Handler, task'[v] # NoJob,
                        call'[g].job = task'[v]
                 PROVE  call'[g].attempt # attempt'[v]
      OBVIOUS
    <3>1. attempt'[v] # 0
      BY <2>7 DEF LatestOwns
    <3>2. CASE g = h
      BY <2>5, <3>1, <3>2
    <3>3. CASE g # h
      BY <1>0, <2>2, <2>4, <2>5, <3>3 DEF GrantInv
    <3> QED BY <3>2, <3>3
  <2>10. OneWorkerPerAttempt'
    BY <1>0, <2>2, <2>4 DEF GrantInv, OneWorkerPerAttempt
  <2> QED BY <2>6, <2>7, <2>8, <2>9, <2>10 DEF GrantInv
<1> QED BY <1>3, <1>4

LEMMA GrantStep ==
  ASSUME WorkerTypeInv, WorkerTypeInv', GrantInv, AwaitInv, [ClusterNext]_clusterVars
  PROVE  GrantInv'
<1>0. /\ TypeInv /\ WorkerTypeOK /\ StoreTypeOK /\ StoreTypeOK' /\ call \in [Handler -> Call]
      /\ [StoreNext]_rowVars /\ [MasterNext]_masterVars
  BY ClusterTypes, NextIsMasterNext, NextRows DEF WorkerTypeInv, TypeInv, MasterTypeOK
<1>1. ASSUME NEW w \in Worker, NEW h \in Handler, Request(h), WorkerRequests(w) PROVE GrantInv'
  BY <1>0, <1>1, RequestWrites, AnsweredWorkers, FreshFrame
<1>2. ASSUME NEW w \in Worker, ClaimAnswered(w) PROVE GrantInv'
  <2>1. Reply(waitsFor[w])
    BY <1>2 DEF ClaimAnswered, Answered
  <2>2. UNCHANGED rowVars
    BY <2>1 DEF Reply
  <2> QED BY <1>2, <2>2, ClaimMovesGrant
<1>3. ASSUME NEW w \in Worker, BeatAnswered(w) \/ CompleteAnswered(w) \/ FailAnswered(w)
      PROVE  GrantInv'
  <2>1. waitsFor[w] \in Handler /\ Reply(waitsFor[w])
    BY <1>3, ClusterTypes, ResponsesAreReplies DEF WorkerResponses
  <2>2. \A h \in Handler : call'[h] = call[h] \/ FreshCall(call'[h])
    BY <1>0, <2>1, RequestWrites
  <2> QED BY <1>0, <1>3, <2>2, AnsweredWorkers, FreshFrame
<1>4. ASSUME NEW w \in Worker, Alone(w) PROVE GrantInv'
  <2>1. UNCHANGED call
    BY <1>4, AloneIsUnseen DEF masterVars
  <2> QED BY <1>0, <1>4, <2>1, AnsweredWorkers, FreshFrame
<1>5. ASSUME NEW h \in Handler, Serve(h) PROVE GrantInv'
  BY <1>0, <1>5, ServeGrants
<1>6. ASSUME UNCHANGED workerVars PROVE \A w \in Worker : WorkerKeepsGrant(w)
  BY <1>6 DEF workerVars, WorkerKeepsGrant
<1>7. ASSUME NEW h \in Handler, Fault(h) \/ Unheard(h) \/ ClientRequest(h) PROVE GrantInv'
  <2>1. Request(h) \/ CallFails(h) \/ Reply(h)
    BY <1>7 DEF Fault, Unheard, ClientRequest, Request
  <2>2. UNCHANGED workerVars
    BY <1>7 DEF Fault, Unheard, ClientRequest
  <2>3. \A g \in Handler : call'[g] = call[g] \/ FreshCall(call'[g])
    BY <1>0, <2>1, RequestWrites
  <2> QED BY <1>0, <1>6, <2>2, <2>3, FreshFrame
<1>8. CASE MasterCrash
  <2>1. \A h \in Handler : FreshCall(call'[h])
    BY <1>8 DEF MasterCrash, Crash, IdleCall, NewCall, FreshCall
  <2>2. \A w \in Worker : WorkerKeepsGrant(w)
    BY <1>8 DEF MasterCrash, WorkerKeepsGrant
  <2> QED BY <1>0, <2>1, <2>2, FreshFrame
<1>9. CASE Boot \/ (\E j \in Job : TimePasses(j)) \/ UNCHANGED clusterVars
  <2>1. UNCHANGED workerVars
    BY <1>9 DEF Boot, TimePasses, clusterVars
  <2>2. UNCHANGED call
    BY <1>9 DEF Boot, TimePasses, clusterVars, masterVars, Start, Hydrate, RequeueExpired,
                LogExpired,
                ReadQueued, Listen, Tick
  <2> QED BY <1>0, <1>6, <2>1, <2>2, FreshFrame
<1>10. ASSUME NEW w \in Worker, WorkerRequests(w) PROVE \E h \in Handler : Request(h)
  BY <1>10, ClusterTypes, RequestsAreRequests DEF WorkerRequests
<1> QED BY <1>1, <1>2, <1>3, <1>4, <1>5, <1>7, <1>8, <1>9, <1>10
        DEF ClusterNext, Alone, WorkerResponses

(* What worker w waits for is under way. *)
LEMMA AwaitedIsBusy ==
  ASSUME AwaitInv, NEW w \in Worker, waitsFor[w] # NoCall
  PROVE  call[waitsFor[w]].pc # "idle"
  BY DEF AwaitInv, Failed, Serves, Waiting, ClaimPC

(* Neither the worker nor its call moves. *)
LEMMA AwaitFrame ==
  ASSUME StoreTypeOK, [StoreNext]_rowVars, WorkerTypeOK, AwaitInv, NEW w \in Worker,
         waitsFor[w] # NoCall, stage'[w] = stage[w], task'[w] = task[w],
         waitsFor'[w] = waitsFor[w], call'[waitsFor[w]] = call[waitsFor[w]]
  PROVE  /\ stage'[w] \in Waiting
         /\ Failed(call[waitsFor[w]])' \/ Serves(call[waitsFor[w]], w)'
<1> DEFINE c == call[waitsFor[w]]
<1>0. stage[w] \in Waiting /\ call'[waitsFor'[w]] = c
  BY DEF AwaitInv
<1>1. CASE Failed(c)
  BY <1>0, <1>1 DEF Failed
<1>2. CASE Serves(c, w)
  <2>1. stage[w] = "completing" /\ status[task[w]] = "completed" => status'[task[w]] = "completed"
    <3> SUFFICES ASSUME stage[w] = "completing", status[task[w]] = "completed"
                 PROVE  status'[task[w]] = "completed"
      OBVIOUS
    <3>1. task[w] \in Job
      BY DEF WorkerTypeOK
    <3> QED BY <3>1, TerminalStep DEF Terminal
  <2> QED BY <1>0, <1>2, <2>1 DEF Serves
<1> QED BY <1>0, <1>1, <1>2 DEF AwaitInv

(* The call a worker waits for goes on serving it. *)
LEMMA StepServes ==
  ASSUME TypeInv, WorkerTypeOK, UNCHANGED workerVars, NEW w \in Worker, NEW h \in Handler,
         GrantShape(call[h]), Serves(call[h], w), stage[w] \in Waiting, Step(h)
  PROVE  Serves(call[h], w)'
<1>0. /\ call \in [Handler -> Call] /\ call[h] \in Call /\ call[h].worker = w
      /\ stage' = stage /\ task' = task
      /\ StoreTypeOK
  BY DEF TypeInv, MasterTypeOK, workerVars, Serves
<1>1. ASSUME NEW p, Goto(h, p)
      PROVE  /\ call'[h].pc = p /\ call'[h].job = call[h].job /\ call'[h].worker = w
             /\ call'[h].attempt = call[h].attempt /\ call'[h].completed = call[h].completed
  BY <1>0, <1>1 DEF Goto, Call
<1>2. ASSUME NEW ok \in BOOLEAN, Respond(h, ok)
      PROVE  /\ call'[h].pc = "reply" /\ call'[h].job = call[h].job /\ call'[h].worker = w
             /\ call'[h].attempt = call[h].attempt /\ call'[h].completed = call[h].completed
             /\ call'[h].ok = ok
  BY <1>0, <1>2 DEF Respond, Call
<1>3. call[h].pc # "reply"
  BY DEF Step, At, Insert, LogQueued, ReadJob, Push, Register, Gate, Pop, Claim, Recheck, Recover,
         Touch, Heartbeat, Finish, Remove, CancelJob, LogCancelled, ReadBack
<1>4. CASE stage[w] = "claiming"
  <2>0. call[h].pc \in ClaimPC
    BY <1>3, <1>4 DEF Serves
  <2>1. /\ call'[h].worker = w /\ call'[h].pc \in ClaimPC \cup {"reply"}
        /\ call'[h].pc = "reply" /\ call'[h].job # NoJob => call'[h].attempt # 0
    <3>1. CASE Register(h)
      BY <1>1, <3>1 DEF Register, ClaimPC
    <3>2. CASE Gate(h)
      BY <1>1, <1>2, <3>2 DEF Gate, At, GrantShape, ClaimPC
    <3>3. CASE Pop(h)
      <4>1. CASE Goto(h, "recover")
        BY <1>1, <4>1 DEF ClaimPC
      <4>2. ASSUME NEW j \in Heads, PopHead(h, j)
            PROVE  call'[h].pc = "claim" /\ call'[h].worker = w
        BY <1>0, <4>2 DEF PopHead, Call
      <4> QED BY <3>3, <4>1, <4>2 DEF Pop, ClaimPC
    <3>4. CASE Claim(h)
      <4>1. call'[h].pc \in {"readClaimed", "recheck"} /\ call'[h].worker = w
        BY <1>0, <3>4 DEF Claim, Goto, Call
      <4> QED BY <4>1 DEF ClaimPC
    <3>5. CASE Recheck(h)
      <4>1. call'[h].pc \in {"pop", "recover"} /\ call'[h].worker = w
        BY <1>0, <3>5 DEF Recheck, Call
      <4> QED BY <4>1 DEF ClaimPC
    <3>6. CASE Recover(h)
      <4>1. /\ call'[h].pc = "reply" /\ call'[h].worker = w
            /\ call'[h].job = call[h].job /\ call'[h].attempt = call[h].attempt
        BY <1>0, <3>6 DEF Recover, Call
      <4> QED BY <3>6, <4>1 DEF Recover, At, GrantShape
    <3>7. CASE ReadBack(h)
      <4>1. At(h, "readClaimed") /\ Goto(h, "recover")
        BY <2>0, <3>7 DEF ReadBack, At, ClaimPC
      <4> QED BY <1>1, <4>1 DEF At, GrantShape, ClaimPC
    <3> QED BY <2>0, <3>1, <3>2, <3>3, <3>4, <3>5, <3>6, <3>7
            DEF ClaimPC, Step, At, Insert, LogQueued, ReadJob, Push, Touch, Heartbeat, Finish,
                Remove,
                CancelJob, LogCancelled, ReadBack
  <2> QED BY <1>0, <1>4, <2>1 DEF Serves
<1>5. CASE stage[w] = "beating"
  <2>1. Heartbeat(h) \/ (ReadBack(h) /\ call[h].pc = "readBeat")
    BY <1>3, <1>5
       DEF Serves, Step, At, Insert, LogQueued, ReadJob, Push, Register, Gate, Pop, Claim, Recheck,
           Recover, Touch, Finish, Remove, CancelJob, LogCancelled, ReadBack
  <2>2. call'[h].pc \in {"readBeat", "reply"} /\ call'[h].worker = w
    BY <1>1, <1>2, <2>1 DEF Heartbeat, ReadBack, At
  <2> QED BY <1>0, <1>5, <2>2 DEF Serves
<1>6. CASE stage[w] = "completing"
  <2>0. CASE ReadBack(h)
    <3>1. /\ call[h].pc = "readFinished" /\ status[task[w]] = "completed"
          /\ call[h].job = task[w] /\ call[h].completed
      BY <1>6, <2>0 DEF Serves, ReadBack, At
    <3>2. Respond(h, TRUE) /\ status' = status
      BY <2>0, <3>1 DEF ReadBack, At, rowVars
    <3>3. call'[h].completed
      BY <1>2, <3>1, <3>2
    <3> QED BY <1>0, <1>2, <1>6, <3>1, <3>2, <3>3 DEF Serves
  <2> SUFFICES ASSUME ~ReadBack(h) PROVE Serves(call[h], w)'
    BY <2>0
  <2>1. call[h].job = task[w] /\ call[h].completed /\ task[w] \in Job /\ Finish(h)
    BY <1>3, <1>6
       DEF WorkerTypeOK, Serves, Step, At, Insert, LogQueued, ReadJob, Push, Register, Gate, Pop,
           Claim,
           Recheck, Recover, Touch, Heartbeat, Remove, CancelJob, LogCancelled, ReadBack
  <2>2. CASE HeldBy(task[w], w)
    <3>1. status'[task[w]] = "completed"
      BY <1>0, <2>1, <2>2 DEF Finish, FinishRow, CloseRow, StoreTypeOK
    <3>2. Goto(h, "readFinished")
      BY <1>0, <2>1, <2>2, <3>1 DEF Finish
    <3>3. call'[h].completed
      BY <1>1, <2>1, <3>2
    <3> QED BY <1>0, <1>1, <1>6, <2>1, <3>1, <3>2, <3>3 DEF Serves
  <2>3. CASE ~HeldBy(task[w], w)
    <3>1. Respond(h, FALSE)
      BY <1>0, <2>1, <2>3 DEF Finish, FinishRow
    <3>2. call'[h].completed
      BY <1>2, <2>1, <3>1
    <3> QED BY <1>0, <1>2, <1>6, <2>1, <3>1, <3>2 DEF Serves
  <2> QED BY <2>2, <2>3
<1>7. CASE stage[w] = "failing"
  <2>1. \/ Finish(h) \/ Push(h)
        \/ ReadBack(h) /\ call[h].pc \in {"readFinished", "readRequeued"}
    BY <1>3, <1>7
       DEF Serves, Step, At, Insert, LogQueued, ReadJob, Register, Gate, Pop, Claim, Recheck,
           Recover, Touch, Heartbeat, Remove, CancelJob, LogCancelled, ReadBack
  <2>2. /\ call'[h].pc \in {"readFinished", "readRequeued", "push", "reply"}
        /\ call'[h].worker = w
    BY <1>1, <1>2, <2>1 DEF Finish, Push, ReadBack, At
  <2> QED BY <1>0, <1>7, <2>2 DEF Serves
<1> QED BY <1>4, <1>5, <1>6, <1>7 DEF Waiting

(* Worker w, if it waits in the next state, waits for its own call. *)
Awaiting(w) ==
  waitsFor[w] # NoCall =>
    /\ stage[w] \in Waiting
    /\ Failed(call[waitsFor[w]]) \/ Serves(call[waitsFor[w]], w)

Alternatives(h) == Request(h) \/ CallFails(h) \/ Reply(h) \/ Step(h)

LEMMA BystanderAwaits ==
  ASSUME StoreTypeOK, [StoreNext]_rowVars, WorkerTypeOK, AwaitInv, call \in [Handler -> Call],
         NEW w \in Worker, stage'[w] = stage[w], task'[w] = task[w], waitsFor'[w] = waitsFor[w],
         NEW h \in Handler, Alternatives(h), waitsFor[w] # h
  PROVE  Awaiting(w)'
<1> SUFFICES ASSUME waitsFor[w] # NoCall PROVE Awaiting(w)'
  BY DEF Awaiting
<1>1. waitsFor[w] \in Handler
  BY DEF WorkerTypeOK
<1>2. call'[waitsFor[w]] = call[waitsFor[w]]
  BY <1>1, OthersUnmoved DEF Alternatives
<1> QED BY <1>2, AwaitFrame DEF Awaiting

(* What a worker sends is what it then waits for. *)
LEMMA RequestAwaits ==
  ASSUME WorkerTypeOK, call \in [Handler -> Call], NEW w \in Worker, NEW h \in Handler,
         Poll(w, h) \/ Beat(w, h) \/ PostComplete(w, h) \/ PostFail(w, h)
  PROVE  Awaiting(w)' /\ waitsFor'[w] = h /\ call[h].pc = "idle"
<1>1. waitsFor'[w] = h /\ call[h].pc = "idle"
  BY DEF WorkerTypeOK, Poll, Beat, PostComplete, PostFail, Send, ClaimRequest, HeartbeatRequest,
         FinishRequest, Accept
<1>2. CASE Poll(w, h)
  <2>1. stage'[w] = "claiming" /\ call'[h] = NewCall("register", NoJob, w, FALSE)
    BY <1>2 DEF WorkerTypeOK, Poll, Send, ClaimRequest, Accept
  <2> QED BY <1>1, <2>1 DEF Awaiting, Serves, NewCall, Waiting, ClaimPC
<1>3. CASE Beat(w, h)
  <2>1. stage'[w] = "beating" /\ call'[h] = NewCall("heartbeat", task[w], w, FALSE)
    BY <1>3 DEF WorkerTypeOK, Beat, Send, HeartbeatRequest, Accept
  <2> QED BY <1>1, <2>1 DEF Awaiting, Serves, NewCall, Waiting
<1>4. CASE PostComplete(w, h)
  <2>1. /\ stage'[w] = "completing" /\ call'[h] = NewCall("finish", task[w], w, TRUE)
        /\ task' = task
    BY <1>4 DEF WorkerTypeOK, PostComplete, Send, FinishRequest, Accept
  <2> QED BY <1>1, <2>1 DEF Awaiting, Serves, NewCall, Waiting
<1>5. CASE PostFail(w, h)
  <2>1. stage'[w] = "failing" /\ call'[h] = NewCall("finish", task[w], w, FALSE)
    BY <1>5 DEF WorkerTypeOK, PostFail, Send, FinishRequest, Accept
  <2> QED BY <1>1, <2>1 DEF Awaiting, Serves, NewCall, Waiting
<1> QED BY <1>1, <1>2, <1>3, <1>4, <1>5

Alternate(v, w) == waitsFor[v] # NoCall => waitsFor[v] # waitsFor[w]

LEMMA AwaitStep ==
  ASSUME WorkerTypeInv, GrantInv, AwaitInv, [ClusterNext]_clusterVars
  PROVE  AwaitInv'
<1>0. /\ TypeInv /\ WorkerTypeOK /\ StoreTypeOK /\ call \in [Handler -> Call]
      /\ [StoreNext]_rowVars
  BY ClusterTypes, NextIsMasterNext, NextRows DEF WorkerTypeInv, TypeInv, MasterTypeOK
<1>a. AwaitInv' <=> /\ \A w \in Worker : Awaiting(w)'
                    /\ \A v, w \in Worker : v # w => Alternate(v, w)'
  BY DEF AwaitInv, Awaiting, Alternate
<1>b. \A v, w \in Worker : v # w => Alternate(v, w)
  BY DEF AwaitInv, Alternate
<1>1. ASSUME NEW w \in Worker, NEW h \in Handler,
             Poll(w, h) \/ Beat(w, h) \/ PostComplete(w, h) \/ PostFail(w, h)
      PROVE  AwaitInv'
  <2>1. Awaiting(w)' /\ waitsFor'[w] = h /\ call[h].pc = "idle" /\ Request(h)
    BY <1>0, <1>1, ClusterTypes, RequestAwaits, RequestsAreRequests
  <2>2. ASSUME NEW v \in Worker, v # w
        PROVE  /\ stage'[v] = stage[v] /\ task'[v] = task[v] /\ waitsFor'[v] = waitsFor[v]
               /\ waitsFor[v] # h
    <3>1. waitsFor[v] # h
      BY <2>1, AwaitedIsBusy, WorkerConstants
    <3> QED BY <1>0, <1>1, <2>2, <3>1
            DEF WorkerTypeOK, Poll, Beat, PostComplete, PostFail, Send
  <2>3. \A v \in Worker : Awaiting(v)'
    BY <1>0, <2>1, <2>2, BystanderAwaits DEF Alternatives
  <2>4. \A u, v \in Worker : u # v => Alternate(u, v)'
    BY <1>b, <2>1, <2>2 DEF Alternate
  <2> QED BY <1>a, <2>3, <2>4
<1>2. ASSUME NEW w \in Worker, waitsFor'[w] = NoCall,
             \A v \in Worker : v # w =>
               stage'[v] = stage[v] /\ task'[v] = task[v] /\ waitsFor'[v] = waitsFor[v],
             UNCHANGED call \/ (waitsFor[w] \in Handler /\ Reply(waitsFor[w]))
      PROVE  AwaitInv'
  <2>1. ASSUME NEW v \in Worker, v # w, waitsFor[v] # NoCall PROVE Awaiting(v)'
    <3>1. CASE UNCHANGED call
      BY <1>0, <1>2, <2>1, <3>1, AwaitFrame DEF Awaiting
    <3>2. CASE waitsFor[w] \in Handler /\ Reply(waitsFor[w])
      <4>1. waitsFor[v] # waitsFor[w]
        BY <2>1 DEF AwaitInv
      <4> QED BY <1>0, <1>2, <2>1, <3>2, <4>1, BystanderAwaits DEF Alternatives
    <3> QED BY <1>2, <3>1, <3>2
  <2>2. \A v \in Worker : Awaiting(v)'
    BY <1>2, <2>1 DEF Awaiting
  <2>3. \A u, v \in Worker : u # v => Alternate(u, v)'
    BY <1>b, <1>2, WorkerConstants DEF Alternate
  <2> QED BY <1>a, <2>2, <2>3
<1>3. ASSUME NEW w \in Worker, WorkerResponses(w) PROVE AwaitInv'
  <2>1. waitsFor[w] \in Handler /\ Reply(waitsFor[w])
    BY <1>3, ClusterTypes, ResponsesAreReplies
  <2>2. /\ waitsFor'[w] = NoCall
        /\ \A v \in Worker : v # w =>
             stage'[v] = stage[v] /\ task'[v] = task[v] /\ waitsFor'[v] = waitsFor[v]
    BY <1>0, <1>3 DEF WorkerTypeOK, WorkerResponses, ClaimAnswered, BeatAnswered, CompleteAnswered,
                      FailAnswered, Proceed, Keep, Forget
  <2> QED BY <1>2, <2>1, <2>2
<1>4. ASSUME NEW w \in Worker, Alone(w) PROVE AwaitInv'
  <2>1. UNCHANGED call
    BY <1>4, AloneIsUnseen DEF masterVars
  <2>2. waitsFor'[w] = NoCall
    <3>1. CASE ExecutionFails(w)
      BY <3>1 DEF ExecutionFails, AwaitInv, Waiting
    <3>2. CASE GiveUp(w) \/ Refused(w) \/ Kill(w) \/ Revive(w)
      BY <1>0, <3>2 DEF WorkerTypeOK, GiveUp, Refused, Kill, Revive, Proceed
    <3> QED BY <1>4, <3>1, <3>2 DEF Alone
  <2>3. \A v \in Worker : v # w =>
          stage'[v] = stage[v] /\ task'[v] = task[v] /\ waitsFor'[v] = waitsFor[v]
    BY <1>0, <1>4 DEF WorkerTypeOK, Alone, ExecutionFails, GiveUp, Refused, Kill, Revive,
                      Proceed, Keep,
                      Forget
  <2> QED BY <1>2, <2>1, <2>2, <2>3
<1>5. ASSUME UNCHANGED workerVars, \A w \in Worker : Awaiting(w)' PROVE AwaitInv'
  BY <1>a, <1>b, <1>5 DEF Alternate, workerVars
<1>6. ASSUME NEW h \in Handler, Serve(h) PROVE AwaitInv'
  <2>0. Step(h) /\ UNCHANGED workerVars
    BY <1>6 DEF Serve
  <2>1. ASSUME NEW w \in Worker, waitsFor[w] = h PROVE Awaiting(w)'
    <3>1. stage[w] \in Waiting /\ (Failed(call[h]) \/ Serves(call[h], w))
      BY <2>1, WorkerConstants DEF AwaitInv
    <3>2. ~Failed(call[h])
      BY <2>0 DEF Failed, Step, At, Insert, LogQueued, ReadJob, Push, Register, Gate, Pop, Claim,
                  Recheck, Recover, Touch, Heartbeat, Finish, Remove, CancelJob, LogCancelled,
                  ReadBack
    <3>3. Serves(call[h], w)'
      BY <1>0, <2>0, <3>1, <3>2, StepServes DEF GrantInv
    <3> QED BY <2>0, <2>1, <3>1, <3>3 DEF Awaiting, workerVars
  <2>2. ASSUME NEW w \in Worker, waitsFor[w] # h PROVE Awaiting(w)'
    BY <1>0, <2>0, <2>2, BystanderAwaits DEF Alternatives, workerVars
  <2> QED BY <1>5, <2>0, <2>1, <2>2
<1>7. ASSUME NEW h \in Handler, Fault(h) PROVE AwaitInv'
  <2>0. CallFails(h) /\ UNCHANGED workerVars
    BY <1>7 DEF Fault
  <2>1. ASSUME NEW w \in Worker, waitsFor[w] = h PROVE Awaiting(w)'
    <3>1. Failed(call'[h]) /\ stage[w] \in Waiting
      BY <1>0, <2>0, <2>1, WorkerConstants DEF CallFails, NewCall, Failed, AwaitInv
    <3> QED BY <2>0, <2>1, <3>1 DEF Awaiting, Failed, workerVars
  <2>2. ASSUME NEW w \in Worker, waitsFor[w] # h PROVE Awaiting(w)'
    BY <1>0, <2>0, <2>2, BystanderAwaits DEF Alternatives, workerVars
  <2> QED BY <1>5, <2>0, <2>1, <2>2
<1>8. ASSUME NEW h \in Handler, Unheard(h) \/ ClientRequest(h) PROVE AwaitInv'
  <2>0. (Request(h) \/ Reply(h)) /\ UNCHANGED workerVars
    BY <1>8 DEF Unheard, ClientRequest, Request
  <2>1. ASSUME NEW w \in Worker PROVE waitsFor[w] # h
    <3>1. CASE Unheard(h)
      BY <3>1 DEF Unheard
    <3>2. CASE ClientRequest(h)
      <4>1. call[h].pc = "idle"
        BY <3>2 DEF ClientRequest, EnqueueRequest, CancelRequest, Accept
      <4> QED BY <4>1, AwaitedIsBusy, WorkerConstants
    <3> QED BY <1>8, <3>1, <3>2
  <2>2. \A w \in Worker : Awaiting(w)'
    BY <1>0, <2>0, <2>1, BystanderAwaits DEF Alternatives, workerVars
  <2> QED BY <1>5, <2>0, <2>2
<1>9. CASE MasterCrash
  BY <1>9 DEF MasterCrash, AwaitInv
<1>10. CASE Boot \/ (\E j \in Job : TimePasses(j)) \/ UNCHANGED clusterVars
  <2>1. UNCHANGED workerVars
    BY <1>10 DEF Boot, TimePasses, clusterVars
  <2>2. UNCHANGED call
    BY <1>10 DEF Boot, TimePasses, clusterVars, masterVars, Start, Hydrate, RequeueExpired,
                 LogExpired, ReadQueued, Listen, Tick
  <2>3. ASSUME NEW w \in Worker, waitsFor[w] # NoCall PROVE Awaiting(w)'
    BY <1>0, <2>1, <2>2, <2>3, AwaitFrame DEF Awaiting, workerVars
  <2>4. \A w \in Worker : Awaiting(w)'
    BY <2>1, <2>3 DEF Awaiting, workerVars
  <2> QED BY <1>5, <2>1, <2>4
<1> QED BY <1>1, <1>3, <1>4, <1>6, <1>7, <1>8, <1>9, <1>10 DEF ClusterNext, Alone, WorkerRequests

-----------------------------------------------------------------------------

ClusterInv == WorkerTypeInv /\ GrantInv /\ AwaitInv

LEMMA ClusterInvInit == ClusterInit => ClusterInv
<1> SUFFICES ASSUME ClusterInit PROVE ClusterInv
  OBVIOUS
<1>1. GrantInv /\ AwaitInv
  BY DEF ClusterInit, MasterInit, IdleCall, NewCall, GrantInv, GrantShape, OneWorkerPerAttempt,
         AwaitInv
<1> QED BY <1>1, WorkerTypeInvInit DEF ClusterInv

LEMMA ClusterInvStep == ClusterInv /\ [ClusterNext]_clusterVars => ClusterInv'
  BY WorkerTypeInvStep, GrantStep, AwaitStep DEF ClusterInv

(* Two workers may execute one job at once, when a lease ran out under a   *)
(* live worker or a response came too late, but never the same attempt of  *)
(* it, for any number of workers, jobs and requests in flight.             *)
THEOREM AttemptsAreExecutedOnce == ClusterSpec => []OneWorkerPerAttempt
<1>1. ClusterInv => OneWorkerPerAttempt
  BY DEF ClusterInv, GrantInv
<1> QED BY <1>1, ClusterInvInit, ClusterInvStep, PTL DEF ClusterSpec

(* Whoever executes the latest attempt of a job still held is in its row.  *)
THEOREM LatestAttemptIsHolder == ClusterSpec => []LatestAttemptOwns
<1>1. ClusterInv => LatestAttemptOwns
  BY DEF ClusterInv, GrantInv, LatestOwns, LatestAttemptOwns
<1> QED BY <1>1, ClusterInvInit, ClusterInvStep, PTL DEF ClusterSpec

(* A worker that is told its job is complete can rely on it, although the  *)
(* job may have been requeued, reassigned or cancelled while it worked.    *)
THEOREM AcknowledgementsAreTrue == ClusterSpec => AcknowledgedIsCompleted
<1> DEFINE Told == \A w \in Worker :
                     (stage[w] = "completing" /\ stage'[w] = "idle")
                       => status[task[w]] = "completed"
<1>1. ClusterInv /\ [ClusterNext]_clusterVars => Told
  <2> SUFFICES ASSUME ClusterInv, [ClusterNext]_clusterVars, NEW w \in Worker,
                      stage[w] = "completing", stage'[w] = "idle"
               PROVE  status[task[w]] = "completed"
    OBVIOUS
  <2>0. WorkerTypeOK /\ AwaitInv
    BY DEF ClusterInv, WorkerTypeInv
  <2>1. ASSUME NEW v \in Worker,
               WorkerRequests(v) \/ Alone(v)
               \/ ClaimAnswered(v) \/ BeatAnswered(v) \/ FailAnswered(v)
        PROVE  FALSE
    BY <2>0, <2>1 DEF WorkerTypeOK, WorkerRequests, Poll, Beat, PostComplete, PostFail, Send, Alone,
                      ExecutionFails, GiveUp, Refused, Kill, Revive, ClaimAnswered, BeatAnswered,
                      FailAnswered, Answered, Proceed
  <2>2. ASSUME NEW v \in Worker, CompleteAnswered(v) PROVE status[task[w]] = "completed"
    <3>1. v = w /\ waitsFor[w] # NoCall /\ call[waitsFor[w]].pc = "reply" /\ call[waitsFor[w]].ok
      BY <2>0, <2>2 DEF WorkerTypeOK, CompleteAnswered, Answered, Proceed, Reply
    <3> QED BY <2>0, <3>1 DEF AwaitInv, Failed, Serves
  <2>3. ~UNCHANGED stage
    OBVIOUS
  <2> QED BY <2>1, <2>2, <2>3
          DEF ClusterNext, Alone, WorkerResponses, Serve, Fault, Unheard, ClientRequest,
              MasterCrash,
              Boot, TimePasses, workerVars, clusterVars
<1>2. ClusterInv /\ [ClusterNext]_clusterVars => [Told]_clusterVars
  BY <1>1
<1> QED BY <1>2, ClusterInvInit, ClusterInvStep, PTL DEF ClusterSpec, AcknowledgedIsCompleted
=============================================================================
