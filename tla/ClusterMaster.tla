---------------------------- MODULE ClusterMaster ----------------------------
(***************************************************************************)
(* The cluster master process: ClusterCoordinator over the MySQL rows of   *)
(* JobStore and the Redis sorted set (cluster_queue.mjs, server.mjs).      *)
(*                                                                         *)
(* Node runs one handler at a time but switches between them at every      *)
(* await, so a request is a call that moves one await at a time and any    *)
(* two calls interleave between their statements.  The process may stop at *)
(* any point; MySQL and Redis keep their contents, the calls do not.       *)
(*                                                                         *)
(* Requests come from an open environment: any worker key may ask for any  *)
(* operation at any time.  ClusterWorker says what real workers do.        *)
(***************************************************************************)
EXTENDS JobStore

CONSTANTS
  Handler,        \* requests in flight at once (bound)
  NoJob,          \* no row has been popped
  Rank,           \* [Job -> Nat]: priority, the leading part of the Redis score
  PopLimit,       \* pops one claim may make (25 in the code)
  Sharing,        \* workers on Kokoro's host, whose claims may be deferred
  CallsMayFail    \* whether MySQL and Redis calls may reject

ASSUME MasterConstants ==
  /\ NoJob \notin Job
  /\ NoWorker \notin Worker
  /\ Rank \in [Job -> Nat]
  /\ PopLimit \in 1..25
  /\ Sharing \subseteq Worker
  /\ CallsMayFail \in BOOLEAN

VARIABLES
  queue,      \* members of the Redis sorted set
  trail,      \* [Job -> type of the last row in cluster_job_events]
  call,       \* [Handler -> Call]: the requests in flight
  master,     \* whether the process is down, hydrating or serving
  sweep,      \* ids hydrate has read and not yet written back
  stranded    \* history: ids a failed call dropped since the last hydrate

masterVars == <<rowVars, queue, trail, call, master, sweep, stranded>>

Event == {"none", "queued", "claimed", "completed", "failed", "cancelled",
          "lease_requeued", "lease_failed"}

EnqueuePC == {"insert", "logQueued", "readJob", "push"}
ClaimPC   == {"register", "gate", "pop", "claim", "readClaimed", "recheck", "recover"}
BeatPC    == {"heartbeat", "readBeat"}
FinishPC  == {"finish", "readFinished", "readRequeued"}
CancelPC  == {"remove", "cancel", "logCancelled", "readCancelled"}
BusyPC    == EnqueuePC \cup ClaimPC \cup BeatPC \cup FinishPC \cup CancelPC \cup {"touch"}
PC        == {"idle", "reply"} \cup BusyPC

Call == [pc : PC,
         job : Job \cup {NoJob},
         worker : Worker \cup {NoWorker},
         completed : BOOLEAN,           \* outcome.completed of a finish
         deferred : SUBSET Job,         \* claim's list of the same name
         pops : 0..25,                  \* claim's loop counter
         attempt : 0..10,               \* history: attempt_count as claim wrote it
         ok : BOOLEAN]                  \* the response is a 2xx

NewCall(pc, j, w, completed) ==
  [pc |-> pc, job |-> j, worker |-> w, completed |-> completed,
   deferred |-> {}, pops |-> 0, attempt |-> 0, ok |-> FALSE]

IdleCall == NewCall("idle", NoJob, NoWorker, FALSE)

(* The await hydrate is at, and what it holds.  expired: ids requeueExpired *)
(* has yet to update; logging: the id whose event comes next; restore: the  *)
(* entries that will be added to Redis.                                     *)
Sweep == [expired : SUBSET Job, logging : Job \cup {NoJob}, restore : SUBSET Job]
NoSweep == [expired |-> {}, logging |-> NoJob, restore |-> {}]

Inserted == {j \in Job : status[j] # "absent"}
Queued == {j \in Job : status[j] = "queued"}

MasterTypeOK ==
  /\ StoreTypeOK
  /\ queue \subseteq Job
  /\ trail \in [Job -> Event]
  /\ call \in [Handler -> Call]
  /\ master \in {"down", "expiring", "restoring", "up"}
  /\ sweep \in Sweep
  /\ stranded \subseteq Job

MasterInit ==
  /\ StoreInit
  /\ queue = {}
  /\ trail = [j \in Job |-> "none"]
  /\ call = [h \in Handler |-> IdleCall]
  /\ master = "down"
  /\ sweep = NoSweep
  /\ stranded = {}

-----------------------------------------------------------------------------
(* Requests. *)

Accept(h, request) ==
  /\ master = "up"
  /\ call[h].pc = "idle"
  /\ call' = [call EXCEPT ![h] = request]
  /\ UNCHANGED <<rowVars, queue, trail, master, sweep, stranded>>

(* Mutant of EnqueueRequest: Redis first. *)
EnqueueUninserted(h, j) ==
  Accept(h, NewCall("push", j, NoWorker, FALSE))

EnqueueRequest(h, j) ==
  Accept(h, NewCall("insert", j, NoWorker, FALSE))

CancelRequest(h, j) ==
  Accept(h, NewCall("remove", j, NoWorker, FALSE))

ClaimRequest(h, w) ==
  Accept(h, NewCall("register", NoJob, w, FALSE))

WorkerRequest(h, w) ==
  Accept(h, NewCall("touch", NoJob, w, FALSE))

HeartbeatRequest(h, j, w) ==
  Accept(h, NewCall("heartbeat", j, w, FALSE))

FinishRequest(h, j, w, completed) ==
  Accept(h, NewCall("finish", j, w, completed))

-----------------------------------------------------------------------------
(* Steps of a call. *)

Goto(h, next) == call' = [call EXCEPT ![h].pc = next]
Respond(h, ok) == call' = [call EXCEPT ![h].pc = "reply", ![h].ok = ok]

Log(j, event) == trail' = [trail EXCEPT ![j] = event]

(* Call h is at pc; no step of a call touches the process-wide state. *)
At(h, pc) ==
  /\ call[h].pc = pc
  /\ UNCHANGED <<master, sweep, stranded>>

Insert(h) ==
  LET j == call[h].job IN
  /\ At(h, "insert")
  /\ \/ InsertRow(j) /\ Goto(h, "logQueued")
     \/ j \in Inserted /\ Goto(h, "readJob") /\ UNCHANGED rowVars
  /\ UNCHANGED <<queue, trail>>

LogQueued(h) ==
  /\ At(h, "logQueued")
  /\ Log(call[h].job, "queued")
  /\ Goto(h, "readJob")
  /\ UNCHANGED <<rowVars, queue>>

ReadJob(h) ==
  /\ At(h, "readJob")
  /\ \/ call[h].job \in Queued /\ Goto(h, "push")
     \/ call[h].job \notin Queued /\ Respond(h, TRUE)
  /\ UNCHANGED <<rowVars, queue, trail>>

(* zAdd at the end of enqueue, and of a finish that requeued. *)
Push(h) ==
  /\ At(h, "push")
  /\ queue' = queue \cup {call[h].job}
  /\ Respond(h, TRUE)
  /\ UNCHANGED <<rowVars, trail>>

Register(h) ==
  /\ At(h, "register")
  /\ RegisterRow(call[h].worker)
  /\ Goto(h, "gate")
  /\ UNCHANGED <<queue, trail>>

(* resourceBusy in the request, or isKokoroBusy: only a worker that shares *)
(* Kokoro's host is ever turned away here.                                 *)
Gate(h) ==
  /\ At(h, "gate")
  /\ \/ Goto(h, "pop")
     \/ call[h].worker \in Sharing /\ Respond(h, TRUE)
  /\ UNCHANGED <<rowVars, queue, trail>>

(* zPopMin: of the members with the least score, the one created first,    *)
(* here any.  An empty set ends the claim.                                 *)
Heads == {j \in queue : \A i \in queue : Rank[j] <= Rank[i]}

PopHead(h, j) ==
  /\ queue' = queue \ {j}
  /\ call' = [call EXCEPT ![h].pc = "claim", ![h].job = j, ![h].pops = @ + 1]

Pop(h) ==
  /\ At(h, "pop")
  /\ \/ \E j \in Heads : PopHead(h, j)
     \/ queue = {} /\ Goto(h, "recover") /\ UNCHANGED queue
  /\ UNCHANGED <<rowVars, trail>>

Claim(h) ==
  LET j == call[h].job
      w == call[h].worker
  IN
  /\ At(h, "claim")
  /\ \/ /\ ClaimRow(j, w)
        /\ Log(j, "claimed")
        /\ call' = [call EXCEPT ![h].pc = "readClaimed", ![h].attempt = attempts'[j]]
     \/ /\ ~Claimable(j, w)
        /\ Goto(h, "recheck")
        /\ UNCHANGED <<rowVars, trail>>
  /\ UNCHANGED queue

(* The getJob that follows a committed change.  Of the row it returns,     *)
(* workers use only columns that no statement changes; what matters is     *)
(* that it may come late, or reject although the change is in MySQL.       *)
ReadBack(h) ==
  /\ \/ At(h, "readClaimed") /\ Goto(h, "recover")
     \/ At(h, "readRequeued") /\ Goto(h, "push")
     \/ \E pc \in {"readBeat", "readFinished", "readCancelled"} :
          At(h, pc) /\ Respond(h, TRUE)
  /\ UNCHANGED <<rowVars, queue, trail>>

(* Mutant of Recheck: the first mismatch ends the claim. *)
RecheckOnce(h) ==
  LET j == call[h].job IN
  /\ At(h, "recheck")
  /\ call' = [call EXCEPT
       ![h].pc = "recover",
       ![h].job = NoJob,
       ![h].deferred = IF j \in Queued THEN @ \cup {j} ELSE @]
  /\ UNCHANGED <<rowVars, queue, trail>>

(* getJob after a refused claim, and the loop test. *)
Recheck(h) ==
  LET j == call[h].job IN
  /\ At(h, "recheck")
  /\ call' = [call EXCEPT
       ![h].pc = IF call[h].pops < PopLimit THEN "pop" ELSE "recover",
       ![h].job = NoJob,
       ![h].deferred = IF j \in Queued THEN @ \cup {j} ELSE @]
  /\ UNCHANGED <<rowVars, queue, trail>>

Recover(h) ==
  /\ At(h, "recover")
  /\ queue' = queue \cup call[h].deferred
  /\ call' = [call EXCEPT ![h] = [@ EXCEPT !.pc = "reply", !.deferred = {}, !.ok = TRUE]]
  /\ UNCHANGED <<rowVars, trail>>

(* POST /workers/heartbeat. *)
Touch(h) ==
  /\ At(h, "touch")
  /\ RegisterRow(call[h].worker)
  /\ Respond(h, TRUE)
  /\ UNCHANGED <<queue, trail>>

Heartbeat(h) ==
  LET j == call[h].job
      w == call[h].worker
  IN
  /\ At(h, "heartbeat")
  /\ \/ HeartbeatRow(j, w) /\ Goto(h, "readBeat")
     \/ ~HeldBy(j, w) /\ Respond(h, FALSE) /\ UNCHANGED rowVars
  /\ UNCHANGED <<queue, trail>>

(* Mutant of Finish: a result for a job no longer held is answered 200. *)
FinishUnchecked(h) ==
  LET j == call[h].job
      w == call[h].worker
  IN
  /\ At(h, "finish")
  /\ \/ /\ FinishRow(j, w, call[h].completed)
        /\ Log(j, status'[j])
        /\ Goto(h, IF status'[j] = "queued" THEN "readRequeued" ELSE "readFinished")
     \/ /\ ~HeldBy(j, w)
        /\ Respond(h, TRUE)
        /\ UNCHANGED <<rowVars, trail>>
  /\ UNCHANGED queue

Finish(h) ==
  LET j == call[h].job
      w == call[h].worker
      completed == call[h].completed
  IN
  /\ At(h, "finish")
  /\ \/ /\ FinishRow(j, w, completed)
        /\ Log(j, status'[j])
        /\ Goto(h, IF status'[j] = "queued" THEN "readRequeued" ELSE "readFinished")
     \/ /\ ~HeldBy(j, w)
        /\ Respond(h, FALSE)
        /\ UNCHANGED <<rowVars, trail>>
  /\ UNCHANGED queue

(* Mutant of Remove: the event is written before the UPDATE. *)
RemoveAndLog(h) ==
  /\ At(h, "remove")
  /\ queue' = queue \ {call[h].job}
  /\ Log(call[h].job, "cancelled")
  /\ Goto(h, "cancel")
  /\ UNCHANGED rowVars

Remove(h) ==
  /\ At(h, "remove")
  /\ queue' = queue \ {call[h].job}
  /\ Goto(h, "cancel")
  /\ UNCHANGED <<rowVars, trail>>

CancelJob(h) ==
  LET j == call[h].job IN
  /\ At(h, "cancel")
  /\ \/ CancelRow(j) /\ Goto(h, "logCancelled")
     \/ status[j] \notin Open /\ Respond(h, FALSE) /\ UNCHANGED rowVars
  /\ UNCHANGED <<queue, trail>>

LogCancelled(h) ==
  /\ At(h, "logCancelled")
  /\ Log(call[h].job, "cancelled")
  /\ Goto(h, "readCancelled")
  /\ UNCHANGED <<rowVars, queue>>

Reply(h) ==
  /\ call[h].pc = "reply"
  /\ call' = [call EXCEPT ![h] = IdleCall]
  /\ UNCHANGED <<rowVars, queue, trail, master, sweep, stranded>>

(* The ids a call is the only one to know: popped or removed from Redis,   *)
(* or queued in MySQL and not yet added to Redis.                          *)
Carried(h) ==
  LET c == call[h] IN
  c.deferred \cup
    (IF c.pc \in {"logQueued", "readJob", "readRequeued", "push", "claim", "recheck", "cancel"}
     THEN {c.job} ELSE {})

(* A MySQL or Redis promise rejects.  The handler throws, an open          *)
(* transaction rolls back, the response is an error, and nobody has the    *)
(* ids any more.  What was committed before stays: a worker may be refused *)
(* a job that MySQL says it holds, or a result that MySQL has taken.       *)
CallFails(h) ==
  /\ CallsMayFail
  /\ call[h].pc \in BusyPC
  /\ stranded' = stranded \cup Carried(h)
  /\ call' = [call EXCEPT ![h] = NewCall("reply", NoJob, NoWorker, FALSE)]
  /\ UNCHANGED <<rowVars, queue, trail, master, sweep>>

Step(h) ==
  \/ Insert(h) \/ LogQueued(h) \/ ReadJob(h) \/ Push(h)
  \/ Register(h) \/ Gate(h) \/ Pop(h) \/ Claim(h) \/ Recheck(h) \/ Recover(h)
  \/ Touch(h) \/ Heartbeat(h) \/ Finish(h) \/ ReadBack(h)
  \/ Remove(h) \/ CancelJob(h) \/ LogCancelled(h)

-----------------------------------------------------------------------------
(* Start, hydrate and stop. *)

(* hydrate runs before listen, so no request is in flight during it: first *)
(* the SELECT of requeueExpired.                                           *)
Start ==
  /\ master = "down"
  /\ master' = "expiring"
  /\ sweep' = [NoSweep EXCEPT !.expired = {j \in Job : Expired(j)}]
  /\ UNCHANGED <<rowVars, queue, trail, call, stranded>>

RequeueExpired(j) ==
  /\ master = "expiring" /\ sweep.logging = NoJob
  /\ j \in sweep.expired
  /\ ExpireRow(j)
  /\ sweep' = [sweep EXCEPT !.expired = @ \ {j}, !.logging = j]
  /\ UNCHANGED <<queue, trail, call, master, stranded>>

LogExpired ==
  LET j == sweep.logging IN
  /\ master = "expiring" /\ j # NoJob
  /\ Log(j, IF status[j] = "queued" THEN "lease_requeued" ELSE "lease_failed")
  /\ sweep' = [sweep EXCEPT !.logging = NoJob,
                            !.restore = @ \cup ({j} \cap Queued)]
  /\ UNCHANGED <<rowVars, queue, call, master, stranded>>

(* Mutant of ReadQueued: only what was just requeued goes back to Redis. *)
ReadNothing ==
  /\ master = "expiring" /\ sweep.logging = NoJob /\ sweep.expired = {}
  /\ master' = "restoring"
  /\ UNCHANGED <<rowVars, queue, trail, call, sweep, stranded>>

ReadQueued ==
  /\ master = "expiring" /\ sweep.logging = NoJob /\ sweep.expired = {}
  /\ master' = "restoring"
  /\ sweep' = [sweep EXCEPT !.restore = @ \cup Queued]
  /\ UNCHANGED <<rowVars, queue, trail, call, stranded>>

Listen ==
  /\ master = "restoring"
  /\ master' = "up"
  /\ queue' = queue \cup sweep.restore
  /\ sweep' = NoSweep
  /\ stranded' = {}
  /\ UNCHANGED <<rowVars, trail, call>>

Hydrate ==
  \/ (\E j \in Job : RequeueExpired(j)) \/ LogExpired \/ ReadQueued \/ Listen

(* A crash, a kill, or a hydrate call that rejects: start() gives up. *)
Crash ==
  /\ master # "down"
  /\ master' = "down"
  /\ call' = [h \in Handler |-> IdleCall]
  /\ sweep' = NoSweep
  /\ UNCHANGED <<rowVars, queue, trail, stranded>>

Tick(j) ==
  /\ LeaseRunsOut(j)
  /\ UNCHANGED <<queue, trail, call, master, sweep, stranded>>

-----------------------------------------------------------------------------

Request(h) ==
  \/ \E j \in Job : EnqueueRequest(h, j) \/ CancelRequest(h, j)
  \/ \E w \in Worker : ClaimRequest(h, w) \/ WorkerRequest(h, w)
  \/ \E j \in Job, w \in Worker :
       \/ HeartbeatRequest(h, j, w)
       \/ \E completed \in BOOLEAN : FinishRequest(h, j, w, completed)

MasterNext ==
  \/ \E h \in Handler : Request(h) \/ Step(h) \/ CallFails(h) \/ Reply(h)
  \/ Start \/ Hydrate \/ Crash
  \/ \E j \in Job : Tick(j)

MasterSpec == MasterInit /\ [][MasterNext]_masterVars

-----------------------------------------------------------------------------

(* While the master serves, a job that MySQL says is queued can always be  *)
(* found again: it is in Redis, or a call in flight is about to put it     *)
(* there, or a call that failed dropped it.  Queue order is the only thing *)
(* Redis stores, so a job outside all three is never offered to a worker.  *)
QueueCoverage ==
  master = "up" =>
    Queued \subseteq queue \cup stranded \cup UNION {Carried(h) : h \in Handler}

(* Redis and the calls name only jobs that have a row: the getJob that     *)
(* follows a pop cannot throw "job was not found" and lose the deferred    *)
(* list with it.                                                           *)
NoDanglingEntries ==
  /\ queue \subseteq Inserted
  /\ \A h \in Handler :
       /\ call[h].deferred \subseteq Inserted
       /\ call[h].pc \in {"readRequeued", "push", "claim", "recheck"} => call[h].job \in Inserted

(* Redis and the rows agree, whatever calls are in flight: nothing queued  *)
(* is forgotten, nothing offered is unknown.                               *)
QueueMatchesRows == QueueCoverage /\ NoDanglingEntries

(* The audit trail never runs ahead of the row: an event that announces an *)
(* end is there only when the row has reached that end.                    *)
AuditNeverAhead ==
  \A j \in Job :
    /\ trail[j] \in {"completed", "failed", "cancelled"} => status[j] = trail[j]
    /\ trail[j] = "lease_failed" => status[j] = "failed"
    /\ trail[j] # "none" => status[j] # "absent"

=============================================================================
