---------------------------- MODULE ClusterWorker ----------------------------
(***************************************************************************)
(* Worker processes (evaluation/cluster_worker.py) driving the cluster     *)
(* master over HTTP, beside the clients that enqueue and cancel jobs.      *)
(*                                                                         *)
(* A worker does one thing at a time, but an HTTP request it gives up on   *)
(* (30 s timeout, broken connection) keeps running inside the master, and  *)
(* its effect may land long after the worker has moved on.                 *)
(***************************************************************************)
EXTENDS ClusterMaster

CONSTANT NoCall   \* the worker is not waiting for a response

ASSUME WorkerConstants == NoCall \notin Handler

VARIABLES
  stage,     \* [Worker -> Stage]: where the process is in run_once
  task,      \* [Worker -> the job it executes or reports, or NoJob]
  attempt,   \* [Worker -> history: the attempt its task was granted as, or 0]
  waitsFor   \* [Worker -> the call whose response it waits for, or NoCall]

workerVars == <<stage, task, attempt, waitsFor>>
clusterVars == <<masterVars, workerVars>>

(* "reporting" is the except branch before its POST fail is on its way. *)
Waiting == {"claiming", "beating", "completing", "failing"}
Stage == {"down", "idle", "executing", "reporting"} \cup Waiting

ClusterTypeOK ==
  /\ MasterTypeOK
  /\ stage \in [Worker -> Stage]
  /\ task \in [Worker -> Job \cup {NoJob}]
  /\ attempt \in [Worker -> 0..10]
  /\ waitsFor \in [Worker -> Handler \cup {NoCall}]
  /\ \A w \in Worker : task[w] = NoJob <=> stage[w] \in {"idle", "claiming", "down"}

ClusterInit ==
  /\ MasterInit
  /\ stage = [w \in Worker |-> "idle"]
  /\ task = [w \in Worker |-> NoJob]
  /\ attempt = [w \in Worker |-> 0]
  /\ waitsFor = [w \in Worker |-> NoCall]

-----------------------------------------------------------------------------
(* Requests: ApiClient.request reaches the master, which starts call h. *)

Send(w, h, from, to) ==
  /\ stage[w] = from
  /\ stage' = [stage EXCEPT ![w] = to]
  /\ waitsFor' = [waitsFor EXCEPT ![w] = h]
  /\ UNCHANGED <<task, attempt>>

Poll(w, h) == Send(w, h, "idle", "claiming") /\ ClaimRequest(h, w)

(* _progress, between two looks at the child process. *)
Beat(w, h) ==
  Send(w, h, "executing", "beating") /\ HeartbeatRequest(h, task[w], w)

PostComplete(w, h) ==
  Send(w, h, "executing", "completing") /\ FinishRequest(h, task[w], w, TRUE)

PostFail(w, h) ==
  Send(w, h, "reporting", "failing") /\ FinishRequest(h, task[w], w, FALSE)

(* The git update, the build or the child process fails: an exception in   *)
(* execute, with no request involved.                                      *)
ExecutionFails(w) ==
  /\ stage[w] = "executing"
  /\ stage' = [stage EXCEPT ![w] = "reporting"]
  /\ UNCHANGED <<masterVars, task, attempt, waitsFor>>

-----------------------------------------------------------------------------
(* Responses. *)

Proceed(w, to) ==
  /\ stage' = [stage EXCEPT ![w] = to]
  /\ waitsFor' = [waitsFor EXCEPT ![w] = NoCall]

Keep == UNCHANGED <<task, attempt>>

Forget(w) ==
  /\ task' = [task EXCEPT ![w] = NoJob]
  /\ attempt' = [attempt EXCEPT ![w] = 0]

Answered(w, from) ==
  /\ stage[w] = from
  /\ waitsFor[w] # NoCall
  /\ Reply(waitsFor[w])

(* An error is not caught around claim: the process ends. *)
ClaimAnswered(w) ==
  LET c == call[waitsFor[w]] IN
  /\ Answered(w, "claiming")
  /\ \/ /\ c.ok /\ c.job # NoJob
        /\ Proceed(w, "executing")
        /\ task' = [task EXCEPT ![w] = c.job]
        /\ attempt' = [attempt EXCEPT ![w] = c.attempt]
     \/ c.ok /\ c.job = NoJob /\ Proceed(w, "idle") /\ Keep
     \/ ~c.ok /\ Proceed(w, "down") /\ Keep

(* Mutant of BeatAnswered: the response is ignored. *)
BeatIgnored(w) ==
  /\ Answered(w, "beating")
  /\ Proceed(w, "executing")
  /\ Keep

(* An error ends execute, which stops the child process. *)
BeatAnswered(w) ==
  /\ Answered(w, "beating")
  /\ Proceed(w, IF call[waitsFor[w]].ok THEN "executing" ELSE "reporting")
  /\ Keep

CompleteAnswered(w) ==
  /\ Answered(w, "completing")
  /\ \/ call[waitsFor[w]].ok /\ Proceed(w, "idle") /\ Forget(w)
     \/ ~call[waitsFor[w]].ok /\ Proceed(w, "reporting") /\ Keep

(* A WorkerError while reporting a failure is only printed. *)
FailAnswered(w) ==
  /\ Answered(w, "failing")
  /\ Proceed(w, "idle")
  /\ Forget(w)

(* No response within the timeout, or the connection breaks: the call, if  *)
(* it is still there, goes on without its worker.  A time-out while        *)
(* waiting for the response is not a WorkerError, so it escapes the inner  *)
(* except of a failure report.                                             *)
GiveUp(w) ==
  /\ \/ stage[w] = "claiming" /\ Proceed(w, "down") /\ Keep
     \/ stage[w] \in {"beating", "completing"} /\ Proceed(w, "reporting") /\ Keep
     \/ /\ stage[w] = "failing"
        /\ \E to \in {"idle", "down"} : Proceed(w, to)
        /\ Forget(w)
  /\ UNCHANGED masterVars

(* Nobody listens: the same outcomes, without a call. *)
Refused(w) ==
  /\ master # "up"
  /\ \/ stage[w] = "idle" /\ Proceed(w, "down") /\ Keep
     \/ stage[w] = "executing" /\ Proceed(w, "reporting") /\ Keep
     \/ stage[w] = "reporting" /\ Proceed(w, "idle") /\ Forget(w)
  /\ UNCHANGED masterVars

(* The process is stopped (the idle task ends, the host goes away). *)
Kill(w) ==
  /\ stage[w] # "down"
  /\ Proceed(w, "down")
  /\ Forget(w)
  /\ UNCHANGED masterVars

(* Its supervisor starts it again under the same worker id. *)
Revive(w) ==
  /\ stage[w] = "down"
  /\ Proceed(w, "idle")
  /\ Keep
  /\ UNCHANGED masterVars

-----------------------------------------------------------------------------
(* The master's own steps, and the clients'. *)

Serve(h) == Step(h) /\ UNCHANGED workerVars

Fault(h) == CallFails(h) /\ UNCHANGED workerVars

Unheard(h) ==
  /\ \A w \in Worker : waitsFor[w] # h
  /\ Reply(h)
  /\ UNCHANGED workerVars

ClientRequest(h) ==
  /\ \E j \in Job : EnqueueRequest(h, j) \/ CancelRequest(h, j)
  /\ UNCHANGED workerVars

MasterCrash ==
  /\ Crash
  /\ waitsFor' = [w \in Worker |-> NoCall]
  /\ UNCHANGED <<stage, task, attempt>>

Boot == (Start \/ Hydrate) /\ UNCHANGED workerVars

TimePasses(j) == Tick(j) /\ UNCHANGED workerVars

WorkerRequests(w) ==
  \E h \in Handler : Poll(w, h) \/ Beat(w, h) \/ PostComplete(w, h) \/ PostFail(w, h)

WorkerResponses(w) ==
  ClaimAnswered(w) \/ BeatAnswered(w) \/ CompleteAnswered(w) \/ FailAnswered(w)

ClusterNext ==
  \/ \E w \in Worker :
       \/ WorkerRequests(w) \/ WorkerResponses(w) \/ ExecutionFails(w)
       \/ GiveUp(w) \/ Refused(w) \/ Kill(w) \/ Revive(w)
  \/ \E h \in Handler : Serve(h) \/ Fault(h) \/ Unheard(h) \/ ClientRequest(h)
  \/ MasterCrash \/ Boot
  \/ \E j \in Job : TimePasses(j)

ClusterSpec == ClusterInit /\ [][ClusterNext]_clusterVars

(* Node resumes every call whose statement has answered; Docker restarts a *)
(* master and a worker that exit (restart: unless-stopped); a worker that  *)
(* has something to send keeps trying, so it gets one of the master's      *)
(* requests in the end; its requests time out; the clock runs.  Nothing    *)
(* obliges a client to ask for anything, a process to stop or a child      *)
(* process to finish.                                                      *)
Fairness ==
  /\ \A h \in Handler : WF_clusterVars(Serve(h)) /\ WF_clusterVars(Unheard(h))
  /\ \A w \in Worker :
       /\ SF_clusterVars(\E h \in Handler : Poll(w, h))
       /\ SF_clusterVars(\E h \in Handler : Beat(w, h) \/ PostComplete(w, h))
       /\ SF_clusterVars(\E h \in Handler : PostFail(w, h))
       /\ WF_clusterVars(WorkerResponses(w))
       /\ WF_clusterVars(GiveUp(w))
       /\ WF_clusterVars(Refused(w))
       /\ WF_clusterVars(Revive(w))
  /\ WF_clusterVars(Boot)
  /\ \A j \in Job : WF_clusterVars(TimePasses(j))

FairSpec == ClusterSpec /\ Fairness

-----------------------------------------------------------------------------

(* Two workers may execute one job at once (a lease ran out under a live   *)
(* worker), but never the same attempt of it.                              *)
OneWorkerPerAttempt ==
  \A v, w \in Worker :
    (v # w /\ task[v] = task[w] /\ task[v] # NoJob) => attempt[v] # attempt[w]

(* The worker that executes the latest attempt of a job still held is the  *)
(* one in the row: its heartbeats and its result will be accepted.         *)
LatestAttemptOwns ==
  \A w \in Worker :
    LET j == task[w] IN
    (j # NoJob /\ attempt[w] = attempts[j] /\ status[j] \in Held) => holder[j] = w

(* A worker that is told its job is complete can rely on it, whatever was  *)
(* requeued, reassigned or cancelled in the meantime.                      *)
AcknowledgedIsCompleted ==
  [][\A w \in Worker :
       (stage[w] = "completing" /\ stage'[w] = "idle") => status[task[w]] = "completed"]_clusterVars

-----------------------------------------------------------------------------
(* Liveness. *)

(* Once the master and the workers stay up, clients stop submitting and    *)
(* claims stop competing, a queued job that some worker can run does not   *)
(* stay queued, although jobs nobody can run are ahead of it (fewer than   *)
(* PopLimit of them) and other workers, which cannot run it, poll as well. *)
(* Both last premises are needed.  A client that resubmits a job puts it   *)
(* back behind a claim's back, which spends its pops on it again and       *)
(* again; and the claim of a worker that cannot run the job holds it in    *)
(* `deferred` until it ends, so that two workers that poll in step may     *)
(* hide it from the one that can for ever.                                 *)
Popping == {"pop", "claim", "readClaimed", "recheck", "recover"}

Settled ==
  /\ master = "up"
  /\ \A w \in Worker : stage[w] # "down"
  /\ \A h \in Handler : call[h].pc # "insert"
  /\ \A g, h \in Handler : call[g].pc \in Popping /\ call[h].pc \in Popping => g = h

EligibleJobIsServed ==
  <>[]Settled =>
    \A j \in Job :
      (\E w \in Worker : <<w, j>> \in CanRun) =>
        (status[j] = "queued") ~> (status[j] # "queued")

(* A worker whose job was taken from it (cancelled, requeued, given to     *)
(* another worker) stops executing it, or becomes its holder again.        *)
DisownedWorkerStops ==
  \A w \in Worker, j \in Job :
    <<w, j>> \in CanRun =>
      (task[w] = j /\ ~HeldBy(j, w)) ~> (task[w] # j \/ HeldBy(j, w))

(* A lease that ran out is settled: the job leaves the held states, or its *)
(* worker comes back and renews it.                                        *)
ExpiredLeaseIsSettled == \A j \in Job : Expired(j) ~> ~Expired(j)

(* docs/distributed_evaluation.md: "if heartbeats stop, it is returned to  *)
(* the queue" and "no manual recovery is required".  The same, for a       *)
(* master that simply keeps running.                                       *)
LeaseReturnsJob == <>[](master = "up") => ExpiredLeaseIsSettled
=============================================================================
