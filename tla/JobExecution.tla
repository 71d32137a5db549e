---------------------------- MODULE JobExecution ----------------------------
(***************************************************************************)
(* What a worker does between a claim and the report of its result, and    *)
(* what it leaves on its disk: ClusterWorker.execute and the methods it    *)
(* calls (evaluation/cluster_worker.py) with the processes it starts       *)
(* (run_cluster_tournament.py, stage35_benchmark.cpp, run_pipeline.py).    *)
(*                                                                         *)
(* A child process is started in a session of its own, so it may outlive a *)
(* worker that is killed and keep writing into the workspace, which the    *)
(* worker keeps over attempts and restarts.  A report is a request that    *)
(* may reach the row after its sender gave up on it or was killed; how the *)
(* master's other calls interleave is ClusterWorker's subject, here they   *)
(* are one step (a late heartbeat renews a lease and no more).             *)
(***************************************************************************)
EXTENDS JobStore, Sequences

CONSTANTS
  Kind,         \* [Job -> kind column]
  Windows,      \* workers where os.name is "nt"
  RunLength,    \* bound: records (games, cases) a whole run writes
  MaxTroubles,  \* bound: how often something disturbs an execution
  NoJob

ASSUME ExecutionConstants ==
  /\ Kind \in [Job -> {"git_update", "benchmark", "tournament", "evaluation"}]
  /\ Windows \subseteq Worker
  /\ RunLength \in Nat \ {0}
  /\ MaxTroubles \in Nat
  /\ NoJob \notin Job

VARIABLES
  work,      \* [Worker -> where it is in run_once, or "down"]
  task,      \* [Worker -> its job, or NoJob]
  attempt,   \* [Worker -> history: the attempt it was granted, or 0]
  outcome,   \* [Worker -> the records it read when its child process ended]
  children,  \* the child processes
  made,      \* the workers' tournament directories, as <<worker, job>>
  records,   \* [<<worker, job>> -> the attempts whose records the output has]
  sent,      \* the reports that the master has not acted on
  result,    \* [Job -> the records the accepted result was computed from]
  orphaned,  \* history: the outputs that a child without its worker wrote to
  troubles

execVars ==
  <<work, task, attempt, outcome, children, made, records, sent, result, orphaned, troubles>>
allVars == <<rowVars, execVars>>

Attempt == 1 .. 10

Running == {"updating", "building", "building_opponent", "running"}
Work == Running \cup {"idle", "down", "finished", "completing", "failed", "failing"}

Child ==
  [worker : Worker, job : Job, attempt : Attempt, wrote : 0 .. RunLength,
   state : {"started", "open", "done", "failed"}]

Request ==
  [worker : Worker, job : Job, attempt : Attempt, completed : BOOLEAN,
   records : Seq(Attempt)]

ExecInit ==
  /\ StoreInit
  /\ work = [w \in Worker |-> "idle"]
  /\ task = [w \in Worker |-> NoJob]
  /\ attempt = [w \in Worker |-> 0]
  /\ outcome = [w \in Worker |-> <<>>]
  /\ children = {}
  /\ made = {}
  /\ records = [o \in Worker \X Job |-> <<>>]
  /\ sent = {}
  /\ result = [j \in Job |-> <<>>]
  /\ orphaned = {}
  /\ troubles = 0

Goes(w, from, to) == work[w] = from /\ work' = [work EXCEPT ![w] = to]

Leave(w, to) ==
  /\ work' = [work EXCEPT ![w] = to]
  /\ task' = [task EXCEPT ![w] = NoJob]
  /\ attempt' = [attempt EXCEPT ![w] = 0]
  /\ outcome' = [outcome EXCEPT ![w] = <<>>]

Trouble == troubles < MaxTroubles /\ troubles' = troubles + 1

-----------------------------------------------------------------------------
(* Claiming. *)

Hello(w) == w \notin known /\ RegisterRow(w) /\ UNCHANGED execVars

Claim(w, j) ==
  /\ ClaimRow(j, w)
  /\ Goes(w, "idle", "updating")
  /\ task' = [task EXCEPT ![w] = j]
  /\ attempt' = [attempt EXCEPT ![w] = attempts'[j]]
  /\ UNCHANGED <<outcome, children, made, records, sent, result, orphaned, troubles>>

-----------------------------------------------------------------------------
(* execute. *)

Here == UNCHANGED <<rowVars, task, attempt, sent, result, orphaned, troubles>>

(* The child process a worker waits for. *)
Own(w) ==
  {c \in children : c.worker = w /\ c.job = task[w] /\ c.attempt = attempt[w]}

Spawn(w) ==
  children' = children \cup
    {[worker |-> w, job |-> task[w], attempt |-> attempt[w], wrote |-> 0,
      state |-> "started"]}

(* The commit is checked out. *)
Updated(w) ==
  /\ Goes(w, "updating", IF Kind[task[w]] = "git_update" THEN "finished" ELSE "building")
  /\ Here /\ UNCHANGED <<outcome, children, made, records>>

(* The candidate is built; evaluations need a Windows worker. *)
Built(w) ==
  /\ work[w] = "building"
  /\ CASE Kind[task[w]] = "tournament" ->
            Goes(w, "building", "building_opponent") /\ UNCHANGED children
       [] Kind[task[w]] = "evaluation" /\ w \notin Windows ->
            Goes(w, "building", "failed") /\ UNCHANGED children
       [] OTHER -> Goes(w, "building", "running") /\ Spawn(w)
  /\ Here /\ UNCHANGED <<outcome, made, records>>

OpponentBuilt(w) ==
  /\ Goes(w, "building_opponent", "running")
  /\ Spawn(w)
  /\ Here /\ UNCHANGED <<outcome, made, records>>

(* process.poll(): the child has ended, and what it left is read. *)
ChildEnded(w) ==
  /\ \E c \in Own(w) :
       \/ /\ c.state = "done"
          /\ Goes(w, "running", "finished")
          /\ outcome' = [outcome EXCEPT ![w] = records[<<w, task[w]>>]]
       \/ /\ c.state = "failed"
          /\ Goes(w, "running", "failed")
          /\ UNCHANGED outcome
  /\ children' = children \ Own(w)
  /\ Here /\ UNCHANGED <<made, records>>

(* _progress: a refusal ends execute and stops the child process. *)
Beat(w) ==
  /\ work[w] \in Running
  /\ IF HeldBy(task[w], w)
     THEN HeartbeatRow(task[w], w) /\ UNCHANGED <<work, children>>
     ELSE /\ work' = [work EXCEPT ![w] = "failed"]
          /\ children' = children \ Own(w)
          /\ UNCHANGED rowVars
  /\ UNCHANGED <<task, attempt, outcome, made, records, sent, result, orphaned, troubles>>

-----------------------------------------------------------------------------
(* The child process, whether or not its worker is still there. *)

Alone == UNCHANGED <<rowVars, work, task, attempt, outcome, sent, result, orphaned, troubles>>

Output(c) == <<c.worker, c.job>>

Becomes(c, state, n) ==
  children' = (children \ {c}) \cup {[c EXCEPT !.state = state, !.wrote = n]}

Watched(c) == work[c.worker] = "running" /\ c \in Own(c.worker)

Exits(c, state) ==
  IF Watched(c) THEN Becomes(c, state, c.wrote) ELSE children' = children \ {c}

Opens(c, kind) == c.state = "started" /\ Kind[c.job] = kind

(* Mutant of OpenBenchmark: the CSV file of an earlier attempt is refused. *)
OpenExclusively(c) ==
  /\ Opens(c, "benchmark")
  /\ IF records[Output(c)] # <<>> THEN Exits(c, "failed") ELSE Becomes(c, "open", 0)
  /\ Alone /\ UNCHANGED <<made, records>>

(* std::ofstream truncates the CSV file, whoever else writes to it. *)
OpenBenchmark(c) ==
  /\ Opens(c, "benchmark")
  /\ Becomes(c, "open", 0)
  /\ records' = [records EXCEPT ![Output(c)] = <<>>]
  /\ Alone /\ UNCHANGED made

(* Mutant of OpenTournament: an existing directory is used. *)
OpenTournamentAgain(c) ==
  /\ Opens(c, "tournament")
  /\ Becomes(c, "open", 0)
  /\ made' = made \cup {Output(c)}
  /\ Alone /\ UNCHANGED records

(* (output / "games").mkdir(parents=True, exist_ok=False): the process     *)
(* fails when the directory is there.                                      *)
OpenTournament(c) ==
  /\ Opens(c, "tournament")
  /\ IF Output(c) \in made THEN Exits(c, "failed") ELSE Becomes(c, "open", 0)
  /\ made' = made \cup {Output(c)}
  /\ Alone /\ UNCHANGED records

(* Every evaluation makes a run directory of its own. *)
OpenEvaluation(c) ==
  /\ Opens(c, "evaluation")
  /\ Becomes(c, "open", 0)
  /\ Alone /\ UNCHANGED <<made, records>>

(* A game or a benchmark case is written.  The output of an evaluation is  *)
(* its newest report, which comes last.                                    *)
Write(c) ==
  /\ c.state = "open" /\ c.wrote < RunLength
  /\ Becomes(c, "open", c.wrote + 1)
  /\ records' = IF Kind[c.job] = "evaluation" THEN records
                ELSE [records EXCEPT ![Output(c)] = Append(@, c.attempt)]
  /\ Alone /\ UNCHANGED made

RunEnds(c) ==
  /\ c.state = "open" /\ c.wrote = RunLength
  /\ Exits(c, "done")
  /\ records' = IF Kind[c.job] = "evaluation"
                THEN [records EXCEPT ![Output(c)] = [i \in 1 .. RunLength |-> c.attempt]]
                ELSE records
  /\ Alone /\ UNCHANGED made

ChildStep(c) ==
  OpenBenchmark(c) \/ OpenTournament(c) \/ OpenEvaluation(c) \/ Write(c) \/ RunEnds(c)

-----------------------------------------------------------------------------
(* Reporting. *)

Post(w, completed, contents) ==
  /\ sent' = sent \cup
       {[worker |-> w, job |-> task[w], attempt |-> attempt[w], completed |-> completed,
         records |-> contents]}
  /\ UNCHANGED <<rowVars, task, attempt, outcome, children, made, records, result, orphaned,
                 troubles>>

PostComplete(w) == Goes(w, "finished", "completing") /\ Post(w, TRUE, outcome[w])

PostFailure(w) == Goes(w, "failed", "failing") /\ Post(w, FALSE, <<>>)

Waits(r) ==
  /\ work[r.worker] = (IF r.completed THEN "completing" ELSE "failing")
  /\ task[r.worker] = r.job /\ attempt[r.worker] = r.attempt

(* finish asks for the worker only, so a report of an earlier attempt will *)
(* do.  Its sender, if it still waits, is told; a refused completion is    *)
(* reported as a failure, a refused failure is only printed.               *)
Serve(r) ==
  LET accepted == HeldBy(r.job, r.worker) IN
  /\ sent' = sent \ {r}
  /\ IF accepted THEN FinishRow(r.job, r.worker, r.completed) ELSE UNCHANGED rowVars
  /\ result' = IF accepted /\ r.completed THEN [result EXCEPT ![r.job] = r.records] ELSE result
  /\ IF ~Waits(r) THEN UNCHANGED <<work, task, attempt, outcome>>
     ELSE IF accepted \/ ~r.completed THEN Leave(r.worker, "idle")
     ELSE /\ work' = [work EXCEPT ![r.worker] = "failed"]
          /\ UNCHANGED <<task, attempt, outcome>>
  /\ UNCHANGED <<children, made, records, orphaned, troubles>>

-----------------------------------------------------------------------------
(* Trouble: a step of execute fails or the master cannot be reached; a     *)
(* report is not answered in time; the worker is killed; a lease runs out  *)
(* under a live worker (git is not accompanied by heartbeats).             *)

ExecutionFails(w) ==
  /\ Trouble
  /\ work[w] \in Running
  /\ work' = [work EXCEPT ![w] = "failed"]
  /\ children' = children \ Own(w)
  /\ UNCHANGED <<rowVars, task, attempt, outcome, made, records, sent, result, orphaned>>

(* The report is lost, or still on its way. *)
GiveUp(w) ==
  /\ Trouble
  /\ \/ Goes(w, "completing", "failed") /\ UNCHANGED <<task, attempt, outcome>>
     \/ work[w] = "failing" /\ \E to \in {"idle", "down"} : Leave(w, to)
  /\ \E lost \in {{}, {r \in sent : r.worker = w /\ Waits(r)}} : sent' = sent \ lost
  /\ UNCHANGED <<rowVars, children, made, records, result, orphaned>>

(* A child process that has not ended survives its worker, unless what     *)
(* stops the worker (a container, the host) stops it as well.              *)
KillWorker(w) ==
  /\ Trouble
  /\ work[w] # "down"
  /\ Leave(w, "down")
  /\ \/ children' = children \ Own(w) /\ UNCHANGED orphaned
     \/ /\ \E c \in Own(w) : c.state \in {"started", "open"}
        /\ orphaned' = orphaned \cup {<<w, task[w]>>}
        /\ UNCHANGED children
  /\ UNCHANGED <<rowVars, made, records, sent, result>>

LeaseLost(j) ==
  /\ Trouble
  /\ \E w \in Worker : task[w] = j
  /\ LeaseRunsOut(j)
  /\ UNCHANGED <<work, task, attempt, outcome, children, made, records, sent, result, orphaned>>

(* The consequences: nobody renews the lease of a job nobody executes, the *)
(* worker is started again, and the master settles leases that ran out (it *)
(* does so when it is started, see ClusterMaster).                         *)

LeaseLapses(j) ==
  /\ \A w \in Worker : task[w] # j
  /\ LeaseRunsOut(j)
  /\ UNCHANGED execVars

RestartWorker(w) ==
  /\ Goes(w, "down", "idle")
  /\ UNCHANGED <<rowVars, task, attempt, outcome, children, made, records, sent, result,
                 orphaned, troubles>>

Expire(j) == ExpireRow(j) /\ UNCHANGED execVars

Enqueue(j) == InsertRow(j) /\ UNCHANGED execVars
Cancel(j) == CancelRow(j) /\ UNCHANGED execVars

-----------------------------------------------------------------------------

Execute(w) == Updated(w) \/ Built(w) \/ OpponentBuilt(w) \/ ChildEnded(w)

Report(w) == PostComplete(w) \/ PostFailure(w)

ExecNext ==
  \/ \E w \in Worker :
       \/ Hello(w) \/ Execute(w) \/ Beat(w) \/ Report(w)
       \/ ExecutionFails(w) \/ GiveUp(w) \/ KillWorker(w) \/ RestartWorker(w)
       \/ \E j \in Job : Claim(w, j)
  \/ \E c \in children : ChildStep(c)
  \/ \E r \in sent : Serve(r)
  \/ \E j \in Job :
       Enqueue(j) \/ Cancel(j) \/ Expire(j) \/ LeaseLost(j) \/ LeaseLapses(j)

ExecSpec == ExecInit /\ [][ExecNext]_allVars

(* Workers poll, child processes and the master's calls run on, workers    *)
(* are restarted by their supervisor, time passes, and the master is       *)
(* restarted now and then.                                                 *)
ExecFairness ==
  /\ \A w \in Worker :
       /\ WF_allVars(Hello(w)) /\ WF_allVars(Execute(w)) /\ WF_allVars(Report(w))
       /\ WF_allVars(\E c \in children : c.worker = w /\ ChildStep(c))
       /\ WF_allVars(\E r \in sent : r.worker = w /\ Serve(r))
       /\ WF_allVars(RestartWorker(w))
       /\ WF_allVars(\E j \in Job : Claim(w, j))
  /\ \A j \in Job : WF_allVars(LeaseLapses(j)) /\ WF_allVars(Expire(j))

FairExecSpec == ExecSpec /\ ExecFairness

-----------------------------------------------------------------------------

ExecTypeOK ==
  /\ StoreTypeOK
  /\ work \in [Worker -> Work]
  /\ task \in [Worker -> Job \cup {NoJob}]
  /\ attempt \in [Worker -> 0 .. 10]
  /\ outcome \in [Worker -> Seq(Attempt)]
  /\ children \subseteq Child
  /\ made \subseteq Worker \X Job
  /\ records \in [Worker \X Job -> Seq(Attempt)]
  /\ sent \subseteq Request
  /\ result \in [Job -> Seq(Attempt)]
  /\ orphaned \subseteq Worker \X Job
  /\ \A w \in Worker : task[w] = NoJob <=> work[w] \in {"idle", "down"}

(* The result the master stores for a completed job is computed from one   *)
(* whole run, that of one attempt the row has counted (not always the      *)
(* last: a late report of the worker's earlier attempt is accepted).       *)
(* Nothing that other attempts left on the disk, or still write to it      *)
(* because their child process outlived a killed worker, gets into it.     *)
(* Benchmarks are excepted where such a process was left behind: it writes *)
(* into the CSV file of the next attempt.                                  *)
ResultIsOneRun ==
  \A j \in Job :
    /\ status[j] = "completed" /\ Kind[j] # "git_update"
    /\ Kind[j] = "benchmark" => <<holder[j], j>> \notin orphaned
    => \E a \in 1 .. attempts[j] : result[j] = [i \in 1 .. RunLength |-> a]

(* A job whose executions are disturbed less often than it may be attempted*)
(* is completed, unless it is cancelled.  Stated for the jobs of one kind. *)
SurvivesTrouble(kind) ==
  \A j \in Job :
    Kind[j] = kind =>
      (status[j] = "queued" ~> status[j] \in {"completed", "cancelled"})

BenchmarksSurviveTrouble == SurvivesTrouble("benchmark")

==============================================================================
