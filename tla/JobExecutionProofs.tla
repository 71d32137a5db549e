------------------------- MODULE JobExecutionProofs -------------------------
(***************************************************************************)
(* Proofs about what workers execute: whatever interrupted attempts left   *)
(* on a disk or still write to it, a result that the master stores is one  *)
(* whole run, of an attempt that its row has counted.                      *)
(***************************************************************************)
EXTENDS JobExecution, JobStoreProofs

(* Attempts of a job, as workers and their processes know them: granted,   *)
(* hence counted by the row.                                               *)
Granted(j) == 1 .. attempts[j]

AttemptsCounted ==
  /\ \A w \in Worker : task[w] # NoJob => attempt[w] \in Granted(task[w])
  /\ \A c \in children : c.attempt \in Granted(c.job)

(* A worker has a child process of its own only while it waits for it, and *)
(* one process per attempt; every other process has been left behind.      *)
OwnIsAwaited ==
  \A c \in children : c \in Own(c.worker) => work[c.worker] = "running"

LeftBehind ==
  \A c \in children : Watched(c) \/ Output(c) \in orphaned

OnePerAttempt ==
  \A c, d \in children :
    c.worker = d.worker /\ c.job = d.job /\ c.attempt = d.attempt => c = d

(* The outputs that one process at a time writes: those of tournaments,    *)
(* and those of benchmarks unless a process was left behind.               *)
Undisturbed(o) == Kind[o[2]] = "benchmark" => o \notin orphaned

Exclusive(o) == Kind[o[2]] \in {"tournament", "benchmark"} /\ Undisturbed(o)

Opened(c) == c.state \in {"open", "done"}

UnmadeAreEmpty ==
  \A w \in Worker, j \in Job :
    Kind[j] = "tournament" /\ <<w, j>> \notin made =>
      /\ records[<<w, j>>] = <<>>
      /\ \A c \in children : Output(c) = <<w, j>> => ~Opened(c)

HoldsOwn(c) ==
  /\ Len(records[Output(c)]) = c.wrote
  /\ \A i \in 1 .. c.wrote : records[Output(c)][i] = c.attempt

WritesAlone ==
  \A c \in children :
    Exclusive(Output(c)) /\ Opened(c) =>
      /\ HoldsOwn(c)
      /\ \A d \in children : Output(d) = Output(c) /\ Opened(d) => d = c

(* A whole run of one attempt, from the end of the process to the row.     *)
WholeRun(j, r) == \E a \in Granted(j) : r = [i \in 1 .. RunLength |-> a]

Counts(w, j) == Kind[j] # "git_update" /\ Undisturbed(<<w, j>>)

DoneIsWhole ==
  \A c \in children :
    c.state = "done" /\ Counts(c.worker, c.job) => WholeRun(c.job, records[Output(c)])

OutcomeIsWhole ==
  \A w \in Worker :
    work[w] \in {"finished", "completing"} /\ Counts(w, task[w]) => WholeRun(task[w], outcome[w])

SentIsWhole ==
  \A r \in sent : r.completed /\ Counts(r.worker, r.job) => WholeRun(r.job, r.records)

ExecInv ==
  /\ ExecTypeOK /\ RowsConsistent
  /\ AttemptsCounted /\ OwnIsAwaited /\ LeftBehind /\ OnePerAttempt
  /\ UnmadeAreEmpty /\ WritesAlone /\ DoneIsWhole
  /\ OutcomeIsWhole /\ SentIsWhole /\ ResultIsOneRun

-----------------------------------------------------------------------------
(* The rows move as the store allows. *)

(* The steps of a worker that change no row. *)
Aside(w) ==
  Execute(w) \/ Report(w) \/ ExecutionFails(w) \/ GiveUp(w) \/ KillWorker(w) \/ RestartWorker(w)

(* The steps that a row takes by itself, as far as workers are concerned. *)
Apart(j) == Enqueue(j) \/ Cancel(j) \/ Expire(j) \/ LeaseLost(j) \/ LeaseLapses(j)

LEMMA ApartKeeps ==
  ASSUME NEW j \in Job, Apart(j)
  PROVE  UNCHANGED <<work, task, attempt, outcome, children, made, records, sent, result, orphaned>>
  BY DEF Apart, Enqueue, Cancel, Expire, LeaseLost, LeaseLapses, execVars

LEMMA AsideKeepsRows ==
  ASSUME NEW w \in Worker, Aside(w) PROVE UNCHANGED <<rowVars, result>>
  BY DEF Aside, Execute, Updated, Built, OpponentBuilt, ChildEnded, Here, Report, PostComplete,
         PostFailure, Post, ExecutionFails, GiveUp, KillWorker, RestartWorker

LEMMA ChildKeepsWorkers ==
  ASSUME NEW c, ChildStep(c)
  PROVE  UNCHANGED <<rowVars, work, task, attempt, outcome, sent, result, orphaned>>
  BY DEF ChildStep, OpenBenchmark, OpenTournament, OpenEvaluation, Write, RunEnds, Alone

(* The kinds of steps, as the proofs below meet them. *)
LEMMA ExecCases ==
  ASSUME ExecNext
  PROVE  \/ \E w \in Worker : Aside(w) \/ Hello(w) \/ Beat(w) \/ \E j \in Job : Claim(w, j)
         \/ \E c \in children : ChildStep(c)
         \/ \E r \in sent : Serve(r)
         \/ \E j \in Job : Apart(j)
  BY Zenon DEF ExecNext, Aside, Apart

LEMMA TaskIsJob ==
  ASSUME ExecTypeOK, NEW w \in Worker, work[w] \notin {"idle", "down"}
  PROVE  task[w] \in Job
  BY DEF ExecTypeOK

LEMMA RequestFields ==
  ASSUME ExecTypeOK, NEW r \in sent
  PROVE  /\ r.worker \in Worker /\ r.job \in Job /\ r.completed \in BOOLEAN
         /\ r.records \in Seq(Attempt)
  BY DEF ExecTypeOK, Request

LEMMA BeatRows ==
  ASSUME ExecTypeOK, NEW w \in Worker, Beat(w)
  PROVE  UNCHANGED rowVars \/ HeartbeatRow(task[w], w)
  BY DEF Beat

LEMMA ServeRows ==
  ASSUME NEW r, Serve(r)
  PROVE  UNCHANGED rowVars \/ FinishRow(r.job, r.worker, r.completed)
  BY DEF Serve

LEMMA ExecutionRows == ExecTypeOK /\ [ExecNext]_allVars => [StoreNext]_rowVars
<1> SUFFICES ASSUME ExecTypeOK, [ExecNext]_allVars PROVE [StoreNext]_rowVars
  OBVIOUS
<1>1. CASE UNCHANGED allVars
  BY <1>1 DEF allVars
<1>2. ASSUME NEW w \in Worker, Aside(w) PROVE [StoreNext]_rowVars
  BY <1>2, AsideKeepsRows
<1>3. ASSUME NEW w \in Worker, Hello(w) PROVE StoreNext
  BY <1>3 DEF Hello, StoreNext
<1>4. ASSUME NEW w \in Worker, Beat(w) PROVE [StoreNext]_rowVars
  <2>1. task[w] \in Job
    BY <1>4, TaskIsJob DEF Beat, Running
  <2> QED BY <1>4, <2>1, BeatRows DEF StoreNext
<1>5. ASSUME NEW r \in sent, Serve(r) PROVE [StoreNext]_rowVars
  BY <1>5, RequestFields, ServeRows DEF StoreNext
<1>6. ASSUME NEW w \in Worker, NEW j \in Job, Claim(w, j) PROVE StoreNext
  BY <1>6 DEF Claim, StoreNext
<1>7. ASSUME NEW j \in Job, Apart(j) PROVE StoreNext
  BY <1>7 DEF Apart, Enqueue, Cancel, Expire, LeaseLost, LeaseLapses, StoreNext
<1>8. ASSUME NEW c \in children, ChildStep(c) PROVE UNCHANGED rowVars
  BY <1>8, ChildKeepsWorkers
<1> QED BY <1>1, <1>2, <1>3, <1>4, <1>5, <1>6, <1>7, <1>8, ExecCases

LEMMA RowsInv == ExecInv /\ [ExecNext]_allVars => (StoreTypeOK /\ RowsConsistent)'
  BY ExecutionRows, RowInvStep DEF ExecInv, RowInv, ExecTypeOK

(* attempt_count is never lowered. *)
LEMMA AttemptsGrow ==
  ASSUME ExecTypeOK, [ExecNext]_allVars, NEW j \in Job
  PROVE  attempts[j] \in 0 .. 10 /\ Granted(j) \subseteq Granted(j)'
<1>1. StoreTypeOK /\ [StoreNext]_rowVars
  BY ExecutionRows DEF ExecTypeOK
<1>2. attempts \in [Job -> 0 .. 10]
  BY <1>1 DEF StoreTypeOK
<1>3. CASE UNCHANGED attempts
  BY <1>2, <1>3 DEF Granted
<1>4. ASSUME NEW i \in Job, RowStep(i)
      PROVE  attempts' = attempts \/ attempts' = [attempts EXCEPT ![i] = @ + 1]
  BY <1>4 DEF RowStep, InsertRow, ClaimRow, HeartbeatRow, RetryRow, FailRow, CloseRow, CancelRow,
              LeaseRunsOut
<1>5. ASSUME NEW i \in Job, attempts' = [attempts EXCEPT ![i] = @ + 1]
      PROVE  attempts'[j] = attempts[j] \/ attempts'[j] = attempts[j] + 1
  BY <1>2, <1>5
<1>6. ASSUME NEW i \in Job, attempts' = [attempts EXCEPT ![i] = @ + 1]
      PROVE  Granted(j) \subseteq Granted(j)'
  BY <1>2, <1>5, <1>6 DEF Granted
<1>7. attempts' = attempts \/ \E i \in Job : attempts' = [attempts EXCEPT ![i] = @ + 1]
  BY <1>1, <1>4, StepCases DEF RegisterRow, rowVars
<1> QED BY <1>2, <1>3, <1>6, <1>7

-----------------------------------------------------------------------------
(* Types. *)

(* What the row a worker claims counts is one to ten attempts. *)
LEMMA ClaimCounts ==
  ASSUME ExecInv, NEW w \in Worker, NEW j \in Job, Claim(w, j)
  PROVE  /\ attempts[j] \in 0 .. 10 /\ attempts'[j] = attempts[j] + 1
         /\ attempts'[j] \in Attempt
         /\ attempt' = [attempt EXCEPT ![w] = attempts'[j]]
<1>1. attempts'[j] \in 0 .. 10
  BY RowsInv DEF StoreTypeOK, ExecNext, Claim
<1>2. attempts'[j] = attempts[j] + 1 /\ attempts[j] \in 0 .. 10
  BY DEF Claim, ClaimRow, ExecInv, ExecTypeOK, StoreTypeOK
<1> QED BY <1>1, <1>2 DEF Claim, Attempt

LEMMA AttemptOfTask ==
  ASSUME ExecInv, NEW w \in Worker, task[w] # NoJob
  PROVE  attempt[w] \in Attempt
<1>1. attempt[w] \in 0 .. 10 /\ task[w] \in Job
  BY DEF ExecInv, ExecTypeOK
<1>2. attempt[w] >= 1
  BY <1>1, AttemptsGrow DEF ExecInv, AttemptsCounted, Granted
<1> QED BY <1>1, <1>2 DEF Attempt

LEMMA ChildFields ==
  ASSUME ExecTypeOK, NEW c \in children
  PROVE  /\ c \in Child /\ c.worker \in Worker /\ c.job \in Job /\ c.attempt \in Attempt
         /\ c.wrote \in 0 .. RunLength /\ Output(c) \in Worker \X Job
  BY DEF ExecTypeOK, Child, Output

(* A process is started. *)
LEMMA SpawnTypes ==
  ASSUME ExecInv, NEW w \in Worker, task[w] # NoJob, Spawn(w)
  PROVE  \E c \in Child :
           /\ c.worker = w /\ c.job = task[w] /\ c.attempt = attempt[w] /\ c.state = "started"
           /\ children' = children \cup {c}
<1> DEFINE c == [worker |-> w, job |-> task[w], attempt |-> attempt[w], wrote |-> 0,
                 state |-> "started"]
<1>1. task[w] \in Job
  BY DEF ExecInv, ExecTypeOK
<1>2. 0 \in 0 .. RunLength
  BY ExecutionConstants
<1>3. c \in Child
  BY <1>1, <1>2, AttemptOfTask DEF Child
<1> QED BY <1>3 DEF Spawn

(* A process goes on. *)
LEMMA BecomesTypes ==
  ASSUME NEW c \in Child, NEW state \in {"started", "open", "done", "failed"},
         NEW n \in 0 .. RunLength, Becomes(c, state, n)
  PROVE  \E d \in Child :
           /\ d.worker = c.worker /\ d.job = c.job /\ d.attempt = c.attempt
           /\ d.state = state /\ d.wrote = n
           /\ children' = (children \ {c}) \cup {d}
<1> DEFINE d == [c EXCEPT !.state = state, !.wrote = n]
<1>1. /\ d.worker = c.worker /\ d.job = c.job /\ d.attempt = c.attempt
      /\ d.state = state /\ d.wrote = n /\ d \in Child
  BY DEF Child
<1> QED BY <1>1 DEF Becomes

(* A process that goes on stays what it is; one that nobody waits for goes *)
(* when it ends.                                                           *)
LEMMA ChildGoesOn ==
  ASSUME ExecTypeOK, NEW c \in children, ChildStep(c)
  PROVE  \/ children' = children \ {c}
         \/ \E d \in Child :
              /\ d.worker = c.worker /\ d.job = c.job /\ d.attempt = c.attempt
              /\ children' = (children \ {c}) \cup {d}
<1>1. c \in Child /\ c.wrote \in 0 .. RunLength /\ 0 \in 0 .. RunLength
  BY ChildFields, ExecutionConstants
<1>2. ASSUME NEW state \in {"open", "done", "failed"}, NEW n \in 0 .. RunLength,
             Becomes(c, state, n)
      PROVE  \E d \in Child :
               /\ d.worker = c.worker /\ d.job = c.job /\ d.attempt = c.attempt
               /\ children' = (children \ {c}) \cup {d}
  BY <1>1, <1>2, BecomesTypes
<1>3. ASSUME NEW state \in {"open", "done", "failed"}, Exits(c, state)
      PROVE  children' = children \ {c} \/ Becomes(c, state, c.wrote)
  BY <1>3 DEF Exits
<1>4. CASE OpenBenchmark(c) \/ OpenTournament(c) \/ OpenEvaluation(c)
  BY <1>1, <1>2, <1>3, <1>4 DEF OpenBenchmark, OpenTournament, OpenEvaluation
<1>5. CASE Write(c)
  <2>1. c.wrote + 1 \in 0 .. RunLength
    BY <1>1, <1>5, ExecutionConstants DEF Write
  <2> QED BY <1>2, <1>5, <2>1 DEF Write
<1>6. CASE RunEnds(c)
  BY <1>1, <1>2, <1>3, <1>6 DEF RunEnds
<1> QED BY <1>4, <1>5, <1>6 DEF ChildStep

LEMMA ChildTypes ==
  ASSUME ExecTypeOK, StoreTypeOK', NEW c \in children, ChildStep(c) PROVE ExecTypeOK'
<1>1. /\ Output(c) \in Worker \X Job /\ c.attempt \in Attempt
      /\ records[Output(c)] \in Seq(Attempt)
  BY ChildFields DEF ExecTypeOK
<1>2. children' \subseteq Child
  BY ChildGoesOn DEF ExecTypeOK
<1>3. made' \subseteq Worker \X Job
  BY <1>1 DEF ExecTypeOK, ChildStep, OpenBenchmark, OpenTournament, OpenEvaluation, Write,
              RunEnds
<1>4. ASSUME NEW r \in Seq(Attempt), records' = [records EXCEPT ![Output(c)] = r]
      PROVE  records' \in [Worker \X Job -> Seq(Attempt)]
  BY <1>1, <1>4 DEF ExecTypeOK
<1>5. records' \in [Worker \X Job -> Seq(Attempt)]
  <2>1. <<>> \in Seq(Attempt) /\ Append(records[Output(c)], c.attempt) \in Seq(Attempt)
    BY <1>1
  <2>2. [i \in 1 .. RunLength |-> c.attempt] \in Seq(Attempt)
    BY <1>1, ExecutionConstants
  <2>3. CASE OpenBenchmark(c)
    BY <1>4, <2>1, <2>3 DEF OpenBenchmark
  <2>4. CASE OpenTournament(c) \/ OpenEvaluation(c)
    BY <2>4 DEF OpenTournament, OpenEvaluation, ExecTypeOK
  <2>5. CASE Write(c)
    BY <1>4, <2>1, <2>5 DEF Write, ExecTypeOK
  <2>6. CASE RunEnds(c)
    BY <1>4, <2>2, <2>6 DEF RunEnds, ExecTypeOK
  <2> QED BY <2>3, <2>4, <2>5, <2>6 DEF ChildStep
<1> QED BY <1>2, <1>3, <1>5, ChildKeepsWorkers DEF ExecTypeOK

LEMMA LeaveTypes ==
  ASSUME ExecTypeOK, NEW w \in Worker, NEW to \in {"idle", "down"}, Leave(w, to)
  PROVE  /\ work' \in [Worker -> Work] /\ task' \in [Worker -> Job \cup {NoJob}]
         /\ attempt' \in [Worker -> 0 .. 10] /\ outcome' \in [Worker -> Seq(Attempt)]
         /\ \A v \in Worker : task'[v] = NoJob <=> work'[v] \in {"idle", "down"}
<1>1. outcome' = [outcome EXCEPT ![w] = <<>>] /\ <<>> \in Seq(Attempt)
  BY DEF Leave
<1>2. outcome' \in [Worker -> Seq(Attempt)]
  BY <1>1 DEF ExecTypeOK
<1>3. attempt' = [attempt EXCEPT ![w] = 0] /\ 0 \in 0 .. 10
  BY DEF Leave
<1>4. attempt' \in [Worker -> 0 .. 10]
  BY <1>3 DEF ExecTypeOK
<1> QED BY <1>2, <1>4 DEF Leave, ExecTypeOK, Work

(* The worker moves on and keeps its task. *)
MovesOn(w, to) == work' = [work EXCEPT ![w] = to] /\ UNCHANGED <<task, attempt>>

LEMMA MovesTypes ==
  ASSUME ExecTypeOK, NEW w \in Worker, NEW to \in Work \ {"idle", "down"}, MovesOn(w, to),
         work[w] \notin {"idle", "down"}
  PROVE  /\ work' \in [Worker -> Work] /\ task' \in [Worker -> Job \cup {NoJob}]
         /\ attempt' \in [Worker -> 0 .. 10]
         /\ \A v \in Worker : task'[v] = NoJob <=> work'[v] \in {"idle", "down"}
  BY DEF MovesOn, ExecTypeOK

LEMMA OutcomeTypes ==
  ASSUME ExecTypeOK, NEW w \in Worker, NEW r \in Seq(Attempt)
  PROVE  [outcome EXCEPT ![w] = r] \in [Worker -> Seq(Attempt)]
  BY DEF ExecTypeOK

(* How a step that is no process's changes where workers are, and which    *)
(* processes there are: nothing changes, a worker starts one and waits for *)
(* it, a worker moves on and leaves none of its own, a worker leaves its   *)
(* task, with a process perhaps left behind, or a worker claims a job.     *)
Starts(w) ==
  /\ work[w] \in {"building", "building_opponent"}
  /\ MovesOn(w, "running") /\ Spawn(w)

GoesOn(w) ==
  /\ work[w] \notin {"idle", "down"}
  /\ \E to \in Work \ {"idle", "down", "running"} : MovesOn(w, to)
  /\ \/ children' = children \ Own(w)
     \/ children' = children /\ work[w] # "running"

Leaves(w) ==
  /\ \E to \in {"idle", "down"} : Leave(w, to)
  /\ \/ children' = children \ Own(w)
     \/ children' = children /\ (work[w] # "running" \/ <<w, task[w]>> \in orphaned')

Stays == UNCHANGED <<work, task, attempt, children>>

Restarts(w) == RestartWorker(w)

LEMMA ExecuteShape ==
  ASSUME ExecTypeOK, NEW w \in Worker, Execute(w) PROVE Starts(w) \/ GoesOn(w)
<1>1. CASE Updated(w)
  BY <1>1 DEF Updated, Goes, Here, GoesOn, MovesOn, Work, Running
<1>2. CASE Built(w)
  <2>1. work[w] = "building" /\ UNCHANGED <<task, attempt>>
    BY <1>2 DEF Built, Here
  <2>2. \/ work' = [work EXCEPT ![w] = "building_opponent"] /\ children' = children
        \/ work' = [work EXCEPT ![w] = "failed"] /\ children' = children
        \/ work' = [work EXCEPT ![w] = "running"] /\ Spawn(w)
    BY <1>2 DEF Built, Goes
  <2> QED BY <2>1, <2>2 DEF Starts, GoesOn, MovesOn, Work, Running
<1>3. CASE OpponentBuilt(w)
  BY <1>3 DEF OpponentBuilt, Goes, Here, Starts, MovesOn
<1>4. CASE ChildEnded(w)
  BY <1>4 DEF ChildEnded, Goes, Here, GoesOn, MovesOn, Work, Running
<1> QED BY <1>1, <1>2, <1>3, <1>4 DEF Execute

LEMMA AsideShape ==
  ASSUME ExecTypeOK, NEW w \in Worker, Aside(w)
  PROVE  Starts(w) \/ GoesOn(w) \/ Leaves(w) \/ Restarts(w)
<1>1. CASE Report(w)
  BY <1>1 DEF Report, PostComplete, PostFailure, Post, Goes, GoesOn, MovesOn, Work, Running
<1>2. CASE ExecutionFails(w)
  BY <1>2 DEF ExecutionFails, GoesOn, MovesOn, Work, Running
<1>3. CASE GiveUp(w)
  BY <1>3 DEF GiveUp, Goes, GoesOn, Leaves, MovesOn, Work, Running
<1>4. CASE KillWorker(w)
  <2>1. Leave(w, "down")
    BY <1>4 DEF KillWorker
  <2>2. \/ children' = children \ Own(w)
        \/ children' = children /\ <<w, task[w]>> \in orphaned'
    BY <1>4 DEF KillWorker
  <2> QED BY <2>1, <2>2 DEF Leaves
<1> QED BY <1>1, <1>2, <1>3, <1>4, ExecuteShape DEF Aside, Restarts

LEMMA ServeShape ==
  ASSUME ExecTypeOK, NEW r \in sent, Serve(r)
  PROVE  Stays \/ GoesOn(r.worker) \/ Leaves(r.worker)
<1>1. children' = children
  BY DEF Serve
<1>2. CASE ~Waits(r)
  BY <1>1, <1>2 DEF Serve, Stays
<1>3. CASE Waits(r)
  <2>1. work[r.worker] \in {"completing", "failing"}
    BY <1>3 DEF Waits
  <2>2. \/ Leave(r.worker, "idle")
        \/ work' = [work EXCEPT ![r.worker] = "failed"] /\ UNCHANGED <<task, attempt>>
    BY <1>3 DEF Serve
  <2> QED BY <1>1, <2>1, <2>2 DEF GoesOn, Leaves, MovesOn, Work, Running
<1> QED BY <1>2, <1>3

LEMMA BeatShape ==
  ASSUME ExecTypeOK, NEW w \in Worker, Beat(w) PROVE Stays \/ GoesOn(w)
<1>1. work[w] \notin {"idle", "down"} /\ UNCHANGED <<task, attempt>>
  BY DEF Beat, Running
<1>2. \/ UNCHANGED <<work, children>>
      \/ work' = [work EXCEPT ![w] = "failed"] /\ children' = children \ Own(w)
  BY DEF Beat
<1> QED BY <1>1, <1>2 DEF Stays, GoesOn, MovesOn, Work

LEMMA WorkerShapes ==
  ASSUME ExecTypeOK, [ExecNext]_allVars
  PROVE  \/ Stays
         \/ \E w \in Worker : \/ Starts(w) \/ GoesOn(w) \/ Leaves(w) \/ Restarts(w)
                              \/ \E j \in Job : Claim(w, j)
         \/ \E c \in children : ChildStep(c)
<1>1. CASE UNCHANGED allVars
  BY <1>1 DEF allVars, execVars, Stays
<1>2. ASSUME NEW w \in Worker, Hello(w) PROVE Stays
  BY <1>2 DEF Hello, execVars, Stays
<1>3. ASSUME NEW j \in Job, Apart(j) PROVE Stays
  BY <1>3, ApartKeeps DEF Stays
<1>4. ASSUME NEW r \in sent, Serve(r)
      PROVE  r.worker \in Worker /\ (Stays \/ GoesOn(r.worker) \/ Leaves(r.worker))
  BY <1>4, ServeShape, RequestFields
<1> QED BY <1>1, <1>2, <1>3, <1>4, AsideShape, BeatShape, ExecCases

(* The types of where workers are and of their processes, from the shapes. *)
LEMMA ShapeTypes ==
  ASSUME ExecInv, [ExecNext]_allVars, ~\E c \in children : ChildStep(c)
  PROVE  /\ work' \in [Worker -> Work] /\ task' \in [Worker -> Job \cup {NoJob}]
         /\ attempt' \in [Worker -> 0 .. 10] /\ children' \subseteq Child
         /\ \A w \in Worker : task'[w] = NoJob <=> work'[w] \in {"idle", "down"}
<1> USE DEF ExecInv
<1>1. CASE Stays
  BY <1>1 DEF Stays, ExecTypeOK
<1>2. ASSUME NEW w \in Worker, Starts(w)
      PROVE  /\ children' \subseteq Child
             /\ \E to \in Work \ {"idle", "down"} : MovesOn(w, to)
             /\ work[w] \notin {"idle", "down"}
  <2>1. task[w] # NoJob
    BY <1>2 DEF Starts, ExecTypeOK
  <2> QED BY <1>2, <2>1, SpawnTypes DEF Starts, ExecTypeOK, Work, Running
<1>3. ASSUME NEW w \in Worker, GoesOn(w)
      PROVE  /\ children' \subseteq Child
             /\ \E to \in Work \ {"idle", "down"} : MovesOn(w, to)
             /\ work[w] \notin {"idle", "down"}
  BY <1>3 DEF GoesOn, ExecTypeOK
<1>4. ASSUME NEW w \in Worker, Leaves(w)
      PROVE  children' \subseteq Child /\ \E to \in {"idle", "down"} : Leave(w, to)
  BY <1>4 DEF Leaves, ExecTypeOK
<1>5. ASSUME NEW w \in Worker, Restarts(w)
      PROVE  /\ work' \in [Worker -> Work] /\ task' \in [Worker -> Job \cup {NoJob}]
             /\ attempt' \in [Worker -> 0 .. 10] /\ children' \subseteq Child
             /\ \A v \in Worker : task'[v] = NoJob <=> work'[v] \in {"idle", "down"}
  BY <1>5 DEF Restarts, RestartWorker, Goes, ExecTypeOK, Work
<1>6. ASSUME NEW w \in Worker, NEW j \in Job, Claim(w, j)
      PROVE  /\ work' \in [Worker -> Work] /\ task' \in [Worker -> Job \cup {NoJob}]
             /\ attempt' \in [Worker -> 0 .. 10] /\ children' \subseteq Child
             /\ \A v \in Worker : task'[v] = NoJob <=> work'[v] \in {"idle", "down"}
  <2>1. attempt' \in [Worker -> 0 .. 10]
    <3>1. attempt \in [Worker -> 0 .. 10]
      BY DEF ExecTypeOK
    <3>2. attempts'[j] \in 0 .. 10 /\ attempt' = [attempt EXCEPT ![w] = attempts'[j]]
      BY <1>6, ClaimCounts DEF Attempt
    <3> QED BY <3>1, <3>2
  <2>2. j # NoJob
    BY ExecutionConstants
  <2> QED BY <1>6, <2>1, <2>2 DEF Claim, Goes, ExecTypeOK, Work, Running
<1> QED BY <1>1, <1>2, <1>3, <1>4, <1>5, <1>6, WorkerShapes, MovesTypes, LeaveTypes

(* Only a process touches an output, and only a killed worker leaves a     *)
(* process behind.                                                         *)
LEMMA OutputsKept ==
  ASSUME [ExecNext]_allVars, ~\E c \in children : ChildStep(c)
  PROVE  UNCHANGED <<made, records>>
<1>1. ASSUME NEW w \in Worker, Aside(w) PROVE UNCHANGED <<made, records>>
  BY <1>1 DEF Aside, Execute, Updated, Built, OpponentBuilt, ChildEnded, Report, PostComplete,
              PostFailure, Post, ExecutionFails, GiveUp, KillWorker, RestartWorker
<1>2. ASSUME NEW w \in Worker, Hello(w) \/ Beat(w) PROVE UNCHANGED <<made, records>>
  BY <1>2 DEF Hello, Beat, execVars
<1>3. ASSUME NEW w \in Worker, NEW j \in Job, Claim(w, j) PROVE UNCHANGED <<made, records>>
  BY <1>3 DEF Claim
<1>4. ASSUME NEW r \in sent, Serve(r) PROVE UNCHANGED <<made, records>>
  BY <1>4 DEF Serve
<1>5. CASE UNCHANGED allVars
  BY <1>5 DEF allVars, execVars
<1> QED BY <1>1, <1>2, <1>3, <1>4, <1>5, ApartKeeps, ExecCases

LEMMA OrphanedGrows ==
  ASSUME ExecTypeOK, [ExecNext]_allVars
  PROVE  orphaned \subseteq orphaned' /\ orphaned' \subseteq Worker \X Job
<1>0. orphaned \subseteq Worker \X Job
  BY DEF ExecTypeOK
<1>1. ASSUME NEW w \in Worker, KillWorker(w)
      PROVE  orphaned \subseteq orphaned' /\ orphaned' \subseteq Worker \X Job
  <2>1. CASE UNCHANGED orphaned
    BY <1>0, <2>1
  <2>2. CASE Own(w) # {} /\ orphaned' = orphaned \cup {<<w, task[w]>>}
    <3>1. task[w] \in Job
      BY <2>2, ChildFields DEF Own
    <3> QED BY <1>0, <2>2, <3>1
  <2> QED BY <1>1, <2>1, <2>2 DEF KillWorker
<1>2. ASSUME NEW w \in Worker, Aside(w), ~KillWorker(w) PROVE UNCHANGED orphaned
  BY <1>2 DEF Aside, Execute, Updated, Built, OpponentBuilt, ChildEnded, Report, PostComplete,
              PostFailure, Post, ExecutionFails, GiveUp, RestartWorker, Here
<1>3. ASSUME NEW w \in Worker, Hello(w) \/ Beat(w) PROVE UNCHANGED orphaned
  BY <1>3 DEF Hello, Beat, execVars
<1>4. ASSUME NEW w \in Worker, NEW j \in Job, Claim(w, j) PROVE UNCHANGED orphaned
  BY <1>4 DEF Claim
<1>5. ASSUME NEW r \in sent, Serve(r) PROVE UNCHANGED orphaned
  BY <1>5 DEF Serve
<1>6. ASSUME UNCHANGED allVars PROVE UNCHANGED orphaned
  BY <1>6 DEF allVars, execVars
<1> QED BY <1>0, <1>1, <1>2, <1>3, <1>4, <1>5, <1>6, ApartKeeps, ChildKeepsWorkers, ExecCases

(* What is on its way to the master is added by a report of what its       *)
(* sender has.                                                             *)
LEMMA SentBefore ==
  ASSUME [ExecNext]_allVars, NEW r \in sent', r \notin sent
  PROVE  \E w \in Worker :
           /\ work[w] \in {"finished", "failed"}
           /\ r = [worker |-> w, job |-> task[w], attempt |-> attempt[w],
                   completed |-> (work[w] = "finished"),
                   records |-> IF work[w] = "finished" THEN outcome[w] ELSE <<>>]
<1>1. ASSUME NEW w \in Worker, Aside(w)
      PROVE  Report(w) \/ sent' \subseteq sent
  BY <1>1 DEF Aside, Execute, Updated, Built, OpponentBuilt, ChildEnded, Here, ExecutionFails,
              GiveUp, KillWorker, RestartWorker
<1>2. ASSUME NEW w \in Worker, Hello(w) \/ Beat(w) PROVE UNCHANGED sent
  BY <1>2 DEF Hello, Beat, execVars
<1>3. ASSUME NEW w \in Worker, NEW j \in Job, Claim(w, j) PROVE UNCHANGED sent
  BY <1>3 DEF Claim
<1>4. ASSUME NEW s \in sent, Serve(s) PROVE sent' \subseteq sent
  BY <1>4 DEF Serve
<1>5. ASSUME UNCHANGED allVars PROVE UNCHANGED sent
  BY <1>5 DEF allVars, execVars
<1>6. PICK w \in Worker : Report(w)
  BY <1>1, <1>2, <1>3, <1>4, <1>5, ApartKeeps, ChildKeepsWorkers, ExecCases
<1>7. CASE PostComplete(w)
  BY <1>7 DEF PostComplete, Post, Goes
<1>8. CASE PostFailure(w)
  BY <1>8 DEF PostFailure, Post, Goes
<1> QED BY <1>6, <1>7, <1>8 DEF Report

(* What a worker has to report is what it read when its process ended.     *)
LEMMA OutcomeBefore ==
  ASSUME ExecTypeOK, [ExecNext]_allVars, NEW w \in Worker
  PROVE  \/ outcome'[w] = outcome[w]
         \/ outcome'[w] = <<>> /\ work'[w] \in {"idle", "down"}
         \/ /\ outcome'[w] = records[<<w, task[w]>>] /\ task'[w] = task[w]
            /\ \E c \in Own(w) : c.state = "done"
<1>0. outcome \in [Worker -> Seq(Attempt)] /\ work \in [Worker -> Work]
  BY DEF ExecTypeOK
<1>1. ASSUME NEW v \in Worker, NEW to \in {"idle", "down"}, Leave(v, to)
      PROVE  \/ outcome'[w] = outcome[w]
             \/ outcome'[w] = <<>> /\ work'[w] \in {"idle", "down"}
  BY <1>0, <1>1 DEF Leave
<1>2. ASSUME NEW v \in Worker, ChildEnded(v)
      PROVE  \/ outcome'[w] = outcome[w]
             \/ /\ outcome'[w] = records[<<w, task[w]>>] /\ task'[w] = task[w]
                /\ \E c \in Own(w) : c.state = "done"
  BY <1>0, <1>2 DEF ChildEnded, Here
<1>3. ASSUME NEW v \in Worker, Aside(v)
      PROVE  ChildEnded(v) \/ UNCHANGED outcome \/ \E to \in {"idle", "down"} : Leave(v, to)
  BY <1>3 DEF Aside, Execute, Updated, Built, OpponentBuilt, Report, PostComplete,
              PostFailure, Post, ExecutionFails, GiveUp, KillWorker, RestartWorker
<1>4. ASSUME NEW v \in Worker, Hello(v) \/ Beat(v) PROVE UNCHANGED outcome
  BY <1>4 DEF Hello, Beat, execVars
<1>5. ASSUME NEW v \in Worker, NEW j \in Job, Claim(v, j) PROVE UNCHANGED outcome
  BY <1>5 DEF Claim
<1>6. ASSUME NEW r \in sent, Serve(r)
      PROVE  UNCHANGED outcome \/ (r.worker \in Worker /\ Leave(r.worker, "idle"))
  BY <1>6, RequestFields DEF Serve
<1>7. CASE UNCHANGED allVars
  BY <1>7 DEF allVars, execVars
<1> QED BY <1>1, <1>2, <1>3, <1>4, <1>5, <1>6, <1>7, ApartKeeps, ChildKeepsWorkers, ExecCases

LEMMA OutcomeFunction ==
  ASSUME ExecTypeOK, [ExecNext]_allVars
  PROVE  outcome' \in [Worker -> Seq(Attempt)]
<1>0. outcome \in [Worker -> Seq(Attempt)] /\ work \in [Worker -> Work]
  BY DEF ExecTypeOK
<1>2. ASSUME NEW v \in Worker, ChildEnded(v) PROVE outcome' \in [Worker -> Seq(Attempt)]
  <2>1. task[v] \in Job
    BY <1>2, TaskIsJob DEF ChildEnded, Goes
  <2>2. records[<<v, task[v]>>] \in Seq(Attempt)
    BY <2>1 DEF ExecTypeOK
  <2>3. \/ outcome' = outcome
        \/ outcome' = [outcome EXCEPT ![v] = records[<<v, task[v]>>]]
    BY <1>2 DEF ChildEnded
  <2> QED BY <1>0, <2>2, <2>3, OutcomeTypes
<1>3. ASSUME NEW v \in Worker, Aside(v)
      PROVE  ChildEnded(v) \/ UNCHANGED outcome \/ \E to \in {"idle", "down"} : Leave(v, to)
  BY <1>3 DEF Aside, Execute, Updated, Built, OpponentBuilt, Report, PostComplete,
              PostFailure, Post, ExecutionFails, GiveUp, KillWorker, RestartWorker
<1>4. ASSUME NEW v \in Worker, Hello(v) \/ Beat(v) PROVE UNCHANGED outcome
  BY <1>4 DEF Hello, Beat, execVars
<1>5. ASSUME NEW v \in Worker, NEW j \in Job, Claim(v, j) PROVE UNCHANGED outcome
  BY <1>5 DEF Claim
<1>6. ASSUME NEW r \in sent, Serve(r)
      PROVE  UNCHANGED outcome \/ (r.worker \in Worker /\ Leave(r.worker, "idle"))
  BY <1>6, RequestFields DEF Serve
<1>7. ASSUME UNCHANGED allVars PROVE UNCHANGED outcome
  BY <1>7 DEF allVars, execVars
<1> QED BY <1>0, <1>2, <1>3, <1>4, <1>5, <1>6, <1>7, ApartKeeps, ChildKeepsWorkers, ExecCases,
           LeaveTypes

LEMMA ResultBefore ==
  ASSUME [ExecNext]_allVars
  PROVE  \/ UNCHANGED result
         \/ \E r \in sent : /\ Serve(r) /\ HeldBy(r.job, r.worker) /\ r.completed
                            /\ result' = [result EXCEPT ![r.job] = r.records]
<1>2. ASSUME NEW w \in Worker, Hello(w) \/ Beat(w) PROVE UNCHANGED result
  BY <1>2 DEF Hello, Beat, execVars
<1>3. ASSUME NEW w \in Worker, NEW j \in Job, Claim(w, j) PROVE UNCHANGED result
  BY <1>3 DEF Claim
<1>4. ASSUME NEW r \in sent, Serve(r)
      PROVE  \/ UNCHANGED result
             \/ /\ HeldBy(r.job, r.worker) /\ r.completed
                /\ result' = [result EXCEPT ![r.job] = r.records]
  BY <1>4 DEF Serve
<1>5. CASE UNCHANGED allVars
  BY <1>5 DEF allVars, execVars
<1> QED BY <1>2, <1>3, <1>4, <1>5, ApartKeeps, ChildKeepsWorkers, AsideKeepsRows, ExecCases

LEMMA TypesStep == ExecInv /\ [ExecNext]_allVars => ExecTypeOK'
<1> SUFFICES ASSUME ExecInv, [ExecNext]_allVars PROVE ExecTypeOK'
  OBVIOUS
<1>0. ExecTypeOK /\ StoreTypeOK'
  BY RowsInv DEF ExecInv
<1>1. CASE \E c \in children : ChildStep(c)
  BY <1>0, <1>1, ChildTypes
<1>2. CASE ~\E c \in children : ChildStep(c)
  <2>1. made' \subseteq Worker \X Job /\ records' \in [Worker \X Job -> Seq(Attempt)]
    BY <1>0, <1>2, OutputsKept DEF ExecTypeOK
  <2>2. outcome' \in [Worker -> Seq(Attempt)]
    BY <1>0, OutcomeFunction
  <2>3. sent' \subseteq Request
    <3>1. SUFFICES ASSUME NEW r \in sent', r \notin sent PROVE r \in Request
      BY <1>0 DEF ExecTypeOK
    <3>2. PICK w \in Worker :
            /\ work[w] \in {"finished", "failed"}
            /\ r = [worker |-> w, job |-> task[w], attempt |-> attempt[w],
                    completed |-> (work[w] = "finished"),
                    records |-> IF work[w] = "finished" THEN outcome[w] ELSE <<>>]
      BY <3>1, SentBefore
    <3>3. task[w] \in Job /\ task[w] # NoJob
      BY <1>0, <3>2, TaskIsJob, ExecutionConstants
    <3>4. attempt[w] \in Attempt
      BY <3>3, AttemptOfTask
    <3>5. (IF work[w] = "finished" THEN outcome[w] ELSE <<>>) \in Seq(Attempt)
      BY <1>0 DEF ExecTypeOK
    <3>6. (work[w] = "finished") \in BOOLEAN
      OBVIOUS
    <3> QED BY <3>2, <3>3, <3>4, <3>5, <3>6 DEF Request
  <2>4. result' \in [Job -> Seq(Attempt)]
    <3>1. result \in [Job -> Seq(Attempt)]
      BY <1>0 DEF ExecTypeOK
    <3> QED BY <1>0, <3>1, ResultBefore, RequestFields
  <2>5. orphaned' \subseteq Worker \X Job
    BY <1>0, OrphanedGrows
  <2> QED BY <1>0, <1>2, <2>1, <2>2, <2>3, <2>4, <2>5, ShapeTypes DEF ExecTypeOK
<1> QED BY <1>1, <1>2

-----------------------------------------------------------------------------
(* Processes and their workers. *)

LEMMA CountedStep == ExecInv /\ [ExecNext]_allVars => AttemptsCounted'
<1> SUFFICES ASSUME ExecInv, [ExecNext]_allVars PROVE AttemptsCounted'
  OBVIOUS
<1>0. ExecTypeOK /\ AttemptsCounted
  BY DEF ExecInv
<1>1. ASSUME NEW w \in Worker, task[w] # NoJob
      PROVE  task[w] \in Job /\ attempt[w] \in 1 .. attempts'[task[w]]
  <2>1. task[w] \in Job /\ attempt[w] \in Granted(task[w])
    BY <1>0, <1>1 DEF AttemptsCounted, ExecTypeOK
  <2>2. \A j \in Job : 1 .. attempts[j] \subseteq 1 .. attempts'[j]
    BY <1>0, AttemptsGrow DEF Granted
  <2> QED BY <2>1, <2>2 DEF Granted
<1>2. \A c \in children : c.attempt \in Granted(c.job)'
  BY <1>0, AttemptsGrow, ChildFields DEF AttemptsCounted
<1>3. CASE Stays
  BY <1>1, <1>2, <1>3 DEF Stays, AttemptsCounted, Granted
<1>4. ASSUME NEW w \in Worker, Starts(w) PROVE AttemptsCounted'
  <2>1. task[w] # NoJob /\ UNCHANGED <<task, attempt>>
    BY <1>0, <1>4 DEF Starts, MovesOn, ExecTypeOK
  <2>2. PICK c \in Child : /\ c.worker = w /\ c.job = task[w] /\ c.attempt = attempt[w]
                           /\ children' = children \cup {c}
    BY <1>4, <2>1, SpawnTypes DEF Starts
  <2> QED BY <1>1, <1>2, <2>1, <2>2 DEF AttemptsCounted, Granted
<1>5. ASSUME NEW w \in Worker, GoesOn(w) PROVE AttemptsCounted'
  BY <1>1, <1>2, <1>5 DEF GoesOn, MovesOn, AttemptsCounted, Granted
<1>6. ASSUME NEW w \in Worker, Leaves(w) PROVE AttemptsCounted'
  BY <1>0, <1>1, <1>2, <1>6 DEF Leaves, Leave, AttemptsCounted, Granted, ExecTypeOK
<1>7. ASSUME NEW w \in Worker, Restarts(w) PROVE AttemptsCounted'
  BY <1>1, <1>2, <1>7 DEF Restarts, RestartWorker, AttemptsCounted, Granted
<1>8. ASSUME NEW w \in Worker, NEW j \in Job, Claim(w, j) PROVE AttemptsCounted'
  <2>1. /\ attempts'[j] \in 1 .. 10 /\ attempt' = [attempt EXCEPT ![w] = attempts'[j]]
        /\ task' = [task EXCEPT ![w] = j] /\ children' = children
    BY <1>8, ClaimCounts DEF Claim, Attempt
  <2>2. attempt \in [Worker -> 0 .. 10] /\ task \in [Worker -> Job \cup {NoJob}]
    BY <1>0 DEF ExecTypeOK
  <2>3. attempt'[w] = attempts'[j] /\ task'[w] = j /\ attempts'[j] \in 1 .. attempts'[j]
    BY <2>1, <2>2
  <2>4. ASSUME NEW v \in Worker, task'[v] # NoJob PROVE attempt'[v] \in 1 .. attempts'[task'[v]]
    <3>1. CASE v = w
      BY <2>3, <3>1
    <3>2. CASE v # w
      <4>1. task'[v] = task[v] /\ attempt'[v] = attempt[v]
        BY <2>1, <2>2, <3>2
      <4> QED BY <1>1, <2>4, <4>1
    <3> QED BY <3>1, <3>2
  <2> QED BY <1>2, <2>1, <2>4 DEF AttemptsCounted, Granted
<1>9. ASSUME NEW c \in children, ChildStep(c) PROVE AttemptsCounted'
  <2>1. UNCHANGED <<task, attempt>>
    BY <1>9, ChildKeepsWorkers
  <2> QED BY <1>0, <1>1, <1>2, <1>9, <2>1, ChildGoesOn DEF AttemptsCounted, Granted
<1> QED BY <1>0, <1>3, <1>4, <1>5, <1>6, <1>7, <1>8, <1>9, WorkerShapes

(* A process that was there belongs to an earlier attempt than a claim's. *)
LEMMA ClaimIsFresh ==
  ASSUME ExecInv, NEW w \in Worker, NEW j \in Job, Claim(w, j), NEW c \in children,
         c.job = j
  PROVE  c.attempt # attempts'[j]
<1>1. c.attempt \in Granted(j) /\ attempts[j] \in 0 .. 10 /\ attempts'[j] = attempts[j] + 1
  BY ClaimCounts DEF ExecInv, AttemptsCounted
<1> QED BY <1>1 DEF Granted

LEMMA OwnChild ==
  ASSUME ExecTypeOK, NEW c \in children
  PROVE  c \in Own(c.worker) <=> c.job = task[c.worker] /\ c.attempt = attempt[c.worker]
  BY DEF Own

LEMMA OwnStep == ExecInv /\ [ExecNext]_allVars => OwnIsAwaited'
<1> SUFFICES ASSUME ExecInv, [ExecNext]_allVars, NEW c \in children',
                    c.job = task'[c.worker], c.attempt = attempt'[c.worker]
             PROVE  work'[c.worker] = "running"
  BY DEF OwnIsAwaited, Own
<1>0. /\ ExecTypeOK /\ OwnIsAwaited /\ work \in [Worker -> Work]
      /\ task \in [Worker -> Job \cup {NoJob}]
  BY DEF ExecInv, ExecTypeOK
<1>n. c.worker \in Worker /\ c.job # NoJob
  BY TypesStep, ExecutionConstants DEF ExecTypeOK, Child
<1>1. ASSUME NEW d \in children, d.worker = c.worker, d.job = task[c.worker],
             d.attempt = attempt[c.worker]
      PROVE  work[c.worker] = "running" /\ d \in Own(c.worker)
  BY <1>0, <1>1 DEF OwnIsAwaited, Own
<1>3. CASE Stays
  BY <1>1, <1>3 DEF Stays
<1>4. ASSUME NEW w \in Worker, Starts(w) PROVE work'[c.worker] = "running"
  <2>1. CASE c.worker = w
    BY <1>0, <1>4, <2>1 DEF Starts, MovesOn
  <2>2. CASE c.worker # w
    <3>1. c \in children /\ UNCHANGED <<task, attempt>>
      BY <1>4, <2>2 DEF Starts, MovesOn, Spawn
    <3> QED BY <1>0, <1>1, <1>4, <2>2, <3>1 DEF Starts, MovesOn
  <2> QED BY <2>1, <2>2
<1>5. ASSUME NEW w \in Worker, GoesOn(w) PROVE work'[c.worker] = "running"
  <2>1. c \in children /\ UNCHANGED <<task, attempt>>
    BY <1>5 DEF GoesOn, MovesOn
  <2>2. work[c.worker] = "running" /\ c \in Own(c.worker)
    BY <1>1, <2>1
  <2>3. c.worker # w
    BY <1>5, <2>2 DEF GoesOn
  <2> QED BY <1>0, <1>5, <2>2, <2>3 DEF GoesOn, MovesOn
<1>6. ASSUME NEW w \in Worker, Leaves(w) PROVE work'[c.worker] = "running"
  <2>1. c \in children
    BY <1>6 DEF Leaves
  <2>2. c.worker # w
    BY <1>0, <1>6, <1>n DEF Leaves, Leave
  <2>3. \E to : Leave(w, to)
    BY <1>6 DEF Leaves
  <2> QED BY <1>0, <1>1, <1>n, <2>1, <2>2, <2>3 DEF Leave, ExecTypeOK
<1>7. ASSUME NEW w \in Worker, Restarts(w) PROVE work'[c.worker] = "running"
  BY <1>0, <1>1, <1>7, <1>n DEF Restarts, RestartWorker, Goes
<1>8. ASSUME NEW w \in Worker, NEW j \in Job, Claim(w, j) PROVE work'[c.worker] = "running"
  <2>1. /\ attempt' = [attempt EXCEPT ![w] = attempts'[j]] /\ task' = [task EXCEPT ![w] = j]
        /\ work' = [work EXCEPT ![w] = "updating"] /\ c \in children
    BY <1>8 DEF Claim, Goes
  <2>2. attempt \in [Worker -> 0 .. 10]
    BY <1>0 DEF ExecTypeOK
  <2>3. c.worker # w
    BY <1>0, <1>8, <2>1, <2>2, ClaimIsFresh
  <2> QED BY <1>0, <1>1, <1>n, <2>1, <2>2, <2>3
<1>9. ASSUME NEW e \in children, ChildStep(e) PROVE work'[c.worker] = "running"
  <2>1. UNCHANGED <<work, task, attempt>>
    BY <1>9, ChildKeepsWorkers
  <2>2. \/ c \in children
        \/ c.worker = e.worker /\ c.job = e.job /\ c.attempt = e.attempt
    BY <1>0, <1>9, ChildGoesOn
  <2> QED BY <1>1, <1>9, <2>1, <2>2
<1> QED BY <1>0, <1>3, <1>4, <1>5, <1>6, <1>7, <1>8, <1>9, WorkerShapes

LEMMA LeftStep == ExecInv /\ [ExecNext]_allVars => LeftBehind'
<1> SUFFICES ASSUME ExecInv, [ExecNext]_allVars, NEW c \in children', Output(c) \notin orphaned'
             PROVE  /\ work'[c.worker] = "running"
                    /\ c.job = task'[c.worker] /\ c.attempt = attempt'[c.worker]
  BY DEF LeftBehind, Watched, Own
<1>0. /\ ExecTypeOK /\ work \in [Worker -> Work] /\ orphaned \subseteq orphaned'
      /\ task \in [Worker -> Job \cup {NoJob}] /\ attempt \in [Worker -> 0 .. 10]
  BY OrphanedGrows DEF ExecInv, ExecTypeOK
<1>n. c.worker \in Worker
  BY TypesStep DEF ExecTypeOK, Child
<1>1. ASSUME NEW d \in children, d.worker = c.worker, d.job = c.job, d.attempt = c.attempt
      PROVE  /\ work[c.worker] = "running" /\ d \in Own(c.worker)
             /\ c.job = task[c.worker] /\ c.attempt = attempt[c.worker]
  BY <1>0, <1>1 DEF ExecInv, LeftBehind, Watched, Own, Output
<1>3. CASE Stays
  BY <1>1, <1>3 DEF Stays
<1>4. ASSUME NEW w \in Worker, Starts(w)
      PROVE  /\ work'[c.worker] = "running"
             /\ c.job = task'[c.worker] /\ c.attempt = attempt'[c.worker]
  <2>1. work' = [work EXCEPT ![w] = "running"] /\ UNCHANGED <<task, attempt>>
    BY <1>4 DEF Starts, MovesOn
  <2>2. CASE c \in children
    BY <1>0, <1>1, <1>n, <2>1, <2>2
  <2>3. CASE c \notin children
    <3>1. c.worker = w /\ c.job = task[w] /\ c.attempt = attempt[w]
      BY <1>4, <2>3 DEF Starts, Spawn
    <3> QED BY <1>0, <2>1, <3>1
  <2> QED BY <2>2, <2>3
<1>5. ASSUME NEW w \in Worker, GoesOn(w)
      PROVE  /\ work'[c.worker] = "running"
             /\ c.job = task'[c.worker] /\ c.attempt = attempt'[c.worker]
  <2>1. c \in children /\ UNCHANGED <<task, attempt>>
    BY <1>5 DEF GoesOn, MovesOn
  <2>2. /\ work[c.worker] = "running" /\ c \in Own(c.worker)
        /\ c.job = task[c.worker] /\ c.attempt = attempt[c.worker]
    BY <1>1, <2>1
  <2>3. c.worker # w
    BY <1>5, <2>2 DEF GoesOn
  <2> QED BY <1>0, <1>5, <1>n, <2>1, <2>2, <2>3 DEF GoesOn, MovesOn
<1>6. ASSUME NEW w \in Worker, Leaves(w)
      PROVE  /\ work'[c.worker] = "running"
             /\ c.job = task'[c.worker] /\ c.attempt = attempt'[c.worker]
  <2>1. c \in children
    BY <1>6 DEF Leaves
  <2>2. /\ work[c.worker] = "running" /\ c \in Own(c.worker)
        /\ c.job = task[c.worker] /\ c.attempt = attempt[c.worker]
    BY <1>1, <2>1
  <2>3. c.worker # w
    BY <1>6, <2>2 DEF Leaves, Output
  <2>4. \E to : Leave(w, to)
    BY <1>6 DEF Leaves
  <2> QED BY <1>0, <1>n, <2>2, <2>3, <2>4 DEF Leave
<1>7. ASSUME NEW w \in Worker, Restarts(w)
      PROVE  /\ work'[c.worker] = "running"
             /\ c.job = task'[c.worker] /\ c.attempt = attempt'[c.worker]
  BY <1>0, <1>1, <1>7, <1>n DEF Restarts, RestartWorker, Goes
<1>8. ASSUME NEW w \in Worker, NEW j \in Job, Claim(w, j)
      PROVE  /\ work'[c.worker] = "running"
             /\ c.job = task'[c.worker] /\ c.attempt = attempt'[c.worker]
  <2>1. /\ attempt' = [attempt EXCEPT ![w] = attempts'[j]] /\ task' = [task EXCEPT ![w] = j]
        /\ work[w] = "idle" /\ work' = [work EXCEPT ![w] = "updating"] /\ c \in children
    BY <1>8 DEF Claim, Goes
  <2>2. /\ work[c.worker] = "running"
        /\ c.job = task[c.worker] /\ c.attempt = attempt[c.worker]
    BY <1>1, <2>1
  <2> QED BY <1>0, <1>n, <2>1, <2>2
<1>9. ASSUME NEW e \in children, ChildStep(e)
      PROVE  /\ work'[c.worker] = "running"
             /\ c.job = task'[c.worker] /\ c.attempt = attempt'[c.worker]
  <2>1. UNCHANGED <<work, task, attempt>>
    BY <1>9, ChildKeepsWorkers
  <2>2. \/ c \in children
        \/ c.worker = e.worker /\ c.job = e.job /\ c.attempt = e.attempt
    BY <1>0, <1>9, ChildGoesOn
  <2> QED BY <1>1, <1>9, <2>1, <2>2
<1> QED BY <1>0, <1>3, <1>4, <1>5, <1>6, <1>7, <1>8, <1>9, WorkerShapes

(* A process that is there after a step and was not before was started by  *)
(* a worker that had none.                                                 *)
LEMMA ChildrenBefore ==
  ASSUME ExecInv, [ExecNext]_allVars, ~\E c \in children : ChildStep(c)
  PROVE  \/ children' \subseteq children
         \/ \E w \in Worker, d \in Child :
              /\ children' = children \cup {d} /\ d.state = "started"
              /\ d.worker = w /\ d.job = task[w] /\ d.attempt = attempt[w]
              /\ work[w] # "running"
<1>1. ASSUME NEW w \in Worker, Starts(w)
      PROVE  \E d \in Child :
               /\ children' = children \cup {d} /\ d.state = "started"
               /\ d.worker = w /\ d.job = task[w] /\ d.attempt = attempt[w]
               /\ work[w] # "running"
  <2>1. task[w] # NoJob
    BY <1>1 DEF Starts, ExecInv, ExecTypeOK
  <2> QED BY <1>1, <2>1, SpawnTypes DEF Starts
<1>2. ASSUME NEW w \in Worker, GoesOn(w) \/ Leaves(w) PROVE children' \subseteq children
  BY <1>2 DEF GoesOn, Leaves
<1>3. ASSUME NEW w \in Worker, Restarts(w) PROVE children' = children
  BY <1>3 DEF Restarts, RestartWorker
<1>4. ASSUME NEW w \in Worker, NEW j \in Job, Claim(w, j) PROVE children' = children
  BY <1>4 DEF Claim
<1>5. CASE Stays
  BY <1>5 DEF Stays
<1> QED BY <1>1, <1>2, <1>3, <1>4, <1>5, WorkerShapes DEF ExecInv

LEMMA OneStep == ExecInv /\ [ExecNext]_allVars => OnePerAttempt'
<1> SUFFICES ASSUME ExecInv, [ExecNext]_allVars, NEW c \in children', NEW d \in children',
                    c.worker = d.worker, c.job = d.job, c.attempt = d.attempt
             PROVE  c = d
  BY DEF OnePerAttempt
<1>0. ExecTypeOK /\ OwnIsAwaited /\ OnePerAttempt
  BY DEF ExecInv
<1>1. CASE children' \subseteq children
  BY <1>0, <1>1 DEF OnePerAttempt
<1>2. ASSUME NEW w \in Worker, NEW n \in Child, children' = children \cup {n},
             n.worker = w, n.job = task[w], n.attempt = attempt[w], work[w] # "running"
      PROVE  c = d
  <2>1. \A b \in children : ~(b.worker = w /\ b.job = task[w] /\ b.attempt = attempt[w])
    BY <1>0, <1>2 DEF OwnIsAwaited, Own
  <2> QED BY <1>0, <1>2, <2>1 DEF OnePerAttempt
<1>3. ASSUME NEW b \in children, ChildStep(b) PROVE c = d
  <2>1. CASE children' = children \ {b}
    BY <1>0, <2>1 DEF OnePerAttempt
  <2>2. ASSUME NEW n \in Child, n.worker = b.worker, n.job = b.job, n.attempt = b.attempt,
               children' = (children \ {b}) \cup {n}
        PROVE  c = d
    BY <1>0, <2>2 DEF OnePerAttempt
  <2> QED BY <1>0, <1>3, <2>1, <2>2, ChildGoesOn
<1> QED BY <1>1, <1>2, <1>3, ChildrenBefore

-----------------------------------------------------------------------------
(* Outputs. *)

(* The steps that are no process's leave open and ended processes alone.   *)
LEMMA OpenedBefore ==
  ASSUME ExecInv, [ExecNext]_allVars, ~\E b \in children : ChildStep(b),
         NEW c \in children', Opened(c)
  PROVE  c \in children
  BY ChildrenBefore DEF Opened

(* A process touches its own output only. *)
LEMMA OtherOutputs ==
  ASSUME ExecTypeOK, NEW b \in children, ChildStep(b), NEW o \in Worker \X Job,
         Output(b) # o
  PROVE  /\ records'[o] = records[o] /\ (o \in made' <=> o \in made)
         /\ \A c \in children' : Output(c) = o => c \in children
<1>1. records'[o] = records[o]
  <2>1. records \in [Worker \X Job -> Seq(Attempt)]
    BY DEF ExecTypeOK
  <2>2. records' = records \/ \E r : records' = [records EXCEPT ![Output(b)] = r]
    BY DEF ChildStep, OpenBenchmark, OpenTournament, OpenEvaluation, Write, RunEnds
  <2> QED BY <2>1, <2>2
<1>2. o \in made' <=> o \in made
  BY DEF ChildStep, OpenBenchmark, OpenTournament, OpenEvaluation, Write, RunEnds
<1>3. \A c \in children' : Output(c) = o => c \in children
  BY ChildGoesOn DEF Output
<1> QED BY <1>1, <1>2, <1>3

LEMMA UnmadeStep == ExecInv /\ [ExecNext]_allVars => UnmadeAreEmpty'
<1> SUFFICES ASSUME ExecInv, [ExecNext]_allVars, NEW w \in Worker, NEW j \in Job,
                    Kind[j] = "tournament", <<w, j>> \notin made'
             PROVE  /\ records'[<<w, j>>] = <<>>
                    /\ \A c \in children' : Output(c) = <<w, j>> => ~Opened(c)
  BY DEF UnmadeAreEmpty
<1>0. ExecTypeOK /\ UnmadeAreEmpty
  BY DEF ExecInv
<1>1. CASE ~\E b \in children : ChildStep(b)
  BY <1>0, <1>1, OpenedBefore, OutputsKept DEF UnmadeAreEmpty
<1>2. ASSUME NEW b \in children, ChildStep(b)
      PROVE  /\ records'[<<w, j>>] = <<>>
             /\ \A c \in children' : Output(c) = <<w, j>> => ~Opened(c)
  <2>1. Output(b) # <<w, j>>
    <3>1. CASE OpenTournament(b)
      BY <3>1 DEF OpenTournament
    <3>2. CASE OpenBenchmark(b) \/ OpenEvaluation(b)
      BY <3>2 DEF OpenBenchmark, OpenEvaluation, Opens, Output
    <3>3. CASE Write(b) \/ RunEnds(b)
      BY <1>0, <3>3 DEF Write, RunEnds, UnmadeAreEmpty, Opened
    <3> QED BY <1>2, <3>1, <3>2, <3>3 DEF ChildStep
  <2> QED BY <1>0, <1>2, <2>1, OtherOutputs DEF UnmadeAreEmpty
<1> QED BY <1>1, <1>2

(* Processes of one benchmark output are one process, unless one was left  *)
(* behind.                                                                 *)
LEMMA OneBenchmark ==
  ASSUME ExecInv, NEW b \in children, NEW c \in children, Output(b) = Output(c),
         Output(c) \notin orphaned
  PROVE  b = c
<1>1. Watched(b) /\ Watched(c) /\ b.worker = c.worker /\ b.job = c.job
  BY DEF ExecInv, LeftBehind, Output
<1>2. b.attempt = c.attempt
  BY <1>1 DEF Watched, Own
<1> QED BY <1>1, <1>2 DEF ExecInv, OnePerAttempt

(* What the acting process leaves in an exclusive output.  It is the only  *)
(* one that has opened it, or it finds the tournament begun and ends.      *)
LEMMA ExclusiveOpen ==
  ASSUME ExecInv, NEW b \in children, Exclusive(Output(b)),
         OpenBenchmark(b) \/ (OpenTournament(b) /\ Output(b) \notin made)
  PROVE  /\ \A c \in children : Output(c) = Output(b) => ~Opened(c)
         /\ records'[Output(b)] = <<>>
         /\ \E n \in Child : /\ n.wrote = 0 /\ children' = (children \ {b}) \cup {n}
<1>0. /\ Output(b) \in Worker \X Job /\ b \in Child /\ 0 \in 0 .. RunLength
      /\ records \in [Worker \X Job -> Seq(Attempt)]
  BY ChildFields, ExecutionConstants DEF ExecInv, ExecTypeOK
<1>1. \E n \in Child : /\ n.wrote = 0 /\ children' = (children \ {b}) \cup {n}
  <2>1. Becomes(b, "open", 0)
    BY DEF OpenBenchmark, OpenTournament
  <2> QED BY <1>0, <2>1, BecomesTypes
<1>2. CASE OpenBenchmark(b)
  <2>1. Output(b) \notin orphaned /\ b.state = "started"
    BY <1>2 DEF OpenBenchmark, Opens, Exclusive, Undisturbed, Output
  <2>2. \A c \in children : Output(c) = Output(b) => c = b
    BY <2>1, OneBenchmark
  <2>3. records'[Output(b)] = <<>>
    BY <1>0, <1>2 DEF OpenBenchmark
  <2> QED BY <1>1, <2>1, <2>2, <2>3 DEF Opened
<1>3. CASE OpenTournament(b) /\ Output(b) \notin made
  <2>1. Kind[b.job] = "tournament" /\ b.worker \in Worker /\ b.job \in Job
    BY <1>3, ChildFields DEF OpenTournament, Opens, ExecInv
  <2>2. records' = records
    BY <1>3 DEF OpenTournament
  <2> QED BY <1>1, <1>3, <2>1, <2>2 DEF ExecInv, UnmadeAreEmpty, Output
<1> QED BY <1>2, <1>3

(* The processes that have opened an exclusive output after its only       *)
(* writer's step.                                                          *)
LEMMA AloneAfter ==
  ASSUME NEW b \in children, NEW n,
         children' = (children \ {b}) \cup {n} \/ children' = children \ {b},
         \A c \in children : Output(c) = Output(b) /\ Opened(c) => c = b,
         NEW c \in children', Output(c) = Output(b), Opened(c)
  PROVE  c = n
  OBVIOUS

LEMMA AloneStep == ExecInv /\ [ExecNext]_allVars => WritesAlone'
<1> SUFFICES ASSUME ExecInv, [ExecNext]_allVars, NEW c \in children',
                    Exclusive(Output(c))', Opened(c)
             PROVE  /\ HoldsOwn(c)'
                    /\ \A d \in children' : Output(d) = Output(c) /\ Opened(d) => d = c
  BY DEF WritesAlone
<1>0. /\ ExecTypeOK /\ WritesAlone /\ records \in [Worker \X Job -> Seq(Attempt)]
      /\ ExecTypeOK'
  BY TypesStep DEF ExecInv, ExecTypeOK
<1>e. Exclusive(Output(c)) /\ Output(c) \in Worker \X Job
  BY <1>0, OrphanedGrows DEF Exclusive, Undisturbed, Output, ExecTypeOK, Child
<1>1. CASE ~\E b \in children : ChildStep(b)
  <2>1. c \in children /\ records' = records
    BY <1>1, OpenedBefore, OutputsKept
  <2>2. HoldsOwn(c)'
    BY <1>0, <1>e, <2>1 DEF WritesAlone, HoldsOwn
  <2>3. \A d \in children' : Opened(d) => d \in children
    BY <1>1, OpenedBefore
  <2> QED BY <1>0, <1>e, <2>1, <2>2, <2>3 DEF WritesAlone
<1>2. ASSUME NEW b \in children, ChildStep(b), Output(b) # Output(c)
      PROVE  /\ HoldsOwn(c)'
             /\ \A d \in children' : Output(d) = Output(c) /\ Opened(d) => d = c
  <2>1. /\ records'[Output(c)] = records[Output(c)]
        /\ \A d \in children' : Output(d) = Output(c) => d \in children
    BY <1>0, <1>2, <1>e, OtherOutputs
  <2>2. HoldsOwn(c)'
    BY <1>0, <1>e, <2>1 DEF WritesAlone, HoldsOwn
  <2> QED BY <1>0, <1>e, <2>1, <2>2 DEF WritesAlone
<1>3. ASSUME NEW b \in children, ChildStep(b), Output(b) = Output(c)
      PROVE  /\ HoldsOwn(c)'
             /\ \A d \in children' : Output(d) = Output(c) /\ Opened(d) => d = c
  <2>b. /\ b \in Child /\ b.wrote \in 0 .. RunLength /\ Exclusive(Output(b))
        /\ b.attempt \in Attempt /\ records[Output(b)] \in Seq(Attempt)
    BY <1>0, <1>3, <1>e, ChildFields
  <2>1. ASSUME NEW n \in Child, children' = (children \ {b}) \cup {n} \/ children' = children \ {b},
               \A d \in children : Output(d) = Output(b) /\ Opened(d) => d = b,
               HoldsOwn(n)'
        PROVE  /\ HoldsOwn(c)'
               /\ \A d \in children' : Output(d) = Output(c) /\ Opened(d) => d = c
    <3>1. \A d \in children' : Output(d) = Output(b) /\ Opened(d) => d = n
      BY <2>1, AloneAfter
    <3>2. c = n
      BY <1>3, <3>1
    <3> QED BY <1>3, <2>1, <3>1, <3>2
  <2>2. CASE OpenBenchmark(b) \/ (OpenTournament(b) /\ Output(b) \notin made)
    <3>1. PICK n \in Child : n.wrote = 0 /\ children' = (children \ {b}) \cup {n}
      BY <2>2, <2>b, ExclusiveOpen
    <3>2. /\ \A d \in children : Output(d) = Output(b) => ~Opened(d)
          /\ records'[Output(b)] = <<>>
      BY <2>2, <2>b, ExclusiveOpen
    <3>3. c = n
      BY <1>3, <3>1, <3>2
    <3>4. HoldsOwn(n)'
      BY <1>3, <3>1, <3>2, <3>3 DEF HoldsOwn
    <3> QED BY <2>1, <3>1, <3>2, <3>4
  <2>3. CASE OpenTournament(b) /\ Output(b) \in made
    <3>1. records' = records /\ Exits(b, "failed")
      BY <2>3 DEF OpenTournament
    <3>2. \/ children' = children \ {b}
          \/ \E n \in Child : n.state = "failed" /\ children' = (children \ {b}) \cup {n}
      BY <2>b, <3>1, BecomesTypes DEF Exits
    <3>3. \A d \in children' : Opened(d) => d \in children
      BY <3>2 DEF Opened
    <3>4. HoldsOwn(c)'
      BY <1>0, <1>e, <3>1, <3>3 DEF WritesAlone, HoldsOwn
    <3> QED BY <1>0, <1>e, <3>3, <3>4 DEF WritesAlone
  <2>4. CASE OpenEvaluation(b)
    BY <2>4, <2>b DEF OpenEvaluation, Opens, Exclusive, Output
  <2>5. CASE Write(b)
    <3>1. /\ HoldsOwn(b)
          /\ \A d \in children : Output(d) = Output(b) /\ Opened(d) => d = b
      BY <1>0, <2>5, <2>b DEF Write, WritesAlone, Opened
    <3>2. b.wrote + 1 \in 0 .. RunLength /\ Becomes(b, "open", b.wrote + 1)
      BY <2>5, <2>b, ExecutionConstants DEF Write
    <3>3. PICK n \in Child :
            /\ n.worker = b.worker /\ n.job = b.job /\ n.attempt = b.attempt
            /\ n.wrote = b.wrote + 1 /\ children' = (children \ {b}) \cup {n}
      BY <2>b, <3>2, BecomesTypes
    <3>4. Kind[b.job] # "evaluation" /\ Output(n) = Output(b)
      BY <2>b, <3>3 DEF Exclusive, Output
    <3>5. records'[Output(n)] = Append(records[Output(b)], b.attempt)
      BY <1>0, <1>3, <1>e, <2>5, <3>4 DEF Write
    <3>6. HoldsOwn(n)'
      <4>1. Len(records'[Output(n)]) = b.wrote + 1
        BY <2>b, <3>1, <3>5 DEF HoldsOwn
      <4>2. \A i \in 1 .. b.wrote + 1 : records'[Output(n)][i] = b.attempt
        BY <2>b, <3>1, <3>5 DEF HoldsOwn
      <4> QED BY <3>3, <4>1, <4>2 DEF HoldsOwn
    <3> QED BY <2>1, <3>1, <3>3, <3>6
  <2>6. CASE RunEnds(b)
    <3>1. /\ HoldsOwn(b)
          /\ \A d \in children : Output(d) = Output(b) /\ Opened(d) => d = b
      BY <1>0, <2>6, <2>b DEF RunEnds, WritesAlone, Opened
    <3>2. records' = records /\ Exits(b, "done")
      BY <2>6, <2>b DEF RunEnds, Exclusive, Output
    <3>3. CASE children' = children \ {b}
      BY <1>3, <3>1, <3>3
    <3>4. CASE Becomes(b, "done", b.wrote)
      <4>1. PICK n \in Child :
              /\ n.worker = b.worker /\ n.job = b.job /\ n.attempt = b.attempt
              /\ n.wrote = b.wrote /\ children' = (children \ {b}) \cup {n}
        BY <2>b, <3>4, BecomesTypes
      <4>2. HoldsOwn(n)'
        BY <3>1, <3>2, <4>1 DEF HoldsOwn, Output
      <4> QED BY <2>1, <3>1, <4>1, <4>2
    <3> QED BY <3>2, <3>3, <3>4 DEF Exits
  <2> QED BY <1>3, <2>2, <2>3, <2>4, <2>5, <2>6 DEF ChildStep
<1> QED BY <1>1, <1>2, <1>3

(* An exclusive output of RunLength records of one writer is a whole run.  *)
LEMMA OwnIsWhole ==
  ASSUME ExecInv, NEW c \in children, HoldsOwn(c), c.wrote = RunLength
  PROVE  records[Output(c)] = [i \in 1 .. RunLength |-> c.attempt]
<1>1. records[Output(c)] \in Seq(Attempt) /\ Len(records[Output(c)]) = RunLength
  BY ChildFields DEF ExecInv, ExecTypeOK, HoldsOwn
<1>2. \A i \in 1 .. RunLength : records[Output(c)][i] = c.attempt
  BY DEF HoldsOwn
<1> QED BY <1>1, <1>2

LEMMA WholeRunKept ==
  ASSUME ExecTypeOK, [ExecNext]_allVars, NEW j \in Job, NEW r, WholeRun(j, r)
  PROVE  WholeRun(j, r)'
<1>1. \A a \in Granted(j) : a \in Granted(j)'
  BY AttemptsGrow
<1> QED BY <1>1 DEF WholeRun

(* Counting for the result is never regained.                              *)
LEMMA CountsBefore ==
  ASSUME ExecTypeOK, [ExecNext]_allVars, NEW w, NEW j, Counts(w, j)' PROVE Counts(w, j)
  BY OrphanedGrows DEF Counts, Undisturbed

LEMMA DoneStep == ExecInv /\ [ExecNext]_allVars => DoneIsWhole'
<1> SUFFICES ASSUME ExecInv, [ExecNext]_allVars, NEW c \in children', c.state = "done",
                    Counts(c.worker, c.job)'
             PROVE  WholeRun(c.job, records[Output(c)])'
  BY DEF DoneIsWhole
<1>0. /\ ExecTypeOK /\ records \in [Worker \X Job -> Seq(Attempt)]
      /\ Output(c) \in Worker \X Job /\ c.job \in Job /\ Counts(c.worker, c.job)
  BY TypesStep, CountsBefore DEF ExecInv, ExecTypeOK, Output, Child
<1>1. ASSUME c \in children, records'[Output(c)] = records[Output(c)]
      PROVE  WholeRun(c.job, records[Output(c)])'
  <2>1. WholeRun(c.job, records[Output(c)])
    BY <1>0, <1>1 DEF ExecInv, DoneIsWhole
  <2>2. WholeRun(c.job, records'[Output(c)])
    BY <1>1, <2>1
  <2> QED BY <1>0, <2>2, AttemptsGrow DEF WholeRun, Granted
<1>2. CASE ~\E b \in children : ChildStep(b)
  BY <1>1, <1>2, OpenedBefore, OutputsKept DEF Opened
<1>3. ASSUME NEW b \in children, ChildStep(b), Output(b) # Output(c)
      PROVE  WholeRun(c.job, records[Output(c)])'
  BY <1>0, <1>1, <1>3, OtherOutputs
<1>4. ASSUME NEW b \in children, ChildStep(b), Output(b) = Output(c)
      PROVE  WholeRun(c.job, records[Output(c)])'
  <2>b. /\ b \in Child /\ b.wrote \in 0 .. RunLength /\ 0 \in 0 .. RunLength
        /\ b.job = c.job /\ b.worker = c.worker /\ Output(c)[2] = c.job
    BY <1>0, <1>4, ChildFields, ExecutionConstants DEF Output
  <2>x. Kind[c.job] \in {"tournament", "benchmark"} => Exclusive(Output(b))
    BY <1>0, <1>4, <2>b DEF Counts, Undisturbed, Exclusive, Output
  <2>w. b.attempt \in 1 .. attempts'[c.job]
    <3>1. b.attempt \in Granted(b.job)
      BY DEF ExecInv, AttemptsCounted
    <3> QED BY <1>0, <2>b, <3>1, AttemptsGrow DEF Granted
  <2>r. ASSUME records'[Output(c)] = [i \in 1 .. RunLength |-> b.attempt]
        PROVE  WholeRun(c.job, records[Output(c)])'
    BY <2>w, <2>r DEF WholeRun, Granted
  <2>o. ASSUME NEW n \in 0 .. RunLength, NEW state \in {"open", "failed"},
               Becomes(b, state, n) \/ children' = children \ {b}
        PROVE  c \in children
    BY <2>b, <2>o, BecomesTypes
  <2>2. CASE OpenBenchmark(b) \/ (OpenTournament(b) /\ Output(b) \notin made)
    <3>1. c \in children
      BY <2>2, <2>b, <2>o DEF OpenBenchmark, OpenTournament
    <3>2. Exclusive(Output(b))
      BY <2>2, <2>b, <2>x DEF OpenBenchmark, OpenTournament, Opens
    <3> QED BY <1>4, <2>2, <3>1, <3>2, ExclusiveOpen DEF Opened
  <2>3. CASE OpenTournament(b) /\ Output(b) \in made
    <3>1. records' = records /\ Exits(b, "failed")
      BY <2>3 DEF OpenTournament
    <3>2. c \in children
      BY <2>b, <2>o, <3>1 DEF Exits
    <3> QED BY <1>1, <3>1, <3>2
  <2>4. CASE OpenEvaluation(b)
    <3>1. c \in children /\ records' = records
      BY <2>4, <2>b, <2>o DEF OpenEvaluation
    <3> QED BY <1>1, <3>1
  <2>5. CASE Write(b)
    <3>1. b.wrote + 1 \in 0 .. RunLength /\ Becomes(b, "open", b.wrote + 1)
      BY <2>5, <2>b, ExecutionConstants DEF Write
    <3>2. c \in children
      BY <2>o, <3>1
    <3>3. CASE Kind[b.job] = "evaluation"
      BY <1>1, <2>5, <3>2, <3>3 DEF Write
    <3>4. CASE Kind[b.job] # "evaluation"
      <4>1. Exclusive(Output(b))
        <5>1. Kind[c.job] \in {"tournament", "benchmark"}
          BY <1>0, <2>b, <3>4, ExecutionConstants DEF Counts
        <5> QED BY <2>x, <5>1
      <4>2. c = b
        BY <1>4, <2>5, <3>2, <4>1 DEF Write, ExecInv, WritesAlone, Opened
      <4> QED BY <2>5, <4>2 DEF Write
    <3> QED BY <3>3, <3>4
  <2>6. CASE RunEnds(b)
    <3>1. CASE Kind[b.job] = "evaluation"
      <4>1. records' = [records EXCEPT ![Output(b)] = [i \in 1 .. RunLength |-> b.attempt]]
        BY <2>6, <3>1 DEF RunEnds
      <4> QED BY <1>0, <1>4, <2>r, <4>1
    <3>2. CASE Kind[b.job] # "evaluation"
      <4>1. Exclusive(Output(b))
        <5>1. Kind[c.job] \in {"tournament", "benchmark"}
          BY <1>0, <2>b, <3>2, ExecutionConstants DEF Counts
        <5> QED BY <2>x, <5>1
      <4>2. HoldsOwn(b) /\ b.wrote = RunLength /\ records' = records
        BY <2>6, <3>2, <4>1 DEF RunEnds, ExecInv, WritesAlone, Opened
      <4> QED BY <1>4, <2>r, <4>2, OwnIsWhole
    <3> QED BY <3>1, <3>2
  <2> QED BY <1>4, <2>2, <2>3, <2>4, <2>5, <2>6 DEF ChildStep
<1> QED BY <1>2, <1>3, <1>4

-----------------------------------------------------------------------------
(* Reports and results. *)

(* A worker that has something to report had it before, or finished a job  *)
(* of the kind that has no result, or its process has just ended.          *)
LEMMA FinishedBefore ==
  ASSUME ExecTypeOK, [ExecNext]_allVars, NEW w \in Worker,
         work'[w] \in {"finished", "completing"}
  PROVE  /\ task'[w] = task[w]
         /\ \/ work[w] \in {"finished", "completing"}
            \/ Kind[task[w]] = "git_update"
            \/ ChildEnded(w)
<1>0. work \in [Worker -> Work] /\ task \in [Worker -> Job \cup {NoJob}]
  BY DEF ExecTypeOK
<1>1. ASSUME NEW v, NEW to \in {"idle", "down", "failed", "failing", "updating"},
             work' = [work EXCEPT ![v] = to]
      PROVE  work'[w] = work[w] /\ v # w
  BY <1>0, <1>1
<1>2. ASSUME NEW v \in Worker, Aside(v), v # w
      PROVE  work'[w] = work[w] /\ task'[w] = task[w]
  BY <1>0, <1>2, AsideShape
     DEF Starts, GoesOn, MovesOn, Leaves, Leave, Restarts, RestartWorker, Goes
<1>3. CASE Execute(w)
  <2>1. UNCHANGED task
    BY <1>3 DEF Execute, Updated, Built, OpponentBuilt, ChildEnded, Here
  <2>2. CASE Updated(w)
    BY <1>0, <2>1, <2>2 DEF Updated, Goes
  <2>3. CASE Built(w) \/ OpponentBuilt(w)
    BY <1>0, <2>3 DEF Built, OpponentBuilt, Goes
  <2> QED BY <1>3, <2>1, <2>2, <2>3 DEF Execute
<1>4. CASE PostComplete(w)
  BY <1>4 DEF PostComplete, Goes, Post
<1>5. CASE Aside(w) /\ ~Execute(w) /\ ~PostComplete(w)
  <2>1. \E to \in {"idle", "down", "failed", "failing"} : work' = [work EXCEPT ![w] = to]
    BY <1>5 DEF Aside, Report, PostFailure, ExecutionFails, GiveUp, KillWorker, RestartWorker,
                Goes, Leave
  <2> QED BY <1>1, <2>1
<1>6. ASSUME NEW v \in Worker, Hello(v) \/ Beat(v)
      PROVE  work'[w] = work[w] /\ task'[w] = task[w]
  BY <1>1, <1>6 DEF Hello, Beat, execVars
<1>7. ASSUME NEW r \in sent, Serve(r) PROVE work'[w] = work[w] /\ task'[w] = task[w]
  <2>1. CASE UNCHANGED <<work, task>>
    BY <2>1
  <2>2. CASE work' = [work EXCEPT ![r.worker] = "failed"] /\ UNCHANGED task
    BY <1>1, <2>2
  <2>3. CASE Leave(r.worker, "idle")
    BY <1>0, <1>1, <2>3 DEF Leave
  <2> QED BY <1>7, <2>1, <2>2, <2>3 DEF Serve
<1>8. ASSUME NEW v \in Worker, NEW j \in Job, Claim(v, j)
      PROVE  work'[w] = work[w] /\ task'[w] = task[w]
  BY <1>0, <1>1, <1>8 DEF Claim, Goes
<1>9. CASE UNCHANGED allVars
  BY <1>9 DEF allVars, execVars
<1> QED BY <1>2, <1>3, <1>4, <1>5, <1>6, <1>7, <1>8, <1>9, ExecCases, ApartKeeps,
           ChildKeepsWorkers

LEMMA OutcomeStep == ExecInv /\ [ExecNext]_allVars => OutcomeIsWhole'
<1> SUFFICES ASSUME ExecInv, [ExecNext]_allVars, NEW w \in Worker,
                    work'[w] \in {"finished", "completing"}, Counts(w, task[w])'
             PROVE  WholeRun(task[w], outcome[w])'
  BY DEF OutcomeIsWhole
<1>0. ExecTypeOK
  BY DEF ExecInv
<1>1. /\ task'[w] = task[w]
      /\ \/ work[w] \in {"finished", "completing"}
         \/ Kind[task[w]] = "git_update"
         \/ ChildEnded(w)
  BY <1>0, FinishedBefore
<1>2. Counts(w, task[w])
  BY <1>0, <1>1, OrphanedGrows DEF Counts, Undisturbed
<1>3. work[w] \in {"finished", "completing"} \/ ChildEnded(w)
  BY <1>1, <1>2 DEF Counts
<1>4. task[w] \in Job
  BY <1>0, <1>3, TaskIsJob DEF ChildEnded, Goes
<1>5. ASSUME WholeRun(task[w], outcome'[w]) PROVE WholeRun(task[w], outcome[w])'
  BY <1>0, <1>1, <1>4, <1>5, AttemptsGrow DEF WholeRun, Granted
<1>6. ASSUME NEW c \in Own(w), c.state = "done"
      PROVE  WholeRun(task[w], records[<<w, task[w]>>])
  BY <1>2, <1>6 DEF ExecInv, DoneIsWhole, Own, Output
<1>7. work'[w] \notin {"idle", "down"}
  OBVIOUS
<1>8. CASE ChildEnded(w)
  <2>1. work' # [work EXCEPT ![w] = "failed"]
    BY <1>0 DEF ExecTypeOK
  <2>2. \E c \in Own(w) :
          c.state = "done" /\ outcome' = [outcome EXCEPT ![w] = records[<<w, task[w]>>]]
    BY <1>8, <2>1 DEF ChildEnded, Goes
  <2>3. outcome'[w] = records[<<w, task[w]>>]
    BY <1>0, <2>2 DEF ExecTypeOK
  <2> QED BY <1>5, <1>6, <2>2, <2>3
<1>9. CASE work[w] \in {"finished", "completing"}
  <2>1. WholeRun(task[w], outcome[w])
    BY <1>2, <1>9 DEF ExecInv, OutcomeIsWhole
  <2>2. \/ outcome'[w] = outcome[w]
        \/ /\ outcome'[w] = records[<<w, task[w]>>]
           /\ \E c \in Own(w) : c.state = "done"
    BY <1>0, <1>7, OutcomeBefore
  <2> QED BY <1>5, <1>6, <2>1, <2>2
<1> QED BY <1>3, <1>8, <1>9

LEMMA SentStep == ExecInv /\ [ExecNext]_allVars => SentIsWhole'
<1> SUFFICES ASSUME ExecInv, [ExecNext]_allVars, NEW r \in sent', r.completed,
                    Counts(r.worker, r.job)'
             PROVE  WholeRun(r.job, r.records)'
  BY DEF SentIsWhole
<1>0. ExecTypeOK /\ Counts(r.worker, r.job)
  BY CountsBefore DEF ExecInv
<1>1. r.job \in Job
  BY TypesStep DEF ExecTypeOK, Request
<1>2. SUFFICES WholeRun(r.job, r.records)
  BY <1>0, <1>1, WholeRunKept
<1>3. CASE r \in sent
  BY <1>0, <1>3 DEF ExecInv, SentIsWhole
<1>4. CASE r \notin sent
  <2>1. PICK w \in Worker :
          /\ work[w] \in {"finished", "failed"}
          /\ r = [worker |-> w, job |-> task[w], attempt |-> attempt[w],
                  completed |-> (work[w] = "finished"),
                  records |-> IF work[w] = "finished" THEN outcome[w] ELSE <<>>]
    BY <1>4, SentBefore
  <2>2. work[w] = "finished"
    BY <2>1
  <2>3. r.worker = w /\ r.job = task[w] /\ r.records = outcome[w]
    BY <2>1, <2>2
  <2> QED BY <1>0, <2>2, <2>3 DEF ExecInv, OutcomeIsWhole
<1> QED BY <1>3, <1>4

(* A row is completed by a report that the master accepts, of the worker   *)
(* that holds it, and by nothing else.                                     *)
LEMMA CompletedBy ==
  ASSUME ExecTypeOK, ExecNext, NEW j \in Job, status'[j] = "completed", status[j] # "completed"
  PROVE  \E r \in sent : Serve(r) /\ r.job = j /\ HeldBy(j, r.worker) /\ r.completed
<1>t. status \in [Job -> Status]
  BY DEF ExecTypeOK, StoreTypeOK
<1>1. ASSUME NEW i \in Job, NEW s \in {"queued", "claimed", "running", "failed", "cancelled"},
             status' = [status EXCEPT ![i] = s]
      PROVE  FALSE
  BY <1>t, <1>1
<1>2. ASSUME UNCHANGED status PROVE FALSE
  BY <1>2
<1>3. ASSUME NEW w \in Worker, Aside(w) \/ Hello(w) PROVE FALSE
  BY <1>2, <1>3, AsideKeepsRows DEF Hello, RegisterRow, rowVars
<1>4. ASSUME NEW w \in Worker, Beat(w) PROVE FALSE
  <2>1. task[w] \in Job
    BY <1>4, TaskIsJob DEF Beat, Running
  <2> QED BY <1>1, <1>2, <1>4, <2>1 DEF Beat, HeartbeatRow, rowVars
<1>5. ASSUME NEW c \in children, ChildStep(c) PROVE FALSE
  BY <1>2, <1>5, ChildKeepsWorkers DEF rowVars
<1>6. ASSUME NEW r \in sent, Serve(r) PROVE r.job = j /\ HeldBy(j, r.worker) /\ r.completed
  <2>1. r.job \in Job
    BY RequestFields
  <2>2. HeldBy(r.job, r.worker) /\ FinishRow(r.job, r.worker, r.completed)
    BY <1>2, <1>6 DEF Serve, rowVars
  <2>3. r.completed
    BY <1>1, <2>1, <2>2 DEF FinishRow, RetryRow, FailRow, CloseRow
  <2>4. status' = [status EXCEPT ![r.job] = "completed"]
    BY <2>2, <2>3 DEF FinishRow, CloseRow
  <2>5. r.job = j
    BY <1>t, <2>4
  <2> QED BY <2>2, <2>3, <2>5
<1>7. ASSUME NEW w \in Worker, NEW i \in Job, Claim(w, i) PROVE FALSE
  BY <1>1, <1>7 DEF Claim, ClaimRow
<1>8. ASSUME NEW i \in Job, Apart(i) PROVE FALSE
  BY <1>1, <1>2, <1>8 DEF Apart, Enqueue, Cancel, Expire, LeaseLost, LeaseLapses, InsertRow,
                          CancelRow, ExpireRow, LeaseRunsOut, RetryRow, FailRow, CloseRow
<1> QED BY <1>3, <1>4, <1>5, <1>6, <1>7, <1>8, ExecCases

LEMMA ResultStep == ExecInv /\ [ExecNext]_allVars => ResultIsOneRun'
<1> SUFFICES ASSUME ExecInv, [ExecNext]_allVars, NEW j \in Job,
                    status'[j] = "completed", Counts(holder[j], j)'
             PROVE  WholeRun(j, result[j])'
  BY DEF ResultIsOneRun, WholeRun, Granted, Counts, Undisturbed
<1>0. /\ ExecTypeOK /\ StoreTypeOK /\ [StoreNext]_rowVars
      /\ result \in [Job -> Seq(Attempt)]
  BY ExecutionRows DEF ExecInv, ExecTypeOK
<1>c. Counts(holder'[j], j)
  BY <1>0, OrphanedGrows DEF Counts, Undisturbed
<1>1. CASE status[j] = "completed"
  <2>1. attempts'[j] = attempts[j] /\ holder'[j] = holder[j]
    BY <1>0, <1>1, TerminalStep DEF Terminal
  <2>2. ASSUME NEW r \in sent, HeldBy(r.job, r.worker),
               result' = [result EXCEPT ![r.job] = r.records]
        PROVE  result'[j] = result[j]
    BY <1>0, <1>1, <2>2 DEF HeldBy, Held
  <2>3. result'[j] = result[j]
    BY <2>2, ResultBefore
  <2>4. WholeRun(j, result[j])
    BY <1>1, <1>c, <2>1
       DEF ExecInv, ResultIsOneRun, WholeRun, Granted, Counts, Undisturbed
  <2> QED BY <2>1, <2>3, <2>4 DEF WholeRun, Granted
<1>2. CASE status[j] # "completed"
  <2>1. ExecNext
    BY <1>2 DEF allVars, rowVars
  <2>2. PICK r \in sent : Serve(r) /\ r.job = j /\ HeldBy(j, r.worker) /\ r.completed
    BY <1>0, <1>2, <2>1, CompletedBy
  <2>3. FinishRow(j, r.worker, TRUE) /\ result' = [result EXCEPT ![j] = r.records]
    BY <1>0, <2>2, RequestFields DEF Serve
  <2>4. /\ holder'[j] = r.worker /\ attempts'[j] = attempts[j]
        /\ result'[j] = r.records
    BY <1>0, <2>2, <2>3 DEF FinishRow, CloseRow, HeldBy
  <2>5. WholeRun(j, r.records)
    BY <1>c, <2>2, <2>4 DEF ExecInv, SentIsWhole
  <2> QED BY <2>4, <2>5 DEF WholeRun, Granted
<1> QED BY <1>1, <1>2

-----------------------------------------------------------------------------

LEMMA ExecInvInit == ExecInit => ExecInv
<1> SUFFICES ASSUME ExecInit PROVE ExecInv
  OBVIOUS
<1>1. RowInv
  BY RowInvInit DEF ExecInit
<1>2. ExecTypeOK
  BY <1>1 DEF ExecInit, RowInv, ExecTypeOK, Work
<1>3. AttemptsCounted /\ OwnIsAwaited /\ LeftBehind /\ OnePerAttempt
  BY DEF ExecInit, AttemptsCounted, OwnIsAwaited, LeftBehind, OnePerAttempt
<1>4. UnmadeAreEmpty /\ WritesAlone /\ DoneIsWhole /\ OutcomeIsWhole /\ SentIsWhole
  BY DEF ExecInit, UnmadeAreEmpty, WritesAlone, DoneIsWhole, OutcomeIsWhole, SentIsWhole
<1>5. ResultIsOneRun
  BY DEF ExecInit, StoreInit, ResultIsOneRun
<1> QED BY <1>1, <1>2, <1>3, <1>4, <1>5 DEF ExecInv, RowInv

LEMMA ExecInvStep == ExecInv /\ [ExecNext]_allVars => ExecInv'
  BY RowsInv, TypesStep, CountedStep, OwnStep, LeftStep, OneStep, UnmadeStep, AloneStep,
     DoneStep, OutcomeStep, SentStep, ResultStep
  DEF ExecInv

(* Types of the workers' stages, processes, disks, reports and results,    *)
(* and the rows keep one of their shapes.                                  *)
THEOREM ExecutionTypesCorrect == ExecSpec => [](ExecTypeOK /\ RowsConsistent)
<1>1. ExecInv => ExecTypeOK /\ RowsConsistent
  BY DEF ExecInv
<1> QED BY <1>1, ExecInvInit, ExecInvStep, PTL DEF ExecSpec

(* Whatever workers execute, abandon or report late, the rows move only by *)
(* the store's statements, so all that is proved of JobStore holds here.   *)
THEOREM ExecutionImplementsStore == ExecSpec => StoreSpec
<1>1. ExecInit => StoreInit
  BY DEF ExecInit
<1>2. ExecInv => ExecTypeOK
  BY DEF ExecInv
<1> QED BY <1>1, <1>2, ExecInvInit, ExecInvStep, ExecutionRows, PTL DEF ExecSpec, StoreSpec

(* For any jobs, workers, kinds, run length and number of disturbances:    *)
(* the result stored for a completed job is one whole run of an attempt    *)
(* that its row has counted, although reports arrive late and processes    *)
(* outlive their workers; a benchmark's, unless such a process was left    *)
(* behind with the same output.                                            *)
THEOREM ResultsAreWhole == ExecSpec => []ResultIsOneRun
<1>1. ExecInv => ResultIsOneRun
  BY DEF ExecInv
<1> QED BY <1>1, ExecInvInit, ExecInvStep, PTL DEF ExecSpec
=============================================================================
