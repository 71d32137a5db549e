# Quantum Animal Shogi: verification project

TLA+ models, TLC model-checking configurations and TLAPS proofs for the Quantum
Animal Shogi engine (C++17, `src/src`, `src/include`) and its distributed
evaluation cluster (Node master, MySQL, Redis, Python workers,
`src/evaluation`).  Paths below are relative to `src/`.

    tlc -workers 2 -config MCClusterSafety.cfg MCClusterWorker   # one run
    tlapm ClusterProofs.tla                                     # one proof module

## 1. The system and its parts

### Evaluation cluster

| Part | State it keeps | Operations | What is hard |
|---|---|---|---|
| Job store: `cluster_repository.mjs`, `001_cluster_orchestration.sql` | rows of `cluster_jobs` (status, worker, attempts, lease), `cluster_workers`, `cluster_job_events` | enqueue, claim, heartbeatJob, finish, cancel, requeueExpired | each is one statement or one transaction; nothing spans MySQL and Redis; no test of the statement order |
| Coordinator and queue: `cluster_queue.mjs`, `cluster_routes.mjs`, `server.mjs` | the Redis sorted set of waiting job ids; the requests in flight | one async handler per route, `hydrate` at start | handlers interleave at every `await`; a rejected call or a crash between the MySQL and the Redis step loses an id until the next `hydrate` |
| Worker: `cluster_worker.py`, `cluster_worker_support.py` | the job it executes, its child process | claim, heartbeat, complete, fail, sleep and retry | gives up on a request the master still executes; killed and restarted by its supervisor; two workers may run the same job after a lease ran out |
| Request validation: `cluster_contract.mjs` | none | checks of JSON fields | bounds of priorities and attempts |
| `database.mjs`, dashboard, Prometheus, nginx, deploy scripts | none of their own | I/O, configuration | nothing a model would show |

They interact as follows.  A client posts a job: the coordinator inserts the row
(MySQL), then adds its id to the sorted set (Redis).  A worker polls `claim`: the
coordinator pops ids one at a time, at most 25, and for each asks MySQL to move
the row from `queued` to `claimed` under row locks; ids it pops and cannot grant
are collected in `deferred` and re-added at the end.  The worker executes the
job, heartbeats (which extends the lease) and posts `complete` or `fail`; a
failed job with attempts left returns to `queued` and its id to Redis in a
second step.  `cancel` takes the id out of Redis first and then closes the row.
At start `hydrate` sweeps leases that have run out and re-adds every queued row
to Redis.

An evaluation reads its opponents from the version registry, copies them and the
candidate, and works through a list of tasks: probes, ctest, fixed-depth and timed
benchmarks, paired games.  Each game is a loop between the referee, which keeps
the position, and two engine processes, which see it as observations of the side
to move and answer with an action.  The cached results become summaries, the
summaries evidence, and the evidence a verdict; a promotion of the registry asks
for the report and the manifest that record it.

### Engine

| Part | State it keeps | Operations | What is hard |
|---|---|---|---|
| Rules: `src/rules/game.cpp` | board, positions, identity masks, owners, side, turn, terminal | `apply_move`, move generation, `propagate`, `validate_state` | a fixed order of seven phases; two propagations per capture; Catch, Try and draw decided by what the phases left |
| Identity solver: `src/core/quantum_state.cpp` | four masks | constrain, require, eliminate, measure_capture | all-or-nothing on contradiction |
| Exact equivalence: `src/exact/equivalence.cpp` | none | canonical keys of successors, classes of moves, the hint that triggers them | two moves may share a key only when they are interchangeable; a wrong merge shows only moves later |
| Search: `src/search/alpha_beta.cpp` | transposition table, killers, history, clock | iterative deepening, PVS, aspiration windows | results of an interrupted depth; mate scores through the table |
| Protocol: `src/io/protocol.cpp`, `src/main.cpp` | one state per line | rebuild a state from an observation, choose an action | fallback when search and environment disagree |
| `src/core/config.cpp`, `src/rules/state_text.cpp` | configuration, text format | parsing | input validation |

### Evaluation tools

| Part | State it keeps | Operations | What is hard |
|---|---|---|---|
| Run and self-play: `run_pipeline.py`, `run_selfplay.py` | `progress.json` (attempt, extension, completed tasks), `games.jsonl`, a move log per attempt | start, resume, extend, play, replay, record, report | three records of one game, written one after the other by a process that may be killed in between and is resumed with other parameters |
| Referee and sessions: `referee.py`, `native/referee_adapter.cpp` | the authoritative game; an engine process with two reader threads | load, apply; one request and one answer per move | the player to move always sees itself as South; late, missing or superfluous answers |
| Job execution: `cluster_worker.py` (`execute`, `_run_*`), `run_cluster_tournament.py` | output directories in the worker's workspace, a child process in a session of its own | the stages of a job | files an interrupted attempt leaves, its child process and its late reports meet the next attempt |
| Version registry: `version_registry.py`, `version_cli.py` | `versions/versions.json` (champion, anchor, entries), a directory of read-only artifacts per version | freeze, promote, verify, select_opponents | every command is a process of its own: it reads the file, works for minutes and writes it whole; interrupted it cleans up, killed it does not |
| Measurement: `run_performance.py`, `run_correctness.py`, the stages of `run_pipeline.py` | copies of the engines with pinned hashes, `run_config.json`, the cache of finished tasks in `progress.json`, a snapshot of the policy | create, resume, verify inputs, run a task, report | hours of work on files that anybody may alter meanwhile; results of several attempts are put together |
| Judgement: `summarize_results.py` (`classify_candidate`) | none | an ordered list of gates and one of eight classifications | which gate decides when evidence is missing, unstable or contradictory |
| Corpus, divergence analysis, statistics, report text | none between steps | | batch computations |

### What makes each part correct

* **Job store, coordinator**: a job's life is queued, held, then one final status
  that never changes; attempts never exceed the budget; a queued row is always
  known to somebody who will offer it; nothing is offered that has no row; the
  audit trail announces no end before it is there.
* **Worker**: one worker per attempt; the latest attempt is the one in the row; an
  acknowledged result is a completed job; a worker that lost its job stops; what
  it reports was computed by one whole run of one attempt.
* **Rules**: board, positions and hands agree; identity masks are exactly what the
  quotas allow; the candidate generator and `apply_move` agree; Catch and Try are
  awarded for what the rules say; every open position has a move.
* **Identity solver**: four masks carry the whole knowledge of the observations.
* **Protocol**: the engine's copy of the game is the game; neither fallback is used.
* **Search**: what the table and the answer say of the minimax value holds, after
  any cutoff, second search or interruption; announced mates are forced; every
  search ends.
* **Game of an evaluation**: an answer belongs to the request it is taken for; an
  engine loses only for what it did itself; the log replays to the position the
  result speaks of; every game ends, whatever the engines do.
* **Evaluation run**: the records of a game agree; recorded games replay; a report
  counts every game once; a run that is resumed gets to its report.
* **Measurement and judgement**: a candidate that was accepted deserves it, by the
  policy and by what it really is, whatever was altered, killed and resumed on the
  way; a resume repeats the verdict and never measures with another numbering.
* **Version registry**: two freezes never mix artifacts; the champion is whole,
  accepted and proven by a report about its executable and config; what was accepted
  is never changed; opponents that were selected are there.

## 2. Plan

Order of the modules (an arrow reads "builds on"):

1. `JobLifecycle` (abstract: what a client may rely on) <- `JobStore` (rows) <-
   `ClusterMaster` (handlers, Redis, crashes) <- `ClusterWorker` (processes,
   requests that outlive their sender), with `JobStoreProofs` and `ClusterProofs`.
   *Done.*
2. `Lineage` (identities and propagation) <- `Game` (rules engine), with
   `GameProofs`. *Done.*
3. `Identities` (abstract: a set of worlds) <- `QuantumState` (four masks), with
   proofs in `EngineProofs`. *Done.*
4. `Game` <- `Protocol` (referee and engine), with proofs in `GameProofs`. *Done.*
5. `EvaluationRun` (games of a run through kills, resumes and extensions) and
   `JobStore` <- `JobExecution` (stages of a job and the worker's disk), with
   `EvaluationProofs` and `JobExecutionProofs`. *Done.*
6. `GameTree` (minimax values) <- `Search` (iterative deepening with a deadline,
   scout and aspiration windows, the transposition table), with proofs in
   `EngineProofs`.  *Done.*
7. `EvaluationRun` <- `Match`: one game with its two engine processes, their
   queues, time-outs and failures; it implements `EvaluationRun` for one game.
   *Done*, with `MatchProofs`.
8. `VersionRegistry`: processes that freeze, promote, verify and select opponents
   at the same time.  *Done*, with proofs in `EvaluationProofs`.
9. `Verdict` (the gates) <- `Pipeline` (tasks, cache, verification of inputs,
   resume, report), with `PipelineProofs`.  *Done.*
10. `Game` <- `Canonical` (keys) <- `Equivalence` (classes and reduced lists) <-
    `ReducedGame`: a game beside the one a search with successor reduction
    follows, with proofs in `GameProofs`.  *Done.*
11. The lookup table of propagation as a bit-level module against `Lineage`; the
    divergence analysis and the selection of the corpus.

Every invariant that a run checks is proved (section 5), and so is every action
property and refinement; what is left to TLC is liveness.

## 3. The modules and the code

| Module | Its state | Its actions |
|---|---|---|
| `JobLifecycle` | `phase`, `owner`, `grants` of each job | submit, grant, release, cancel |
| `JobStore` | columns `status`, `holder`, `attempts`, `lease` of `cluster_jobs`, the known workers | one per SQL statement that writes them |
| `ClusterMaster` | `queue` (the sorted set), `call` (a request in flight, with a program counter and the locals of its handler), `sweep` (locals of hydrate), `trail` (last event of a job), `stranded` (history: ids a failed call dropped) | one per `await`: what follows an answer up to the next statement, plus start, hydrate, crash, a rejected call |
| `ClusterWorker` | `stage`, `task`, `attempt` of each process, `waitsFor` | poll, heartbeat, complete, fail, their answers, giving up, refused, kill, revive |
| `JobExecution` | `work` (position in `run_once`), `children` (processes started with `start_new_session`, which may outlive their worker), `outcome` (what was read when the child ended), `made` (directories), `records` (output files), `sent` (reports on their way), `result` (what the master stores); `attempt`, `orphaned` (history) | one per stage of `execute`; the child opens its output, writes a record, ends; a report is posted, served, given up; the disturbances |
| `Lineage` | none | operators: lineages, assignments, `Propagate` |
| `Game` | fields of `State`; owners and origins as functions | `ApplyMove`, with each phase of `apply_move_internal` an operator |
| `Identities`, `QuantumState` | a set of worlds; four masks | require, eliminate, observe, measure a capture |
| `Protocol` | `Game`'s variables, the engine's `State`, the message | Request (observe, parse, rebuild), Search, Apply |
| `Canonical`, `Equivalence` | none | operators: `CanonKey`, `Classes`, `Representative`, `HasDuplicateDropHint`, `MoveLists` |
| `ReducedGame` | `Game`'s variables and a second `State` of the same fields (`red*`), that of the search | a move in the game and the search's move for it |
| `EvaluationRun` | `progress.json`, `games.jsonl`, move logs, the process | start, resume, plan, play, each move and failure, record, mark, report, kill |
| `Match` | `pc` of `play_game`, `version` (the IDs of candidate and opponent), the two engine processes with their requests and the queue of what they printed, `snapshot` (the referee's position), `answer`, `moves.jsonl`, `game.json` | start of either session, request, `queue.Empty`, poll, kill, desynchronisation, refusal, apply, failure of the referee, end; an engine answers, prints nonsense or a stray line, dies |
| `Verdict` | none | operators: the gates of `classify_candidate`, `Classify`, the comparison of fixed-depth results |
| `Pipeline` | the files of a run (pinned, altered, restored), `cache`, `extension`, the process (`pc`, `stage`, `next`, `orders`), `report`, `manifest`; `putBack` (history) | create, resume, extend, verify, reuse or run a task, next stage, judge, write the manifest, kill, alter and put back a file |
| `VersionRegistry` | `registry` (versions.json), `directory` of each version, `cmd` (the command of a shell: program counter and locals); `overlapped` (history) | one per access to a file: load, mkdir, write one file, register, find, read, clean up one file, decide, reload, save; interrupt and kill |
| `GameTree` | none | the game's positions, moves and evaluations as constants; its minimax values |
| `Search` | `table`, `age`, `result`, the locals of `find_best_move` (`iter`), the frames of `search_root` and `negamax` (`stack`), `value` (what a call returned), `stopped`; `deepest` (history) | one per turn of a loop, call or return; a stop wherever `should_stop` is asked |

Masks are sets of animals, board squares are `0..11` and hand slots `12..19` as in
the code; `Protocol`'s actions are the code's `source * 12 + destination`.
`propagate` is one pass in `Lineage` where the code loops:
`PassIsIdempotent` is the reason, and `PassKeepsWorlds` says the pass loses
nothing.  The transaction of a repository method is one step, since InnoDB's row
locks make it one; everything separated by an `await` is two.  So is the `getJob`
that reads the row back after claim, heartbeat, finish and cancel (`ReadBack`): it
may come late, or reject although the change was committed.

Mutated operators (`RetryOnceMore`, `ResolvedNever`, ...) stand before the
definition they vary and are used by nothing: each is a plausible bug, and
replacing the definition by it makes a property fail.

## 4. What the runs check

| Run | Instance | Shows |
|---|---|---|
| `cluster_safety` | 1 job, 2 workers, 2 attempts, 2 requests at once, failing calls, crashes, time-outs, kills, requests without a listener | shape of rows, coverage of queued jobs, no entry without a row, audit trail; attempts have one worker, acknowledgements hold, `JobLifecycle` implemented |
| `cluster_served` | 2 jobs, one of which nobody can run; 2 workers, one of which can run the other job, twice; 2 requests at once, so that the claims of the workers compete; fair behaviours with kills, requests given up, cancellations and restarts | the eligible job is claimed once claims stop competing; a disowned worker stops |
| `lease_without_restart` | violation | see Findings |
| `execution` | a benchmark beside a tournament or an evaluation; 2 workers, one of them on Windows; 1 disturbance, 2 attempts; fair behaviours | a result is one whole run of an attempt the row counted, although child processes and reports of the earlier attempt meet the later one; one disturbance does not lose a benchmark |
| `play` | the real board: all games of 3 moves, and two given openings (14 and 6 moves) with every continuation of 3 and 2, between referee and engine; a reduced search follows the games after the second | consistency, generator, Catch, Try and draw; drops, promotion, captured Hens; the copy mirrors the game, same actions; the reduced search loses no successor and confuses no positions, its hint is exact |
| `identity_solver` | four pieces, every sequence of observations | masks are marginals and implement the worlds |
| `match` | a game of at most 4 moves with every kind of end, engines of one version or of two that die, are silent, print nonsense or one stray line | answers belong to their requests, no innocent version loses, logs replay, `EvaluationRun` implemented for one game, games end |
| `evaluation_resumed` | 1 opponent, 1 + 1 pairs, 2 plies, 3 starts | records agree, games replay, reports are whole, a resumed run is reported |
| `evaluation_extension` | violation | see Findings |
| `pipeline` | 10 candidates of different categories and natures, 1 opponent, 1 + 1 pairs, 2 disturbances | acceptances are deserved, resumes keep the numbering of records and the verdict, an unhindered run concludes |
| `registry` | 2 shells, 2 new version IDs, 3 builds of 2 programs, 4 commands | freezes own their directories; without overlapping writers the champion stays intact, selections succeed, accepted versions stay as they are |
| `search` | 11 positions in 5 turns, 3 ways to evaluate them and end their games, 3 plies, 2 searches, 5 sets of options | table and answers are true to minimax; mates are forced; every search ends |

The modules' type invariants are proved where there are proofs (`JobStore`,
`ClusterMaster`, `ClusterWorker`, `JobExecution`, `Game`, `QuantumState`, `Search`,
`EvaluationRun`, `Match`, `VersionRegistry`, `Pipeline`) and take no run of their own;
the turn's range, which the hash tables rely on, is part of `Game`'s.

**Bounds.**  Two requests race in `cluster_safety`: every pair of handlers meets at
every await, with a crash or a failed call between any two steps.  Races of three
requests are not run; the master's and the workers' properties are proved for any
number of them (section 5).  `cluster_served` has two jobs, for a claim that defers
one and grants another, and two handlers, for claims that compete; `PopLimit` is 2 in
place of 25, with one unrunnable job ahead of the eligible one.  Its liveness check is
kept small by what its instance leaves out (`CompetingSpec`): the second handler takes
only the claims of the worker that cannot run the jobs, the master crashes only while a
job is held and no call runs, a request is given up only while the second handler is
free, and only a job that is held is cancelled.  `EligibleJobIsServed` rests on a
premise (`Settled`): from some moment on nobody is down, no client submits, and no two
claims are between their first pop and their `recover` at once.  The last part is
needed: a claim keeps the ids it cannot grant in `deferred` until it ends, so the
claim of a worker that cannot run the job may hide it from the worker that can, again
and again.  Without that part TLC finds such a behaviour in `cluster_served`; the
workers' fairness does not exclude it, and no document does.  The run shows that
competition leaves nothing behind that would keep the job from being served
afterwards.

Two attempts let a job be retried once and fail once.  `play` uses the
real board and pieces; its turn limit is 17 in place of 256, so that the draw is
reached, and `FreeMoves` bounds the games without an opening and after the short one.
The number of positions TLC finds per move (1, 9, 79, 684) is that of the compiled
engine's own enumeration, and so is the number of those after the long opening
(5,292): the model and the engine generate the same positions.  That opening was
chosen because a piece of each kind of knowledge occurs in it: both hands filled, a
piece that may be a Hen, collapsed and uncollapsed masks; Catch and Try follow it as
well.  Deadlock is checked in `play`: every open position has a move, and the engine
refuses no observation.  In the runs of jobs and evaluations the system may stop (all
jobs ended; the report is written), so deadlock is not an error there.  A run with
three starts is killed twice, so a game can be recorded twice and a recorded game can
lose its mark twice; `MaxTroubles` bounds how often an execution is disturbed, below
the number of attempts; one is enough to leave a child process behind, and for a report
of the first attempt that is accepted while the second runs.  Jobs meet only where one
keeps a worker from another, so `execution` has two of them at a time
(`TwoJobsSpec`). `evaluation_extension` has the shape of
`promotion_test` in small: more pairs for the champion than for the anchor (200 and
100 there, on 249 openings; 2 and 1 on 3).

The game of `search` has transpositions inside one search and between a search
and the next, which starts two turns later (an answer and a reply), at the same
position again, or two turns earlier (a new game with the old table); five of the
table's six slots are shared by two positions.  Moves are tried in any order and
the search is stopped at any of its tests, a superset of the every-64-nodes
clock.  Three plies are
needed for a scout inside a node that another one cut off; the second search
is what meets entries of another root.  `deepest` records how far earlier
iterations looked: entries that reach less far than that may mix depths, since a
search may use entries that reach further, so the table's and the answer's
values are compared with minimax only at the furthest reach.  `MatesAreForced` holds for all
entries.  `MaxRetries` is 1 in place of 3, `AgeSpan` 2 in place of 256, and mate
scores keep the code's order of magnitudes (`StopMargin` < `Margin` < `Mate` <
`Infinity`).

In `match` there are two actions, of which the opening allows one and every later
position both, so that illegal answers occur; the horizon of four moves lets each
engine move twice, so a stray line after its first answer can meet its second
request.  Candidate and opponent have the same version ID or two different ones.
Games end in a Catch, in a Try, or at the horizon in a draw.

Successor reduction (`Equivalence`) needs hands to say anything: without two
captured pieces of one origin no two moves share a key.  In the second opening of
`play` South takes three pieces, two of which have shown the same, so that drops
merge, and one that is known, so that others must not.  After two free moves the
game and the search that follows it (`followed`) have different pieces in the same
places, and the properties still compare all their successors.  The preferred
move of a list is any move, since the table may hold any, and the gates of
`reduce_successors` on depth, time, number of moves and duplicates may open or not.

`pipeline` evaluates ten candidates: three deserve one of the acceptances each, one is
slow in searches too short to be timed and deserves to be accepted for its nodes, and
each of the others has one thing against it (a shallower timed search, weaker play,
other scores, a failing reference check, the champion's version ID, nothing gained).
The champion is the anchor, as in the shipped `versions/versions.json`, so there is
one opponent; there are two fixed-depth repetitions, since the order of the two sides
depends on their parity and an authoritative timing asks for both
(`MinimumRepetitions`), and one timed.  Two disturbances are enough for a file that is
altered and put back, for a kill between an alteration and its discovery, and for a
task that fails in one attempt with a kill that asks for another.  A fixed-depth
result is only called stable if two records of it agree (`FixedEvidence`).

In `registry` two shells and four commands let a freeze be interrupted while a
second one of the same ID waits at its mkdir, and a selection run while a freeze
fails and a promotion replaces the champion.  Two of the three builds have the same
program (executable and config) and differ in their companion, which is all that a
report does not bind.  Two files stand for the five of a
version (`Files`); the module has them written and removed one at a time.

**Fairness.**  Node resumes a handler whose statement has answered; Docker
restarts master and worker (`restart: unless-stopped`,
`evaluation/deploy/docker-compose.yml:10` and `:38`); a worker polls and retries
forever (`cluster_worker.py` main) and its requests time out after 30 s; strong
fairness of its requests says that a worker that keeps trying gets one of the
master's requests in the end.  No client need ask for anything and no child
process need end in `ClusterWorker`.  `execution` also assumes that child processes
end and that the master is restarted now and then, since only its start settles
leases (`Expire`).  `evaluation_resumed` assumes that the operator resumes an
unfinished run.  `match` assumes of the harness that it goes on, since each of
its waits has a time-out, and nothing of the engines.  `pipeline` assumes that
the process goes on and that the operator starts it, and resumes it until there
is a verdict.  `registry` has no liveness property.  `search` assumes of its
thread only that it goes on.

## 5. What is proved

All proofs are for every value of the constants that the named assumptions allow
(`StoreConstants`, `MasterConstants`, `WorkerConstants`, `ExecutionConstants`,
`LineageConstants`, `GameConstants`, `ProtocolConstants`, `QuantumConstants`,
`RunConstants`, `NoResultIsNone`, `MatchConstants`, `NothingIsNone`,
`RegistryConstants`, `PipelineConstants`, `ProfileConstants`, `VerdictConstants`,
`IntervalsTell`, `Positions`, `Scores`, `ValueIsMinimax`, `SearchConstants`), none of
which bounds the number of jobs, workers, requests, pieces, squares, games, positions,
searches, starts, shells, versions, opponents, kinds of benchmarks or repetitions.
`Scores` alone bounds the turns of a game, by the margin between mate scores and
evaluations, as the code does.

* **Job store** (`JobStoreProofs`): the shape of rows is inductive by itself;
  finality and the refinement of `JobLifecycle` follow step by step.
* **Master** (`ClusterProofs`, first part): types need the shape of each call (a
  program counter determines which locals are set).  With it every step of the
  master is a statement of `JobStore` or leaves the rows alone, so all results of
  the store carry over.  Coverage of queued jobs needs two facts beside itself: that
  nothing is in flight while the master is down, and that what hydrate has read is
  a superset of the queued rows until it is restored.  The audit trail needs that
  a call about to log a cancellation has cancelled.  `QueueAgreesWithRows` joins
  coverage and the absence of entries without a row into the property the runs
  check.
* **Cluster with its workers** (`ClusterProofs`, second part): every step of
  `ClusterNext` is a step of the master or leaves the master's variables alone
  (`ClusterImplementsMaster`), so the master's invariants hold however workers time
  out, lose answers, are killed and restarted.  What the workers themselves believe
  needs two more invariants.  `GrantInv` follows a granted attempt: it is in the
  call that was granted it or in the worker, two calls never carry the same attempt
  of a job, and whoever holds the attempt that the row counts is the row's worker
  as long as the row is held.  `AwaitInv` says that a worker waits for a
  call that serves it, and no two wait for the same one; it is needed where a worker
  takes over what its call was granted.  A grant may stay behind in a call nobody
  listens to, which is why the invariant speaks of calls and not of workers only.
  From them follow `AttemptsAreExecutedOnce`, `LatestAttemptIsHolder` and
  `AcknowledgementsAreTrue`.
* **Job execution** (`JobExecutionProofs`): `ExecInv`.  An attempt has at most one
  child process (`OnePerAttempt`), whose worker waits for it (`OwnIsAwaited`) unless
  it was left behind (`LeftBehind`).  A tournament's output belongs to the attempt
  that made the directory: one that was not made holds nothing (`UnmadeAreEmpty`), and
  a second process with the same output fails in `mkdir`.  A benchmark truncates its
  file, and shares it with no process unless one was left behind; otherwise whoever
  writes writes alone (`WritesAlone`).  An evaluation's newest report comes last.  So
  what a process has written when it ends is whole (`DoneIsWhole`), and the same holds
  of what its worker has read (`OutcomeIsWhole`), of every report on its way, however
  late (`SentIsWhole`), and of what the master stores.  Attempts only grow
  (`AttemptsCounted`), so a late report speaks of one that the row has counted; it
  need not be the last, since `finish` asks for the worker only.
* **Rules** (`GameProofs`, the lemmas on `Lineage` first): `GameInv` joins types, an
  open game below the turn limit, agreement of board and positions, settled masks,
  consistency of promotion, and that Lion candidates of an open game stay on the
  board with their first owner.  That last part is the only one that needs the
  end-of-game test: a captured piece that may be the Lion ends the game at once.
  From it follow that both sides keep a Lion and that a Catch takes the last one.
  `CandidatesAreLegal` says that the legality filter after the pseudo-legal
  generator never rejects a candidate.  `PositionStaysSound` and `WinsAreDeserved`
  join these facts into the two properties the runs check.
* **Referee and engine** (`GameProofs`, from "Renumberings" on): two states are
  *twins* if they are one game under other numbers of its pieces, seen by either
  player: a renaming that turns the origins as a seat sees them takes the board,
  turned half around for North, the positions, the masks, the owners and the clock
  of one to those of the other (`Twin`).  Every phase of `apply_move` commutes with
  it (`TwinAdmissible`, `TwinMasks`, `TwinAfter`; propagation by
  `PropagateRenamed`), so twins have the same moves and stay twins.  An observation
  numbers the pieces anew, and `RebuildMirrors` shows that what the engine builds from
  it is a twin whose hand slots agree as well (`ExactTwin`), which the codes of
  actions need.  `CopyInv` says that the copy is such a twin of the game between
  messages, and, once the engine has answered, of the game as the answer will leave
  it.  `EngineAlwaysSeesTheGame` follows, and `RefereeKeepsTheRules`: whatever the
  engine answers, the referee's game is a behaviour of `GameSpec`.  Only these use
  `ProtocolConstants` (`kPiecesPerOrigin`, pieces numbered by origin).
* **Successor reduction** (`GameProofs`, from "Keys" on): states of one key are
  twins seen from South and the other way round (`KeyTwins`, `TwinKeys`), because equal
  bags of tuples are a bijection of the pieces of each origin (`CountsMatch`).
  `ReducedInv` says that the position of a search that follows the game
  (`ReducedSpec`) is a twin of it: what it follows with has the key of what was
  played.  Twins lead to the same keys (`TwinLeads`), so no successor is lost
  (`ReductionStaysExact`).  For `HintStaysExact`, two hand pieces that look the same
  may be swapped, which is a twin of the game with itself, and there is always a
  square to drop them on (`RoomForDrop`); conversely a move on the board shares its key
  with no other (`BoardMoveIsAlone`) and a drop changes no mask (`DropKeepsMasks`).
* **Identity solver** (`EngineProofs`, first part): masks are the marginals of the worlds
  they allow; with `NormalizeKeepsAssignments` every operation implements its
  abstract one on the set of worlds.
* **Search** (`EngineProofs`, second part): the three properties hold for any game of
  bounded length, any evaluation without mate scores, any slots of the table, any
  options and windows, any order of moves and of questions, and a stop at any node.
  First the values alone.  A mate that is forced within k plies stays forced at every
  greater depth (`MatesPersist`, by a least counterexample, `MatesWithin`), so a mate
  found at one depth may be used at another.  Every value announces a mate only
  within the turns that are left (`ValueScores`), which keeps a mate score apart
  from an evaluation at whatever ply it is counted (`TableScores`, `BackScores`).
  Then bounds of moves become bounds of their position: one move that the opponent
  can hold to v is worth at least the score of v one ply up (`MoveBounds`), and if
  every reply allows at least v, nothing better exists (`AllMovesBound`).  Each
  bound carries two claims (`AtLeast`, `AtMost`): the mate it announces is forced,
  always, and it bounds the minimax value if it looks as far as `Seen`.  The second
  part cannot be claimed of entries that look less far: a search below `Seen` may take the
  score of an entry that looks further than it needs.
  `SearchInv` gives these claims to everything under way.  `EntriesSound`: each entry
  makes the claims of its bound, and looks no further than `Seen`.  `StackSound`:
  a frame's best bounds the moves it has tried and, once it has beaten the original
  alpha, the position (`Working`); a frame that waits knows the same without the
  move it waits for (`Waiting`); the frame it has called has the window it opened,
  narrowed only by an entry (`Link`); and what is returned is a lower bound if it
  exceeds that window and an upper bound if it falls short of it (`Answers`), also
  after a null window.  One lemma per step of a frame (`AbsorbWorks`, `DoneBounds`,
  `NarrowedSound`, `EntryAnswers`) and one per way the stack changes (`StackTop`,
  `StackPushed`, `StackPopped`, `StackCleared`) leave one short lemma per action.
  `TableStaysSound`, `AnswersAreMinimax` and `MatesStayForced` follow.
* **Version registry** (`EvaluationProofs`, first part): directories first, without any
  restriction: a freeze owns the directory of its version ID from its mkdir to its
  end, and at most one freeze does, because an owner's directory exists and mkdir
  needs that there is none.  The types need this: a file is added only to a
  directory that is there.  The other three properties hold until two writers
  overlap.  Up to then what a writer has read is what it overwrites, a freeze works
  on an ID that is not accepted, and what a promotion verified is still so when it
  saves (`Knows`); every step then keeps what was accepted, from which all three
  follow.  A promotion compares the report with the program of the build, not with its
  companion, and `ChampionIntact` claims no more.
* **Evaluation run** (`EvaluationProofs`, second part): `RunInv` for any number of
  opponents, pairs, plies and starts.  `FilesAgree` has the files agree with each
  other and with what the process remembers of them.  A recorded line goes on
  replaying because no later game writes into its log: the log of an attempt not yet
  made is empty, and the present attempt has one only for completed games and the one
  in play (`LogsAreFresh`), whose length is the number of plies played (`GameInPlay`).
  A report counts what the last line of each planned game says, which the marks in
  progress.json agree with (`ReportsAreWhole`).
* **Game of an evaluation** (`MatchProofs`): `MatchInv`.  `InStep` says that, unless
  an engine has printed a stray line, what it still owes is what the referee asked
  last; `FaultsKnown` that whatever the referee will blame an engine for has
  happened; `PlayInv` that the log is a legal game up to the referee's position.
  Who is charged and who wins is told by version, so what the properties say of
  candidate and opponent holds if the two have different versions (`Distinguished`).
  `AnswersAreInStep`, `ForfeitsAreDeserved` and `GamesReplay` follow for any game
  tree, and with them `GameIsImplemented`: a match is one game of `EvaluationRun`.

* **Pipeline and verdict** (`PipelineProofs`): the lists of tasks first.
  `FlattenSequences` says what a list of lists put together contains, for which the
  recursive function in `FlattenSeq` is shown to exist by a least counterexample
  (`JoinedExists`); `MatrixMembers` says that the loops of the benchmarks plan
  exactly one job for every opponent, kind, repetition and engine.  `PipelineInv`
  then has four parts: types; where the process is (`ProcessInv`); every task of
  the stages passed, and of this one so far, has a result (`CompleteInv`); a
  benchmark's record is that of a planned job, of the engine the job is for, with
  the job's place as its order (`PlacedInv`).  `OrdersStayUnique` follows from the
  last.  `VerdictsStand` needs `StandsInv`: a verdict on all pairs there are is
  `Classify` of the evidence there is, and once every task has a result nothing
  changes the evidence but an extension, which adds pairs.  `AcceptancesAreDeserved`
  needs `PureInv`: unless an altered file was put back, one look at the pinned
  files before the verdict (`Verify`) vouches for everything measured before it.
  From pure and complete evidence each gate says something of the candidate
  itself: a pair of games is complete only under an ID of its own, so the costs and
  the fixed-depth comparison are not the champion's against itself
  (`RecordBelongs`, `ComparisonSees`), and every repetition left a record of its
  own, so an acceptance skips the timing gate only when the searches are too short
  to be timed (`RepetitionsCount`).

What the pipeline's assumptions rest on: that every profile asks for games against
the anchor (`VerdictConstants`) and that one which may accept repeats its
benchmarks often enough for an authoritative timing (`ProfileConstants`) can be
read off `evaluation_profiles.json`: `strength_candidate` and `promotion_test` are
the two that state permissions, and others inherit theirs.  `ProfileConstants` is
needed: with fewer repetitions `NonRegression` does not ask for time at all, and a
performance upgrade could be accepted for its nodes however slow it is.  For searches
that do not last `minimum_sample_duration_ms` the program does just that, so
`Deserves` asks nothing of their time (`measurable`).  `IntervalsTell` is what *weaker*,
*equal* and *stronger* mean here, namely what the required number of pairs shows;
how often a sample misleads is outside the model.  Costs count as measured without
noise.

What the search's assumptions rest on: a game is drawn at turn 256 (`kTurnLimit`),
so `Longest` is 257, below `kMateScoreMargin` = 512; `evaluate` clamps nothing, and
that it gives no mate scores is a matter of its weights.  `SearchConstants` leaves
out a `max_depth` beyond the longest game.

Only model-checked: liveness (`EligibleJobIsServed`, `DisownedWorkerStops`,
`BenchmarksSurviveTrouble`, `GameEnds`, `RunIsReported`, `RunConcludes`,
`SearchEnds`) and freedom from deadlock, since fairness and ENABLED are outside the
prover.  The minimax values
of `GameTree` are recursive; that they are computed right is compared with their
equations by TLC (`ValueIsMinimax`).

## 6. Findings

1. **Leases are not returned while the master runs** (`lease_without_restart`).
   docs/distributed_evaluation.md:32 and :107 promise that a job whose worker is
   gone returns to the queue; only `hydrate`, at start, does it.
2. **The recommended extension can be too large** (`evaluation_extension`).
   evaluation/README.md:198-200 promises that an inconclusive report prints an exact
   command when strength extension is applicable.  The count printed is the largest
   that any opponent asks for, bounded by the openings left for *that* opponent, but
   it is added to the pairs of every opponent.  Under `promotion_test` the anchor (100
   pairs of 249 openings) may ask for 149 more, which the champion's 200 pairs leave no
   openings for: the command fails, and since the extension is saved first, so does
   every later resume.  (A pair lost to an engine failure has the same effect, but
   such a run is rejected, not inconclusive.)
Other observations, met while modelling; no run is devoted to them.

* A Try may succeed with a Lion that the reply could have captured but did not.
  docs/RULE_GAME.md:58 excludes it; docs/04_STATE_AND_MOVE_RULES.md:33-39 describes the
  code's rule and forbids the other test, so the documents disagree.  `EndingsDeserved`
  is about the latter rule; on the games of `play` TLC refutes the former within
  seconds.
* Games tell their engines apart by version ID (`run_selfplay.py:205-211`, `:237-240`).
  Between engines of one ID every failure is charged to the candidate and every
  decisive game is recorded as its win.  `summarize_games` then finds no complete pair
  (`engine_first == candidate_id` holds for both games), so such scores never enter
  the sample, but the failures do.
* A late `complete` of the same worker's earlier attempt ends the current attempt
  (`finish` compares the worker only), and the child process of a killed worker
  goes on (`start_new_session`): what it writes gets into the CSV file of a
  benchmark's next attempt (`orphaned`).
* Two workers that poll in step can hide a job from the one that can run it
  (`deferred`, see Bounds).
* A kill between `games.jsonl` and `progress.json` makes the resume replay a
  finished game; the second result replaces the first.
* An interrupted tournament leaves its output directory, which makes all later
  attempts on the same worker fail.
* When the second engine cannot be started, the process of the first outlives its
  game (`run_selfplay.py:107`).
* Registry: two writers that overlap lose the update of one (`overlapped`).  A
  freeze interrupted in its last verification leaves an entry without a
  directory, and one that is killed a directory without an entry; either way the
  ID cannot be used again.  A report may be promoted although the champion it
  measured has been replaced since.  When git fails, the worktree counts as clean.
* Pipeline: `classify_candidate` has a gate for divergences, but
  `run_pipeline.py:1347` passes none, so it is always open.  A failed probe is
  cached like a result, so every resume ends with its error.  ctest runs in
  `--build-dir`, not in the snapshot.  Failed timed benchmarks stop no candidate
  whose category does not ask for them.  A better lower bound of the score can
  turn an equivalent replacement into an inconclusive one.
* A file that is altered and put back between two verifications goes unnoticed
  (`putBack`).

## 7. What is not modelled

Text: JSON, command lines, request validation, formatted reports and CSV files, state
text, configuration, database bootstrap.  Time other than leases and time-outs.
Statistics: a confidence interval is a function of the pairs and of the candidate's
strength, and the noise floor of a timing is taken as zero. Zobrist hashes and metrics
of the engine (derived from the state), `undo_move` (restores a copy).  Lock order
inside MySQL (a rejected statement is modelled). Torn writes of a single line, and
exceptions of the operating system (a full disk, a pipe, a signal that does not reach
its process).  Dashboards and deployment files, beyond the restart policy. The
evaluation function and the move ordering of the search: both are open in `Search`
(any evaluation, any order).  In a resume, opponents missing from the run's directory
are restored from the registry; `Pipeline` has no missing files. The hash of a
canonical key and its packing into bits: keys are compared field by field.  The
divergence analysis (which decides nothing) and the selection of the corpus are
planned (section 2).
