-------------------------------- MODULE Match --------------------------------
(***************************************************************************)
(* One game of an evaluation: play_game and replay_game of run_selfplay.py *)
(* with the processes of referee.py they talk to.                          *)
(*                                                                         *)
(* An engine is a process that answers a request line on its standard      *)
(* output with one line.  A thread of the harness puts whatever it prints  *)
(* into a queue; a request writes a line, waits for one line of the queue  *)
(* until the hard time-out, waits 10 ms more and looks whether the queue   *)
(* is empty.  Nothing in a line says which request it answers.             *)
(*                                                                         *)
(* The referee is trusted: it knows the legal actions and the verdict of   *)
(* every position, or fails.  A position is the sequence of actions that   *)
(* led to it from the opening.                                             *)
(***************************************************************************)
EXTENDS Naturals, Sequences, FiniteSets

CONSTANTS
  Action,
  NotInteger,   \* a line that is not one canonical integer
  Nothing,
  VersionId,    \* what an engine can be registered or named as
  Horizon,      \* remaining_horizon of the opening
  Legal,        \* [Position -> SUBSET Action]: legal_actions
  Verdict,      \* [Position -> Outcome]: terminal and winner
  MaxStrays     \* bound: lines an engine prints without being asked

Position == UNION {[1 .. n -> Action] : n \in 0 .. Horizon}
Seat == {"first", "second"}
Outcome == [terminal : {"none", "catch", "try", "draw"}, winner : Seat \cup {Nothing}]

(* The opening is not terminal, and the horizon ends every game. *)
ASSUME MatchConstants ==
  /\ Horizon \in Nat \ {0}
  /\ MaxStrays \in Nat
  /\ NotInteger \notin Action
  /\ Nothing \notin Action \cup {NotInteger} \cup Position \cup Seat \cup VersionId
  /\ Legal \in [Position -> SUBSET Action]
  /\ Verdict \in [Position -> Outcome]
  /\ Verdict[<<>>].terminal = "none"
  /\ \A p \in Position :
       /\ Len(p) = Horizon => Verdict[p].terminal # "none"
       /\ (Verdict[p].winner = Nothing) <=> (Verdict[p].terminal \in {"none", "draw"})

VARIABLES
  pc,        \* where play_game is
  version,   \* version_id of either engine; nothing keeps them apart
  first,     \* engine_first: the one that moves in the opening
  engine,    \* the two processes and what they have printed
  snapshot,  \* the referee's position
  answer,    \* the line request_action took from the queue
  moves,     \* moves.jsonl
  result     \* game.json

matchVars == <<pc, version, first, engine, snapshot, answer, moves, result>>

Engine == {"candidate", "opponent"}
Other(e) == IF e = "candidate" THEN "opponent" ELSE "candidate"

(* What an engine prints; for is the request it answers.  fault is the     *)
(* history of the process: it did anything but answer its requests, each   *)
(* with one line that is a legal action.                                   *)
Line == [for : Position \cup {Nothing}, text : Action \cup {NotInteger}]
Process ==
  [alive : BOOLEAN, asked : Seq(Position), output : Seq(Line), strays : 0 .. MaxStrays,
   fault : BOOLEAN]

NotStarted == [alive |-> FALSE, asked |-> <<>>, output |-> <<>>, strays |-> 0, fault |-> FALSE]

Failure ==
  {"process_crash", "external_timeout", "malformed_output",
   "protocol_desynchronization", "illegal_action"}

MatchInit ==
  /\ pc = "start"
  /\ version \in [Engine -> VersionId]
  /\ first \in Engine
  /\ engine = [e \in Engine |-> NotStarted]
  /\ snapshot = <<>>
  /\ answer = Nothing
  /\ moves = <<>>
  /\ result = Nothing

EngineAt(seat) == IF seat = "first" THEN first ELSE Other(first)
SeatToMove == IF Len(snapshot) % 2 = 0 THEN "first" ELSE "second"

(* _engine_for_side *)
Mover == EngineAt(SeatToMove)

-----------------------------------------------------------------------------
(* The engines. *)

Answer(e) ==
  /\ engine[e].alive
  /\ engine[e].asked # <<>>
  /\ LET request == Head(engine[e].asked) IN
     \E text \in Action \cup {NotInteger} :
       engine' = [engine EXCEPT
         ![e].asked = Tail(@),
         ![e].output = Append(@, [for |-> request, text |-> text]),
         ![e].fault = @ \/ text \notin Legal[request]]
  /\ UNCHANGED <<pc, version, first, snapshot, answer, moves, result>>

Stray(e) ==
  /\ engine[e].alive
  /\ engine[e].strays < MaxStrays
  /\ \E text \in Action \cup {NotInteger} :
       engine' = [engine EXCEPT
         ![e].strays = @ + 1,
         ![e].output = Append(@, [for |-> Nothing, text |-> text]),
         ![e].fault = TRUE]
  /\ UNCHANGED <<pc, version, first, snapshot, answer, moves, result>>

Crash(e) ==
  /\ engine[e].alive
  /\ engine' = [engine EXCEPT ![e].alive = FALSE, ![e].fault = TRUE]
  /\ UNCHANGED <<pc, version, first, snapshot, answer, moves, result>>

-----------------------------------------------------------------------------
(* The harness. *)

(* EngineSession(...) for the first engine, then for the second: both      *)
(* before the try, so that nobody closes the first one when the second     *)
(* executable cannot be started.                                           *)
StartFirst ==
  /\ pc = "start"
  /\ \/ /\ engine' = [engine EXCEPT ![first].alive = TRUE]
        /\ pc' = "start second"
     \/ /\ pc' = "raised"
        /\ UNCHANGED engine
  /\ UNCHANGED <<version, first, snapshot, answer, moves, result>>

StartSecond ==
  /\ pc = "start second"
  /\ \/ /\ engine' = [engine EXCEPT ![Other(first)].alive = TRUE]
        /\ pc' = "load"
     \/ /\ pc' = "raised"
        /\ UNCHANGED engine
  /\ UNCHANGED <<version, first, snapshot, answer, moves, result>>

(* referee.load of the opening *)
Load ==
  /\ pc = "load"
  /\ pc' = "ask"
  /\ UNCHANGED <<version, first, engine, snapshot, answer, moves, result>>

(* request_action, first part: a dead process is noticed at once. *)
Ask ==
  /\ pc = "ask"
  /\ engine[Mover].alive
  /\ engine' = [engine EXCEPT ![Mover].asked = Append(@, snapshot)]
  /\ pc' = "wait"
  /\ UNCHANGED <<version, first, snapshot, answer, moves, result>>

(* The line at the head of the queue is the answer. *)
Get ==
  /\ pc = "wait"
  /\ engine[Mover].output # <<>>
  /\ answer' = Head(engine[Mover].output)
  /\ engine' = [engine EXCEPT ![Mover].output = Tail(@)]
  /\ pc' = "settle"
  /\ UNCHANGED <<version, first, snapshot, moves, result>>

Move(status, action, after) ==
  [before |-> snapshot, engine |-> version[Mover], status |-> status, action |-> action,
   after |-> after,
   outcome |-> IF after = Nothing THEN Nothing ELSE Verdict[after]]

Valid(log) == {i \in DOMAIN log : log[i].status = "valid_response"}

(* game.json, for a game that ended in position p with this log.  It names *)
(* engines by their version.                                               *)
Result(p, log, terminal, winner, points, failed, status) ==
  [terminal |-> terminal,
   winner |-> winner,
   candidate_result |-> points,
   failed |-> failed,
   status |-> status,
   total_plies |-> Len(log),
   total_actions |-> Cardinality(Valid(log)),
   final |-> IF p = <<>> THEN Nothing ELSE p,
   valid_strength_game |-> terminal \in {"catch", "try", "draw"}]

(* The side whose version this is: the candidate when both have one. *)
SideOf(v) == IF v = version["candidate"] THEN "candidate" ELSE "opponent"

(* What the candidate gets when the other version, or this one, wins. *)
PointsAgainst(v) == IF SideOf(v) = "candidate" THEN "loss" ELSE "win"
PointsFor(v) == IF SideOf(v) = "candidate" THEN "win" ELSE "loss"

(* The game is lost by version v. *)
LostBy(v, status, action) ==
  /\ moves' = Append(moves, Move(status, action, Nothing))
  /\ result' = Result(snapshot, moves', "forfeit", version[Other(SideOf(v))],
                      PointsAgainst(v), v, status)
  /\ answer' = Nothing
  /\ pc' = "close"

(* Mutant of Forfeit: the failure is charged to engine_first. *)
ForfeitFirst(status, action) == LostBy(version[first], status, action)

(* The engine to move fails: the move is logged and its version has lost. *)
Forfeit(status, action) == LostBy(version[Mover], status, action)

CrashNoticed ==
  /\ pc = "ask"
  /\ ~engine[Mover].alive
  /\ Forfeit("process_crash", Nothing)
  /\ UNCHANGED <<version, first, engine, snapshot>>

(* Mutants of QueueEmpty: the request is repeated; only a dead process     *)
(* ends the wait.                                                          *)
QueueEmptyRepeats ==
  /\ pc = "wait"
  /\ engine[Mover].output = <<>>
  /\ pc' = "ask"
  /\ UNCHANGED <<version, first, engine, snapshot, answer, moves, result>>
QueueEmptyOfDead ==
  /\ pc = "wait"
  /\ engine[Mover].output = <<>>
  /\ ~engine[Mover].alive
  /\ pc' = "expired"
  /\ UNCHANGED <<version, first, engine, snapshot, answer, moves, result>>

(* The time-out: get raises queue.Empty.  The engine may still answer, or  *)
(* end, before it is looked at and before it is killed.                    *)
QueueEmpty ==
  /\ pc = "wait"
  /\ engine[Mover].output = <<>>
  /\ pc' = "expired"
  /\ UNCHANGED <<version, first, engine, snapshot, answer, moves, result>>

(* poll() after the time-out: the process has ended, or is to be killed.   *)
PollDead ==
  /\ pc = "expired"
  /\ ~engine[Mover].alive
  /\ Forfeit("process_crash", Nothing)
  /\ UNCHANGED <<version, first, engine, snapshot>>

PollAlive ==
  /\ pc = "expired"
  /\ engine[Mover].alive
  /\ pc' = "kill"
  /\ UNCHANGED <<version, first, engine, snapshot, answer, moves, result>>

(* terminate_process_tree, and the game is lost on time. *)
KillLate ==
  /\ pc = "kill"
  /\ engine' = [engine EXCEPT ![Mover].alive = FALSE]
  /\ Forfeit("external_timeout", Nothing)
  /\ UNCHANGED <<version, first, snapshot>>

Malformed ==
  /\ pc = "settle"
  /\ answer.text = NotInteger
  /\ Forfeit("malformed_output", Nothing)
  /\ UNCHANGED <<version, first, engine, snapshot>>

(* Another line within 10 ms of the first. *)
Desynchronized ==
  /\ pc = "settle"
  /\ answer.text # NotInteger
  /\ engine[Mover].output # <<>>
  /\ Forfeit("protocol_desynchronization", answer.text)
  /\ UNCHANGED <<version, first, engine, snapshot>>

Clean == pc = "settle" /\ answer.text # NotInteger /\ engine[Mover].output = <<>>

Illegal ==
  /\ Clean
  /\ answer.text \notin Legal[snapshot]
  /\ Forfeit("illegal_action", answer.text)
  /\ UNCHANGED <<version, first, engine, snapshot>>

(* The record of a game that ended on the board, won by engine e if at all. *)
Won(p, log, outcome, e) ==
  IF outcome.winner = Nothing
  THEN Result(p, log, outcome.terminal, Nothing, "draw", Nothing, Nothing)
  ELSE Result(p, log, outcome.terminal, version[e], PointsFor(version[e]), Nothing, Nothing)

(* Mutant of Apply: the winning side is taken for the candidate's when it  *)
(* moved first.                                                            *)
ApplyForFirst ==
  /\ Clean
  /\ answer.text \in Legal[snapshot]
  /\ LET after == Append(snapshot, answer.text)
         outcome == Verdict[after]
     IN /\ moves' = Append(moves, Move("valid_response", answer.text, after))
        /\ snapshot' = after
        /\ IF outcome.terminal = "none"
           THEN pc' = "ask" /\ UNCHANGED result
           ELSE /\ pc' = "close"
                /\ result' = Won(after, moves', outcome,
                     IF outcome.winner = "first" THEN "candidate" ELSE "opponent")
  /\ answer' = Nothing
  /\ UNCHANGED <<version, first, engine>>

(* A legal answer: the referee applies it, the move is logged. *)
Apply ==
  /\ Clean
  /\ answer.text \in Legal[snapshot]
  /\ LET after == Append(snapshot, answer.text)
         outcome == Verdict[after]
     IN /\ moves' = Append(moves, Move("valid_response", answer.text, after))
        /\ snapshot' = after
        /\ IF outcome.terminal = "none"
           THEN pc' = "ask" /\ UNCHANGED result
           ELSE /\ pc' = "close"
                /\ result' = Won(after, moves', outcome, EngineAt(outcome.winner))
  /\ answer' = Nothing
  /\ UNCHANGED <<version, first, engine>>

(* Mutant of RefereeFails: the answer is logged before it is applied. *)
RefereeFailsLogged ==
  /\ \/ pc = "load"
     \/ Clean /\ answer.text \in Legal[snapshot]
  /\ moves' = Append(moves, Move("valid_response", Nothing, Nothing))
  /\ result' = Result(snapshot, moves', "referee_failure", Nothing, "draw", Nothing,
                    "referee_failure")
  /\ answer' = Nothing
  /\ pc' = "close"
  /\ UNCHANGED <<version, first, engine, snapshot>>

(* A time-out, an exit or an error answer of the referee, in load or in    *)
(* apply: the engine's answer is not logged.                               *)
RefereeFails ==
  /\ \/ pc = "load"
     \/ Clean /\ answer.text \in Legal[snapshot]
  /\ result' = Result(snapshot, moves, "referee_failure", Nothing, "draw", Nothing,
                    "referee_failure")
  /\ answer' = Nothing
  /\ pc' = "close"
  /\ UNCHANGED <<version, first, engine, snapshot, moves>>

(* finally: both sessions are closed, which kills the processes. *)
Close ==
  /\ pc = "close"
  /\ engine' = [e \in Engine |-> [engine[e] EXCEPT !.alive = FALSE]]
  /\ pc' = "ended"
  /\ UNCHANGED <<version, first, snapshot, answer, moves, result>>

(* Ctrl-C is no Exception: the finally clause runs and there is no game. *)
Interrupt ==
  /\ pc \in {"load", "ask", "wait", "expired", "kill", "settle", "close"}
  /\ engine' = [e \in Engine |-> [engine[e] EXCEPT !.alive = FALSE]]
  /\ pc' = "raised"
  /\ UNCHANGED <<version, first, snapshot, answer, moves, result>>

Harness ==
  \/ StartFirst \/ StartSecond \/ Load \/ Ask \/ CrashNoticed
  \/ Get \/ QueueEmpty \/ PollDead \/ PollAlive \/ KillLate
  \/ Malformed \/ Desynchronized \/ Illegal \/ Apply \/ RefereeFails \/ Close

MatchNext == Harness \/ Interrupt \/ \E e \in Engine : Answer(e) \/ Stray(e) \/ Crash(e)

(* The harness runs on, since every wait of it has a time-out; nothing is  *)
(* assumed of the engines.                                                 *)
MatchSpec == MatchInit /\ [][MatchNext]_matchVars /\ WF_matchVars(Harness)

-----------------------------------------------------------------------------
(* The game as EvaluationRun sees it: the first game of the first attempt  *)
(* of a run, of which only the number of plies and the ending matter.      *)

TheGame == <<1, 0, "candidate_first">>

Run == INSTANCE EvaluationRun WITH
  Opponents <- 1, BasePairs <- <<1>>, MinimumPairs <- <<0>>, Openings <- 1, MaxPlies <- Horizon,
  MaxStarts <- 2, Extending <- FALSE, NoResult <- Nothing,
  currentAttempt <- 1,
  extensionPairs <- 0,
  completed <- [g \in {1} \X {0} \X {"candidate_first", "candidate_second"} |-> Nothing],
  existing <- [g \in {1} \X {0} \X {"candidate_first", "candidate_second"} |-> Nothing],
  games <- <<>>,
  log <- [d \in ({1} \X {0} \X {"candidate_first", "candidate_second"}) \X (1 .. 2) |->
            IF d = <<TheGame, 1>> THEN Len(moves) ELSE 0],
  report <- Nothing,
  pc <- CASE pc = "raised" -> "off"
          [] pc \in {"close", "ended"} -> "ended"
          [] OTHER -> "playing",
  attempt <- IF pc = "raised" THEN 0 ELSE 1,
  game <- IF pc = "raised" THEN Nothing ELSE TheGame,
  plies <- IF pc = "raised" THEN 0 ELSE Len(moves),
  ending <- IF pc = "raised" \/ result = Nothing THEN Nothing
            ELSE IF result.valid_strength_game THEN "valid"
            ELSE IF result.terminal = "forfeit" THEN "engine_failure"
            ELSE "referee_failure"

-----------------------------------------------------------------------------
Status == Failure \cup {"valid_response"}

MoveRecord ==
  [before : Position, engine : VersionId, status : Status,
   action : Action \cup {NotInteger, Nothing}, after : Position \cup {Nothing},
   outcome : Outcome \cup {Nothing}]

GameRecord ==
  [terminal : {"catch", "try", "draw", "forfeit", "referee_failure"},
   winner : VersionId \cup {Nothing}, candidate_result : {"win", "draw", "loss"},
   failed : VersionId \cup {Nothing}, status : Failure \cup {"referee_failure", Nothing},
   total_plies : 0 .. Horizon, total_actions : 0 .. Horizon,
   final : Position \cup {Nothing}, valid_strength_game : BOOLEAN]

ASSUME NothingIsNone == Nothing \notin GameRecord

MatchTypeOK ==
  /\ pc \in {"start", "start second", "load", "ask", "wait", "expired", "kill", "settle",
             "close", "ended", "raised"}
  /\ version \in [Engine -> VersionId]
  /\ first \in Engine
  /\ engine \in [Engine -> Process]
  /\ snapshot \in Position
  /\ answer \in Line \cup {Nothing}
  /\ moves \in Seq(MoveRecord)
  /\ result \in GameRecord \cup {Nothing}

(* An engine is never taken by its word about another position: the action *)
(* applied in a position is what the engine printed as its answer to the   *)
(* request for that position, in whatever order lines, time-outs and       *)
(* requests came.  The exception is exact: an engine that printed a line   *)
(* nobody asked for, later than 10 ms after its answer.                    *)
AnswersMatchRequests ==
  pc = "settle" =>
    \/ answer.for = snapshot /\ engine[Mover].asked = <<>>
    \/ engine[Mover].strays > 0

(* The engines have names of their own.  Nothing makes sure of it.          *)
Distinguished == version["candidate"] # version["opponent"]

(* The answer to the request for the last position was still not in the    *)
(* queue when the time-out expired: it never came, or is still there.      *)
AnswersLate(e) ==
  \/ engine[e].asked # <<>>
  \/ \E i \in DOMAIN engine[e].output : engine[e].output[i].for = snapshot

(* A game is only ever forfeited by an engine that crashed, printed        *)
(* something else than one legal answer, or was late with its answer to    *)
(* the last request, even if the answer or the end of the process came     *)
(* between the time-out and the kill; and the point goes to the other one, *)
(* the candidate or not.  The record names versions: it tells whom it      *)
(* means, and who gets the point, only if the two have different ones.     *)
NoInnocentForfeits ==
  result # Nothing /\ result.failed # Nothing =>
    \E e \in Engine :
      /\ version[e] = result.failed
      /\ \/ engine[e].fault
         \/ result.status = "external_timeout" /\ AnswersLate(e)
      /\ result.winner = version[Other(e)]
      /\ Distinguished =>
           result.candidate_result = IF e = "candidate" THEN "loss" ELSE "win"
      /\ ~result.valid_strength_game

PositionAfter(log, n) == [i \in 1 .. n |-> log[i].action]

(* replay_game: the moves up to the first failed one, given to a new       *)
(* referee, lead through the logged positions to the recorded end.         *)
Replays(log, game) ==
  LET n == Cardinality(Valid(log))
      at(i) == PositionAfter(log, i)
  IN /\ \A i \in 1 .. n :
          /\ log[i].status = "valid_response"
          /\ log[i].before = at(i - 1)
          /\ log[i].action \in Legal[at(i - 1)]
          /\ log[i].after = at(i)
          /\ log[i].outcome = Verdict[at(i)]
     /\ game.final # Nothing => game.final = at(n)
     /\ game.valid_strength_game =>
          /\ game.terminal = Verdict[at(n)].terminal
          /\ game.total_actions = n

(* A game that was played always passes its replay; the version that is    *)
(* recorded as its winner is that of the engine the referee's verdict of   *)
(* the last position names, and the score that counts is that verdict seen *)
(* from the candidate, whichever side it played.  The score is told from   *)
(* the version, hence only if the two engines have different ones.         *)
PlayedGameReplays ==
  result # Nothing =>
    /\ Replays(moves, result)
    /\ result.valid_strength_game =>
         LET w == Verdict[PositionAfter(moves, result.total_actions)].winner
         IN /\ result.winner = IF w = Nothing THEN Nothing ELSE version[EngineAt(w)]
            /\ Distinguished \/ w = Nothing =>
                 result.candidate_result =
                   IF w = Nothing THEN "draw"
                   ELSE IF EngineAt(w) = "candidate" THEN "win" ELSE "loss"

(* Whatever the processes do to each other, a game is for its run what     *)
(* EvaluationRun takes it for: every step is one of its moves or endings,  *)
(* or none of its business.                                                *)
GameImplemented == [][Run!RunNext]_(Run!runVars)

(* Every game ends, whatever the engines do or omit. *)
GameEnds == <>(pc \in {"ended", "raised"})
=============================================================================
