---------------------------- MODULE EvaluationRun ----------------------------
(***************************************************************************)
(* The paired games of one evaluation run, from its first start through    *)
(* kills, resumes and extensions to its report: run_pipeline.py (Progress, *)
(* the part of run_pipeline about games), run_paired_matches and play_game *)
(* of run_selfplay.py.                                                     *)
(*                                                                         *)
(* A run keeps three records of a game on disk: the move log of the        *)
(* attempt, a line of games.jsonl and an entry of progress.json.  They are *)
(* written one after the other, and the process may be killed in between.  *)
(*                                                                         *)
(* What a position looks like is left out: a game is a number of plies and *)
(* the way it ended.                                                       *)
(***************************************************************************)
EXTENDS Naturals, Sequences, FiniteSetsExt

CONSTANTS
  Opponents,   \* how many opponents the candidate meets
  BasePairs,   \* [1..Opponents -> opening_pairs or anchor_opening_pairs of the profile]
  MinimumPairs,  \* [1..Opponents -> minimum_(anchor_)pairs_for_strength]
  Openings,    \* openings the corpus has
  MaxPlies,    \* bound: remaining_horizon of an opening
  MaxStarts,   \* bound: how often the run is started or resumed
  Extending,   \* the operator uses the extension a report recommends
  NoResult

ASSUME RunConstants ==
  /\ Opponents \in Nat \ {0}
  /\ BasePairs \in [1 .. Opponents -> 0 .. Openings]
  /\ MinimumPairs \in [1 .. Opponents -> Nat]
  /\ Openings \in Nat
  /\ MaxPlies \in Nat \ {0}
  /\ MaxStarts \in Nat \ {0}
  /\ Extending \in BOOLEAN

VARIABLES
  currentAttempt,  \* progress.json, 0 before the file exists
  extensionPairs,  \* progress.json
  completed,       \* progress.json: task_results of completed_tasks
  games,           \* games.jsonl
  log,             \* moves.jsonl of an attempt directory: its lines
  report,          \* the last report, or NoResult
  pc,              \* where the process is, "off" when there is none
  attempt,         \* attempt_id
  existing,        \* the results run_paired_matches will return
  game, plies, ending   \* the game being played

disk == <<currentAttempt, extensionPairs, completed, games, log, report>>
match == <<game, plies, ending>>
runVars == <<disk, pc, attempt, existing, match>>

Role == {"candidate_first", "candidate_second"}
GameId == (1 .. Opponents) \X (0 .. Openings - 1) \X Role

Ending == {"valid", "engine_failure", "referee_failure"}
Result ==
  [game : GameId, attempt : 1 .. MaxStarts, plies : 0 .. MaxPlies,
   ending : Ending, replayPassed : BOOLEAN]

ASSUME NoResultIsNone == NoResult \notin Result

RunInit ==
  /\ currentAttempt = 0
  /\ extensionPairs = 0
  /\ completed = [g \in GameId |-> NoResult]
  /\ games = <<>>
  /\ log = [d \in GameId \X (1 .. MaxStarts) |-> 0]
  /\ report = NoResult
  /\ pc = "off"
  /\ attempt = 0
  /\ existing = [g \in GameId |-> NoResult]
  /\ game = NoResult /\ plies = 0 /\ ending = NoResult

(* The process is gone, and its memory with it. *)
Off ==
  /\ pc' = "off"
  /\ attempt' = 0
  /\ existing' = [g \in GameId |-> NoResult]
  /\ game' = NoResult /\ plies' = 0 /\ ending' = NoResult

-----------------------------------------------------------------------------
(* Starting and resuming. *)

Start ==
  /\ pc = "off" /\ currentAttempt = 0
  /\ currentAttempt' = 1
  /\ attempt' = 1
  /\ pc' = "planning"
  /\ UNCHANGED <<extensionPairs, completed, games, log, report, existing, match>>

(* Mutant of NextAttempt: the attempt is not counted up. *)
SameAttempt == currentAttempt

NextAttempt == currentAttempt + 1

(* Mutant of Resume: a run whose two records name different games is not   *)
(* resumed.                                                                *)
ResumeWhole ==
  /\ pc = "off" /\ currentAttempt \in 1 .. MaxStarts - 1
  /\ {games[i].game : i \in DOMAIN games} = {g \in GameId : completed[g] # NoResult}
  /\ attempt' = NextAttempt
  /\ currentAttempt' = NextAttempt
  /\ pc' = "planning"
  /\ UNCHANGED <<extensionPairs, completed, games, log, report, existing, match>>

(* --resume, with or without the --extend-pairs of the report. *)
Resume ==
  /\ pc = "off" /\ currentAttempt \in 1 .. MaxStarts - 1
  /\ attempt' = NextAttempt
  /\ currentAttempt' = NextAttempt
  /\ \/ UNCHANGED extensionPairs
     \/ /\ Extending /\ report # NoResult
        /\ extensionPairs' = extensionPairs + report.additional
  /\ pc' = "planning"
  /\ UNCHANGED <<completed, games, log, report, existing, match>>

Pairs(o) == BasePairs[o] + extensionPairs

(* select_openings raises when there are not enough. *)
OpeningsSuffice == \A o \in 1 .. Opponents : Pairs(o) <= Openings

Planned == {g \in GameId : g[2] < Pairs(g[1])}

(* Mutants of Reload: the first line of a game wins; the file is not read. *)
ReloadFirst ==
  [g \in GameId |->
    LET lines == {i \in DOMAIN games : games[i].game = g}
    IN  IF lines = {} THEN NoResult ELSE games[Min(lines)]]

(* The last line of a game wins. *)
Reload ==
  [g \in GameId |->
    LET lines == {i \in DOMAIN games : games[i].game = g}
    IN  IF lines = {} THEN NoResult ELSE games[Max(lines)]]

Plan ==
  /\ pc = "planning" /\ OpeningsSuffice
  /\ existing' = Reload
  /\ pc' = "matching"
  /\ UNCHANGED <<disk, attempt, match>>

PlanRefused ==
  /\ pc = "planning" /\ ~OpeningsSuffice
  /\ Off
  /\ UNCHANGED disk

-----------------------------------------------------------------------------
(* Playing. *)

Done(g) == completed[g] # NoResult /\ existing[g] # NoResult

(* role_order: who begins alternates from pair to pair. *)
FirstRole(pair) == IF pair % 2 = 0 THEN "candidate_first" ELSE "candidate_second"

Before(g, h) ==
  \/ g[1] < h[1]
  \/ g[1] = h[1] /\ g[2] < h[2]
  \/ g[1] = h[1] /\ g[2] = h[2] /\ g[3] = FirstRole(g[2]) /\ g[3] # h[3]

Play ==
  /\ pc = "matching"
  /\ \E g \in {p \in Planned : ~Done(p)} :
       /\ \A h \in Planned : Before(h, g) => Done(h)
       /\ game' = g
  /\ plies' = 0
  /\ pc' = "playing"
  /\ UNCHANGED <<disk, attempt, existing, ending>>

Logged == log' = [log EXCEPT ![<<game, attempt>>] = @ + 1]

(* A legal answer is applied; the last ply of the horizon ends the game. *)
Move ==
  /\ pc = "playing"
  /\ Logged
  /\ plies' = plies + 1
  /\ \/ pc' = "ended" /\ ending' = "valid"
     \/ plies' < MaxPlies /\ pc' = "playing" /\ UNCHANGED ending
  /\ UNCHANGED <<currentAttempt, extensionPairs, completed, games, report,
                 attempt, existing, game>>

(* No answer, none in time, or one that is not a legal action: the move is *)
(* logged and the game lost.                                               *)
EngineFails ==
  /\ pc = "playing"
  /\ Logged
  /\ plies' = plies + 1
  /\ pc' = "ended" /\ ending' = "engine_failure"
  /\ UNCHANGED <<currentAttempt, extensionPairs, completed, games, report,
                 attempt, existing, game>>

(* The referee fails to load the opening or to apply a move. *)
RefereeFails ==
  /\ pc = "playing" /\ attempt < MaxStarts
  /\ pc' = "ended" /\ ending' = "referee_failure"
  /\ UNCHANGED <<disk, attempt, existing, game, plies>>

-----------------------------------------------------------------------------
(* Recording. *)

Logs == log[<<game, attempt>>]

(* replay_game cannot open the log of a game without a move. *)
ReplayImpossible ==
  /\ pc = "ended" /\ Logs = 0
  /\ Off
  /\ UNCHANGED disk

(* What play_game and replay_game say of the game just ended. *)
Played ==
  [game |-> game, attempt |-> attempt, plies |-> plies, ending |-> ending,
   replayPassed |-> Logs = plies]

(* Mutant of Lines: a game that has a line gets no other. *)
LinesOnce ==
  IF existing[game] = NoResult THEN Append(games, Played) ELSE games

Lines == Append(games, Played)

(* append_jsonl(games_path, game); existing[game_id] = game *)
Record ==
  /\ pc = "ended" /\ Logs > 0
  /\ games' = Lines
  /\ existing' = [existing EXCEPT ![game] = Played]
  /\ pc' = "recorded"
  /\ UNCHANGED <<currentAttempt, extensionPairs, completed, log, report,
                 attempt, match>>

(* mark_complete *)
Mark ==
  /\ pc = "recorded"
  /\ completed' = [completed EXCEPT ![game] = existing[game]]
  /\ pc' = "matching"
  /\ game' = NoResult /\ plies' = 0 /\ ending' = NoResult
  /\ UNCHANGED <<currentAttempt, extensionPairs, games, log, report, attempt, existing>>

-----------------------------------------------------------------------------
(* The report. *)

Returned == {g \in GameId : existing[g] # NoResult}

CompletePairs(o) ==
  {p \in 0 .. Openings - 1 : \A r \in Role :
    <<o, p, r>> \in Returned /\ existing[<<o, p, r>>].ending = "valid"}

ReturnedFrom(o) == {g \in Returned : g[1] = o}

(* _estimated_additional_pairs: what the confidence interval asks for, at  *)
(* least what the profile wants for a claim, but no more than the corpus   *)
(* has beside the pairs counted.  Who played no game has no summary.       *)
Recommended(o) ==
  LET counted == Cardinality(CompletePairs(o))
      most == Min({10000, Openings - counted})
  IN  IF ReturnedFrom(o) = {} THEN {0}
      ELSE {n \in 0 .. most :
             /\ MinimumPairs[o] <= counted + n \/ n = most
             /\ counted = 0 => n = Min({Max({100, MinimumPairs[o]}), most})}

(* classify_candidate, the other evidence left open: only a reliable run   *)
(* gets past its rejection.                                                *)
Reliable == \A g \in Returned : existing[g].ending = "valid" /\ existing[g].replayPassed

Classifications == {"REJECT"} \cup (IF Reliable THEN {"INCONCLUSIVE", "ACCEPT"} ELSE {})

(* generate_report: one recommendation for all, the most any opponent asks *)
(* for.                                                                    *)
Finish ==
  /\ pc = "matching"
  /\ \A g \in Planned : Done(g)
  /\ \E n \in [1 .. Opponents -> 0 .. Openings], c \in Classifications :
       /\ \A o \in 1 .. Opponents : n[o] \in Recommended(o)
       /\ report' = [games |-> [g \in Returned |-> existing[g]],
                     extension |-> extensionPairs,
                     classification |-> c,
                     additional |-> Max({n[o] : o \in 1 .. Opponents})]
  /\ Off
  /\ UNCHANGED <<currentAttempt, extensionPairs, completed, games, log>>

(* Ctrl-C, a crash or a lost machine; bound: not in the last attempt. *)
Kill ==
  /\ pc # "off" /\ attempt < MaxStarts
  /\ Off
  /\ UNCHANGED disk

Step ==
  \/ Plan \/ PlanRefused \/ Play \/ Move \/ EngineFails \/ RefereeFails
  \/ ReplayImpossible \/ Record \/ Mark \/ Finish

RunNext == Start \/ Resume \/ Step \/ Kill

RunSpec == RunInit /\ [][RunNext]_runVars

(* The process runs on, and the operator starts and resumes an unfinished  *)
(* run.                                                                    *)
FairRunSpec ==
  RunSpec /\ WF_runVars(Step) /\ WF_runVars(Start) /\ WF_runVars(Resume)

-----------------------------------------------------------------------------

RunTypeOK ==
  /\ currentAttempt \in 0 .. MaxStarts
  /\ extensionPairs \in 0 .. Openings * MaxStarts
  /\ completed \in [GameId -> Result \cup {NoResult}]
  /\ games \in Seq(Result)
  /\ log \in [GameId \X (1 .. MaxStarts) -> 0 .. MaxPlies]
  /\ pc \in {"off", "planning", "matching", "playing", "ended", "recorded"}
  /\ attempt = (IF pc = "off" THEN 0 ELSE currentAttempt)
  /\ existing \in [GameId -> Result \cup {NoResult}]
  /\ game \in GameId \cup {NoResult}
  /\ plies \in 0 .. MaxPlies
  /\ ending \in Ending \cup {NoResult}

(* progress.json and games.jsonl never tell different stories about a      *)
(* completed game: its cached result is the one a reload of the file       *)
(* finds, although the two are written one after the other, a kill in      *)
(* between leaves the second line of the game still to come, and only the  *)
(* completed games are skipped.                                            *)
ProgressMatchesGames ==
  \A g \in GameId : completed[g] # NoResult => completed[g] = Reload[g]

(* Every recorded game replays: its attempt directory holds the moves of   *)
(* that game and no others, although a killed attempt left its own.        *)
RecordedGamesReplay == \A i \in DOMAIN games : games[i].replayPassed

(* A report counts every planned game exactly once, with the result that   *)
(* progress.json holds for it, however often the run was killed.           *)
ReportIsWhole ==
  [][report' # report =>
       report'.games = [g \in Planned |-> completed[g]]]_runVars

(* A run that is resumed after every kill is reported in the end. *)
RunIsReported == <>(report # NoResult)

(* evaluation/README.md:198-200: "An inconclusive report prints the exact  *)
(* extension command and a bounded recommended additional pair count when  *)
(* strength extension is applicable."  The command printed is one the run  *)
(* can carry out: the corpus has openings for it.                          *)
RecommendedExtensionFits ==
  report # NoResult /\ report.classification = "INCONCLUSIVE" /\ report.additional > 0 =>
    \A o \in 1 .. Opponents :
      BasePairs[o] + report.extension + report.additional <= Openings

==============================================================================
