----------------------------- MODULE MatchProofs -----------------------------
(***************************************************************************)
(* Proofs about one game of an evaluation: for any rules, horizon and      *)
(* number of stray lines, the referee's record of the game is true, only a *)
(* faulty or late engine forfeits, and the game implements the game that   *)
(* EvaluationRun plays.                                                    *)
(***************************************************************************)
EXTENDS Match, FiniteSetTheorems, SequenceTheorems, TLAPS

-----------------------------------------------------------------------------
(* The inductive invariant.                                                *)

(* Until the game is over.                                                 *)
Serving ==
  pc \in {"start", "start second", "load", "ask", "wait", "expired", "kill", "settle"}

(* From the request to the line, or to the kill.                           *)
Waiting == pc \in {"wait", "expired", "kill"}

Quiet(e) == engine[e].asked = <<>> /\ engine[e].output = <<>>

(* The one request is with the engine, or its one answer is on its way.    *)
Asked(e) ==
  \/ engine[e].asked = <<snapshot>> /\ engine[e].output = <<>>
  \/ /\ engine[e].asked = <<>>
     /\ Len(engine[e].output) = 1 /\ engine[e].output[1].for = snapshot

(* An engine that never printed a line of its own is at most one line      *)
(* behind its requests, and only while its answer is waited for.           *)
InStep ==
  /\ Serving =>
       \A e \in Engine : engine[e].strays = 0 =>
         IF Waiting /\ e = Mover THEN Asked(e) ELSE Quiet(e)
  /\ pc = "settle" =>
       /\ answer \in Line
       /\ engine[Mover].strays = 0 => answer.for = snapshot

(* An engine without fault is alive while it is needed, and all it printed *)
(* are legal answers.                                                      *)
Blameless(e) ==
  /\ engine[e].strays = 0
  /\ pc \in {"load", "ask", "settle"} \/ Waiting => engine[e].alive
  /\ pc = "start second" /\ e = first => engine[e].alive
  /\ \A i \in DOMAIN engine[e].output :
       engine[e].output[i].text \in Legal[engine[e].output[i].for]
  /\ pc = "settle" /\ e = Mover => answer.text \in Legal[answer.for]

FaultsKnown == \A e \in Engine : ~engine[e].fault => Blameless(e)

(* Move i of the log is what the referee makes of the moves before it.     *)
Follows(log, i) ==
  /\ log[i].status = "valid_response"
  /\ log[i].before = PositionAfter(log, i - 1)
  /\ log[i].action \in Legal[PositionAfter(log, i - 1)]
  /\ log[i].after = PositionAfter(log, i)
  /\ log[i].outcome = Verdict[PositionAfter(log, i)]

(* A game that goes on has no result, and its log leads to its position.   *)
PlayInv ==
  Serving =>
    /\ result = Nothing
    /\ \A i \in 1 .. Len(moves) : Follows(moves, i)
    /\ snapshot = PositionAfter(moves, Len(moves))
    /\ Verdict[snapshot].terminal = "none"

(* Engine e lost the game, and for a reason.  Lost on time, it is dead.    *)
Deserved(e) ==
  /\ version[e] = result.failed
  /\ \/ engine[e].fault
     \/ result.status = "external_timeout" /\ AnswersLate(e) /\ ~engine[e].alive
  /\ result.winner = version[Other(e)]
  /\ Distinguished =>
       result.candidate_result = IF e = "candidate" THEN "loss" ELSE "win"
  /\ ~result.valid_strength_game

(* A game that is over has a result.                                       *)
ResultInv ==
  /\ pc \in {"close", "ended"} => result # Nothing
  /\ result # Nothing /\ result.failed # Nothing => \E e \in Engine : Deserved(e)
  /\ PlayedGameReplays

MatchInv == MatchTypeOK /\ InStep /\ FaultsKnown /\ PlayInv /\ ResultInv

-----------------------------------------------------------------------------
(* Positions and seats.                                                    *)

LEMMA PositionIsSequence ==
  ASSUME NEW p \in Position
  PROVE  p \in Seq(Action) /\ Len(p) \in 0 .. Horizon
<1>1. PICK n \in 0 .. Horizon : p \in [1 .. n -> Action]
  BY DEF Position
<1>2. n \in Nat
  BY <1>1, MatchConstants
<1>3. QED
  BY <1>1, <1>2

LEMMA SequenceIsPosition ==
  ASSUME NEW p \in Seq(Action), Len(p) <= Horizon
  PROVE  p \in Position
<1>1. p \in [1 .. Len(p) -> Action] /\ Len(p) \in 0 .. Horizon
  BY LenProperties, MatchConstants
<1>2. QED
  BY <1>1 DEF Position

LEMMA NextPosition ==
  ASSUME NEW p \in Position, NEW a \in Action, Len(p) < Horizon
  PROVE  Append(p, a) \in Position /\ Len(Append(p, a)) = Len(p) + 1
<1> DEFINE longer == Append(p, a)
<1>1. p \in Seq(Action) /\ Len(p) \in Nat /\ Horizon \in Nat
  BY PositionIsSequence, MatchConstants
<1>2. longer \in Seq(Action) /\ Len(longer) = Len(p) + 1
  BY <1>1, AppendProperties
<1> HIDE DEF longer
<1>3. Len(longer) <= Horizon
  BY <1>1, <1>2
<1>4. longer \in Position
  BY <1>2, <1>3, SequenceIsPosition
<1>5. QED
  BY <1>2, <1>4 DEF longer

LEMMA EmptyPosition == <<>> \in Position /\ Len(<<>>) = 0
<1>1. <<>> \in Seq(Action) /\ Len(<<>>) = 0 /\ 0 <= Horizon
  BY EmptySeq, MatchConstants
<1>2. QED
  BY <1>1, SequenceIsPosition

(* What the referee knows of a position.                                   *)
LEMMA RefereeKnows ==
  ASSUME NEW p \in Position
  PROVE  /\ Legal[p] \subseteq Action
         /\ Verdict[p] \in Outcome
         /\ Verdict[p].terminal \in {"none", "catch", "try", "draw"}
         /\ Verdict[p].winner \in Seat \cup {Nothing}
         /\ (Verdict[p].winner = Nothing) <=> (Verdict[p].terminal \in {"none", "draw"})
         /\ Verdict[p].terminal = "none" => Len(p) < Horizon
<1>1. Len(p) \in 0 .. Horizon /\ Horizon \in Nat
  BY PositionIsSequence, MatchConstants
<1>2. Legal[p] \subseteq Action /\ Verdict[p] \in Outcome
  BY MatchConstants
<1>3. QED
  BY <1>1, <1>2, MatchConstants DEF Outcome

LEMMA Seats ==
  ASSUME first \in Engine
  PROVE  /\ Mover \in Engine /\ Other(Mover) \in Engine /\ Other(Mover) # Mover
         /\ Other(first) \in Engine /\ Other(first) # first
         /\ \A e \in Engine : e = first \/ e = Other(first)
         /\ \A seat \in Seat : EngineAt(seat) \in Engine
BY DEF Mover, EngineAt, Other, Engine, Seat

-----------------------------------------------------------------------------
(* The log.                                                                *)

(* The valid moves are counted: they are the first n.                      *)
LEMMA ValidMoves ==
  ASSUME NEW log \in Seq(MoveRecord), NEW n \in 0 .. Len(log),
         \A i \in 1 .. n : log[i].status = "valid_response",
         \A i \in n + 1 .. Len(log) : log[i].status # "valid_response"
  PROVE  Cardinality(Valid(log)) = n
<1>1. DOMAIN log = 1 .. Len(log) /\ Len(log) \in Nat
  BY LenProperties
<1>2. Valid(log) = 1 .. n
  BY <1>1 DEF Valid
<1>3. Cardinality(1 .. n) = IF 1 > n THEN 0 ELSE n - 1 + 1
  BY <1>1, FS_Interval
<1>4. QED
  BY <1>1, <1>2, <1>3

(* Another move does not change the positions before it.                   *)
LEMMA LongerLog ==
  ASSUME NEW log \in Seq(MoveRecord), NEW m \in MoveRecord
  PROVE  /\ Append(log, m) \in Seq(MoveRecord)
         /\ Len(log) \in Nat /\ Len(Append(log, m)) = Len(log) + 1
         /\ Append(log, m)[Len(log) + 1] = m
         /\ \A i \in 1 .. Len(log) : Append(log, m)[i] = log[i]
         /\ \A n \in 0 .. Len(log) : PositionAfter(Append(log, m), n) = PositionAfter(log, n)
         /\ \A i \in 1 .. Len(log) : Follows(Append(log, m), i) <=> Follows(log, i)
<1> DEFINE longer == Append(log, m)
<1>1. Len(log) \in Nat
  BY LenProperties
<1>2. /\ longer \in Seq(MoveRecord) /\ Len(longer) = Len(log) + 1
      /\ longer[Len(log) + 1] = m
      /\ \A i \in 1 .. Len(log) : longer[i] = log[i]
  BY AppendProperties
<1> HIDE DEF longer
<1>3. ASSUME NEW n \in 0 .. Len(log)
      PROVE  PositionAfter(longer, n) = PositionAfter(log, n)
  BY <1>1, <1>2 DEF PositionAfter
<1>4. ASSUME NEW i \in 1 .. Len(log)
      PROVE  Follows(longer, i) <=> Follows(log, i)
  <2>1. i \in 0 .. Len(log) /\ i - 1 \in 0 .. Len(log)
    BY <1>1
  <2>2. QED
    BY <1>2, <1>3, <2>1 DEF Follows
<1>5. QED
  BY <1>1, <1>2, <1>3, <1>4 DEF longer

(* Positions grow with the log.                                            *)
LEMMA PositionGrows ==
  ASSUME NEW log \in Seq(MoveRecord), NEW m \in MoveRecord, m.action \in Action,
         PositionAfter(log, Len(log)) \in Position
  PROVE  /\ PositionAfter(Append(log, m), Len(log) + 1)
              = Append(PositionAfter(log, Len(log)), m.action)
         /\ Len(PositionAfter(log, Len(log))) = Len(log)
<1> DEFINE longer == Append(log, m)
           p == PositionAfter(log, Len(log))
<1>1. /\ Len(log) \in Nat
      /\ longer[Len(log) + 1] = m
      /\ \A i \in 1 .. Len(log) : longer[i] = log[i]
  BY LongerLog
<1>2. p \in Seq(Action) /\ DOMAIN p = 1 .. Len(p) /\ Len(p) \in Nat
  BY PositionIsSequence, LenProperties
<1>3. DOMAIN p = 1 .. Len(log)
  BY DEF PositionAfter
<1> HIDE DEF p
<1>4. Len(p) = Len(log)
  BY <1>1, <1>2, <1>3
<1>5. /\ Append(p, m.action) \in Seq(Action)
      /\ Len(Append(p, m.action)) = Len(log) + 1
      /\ \A i \in 1 .. Len(log) : Append(p, m.action)[i] = p[i]
      /\ Append(p, m.action)[Len(log) + 1] = m.action
  BY <1>2, <1>4, AppendProperties
<1>6. Append(p, m.action) = [i \in 1 .. Len(log) + 1 |-> Append(p, m.action)[i]]
  BY <1>5
<1>7. \A i \in 1 .. Len(log) : p[i] = log[i].action
  BY DEF p, PositionAfter
<1> HIDE DEF longer
<1>8. \A i \in 1 .. Len(log) + 1 : longer[i].action = Append(p, m.action)[i]
  BY <1>1, <1>5, <1>7
<1>9. PositionAfter(longer, Len(log) + 1) = Append(p, m.action)
  BY <1>6, <1>8 DEF PositionAfter
<1>10. QED
  BY <1>4, <1>9 DEF p, longer

-----------------------------------------------------------------------------
(* The ends of a game.                                                     *)

(* While a game goes on, its log has only valid moves and room for more.   *)
LEMMA GameGoesOn ==
  ASSUME MatchTypeOK, PlayInv, Serving
  PROVE  /\ moves \in Seq(MoveRecord) /\ Len(moves) \in Nat
         /\ snapshot \in Position /\ Len(snapshot) = Len(moves)
         /\ snapshot = PositionAfter(moves, Len(moves))
         /\ Len(moves) < Horizon
         /\ \A i \in 1 .. Len(moves) : Follows(moves, i)
         /\ Cardinality(Valid(moves)) = Len(moves)
         /\ first \in Engine /\ Mover \in Engine
<1>1. moves \in Seq(MoveRecord) /\ snapshot \in Position /\ first \in Engine
  BY DEF MatchTypeOK
<1>2. Len(moves) \in Nat /\ DOMAIN snapshot = 1 .. Len(moves)
  BY <1>1, LenProperties DEF PlayInv, PositionAfter
<1>3. Len(snapshot) = Len(moves)
  <2>1. snapshot \in Seq(Action)
    BY <1>1, PositionIsSequence
  <2>2. Len(snapshot) \in Nat /\ DOMAIN snapshot = 1 .. Len(snapshot)
    BY <2>1, LenProperties
  <2>3. QED
    BY <1>2, <2>2
<1>4. \A i \in 1 .. Len(moves) : Follows(moves, i)
  BY DEF PlayInv
<1>5. Cardinality(Valid(moves)) = Len(moves)
  <2>1. \A i \in 1 .. Len(moves) : moves[i].status = "valid_response"
    BY <1>4 DEF Follows
  <2>2. QED
    BY <1>1, <1>2, <2>1, ValidMoves
<1>6. Len(snapshot) < Horizon
  BY <1>1, RefereeKnows DEF PlayInv
<1>7. Mover \in Engine
  BY <1>1, Seats
<1>8. QED
  BY <1>1, <1>2, <1>3, <1>4, <1>5, <1>6, <1>7 DEF PlayInv

(* The fields of game.json.                                                *)
Tells(r, p, log, terminal, winner, points, failed, status) ==
  /\ r.terminal = terminal /\ r.winner = winner
  /\ r.failed = failed /\ r.status = status
  /\ r.total_plies = Len(log) /\ r.total_actions = Cardinality(Valid(log))
  /\ r.final = IF p = <<>> THEN Nothing ELSE p
  /\ r.candidate_result = points
  /\ terminal \in {"catch", "try", "draw"} => r.valid_strength_game = TRUE
  /\ terminal \in {"forfeit", "referee_failure"} => r.valid_strength_game = FALSE

LEMMA ResultFields ==
  ASSUME NEW p, NEW log, NEW terminal, NEW winner, NEW points, NEW failed, NEW status
  PROVE  Tells(Result(p, log, terminal, winner, points, failed, status),
               p, log, terminal, winner, points, failed, status)
<1> DEFINE final == IF p = <<>> THEN Nothing ELSE p
           strength == terminal \in {"catch", "try", "draw"}
           r == Result(p, log, terminal, winner, points, failed, status)
<1>1. r = [terminal |-> terminal, winner |-> winner, candidate_result |-> points,
           failed |-> failed, status |-> status, total_plies |-> Len(log),
           total_actions |-> Cardinality(Valid(log)), final |-> final,
           valid_strength_game |-> strength]
  BY DEF Result
<1>2. /\ terminal \in {"catch", "try", "draw"} => strength = TRUE
      /\ terminal \in {"forfeit", "referee_failure"} => strength = FALSE
  OBVIOUS
<1> HIDE DEF r, final, strength
<1>3. /\ r.terminal = terminal /\ r.winner = winner /\ r.candidate_result = points
      /\ r.failed = failed /\ r.status = status /\ r.total_plies = Len(log)
      /\ r.total_actions = Cardinality(Valid(log)) /\ r.final = final
      /\ r.valid_strength_game = strength
  BY <1>1
<1>4. Tells(r, p, log, terminal, winner, points, failed, status)
  BY <1>2, <1>3 DEF final, Tells
<1>5. QED
  BY <1>4 DEF r

(* What makes it a record of a game.                                       *)
LEMMA ResultTypes ==
  ASSUME NEW p \in Position, NEW log, Len(log) \in 0 .. Horizon,
         Cardinality(Valid(log)) \in 0 .. Horizon,
         NEW terminal \in {"catch", "try", "draw", "forfeit", "referee_failure"},
         NEW winner \in VersionId \cup {Nothing}, NEW failed \in VersionId \cup {Nothing},
         NEW points \in {"win", "draw", "loss"},
         NEW status \in Failure \cup {"referee_failure", Nothing}
  PROVE  /\ Result(p, log, terminal, winner, points, failed, status) \in GameRecord
         /\ Result(p, log, terminal, winner, points, failed, status) # Nothing
<1> DEFINE final == IF p = <<>> THEN Nothing ELSE p
<1>1. final \in Position \cup {Nothing}
  OBVIOUS
<1>2. (terminal \in {"catch", "try", "draw"}) \in BOOLEAN
  OBVIOUS
<1>3. Result(p, log, terminal, winner, points, failed, status) =
        [terminal |-> terminal, winner |-> winner, candidate_result |-> points,
         failed |-> failed, status |-> status, total_plies |-> Len(log),
         total_actions |-> Cardinality(Valid(log)), final |-> final,
         valid_strength_game |-> terminal \in {"catch", "try", "draw"}]
  BY DEF Result
<1> HIDE DEF final
<1>4. Result(p, log, terminal, winner, points, failed, status) \in GameRecord
  BY <1>1, <1>2, <1>3 DEF GameRecord
<1>5. QED
  BY <1>4, NothingIsNone

(* A forfeited game: everything but the move that failed replays.          *)
LEMMA ForfeitEnds ==
  ASSUME MatchTypeOK, PlayInv, Serving,
         NEW status \in Failure, NEW action \in Action \cup {NotInteger, Nothing},
         Forfeit(status, action), UNCHANGED <<version, first, snapshot>>
  PROVE  /\ moves' \in Seq(MoveRecord) /\ Len(moves') = Len(moves) + 1
         /\ result' \in GameRecord /\ result' # Nothing
         /\ result'.failed = version[Mover] /\ result'.winner = version[Other(Mover)]
         /\ result'.status = status /\ result'.terminal = "forfeit"
         /\ Distinguished =>
              result'.candidate_result = IF Mover = "candidate" THEN "loss" ELSE "win"
         /\ result'.valid_strength_game = FALSE
         /\ PlayedGameReplays'
<1> DEFINE n == Len(moves)
           m == Move(status, action, Nothing)
<1>1. /\ moves \in Seq(MoveRecord) /\ n \in Nat /\ n < Horizon
      /\ snapshot \in Position /\ snapshot = PositionAfter(moves, n)
      /\ \A i \in 1 .. n : Follows(moves, i)
      /\ Mover \in Engine /\ Other(Mover) \in Engine /\ Other(Mover) # Mover
      /\ Horizon \in Nat
  BY GameGoesOn, Seats, MatchConstants
<1>2. m \in MoveRecord /\ m.status # "valid_response"
  BY <1>1 DEF MatchTypeOK, Move, MoveRecord, Status, Failure
<1>3. moves' = Append(moves, m)
  BY DEF Forfeit, LostBy
<1> HIDE DEF m
<1>4. /\ moves' \in Seq(MoveRecord) /\ Len(moves') = n + 1
      /\ moves'[n + 1] = m
      /\ \A i \in 1 .. n : Follows(moves', i)
      /\ PositionAfter(moves', n) = snapshot
  BY <1>1, <1>2, <1>3, LongerLog
<1>5. Cardinality(Valid(moves')) = n
  <2>1. \A i \in 1 .. n : moves'[i].status = "valid_response"
    BY <1>4 DEF Follows
  <2>2. \A i \in n + 1 .. Len(moves') : moves'[i].status # "valid_response"
    BY <1>1, <1>2, <1>4
  <2>3. n \in 0 .. Len(moves')
    BY <1>1, <1>4
  <2>4. QED
    BY <1>4, <2>1, <2>2, <2>3, ValidMoves
<1>6. PICK points \in {"win", "loss"} :
        /\ result' = Result(snapshot, moves', "forfeit", version[Other(Mover)], points,
                            version[Mover], status)
        /\ Distinguished => points = IF Mover = "candidate" THEN "loss" ELSE "win"
  <2>1. result' = Result(snapshot, moves', "forfeit", version[Other(SideOf(version[Mover]))],
                         PointsAgainst(version[Mover]), version[Mover], status)
    BY DEF Forfeit, LostBy
  <2>2. PointsAgainst(version[Mover]) \in {"win", "loss"}
    BY DEF PointsAgainst
  <2>3. version[Other(SideOf(version[Mover]))] = version[Other(Mover)]
    BY <1>1 DEF SideOf, Other, Engine
  <2>4. Distinguished =>
          PointsAgainst(version[Mover]) = IF Mover = "candidate" THEN "loss" ELSE "win"
    BY <1>1 DEF Distinguished, PointsAgainst, SideOf, Engine
  <2>5. QED
    BY <2>1, <2>2, <2>3, <2>4
<1>7. Tells(result', snapshot, moves', "forfeit", version[Other(Mover)], points,
            version[Mover], status)
  BY <1>6, ResultFields
<1>8. /\ result'.terminal = "forfeit" /\ result'.winner = version[Other(Mover)]
      /\ result'.failed = version[Mover] /\ result'.status = status
      /\ result'.total_plies = n + 1 /\ result'.total_actions = n
      /\ result'.final \in {Nothing, snapshot}
      /\ result'.candidate_result = points
      /\ result'.valid_strength_game = FALSE
  BY <1>4, <1>5, <1>7 DEF Tells
<1>9. result' \in GameRecord /\ result' # Nothing
  <2>1. Len(moves') \in 0 .. Horizon /\ Cardinality(Valid(moves')) \in 0 .. Horizon
    BY <1>1, <1>4, <1>5
  <2>2. version[Mover] \in VersionId /\ version[Other(Mover)] \in VersionId
    BY <1>1 DEF MatchTypeOK
  <2>3. QED
    BY <1>1, <1>6, <2>1, <2>2, ResultTypes
<1>10. Replays(moves', result')
  BY <1>4, <1>5, <1>8 DEF Replays, Follows
<1>11. QED
  BY <1>4, <1>6, <1>8, <1>9, <1>10 DEF PlayedGameReplays

(* The referee's own failure ends a game that nobody lost.                 *)
LEMMA RefereeFailureEnds ==
  ASSUME MatchTypeOK, PlayInv, RefereeFails
  PROVE  /\ result' \in GameRecord /\ result' # Nothing
         /\ result'.failed = Nothing /\ result'.terminal = "referee_failure"
         /\ result'.valid_strength_game = FALSE
         /\ PlayedGameReplays'
<1> DEFINE n == Len(moves)
<1>0. Serving
  BY DEF RefereeFails, Clean, Serving
<1>1. /\ moves \in Seq(MoveRecord) /\ n \in Nat /\ n < Horizon
      /\ snapshot \in Position /\ snapshot = PositionAfter(moves, n)
      /\ \A i \in 1 .. n : Follows(moves, i)
      /\ Cardinality(Valid(moves)) = n
      /\ Horizon \in Nat
  BY <1>0, GameGoesOn, MatchConstants
<1>2. /\ result' = Result(snapshot, moves, "referee_failure", Nothing, "draw", Nothing,
                       "referee_failure")
      /\ UNCHANGED <<version, moves, snapshot, first>>
  BY DEF RefereeFails
<1>3. /\ result'.terminal = "referee_failure" /\ result'.winner = Nothing
      /\ result'.failed = Nothing /\ result'.status = "referee_failure"
      /\ result'.total_plies = n /\ result'.total_actions = n
      /\ result'.final \in {Nothing, snapshot}
      /\ result'.candidate_result = "draw"
      /\ result'.valid_strength_game = FALSE
  <2>1. Tells(result', snapshot, moves, "referee_failure", Nothing, "draw", Nothing,
                       "referee_failure")
    BY <1>2, ResultFields
  <2>2. QED
    BY <1>1, <2>1 DEF Tells
<1>4. result' \in GameRecord /\ result' # Nothing
  <2>1. Len(moves) \in 0 .. Horizon /\ Cardinality(Valid(moves)) \in 0 .. Horizon
    BY <1>1
  <2>2. QED
    BY <1>1, <1>2, <2>1, ResultTypes
<1>5. Replays(moves', result')
  BY <1>1, <1>2, <1>3 DEF Replays, Follows
<1>6. QED
  BY <1>3, <1>4, <1>5 DEF PlayedGameReplays

(* A legal answer extends the game by one move that follows.               *)
LEMMA ApplyFollows ==
  ASSUME MatchTypeOK, PlayInv, InStep, Apply
  PROVE  /\ answer.text \in Legal[snapshot]
         /\ snapshot' = Append(snapshot, answer.text) /\ snapshot' \in Position
         /\ moves' \in Seq(MoveRecord) /\ Len(moves') = Len(moves) + 1
         /\ \A i \in 1 .. Len(moves') : Follows(moves', i)
         /\ snapshot' = PositionAfter(moves', Len(moves'))
         /\ Cardinality(Valid(moves')) = Len(moves')
<1> DEFINE n == Len(moves)
           after == Append(snapshot, answer.text)
           m == Move("valid_response", answer.text, after)
<1>0. Serving
  BY DEF Apply, Clean, Serving
<1>1. /\ moves \in Seq(MoveRecord) /\ n \in Nat /\ n < Horizon
      /\ snapshot \in Position /\ snapshot = PositionAfter(moves, n) /\ Len(snapshot) = n
      /\ \A i \in 1 .. n : Follows(moves, i)
      /\ Mover \in Engine
  BY <1>0, GameGoesOn
<1>2. answer.text \in Legal[snapshot] /\ answer.text \in Action
  BY <1>1, RefereeKnows DEF Apply
<1>3. after \in Position
  BY <1>1, <1>2, NextPosition
<1> HIDE DEF after
<1>4. Verdict[after] \in Outcome /\ after # Nothing
  BY <1>3, RefereeKnows, MatchConstants
<1>5. /\ m.before = snapshot /\ m.status = "valid_response" /\ m.action = answer.text
      /\ m.after = after /\ m.outcome = Verdict[after]
  BY <1>4 DEF Move
<1>6. m \in MoveRecord
  BY <1>1, <1>2, <1>3, <1>4 DEF MatchTypeOK, Move, MoveRecord, Status
<1> HIDE DEF m
<1>7. moves' = Append(moves, m) /\ snapshot' = after
  BY DEF Apply, m, after
<1>8. /\ moves' \in Seq(MoveRecord) /\ Len(moves') = n + 1
      /\ moves'[n + 1] = m
      /\ \A i \in 1 .. n : Follows(moves', i)
      /\ PositionAfter(moves', n) = snapshot
  BY <1>1, <1>6, <1>7, LongerLog
<1>9. PositionAfter(moves', n + 1) = after
  <2>1. PositionAfter(moves, Len(moves)) \in Position /\ m.action \in Action
    BY <1>1, <1>2, <1>5
  <2>2. PositionAfter(Append(moves, m), Len(moves) + 1)
          = Append(PositionAfter(moves, Len(moves)), m.action)
    BY <1>1, <1>6, <2>1, PositionGrows
  <2>3. QED
    BY <1>1, <1>5, <1>7, <2>2 DEF after
<1>10. Follows(moves', n + 1)
  <2>1. (n + 1) - 1 = n
    BY <1>1
  <2>2. QED
    BY <1>2, <1>5, <1>8, <1>9, <2>1 DEF Follows
<1>11. \A i \in 1 .. n + 1 : Follows(moves', i)
  BY <1>1, <1>8, <1>10
<1>12. Cardinality(Valid(moves')) = n + 1
  <2>1. \A i \in 1 .. n + 1 : moves'[i].status = "valid_response"
    BY <1>11 DEF Follows
  <2>2. n + 1 \in 0 .. Len(moves')
        /\ \A i \in n + 1 + 1 .. Len(moves') : moves'[i].status # "valid_response"
    BY <1>1, <1>8
  <2>3. QED
    BY <1>8, <2>1, <2>2, ValidMoves
<1>13. QED
  BY <1>2, <1>3, <1>7, <1>8, <1>9, <1>11, <1>12 DEF after

(* The last move ends a game that counts, with the referee's verdict.      *)
LEMMA ApplyEnds ==
  ASSUME MatchTypeOK, PlayInv, InStep, Apply
  PROVE  /\ Verdict[snapshot'].terminal = "none" => pc' = "ask" /\ UNCHANGED result
         /\ Verdict[snapshot'].terminal # "none" =>
              /\ pc' = "close"
              /\ result' \in GameRecord /\ result' # Nothing
              /\ result'.failed = Nothing /\ result'.valid_strength_game = TRUE
              /\ PlayedGameReplays'
<1> DEFINE n == Len(moves)
           v == Verdict[snapshot']
           w == IF v.winner = Nothing THEN Nothing ELSE version[EngineAt(v.winner)]
           points == IF v.winner = Nothing THEN "draw"
                     ELSE PointsFor(version[EngineAt(v.winner)])
<1>1. /\ snapshot' = Append(snapshot, answer.text) /\ snapshot' \in Position
      /\ moves' \in Seq(MoveRecord) /\ Len(moves') = n + 1
      /\ \A i \in 1 .. n + 1 : Follows(moves', i)
      /\ snapshot' = PositionAfter(moves', n + 1)
      /\ Cardinality(Valid(moves')) = n + 1
  BY ApplyFollows
<1>2. Serving /\ n \in Nat /\ n < Horizon /\ Horizon \in Nat /\ first \in Engine /\ first' = first
      /\ version \in [Engine -> VersionId] /\ version' = version
  BY GameGoesOn, MatchConstants DEF MatchTypeOK, Apply, Clean, Serving
<1>3. IF v.terminal = "none"
      THEN pc' = "ask" /\ UNCHANGED result
      ELSE /\ pc' = "close"
           /\ result' = Result(snapshot', moves', v.terminal, w, points, Nothing, Nothing)
  BY <1>1 DEF Apply, Won
<1>4. SUFFICES ASSUME v.terminal # "none"
               PROVE  /\ result' \in GameRecord /\ result' # Nothing
                      /\ result'.failed = Nothing /\ result'.valid_strength_game = TRUE
                      /\ PlayedGameReplays'
  BY <1>3
<1>5. v.terminal \in {"catch", "try", "draw"} /\ v.winner \in Seat \cup {Nothing}
  BY <1>1, <1>4, RefereeKnows
<1>6. /\ w \in VersionId \cup {Nothing} /\ points \in {"win", "draw", "loss"}
      /\ v.winner # Nothing => EngineAt(v.winner) \in Engine
  BY <1>2, <1>5, Seats DEF PointsFor
<1> HIDE DEF v, w, points
<1>7. Tells(result', snapshot', moves', v.terminal, w, points, Nothing, Nothing)
  BY <1>3, <1>4, ResultFields
<1>8. result' \in GameRecord /\ result' # Nothing
  <2>1. Len(moves') \in 0 .. Horizon /\ Cardinality(Valid(moves')) \in 0 .. Horizon
    BY <1>1, <1>2
  <2>2. v.terminal \in {"catch", "try", "draw", "forfeit", "referee_failure"}
    BY <1>5
  <2>3. result' = Result(snapshot', moves', v.terminal, w, points, Nothing, Nothing)
    BY <1>3, <1>4
  <2>4. QED
    BY <1>1, <1>6, <2>1, <2>2, <2>3, ResultTypes
<1>9. /\ result'.failed = Nothing /\ result'.valid_strength_game = TRUE
      /\ result'.terminal = v.terminal /\ result'.total_actions = n + 1
      /\ result'.final \in {Nothing, snapshot'}
  BY <1>1, <1>5, <1>7 DEF Tells
<1>10. /\ result'.winner = IF v.winner = Nothing THEN Nothing ELSE version[EngineAt(v.winner)]
       /\ Distinguished \/ v.winner = Nothing =>
            result'.candidate_result =
              IF v.winner = Nothing THEN "draw"
              ELSE IF EngineAt(v.winner) = "candidate" THEN "win" ELSE "loss"
  <2>1. result'.winner = w /\ result'.candidate_result = points
    BY <1>7 DEF Tells
  <2>2. CASE v.winner = Nothing
    BY <2>1, <2>2 DEF w, points
  <2>3. CASE v.winner # Nothing
    <3>1. w = version[EngineAt(v.winner)] /\ points = PointsFor(version[EngineAt(v.winner)])
      BY <2>3 DEF w, points
    <3>2. Distinguished =>
            points = IF EngineAt(v.winner) = "candidate" THEN "win" ELSE "loss"
      BY <1>6, <2>3, <3>1 DEF Distinguished, PointsFor, SideOf, Engine
    <3>3. QED
      BY <2>1, <2>3, <3>1, <3>2
  <2>4. QED
    BY <2>2, <2>3
<1>11. Replays(moves', result')
  BY <1>1, <1>9 DEF Replays, Follows, v
<1>12. PlayedGameReplays'
  <2>1. PositionAfter(moves', result'.total_actions) = snapshot'
    BY <1>1, <1>9
  <2>2. \A seat : EngineAt(seat)' = EngineAt(seat)
    BY <1>2 DEF EngineAt, Other
  <2>3. QED
    BY <1>2, <1>10, <1>11, <2>1, <2>2 DEF PlayedGameReplays, Distinguished, v
<1>13. QED
  BY <1>8, <1>9, <1>12

-----------------------------------------------------------------------------
(* What happens to an engine.                                              *)

(* A change of engine e that leaves the other one alone.                   *)
OnlyOf(e) ==
  /\ engine' \in [Engine -> Process]
  /\ \A f \in Engine : f # e => engine'[f] = engine[f]

LEMMA ProcessFields ==
  ASSUME MatchTypeOK, NEW e \in Engine
  PROVE  /\ engine \in [Engine -> Process] /\ engine[e] \in Process
         /\ engine[e].asked \in Seq(Position) /\ engine[e].output \in Seq(Line)
         /\ engine[e].strays \in 0 .. MaxStrays
         /\ engine[e].alive \in BOOLEAN /\ engine[e].fault \in BOOLEAN
BY DEF MatchTypeOK, Process

LEMMA AnswerOf ==
  ASSUME MatchTypeOK, NEW e \in Engine, Answer(e)
  PROVE  \E text \in Action \cup {NotInteger} :
           /\ OnlyOf(e)
           /\ engine[e].alive /\ engine[e].asked # <<>>
           /\ engine'[e].alive = engine[e].alive /\ engine'[e].strays = engine[e].strays
           /\ engine'[e].asked = Tail(engine[e].asked)
           /\ engine'[e].output
                = Append(engine[e].output, [for |-> Head(engine[e].asked), text |-> text])
           /\ engine[e].fault => engine'[e].fault
           /\ ~engine'[e].fault => text \in Legal[Head(engine[e].asked)]
<1> DEFINE old == engine[e]
<1>1. PICK text \in Action \cup {NotInteger} :
        engine' = [engine EXCEPT
          ![e].asked = Tail(@),
          ![e].output = Append(@, [for |-> Head(old.asked), text |-> text]),
          ![e].fault = @ \/ text \notin Legal[Head(old.asked)]]
  BY DEF Answer
<1>2. old.alive /\ old.asked # <<>>
  BY DEF Answer
<1>3. /\ engine \in [Engine -> Process] /\ old \in Process
      /\ old.asked \in Seq(Position) /\ old.output \in Seq(Line)
  BY ProcessFields
<1>4. Head(old.asked) \in Position /\ Tail(old.asked) \in Seq(Position)
  BY <1>2, <1>3, HeadTailProperties
<1> DEFINE line == [for |-> Head(old.asked), text |-> text]
           fault == old.fault \/ text \notin Legal[Head(old.asked)]
<1>5. Append(old.output, line) \in Seq(Line)
  <2>1. line \in Line
    BY <1>4 DEF Line
  <2>2. QED
    BY <1>3, <2>1, AppendProperties
<1>6. engine'[e] = [old EXCEPT !.asked = Tail(@), !.output = Append(@, line), !.fault = fault]
  BY <1>1, <1>3
<1>7. fault \in BOOLEAN
  OBVIOUS
<1> HIDE DEF line, fault
<1>8. /\ engine'[e] \in Process
      /\ engine'[e].alive = old.alive /\ engine'[e].strays = old.strays
      /\ engine'[e].asked = Tail(old.asked) /\ engine'[e].output = Append(old.output, line)
      /\ engine'[e].fault = fault
  BY <1>3, <1>4, <1>5, <1>6, <1>7 DEF Process
<1>9. OnlyOf(e)
  BY <1>1, <1>3, <1>8 DEF OnlyOf
<1>10. (old.fault => engine'[e].fault) /\ (~engine'[e].fault => text \in Legal[Head(old.asked)])
  BY <1>8 DEF fault
<1>11. QED
  BY <1>2, <1>8, <1>9, <1>10 DEF line

LEMMA StrayOf ==
  ASSUME MatchTypeOK, NEW e \in Engine, Stray(e)
  PROVE  /\ OnlyOf(e)
         /\ engine'[e].alive = engine[e].alive /\ engine'[e].asked = engine[e].asked
         /\ engine'[e].strays > 0 /\ engine'[e].fault
<1>1. PICK text \in Action \cup {NotInteger} :
        engine' = [engine EXCEPT
          ![e].strays = @ + 1,
          ![e].output = Append(@, [for |-> Nothing, text |-> text]),
          ![e].fault = TRUE]
  BY DEF Stray
<1> DEFINE line == [for |-> Nothing, text |-> text]
<1>2. /\ engine \in [Engine -> Process] /\ engine[e] \in Process
      /\ engine[e].output \in Seq(Line)
      /\ engine[e].strays + 1 \in 0 .. MaxStrays /\ engine[e].strays + 1 > 0
  BY ProcessFields, MatchConstants DEF Stray
<1>3. Append(engine[e].output, line) \in Seq(Line)
  <2>1. line \in Line
    BY DEF Line
  <2>2. QED
    BY <1>2, <2>1, AppendProperties
<1>4. engine'[e] = [engine[e] EXCEPT !.strays = @ + 1, !.output = Append(@, line), !.fault = TRUE]
  BY <1>1, <1>2
<1> HIDE DEF line
<1>5. /\ engine'[e] \in Process
      /\ engine'[e].alive = engine[e].alive /\ engine'[e].asked = engine[e].asked
      /\ engine'[e].strays > 0 /\ engine'[e].fault = TRUE
  BY <1>2, <1>3, <1>4 DEF Process
<1>6. OnlyOf(e)
  BY <1>1, <1>2, <1>5 DEF OnlyOf
<1>7. QED
  BY <1>5, <1>6

LEMMA CrashOf ==
  ASSUME MatchTypeOK, NEW e \in Engine, Crash(e)
  PROVE  /\ OnlyOf(e)
         /\ engine'[e].asked = engine[e].asked /\ engine'[e].output = engine[e].output
         /\ engine'[e].strays = engine[e].strays /\ engine'[e].fault /\ ~engine'[e].alive
<1>1. engine \in [Engine -> Process] /\ engine[e] \in Process
  BY ProcessFields
<1>2. engine'[e] = [engine[e] EXCEPT !.alive = FALSE, !.fault = TRUE]
  BY <1>1 DEF Crash
<1>3. /\ engine'[e] \in Process
      /\ engine'[e].asked = engine[e].asked /\ engine'[e].output = engine[e].output
      /\ engine'[e].strays = engine[e].strays
      /\ engine'[e].fault = TRUE /\ engine'[e].alive = FALSE
  BY <1>1, <1>2 DEF Process
<1>4. OnlyOf(e)
  BY <1>1, <1>3 DEF OnlyOf, Crash
<1>5. QED
  BY <1>3, <1>4

(* Starting or killing e.                                                  *)
LEMMA AliveOf ==
  ASSUME MatchTypeOK, NEW e \in Engine, NEW b \in BOOLEAN,
         engine' = [engine EXCEPT ![e].alive = b]
  PROVE  /\ OnlyOf(e)
         /\ engine'[e].asked = engine[e].asked /\ engine'[e].output = engine[e].output
         /\ engine'[e].strays = engine[e].strays /\ engine'[e].fault = engine[e].fault
         /\ engine'[e].alive = b
<1>1. engine \in [Engine -> Process] /\ engine[e] \in Process
  BY ProcessFields
<1>2. engine'[e] = [engine[e] EXCEPT !.alive = b]
  BY <1>1
<1>3. /\ engine'[e] \in Process
      /\ engine'[e].asked = engine[e].asked /\ engine'[e].output = engine[e].output
      /\ engine'[e].strays = engine[e].strays /\ engine'[e].fault = engine[e].fault
      /\ engine'[e].alive = b
  BY <1>1, <1>2 DEF Process
<1>4. OnlyOf(e)
  BY <1>1, <1>3 DEF OnlyOf
<1>5. QED
  BY <1>3, <1>4

(* close() of both engines.                                                *)
LEMMA BothClosed ==
  ASSUME MatchTypeOK, engine' = [e \in Engine |-> [engine[e] EXCEPT !.alive = FALSE]]
  PROVE  /\ engine' \in [Engine -> Process]
         /\ \A e \in Engine :
              /\ engine'[e].asked = engine[e].asked /\ engine'[e].output = engine[e].output
              /\ engine'[e].strays = engine[e].strays /\ engine'[e].fault = engine[e].fault
              /\ ~engine'[e].alive
<1>1. ASSUME NEW e \in Engine
      PROVE  /\ engine'[e] \in Process
             /\ engine'[e].asked = engine[e].asked /\ engine'[e].output = engine[e].output
             /\ engine'[e].strays = engine[e].strays /\ engine'[e].fault = engine[e].fault
             /\ engine'[e].alive = FALSE
  <2>1. engine[e] \in Process /\ engine'[e] = [engine[e] EXCEPT !.alive = FALSE]
    BY ProcessFields
  <2>2. QED
    BY <2>1 DEF Process
<1>2. QED
  BY <1>1

LEMMA AskOf ==
  ASSUME MatchTypeOK, Ask
  PROVE  /\ Mover \in Engine /\ OnlyOf(Mover)
         /\ engine'[Mover].asked = Append(engine[Mover].asked, snapshot)
         /\ engine'[Mover].output = engine[Mover].output
         /\ engine'[Mover].strays = engine[Mover].strays
         /\ engine'[Mover].fault = engine[Mover].fault
         /\ engine'[Mover].alive = engine[Mover].alive
<1> DEFINE e == Mover
<1>1. e \in Engine /\ snapshot \in Position
  BY Seats DEF MatchTypeOK
<1>2. engine' = [engine EXCEPT ![e].asked = Append(@, snapshot)]
  BY DEF Ask
<1> HIDE DEF e
<1>3. /\ engine \in [Engine -> Process] /\ engine[e] \in Process
      /\ engine[e].asked \in Seq(Position)
  BY <1>1, ProcessFields
<1>4. Append(engine[e].asked, snapshot) \in Seq(Position)
  BY <1>1, <1>3, AppendProperties
<1>5. engine'[e] = [engine[e] EXCEPT !.asked = Append(@, snapshot)]
  BY <1>1, <1>2, <1>3
<1>6. /\ engine'[e] \in Process
      /\ engine'[e].asked = Append(engine[e].asked, snapshot)
      /\ engine'[e].output = engine[e].output
      /\ engine'[e].strays = engine[e].strays /\ engine'[e].fault = engine[e].fault
      /\ engine'[e].alive = engine[e].alive
  BY <1>3, <1>4, <1>5 DEF Process
<1>7. OnlyOf(e)
  BY <1>2, <1>3, <1>6 DEF OnlyOf
<1>8. QED
  BY <1>1, <1>6, <1>7 DEF e

LEMMA GetOf ==
  ASSUME MatchTypeOK, Get
  PROVE  /\ Mover \in Engine /\ OnlyOf(Mover)
         /\ engine[Mover].output # <<>>
         /\ answer' = engine[Mover].output[1] /\ answer' \in Line
         /\ engine'[Mover].output = Tail(engine[Mover].output)
         /\ engine'[Mover].asked = engine[Mover].asked
         /\ engine'[Mover].strays = engine[Mover].strays
         /\ engine'[Mover].fault = engine[Mover].fault
         /\ engine'[Mover].alive = engine[Mover].alive
<1> DEFINE e == Mover
<1>1. e \in Engine
  BY Seats DEF MatchTypeOK
<1>2. /\ engine[e].output # <<>> /\ answer' = Head(engine[e].output)
      /\ engine' = [engine EXCEPT ![e].output = Tail(@)]
  BY DEF Get
<1> HIDE DEF e
<1>3. /\ engine \in [Engine -> Process] /\ engine[e] \in Process
      /\ engine[e].output \in Seq(Line)
  BY <1>1, ProcessFields
<1>4. Tail(engine[e].output) \in Seq(Line) /\ Head(engine[e].output) \in Line
  BY <1>2, <1>3, HeadTailProperties
<1>5. engine'[e] = [engine[e] EXCEPT !.output = Tail(@)]
  BY <1>1, <1>2, <1>3
<1>6. /\ engine'[e] \in Process
      /\ engine'[e].output = Tail(engine[e].output)
      /\ engine'[e].asked = engine[e].asked
      /\ engine'[e].strays = engine[e].strays /\ engine'[e].fault = engine[e].fault
      /\ engine'[e].alive = engine[e].alive
  BY <1>3, <1>4, <1>5 DEF Process
<1>7. OnlyOf(e)
  BY <1>2, <1>3, <1>6 DEF OnlyOf
<1>8. Head(engine[e].output) = engine[e].output[1]
  BY <1>2, <1>3
<1>9. QED
  BY <1>1, <1>2, <1>4, <1>6, <1>7, <1>8 DEF e

-----------------------------------------------------------------------------
(* The invariant is inductive.                                             *)

Forfeits ==
  CrashNoticed \/ PollDead \/ KillLate \/ Malformed \/ Desynchronized \/ Illegal

LEMMA ForfeitCases ==
  ASSUME InStep, Forfeits
  PROVE  /\ Serving /\ pc' = "close" /\ answer' = Nothing
         /\ UNCHANGED <<version, first, snapshot>>
         /\ \E status \in Failure, action \in Action \cup {NotInteger, Nothing} :
              Forfeit(status, action)
<1>1. CASE CrashNoticed
  <2>1. Forfeit("process_crash", Nothing)
    BY <1>1 DEF CrashNoticed
  <2>2. QED
    BY <1>1, <2>1 DEF CrashNoticed, Forfeit, LostBy, Serving, Failure
<1>2. CASE PollDead \/ KillLate
  <2>1. \E status \in {"external_timeout", "process_crash"} : Forfeit(status, Nothing)
    BY <1>2 DEF PollDead, KillLate
  <2>2. pc \in {"expired", "kill"} /\ UNCHANGED <<version, first, snapshot>>
    BY <1>2 DEF PollDead, KillLate
  <2>3. QED
    BY <2>1, <2>2 DEF Forfeit, LostBy, Serving, Failure
<1>3. CASE Malformed
  <2>1. Forfeit("malformed_output", Nothing)
    BY <1>3 DEF Malformed
  <2>2. QED
    BY <1>3, <2>1 DEF Malformed, Forfeit, LostBy, Serving, Failure
<1>4. CASE Desynchronized \/ Illegal
  <2>1. /\ pc = "settle" /\ UNCHANGED <<version, first, snapshot>>
        /\ \/ Forfeit("protocol_desynchronization", answer.text)
           \/ Forfeit("illegal_action", answer.text)
    BY <1>4 DEF Desynchronized, Illegal, Clean
  <2>2. answer.text \in Action \cup {NotInteger}
    BY <2>1 DEF InStep, Line
  <2>3. QED
    BY <2>1, <2>2 DEF Forfeit, LostBy, Serving, Failure
<1>5. QED
  BY <1>1, <1>2, <1>3, <1>4 DEF Forfeits

LEMMA EngineTypes ==
  ASSUME MatchTypeOK, [MatchNext]_matchVars
  PROVE  engine' \in [Engine -> Process]
<1>0. /\ first \in Engine /\ Other(first) \in Engine /\ Mover \in Engine
      /\ engine \in [Engine -> Process]
  BY Seats DEF MatchTypeOK
<1>1. CASE UNCHANGED engine
  BY <1>0, <1>1
<1>2. ASSUME NEW e \in Engine, Answer(e) \/ Stray(e) \/ Crash(e)
      PROVE  engine' \in [Engine -> Process]
  BY <1>2, AnswerOf, StrayOf, CrashOf DEF OnlyOf
<1>3. ASSUME NEW e \in Engine, NEW b \in BOOLEAN, engine' = [engine EXCEPT ![e].alive = b]
      PROVE  engine' \in [Engine -> Process]
  BY <1>3, AliveOf DEF OnlyOf
<1>4. CASE StartFirst \/ StartSecond \/ KillLate
  <2>1. \/ UNCHANGED engine
        \/ engine' = [engine EXCEPT ![first].alive = TRUE]
        \/ engine' = [engine EXCEPT ![Other(first)].alive = TRUE]
        \/ engine' = [engine EXCEPT ![Mover].alive = FALSE]
    BY <1>4 DEF StartFirst, StartSecond, KillLate
  <2>2. QED
    BY <1>0, <1>1, <1>3, <2>1
<1>5. CASE Ask \/ Get
  BY <1>5, AskOf, GetOf DEF OnlyOf
<1>6. CASE Close \/ Interrupt
  BY <1>6, BothClosed DEF Close, Interrupt
<1>7. QED
  BY <1>1, <1>2, <1>4, <1>5, <1>6
  DEF MatchNext, Harness, Load, CrashNoticed, QueueEmpty, PollDead, PollAlive, Malformed,
      Desynchronized, Illegal, Apply, RefereeFails, matchVars

LEMMA MatchTypesStep ==
  ASSUME MatchTypeOK, InStep, PlayInv, [MatchNext]_matchVars
  PROVE  MatchTypeOK'
<1>0. engine' \in [Engine -> Process]
  BY EngineTypes
<1> USE DEF MatchTypeOK
<1>1. CASE Forfeits
  <2>1. /\ Serving /\ pc' = "close" /\ answer' = Nothing /\ UNCHANGED <<version, first, snapshot>>
        /\ moves' \in Seq(MoveRecord) /\ result' \in GameRecord
    BY <1>1, ForfeitCases, ForfeitEnds
  <2>2. QED
    BY <1>0, <2>1
<1>2. CASE Apply
  <2>1. /\ snapshot' \in Position /\ moves' \in Seq(MoveRecord)
        /\ result' \in GameRecord \cup {Nothing}
        /\ pc' \in {"ask", "close"}
    BY <1>2, ApplyFollows, ApplyEnds
  <2>2. answer' = Nothing /\ first' = first /\ version' = version
    BY <1>2 DEF Apply
  <2>3. QED
    BY <1>0, <2>1, <2>2
<1>3. CASE RefereeFails
  <2>1. result' \in GameRecord
    BY <1>3, RefereeFailureEnds
  <2>2. QED
    BY <1>0, <1>3, <2>1 DEF RefereeFails
<1>4. CASE Get
  BY <1>0, <1>4, GetOf DEF Get
<1>5. CASE \/ StartFirst \/ StartSecond \/ Load \/ Ask \/ QueueEmpty \/ PollAlive
           \/ Close \/ Interrupt
  BY <1>0, <1>5
  DEF StartFirst, StartSecond, Load, Ask, QueueEmpty, PollAlive, Close, Interrupt
<1>6. CASE \E e \in Engine : Answer(e) \/ Stray(e) \/ Crash(e)
  BY <1>0, <1>6 DEF Answer, Stray, Crash
<1>7. CASE UNCHANGED matchVars
  BY <1>0, <1>7 DEF matchVars
<1>8. QED
  BY <1>1, <1>2, <1>3, <1>4, <1>5, <1>6, <1>7 DEF MatchNext, Harness, Forfeits

LEMMA SameMover ==
  ASSUME UNCHANGED <<first, snapshot>>
  PROVE  Mover' = Mover
BY DEF Mover, EngineAt, SeatToMove

LEMMA OneAnswer ==
  ASSUME NEW line
  PROVE  /\ Append(<<>>, line) = <<line>> /\ Len(<<line>>) = 1 /\ <<line>>[1] = line
         /\ Tail(<<line>>) = <<>> /\ Head(<<line>>) = line /\ <<line>> # <<>>
OBVIOUS

(* The lone line of a queue is taken out of it.                            *)
LEMMA LoneLine ==
  ASSUME NEW q \in Seq(Line), Len(q) = 1
  PROVE  Tail(q) = <<>>
<1>1. Tail(q) \in Seq(Line) /\ Len(Tail(q)) = 0
  BY HeadTailProperties, EmptySeq
<1>2. QED
  BY <1>1, EmptySeq

(* Quiet and Asked look at one engine.                                     *)
LEMMA SameProcess ==
  ASSUME NEW e \in Engine, engine'[e].asked = engine[e].asked,
         engine'[e].output = engine[e].output, UNCHANGED <<first, snapshot>>
  PROVE  (Quiet(e) => Quiet(e)') /\ (Asked(e) => Asked(e)')
BY DEF Quiet, Asked

LEMMA InStepStep ==
  ASSUME MatchTypeOK, InStep, PlayInv, [MatchNext]_matchVars
  PROVE  InStep'
<1>0. /\ first \in Engine /\ Mover \in Engine
      /\ \A e \in Engine : engine[e].asked \in Seq(Position) /\ engine[e].output \in Seq(Line)
  BY Seats, ProcessFields DEF MatchTypeOK
<1>1. ASSUME NEW e \in Engine, Answer(e)
      PROVE  InStep'
  <2>1. UNCHANGED <<pc, first, snapshot, answer>> /\ Mover' = Mover
    BY <1>1, SameMover DEF Answer
  <2>2. PICK text \in Action \cup {NotInteger} :
          /\ OnlyOf(e)
          /\ engine[e].asked # <<>> /\ engine'[e].strays = engine[e].strays
          /\ engine'[e].asked = Tail(engine[e].asked)
          /\ engine'[e].output
               = Append(engine[e].output, [for |-> Head(engine[e].asked), text |-> text])
    BY <1>1, AnswerOf
  <2>3. ASSUME Serving, NEW f \in Engine, engine'[f].strays = 0
        PROVE  IF Waiting /\ f = Mover THEN Asked(f)' ELSE Quiet(f)'
    <3>1. CASE f # e
      BY <2>1, <2>2, <2>3, <3>1, SameProcess DEF OnlyOf, InStep
    <3>2. CASE f = e
      <4>1. Waiting /\ e = Mover /\ Asked(e)
        BY <2>2, <2>3, <3>2 DEF InStep, Quiet
      <4>2. engine[e].asked = <<snapshot>> /\ engine[e].output = <<>>
        BY <2>2, <4>1 DEF Asked
      <4>3. /\ engine'[e].asked = <<>>
            /\ engine'[e].output = <<[for |-> snapshot, text |-> text]>>
        BY <2>2, <4>2, OneAnswer
      <4>4. Asked(e)'
        BY <2>1, <4>3, OneAnswer DEF Asked
      <4>5. QED
        BY <3>2, <4>1, <4>4
    <3>3. QED
      BY <3>1, <3>2
  <2>4. Serving' = Serving /\ Waiting' = Waiting
    BY <2>1 DEF Serving, Waiting
  <2>5. engine'[Mover].strays = engine[Mover].strays
    BY <1>0, <2>2 DEF OnlyOf
  <2>6. QED
    BY <2>1, <2>3, <2>4, <2>5 DEF InStep
<1>2. ASSUME NEW e \in Engine, Stray(e) \/ Crash(e)
      PROVE  InStep'
  <2>1. UNCHANGED <<pc, first, snapshot, answer>> /\ Mover' = Mover
    BY <1>2, SameMover DEF Stray, Crash
  <2>2. \A f \in Engine : engine'[f].strays = 0 =>
          /\ engine[f].strays = 0
          /\ engine'[f].asked = engine[f].asked /\ engine'[f].output = engine[f].output
    BY <1>2, StrayOf, CrashOf DEF OnlyOf
  <2>3. ASSUME Serving, NEW f \in Engine, engine'[f].strays = 0
        PROVE  IF Waiting /\ f = Mover THEN Asked(f)' ELSE Quiet(f)'
    BY <2>1, <2>2, <2>3, SameProcess DEF InStep
  <2>4. Serving' = Serving /\ Waiting' = Waiting
    BY <2>1 DEF Serving, Waiting
  <2>5. QED
    BY <1>0, <2>1, <2>2, <2>3, <2>4 DEF InStep
<1>3. CASE StartFirst \/ StartSecond \/ Load
  <2>1. /\ \A f \in Engine : /\ engine'[f].asked = engine[f].asked
                             /\ engine'[f].output = engine[f].output
                             /\ engine'[f].strays = engine[f].strays
        /\ UNCHANGED <<version, first, snapshot>>
    <3>1. \/ UNCHANGED engine
          \/ engine' = [engine EXCEPT ![first].alive = TRUE]
          \/ engine' = [engine EXCEPT ![Other(first)].alive = TRUE]
      BY <1>3 DEF StartFirst, StartSecond, Load
    <3>2. UNCHANGED <<version, first, snapshot>>
      BY <1>3 DEF StartFirst, StartSecond, Load
    <3>3. Other(first) \in Engine
      BY <1>0, Seats
    <3>4. QED
      BY <1>0, <3>1, <3>2, <3>3, AliveOf DEF OnlyOf
  <2>2. Serving /\ ~Waiting /\ ~Waiting' /\ pc' # "settle"
    BY <1>3 DEF StartFirst, StartSecond, Load, Serving, Waiting
  <2>3. \A f \in Engine : engine'[f].strays = 0 => Quiet(f)'
    BY <2>1, <2>2, SameProcess DEF InStep
  <2>4. QED
    BY <2>2, <2>3 DEF InStep
<1>4. CASE Ask
  <2>1. /\ pc = "ask" /\ pc' = "wait" /\ Serving
        /\ UNCHANGED <<version, first, snapshot>> /\ Mover' = Mover
        /\ ~Waiting /\ Waiting'
    BY <1>4, SameMover DEF Ask, Serving, Waiting
  <2>2. /\ OnlyOf(Mover)
        /\ engine'[Mover].asked = Append(engine[Mover].asked, snapshot)
        /\ engine'[Mover].output = engine[Mover].output
        /\ engine'[Mover].strays = engine[Mover].strays
    BY <1>4, AskOf
  <2>3. ASSUME NEW f \in Engine, engine'[f].strays = 0
        PROVE  IF f = Mover THEN Asked(f)' ELSE Quiet(f)'
    <3>1. CASE f = Mover
      <4>1. engine[f].asked = <<>> /\ engine[f].output = <<>>
        BY <2>1, <2>2, <2>3, <3>1 DEF InStep, Quiet
      <4>2. engine'[f].asked = <<snapshot>> /\ engine'[f].output = <<>>
        BY <2>2, <3>1, <4>1, OneAnswer
      <4>3. Asked(f)'
        BY <2>1, <4>2 DEF Asked
      <4>4. QED
        BY <3>1, <4>3
    <3>2. CASE f # Mover
      BY <2>1, <2>2, <2>3, <3>2, SameProcess DEF InStep, OnlyOf
    <3>3. QED
      BY <3>1, <3>2
  <2>4. QED
    BY <2>1, <2>3 DEF InStep
<1>5. CASE Get
  <2>1. /\ pc = "wait" /\ pc' = "settle" /\ Serving
        /\ UNCHANGED <<version, first, snapshot>> /\ Mover' = Mover
        /\ Waiting /\ ~Waiting'
    BY <1>5, SameMover DEF Get, Serving, Waiting
  <2>2. /\ OnlyOf(Mover) /\ engine[Mover].output # <<>>
        /\ answer' = engine[Mover].output[1] /\ answer' \in Line
        /\ engine'[Mover].output = Tail(engine[Mover].output)
        /\ engine'[Mover].asked = engine[Mover].asked
        /\ engine'[Mover].strays = engine[Mover].strays
    BY <1>5, GetOf
  <2>3. engine[Mover].strays = 0 =>
          /\ engine[Mover].asked = <<>> /\ Len(engine[Mover].output) = 1
          /\ engine[Mover].output[1].for = snapshot
    BY <1>0, <2>1, <2>2 DEF InStep, Asked
  <2>4. ASSUME NEW f \in Engine, engine'[f].strays = 0
        PROVE  Quiet(f)'
    <3>1. CASE f = Mover
      <4>1. engine'[f].asked = <<>> /\ engine'[f].output = <<>>
        BY <1>0, <2>2, <2>3, <2>4, <3>1, LoneLine
      <4>2. QED
        BY <4>1 DEF Quiet
    <3>2. CASE f # Mover
      BY <2>1, <2>2, <2>4, <3>2, SameProcess DEF InStep, OnlyOf
    <3>3. QED
      BY <3>1, <3>2
  <2>5. QED
    BY <2>1, <2>2, <2>3, <2>4 DEF InStep
<1>6. CASE Apply
  <2>1. pc = "settle" /\ pc' \in {"ask", "close"} /\ UNCHANGED engine /\ Serving
        /\ ~Waiting /\ ~Waiting'
    BY <1>6 DEF Apply, Clean, Serving, Waiting
  <2>2. \A f \in Engine : engine[f].strays = 0 => Quiet(f)
    BY <2>1 DEF InStep
  <2>3. \A f \in Engine : engine'[f].strays = 0 => Quiet(f)'
    BY <2>1, <2>2 DEF Quiet
  <2>4. QED
    BY <2>1, <2>3 DEF InStep
<1>7. CASE pc' \in {"close", "ended", "raised"}
  BY <1>7 DEF InStep, Serving
<1>8. CASE UNCHANGED matchVars
  <2>1. UNCHANGED <<pc, first, engine, snapshot, answer>> /\ Mover' = Mover
    BY <1>8, SameMover DEF matchVars
  <2>2. QED
    BY <2>1 DEF InStep, Serving, Waiting, Quiet, Asked
(* The harness waits on.                                                   *)
<1>9. CASE QueueEmpty \/ PollAlive
  <2>1. /\ Serving /\ Serving' /\ Waiting /\ Waiting' /\ pc' # "settle"
        /\ UNCHANGED <<first, engine, snapshot>> /\ Mover' = Mover
    BY <1>9, SameMover DEF QueueEmpty, PollAlive, Serving, Waiting
  <2>2. QED
    BY <2>1 DEF InStep, Quiet, Asked
<1>10. QED
  BY <1>1, <1>2, <1>3, <1>4, <1>5, <1>6, <1>7, <1>8, <1>9, ForfeitCases
  DEF MatchNext, Harness, RefereeFails, Close, Interrupt, Forfeits

(* Blameless looks at one engine, and at the answer when that is its own.  *)
LEMMA StaysBlameless ==
  ASSUME NEW e \in Engine, Blameless(e), UNCHANGED first,
         engine'[e].output = engine[e].output, engine'[e].strays = engine[e].strays,
         \/ pc' \in {"start", "close", "ended", "raised"}
         \/ engine'[e].alive
         \/ UNCHANGED pc /\ engine'[e].alive = engine[e].alive
         \/ pc' = "start second" /\ e # first,
         \/ pc' # "settle"
         \/ UNCHANGED <<pc, snapshot, answer>>
  PROVE  Blameless(e)'
<1>1. pc' = "settle" => UNCHANGED <<pc, answer>> /\ Mover' = Mover
  BY SameMover
<1>2. QED
  BY <1>1 DEF Blameless, Waiting

LEMMA FaultsStep ==
  ASSUME MatchTypeOK, InStep, PlayInv, FaultsKnown, [MatchNext]_matchVars
  PROVE  FaultsKnown'
<1>0. /\ first \in Engine /\ Mover \in Engine /\ Other(first) \in Engine
      /\ Other(first) # first /\ \A f \in Engine : f = first \/ f = Other(first)
      /\ \A e \in Engine : engine[e].asked \in Seq(Position) /\ engine[e].output \in Seq(Line)
  BY Seats, ProcessFields DEF MatchTypeOK
<1>1. ASSUME NEW e \in Engine, Answer(e)
      PROVE  FaultsKnown'
  <2>1. UNCHANGED <<pc, first, snapshot, answer>> /\ Mover' = Mover
    BY <1>1, SameMover DEF Answer
  <2>2. PICK text \in Action \cup {NotInteger} :
          /\ OnlyOf(e)
          /\ engine[e].alive /\ engine[e].asked # <<>>
          /\ engine'[e].alive = engine[e].alive /\ engine'[e].strays = engine[e].strays
          /\ engine'[e].output
               = Append(engine[e].output, [for |-> Head(engine[e].asked), text |-> text])
          /\ engine[e].fault => engine'[e].fault
          /\ ~engine'[e].fault => text \in Legal[Head(engine[e].asked)]
    BY <1>1, AnswerOf
  <2>3. ASSUME NEW f \in Engine, f # e, ~engine'[f].fault
        PROVE  Blameless(f)'
    <3>1. engine'[f] = engine[f]
      BY <2>2, <2>3 DEF OnlyOf
    <3>2. Blameless(f)
      BY <2>3, <3>1 DEF FaultsKnown
    <3>3. QED
      BY <2>1, <3>1, <3>2 DEF Blameless, Waiting
  <2>4. ASSUME ~engine'[e].fault
        PROVE  Blameless(e)'
    <3> DEFINE line == [for |-> Head(engine[e].asked), text |-> text]
               q == engine[e].output
    <3>1. Blameless(e) /\ text \in Legal[Head(engine[e].asked)]
      BY <2>2, <2>4 DEF FaultsKnown
    <3>2. line \in Line /\ line.text \in Legal[line.for]
      <4>1. Head(engine[e].asked) \in Position
        BY <1>0, <2>2, HeadTailProperties
      <4>2. QED
        BY <3>1, <4>1 DEF Line
    <3> HIDE DEF line
    <3>3. /\ engine'[e].output = Append(q, line) /\ q \in Seq(Line)
      BY <1>0, <2>2 DEF line
    <3>4. /\ DOMAIN q = 1 .. Len(q) /\ Len(q) \in Nat
          /\ DOMAIN engine'[e].output = 1 .. Len(q) + 1
          /\ \A i \in 1 .. Len(q) : engine'[e].output[i] = q[i]
          /\ engine'[e].output[Len(q) + 1] = line
      <4>1. /\ Append(q, line) \in Seq(Line) /\ Len(Append(q, line)) = Len(q) + 1
            /\ \A i \in 1 .. Len(q) : Append(q, line)[i] = q[i]
            /\ Append(q, line)[Len(q) + 1] = line
        BY <3>2, <3>3, AppendProperties
      <4>2. /\ DOMAIN q = 1 .. Len(q) /\ Len(q) \in Nat
            /\ DOMAIN Append(q, line) = 1 .. Len(q) + 1
        BY <3>3, <4>1, LenProperties
      <4>3. QED
        BY <3>3, <4>1, <4>2
    <3>5. \A i \in DOMAIN engine'[e].output :
            engine'[e].output[i].text \in Legal[engine'[e].output[i].for]
      <4>1. \A i \in DOMAIN q : q[i].text \in Legal[q[i].for]
        BY <3>1 DEF Blameless, Waiting
      <4>2. \A i \in DOMAIN engine'[e].output :
              \/ i \in DOMAIN q /\ engine'[e].output[i] = q[i]
              \/ engine'[e].output[i] = line
        BY <3>4
      <4>3. QED
        BY <3>2, <4>1, <4>2
    <3>6. QED
      BY <2>1, <2>2, <3>1, <3>5 DEF Blameless, Waiting
  <2>5. QED
    BY <2>3, <2>4 DEF FaultsKnown
<1>2. ASSUME NEW e \in Engine, Stray(e) \/ Crash(e)
      PROVE  FaultsKnown'
  <2>1. UNCHANGED <<pc, first, snapshot, answer>> /\ Mover' = Mover
    BY <1>2, SameMover DEF Stray, Crash
  <2>2. ASSUME NEW f \in Engine, ~engine'[f].fault
        PROVE  Blameless(f)'
    <3>1. f # e
      BY <1>2, <2>2, StrayOf, CrashOf
    <3>2. engine'[f] = engine[f]
      BY <1>2, <3>1, StrayOf, CrashOf DEF OnlyOf
    <3>3. Blameless(f)
      BY <2>2, <3>2 DEF FaultsKnown
    <3>4. QED
      BY <2>1, <3>2, <3>3 DEF Blameless, Waiting
  <2>3. QED
    BY <2>2 DEF FaultsKnown
(* The other steps blame nobody.                                           *)
<1>3. ASSUME \A f \in Engine : /\ engine'[f].output = engine[f].output
                               /\ engine'[f].strays = engine[f].strays
                               /\ engine'[f].fault = engine[f].fault,
             UNCHANGED first,
             pc' # "settle" \/ UNCHANGED <<pc, snapshot, answer>>,
             \A f \in Engine : ~engine[f].fault =>
               \/ pc' \in {"start", "close", "ended", "raised"}
               \/ engine'[f].alive
               \/ UNCHANGED pc /\ engine'[f].alive = engine[f].alive
               \/ pc' = "start second" /\ f # first
      PROVE  FaultsKnown'
  BY <1>3, StaysBlameless DEF FaultsKnown
<1>4. CASE StartFirst
  <2>1. /\ UNCHANGED first
        /\ \/ engine' = [engine EXCEPT ![first].alive = TRUE] /\ pc' = "start second"
           \/ pc' = "raised" /\ UNCHANGED engine
    BY <1>4 DEF StartFirst
  <2>2. QED
    BY <1>0, <1>3, <2>1, AliveOf DEF OnlyOf
<1>5. CASE StartSecond
  <2>1. /\ UNCHANGED first /\ pc = "start second"
        /\ \/ engine' = [engine EXCEPT ![Other(first)].alive = TRUE] /\ pc' = "load"
           \/ pc' = "raised" /\ UNCHANGED engine
    BY <1>5 DEF StartSecond
  <2>2. ~engine[first].fault => engine[first].alive
    BY <1>0, <2>1 DEF FaultsKnown, Blameless
  <2>3. CASE pc' = "load"
    <3>1. /\ OnlyOf(Other(first))
          /\ engine'[Other(first)].output = engine[Other(first)].output
          /\ engine'[Other(first)].strays = engine[Other(first)].strays
          /\ engine'[Other(first)].fault = engine[Other(first)].fault
          /\ engine'[Other(first)].alive = TRUE
      BY <1>0, <2>1, <2>3, AliveOf
    <3>2. engine'[first] = engine[first]
      BY <1>0, <3>1 DEF OnlyOf
    <3>3. QED
      BY <1>0, <1>3, <2>1, <2>2, <2>3, <3>1, <3>2
  <2>4. QED
    BY <1>3, <2>1, <2>3
<1>6. CASE Load \/ Ask \/ QueueEmpty \/ PollAlive \/ Apply
  <2>1. /\ pc \in {"load", "ask", "settle"} \/ Waiting
        /\ pc' # "settle" /\ UNCHANGED first
    BY <1>6 DEF Load, Ask, QueueEmpty, PollAlive, Apply, Clean, Waiting
  <2>2. \A f \in Engine : /\ engine'[f].output = engine[f].output
                          /\ engine'[f].strays = engine[f].strays
                          /\ engine'[f].fault = engine[f].fault
                          /\ engine'[f].alive = engine[f].alive
    <3>1. CASE Ask
      BY <3>1, AskOf DEF OnlyOf
    <3>2. CASE UNCHANGED engine
      BY <3>2
    <3>3. QED
      BY <1>6, <3>1, <3>2 DEF Load, QueueEmpty, PollAlive, Apply
  <2>3. \A f \in Engine : ~engine[f].fault => engine'[f].alive
    BY <2>1, <2>2 DEF FaultsKnown, Blameless
  <2>4. QED
    BY <1>3, <2>1, <2>2, <2>3
<1>7. CASE Get
  <2>1. pc = "wait" /\ pc' = "settle" /\ UNCHANGED <<version, first, snapshot>> /\ Mover' = Mover
    BY <1>7, SameMover DEF Get
  <2>2. /\ OnlyOf(Mover) /\ engine[Mover].output # <<>>
        /\ answer' = engine[Mover].output[1]
        /\ engine'[Mover].output = Tail(engine[Mover].output)
        /\ engine'[Mover].strays = engine[Mover].strays
        /\ engine'[Mover].fault = engine[Mover].fault
        /\ engine'[Mover].alive = engine[Mover].alive
    BY <1>7, GetOf
  <2>3. ASSUME NEW f \in Engine, f # Mover, ~engine'[f].fault
        PROVE  Blameless(f)'
    <3>1. engine'[f] = engine[f]
      BY <2>2, <2>3 DEF OnlyOf
    <3>2. Blameless(f)
      BY <2>3, <3>1 DEF FaultsKnown
    <3>3. QED
      BY <2>1, <2>3, <3>1, <3>2 DEF Blameless, Waiting
  <2>4. ASSUME ~engine'[Mover].fault
        PROVE  Blameless(Mover)'
    <3> DEFINE q == engine[Mover].output
    <3>1. Blameless(Mover) /\ q \in Seq(Line) /\ q # <<>>
      BY <1>0, <2>2, <2>4 DEF FaultsKnown
    <3>2. /\ Len(q) \in Nat \ {0} /\ DOMAIN q = 1 .. Len(q)
          /\ DOMAIN Tail(q) = 1 .. Len(q) - 1
          /\ \A i \in 1 .. Len(q) - 1 : Tail(q)[i] = q[i + 1]
      <4>1. /\ Tail(q) \in Seq(Line) /\ Len(Tail(q)) = Len(q) - 1
            /\ \A i \in 1 .. Len(Tail(q)) : Tail(q)[i] = q[i + 1]
        BY <3>1, HeadTailProperties
      <4>2. Len(q) \in Nat \ {0} /\ DOMAIN q = 1 .. Len(q) /\ DOMAIN Tail(q) = 1 .. Len(Tail(q))
        BY <3>1, <4>1, EmptySeq, LenProperties
      <4>3. QED
        BY <4>1, <4>2
    <3>3. \A i \in DOMAIN q : q[i].text \in Legal[q[i].for]
      BY <3>1 DEF Blameless, Waiting
    <3>4. \A i \in DOMAIN Tail(q) : Tail(q)[i].text \in Legal[Tail(q)[i].for]
      <4>1. \A i \in DOMAIN Tail(q) : i + 1 \in DOMAIN q /\ Tail(q)[i] = q[i + 1]
        BY <3>2
      <4>2. QED
        BY <3>3, <4>1
    <3>5. answer'.text \in Legal[answer'.for]
      BY <2>2, <3>2, <3>3
    <3>6. engine'[Mover].strays = 0 /\ engine'[Mover].alive /\ engine'[Mover].output = Tail(q)
      BY <2>1, <2>2, <3>1 DEF Blameless, Waiting
    <3>7. Blameless(Mover)' <=>
            /\ engine'[Mover].strays = 0
            /\ engine'[Mover].alive
            /\ \A i \in DOMAIN engine'[Mover].output :
                 engine'[Mover].output[i].text \in Legal[engine'[Mover].output[i].for]
            /\ answer'.text \in Legal[answer'.for]
      BY <2>1 DEF Blameless, Waiting
    <3>8. QED
      BY <3>4, <3>5, <3>6, <3>7
  <2>5. QED
    BY <2>1, <2>3, <2>4 DEF FaultsKnown
<1>8. CASE Forfeits \/ RefereeFails
  <2>1. pc' = "close" /\ UNCHANGED first
    BY <1>8, ForfeitCases DEF RefereeFails
  <2>2. UNCHANGED engine \/ engine' = [engine EXCEPT ![Mover].alive = FALSE]
    BY <1>8
    DEF Forfeits, CrashNoticed, PollDead, KillLate, Malformed, Desynchronized, Illegal,
        RefereeFails
  <2>3. \A f \in Engine : /\ engine'[f].output = engine[f].output
                          /\ engine'[f].strays = engine[f].strays
                          /\ engine'[f].fault = engine[f].fault
    BY <1>0, <2>2, AliveOf DEF OnlyOf
  <2>4. QED
    BY <1>3, <2>1, <2>3
<1>9. CASE Close \/ Interrupt
  <2>1. /\ pc' \in {"ended", "raised"} /\ UNCHANGED first
        /\ engine' = [e \in Engine |-> [engine[e] EXCEPT !.alive = FALSE]]
    BY <1>9 DEF Close, Interrupt
  <2>2. QED
    BY <1>3, <2>1, BothClosed
<1>10. CASE UNCHANGED matchVars
  <2>1. UNCHANGED <<pc, first, engine, snapshot, answer>>
    BY <1>10 DEF matchVars
  <2>2. QED
    BY <1>3, <2>1
<1>11. QED
  BY <1>1, <1>2, <1>4, <1>5, <1>6, <1>7, <1>8, <1>9, <1>10
  DEF MatchNext, Harness, Forfeits

LEMMA PlayStep ==
  ASSUME MatchTypeOK, InStep, PlayInv, [MatchNext]_matchVars
  PROVE  PlayInv'
<1>1. SUFFICES ASSUME Serving'
               PROVE  PlayInv'
  BY DEF PlayInv
<1>2. CASE Apply
  <2>1. pc' # "close"
    BY <1>1 DEF Serving
  <2>2. /\ UNCHANGED result /\ Verdict[snapshot'].terminal = "none" /\ result = Nothing
        /\ Len(moves') \in Nat
        /\ \A i \in 1 .. Len(moves') : Follows(moves', i)
        /\ snapshot' = PositionAfter(moves', Len(moves'))
    <3>1. Serving
      BY <1>2 DEF Apply, Clean, Serving
    <3>2. Verdict[snapshot'].terminal = "none"
      BY <1>2, <2>1, ApplyEnds
    <3>3. QED
      BY <1>2, <3>1, <3>2, ApplyEnds, ApplyFollows, LenProperties DEF PlayInv
  <2>3. QED
    BY <2>2 DEF PlayInv, Follows
<1>3. CASE Serving /\ UNCHANGED <<snapshot, moves, result>>
  BY <1>3 DEF PlayInv, Follows
<1>4. QED
  BY <1>1, <1>2, <1>3, ForfeitCases
  DEF MatchNext, Harness, Forfeits, StartFirst, StartSecond, Load, Ask, Get, QueueEmpty,
      PollAlive, RefereeFails, Close, Interrupt, Answer, Stray, Crash, matchVars, Serving

(* Whoever forfeits was at fault, or has not answered in time.             *)
LEMMA ForfeiterIsGuilty ==
  ASSUME MatchTypeOK, InStep, FaultsKnown, Forfeits
  PROVE  /\ Mover \in Engine
         /\ \/ engine'[Mover].fault
            \/ /\ result'.status = "external_timeout"
               /\ AnswersLate(Mover)'
               /\ ~engine'[Mover].alive
<1>0. /\ first \in Engine /\ Mover \in Engine /\ snapshot \in Position
      /\ engine[Mover].asked \in Seq(Position) /\ engine[Mover].output \in Seq(Line)
      /\ Legal[snapshot] \subseteq Action
  BY Seats, ProcessFields, RefereeKnows DEF MatchTypeOK
<1>1. ~engine[Mover].fault =>
        /\ engine[Mover].strays = 0
        /\ pc \in {"ask", "settle"} \/ Waiting => engine[Mover].alive
        /\ pc = "settle" => answer.text \in Legal[answer.for]
  BY <1>0 DEF FaultsKnown, Blameless
<1>2. CASE CrashNoticed \/ PollDead
  <2>1. (pc = "ask" \/ Waiting) /\ ~engine[Mover].alive /\ UNCHANGED engine
    BY <1>2 DEF CrashNoticed, PollDead, Waiting
  <2>2. QED
    BY <1>0, <1>1, <2>1
(* Its answer has come too late, or never.                                 *)
<1>3. CASE KillLate
  <2>1. /\ Serving /\ Waiting /\ UNCHANGED snapshot
        /\ engine' = [engine EXCEPT ![Mover].alive = FALSE]
    BY <1>3 DEF KillLate, Serving, Waiting
  <2>2. result'.status = "external_timeout"
    <3>1. PICK winner, points, failed :
            result' = Result(snapshot, moves', "forfeit", winner, points, failed,
                             "external_timeout")
      BY <1>3 DEF KillLate, Forfeit, LostBy
    <3>2. Tells(result', snapshot, moves', "forfeit", winner, points, failed,
                "external_timeout")
      BY <3>1, ResultFields
    <3>3. QED
      BY <3>2 DEF Tells
  <2>3. /\ engine'[Mover].fault = engine[Mover].fault
        /\ engine'[Mover].asked = engine[Mover].asked
        /\ engine'[Mover].output = engine[Mover].output
        /\ ~engine'[Mover].alive
    BY <1>0, <2>1, AliveOf
  <2>4. engine[Mover].strays = 0 => AnswersLate(Mover)
    <3>1. engine[Mover].strays = 0 => Asked(Mover)
      BY <1>0, <2>1 DEF InStep
    <3>2. <<snapshot>> # <<>>
      BY OneAnswer
    <3>3. Len(engine[Mover].output) = 1 => 1 \in DOMAIN engine[Mover].output
      BY <1>0, LenProperties
    <3>4. QED
      BY <3>1, <3>2, <3>3 DEF Asked, AnswersLate
  <2>5. AnswersLate(Mover) => AnswersLate(Mover)'
    <3>1. Mover' = Mover
      BY <1>3, SameMover DEF KillLate
    <3>2. QED
      BY <2>1, <2>3, <3>1 DEF AnswersLate
  <2>6. QED
    BY <1>0, <1>1, <2>2, <2>3, <2>4, <2>5
<1>4. CASE Malformed \/ Desynchronized \/ Illegal
  <2>1. /\ pc = "settle" /\ UNCHANGED engine
        /\ \/ answer.text = NotInteger
           \/ engine[Mover].output # <<>>
           \/ answer.text \notin Legal[snapshot]
    BY <1>4 DEF Malformed, Desynchronized, Illegal, Clean
  <2>2. engine[Mover].strays = 0 => engine[Mover].output = <<>> /\ answer.for = snapshot
    BY <1>0, <2>1 DEF InStep, Serving, Waiting, Quiet
  <2>3. NotInteger \notin Legal[snapshot]
    BY <1>0, MatchConstants
  <2>4. engine[Mover].fault
    BY <1>1, <2>1, <2>2, <2>3
  <2>5. QED
    BY <1>0, <2>1, <2>4
<1>5. QED
  BY <1>2, <1>3, <1>4 DEF Forfeits

LEMMA ResultStep ==
  ASSUME MatchTypeOK, InStep, FaultsKnown, PlayInv, ResultInv, [MatchNext]_matchVars
  PROVE  ResultInv'
<1>1. CASE Forfeits
  <2>1. PICK status \in Failure, action \in Action \cup {NotInteger, Nothing} :
          Forfeit(status, action)
    BY <1>1, ForfeitCases
  <2>2. Serving /\ UNCHANGED <<version, first, snapshot>>
    BY <1>1, ForfeitCases
  <2>3. /\ result' # Nothing
        /\ result'.failed = version[Mover] /\ result'.winner = version[Other(Mover)]
        /\ Distinguished =>
             result'.candidate_result = IF Mover = "candidate" THEN "loss" ELSE "win"
        /\ result'.valid_strength_game = FALSE
        /\ PlayedGameReplays'
    BY <2>1, <2>2, ForfeitEnds
  <2>4. PICK e \in Engine : e = Mover
    BY <1>1, ForfeiterIsGuilty
  <2>5. \/ engine'[e].fault
        \/ result'.status = "external_timeout" /\ AnswersLate(e)' /\ ~engine'[e].alive
    <3>1. AnswersLate(Mover)' => AnswersLate(e)'
      <4>1. Mover' = Mover
        BY <2>2, SameMover
      <4>2. QED
        BY <2>4, <4>1 DEF AnswersLate
    <3>2. QED
      BY <1>1, <2>4, <3>1, ForfeiterIsGuilty
  <2>6. Deserved(e)'
    BY <2>2, <2>3, <2>4, <2>5 DEF Deserved, Distinguished
  <2>7. QED
    BY <2>3, <2>6 DEF ResultInv
<1>2. CASE Apply
  <2>1. Serving /\ result = Nothing
    BY <1>2 DEF Apply, Clean, Serving, PlayInv
  <2>2. \/ pc' = "ask" /\ result' = Nothing
        \/ result' # Nothing /\ result'.failed = Nothing /\ PlayedGameReplays'
    BY <1>2, <2>1, ApplyEnds
  <2>3. QED
    BY <2>2 DEF ResultInv, PlayedGameReplays
<1>3. CASE RefereeFails
  BY <1>3, RefereeFailureEnds DEF ResultInv
<1>4. CASE Serving /\ UNCHANGED result /\ pc' \notin {"close", "ended"}
  BY <1>4 DEF ResultInv, PlayedGameReplays, PlayInv
(* A game that is over keeps its result; its engines only die.             *)
<1>5. ASSUME ~Serving, UNCHANGED <<version, first, snapshot, moves, result>>,
             pc' \in {"close", "ended"} => pc \in {"close", "ended"},
             \A e \in Engine :
               /\ engine[e].fault => engine'[e].fault
               /\ ~engine[e].alive =>
                    \/ engine'[e].fault
                    \/ /\ ~engine'[e].alive
                       /\ engine'[e].asked = engine[e].asked
                       /\ engine'[e].output = engine[e].output
      PROVE  ResultInv'
  <2>1. PlayedGameReplays'
    <3>1. PlayedGameReplays
      BY DEF ResultInv
    <3>2. \A seat : EngineAt(seat)' = EngineAt(seat)
      BY <1>5 DEF EngineAt, Other
    <3>3. QED
      BY <1>5, <3>1, <3>2 DEF PlayedGameReplays, Distinguished
  <2>2. ASSUME NEW e \in Engine, Deserved(e)
        PROVE  Deserved(e)'
    <3>1. ASSUME ~engine[e].alive, AnswersLate(e), ~engine'[e].fault
          PROVE  ~engine'[e].alive /\ AnswersLate(e)'
      <4>1. /\ ~engine'[e].alive
            /\ engine'[e].asked = engine[e].asked /\ engine'[e].output = engine[e].output
        BY <1>5, <3>1
      <4>2. QED
        BY <1>5, <3>1, <4>1 DEF AnswersLate
    <3>2. QED
      BY <1>5, <2>2, <3>1 DEF Deserved, Distinguished
  <2>3. QED
    BY <1>5, <2>1, <2>2 DEF ResultInv
<1>6. ASSUME NEW e \in Engine, Answer(e) \/ Stray(e) \/ Crash(e)
      PROVE  ResultInv'
  <2>1. UNCHANGED <<pc, version, first, snapshot, moves, result>>
    BY <1>6 DEF Answer, Stray, Crash
  <2>2. /\ OnlyOf(e)
        /\ engine[e].fault => engine'[e].fault
        /\ ~engine[e].alive => engine'[e].fault
    BY <1>6, AnswerOf, StrayOf, CrashOf
  <2>3. CASE Serving
    <3>1. result = Nothing /\ pc \notin {"close", "ended"}
      BY <2>3 DEF PlayInv, Serving
    <3>2. QED
      BY <1>4, <2>1, <2>3, <3>1
  <2>4. CASE ~Serving
    BY <1>5, <2>1, <2>2, <2>4 DEF OnlyOf
  <2>5. QED
    BY <2>3, <2>4
<1>7. CASE Close \/ Interrupt
  <2>1. /\ engine' = [e \in Engine |-> [engine[e] EXCEPT !.alive = FALSE]]
        /\ UNCHANGED <<version, first, snapshot, moves, result>>
        /\ pc' = "raised" \/ pc = "close"
        /\ pc' \in {"raised", "ended"}
    BY <1>7 DEF Close, Interrupt
  <2>2. CASE Serving
    <3>1. pc' = "raised"
      BY <2>1, <2>2 DEF Serving
    <3>2. QED
      BY <1>4, <2>1, <2>2, <3>1
  <2>3. CASE ~Serving
    BY <1>5, <2>1, <2>3, BothClosed
  <2>4. QED
    BY <2>2, <2>3
<1>8. CASE UNCHANGED matchVars
  <2>1. UNCHANGED <<pc, version, first, engine, snapshot, moves, result>>
    BY <1>8 DEF matchVars
  <2>2. CASE Serving
    BY <1>4, <2>1, <2>2 DEF Serving
  <2>3. CASE ~Serving
    BY <1>5, <2>1, <2>3
  <2>4. QED
    BY <2>2, <2>3
<1>9. QED
  BY <1>1, <1>2, <1>3, <1>4, <1>6, <1>7, <1>8
  DEF MatchNext, Harness, Forfeits, StartFirst, StartSecond, Load, Ask, Get, QueueEmpty,
      PollAlive, Serving

-----------------------------------------------------------------------------
(* The theorems.                                                           *)

LEMMA MatchInvInit == MatchInit => MatchInv
<1> SUFFICES ASSUME MatchInit
             PROVE  MatchInv
  OBVIOUS
<1> USE DEF MatchInit
<1>1. /\ engine = [e \in Engine |-> NotStarted]
      /\ \A e \in Engine : engine[e] = NotStarted
      /\ NotStarted.asked = <<>> /\ NotStarted.output = <<>>
      /\ NotStarted.strays = 0 /\ NotStarted.alive = FALSE
  BY DEF NotStarted
<1>2. MatchTypeOK
  <2>1. NotStarted \in Process
    BY EmptySeq, MatchConstants DEF NotStarted, Process
  <2>2. moves \in Seq(MoveRecord)
    BY EmptySeq
  <2>3. QED
    BY <1>1, <2>1, <2>2, EmptyPosition DEF MatchTypeOK
<1>3. InStep
  BY <1>1 DEF InStep, Waiting, Quiet
<1>4. FaultsKnown
  <2>1. DOMAIN <<>> = {}
    OBVIOUS
  <2>2. QED
    BY <1>1, <2>1 DEF FaultsKnown, Blameless, Waiting
<1>5. PlayInv
  <2>1. Len(moves) = 0
    BY EmptySeq
  <2>2. snapshot = PositionAfter(moves, 0)
    BY DEF PositionAfter
  <2>3. QED
    BY <2>1, <2>2, MatchConstants DEF PlayInv
<1>6. ResultInv
  BY DEF ResultInv, PlayedGameReplays
<1>7. QED
  BY <1>2, <1>3, <1>4, <1>5, <1>6 DEF MatchInv

LEMMA MatchInvStep == MatchInv /\ [MatchNext]_matchVars => MatchInv'
BY MatchTypesStep, InStepStep, FaultsStep, PlayStep, ResultStep DEF MatchInv

LEMMA MatchInvAlways == MatchSpec => []MatchInv
BY MatchInvInit, MatchInvStep, PTL DEF MatchSpec

(* Types of the engines, the log and the result.                           *)
THEOREM MatchTypesCorrect == MatchSpec => []MatchTypeOK
<1>1. MatchInv => MatchTypeOK
  BY DEF MatchInv
<1>2. QED
  BY <1>1, MatchInvAlways, PTL

(* An action is applied only in the position it answers, except from an    *)
(* engine that printed a line nobody asked for (request_action).           *)
THEOREM AnswersAreInStep == MatchSpec => []AnswersMatchRequests
<1>1. MatchInv => AnswersMatchRequests
  <2>1. SUFFICES ASSUME MatchInv, pc = "settle", ~(engine[Mover].strays > 0)
                 PROVE  answer.for = snapshot /\ engine[Mover].asked = <<>>
    BY DEF AnswersMatchRequests
  <2>2. Mover \in Engine
    BY <2>1, Seats DEF MatchInv, MatchTypeOK
  <2>3. engine[Mover].strays = 0
    BY <2>1, <2>2, ProcessFields, MatchConstants DEF MatchInv
  <2>4. QED
    BY <2>1, <2>2, <2>3 DEF MatchInv, InStep, Serving, Waiting, Quiet
<1>2. QED
  BY <1>1, MatchInvAlways, PTL

(* Nobody forfeits who answered every request with one legal action in     *)
(* time; the other version is recorded as the winner, and the other engine *)
(* gets the point if the two have different versions (play_game).          *)
THEOREM ForfeitsAreDeserved == MatchSpec => []NoInnocentForfeits
<1>1. MatchInv => NoInnocentForfeits
  BY DEF MatchInv, ResultInv, Deserved, NoInnocentForfeits
<1>2. QED
  BY <1>1, MatchInvAlways, PTL

(* Every recorded game passes its replay, and a game that counts has the   *)
(* result of the referee's verdict: the winner's version, and the score of *)
(* the candidate if versions tell the engines apart (play_game,            *)
(* replay_game).                                                           *)
THEOREM GamesReplay == MatchSpec => []PlayedGameReplays
<1>1. MatchInv => PlayedGameReplays
  BY DEF MatchInv, ResultInv
<1>2. QED
  BY <1>1, MatchInvAlways, PTL

-----------------------------------------------------------------------------
(* The game EvaluationRun plays.                                           *)

(* What a run sees of a game, and what it sees unchanged.                  *)
LEMMA RunStutters ==
  ASSUME Len(moves') = Len(moves), UNCHANGED result,
         \/ UNCHANGED pc
         \/ Serving /\ Serving'
         \/ pc = "close" /\ pc' = "ended"
  PROVE  UNCHANGED Run!runVars
BY DEF Run!runVars, Run!disk, Run!match, Serving

LEMMA LogOfRun ==
  /\ <<TheGame, 1>> \in ({1} \X {0} \X {"candidate_first", "candidate_second"}) \X (1 .. 2)
  /\ Run!GameId = {1} \X {0} \X {"candidate_first", "candidate_second"}
BY DEF TheGame, Run!GameId, Run!Role

LEMMA RunLogged ==
  ASSUME pc # "raised", Len(moves') = Len(moves) + 1
  PROVE  Run!Logged
BY LogOfRun DEF Run!Logged

(* A move that ends the game, or leaves room for another.                  *)
LEMMA RunMoves ==
  ASSUME Serving, result = Nothing, Len(moves') = Len(moves) + 1,
         \/ pc' = "close" /\ result' # Nothing /\ result'.valid_strength_game = TRUE
         \/ pc' = "ask" /\ result' = Nothing /\ Len(moves') < Horizon
  PROVE  Run!Move
<1>1. Run!Logged
  BY RunLogged DEF Serving
<1>2. QED
  BY <1>1 DEF Run!Move, Serving

LEMMA RunForfeits ==
  ASSUME Serving, result = Nothing, Len(moves') = Len(moves) + 1, pc' = "close",
         result' # Nothing, result'.valid_strength_game = FALSE, result'.terminal = "forfeit"
  PROVE  Run!EngineFails
<1>1. Run!Logged
  BY RunLogged DEF Serving
<1>2. QED
  BY <1>1 DEF Run!EngineFails, Serving

LEMMA RunRefereeFails ==
  ASSUME Serving, result = Nothing, moves' = moves, pc' = "close",
         result' # Nothing, result'.valid_strength_game = FALSE,
         result'.terminal = "referee_failure"
  PROVE  Run!RefereeFails
<1>1. UNCHANGED Run!disk
  BY DEF Run!disk
<1>2. pc # "raised" /\ pc \notin {"close", "ended"}
  BY DEF Serving
<1>3. QED
  BY <1>1, <1>2 DEF Run!RefereeFails

LEMMA RunKilled ==
  ASSUME pc # "raised", pc' = "raised", moves' = moves
  PROVE  Run!Kill
BY LogOfRun DEF Run!Kill, Run!Off, Run!disk

(* Every step of the harness and of the engines is, for the run, a move, a *)
(* failure of the engine or the referee, a kill, or nothing.               *)
THEOREM GameIsImplemented == MatchSpec => GameImplemented
<1>1. ASSUME MatchInv, [MatchNext]_matchVars
      PROVE  [Run!RunNext]_(Run!runVars)
  <2> USE <1>1 DEF MatchInv
  <2>1. Serving => result = Nothing
    BY DEF PlayInv
  <2>2. CASE Forfeits
    <3>1. PICK status \in Failure, action \in Action \cup {NotInteger, Nothing} :
            Forfeit(status, action)
      BY <2>2, ForfeitCases
    <3>2. Serving /\ pc' = "close" /\ UNCHANGED <<version, first, snapshot>>
      BY <2>2, ForfeitCases
    <3>3. /\ Len(moves') = Len(moves) + 1
          /\ result' # Nothing /\ result'.valid_strength_game = FALSE
          /\ result'.terminal = "forfeit"
      BY <3>1, <3>2, ForfeitEnds
    <3>4. Run!EngineFails
      BY <2>1, <3>2, <3>3, RunForfeits
    <3>5. QED
      BY <3>4 DEF Run!RunNext, Run!Step
  <2>3. CASE Apply
    <3>1. Serving
      BY <2>3 DEF Apply, Clean, Serving
    <3>2. Len(moves') = Len(moves) + 1 /\ snapshot' \in Position
      BY <2>3, ApplyFollows
    <3>3. \/ pc' = "close" /\ result' # Nothing /\ result'.valid_strength_game = TRUE
          \/ pc' = "ask" /\ result' = Nothing /\ Len(moves') < Horizon
      <4>1. CASE Verdict[snapshot'].terminal = "none"
        <5>1. pc' = "ask" /\ result' = Nothing
          BY <2>1, <2>3, <3>1, <4>1, ApplyEnds
        <5>2. MatchTypeOK' /\ PlayInv' /\ Serving'
          BY <5>1, MatchTypesStep, PlayStep DEF Serving
        <5>3. Len(moves') < Horizon
          <6>1. snapshot' = PositionAfter(moves', Len(moves')) /\ moves' \in Seq(MoveRecord)
            BY <2>3, ApplyFollows
          <6>2. Len(snapshot') = Len(moves')
            <7>1. Len(moves') \in Nat /\ DOMAIN snapshot' = 1 .. Len(moves')
              BY <6>1, LenProperties DEF PositionAfter
            <7>2. snapshot' \in Seq(Action)
              BY <3>2, PositionIsSequence
            <7>3. Len(snapshot') \in Nat /\ DOMAIN snapshot' = 1 .. Len(snapshot')
              BY <7>2, LenProperties
            <7>4. QED
              BY <7>1, <7>3
          <6>3. QED
            BY <3>2, <4>1, <6>2, RefereeKnows
        <5>4. QED
          BY <5>1, <5>3
      <4>2. CASE Verdict[snapshot'].terminal # "none"
        BY <2>3, <4>2, ApplyEnds
      <4>3. QED
        BY <4>1, <4>2
    <3>4. Run!Move
      BY <2>1, <3>1, <3>2, <3>3, RunMoves
    <3>5. QED
      BY <3>4 DEF Run!RunNext, Run!Step
  <2>4. CASE RefereeFails
    <3>1. Serving /\ pc' = "close" /\ moves' = moves
      BY <2>4 DEF RefereeFails, Clean, Serving
    <3>2. /\ result' # Nothing /\ result'.terminal = "referee_failure"
          /\ result'.valid_strength_game = FALSE
      BY <2>4, RefereeFailureEnds
    <3>3. Run!RefereeFails
      BY <2>1, <3>1, <3>2, RunRefereeFails
    <3>4. QED
      BY <3>3 DEF Run!RunNext, Run!Step
  <2>5. CASE pc # "raised" /\ pc' = "raised" /\ moves' = moves
    <3>1. Run!Kill
      BY <2>5, RunKilled
    <3>2. QED
      BY <3>1 DEF Run!RunNext
  <2>6. CASE /\ UNCHANGED <<moves, result>>
             /\ \/ UNCHANGED pc
                \/ Serving /\ Serving'
                \/ pc = "close" /\ pc' = "ended"
    BY <2>6, RunStutters
  <2>7. QED
    BY <2>2, <2>3, <2>4, <2>5, <2>6
    DEF MatchNext, Harness, Forfeits, StartFirst, StartSecond, Load, Ask, Get, QueueEmpty,
        PollAlive, Close, Interrupt, Answer, Stray, Crash, matchVars, Serving
<1>2. QED
  BY <1>1, MatchInvAlways, PTL DEF MatchSpec, GameImplemented

==============================================================================
