------------------------------ MODULE Protocol ------------------------------
(***************************************************************************)
(* One game between the native referee (evaluation/native/                 *)
(* referee_adapter.cpp) and an engine (src/io/protocol.cpp, run_protocol   *)
(* of src/main.cpp) that is asked for every move of both sides.            *)
(*                                                                         *)
(* The referee plays Game.  It shows the player to move the board turned   *)
(* so that this player is South, names no pieces, and lists the actions    *)
(* it will accept.  The engine numbers the pieces it sees anew, searches   *)
(* its own copy of the game, and answers with an action index.  What its   *)
(* search examined is right only if the copy goes on mirroring the game.   *)
(*                                                                         *)
(* The search is an oracle that picks one of the copy's legal moves.  JSON *)
(* and the refusal of malformed messages are left out: an observation the  *)
(* engine would refuse has no Request step.                                *)
(***************************************************************************)
EXTENDS Game

CONSTANT PiecesPerOrigin     \* kPiecesPerOrigin

(* Pieces are numbered by origin. *)
ASSUME ProtocolConstants ==
  /\ PiecesPerOrigin \in Nat \ {0}
  /\ Piece = 0 .. 2 * PiecesPerOrigin - 1
  /\ Origin = [p \in Piece |-> IF p < PiecesPerOrigin THEN "South" ELSE "North"]

VARIABLES
  copyBoard, copyPos, copyMask, copyOwner,     \* the engine's State: the root
  copySide, copyTurn, copyTerminal, copyWinner,\* of its search, then the child
  phase,      \* what happens next: "request", "search" or "apply"
  seat,       \* whose move was asked for last
  allowed,    \* action_mask of the message
  answer      \* the engine's line

copyVars == <<copyBoard, copyPos, copyMask, copyOwner,
              copySide, copyTurn, copyTerminal, copyWinner>>

protocolVars == <<gameVars, copyVars, phase, seat, allowed, answer>>

Engine == INSTANCE Game WITH
  board <- copyBoard, pos <- copyPos, mask <- copyMask, owner <- copyOwner,
  sideToMove <- copySide, turn <- copyTurn,
  terminal <- copyTerminal, winner <- copyWinner

ProtocolInit ==
  /\ GameInit
  /\ Engine!GameInit
  /\ phase = "request"
  /\ seat = "South"
  /\ allowed = {}
  /\ answer = 0

-----------------------------------------------------------------------------
(* Squares and actions. *)

Source == Square \cup HandSlot

(* Mutant of PublicSquare: hand slots are turned too. *)
PublicSquareOfHand(s, perspective) ==
  IF perspective = "South" THEN s ELSE BoardSize - 1 - s

(* public_square, which is also actual_square: half a turn of the board. *)
PublicSquare(s, perspective) ==
  IF s \in HandSlot \/ perspective = "South" THEN s ELSE BoardSize - 1 - s

EncodeAction(source, destination) == source * BoardSize + destination
ActionSource(action) == action \div BoardSize
ActionDestination(action) == action % BoardSize

PublicAction(m) ==
  EncodeAction(PublicSquare(pos[m[1]], sideToMove), PublicSquare(m[2], sideToMove))

(* legal_actions of the referee. *)
LegalActions == {PublicAction(m) : m \in {n \in Piece \X Square : Legal(n[1], n[2])}}

(* The actions of the copy's legal moves (encode_action_move). *)
CopyActions ==
  {EncodeAction(copyPos[m[1]], m[2]) :
    m \in {n \in Piece \X Square : Engine!Legal(n[1], n[2])}}

-----------------------------------------------------------------------------
(* The observation. *)

Relative(side, perspective) == IF side = perspective THEN "South" ELSE "North"

(* Mutants of Seen: the flag of the Hen is not read, and the owner flags   *)
(* are those of the origin.                                                *)
SeenWithoutHen(p) ==
  [mask |-> mask[p] \cap Animal,
   origin |-> Relative(Origin[p], sideToMove), owner |-> Relative(owner[p], sideToMove)]
SeenByOrigin(p) ==
  [mask |-> mask[p],
   origin |-> Relative(Origin[p], sideToMove), owner |-> Relative(Origin[p], sideToMove)]

(* An entry of the observation. *)
Seen(p) ==
  [mask |-> mask[p],
   origin |-> Relative(Origin[p], sideToMove), owner |-> Relative(owner[p], sideToMove)]

(* The observation, at the sources that show a piece. *)
Observation ==
  [s \in {PublicSquare(pos[p], sideToMove) : p \in Piece} |->
    Seen(CHOOSE p \in Piece : PublicSquare(pos[p], sideToMove) = s)]

(* The number state_from_observation gives the piece at source s: those of *)
(* one origin in the order of their sources.                               *)
PieceNumber(obs, s) ==
  Cardinality({t \in DOMAIN obs : obs[t].origin = obs[s].origin /\ t < s})
    + (IF obs[s].origin = "South" THEN 0 ELSE PiecesPerOrigin)

(* Eight entries, four of each origin. *)
WellFormed(obs) ==
  \A side \in Side :
    Cardinality({s \in DOMAIN obs : obs[s].origin = side}) = PiecesPerOrigin

SourceOf(obs) == [p \in Piece |-> CHOOSE s \in DOMAIN obs : PieceNumber(obs, s) = p]

-----------------------------------------------------------------------------

RebuiltTurn == turn

(* state_from_observation *)
Rebuild(obs) ==
  LET source == SourceOf(obs) IN
  /\ WellFormed(obs)
  /\ copyPos' = source
  /\ copyBoard' = [s \in Square |-> IF s \in DOMAIN obs THEN PieceNumber(obs, s) ELSE Empty]
  /\ copyOwner' = [p \in Piece |-> obs[source[p]].owner]
  /\ copyMask' \in Propagate([p \in Piece |-> obs[source[p]].mask])
  /\ copySide' = "South"
  /\ copyTurn' = RebuiltTurn
  /\ copyTerminal' = IF RebuiltTurn >= TurnLimit THEN "Draw" ELSE "None"
  /\ copyWinner' = "None"

(* The referee's protocol_request, parsed by the engine. *)
Request ==
  /\ phase = "request" /\ terminal = "None"
  /\ Rebuild(Observation)
  /\ allowed' = LegalActions
  /\ seat' = sideToMove
  /\ phase' = "search"
  /\ UNCHANGED <<gameVars, answer>>

(* run_protocol's choice: the best move when the mask allows it, else a    *)
(* legal move it allows, else the first action it allows.                  *)
Chosen(best) ==
  IF best \in allowed THEN {best}
  ELSE IF CopyActions \cap allowed # {} THEN CopyActions \cap allowed
  ELSE {a \in allowed : \A b \in allowed : a <= b}

Search ==
  /\ phase = "search"
  /\ \E p \in Piece, to \in Square :
       /\ Engine!ApplyMove(p, to)
       /\ answer' \in Chosen(EncodeAction(copyPos[p], to))
  /\ phase' = "apply"
  /\ UNCHANGED <<gameVars, seat, allowed>>

(* actual_move *)
ActualMove(action) ==
  {m \in Piece \X Square :
    /\ pos[m[1]] = PublicSquare(ActionSource(action), sideToMove)
    /\ m[2] = PublicSquare(ActionDestination(action), sideToMove)}

(* APPLY: the action must be one of legal_actions. *)
Apply ==
  /\ phase = "apply"
  /\ \E m \in Piece \X Square : PublicAction(m) = answer /\ Legal(m[1], m[2])
  /\ \E m \in ActualMove(answer) : ApplyMove(m[1], m[2])
  /\ phase' = "request"
  /\ UNCHANGED <<copyVars, seat, allowed, answer>>

(* The match has its result. *)
MatchOver == phase = "request" /\ terminal # "None" /\ UNCHANGED protocolVars

ProtocolNext == Request \/ Search \/ Apply \/ MatchOver

ProtocolSpec == ProtocolInit /\ [][ProtocolNext]_protocolVars

-----------------------------------------------------------------------------

(* The copy is the game as the asked player sees it: a piece of the same   *)
(* forms, origin and owner at every place, the same turn and result.       *)
Mirrors ==
  /\ \A p \in Piece : \E q \in Piece :
       /\ copyPos[q] = PublicSquare(pos[p], seat)
       /\ copyMask[q] = mask[p]
       /\ copyOwner[q] = Relative(owner[p], seat)
       /\ Origin[q] = Relative(Origin[p], seat)
  /\ copySide = Relative(sideToMove, seat)
  /\ copyTurn = turn
  /\ copyTerminal = terminal
  /\ copyWinner = (IF winner = "None" THEN "None" ELSE Relative(winner, seat))

(* The engine's copy mirrors the game when it is rebuilt from an           *)
(* observation, and still does after the engine's move on the copy and the *)
(* referee's on the game: the search explores the game being played, its   *)
(* captures, promotions, collapsed masks and verdicts.                     *)
CopyMirrorsGame == phase # "apply" => Mirrors

(* The engine and the referee agree on what may be played: neither         *)
(* fallback of run_protocol is ever taken.                                 *)
SameActions == phase = "search" => CopyActions = allowed

(* The engine searches the game that is played, and answers in its terms.  *)
EngineSeesTheGame == CopyMirrorsGame /\ SameActions

==============================================================================
