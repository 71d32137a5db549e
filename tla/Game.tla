-------------------------------- MODULE Game --------------------------------
(***************************************************************************)
(* The rules engine: State, apply_move and move generation of              *)
(* src/rules/game.cpp.                                                     *)
(*                                                                         *)
(* apply_move runs seven phases in a fixed order on one mutable state:     *)
(* collapse and promotion of the mover, capture, placement, propagation,   *)
(* captured-Lion resolution, turn change, terminal detection.  Each phase  *)
(* is an operator below, named after its function and applied to what the  *)
(* earlier ones produce.  A move that fails in any phase restores the      *)
(* input state, so it is no step here.  move.from must equal the piece's   *)
(* position (move_preconditions_hold), so a move is a piece and a square.  *)
(*                                                                         *)
(* Left out: the Zobrist hash, recomputed from the other fields at the end *)
(* of every move, and the metrics.                                         *)
(***************************************************************************)
EXTENDS Lineage, Integers, FiniteSets

CONSTANTS
  BoardWidth,     \* board_width
  BoardHeight,    \* board_height
  TurnLimit,      \* kTurnLimit
  Home,           \* [Piece -> square], kInitialPiecePositions
  Empty           \* kEmptyBoardSquare

BoardSize == BoardWidth * BoardHeight
Square == 0 .. BoardSize - 1
HandSlot == BoardSize .. BoardSize + Cardinality(Piece) - 1

ASSUME GameConstants ==
  /\ IsFiniteSet(Piece)
  /\ BoardWidth \in Nat \ {0} /\ BoardHeight \in Nat \ {0}
  /\ TurnLimit \in Nat \ {0}
  /\ Home \in [Piece -> Square]
  /\ \A p, q \in Piece : Home[p] = Home[q] => p = q
  /\ Empty \notin Piece
  /\ \A side \in Side : Assignments[side] # {}

VARIABLES
  board,        \* [Square -> piece on it, or Empty]
  pos,          \* [Piece -> square or hand slot]
  mask,         \* [Piece -> forms it may have]
  owner,        \* [Piece -> Side], the owner bits
  sideToMove,
  turn,
  terminal,
  winner

gameVars == <<board, pos, mask, owner, sideToMove, turn, terminal, winner>>

GameTypeOK ==
  /\ board \in [Square -> Piece \cup {Empty}]
  /\ pos \in [Piece -> Square \cup HandSlot]
  /\ mask \in Mask
  /\ owner \in [Piece -> Side]
  /\ sideToMove \in Side
  /\ turn \in 0 .. TurnLimit
  /\ terminal \in {"None", "Catch", "Try", "Draw"}
  /\ winner \in Side \cup {"None"}

GameInit ==
  /\ pos = Home
  /\ board = [s \in Square |->
       IF \E p \in Piece : Home[p] = s THEN CHOOSE p \in Piece : Home[p] = s ELSE Empty]
  /\ mask = [p \in Piece |-> Animal]
  /\ owner = Origin
  /\ sideToMove = "South"
  /\ turn = 0
  /\ terminal = "None"
  /\ winner = "None"

-----------------------------------------------------------------------------
(* Geometry. *)

Opposite(side) == IF side = "South" THEN "North" ELSE "South"

RowOf(s) == s \div BoardWidth
ColOf(s) == s % BoardWidth

IsBackRank(s, side) == RowOf(s) = (IF side = "South" THEN 0 ELSE BoardHeight - 1)

(* What each form may do, dr rows and dc columns away. *)
Reaches(form, side, dr, dc) ==
  LET forward == IF side = "South" THEN -1 ELSE 1 IN
  /\ dr \in -1..1 /\ dc \in -1..1 /\ <<dr, dc>> # <<0, 0>>
  /\ CASE form = "Chick"    -> dr = forward /\ dc = 0
       [] form = "Giraffe"  -> dr = 0 \/ dc = 0
       [] form = "Elephant" -> dr # 0 /\ dc # 0
       [] form = "Lion"     -> TRUE
       [] form = "Hen"      -> dr = forward \/ dr = 0 \/ dc = 0

(* move_possible_mask, the table build_move_tables fills. *)
MoveForms ==
  [side \in Side |-> [from \in Square |-> [to \in Square |->
    {f \in Form : Reaches(f, side, RowOf(to) - RowOf(from), ColOf(to) - ColOf(from))}]]]

-----------------------------------------------------------------------------
(* Questions asked of a state. *)

Owns(side, p) == owner[p] = side
OnBoard(p) == pos[p] \in Square
InHand(p) == pos[p] \in HandSlot

HasHandLion(side) == \E p \in Piece : Owns(side, p) /\ InHand(p) /\ "Lion" \in mask[p]

(* has_surviving_try_candidate. *)
HasTryCandidate(side) ==
  \E p \in Piece :
    Owns(side, p) /\ OnBoard(p) /\ IsBackRank(pos[p], side) /\ "Lion" \in mask[p]

(* Mutant of UsedSlots: each player's hand is numbered by itself. *)
UsedByMover(captured) ==
  {pos[p] : p \in {q \in Piece : q # captured /\ InHand(q) /\ Owns(sideToMove, q)}}

(* Hand slots taken by the other pieces, whoever owns them. *)
UsedSlots(captured) == {pos[p] : p \in {q \in Piece : q # captured /\ InHand(q)}}

FreeSlots(captured) == HandSlot \ UsedSlots(captured)

LowestFreeSlot(captured) ==
  CHOOSE s \in FreeSlots(captured) : \A t \in FreeSlots(captured) : s <= t

-----------------------------------------------------------------------------
(* The phases of apply_move_internal, for piece p moving to square `to'.   *)

MovePreconditionsHold(p, to) ==
  /\ terminal = "None"
  /\ Owns(sideToMove, p)
  /\ board[to] # Empty => ~Owns(sideToMove, board[to])

(* A drop needs an empty square; a move, a form that can make it. *)
OriginEffectsPossible(p, to) ==
  IF InHand(p)
  THEN board[to] = Empty
  ELSE /\ board[pos[p]] = p
       /\ mask[p] \cap MoveForms[sideToMove][pos[p]][to] # {}

Promoted(forms, to) ==
  IF IsBackRank(to, sideToMove) /\ "Chick" \in forms
  THEN (forms \ {"Chick"}) \cup {"Hen"} ELSE forms

Demoted(forms) ==
  IF "Hen" \in forms THEN (forms \ {"Hen"}) \cup {"Chick"} ELSE forms

Captures(p, to) == board[to] # Empty

(* Masks after collapse, promotion and the capture's demotion. *)
CollapsedMask(p, to) ==
  [q \in Piece |->
    IF q = p
    THEN IF OnBoard(p)
         THEN Promoted(mask[p] \cap MoveForms[sideToMove][pos[p]][to], to)
         ELSE mask[p]
    ELSE IF q = board[to] THEN Demoted(mask[q]) ELSE mask[q]]

(* capture_destination_piece and place_moving_piece. *)
OwnerAfter(p, to) ==
  [q \in Piece |-> IF q = board[to] THEN sideToMove ELSE owner[q]]

PosAfter(p, to) ==
  [q \in Piece |->
    IF q = p THEN to ELSE IF q = board[to] THEN LowestFreeSlot(q) ELSE pos[q]]

BoardAfter(p, to) ==
  [s \in Square |-> IF s = to THEN p ELSE IF s = pos[p] THEN Empty ELSE board[s]]

(* The opponent still owns a piece that may be a Lion (has_lion_candidate_ *)
(* owned_by, on the owners and masks of this phase).                       *)
OpponentKeepsLion(p, to, m) ==
  \E q \in Piece : OwnerAfter(p, to)[q] = Opposite(sideToMove) /\ "Lion" \in m[q]

(* Every hand piece of the mover that might have been the Lion was not. *)
LionsRefuted(p, to, m) ==
  [q \in Piece |->
    IF OwnerAfter(p, to)[q] = sideToMove /\ PosAfter(p, to)[q] \in HandSlot
    THEN m[q] \ {"Lion"} ELSE m[q]]

(* Mutants of Resolved: the Lion is always refuted; it never is; and the   *)
(* masks are not propagated again.                                         *)
ResolvedAlways(p, to, m) ==
  IF OnBoard(p) THEN LionsRefuted(p, to, m) ELSE m
ResolvedNever(p, to, m) == m

(* resolve_captured_lion_candidates up to its propagation; skipped for a   *)
(* drop.                                                                   *)
Resolved(p, to, m) ==
  IF OnBoard(p) /\ OpponentKeepsLion(p, to, m) THEN LionsRefuted(p, to, m) ELSE m

(* The masks the move leaves, none when a propagation rejects it.          *)
(* Propagating again where nothing was refuted changes nothing.            *)
MasksAfter(p, to) ==
  UNION {Propagate(Resolved(p, to, m)) : m \in Propagate(CollapsedMask(p, to))}

(* What the phases test before they propagate. *)
Admissible(p, to) ==
  /\ MovePreconditionsHold(p, to)
  /\ OriginEffectsPossible(p, to)
  /\ Captures(p, to) => FreeSlots(board[to]) # {}

(* No phase rejects the move. *)
Legal(p, to) == Admissible(p, to) /\ MasksAfter(p, to) # {}

(* Mutants of Verdict: a Try is awarded on entering the rank, and Catch     *)
(* looks at the wrong hand.                                                *)
TryOnEntry ==
  LET mover == Opposite(sideToMove) IN
  IF HasTryCandidate(mover) THEN <<"Try", mover>>
  ELSE IF HasHandLion(mover) THEN <<"Catch", mover>>
  ELSE IF turn >= TurnLimit THEN <<"Draw", "None">>
  ELSE <<"None", "None">>
CatchByWaiter ==
  LET mover == Opposite(sideToMove) IN
  IF HasTryCandidate(sideToMove) THEN <<"Try", sideToMove>>
  ELSE IF HasHandLion(sideToMove) THEN <<"Catch", sideToMove>>
  ELSE IF turn >= TurnLimit THEN <<"Draw", "None">>
  ELSE <<"None", "None">>

(* update_terminal_status, once the side and the turn have changed: the    *)
(* result and the winner, in this priority.                                *)
Verdict ==
  LET mover == Opposite(sideToMove) IN
  IF HasTryCandidate(sideToMove) THEN <<"Try", sideToMove>>
  ELSE IF HasHandLion(mover) THEN <<"Catch", mover>>
  ELSE IF turn >= TurnLimit THEN <<"Draw", "None">>
  ELSE <<"None", "None">>

ApplyMove(p, to) ==
  /\ Admissible(p, to)
  /\ board' = BoardAfter(p, to)
  /\ pos' = PosAfter(p, to)
  /\ owner' = OwnerAfter(p, to)
  /\ mask' \in MasksAfter(p, to)
  /\ sideToMove' = Opposite(sideToMove)
  /\ turn' = turn + 1
  /\ terminal' = Verdict'[1]
  /\ winner' = Verdict'[2]

(* An ended game takes no move. *)
GameOver == terminal # "None" /\ UNCHANGED gameVars

GameNext == (\E p \in Piece, to \in Square : ApplyMove(p, to)) \/ GameOver

GameSpec == GameInit /\ [][GameNext]_gameVars

-----------------------------------------------------------------------------

(* generate_pseudo_legal_moves: what local geometry and occupancy allow. *)
PseudoLegal(p, to) ==
  /\ terminal = "None"
  /\ Owns(sideToMove, p)
  /\ \/ InHand(p) /\ board[to] = Empty
     \/ /\ OnBoard(p)
        /\ \E f \in mask[p] : f \in MoveForms[sideToMove][pos[p]][to]
        /\ board[to] # Empty => ~Owns(sideToMove, board[to])

-----------------------------------------------------------------------------

(* The two representations of the position agree and no two pieces share a *)
(* hand slot, whichever player holds them (board_consistent): a slot named *)
(* in an action means one piece.                                           *)
BoardConsistent ==
  /\ \A s \in Square : board[s] # Empty => pos[board[s]] = s
  /\ \A p \in Piece : OnBoard(p) => board[pos[p]] = p
  /\ \A p, q \in Piece : (InHand(p) /\ pos[p] = pos[q]) => p = q

(* Between moves the masks are at the fixed point of propagation: every    *)
(* form a piece shows belongs to an assignment of all identities.          *)
MasksSettled == Settled(mask)

(* Promotion leaves no piece that may be both a Chick and a Hen, and no    *)
(* Hen is ever in a hand: its lineage returns to the board as a Chick.     *)
PromotionConsistent ==
  \A p \in Piece :
    /\ ~({"Chick", "Hen"} \subseteq mask[p])
    /\ InHand(p) => "Hen" \notin mask[p]

(* While the game is on, whatever may be a Lion is on the board and still  *)
(* belongs to the player it was born to: a captured piece is never one.    *)
LionsStayHome ==
  terminal = "None" =>
    \A p \in Piece : "Lion" \in mask[p] => (OnBoard(p) /\ owner[p] = Origin[p])

(* While the game is on, both players have a piece on the board that may   *)
(* be their Lion.                                                          *)
BothLionsInPlay ==
  terminal = "None" =>
    \A side \in Side : \E p \in Piece : Owns(side, p) /\ OnBoard(p) /\ "Lion" \in mask[p]

(* What every move must leave behind, read together: places, identities,   *)
(* promotion and Lions.                                                    *)
PositionSound ==
  BoardConsistent /\ MasksSettled /\ PromotionConsistent /\ LionsStayHome /\ BothLionsInPlay

(* The filter of generate_legal_moves rejects no candidate the generator   *)
(* produces, and the generator misses no move apply_move accepts: neither  *)
(* propagation of a move can meet a contradiction, and a captured piece    *)
(* always finds a hand slot.                                               *)
GeneratorIsExact ==
  \A p \in Piece, to \in Square : PseudoLegal(p, to) <=> Legal(p, to)

(* A Catch is decided only when the loser has nothing left that may be a   *)
(* Lion (docs/RULE_GAME.md 1.4, "the last piece that can still be").       *)
CatchTakesTheLast ==
  terminal = "Catch" =>
    \A p \in Piece : Owns(Opposite(winner), p) => "Lion" \notin mask[p]

(* A Try is awarded for a piece that had reached the rank before the reply *)
(* and stayed: no reply, and no collapse it causes, makes a Try of its own.*)
TryStoodThere ==
  (terminal = "None" /\ terminal' = "Try") =>
    \E p \in Piece :
      /\ owner[p] = winner' /\ owner'[p] = winner'
      /\ OnBoard(p) /\ pos'[p] = pos[p] /\ IsBackRank(pos[p], winner')
      /\ "Lion" \in mask[p]

TryWasPending == [][TryStoodThere]_gameVars

(* A game is won by what docs/04_STATE_AND_MOVE_RULES.md:33-39 calls a win,*)
(* and by nothing else: the last Lion is gone, or a Lion candidate has     *)
(* stayed on the rank during the one reply to it.  docs/RULE_GAME.md:58    *)
(* asks for more, that the reply could not have captured it; 04:39 forbids *)
(* that test, the code does not make it, and this does not claim it.       *)
EndingsDeserved == [][CatchTakesTheLast' /\ TryStoodThere]_gameVars

=============================================================================
