----------------------------- MODULE ReducedGame -----------------------------
(***************************************************************************)
(* A game with every legal move beside the game a search with successor    *)
(* reduction looks at instead (AlphaBetaEngine::generate_search_moves):    *)
(* whatever is played, the search follows with the move its own list has   *)
(* for it.  The two games soon differ in which piece is which; the         *)
(* reduction is exact if they never differ in anything else.               *)
(***************************************************************************)
EXTENDS Equivalence, Functions

VARIABLES
  redBoard, redPos, redMask, redOwner,      \* the State the search has
  redSide, redTurn, redTerminal, redWinner,
  followed    \* whether such a search looks at this game

redVars ==
  <<followed, redBoard, redPos, redMask, redOwner, redSide, redTurn, redTerminal, redWinner>>

Red == INSTANCE Equivalence WITH
  board <- redBoard, pos <- redPos, mask <- redMask, owner <- redOwner,
  sideToMove <- redSide, turn <- redTurn, terminal <- redTerminal, winner <- redWinner

FollowInit == followed \in BOOLEAN /\ Red!GameInit

(* What the search does for move m of the game: it takes the move it has   *)
(* for it in the list of its node.  The preferred move is that of its      *)
(* table, or none.                                                         *)
Follow(m) ==
  LET keys == {KeyAfter(m, masks) : masks \in MasksAfter(m[1], m[2])}
      classes == Red!Classes
  IN \E c \in {x \in classes : x.key \in keys} :
       \E preferred \in c.moves \cup {NoMove} :
         \E moves \in Red!MoveLists(classes, preferred) :
           \E n \in moves \cap c.moves : Red!ApplyMove(n[1], n[2])

(* Move m is played; a search that looks at this game follows it. *)
Looks(m) == IF followed THEN Follow(m) /\ UNCHANGED followed ELSE UNCHANGED redVars

(* The two games side by side, until the game is over. *)
ReducedNext ==
  \/ \E m \in Piece \X Square : ApplyMove(m[1], m[2]) /\ Looks(m)
  \/ GameOver /\ UNCHANGED redVars

ReducedSpec == GameInit /\ FollowInit /\ [][ReducedNext]_<<gameVars, redVars>>

-----------------------------------------------------------------------------
(* No move is lost and none is invented: the search's position leads to    *)
(* exactly the keys the game's moves lead to, although its pieces have     *)
(* other names, so grouping in generate_search_moves costs no line of play.*)
NoSuccessorIsLost ==
  followed => Keys(Classes) = Keys(Red!Classes)

Renamings ==
  LET shuffles(side) == Bijection(Group(side), Group(side)) IN
  {[p \in Piece |-> IF Origin[p] = "South" THEN s[p] ELSE n[p]] :
    s \in shuffles("South"), n \in shuffles("North")}

(* Equal keys mean equal games (CanonKey::operator==, "the same successor  *)
(* semantics"): the search's position is the game's with its pieces        *)
(* renamed, each to one of the same origin, hand slots aside, however many *)
(* representatives stood for other moves on the way.                       *)
PositionsAreRenamed ==
  followed =>
    /\ \E r \in Renamings :
         /\ \A p \in Piece :
              /\ redOwner[r[p]] = owner[p] /\ redMask[r[p]] = mask[p]
              /\ IF InHand(p) THEN redPos[r[p]] \in HandSlot ELSE redPos[r[p]] = pos[p]
         /\ \A s \in Square :
              redBoard[s] = IF board[s] = Empty THEN Empty ELSE r[board[s]]
    /\ <<redSide, redTurn, redTerminal, redWinner>> = <<sideToMove, turn, terminal, winner>>

(* The hint that spares the search the grouping (has_duplicate_drop_hint,  *)
(* read off the hand alone) never misses a duplicate among the successors, *)
(* and promises none that is not there.                                    *)
HintIsExact ==
  (followed /\ terminal = "None") =>
    (HasDuplicateDropHint <=> \E c \in Classes : Cardinality(c.moves) > 1)

(* The search with successor reduction examines the game, and nothing but  *)
(* the game, with fewer moves.                                             *)
ReductionIsExact == NoSuccessorIsLost /\ PositionsAreRenamed

==============================================================================
