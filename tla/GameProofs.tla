----------------------------- MODULE GameProofs -----------------------------
(***************************************************************************)
(* Proofs about the rules engine and what is built on it: the engine's     *)
(* copy of a game that the referee observes for it (Protocol), and the     *)
(* position of a search with successor reduction (ReducedGame).  For any   *)
(* board, any pieces and any turn limit GameConstants allows.              *)
(*                                                                         *)
(* One inductive invariant, GameInv, carries the rules: types, an open     *)
(* game is below the turn limit, the board agrees with the positions, the  *)
(* masks are settled, promotion is consistent, and Lions stay home.  Only  *)
(* the last needs the terminal test: a captured Lion candidate ends the    *)
(* game.                                                                   *)
(*                                                                         *)
(* The other two rest on twins: states that are one game under other       *)
(* numbers of its pieces, seen by either player.  The rules cannot tell    *)
(* twins apart.  An observation makes a twin, seen by the player to move;  *)
(* two states of one key are twins seen by the same player.                *)
(***************************************************************************)
EXTENDS Protocol, ReducedGame, WellFoundedInduction, FiniteSetTheorems, TLAPS

-----------------------------------------------------------------------------
(* What propagation does to any masks, for any pieces and origins. *)

(* Lineages of forms are animals. *)
LEMMA LineageOfType == \A f \in Form : LineageOf(f) \in Animal
BY DEF Form, Animal, LineageOf

(* A pass keeps masks masks and only removes forms. *)
LEMMA PassShrinks ==
  ASSUME NEW m \in Mask
  PROVE  /\ Pass(m) \in Mask
         /\ \A p \in Piece : Pass(m)[p] \subseteq m[p]
BY DEF Pass, FormsForLineages, Mask

(* What a pass leaves a piece. *)
LEMMA PassOf ==
  ASSUME NEW m, NEW p \in Piece
  PROVE  Pass(m)[p] =
           {f \in m[p] : \E a \in Worlds(m, Origin[p]) : a[p] = LineageOf(f)}
<1>1. Origin[p] \in Side
  BY LineageConstants
<1>2. Pass(m)[p] = FormsForLineages(m[p], Supported(Worlds(m, Origin[p]), p))
  <2>1. CASE Origin[p] = "South"
    BY <2>1 DEF Pass
  <2>2. CASE Origin[p] = "North"
    BY <2>2 DEF Pass
  <2>3. QED
    BY <1>1, <2>1, <2>2 DEF Side
<1>3. QED
  BY <1>2 DEF FormsForLineages, Supported

(* An assignment of an origin assigns its pieces. *)
LEMMA WorldDomain ==
  ASSUME NEW m, NEW side \in Side, NEW a \in Worlds(m, side)
  PROVE  DOMAIN a = Group(side)
BY DEF Worlds, Assignments

(* Propagation is exact: the assignments of identities that were possible  *)
(* before a pass are those that are possible after it.                     *)
THEOREM PassKeepsWorlds ==
  ASSUME NEW m \in Mask, NEW side \in Side
  PROVE  Worlds(Pass(m), side) = Worlds(m, side)
<1>1. ASSUME NEW a \in Worlds(Pass(m), side)
      PROVE  a \in Worlds(m, side)
  <2>1. \A p \in Group(side) : Pass(m)[p] \subseteq m[p]
    BY PassShrinks DEF Group
  <2>2. QED
    BY <1>1, <2>1, WorldDomain DEF Worlds
<1>2. ASSUME NEW a \in Worlds(m, side)
      PROVE  a \in Worlds(Pass(m), side)
  <2>1. ASSUME NEW p \in DOMAIN a
        PROVE  \E f \in Pass(m)[p] : LineageOf(f) = a[p]
    <3>1. p \in Piece /\ Origin[p] = side
      <4>1. DOMAIN a = Group(side)
        BY <1>2, WorldDomain
      <4>2. QED
        BY <2>1, <4>1 DEF Group
    <3>2. PICK f \in m[p] : LineageOf(f) = a[p]
      BY <1>2, <2>1 DEF Worlds
    <3>3. f \in Pass(m)[p]
      BY <1>2, <3>1, <3>2, PassOf
    <3>4. QED
      BY <3>2, <3>3
  <2>2. QED
    BY <1>2, <2>1 DEF Worlds
<1>3. QED
  BY <1>1, <1>2

(* The loop of propagate_impl stops after its second pass: a pass over     *)
(* masks a pass has produced changes none of them.                         *)
THEOREM PassIsIdempotent ==
  ASSUME NEW m \in Mask
  PROVE  Pass(Pass(m)) = Pass(m)
<1>1. ASSUME NEW p \in Piece
      PROVE  Pass(Pass(m))[p] = Pass(m)[p]
  <2>1. Worlds(Pass(m), Origin[p]) = Worlds(m, Origin[p])
    BY PassKeepsWorlds, LineageConstants
  <2>2. Pass(Pass(m))[p] =
          {f \in Pass(m)[p] : \E a \in Worlds(m, Origin[p]) : a[p] = LineageOf(f)}
    BY <2>1, PassOf
  <2>3. QED
    BY <2>2, PassOf
<1>2. Pass(Pass(m)) = [p \in Piece |-> Pass(Pass(m))[p]]
  BY DEF Pass
<1>3. Pass(m) = [p \in Piece |-> Pass(m)[p]]
  BY DEF Pass
<1>4. QED
  BY <1>1, <1>2, <1>3

(* A piece whose origin has an assignment left has a form left. *)
LEMMA WorldLeavesForm ==
  ASSUME NEW m, NEW p \in Piece, Worlds(m, Origin[p]) # {}
  PROVE  m[p] # {}
<1>1. PICK a \in Worlds(m, Origin[p]) : TRUE
  OBVIOUS
<1>2. p \in DOMAIN a
  <2>1. DOMAIN a = Group(Origin[p])
    BY <1>1, WorldDomain, LineageConstants
  <2>2. QED
    BY <2>1 DEF Group
<1>3. QED
  BY <1>1, <1>2 DEF Worlds

(* Masks with an assignment left for each origin are consistent. *)
LEMMA WorldsMakeConsistent ==
  ASSUME NEW m \in Mask, \A side \in Side : Worlds(m, side) # {}
  PROVE  Consistent(m)
<1>1. \A p \in Piece : m[p] # {}
  BY WorldLeavesForm, LineageConstants
<1>2. QED
  BY <1>1 DEF Consistent, Mask

(* A pass over consistent masks settles them. *)
THEOREM PassSettles ==
  ASSUME NEW m \in Mask, Consistent(m)
  PROVE  Settled(Pass(m))
<1>1. Pass(m) \in Mask
  BY PassShrinks
<1>2. \A side \in Side : Worlds(Pass(m), side) # {}
  BY PassKeepsWorlds DEF Consistent
<1>3. QED
  BY <1>1, <1>2, WorldsMakeConsistent, PassIsIdempotent DEF Settled

(* In settled masks every form a piece still shows is one it can have.     *)
LEMMA SettledFormHasWorld ==
  ASSUME NEW m \in Mask, Settled(m), NEW p \in Piece, NEW f \in m[p]
  PROVE  \E a \in Worlds(m, Origin[p]) : a[p] = LineageOf(f)
<1>1. f \in Pass(m)[p]
  BY DEF Settled
<1>2. QED
  BY <1>1, PassOf

(* Consistent masks leave each origin a piece that may be its Lion. *)
LEMMA EveryOriginHasLion ==
  ASSUME NEW m \in Mask, Consistent(m), NEW side \in Side
  PROVE  \E p \in Group(side) : "Lion" \in m[p]
<1>1. PICK a \in Worlds(m, side) : TRUE
  BY DEF Consistent
<1>2. PICK p \in Group(side) : a[p] = "Lion"
  BY <1>1, LineageConstants DEF Worlds, Assignments, Animal
<1>3. PICK f \in m[p] : LineageOf(f) = "Lion"
  BY <1>1, <1>2, WorldDomain DEF Worlds
<1>4. f = "Lion"
  BY <1>3 DEF LineageOf
<1>5. QED
  BY <1>2, <1>3, <1>4

-----------------------------------------------------------------------------
(* The inductive invariant of the rules engine. *)

OpenGame == terminal = "None" => turn < TurnLimit

GameInv ==
  /\ GameTypeOK
  /\ OpenGame
  /\ BoardConsistent
  /\ MasksSettled
  /\ PromotionConsistent
  /\ LionsStayHome

-----------------------------------------------------------------------------
(* Squares, slots and sides. *)

(* Squares and hand slots are disjoint ranges of naturals, with a slot for *)
(* every piece.                                                            *)
LEMMA Places ==
  /\ BoardSize \in Nat
  /\ Cardinality(Piece) \in Nat
  /\ Square \subseteq Nat /\ HandSlot \subseteq Nat
  /\ Square \cap HandSlot = {}
  /\ IsFiniteSet(HandSlot) /\ Cardinality(HandSlot) = Cardinality(Piece)
<1>1. BoardSize \in Nat
  BY GameConstants DEF BoardSize
<1>2. Cardinality(Piece) \in Nat
  BY GameConstants, FS_CardinalityType
<1>3. Square \subseteq Nat /\ HandSlot \subseteq Nat /\ Square \cap HandSlot = {}
  BY <1>1, <1>2 DEF Square, HandSlot
<1>4. IsFiniteSet(HandSlot) /\ Cardinality(HandSlot) = Cardinality(Piece)
  <2> DEFINE last == BoardSize + Cardinality(Piece) - 1
  <2>1. last \in Int /\ BoardSize \in Int
    BY <1>1, <1>2
  <2>2. /\ IsFiniteSet(BoardSize .. last)
        /\ Cardinality(BoardSize .. last) =
             IF BoardSize > last THEN 0 ELSE last - BoardSize + 1
    BY <2>1, FS_Interval
  <2>3. QED
    BY <1>1, <1>2, <2>2 DEF HandSlot
<1>5. QED
  BY <1>1, <1>2, <1>3, <1>4

LEMMA OppositeSide ==
  \A side \in Side :
    /\ Opposite(side) \in Side /\ Opposite(side) # side
    /\ Opposite(Opposite(side)) = side
    /\ \A other \in Side : other # side => other = Opposite(side)
BY DEF Side, Opposite

(* A set of naturals with an element has a least one. *)
LEMMA LeastNatural ==
  ASSUME NEW S \in SUBSET Nat, S # {}
  PROVE  \E m \in S : \A k \in S : m <= k
<1>1. PICK less : IsWellFoundedOn(less, Nat) /\ \A x, y \in Nat : x < y => <<x, y>> \in less
  <2>1. \A x, y \in Nat : x < y => <<x, y>> \in OpToRel(<, Nat)
    BY Zenon DEF OpToRel
  <2>2. QED
    BY <2>1, NatLessThanWellFounded, Zenon
<1>2. IsWellFoundedOn(less, Nat) /\ S \subseteq Nat
  BY <1>1
<1>3. PICK m \in S : \A k \in S : ~(<<k, m>> \in less)
  BY <1>2, WFMin
<1>4. \A k \in S : m \in Nat /\ k \in Nat /\ ~(k < m)
  BY <1>1, <1>3
<1>5. QED
  BY <1>4

(* The lowest free slot is a free slot. *)
LEMMA LowestSlotIsFree ==
  ASSUME NEW c, FreeSlots(c) # {}
  PROVE  LowestFreeSlot(c) \in FreeSlots(c)
<1>1. FreeSlots(c) \in SUBSET Nat
  BY Places DEF FreeSlots
<1>2. \E s \in FreeSlots(c) : \A t \in FreeSlots(c) : s <= t
  BY <1>1, LeastNatural
<1>3. QED
  BY <1>2 DEF LowestFreeSlot

(* Whatever is in the hands, a piece about to be captured finds a slot.    *)
LEMMA SlotForCapture ==
  ASSUME GameTypeOK, NEW c \in Piece
  PROVE  FreeSlots(c) # {}
<1> SUFFICES ASSUME FreeSlots(c) = {}
             PROVE  FALSE
  OBVIOUS
<1> DEFINE user == [s \in HandSlot |-> CHOOSE q \in Piece \ {c} : pos[q] = s]
<1>1. ASSUME NEW s \in HandSlot
      PROVE  user[s] \in Piece \ {c} /\ pos[user[s]] = s
  <2>1. s \in UsedSlots(c)
    BY DEF FreeSlots
  <2>2. \E q \in Piece \ {c} : pos[q] = s
    BY <2>1 DEF UsedSlots
  <2>3. QED
    BY <2>2
<1>2. /\ IsFiniteSet(Piece \ {c})
      /\ Cardinality(Piece \ {c}) = Cardinality(Piece) - 1
  BY FS_RemoveElement, GameConstants
<1>3. Cardinality(Piece \ {c}) < Cardinality(HandSlot)
  BY <1>2, Places
<1>4. user \in [HandSlot -> Piece \ {c}]
  BY <1>1
<1> HIDE DEF user
<1>5. \E x, y \in HandSlot : x # y /\ user[x] = user[y]
  BY <1>2, <1>3, <1>4, Places, FS_PigeonHole
<1>6. QED
  BY <1>1, <1>5

-----------------------------------------------------------------------------
(* What the phases of a move do. *)

(* A captured piece is the opponent's, and not the one that moves. *)
LEMMA CapturedPiece ==
  ASSUME GameTypeOK, NEW p \in Piece, NEW to \in Square, MovePreconditionsHold(p, to)
  PROVE  /\ board[to] # p
         /\ board[to] # Empty =>
              board[to] \in Piece /\ owner[board[to]] = Opposite(sideToMove)
<1>1. board[to] \in Piece \cup {Empty} /\ owner[p] = sideToMove
  BY DEF GameTypeOK, MovePreconditionsHold, Owns
<1>2. ASSUME board[to] # Empty
      PROVE  /\ board[to] # p
             /\ board[to] \in Piece /\ owner[board[to]] = Opposite(sideToMove)
  <2>1. board[to] \in Piece /\ owner[board[to]] # sideToMove
    BY <1>1, <1>2 DEF MovePreconditionsHold, Owns
  <2>2. QED
    BY <1>1, <2>1, OppositeSide DEF GameTypeOK
<1>3. QED
  BY <1>1, <1>2, GameConstants

(* Collapse, promotion and demotion keep masks masks and make no Lion. *)
LEMMA CollapseFacts ==
  ASSUME GameTypeOK, NEW p \in Piece, NEW to \in Square
  PROVE  /\ CollapsedMask(p, to) \in Mask
         /\ \A q \in Piece : "Lion" \in CollapsedMask(p, to)[q] => "Lion" \in mask[q]
<1> DEFINE reach == MoveForms[sideToMove][pos[p]][to]
<1>1. ASSUME NEW q \in Piece
      PROVE  /\ CollapsedMask(p, to)[q] \subseteq Form
             /\ "Lion" \in CollapsedMask(p, to)[q] => "Lion" \in mask[q]
  <2>1. mask[q] \subseteq Form
    BY DEF GameTypeOK, Mask
  <2>2. CASE q = p /\ OnBoard(p)
    <3>1. CollapsedMask(p, to)[q] = Promoted(mask[q] \cap reach, to)
      BY <2>2 DEF CollapsedMask
    <3>2. QED
      BY <2>1, <3>1 DEF Promoted, Form
  <2>3. CASE q # p /\ q = board[to]
    <3>1. CollapsedMask(p, to)[q] = Demoted(mask[q])
      BY <2>3 DEF CollapsedMask
    <3>2. QED
      BY <2>1, <3>1 DEF Demoted, Form
  <2>4. CASE ~(q = p /\ OnBoard(p)) /\ ~(q # p /\ q = board[to])
    <3>1. CollapsedMask(p, to)[q] = mask[q]
      BY <2>4 DEF CollapsedMask
    <3>2. QED
      BY <2>1, <3>1
  <2>5. QED
    BY <2>2, <2>3, <2>4
<1>2. CollapsedMask(p, to) = [q \in Piece |-> CollapsedMask(p, to)[q]]
  BY DEF CollapsedMask
<1>3. QED
  BY <1>1, <1>2 DEF Mask

(* Resolution only removes Lions. *)
LEMMA ResolutionFacts ==
  ASSUME NEW p, NEW to, NEW m \in Mask
  PROVE  /\ Resolved(p, to, m) \in Mask
         /\ \A q \in Piece : Resolved(p, to, m)[q] \subseteq m[q]
BY DEF Resolved, LionsRefuted, Mask

(* The two propagations of a move: the masks it leaves are settled, and    *)
(* each phase only removes forms.                                          *)
LEMMA MasksChain ==
  ASSUME GameTypeOK, NEW p \in Piece, NEW to \in Square, NEW after \in MasksAfter(p, to)
  PROVE  \E first \in Mask :
           /\ first = Pass(CollapsedMask(p, to))
           /\ after \in Mask /\ Settled(after)
           /\ \A q \in Piece :
                /\ after[q] \subseteq Resolved(p, to, first)[q]
                /\ Resolved(p, to, first)[q] \subseteq first[q]
                /\ first[q] \subseteq CollapsedMask(p, to)[q]
<1>1. PICK first \in Propagate(CollapsedMask(p, to)) :
        after \in Propagate(Resolved(p, to, first))
  BY DEF MasksAfter
<1>2. first = Pass(CollapsedMask(p, to))
  BY <1>1 DEF Propagate
<1>3. first \in Mask /\ \A q \in Piece : first[q] \subseteq CollapsedMask(p, to)[q]
  BY <1>2, CollapseFacts, PassShrinks
<1>4. /\ Resolved(p, to, first) \in Mask
      /\ \A q \in Piece : Resolved(p, to, first)[q] \subseteq first[q]
  BY <1>3, ResolutionFacts
<1>5. Consistent(Resolved(p, to, first)) /\ after = Pass(Resolved(p, to, first))
  BY <1>1 DEF Propagate
<1>6. /\ after \in Mask /\ Settled(after)
      /\ \A q \in Piece : after[q] \subseteq Resolved(p, to, first)[q]
  BY <1>4, <1>5, PassShrinks, PassSettles
<1>7. QED
  BY <1>2, <1>3, <1>4, <1>6

(* No move creates a Lion. *)
LEMMA LionsAreOld ==
  ASSUME GameTypeOK, NEW p \in Piece, NEW to \in Square, NEW after \in MasksAfter(p, to),
         NEW q \in Piece, "Lion" \in after[q]
  PROVE  "Lion" \in mask[q]
BY MasksChain, CollapseFacts

(* Where the pieces are after a move. *)
LEMMA PositionsAfter ==
  ASSUME GameTypeOK, NEW p \in Piece, NEW to \in Square, Admissible(p, to)
  PROVE  /\ PosAfter(p, to) \in [Piece -> Square \cup HandSlot]
         /\ PosAfter(p, to)[p] = to
         /\ \A q \in Piece \ {p} : q # board[to] => PosAfter(p, to)[q] = pos[q]
         /\ \A q \in Piece : q = board[to] =>
              /\ PosAfter(p, to)[q] \in HandSlot
              /\ \A r \in Piece \ {q} : InHand(r) => pos[r] # PosAfter(p, to)[q]
<1>1. MovePreconditionsHold(p, to)
  BY DEF Admissible
<1>2. ASSUME NEW q \in Piece, q = board[to]
      PROVE  /\ PosAfter(p, to)[q] = LowestFreeSlot(q)
             /\ LowestFreeSlot(q) \in FreeSlots(q)
  <2>1. q # p
    BY <1>1, <1>2, CapturedPiece
  <2>2. FreeSlots(q) # {}
    BY SlotForCapture
  <2>3. QED
    BY <1>2, <2>1, <2>2, LowestSlotIsFree DEF PosAfter
<1>3. ASSUME NEW q \in Piece, q = board[to]
      PROVE  /\ PosAfter(p, to)[q] \in HandSlot
             /\ \A r \in Piece \ {q} : InHand(r) => pos[r] # PosAfter(p, to)[q]
  BY <1>2, <1>3 DEF FreeSlots, UsedSlots
<1>4. PosAfter(p, to)[p] = to
  BY DEF PosAfter
<1>5. ASSUME NEW q \in Piece \ {p}, q # board[to]
      PROVE  PosAfter(p, to)[q] = pos[q]
  BY <1>5 DEF PosAfter
<1>6. \A q \in Piece : PosAfter(p, to)[q] \in Square \cup HandSlot
  BY <1>3, <1>4, <1>5 DEF GameTypeOK
<1>7. PosAfter(p, to) = [q \in Piece |-> PosAfter(p, to)[q]]
  BY DEF PosAfter
<1>8. QED
  BY <1>3, <1>4, <1>5, <1>6, <1>7

-----------------------------------------------------------------------------
(* What a move does to the state. *)

(* What the verdict says of the state it is read in. *)
LEMMA VerdictAfter ==
  ASSUME NEW p \in Piece, NEW to \in Square, ApplyMove(p, to), sideToMove \in Side, turn \in Nat
  PROVE  /\ terminal' \in {"None", "Catch", "Try", "Draw"}
         /\ terminal' = "Try" =>
              winner' = sideToMove' /\ HasTryCandidate(sideToMove)'
         /\ terminal' = "Catch" =>
              winner' = sideToMove /\ HasHandLion(winner)'
         /\ terminal' = "None" =>
              ~(\E q \in Piece : owner'[q] = sideToMove /\ InHand(q)' /\ "Lion" \in mask'[q])
              /\ turn' < TurnLimit
         /\ winner' \in Side \cup {"None"}
<1>1. sideToMove' = Opposite(sideToMove) /\ turn' = turn + 1
  BY DEF ApplyMove
<1>2. Opposite(sideToMove') = sideToMove /\ sideToMove' \in Side
  BY <1>1, OppositeSide
<1>3. terminal' = Verdict'[1] /\ winner' = Verdict'[2]
  BY DEF ApplyMove
<1>4. Verdict' = IF HasTryCandidate(sideToMove)' THEN <<"Try", sideToMove'>>
                 ELSE IF HasHandLion(Opposite(sideToMove))' THEN <<"Catch", sideToMove>>
                 ELSE IF turn' >= TurnLimit THEN <<"Draw", "None">>
                 ELSE <<"None", "None">>
  BY <1>2 DEF Verdict
<1>5. HasHandLion(Opposite(sideToMove))' <=>
        \E q \in Piece : owner'[q] = sideToMove /\ InHand(q)' /\ "Lion" \in mask'[q]
  BY <1>2 DEF HasHandLion, Owns
<1>6. turn' \in Nat /\ TurnLimit \in Nat
  BY <1>1, GameConstants
<1>7. CASE HasTryCandidate(sideToMove)'
  BY <1>2, <1>3, <1>4, <1>7
<1>8. CASE ~HasTryCandidate(sideToMove)' /\ HasHandLion(Opposite(sideToMove))'
  <2>1. terminal' = "Catch" /\ winner' = sideToMove
    BY <1>3, <1>4, <1>8
  <2>2. HasHandLion(winner)'
    BY <1>5, <1>8, <2>1 DEF HasHandLion, Owns
  <2>3. QED
    BY <2>1, <2>2
<1>9. CASE ~HasTryCandidate(sideToMove)' /\ ~HasHandLion(Opposite(sideToMove))'
  <2>1. CASE turn' >= TurnLimit
    BY <1>3, <1>4, <1>9, <2>1
  <2>2. CASE ~(turn' >= TurnLimit)
    <3>1. terminal' = "None" /\ winner' = "None" /\ turn' < TurnLimit
      BY <1>3, <1>4, <1>6, <1>9, <2>2
    <3>2. QED
      BY <1>5, <1>9, <3>1
  <2>3. QED
    BY <2>1, <2>2
<1>10. QED
  BY <1>7, <1>8, <1>9

LEMMA MoveKeepsTypes ==
  ASSUME GameTypeOK, OpenGame, NEW p \in Piece, NEW to \in Square, ApplyMove(p, to)
  PROVE  GameTypeOK' /\ OpenGame'
<1>1. terminal = "None" /\ turn \in Nat /\ turn < TurnLimit /\ sideToMove \in Side
  BY GameConstants DEF ApplyMove, Admissible, MovePreconditionsHold, OpenGame, GameTypeOK
<1>2. board' \in [Square -> Piece \cup {Empty}]
  BY DEF ApplyMove, BoardAfter, GameTypeOK
<1>3. pos' \in [Piece -> Square \cup HandSlot]
  BY PositionsAfter DEF ApplyMove
<1>4. mask' \in Mask
  BY MasksChain DEF ApplyMove
<1>5. owner' \in [Piece -> Side]
  BY <1>1 DEF ApplyMove, OwnerAfter, GameTypeOK
<1>6. sideToMove' \in Side
  BY <1>1, OppositeSide DEF ApplyMove
<1>7. turn' \in 0 .. TurnLimit
  BY <1>1, GameConstants DEF ApplyMove
<1>8. /\ terminal' \in {"None", "Catch", "Try", "Draw"} /\ winner' \in Side \cup {"None"}
      /\ terminal' = "None" => turn' < TurnLimit
  BY <1>1, VerdictAfter
<1>9. QED
  BY <1>2, <1>3, <1>4, <1>5, <1>6, <1>7, <1>8 DEF GameTypeOK, OpenGame

(* The board and the positions agree after a move, and hand slots stay     *)
(* apart: the mover leaves its place, the captured piece takes a slot no   *)
(* other piece has.                                                        *)
LEMMA MoveKeepsBoard ==
  ASSUME GameTypeOK, BoardConsistent, NEW p \in Piece, NEW to \in Square, ApplyMove(p, to)
  PROVE  BoardConsistent'
<1> USE DEF OnBoard, InHand
<1>1. /\ Admissible(p, to) /\ MovePreconditionsHold(p, to)
      /\ board' = BoardAfter(p, to) /\ pos' = PosAfter(p, to)
  BY DEF ApplyMove, Admissible
<1>2. /\ pos'[p] = to
      /\ \A q \in Piece \ {p} : q # board[to] => pos'[q] = pos[q]
      /\ \A q \in Piece : q = board[to] =>
           /\ pos'[q] \in HandSlot
           /\ \A r \in Piece \ {q} : pos[r] \in HandSlot => pos[r] # pos'[q]
      /\ board[to] # p
  BY <1>1, PositionsAfter, CapturedPiece
<1>3. \A s \in Square : board'[s] = IF s = to THEN p ELSE IF s = pos[p] THEN Empty ELSE board[s]
  BY <1>1 DEF BoardAfter
<1>4. \A s \in Square : s \notin HandSlot
  BY Places
<1>5. ASSUME NEW s \in Square, board'[s] # Empty
      PROVE  pos'[board'[s]] = s
  <2>1. CASE s = to
    BY <1>2, <1>3, <2>1
  <2>2. CASE s # to
    <3>1. s # pos[p] /\ board'[s] = board[s]
      BY <1>3, <1>5, <2>2
    <3>2. board[s] \in Piece /\ pos[board[s]] = s
      BY <1>5, <3>1 DEF BoardConsistent, GameTypeOK
    <3>3. board[s] # p
      BY <3>1, <3>2
    <3>4. CASE board[s] = board[to]
      <4>1. board[to] # Empty
        BY <3>2, <3>4, GameConstants
      <4>2. pos[board[to]] = to
        BY <4>1 DEF BoardConsistent
      <4>3. QED
        BY <2>2, <3>2, <3>4, <4>2
    <3>5. CASE board[s] # board[to]
      BY <1>2, <3>1, <3>2, <3>3, <3>5
    <3>6. QED
      BY <3>4, <3>5
  <2>3. QED
    BY <2>1, <2>2
<1>6. ASSUME NEW q \in Piece, pos'[q] \in Square
      PROVE  board'[pos'[q]] = q
  <2>1. CASE q = p
    BY <1>2, <1>3, <2>1
  <2>2. CASE q # p
    <3>1. q # board[to] /\ pos'[q] = pos[q]
      BY <1>2, <1>4, <1>6, <2>2
    <3>2. board[pos[q]] = q
      BY <1>6, <3>1 DEF BoardConsistent
    <3>3. pos[q] # to
      BY <3>1, <3>2
    <3>4. pos[q] # pos[p]
      <4>1. pos[q] = pos[p] => board[pos[p]] = p
        BY <1>6, <3>1 DEF BoardConsistent
      <4>2. QED
        BY <2>2, <3>2, <4>1
    <3>5. QED
      BY <1>3, <1>6, <3>1, <3>2, <3>3, <3>4
  <2>3. QED
    BY <2>1, <2>2
<1>7. ASSUME NEW q \in Piece, NEW r \in Piece, pos'[q] \in HandSlot, pos'[q] = pos'[r]
      PROVE  q = r
  <2>1. q # p /\ r # p
    BY <1>2, <1>4, <1>7
  <2>2. CASE q = board[to] /\ r # board[to]
    BY <1>2, <1>7, <2>1, <2>2
  <2>3. CASE r = board[to] /\ q # board[to]
    BY <1>2, <1>7, <2>1, <2>3
  <2>4. CASE q # board[to] /\ r # board[to]
    <3>1. pos[q] \in HandSlot /\ pos[q] = pos[r]
      BY <1>2, <1>7, <2>1, <2>4
    <3>2. QED
      BY <3>1 DEF BoardConsistent
  <2>5. QED
    BY <2>2, <2>3, <2>4
<1>8. QED
  BY <1>5, <1>6, <1>7 DEF BoardConsistent

(* Propagation ends every move, so the masks are settled after it. *)
LEMMA MoveKeepsMasks ==
  ASSUME GameTypeOK, NEW p \in Piece, NEW to \in Square, ApplyMove(p, to)
  PROVE  MasksSettled'
<1>1. mask' \in MasksAfter(p, to)
  BY DEF ApplyMove
<1>2. Settled(mask')
  BY <1>1, MasksChain
<1>3. QED
  BY <1>2 DEF MasksSettled, Settled, Consistent

LEMMA MoveKeepsPromotion ==
  ASSUME GameTypeOK, PromotionConsistent, NEW p \in Piece, NEW to \in Square, ApplyMove(p, to)
  PROVE  PromotionConsistent'
<1> USE DEF InHand
<1>1. /\ Admissible(p, to) /\ MovePreconditionsHold(p, to)
      /\ pos' = PosAfter(p, to) /\ mask' \in MasksAfter(p, to)
  BY DEF ApplyMove, Admissible
<1>2. \A q \in Piece : mask'[q] \subseteq CollapsedMask(p, to)[q]
  BY <1>1, MasksChain
<1>3. ASSUME NEW q \in Piece
      PROVE  /\ ~({"Chick", "Hen"} \subseteq CollapsedMask(p, to)[q])
             /\ pos'[q] \in HandSlot => "Hen" \notin CollapsedMask(p, to)[q]
  <2>1. ~({"Chick", "Hen"} \subseteq mask[q]) /\ (pos[q] \in HandSlot => "Hen" \notin mask[q])
    BY DEF PromotionConsistent
  <2>2. CASE q = p
    <3>1. pos'[q] \notin HandSlot
      BY <1>1, <2>2, PositionsAfter, Places
    <3>2. CASE OnBoard(p)
      <4>1. CollapsedMask(p, to)[q] =
              Promoted(mask[p] \cap MoveForms[sideToMove][pos[p]][to], to)
        BY <2>2, <3>2 DEF CollapsedMask
      <4>2. QED
        BY <2>1, <2>2, <3>1, <4>1 DEF Promoted
    <3>3. CASE ~OnBoard(p)
      BY <2>1, <2>2, <3>1, <3>3 DEF CollapsedMask
    <3>4. QED
      BY <3>2, <3>3
  <2>3. CASE q # p /\ q = board[to]
    <3>1. CollapsedMask(p, to)[q] = Demoted(mask[q])
      BY <2>3 DEF CollapsedMask
    <3>2. QED
      BY <2>1, <3>1 DEF Demoted
  <2>4. CASE q # p /\ q # board[to]
    <3>1. CollapsedMask(p, to)[q] = mask[q] /\ pos'[q] = pos[q]
      BY <1>1, <2>4, PositionsAfter DEF CollapsedMask
    <3>2. QED
      BY <2>1, <3>1
  <2>5. QED
    BY <2>2, <2>3, <2>4
<1>4. QED
  BY <1>2, <1>3 DEF PromotionConsistent

(* A Lion candidate that changes hands ends the game. *)
LEMMA MoveKeepsLions ==
  ASSUME GameTypeOK, LionsStayHome, NEW p \in Piece, NEW to \in Square, ApplyMove(p, to)
  PROVE  LionsStayHome'
<1> USE DEF OnBoard, InHand
<1>1. /\ terminal = "None" /\ Admissible(p, to) /\ MovePreconditionsHold(p, to)
      /\ pos' = PosAfter(p, to) /\ mask' \in MasksAfter(p, to)
      /\ owner' = OwnerAfter(p, to)
  BY DEF ApplyMove, Admissible, MovePreconditionsHold
<1>2. sideToMove \in Side /\ turn \in Nat
  BY GameConstants DEF GameTypeOK
<1>3. SUFFICES ASSUME terminal' = "None", NEW q \in Piece, "Lion" \in mask'[q]
               PROVE  pos'[q] \in Square /\ owner'[q] = Origin[q]
  BY DEF LionsStayHome
<1>4. pos[q] \in Square /\ owner[q] = Origin[q]
  BY <1>1, <1>3, LionsAreOld DEF LionsStayHome
<1>5. CASE q = board[to]
  <2>1. owner'[q] = sideToMove /\ pos'[q] \in HandSlot
    BY <1>1, <1>5, PositionsAfter DEF OwnerAfter
  <2>2. QED
    BY <1>2, <1>3, <2>1, VerdictAfter
<1>6. CASE q # board[to]
  <2>1. owner'[q] = owner[q]
    BY <1>1, <1>6 DEF OwnerAfter
  <2>2. pos'[q] \in Square
    BY <1>1, <1>4, <1>6, PositionsAfter
  <2>3. QED
    BY <1>4, <2>1, <2>2
<1>7. QED
  BY <1>5, <1>6

(* With every lineage open, any piece may be of any lineage: exchange the  *)
(* lineages of two pieces in any assignment.                               *)
LEMMA OpenMasksAreSettled ==
  Settled([p \in Piece |-> Animal])
<1> DEFINE open == [p \in Piece |-> Animal]
<1>1. open \in Mask
  BY DEF Mask, Animal, Form
<1>2. ASSUME NEW side \in Side, NEW a \in Assignments[side]
      PROVE  a \in Worlds(open, side)
  <2>1. a \in [Group(side) -> Animal]
    BY DEF Assignments
  <2>2. \A p \in Group(side) : a[p] \in open[p] /\ LineageOf(a[p]) = a[p]
    BY <2>1 DEF Group, LineageOf, Animal
  <2>3. QED
    BY <2>1, <2>2 DEF Worlds
<1>3. Consistent(open)
  BY <1>1, <1>2, WorldsMakeConsistent, GameConstants
<1>4. ASSUME NEW p \in Piece, NEW l \in Animal
      PROVE  \E a \in Worlds(open, Origin[p]) : a[p] = l
  <2> DEFINE side == Origin[p]
  <2>1. side \in Side /\ p \in Group(side)
    BY LineageConstants DEF Group
  <2>2. PICK a \in Assignments[side] : TRUE
    BY <2>1, GameConstants
  <2>3. /\ a \in [Group(side) -> Animal]
        /\ \A q, r \in Group(side) : a[q] = a[r] => q = r
        /\ \A k \in Animal : \E q \in Group(side) : a[q] = k
    BY <2>1, <2>2 DEF Assignments
  <2>4. PICK t \in Group(side) : a[t] = l
    BY <2>3
  <2> HIDE DEF side
  <2> DEFINE b == [q \in Group(side) |-> IF q = p THEN l ELSE IF q = t THEN a[p] ELSE a[q]]
  <2>5. b \in [Group(side) -> Animal] /\ b[p] = l
    BY <2>1, <2>3
  <2>6. \A q, r \in Group(side) : b[q] = b[r] => q = r
    BY <2>1, <2>3, <2>4
  <2>7. \A k \in Animal : \E q \in Group(side) : b[q] = k
    <3>1. TAKE k \in Animal
    <3>2. PICK q \in Group(side) : a[q] = k
      BY <2>3
    <3>3. CASE q = t
      BY <2>1, <2>4, <3>2, <3>3
    <3>4. CASE q = p /\ q # t
      BY <2>1, <2>4, <3>2, <3>4
    <3>5. CASE q # p /\ q # t
      BY <3>2, <3>5
    <3>6. QED
      BY <3>3, <3>4, <3>5
  <2> HIDE DEF b
  <2>8. b \in Assignments[side]
    BY <2>1, <2>5, <2>6, <2>7 DEF Assignments
  <2>9. b \in Worlds(open, side)
    BY <1>2, <2>1, <2>8
  <2>10. QED
    BY <2>5, <2>9 DEF side
<1>5. ASSUME NEW p \in Piece
      PROVE  Pass(open)[p] = open[p]
  <2>1. \A f \in open[p] : f \in Animal /\ LineageOf(f) = f
    BY DEF LineageOf, Animal
  <2>2. \A f \in open[p] : \E a \in Worlds(open, Origin[p]) : a[p] = LineageOf(f)
    BY <1>4, <2>1
  <2>3. Pass(open)[p] =
          {f \in open[p] : \E a \in Worlds(open, Origin[p]) : a[p] = LineageOf(f)}
    BY PassOf
  <2> HIDE DEF open
  <2>4. QED
    BY <2>2, <2>3
<1>6. Pass(open) = [p \in Piece |-> Pass(open)[p]]
  BY DEF Pass
<1>7. Pass(open) = open
  BY <1>5, <1>6
<1>8. QED
  BY <1>3, <1>7 DEF Settled

LEMMA InitGameInv ==
  ASSUME GameInit
  PROVE  GameInv
<1> USE DEF OnBoard, InHand
<1>1. /\ mask = [p \in Piece |-> Animal] /\ pos = Home /\ owner = Origin
      /\ sideToMove = "South" /\ turn = 0 /\ terminal = "None" /\ winner = "None"
  BY DEF GameInit
<1>2. \A p \in Piece : Home[p] \in Square /\ Home[p] \notin HandSlot
  BY GameConstants, Places
<1>3. \A s \in Square :
        \/ board[s] \in Piece /\ Home[board[s]] = s
        \/ board[s] = Empty /\ \A p \in Piece : Home[p] # s
  BY DEF GameInit
<1>4. \A p \in Piece : board[Home[p]] = p
  BY <1>2, <1>3, GameConstants
<1>5. board \in [Square -> Piece \cup {Empty}]
  <2>1. board = [s \in Square |-> board[s]]
    BY DEF GameInit
  <2>2. QED
    BY <1>3, <2>1
<1>6. GameTypeOK
  <2>1. mask \in Mask
    BY <1>1 DEF Mask, Animal, Form
  <2>2. QED
    BY <1>1, <1>5, <2>1, GameConstants, LineageConstants DEF GameTypeOK, Side
<1>7. OpenGame
  BY <1>1, GameConstants DEF OpenGame
<1>8. BoardConsistent
  BY <1>1, <1>2, <1>3, <1>4, GameConstants DEF BoardConsistent
<1>9. MasksSettled
  BY <1>1, OpenMasksAreSettled DEF MasksSettled
<1>10. PromotionConsistent
  BY <1>1 DEF PromotionConsistent, Animal
<1>11. LionsStayHome
  BY <1>1, <1>2 DEF LionsStayHome
<1>12. QED
  BY <1>6, <1>7, <1>8, <1>9, <1>10, <1>11 DEF GameInv

LEMMA MoveKeepsGameInv ==
  ASSUME GameInv, NEW p \in Piece, NEW to \in Square, ApplyMove(p, to)
  PROVE  GameInv'
BY MoveKeepsTypes, MoveKeepsBoard, MoveKeepsMasks, MoveKeepsPromotion, MoveKeepsLions
   DEF GameInv

LEMMA StutterKeepsGameInv ==
  ASSUME GameInv, UNCHANGED gameVars
  PROVE  GameInv'
<1> USE DEF gameVars
<1>1. GameTypeOK' /\ OpenGame'
  BY DEF GameInv, GameTypeOK, OpenGame
<1>2. BoardConsistent'
  BY DEF GameInv, BoardConsistent, OnBoard, InHand
<1>3. MasksSettled'
  BY DEF GameInv, MasksSettled
<1>4. PromotionConsistent' /\ LionsStayHome'
  BY DEF GameInv, PromotionConsistent, LionsStayHome, OnBoard, InHand
<1>5. QED
  BY <1>1, <1>2, <1>3, <1>4 DEF GameInv

THEOREM GameInvariant == GameSpec => []GameInv
<1>1. GameInit => GameInv
  BY InitGameInv
<1>2. GameInv /\ [GameNext]_gameVars => GameInv'
  <2> SUFFICES ASSUME GameInv, [GameNext]_gameVars
               PROVE  GameInv'
    OBVIOUS
  <2>1. CASE \E p \in Piece, to \in Square : ApplyMove(p, to)
    BY <2>1, MoveKeepsGameInv
  <2>2. CASE UNCHANGED gameVars
    BY <2>2, StutterKeepsGameInv
  <2>3. QED
    BY <2>1, <2>2 DEF GameNext, GameOver
<1>3. QED
  BY <1>1, <1>2, PTL DEF GameSpec

-----------------------------------------------------------------------------
(* What the runs check, for every instance. *)

(* Every variable keeps its type; the turn never passes TurnLimit. *)
THEOREM GameTypesCorrect == GameSpec => []GameTypeOK
<1>1. GameInv => GameTypeOK
  BY DEF GameInv
<1>2. QED
  BY <1>1, GameInvariant, PTL

(* The board and the positions of the pieces (place_moving_piece and       *)
(* capture_destination_piece write both) never disagree, and no two        *)
(* captured pieces share a hand slot.                                      *)
THEOREM BoardStaysConsistent == GameSpec => []BoardConsistent
<1>1. GameInv => BoardConsistent
  BY DEF GameInv
<1>2. QED
  BY <1>1, GameInvariant, PTL

(* After every move the masks are at the fixed point of propagation. *)
THEOREM MasksStaySettled == GameSpec => []MasksSettled
<1>1. GameInv => MasksSettled
  BY DEF GameInv
<1>2. QED
  BY <1>1, GameInvariant, PTL

(* No piece may be both a Chick and a Hen; no hand holds a Hen. *)
THEOREM PromotionStaysConsistent == GameSpec => []PromotionConsistent
<1>1. GameInv => PromotionConsistent
  BY DEF GameInv
<1>2. QED
  BY <1>1, GameInvariant, PTL

(* While the game is open no Lion candidate has changed hands. *)
THEOREM LionsNeverChangeHands == GameSpec => []LionsStayHome
<1>1. GameInv => LionsStayHome
  BY DEF GameInv
<1>2. QED
  BY <1>1, GameInvariant, PTL

(* While the game is open both players have a Lion candidate on the board: *)
(* each origin's assignment gives one of its pieces the Lion, and that     *)
(* piece has not left home.                                                *)
THEOREM BothLionsRemain == GameSpec => []BothLionsInPlay
<1>1. GameInv => BothLionsInPlay
  <2> SUFFICES ASSUME GameInv, terminal = "None", NEW side \in Side
               PROVE  \E p \in Piece : Owns(side, p) /\ OnBoard(p) /\ "Lion" \in mask[p]
    BY DEF BothLionsInPlay
  <2>1. mask \in Mask /\ Consistent(mask)
    BY DEF GameInv, GameTypeOK, MasksSettled, Settled
  <2>2. PICK p \in Group(side) : "Lion" \in mask[p]
    BY <2>1, EveryOriginHasLion
  <2>3. p \in Piece /\ Origin[p] = side
    BY DEF Group
  <2>4. OnBoard(p) /\ owner[p] = Origin[p]
    BY <2>2, <2>3 DEF GameInv, LionsStayHome
  <2>5. QED
    BY <2>2, <2>3, <2>4 DEF Owns
<1>2. QED
  BY <1>1, GameInvariant, PTL

-----------------------------------------------------------------------------
(* How games end. *)

LEMMA CatchStep ==
  ASSUME GameInv, NEW p \in Piece, NEW to \in Square, ApplyMove(p, to)
  PROVE  CatchTakesTheLast'
<1> USE DEF OnBoard, InHand
<1>1. /\ terminal = "None" /\ Admissible(p, to)
      /\ pos' = PosAfter(p, to) /\ owner' = OwnerAfter(p, to) /\ mask' \in MasksAfter(p, to)
  BY DEF ApplyMove, Admissible, MovePreconditionsHold
<1>2. GameTypeOK /\ LionsStayHome /\ sideToMove \in Side /\ turn \in Nat
  BY GameConstants DEF GameInv, GameTypeOK
<1>3. SUFFICES ASSUME terminal' = "Catch", NEW r \in Piece,
                      owner'[r] = Opposite(winner'), "Lion" \in mask'[r]
               PROVE  FALSE
  BY DEF CatchTakesTheLast, Owns
<1>4. winner' = sideToMove /\ HasHandLion(winner)'
  BY <1>2, <1>3, VerdictAfter
<1>5. PICK q \in Piece : owner'[q] = sideToMove /\ pos'[q] \in HandSlot /\ "Lion" \in mask'[q]
  BY <1>4 DEF HasHandLion, Owns
<1>6. CASE OnBoard(p)
  <2>1. PICK first \in Mask :
          \A t \in Piece : /\ mask'[t] \subseteq Resolved(p, to, first)[t]
                           /\ Resolved(p, to, first)[t] \subseteq first[t]
    BY <1>1, <1>2, MasksChain
  <2>2. OpponentKeepsLion(p, to, first)
    BY <1>1, <1>3, <1>4, <2>1 DEF OpponentKeepsLion
  <2>3. Resolved(p, to, first) = LionsRefuted(p, to, first)
    BY <1>6, <2>2 DEF Resolved
  <2>4. "Lion" \notin Resolved(p, to, first)[q]
    BY <1>1, <1>5, <2>3 DEF LionsRefuted
  <2>5. QED
    BY <1>5, <2>1, <2>4
<1>7. CASE ~OnBoard(p)
  <2>1. pos[p] \in HandSlot
    BY <1>2, <1>7 DEF GameTypeOK
  <2>2. board[to] = Empty
    BY <1>1, <2>1 DEF Admissible, OriginEffectsPossible
  <2>3. "Lion" \in mask[q]
    BY <1>1, <1>2, <1>5, LionsAreOld
  <2>4. pos[q] \in Square
    BY <1>1, <1>2, <2>3 DEF LionsStayHome
  <2>5. pos'[q] \in Square
    BY <1>1, <1>2, <2>2, <2>4, PositionsAfter, GameConstants
  <2>6. QED
    BY <1>5, <2>5, Places
<1>8. QED
  BY <1>6, <1>7

(* A player loses by Catch only with no Lion candidate left anywhere. *)
THEOREM CatchIsDecisive == GameSpec => []CatchTakesTheLast
<1>1. GameInit => CatchTakesTheLast
  BY DEF GameInit, CatchTakesTheLast
<1>2. CatchTakesTheLast /\ GameInv /\ [GameNext]_gameVars => CatchTakesTheLast'
  <2> SUFFICES ASSUME CatchTakesTheLast, GameInv, [GameNext]_gameVars
               PROVE  CatchTakesTheLast'
    OBVIOUS
  <2>1. CASE \E p \in Piece, to \in Square : ApplyMove(p, to)
    BY <2>1, CatchStep
  <2>2. CASE UNCHANGED gameVars
    BY <2>2 DEF gameVars, CatchTakesTheLast, Owns
  <2>3. QED
    BY <2>1, <2>2 DEF GameNext, GameOver
<1>3. QED
  BY <1>1, <1>2, GameInvariant, PTL DEF GameSpec

LEMMA TryStep ==
  ASSUME GameInv, NEW p \in Piece, NEW to \in Square, ApplyMove(p, to), terminal' = "Try"
  PROVE  \E q \in Piece :
           /\ owner[q] = winner' /\ owner'[q] = winner'
           /\ OnBoard(q) /\ pos'[q] = pos[q] /\ IsBackRank(pos[q], winner')
           /\ "Lion" \in mask[q]
<1> USE DEF OnBoard
<1>1. /\ Admissible(p, to) /\ MovePreconditionsHold(p, to)
      /\ pos' = PosAfter(p, to) /\ owner' = OwnerAfter(p, to) /\ mask' \in MasksAfter(p, to)
      /\ sideToMove' = Opposite(sideToMove)
  BY DEF ApplyMove, Admissible
<1>2. GameTypeOK /\ sideToMove \in Side /\ turn \in Nat
  BY GameConstants DEF GameInv, GameTypeOK
<1>3. winner' = Opposite(sideToMove) /\ HasTryCandidate(sideToMove)'
  BY <1>1, <1>2, VerdictAfter
<1>4. PICK q \in Piece :
        /\ owner'[q] = winner' /\ pos'[q] \in Square
        /\ IsBackRank(pos'[q], winner') /\ "Lion" \in mask'[q]
  BY <1>1, <1>3 DEF HasTryCandidate, Owns
<1>5. q # board[to] /\ owner[q] = winner'
  BY <1>1, <1>2, <1>3, <1>4, OppositeSide DEF OwnerAfter
<1>6. q # p
  BY <1>1, <1>2, <1>3, <1>5, OppositeSide DEF MovePreconditionsHold, Owns
<1>7. pos'[q] = pos[q]
  BY <1>1, <1>2, <1>5, <1>6, PositionsAfter
<1>8. "Lion" \in mask[q]
  BY <1>1, <1>2, <1>4, LionsAreOld
<1>9. QED
  BY <1>4, <1>5, <1>7, <1>8

(* A Try is awarded only for a Lion candidate that already stood on the    *)
(* rank before the opponent's reply.                                       *)
THEOREM TriesWerePending == GameSpec => TryWasPending
<1>1. GameInv /\ [GameNext]_gameVars =>
        [TryStoodThere]_gameVars
  BY TryStep DEF GameNext, GameOver, TryStoodThere
<1>2. QED
  BY <1>1, GameInvariant, PTL DEF GameSpec, TryWasPending

(* All that a move must leave behind, together. *)
THEOREM PositionStaysSound == GameSpec => []PositionSound
<1>1. BoardConsistent /\ MasksSettled /\ PromotionConsistent /\ LionsStayHome /\ BothLionsInPlay
        => PositionSound
  BY DEF PositionSound
<1>2. QED
  BY <1>1, BoardStaysConsistent, MasksStaySettled, PromotionStaysConsistent,
     LionsNeverChangeHands, BothLionsRemain, PTL

(* A Catch takes the opponent's last Lion candidate, and a Try is that of a *)
(* candidate that stayed on the rank during the reply                      *)
(* (docs/04_STATE_AND_MOVE_RULES.md:34-39).                                *)
THEOREM WinsAreDeserved == GameSpec => EndingsDeserved
<1>1. QED
  BY CatchIsDecisive, TriesWerePending, PTL DEF EndingsDeserved, TryWasPending

-----------------------------------------------------------------------------
(* The candidates of the move generator are exactly the legal moves.       *)

(* Promotion and demotion change a form, never its lineage: an assignment  *)
(* that gives the mover a form able to make the move survives the collapse.*)
LEMMA CollapseKeepsWorld ==
  ASSUME GameTypeOK, NEW p \in Piece, NEW to \in Square, NEW side \in Side,
         NEW a \in Worlds(mask, side),
         (p \in DOMAIN a /\ OnBoard(p)) =>
           \E f \in mask[p] \cap MoveForms[sideToMove][pos[p]][to] : LineageOf(f) = a[p]
  PROVE  a \in Worlds(CollapsedMask(p, to), side)
<1> DEFINE reach == MoveForms[sideToMove][pos[p]][to]
<1>1. a \in Assignments[side] /\ DOMAIN a = Group(side)
  BY WorldDomain DEF Worlds
<1>2. ASSUME NEW q \in DOMAIN a
      PROVE  \E f \in CollapsedMask(p, to)[q] : LineageOf(f) = a[q]
  <2>1. q \in Piece
    BY <1>1 DEF Group
  <2>2. PICK g \in mask[q] : LineageOf(g) = a[q]
    BY DEF Worlds
  <2>3. CASE q = p /\ OnBoard(p)
    <3>1. PICK f \in mask[p] \cap reach : LineageOf(f) = a[p]
      BY <2>3
    <3>2. CollapsedMask(p, to)[q] = Promoted(mask[p] \cap reach, to)
      BY <2>1, <2>3 DEF CollapsedMask
    <3>3. CASE f = "Chick" /\ IsBackRank(to, sideToMove)
      <4>1. "Hen" \in CollapsedMask(p, to)[q]
        BY <3>1, <3>2, <3>3 DEF Promoted
      <4>2. QED
        BY <2>3, <3>1, <3>3, <4>1 DEF LineageOf
    <3>4. CASE ~(f = "Chick" /\ IsBackRank(to, sideToMove))
      <4>1. f \in CollapsedMask(p, to)[q]
        BY <3>1, <3>2, <3>4 DEF Promoted
      <4>2. QED
        BY <2>3, <3>1, <4>1
    <3>5. QED
      BY <3>3, <3>4
  <2>4. CASE q # p /\ q = board[to]
    <3>1. CollapsedMask(p, to)[q] = Demoted(mask[q])
      BY <2>1, <2>4 DEF CollapsedMask
    <3>2. CASE g = "Hen"
      <4>1. "Chick" \in CollapsedMask(p, to)[q]
        BY <2>2, <3>1, <3>2 DEF Demoted
      <4>2. QED
        BY <2>2, <3>2, <4>1 DEF LineageOf
    <3>3. CASE g # "Hen"
      <4>1. g \in CollapsedMask(p, to)[q]
        BY <2>2, <3>1, <3>3 DEF Demoted
      <4>2. QED
        BY <2>2, <4>1
    <3>4. QED
      BY <3>2, <3>3
  <2>5. CASE ~(q = p /\ OnBoard(p)) /\ ~(q # p /\ q = board[to])
    <3>1. CollapsedMask(p, to)[q] = mask[q]
      BY <2>1, <2>5 DEF CollapsedMask
    <3>2. QED
      BY <2>2, <3>1
  <2>6. QED
    BY <2>3, <2>4, <2>5
<1>3. QED
  BY <1>1, <1>2 DEF Worlds

(* A candidate's collapse contradicts nothing: every form the mover shows  *)
(* belongs to an assignment, in settled masks.                             *)
LEMMA CollapseIsConsistent ==
  ASSUME GameInv, NEW p \in Piece, NEW to \in Square,
         OnBoard(p) => mask[p] \cap MoveForms[sideToMove][pos[p]][to] # {}
  PROVE  Consistent(CollapsedMask(p, to))
<1> DEFINE reach == MoveForms[sideToMove][pos[p]][to]
<1>1. GameTypeOK /\ mask \in Mask /\ Settled(mask) /\ Consistent(mask)
  BY DEF GameInv, GameTypeOK, MasksSettled, Settled
<1>2. ASSUME NEW side \in Side
      PROVE  Worlds(CollapsedMask(p, to), side) # {}
  <2>1. PICK any \in Worlds(mask, side) : TRUE
    BY <1>1 DEF Consistent
  <2>2. CASE p \in Group(side) /\ OnBoard(p)
    <3>1. PICK f \in mask[p] : f \in reach
      BY <2>2
    <3>2. PICK a \in Worlds(mask, side) : a[p] = LineageOf(f)
      BY <1>1, <2>2, <3>1, SettledFormHasWorld DEF Group
    <3>3. QED
      BY <1>1, <3>1, <3>2, CollapseKeepsWorld
  <2>3. CASE ~(p \in Group(side) /\ OnBoard(p))
    <3>1. DOMAIN any = Group(side)
      BY <2>1, WorldDomain
    <3>2. QED
      BY <1>1, <2>1, <2>3, <3>1, CollapseKeepsWorld
  <2>4. QED
    BY <2>2, <2>3
<1>3. QED
  BY <1>1, <1>2, CollapseFacts, WorldsMakeConsistent

(* Refuting the captured Lion candidates contradicts nothing either: they  *)
(* were born on the other side, where another piece may still be the Lion, *)
(* and no piece of the mover's own birth is in its hand as a Lion.         *)
LEMMA ResolutionIsConsistent ==
  ASSUME GameInv, NEW p \in Piece, NEW to \in Square, Admissible(p, to),
         NEW first \in Mask, Settled(first),
         \A q \in Piece : "Lion" \in first[q] => "Lion" \in mask[q],
         OpponentKeepsLion(p, to, first)
  PROVE  Consistent(LionsRefuted(p, to, first))
<1> DEFINE refuted == LionsRefuted(p, to, first)
<1> USE DEF OnBoard
<1>1. /\ GameTypeOK /\ LionsStayHome /\ terminal = "None"
      /\ sideToMove \in Side /\ MovePreconditionsHold(p, to)
  BY DEF GameInv, GameTypeOK, Admissible, MovePreconditionsHold
<1>2. \A q \in Piece : "Lion" \in first[q] => pos[q] \in Square /\ owner[q] = Origin[q]
  BY <1>1 DEF LionsStayHome
<1>3. PICK r \in Piece : OwnerAfter(p, to)[r] = Opposite(sideToMove) /\ "Lion" \in first[r]
  BY DEF OpponentKeepsLion
<1>4. Origin[r] = Opposite(sideToMove)
  <2>1. r # board[to]
    BY <1>1, <1>3, OppositeSide DEF OwnerAfter
  <2>2. QED
    BY <1>2, <1>3, <2>1 DEF OwnerAfter
<1>5. ASSUME NEW q \in Piece, NEW g \in first[q], g # "Lion"
      PROVE  g \in refuted[q]
  BY <1>5 DEF LionsRefuted
<1>6. "Lion" \in refuted[r]
  BY <1>1, <1>3, OppositeSide DEF LionsRefuted
<1>7. ASSUME NEW q \in Piece, Origin[q] = sideToMove, "Lion" \in first[q]
      PROVE  "Lion" \in refuted[q]
  <2>1. pos[q] \in Square /\ owner[q] = sideToMove
    BY <1>2, <1>7
  <2>2. q # board[to]
    BY <1>1, <2>1, CapturedPiece, GameConstants, OppositeSide
  <2>3. PosAfter(p, to)[q] \in Square
    BY <1>1, <2>1, <2>2, PositionsAfter
  <2>4. PosAfter(p, to)[q] \notin HandSlot
    BY <2>3, Places
  <2>5. QED
    BY <1>7, <2>4 DEF LionsRefuted
<1>8. refuted \in Mask
  BY DEF LionsRefuted, Mask
<1> HIDE DEF refuted
<1>9. Worlds(refuted, sideToMove) # {}
  <2>1. PICK a \in Worlds(first, sideToMove) : DOMAIN a = Group(sideToMove)
    <3>1. Worlds(first, sideToMove) # {} /\ sideToMove \in Side
      BY <1>1 DEF Consistent, Settled
    <3>2. QED
      BY <3>1, WorldDomain
  <2>2. ASSUME NEW q \in DOMAIN a
        PROVE  \E g \in refuted[q] : LineageOf(g) = a[q]
    <3>1. q \in Piece /\ Origin[q] = sideToMove
      BY <2>1 DEF Group
    <3>2. PICK g \in first[q] : LineageOf(g) = a[q]
      BY <2>1 DEF Worlds
    <3>3. g \in refuted[q]
      BY <1>5, <1>7, <3>1, <3>2
    <3>4. QED
      BY <3>2, <3>3
  <2>3. QED
    BY <2>1, <2>2 DEF Worlds
<1>10. Worlds(refuted, Opposite(sideToMove)) # {}
  <2> DEFINE other == Opposite(sideToMove)
  <2>1. other \in Side /\ r \in Group(other)
    BY <1>1, <1>4, OppositeSide DEF Group
  <2> HIDE DEF other
  <2>2. PICK a \in Worlds(first, other) : a[r] = "Lion"
    <3>1. LineageOf("Lion") = "Lion"
      BY DEF LineageOf
    <3>2. \E a \in Worlds(first, Origin[r]) : a[r] = LineageOf("Lion")
      BY <1>3, SettledFormHasWorld
    <3>3. QED
      BY <1>4, <3>1, <3>2 DEF other
  <2>3. a \in Assignments[other] /\ DOMAIN a = Group(other)
    BY <2>1, <2>2, WorldDomain DEF Worlds
  <2>4. \A q, t \in Group(other) : a[q] = a[t] => q = t
    BY <2>1, <2>3 DEF Assignments
  <2>5. ASSUME NEW q \in DOMAIN a
        PROVE  \E g \in refuted[q] : LineageOf(g) = a[q]
    <3>1. CASE q = r
      BY <1>6, <2>2, <3>1 DEF LineageOf
    <3>2. CASE q # r
      <4>1. a[q] # "Lion" /\ q \in Piece
        BY <2>1, <2>2, <2>3, <2>4, <3>2 DEF Group
      <4>2. PICK g \in first[q] : LineageOf(g) = a[q]
        BY <2>2 DEF Worlds
      <4>3. g # "Lion"
        BY <4>1, <4>2 DEF LineageOf
      <4>4. QED
        BY <1>5, <4>1, <4>2, <4>3
    <3>3. QED
      BY <3>1, <3>2
  <2>6. a \in Worlds(refuted, other)
    BY <2>3, <2>5 DEF Worlds
  <2>7. QED
    BY <2>6 DEF other
<1>11. \A side \in Side : side = sideToMove \/ side = Opposite(sideToMove)
  BY <1>1, OppositeSide
<1>12. Consistent(refuted)
  BY <1>8, <1>9, <1>10, <1>11, WorldsMakeConsistent
<1>13. QED
  BY <1>12 DEF refuted

LEMMA CandidateIsLegal ==
  ASSUME GameInv, NEW p \in Piece, NEW to \in Square, PseudoLegal(p, to)
  PROVE  Legal(p, to)
<1>1. GameTypeOK /\ BoardConsistent /\ terminal = "None" /\ LionsStayHome
  BY DEF GameInv, PseudoLegal
<1>2. MovePreconditionsHold(p, to)
  BY DEF PseudoLegal, MovePreconditionsHold
<1>3. InHand(p) <=> ~OnBoard(p)
  BY <1>1, Places DEF GameTypeOK, InHand, OnBoard
<1>4. OnBoard(p) => mask[p] \cap MoveForms[sideToMove][pos[p]][to] # {}
  BY <1>3 DEF PseudoLegal
<1>5. OriginEffectsPossible(p, to)
  BY <1>1, <1>3, <1>4 DEF OriginEffectsPossible, PseudoLegal, BoardConsistent
<1>6. Captures(p, to) => FreeSlots(board[to]) # {}
  BY <1>1, <1>2, CapturedPiece, SlotForCapture DEF Captures
<1>7. Admissible(p, to)
  BY <1>2, <1>5, <1>6 DEF Admissible
<1> DEFINE first == Pass(CollapsedMask(p, to))
<1>8. Consistent(CollapsedMask(p, to)) /\ CollapsedMask(p, to) \in Mask
  BY <1>1, <1>4, CollapseIsConsistent, CollapseFacts
<1>9. /\ first \in Mask /\ Settled(first)
      /\ \A q \in Piece : first[q] \subseteq CollapsedMask(p, to)[q]
  BY <1>8, PassShrinks, PassSettles
<1>10. \A q \in Piece : "Lion" \in first[q] => "Lion" \in mask[q]
  BY <1>1, <1>9, CollapseFacts
<1>11. Propagate(CollapsedMask(p, to)) = {first}
  BY <1>8 DEF Propagate
<1> HIDE DEF first
<1>12. Consistent(Resolved(p, to, first))
  <2>1. CASE OnBoard(p) /\ OpponentKeepsLion(p, to, first)
    <3>1. Resolved(p, to, first) = LionsRefuted(p, to, first)
      BY <2>1 DEF Resolved
    <3>2. QED
      BY <1>7, <1>9, <1>10, <2>1, <3>1, ResolutionIsConsistent
  <2>2. CASE ~(OnBoard(p) /\ OpponentKeepsLion(p, to, first))
    BY <1>9, <2>2 DEF Resolved, Settled
  <2>3. QED
    BY <2>1, <2>2
<1>13. Propagate(Resolved(p, to, first)) # {}
  BY <1>12 DEF Propagate
<1>14. MasksAfter(p, to) # {}
  BY <1>11, <1>13 DEF MasksAfter
<1>15. QED
  BY <1>7, <1>14 DEF Legal

LEMMA LegalIsCandidate ==
  ASSUME GameTypeOK, NEW p \in Piece, NEW to \in Square, Legal(p, to)
  PROVE  PseudoLegal(p, to)
<1>1. InHand(p) <=> ~OnBoard(p)
  BY Places DEF GameTypeOK, InHand, OnBoard
<1>2. MovePreconditionsHold(p, to) /\ OriginEffectsPossible(p, to)
  BY DEF Legal, Admissible
<1>3. QED
  BY <1>1, <1>2 DEF MovePreconditionsHold, OriginEffectsPossible, PseudoLegal

(* generate_legal_moves tries every candidate on a copy of the state and   *)
(* keeps those apply_move accepts: it always keeps them all, and           *)
(* apply_move accepts nothing else.                                        *)
THEOREM CandidatesAreLegal == GameSpec => []GeneratorIsExact
<1>1. GameInv => GeneratorIsExact
  <2> SUFFICES ASSUME GameInv
               PROVE  GeneratorIsExact
    OBVIOUS
  <2>1. GameTypeOK
    BY DEF GameInv
  <2>2. QED
    BY <2>1, CandidateIsLegal, LegalIsCandidate DEF GeneratorIsExact
<1>2. QED
  BY <1>1, GameInvariant, PTL

-----------------------------------------------------------------------------
(* Renumberings. *)

(* A renumbering of the pieces that turns their origins as a seat sees     *)
(* them; seen from South they stay as they are.                            *)
Renaming(s) ==
  {f \in [Piece -> Piece] :
    /\ \A p, q \in Piece : f[p] = f[q] => p = q
    /\ \A q \in Piece : \E p \in Piece : f[p] = q
    /\ \A p \in Piece : Origin[f[p]] = Relative(Origin[p], s)}

Back(f) == [q \in Piece |-> CHOOSE p \in Piece : f[p] = q]

LEMMA RelativeFacts ==
  ASSUME NEW s \in Side, NEW a \in Side, NEW b \in Side
  PROVE  /\ Relative(a, s) \in Side
         /\ Relative(Relative(a, s), s) = a
         /\ Relative(a, s) = Relative(b, s) <=> a = b
         /\ Relative(Opposite(a), s) = Opposite(Relative(a, s))
         /\ Relative(a, "South") = a
  BY DEF Relative, Opposite, Side

LEMMA BackIsRenaming ==
  ASSUME NEW s \in Side, NEW f \in Renaming(s)
  PROVE  /\ Back(f) \in Renaming(s)
         /\ \A p \in Piece : Back(f)[f[p]] = p /\ f[Back(f)[p]] = p
<1>1. \A q \in Piece : Back(f)[q] \in Piece /\ f[Back(f)[q]] = q
  BY DEF Back, Renaming
<1>2. \A p \in Piece : f[p] \in Piece /\ Back(f)[f[p]] = p
  BY <1>1 DEF Renaming
<1>3. Back(f) \in [Piece -> Piece]
  BY <1>1 DEF Back
<1>4. \A q \in Piece : Origin[Back(f)[q]] = Relative(Origin[q], s)
  <2> TAKE q \in Piece
  <2>1. Origin[q] = Relative(Origin[Back(f)[q]], s) /\ Origin[Back(f)[q]] \in Side
    BY <1>1, LineageConstants DEF Renaming
  <2> QED BY <2>1, RelativeFacts
<1> QED BY <1>1, <1>2, <1>3, <1>4 DEF Renaming

(* The masks m2 are the masks m under other numbers. *)
Renamed(f, m, m2) == \A p \in Piece : m2[f[p]] = m[p]

LEMMA AssignmentsAre ==
  ASSUME NEW side \in Side
  PROVE  Assignments[side] =
           {a \in [Group(side) -> Animal] :
             /\ \A p, q \in Group(side) : a[p] = a[q] => p = q
             /\ \A l \in Animal : \E p \in Group(side) : a[p] = l}
  BY DEF Assignments

LEMMA WorldRenamed ==
  ASSUME NEW s \in Side, NEW f \in Renaming(s), NEW m, NEW m2, Renamed(f, m, m2),
         NEW side \in Side, NEW a \in Worlds(m, side)
  PROVE  \E b \in Worlds(m2, Relative(side, s)) : \A p \in Group(side) : b[f[p]] = a[p]
<1> DEFINE turned == Relative(side, s)
           b == [q \in Group(turned) |-> a[Back(f)[q]]]
<1>0. turned \in Side
  BY RelativeFacts
<1>1. /\ a \in [Group(side) -> Animal]
      /\ \A p, q \in Group(side) : a[p] = a[q] => p = q
      /\ \A l \in Animal : \E p \in Group(side) : a[p] = l
      /\ \A p \in Group(side) : \E g \in m[p] : LineageOf(g) = a[p]
  BY AssignmentsAre DEF Worlds
<1>2. ASSUME NEW p \in Group(side)
      PROVE  f[p] \in Group(turned) /\ Back(f)[f[p]] = p /\ p \in Piece
  BY BackIsRenaming DEF Group, Renaming
<1>3. ASSUME NEW q \in Group(turned)
      PROVE  Back(f)[q] \in Group(side) /\ f[Back(f)[q]] = q
  <2>1. q \in Piece /\ Back(f)[q] \in Piece /\ f[Back(f)[q]] = q
    BY BackIsRenaming DEF Group, Renaming
  <2>2. Origin[Back(f)[q]] = Relative(turned, s)
    BY BackIsRenaming DEF Group, Renaming
  <2> QED BY <2>1, <2>2, RelativeFacts DEF Group
<1>4. b \in [Group(turned) -> Animal]
  BY <1>1, <1>3
<1>5. \A p, q \in Group(turned) : b[p] = b[q] => p = q
  BY <1>1, <1>3
<1>6. \A p \in Group(side) : b[f[p]] = a[p]
  BY <1>2
<1>7. \A l \in Animal : \E q \in Group(turned) : b[q] = l
  BY <1>1, <1>2, <1>6
<1>8. \A q \in Group(turned) : \E g \in m2[q] : LineageOf(g) = b[q]
  <2> TAKE q \in Group(turned)
  <2>1. m2[q] = m[Back(f)[q]] /\ b[q] = a[Back(f)[q]]
    BY <1>3 DEF Renamed, Group
  <2> QED BY <1>1, <1>3, <2>1
<1>9. DOMAIN b = Group(turned)
  OBVIOUS
<1> HIDE DEF b
<1>10. b \in Worlds(m2, turned)
  BY <1>0, <1>4, <1>5, <1>7, <1>8, <1>9, AssignmentsAre DEF Worlds
<1> QED BY <1>6, <1>10

LEMMA RenamedBack ==
  ASSUME NEW s \in Side, NEW f \in Renaming(s), NEW m, NEW m2, Renamed(f, m, m2)
  PROVE  Renamed(Back(f), m2, m)
  BY BackIsRenaming DEF Renamed, Renaming

LEMMA PassRenamed ==
  ASSUME NEW s \in Side, NEW f \in Renaming(s), NEW m, NEW m2, Renamed(f, m, m2)
  PROVE  Renamed(f, Pass(m), Pass(m2))
<1> SUFFICES ASSUME NEW p \in Piece PROVE Pass(m2)[f[p]] = Pass(m)[p]
  BY DEF Renamed
<1> DEFINE q == f[p]
<1>1. /\ q \in Piece /\ Origin[p] \in Side /\ Origin[q] = Relative(Origin[p], s)
      /\ m2[q] = m[p] /\ p \in Group(Origin[p]) /\ q \in Group(Origin[q]) /\ Origin[q] \in Side
  BY LineageConstants DEF Renaming, Renamed, Group
<1>2. ASSUME NEW a \in Worlds(m, Origin[p]) PROVE \E b \in Worlds(m2, Origin[q]) : b[q] = a[p]
  BY <1>1, WorldRenamed
<1>3. ASSUME NEW b \in Worlds(m2, Origin[q]) PROVE \E a \in Worlds(m, Origin[p]) : a[p] = b[q]
  <2>1. Back(f) \in Renaming(s) /\ Renamed(Back(f), m2, m) /\ Back(f)[q] = p
    BY <1>1, BackIsRenaming, RenamedBack
  <2>2. Relative(Origin[q], s) = Origin[p]
    BY <1>1, RelativeFacts
  <2> QED BY <1>1, <2>1, <2>2, WorldRenamed
<1> HIDE DEF q
<1>4. Pass(m)[p] = {g \in m[p] : \E a \in Worlds(m, Origin[p]) : a[p] = LineageOf(g)}
  BY PassOf
<1>5. Pass(m2)[q] = {g \in m2[q] : \E a \in Worlds(m2, Origin[q]) : a[q] = LineageOf(g)}
  BY <1>1, PassOf
<1>6. Pass(m2)[q] = Pass(m)[p]
  BY <1>1, <1>2, <1>3, <1>4, <1>5
<1> QED BY <1>6 DEF q

LEMMA ConsistentRenamed ==
  ASSUME NEW s \in Side, NEW f \in Renaming(s), NEW m, NEW m2, Renamed(f, m, m2),
         m2 = [q \in Piece |-> m2[q]], Consistent(m)
  PROVE  Consistent(m2)
<1>1. m \in [Piece -> (SUBSET Form) \ {{}}] /\ \A side \in Side : Worlds(m, side) # {}
  BY DEF Consistent
<1>2. \A q \in Piece : m2[q] \in (SUBSET Form) \ {{}}
  <2> TAKE q \in Piece
  <2>1. PICK p \in Piece : f[p] = q
    BY DEF Renaming
  <2>2. m2[q] = m[p]
    BY <2>1 DEF Renamed
  <2> QED BY <1>1, <2>1, <2>2
<1>3. ASSUME NEW side \in Side PROVE Worlds(m2, side) # {}
  <2>1. Relative(side, s) \in Side /\ Relative(Relative(side, s), s) = side
    BY RelativeFacts
  <2>2. PICK a \in Worlds(m, Relative(side, s)) : TRUE
    BY <1>1, <2>1
  <2> QED BY <2>1, <2>2, WorldRenamed
<1> QED BY <1>2, <1>3 DEF Consistent

(* Propagation does not depend on the numbers. *)
LEMMA PropagateRenamed ==
  ASSUME NEW s \in Side, NEW f \in Renaming(s), NEW m \in Mask, NEW m2 \in Mask,
         Renamed(f, m, m2)
  PROVE  /\ Consistent(m) <=> Consistent(m2)
         /\ Renamed(f, Pass(m), Pass(m2))
<1>1. m = [q \in Piece |-> m[q]] /\ m2 = [q \in Piece |-> m2[q]]
  BY DEF Mask
<1> QED BY <1>1, ConsistentRenamed, PassRenamed, BackIsRenaming, RenamedBack

-----------------------------------------------------------------------------
(* Half a turn of the board. *)

LEMMA DivisionFacts ==
  ASSUME NEW w \in Nat \ {0}, NEW n \in Int
  PROVE  \E q \in Int, r \in 0 .. w - 1 : q = n \div w /\ r = n % w /\ n = w * q + r
<1>1. n \div w \in Int /\ n % w \in 0 .. w - 1
  OBVIOUS
<1>2. PICK q \in Int : q = n \div w
  BY <1>1
<1>3. PICK r \in Int : r = n % w
  BY <1>1
<1>4. r = n - w * q
  BY <1>2, <1>3
<1>5. n = w * q + r
  BY <1>4
<1> QED BY <1>1, <1>2, <1>3, <1>5

LEMMA DivisionUnique ==
  ASSUME NEW w \in Nat \ {0}, NEW q \in Int, NEW r \in 0 .. w - 1, NEW n \in Int, n = w * q + r
  PROVE  n \div w = q /\ n % w = r
  OBVIOUS

LEMMA SquareParts ==
  ASSUME NEW x \in Square
  PROVE  \E r \in 0 .. BoardHeight - 1, c \in 0 .. BoardWidth - 1 :
           RowOf(x) = r /\ ColOf(x) = c /\ x = BoardWidth * r + c
<1> DEFINE w == BoardWidth
           h == BoardHeight
<1>1. w \in Nat \ {0} /\ h \in Nat \ {0} /\ x \in 0 .. w * h - 1 /\ x \in Int
  BY GameConstants DEF Square, BoardSize
<1>2. PICK r \in Int, c \in 0 .. w - 1 : r = x \div w /\ c = x % w /\ x = w * r + c
  BY <1>1, DivisionFacts
<1>3. r >= 0
  <2> SUFFICES ASSUME r <= -1 PROVE FALSE
    BY <1>2
  <2>1. w * r <= w * (-1)
    BY <1>1, <1>2
  <2> QED BY <1>1, <1>2, <2>1
<1>4. r <= h - 1
  <2> SUFFICES ASSUME r >= h PROVE FALSE
    BY <1>1, <1>2
  <2>1. w * r >= w * h
    BY <1>1, <1>2
  <2> QED BY <1>1, <1>2, <2>1
<1> QED BY <1>1, <1>2, <1>3, <1>4 DEF RowOf, ColOf

LEMMA TurnedSquare ==
  ASSUME NEW x \in Square
  PROVE  /\ BoardSize - 1 - x \in Square
         /\ RowOf(BoardSize - 1 - x) = BoardHeight - 1 - RowOf(x)
         /\ ColOf(BoardSize - 1 - x) = BoardWidth - 1 - ColOf(x)
<1> DEFINE w == BoardWidth
           h == BoardHeight
<1>1. w \in Nat \ {0} /\ h \in Nat \ {0} /\ BoardSize = w * h /\ BoardSize \in Nat
  BY GameConstants, Places DEF BoardSize
<1>2. PICK r \in 0 .. h - 1, c \in 0 .. w - 1 : RowOf(x) = r /\ ColOf(x) = c /\ x = w * r + c
  BY SquareParts
<1>3. BoardSize - 1 - x \in Square /\ BoardSize - 1 - x \in Int
  BY <1>1 DEF Square
<1>4. h - 1 - r \in Int /\ w - 1 - c \in 0 .. w - 1
  BY <1>1, <1>2
<1>5. BoardSize - 1 - x = w * (h - 1 - r) + (w - 1 - c)
  <2>1. w * (h - 1 - r) = w * h - w - w * r
    BY <1>1, <1>2
  <2> QED BY <1>1, <1>2, <2>1
<1> HIDE DEF w, h
<1>6. (BoardSize - 1 - x) \div w = h - 1 - r /\ (BoardSize - 1 - x) % w = w - 1 - c
  <2>0. PICK v \in Nat \ {0} : v = w
    BY <1>1
  <2>1. PICK n \in Int, q \in Int, k \in 0 .. v - 1 :
          n = BoardSize - 1 - x /\ q = h - 1 - r /\ k = w - 1 - c
    BY <1>3, <1>4, <2>0
  <2>2. n = v * q + k
    BY <1>5, <2>0, <2>1
  <2>3. n \div v = q /\ n % v = k
    BY <2>2, DivisionUnique
  <2> QED BY <2>0, <2>1, <2>3
<1> QED BY <1>2, <1>3, <1>6 DEF RowOf, ColOf, w, h

LEMMA PublicSquareFacts ==
  ASSUME NEW s \in Side, NEW x \in Square \cup HandSlot, NEW y \in Square \cup HandSlot
  PROVE  /\ PublicSquare(x, s) \in Square <=> x \in Square
         /\ PublicSquare(x, s) \in HandSlot <=> x \in HandSlot
         /\ PublicSquare(PublicSquare(x, s), s) = x
         /\ PublicSquare(x, s) = PublicSquare(y, s) <=> x = y
         /\ x \in HandSlot => PublicSquare(x, s) = x
         /\ PublicSquare(x, "South") = x
<1>1. Square \subseteq Nat /\ HandSlot \subseteq Nat /\ BoardSize \in Nat
      /\ \A z \in Square : z \notin HandSlot
  BY Places
<1>2. \A z \in Square : BoardSize - 1 - z \in Square
  BY TurnedSquare
<1> QED BY <1>1, <1>2 DEF PublicSquare

(* Half a turn of the board and a change of sides change no rule. *)
LEMMA ReachesTurned ==
  ASSUME NEW g \in Form, NEW side \in Side, NEW dr \in Int, NEW dc \in Int
  PROVE  Reaches(g, Opposite(side), -dr, -dc) <=> Reaches(g, side, dr, dc)
<1>1. CASE g = "Chick"
  BY <1>1 DEF Reaches, Opposite, Side
<1>2. CASE g = "Giraffe"
  BY <1>2 DEF Reaches, Opposite, Side
<1>3. CASE g = "Elephant"
  BY <1>3 DEF Reaches, Opposite, Side
<1>4. CASE g = "Lion"
  BY <1>4 DEF Reaches, Opposite, Side
<1>5. CASE g = "Hen"
  BY <1>5 DEF Reaches, Opposite, Side
<1> QED BY <1>1, <1>2, <1>3, <1>4, <1>5 DEF Form

LEMMA MoveFormsTurned ==
  ASSUME NEW s \in Side, NEW side \in Side, NEW x \in Square, NEW y \in Square
  PROVE  MoveForms[Relative(side, s)][PublicSquare(x, s)][PublicSquare(y, s)]
           = MoveForms[side][x][y]
<1>1. /\ PublicSquare(x, s) \in Square /\ PublicSquare(y, s) \in Square
      /\ Relative(side, s) \in Side
  BY PublicSquareFacts, RelativeFacts
<1>2. ASSUME NEW a \in Side, NEW u \in Square, NEW v \in Square
      PROVE  MoveForms[a][u][v] =
               {f \in Form : Reaches(f, a, RowOf(v) - RowOf(u), ColOf(v) - ColOf(u))}
  BY DEF MoveForms
<1>3. CASE s = "South"
  <2>1. Relative(side, s) = side /\ PublicSquare(x, s) = x /\ PublicSquare(y, s) = y
    BY <1>3, RelativeFacts, PublicSquareFacts
  <2> QED BY <2>1
<1>4. CASE s = "North"
  <2>1. Relative(side, s) = Opposite(side)
    BY <1>4 DEF Relative, Opposite, Side
  <2>2. PublicSquare(x, s) = BoardSize - 1 - x /\ PublicSquare(y, s) = BoardSize - 1 - y
    BY <1>4, Places DEF PublicSquare
  <2>3. /\ RowOf(x) \in Int /\ RowOf(y) \in Int /\ ColOf(x) \in Int /\ ColOf(y) \in Int
        /\ BoardHeight \in Int /\ BoardWidth \in Int
    BY SquareParts, GameConstants
  <2> DEFINE dr == RowOf(y) - RowOf(x)
             dc == ColOf(y) - ColOf(x)
  <2>4. /\ RowOf(PublicSquare(y, s)) - RowOf(PublicSquare(x, s)) = -dr
        /\ ColOf(PublicSquare(y, s)) - ColOf(PublicSquare(x, s)) = -dc
        /\ dr \in Int /\ dc \in Int
    BY <2>2, <2>3, TurnedSquare
  <2> HIDE DEF dr, dc
  <2>5. \A g \in Form : Reaches(g, Opposite(side), -dr, -dc) <=> Reaches(g, side, dr, dc)
    BY <2>4, ReachesTurned
  <2>6. MoveForms[Relative(side, s)][PublicSquare(x, s)][PublicSquare(y, s)] =
          {f \in Form : Reaches(f, Opposite(side), -dr, -dc)}
    BY <1>1, <1>2, <2>1, <2>4
  <2>7. MoveForms[side][x][y] = {f \in Form : Reaches(f, side, dr, dc)}
    BY <1>2 DEF dr, dc
  <2> QED BY <2>5, <2>6, <2>7
<1> QED BY <1>3, <1>4 DEF Side

LEMMA BackRankTurned ==
  ASSUME NEW s \in Side, NEW side \in Side, NEW x \in Square
  PROVE  IsBackRank(PublicSquare(x, s), Relative(side, s)) <=> IsBackRank(x, side)
<1>1. CASE s = "South"
  BY <1>1, RelativeFacts, PublicSquareFacts
<1>2. CASE s = "North"
  <2>1. Relative(side, s) = Opposite(side)
    BY <1>2 DEF Relative, Opposite, Side
  <2>2. PublicSquare(x, s) = BoardSize - 1 - x
    BY <1>2, Places DEF PublicSquare
  <2>3. RowOf(x) \in Int /\ BoardHeight \in Int
        /\ RowOf(PublicSquare(x, s)) = BoardHeight - 1 - RowOf(x)
    BY <2>2, SquareParts, TurnedSquare, GameConstants
  <2> QED BY <2>1, <2>3 DEF IsBackRank, Opposite, Side
<1> QED BY <1>1, <1>2 DEF Side

-----------------------------------------------------------------------------
(* The rules at a state that is given as a record.                         *)

At(S) == INSTANCE Equivalence WITH
  board <- S.board, pos <- S.pos, mask <- S.mask, owner <- S.owner,
  sideToMove <- S.side, turn <- S.turn, terminal <- S.terminal, winner <- S.winner

IsState(S) ==
  /\ S.board \in [Square -> Piece \cup {Empty}]
  /\ S.pos \in [Piece -> Square \cup HandSlot]
  /\ S.mask \in Mask
  /\ S.owner \in [Piece -> Side]
  /\ S.side \in Side
  /\ S.turn \in Nat

(* The hand slots that the pieces other than c leave. *)
SlotsLeft(places, c) ==
  HandSlot \ {places[q] : q \in {r \in Piece : r # c /\ places[r] \in HandSlot}}

Least(S) == CHOOSE m \in S : \A k \in S : m <= k

LEMMA AtCardinality == ASSUME NEW S, NEW T PROVE At(S)!Cardinality(T) = Cardinality(T)
  BY Zenon DEF Cardinality, At!Cardinality

LEMMA AtPlaces ==
  ASSUME NEW S
  PROVE  /\ At(S)!Square = Square
         /\ At(S)!HandSlot = HandSlot
         /\ At(S)!BoardSize = BoardSize
         /\ At(S)!MoveForms = MoveForms
         /\ \A x, side : At(S)!IsBackRank(x, side) <=> IsBackRank(x, side)
         /\ \A side : At(S)!Opposite(side) = Opposite(side)
<1>1. At(S)!Square = Square /\ At(S)!BoardSize = BoardSize
  BY Zenon DEF At!Square, Square, At!BoardSize, BoardSize
<1>2. At(S)!HandSlot = HandSlot
  BY Zenon DEF At!HandSlot, HandSlot, At!BoardSize, BoardSize, At!Cardinality, Cardinality
<1>3. At(S)!MoveForms = MoveForms
  BY Zenon DEF MoveForms, At!MoveForms, RowOf, ColOf, At!RowOf, At!ColOf, At!Form, Form, Side,
     At!Side, Square, At!Square, BoardSize, At!BoardSize, Reaches, At!Reaches
<1>4. \A x, side : At(S)!IsBackRank(x, side) <=> IsBackRank(x, side)
  BY Zenon DEF IsBackRank, At!IsBackRank, RowOf, At!RowOf
<1>5. \A side : At(S)!Opposite(side) = Opposite(side)
  BY Zenon DEF Opposite, At!Opposite
<1> QED BY <1>1, <1>2, <1>3, <1>4, <1>5

LEMMA AtLineage ==
  ASSUME NEW S, NEW m
  PROVE  At(S)!Propagate(m) = Propagate(m)
  BY Zenon DEF At!Propagate, At!Consistent, At!Pass, At!Worlds, At!Supported,
     At!FormsForLineages, At!LineageOf, At!Assignments, At!Group, At!Animal, At!Form, At!Side,
     Propagate, Consistent, Pass, Worlds, Supported, FormsForLineages, LineageOf, Assignments,
     Group, Animal, Form, Side

LEMMA AtAdmissible ==
  ASSUME NEW S, NEW p, NEW to
  PROVE  At(S)!Admissible(p, to) <=>
           /\ S.terminal = "None"
           /\ S.owner[p] = S.side
           /\ S.board[to] # Empty => S.owner[S.board[to]] # S.side
           /\ IF S.pos[p] \in HandSlot THEN S.board[to] = Empty
              ELSE /\ S.board[S.pos[p]] = p
                   /\ S.mask[p] \cap MoveForms[S.side][S.pos[p]][to] # {}
           /\ S.board[to] # Empty => SlotsLeft(S.pos, S.board[to]) # {}
  BY AtPlaces
  DEF At!Admissible, At!MovePreconditionsHold, At!OriginEffectsPossible, At!Captures,
      At!FreeSlots, At!UsedSlots, At!InHand, At!Owns, SlotsLeft

LEMMA AtAfter ==
  ASSUME NEW S, NEW p, NEW to
  PROVE  /\ At(S)!BoardAfter(p, to) =
              [x \in Square |->
                IF x = to THEN p ELSE IF x = S.pos[p] THEN Empty ELSE S.board[x]]
         /\ At(S)!OwnerAfter(p, to) =
              [q \in Piece |-> IF q = S.board[to] THEN S.side ELSE S.owner[q]]
         /\ At(S)!PosAfter(p, to) =
              [q \in Piece |->
                IF q = p THEN to
                ELSE IF q = S.board[to] THEN Least(SlotsLeft(S.pos, q)) ELSE S.pos[q]]
<1>1. At(S)!HandSlot = HandSlot /\ At(S)!Square = Square
  BY AtPlaces
<1>2. \A c : At(S)!LowestFreeSlot(c) = Least(SlotsLeft(S.pos, c))
  <2> TAKE c
  <2>1. At(S)!FreeSlots(c) = SlotsLeft(S.pos, c)
    BY <1>1 DEF At!FreeSlots, At!UsedSlots, At!InHand, SlotsLeft
  <2> QED BY <2>1, Zenon DEF At!LowestFreeSlot, Least
<1>3. At(S)!BoardAfter(p, to) =
        [x \in Square |-> IF x = to THEN p ELSE IF x = S.pos[p] THEN Empty ELSE S.board[x]]
  BY <1>1 DEF At!BoardAfter
<1>4. At(S)!OwnerAfter(p, to) =
        [q \in Piece |-> IF q = S.board[to] THEN S.side ELSE S.owner[q]]
  BY DEF At!OwnerAfter
<1>5. At(S)!PosAfter(p, to) =
        [q \in Piece |->
          IF q = p THEN to
          ELSE IF q = S.board[to] THEN Least(SlotsLeft(S.pos, q)) ELSE S.pos[q]]
  BY <1>2 DEF At!PosAfter
<1> QED BY <1>3, <1>4, <1>5

LEMMA AtCollapsed ==
  ASSUME NEW S, NEW p, NEW to
  PROVE  At(S)!CollapsedMask(p, to) =
           [q \in Piece |->
             IF q = p
             THEN IF S.pos[p] \in Square
                  THEN LET forms == S.mask[p] \cap MoveForms[S.side][S.pos[p]][to] IN
                       IF IsBackRank(to, S.side) /\ "Chick" \in forms
                       THEN (forms \ {"Chick"}) \cup {"Hen"} ELSE forms
                  ELSE S.mask[p]
             ELSE IF q = S.board[to] THEN Demoted(S.mask[q]) ELSE S.mask[q]]
<1>1. \A forms : At(S)!Demoted(forms) = Demoted(forms)
  BY Zenon DEF At!Demoted, Demoted
<1> QED BY <1>1, AtPlaces DEF At!CollapsedMask, At!OnBoard, At!Promoted

(* The Lion cannot be in the hand of the mover. *)
Refuted(owners, places, side, m) ==
  [q \in Piece |-> IF owners[q] = side /\ places[q] \in HandSlot THEN m[q] \ {"Lion"} ELSE m[q]]

LEMMA AtResolved ==
  ASSUME NEW S, NEW p, NEW to, NEW m
  PROVE  At(S)!Resolved(p, to, m) =
           LET owners == At(S)!OwnerAfter(p, to) IN
           IF /\ S.pos[p] \in Square
              /\ \E q \in Piece : owners[q] = Opposite(S.side) /\ "Lion" \in m[q]
           THEN Refuted(owners, At(S)!PosAfter(p, to), S.side, m) ELSE m
  BY AtPlaces
  DEF At!Resolved, At!OnBoard, At!OpponentKeepsLion, At!LionsRefuted, Refuted

LEMMA AtMasksAfter ==
  ASSUME NEW S, NEW p, NEW to, NEW m
  PROVE  m \in At(S)!MasksAfter(p, to) <=>
           LET first == Pass(At(S)!CollapsedMask(p, to)) IN
           /\ Consistent(At(S)!CollapsedMask(p, to))
           /\ Consistent(At(S)!Resolved(p, to, first))
           /\ m = Pass(At(S)!Resolved(p, to, first))
<1>1. \A n : At(S)!Propagate(n) = IF Consistent(n) THEN {Pass(n)} ELSE {}
  BY AtLineage DEF Propagate
<1> QED BY <1>1 DEF At!MasksAfter

(* The State that apply_move makes of S, before the result is set and then with it. *)
Moved(S, p, to, m) ==
  [board |-> At(S)!BoardAfter(p, to), pos |-> At(S)!PosAfter(p, to), mask |-> m,
   owner |-> At(S)!OwnerAfter(p, to), side |-> Opposite(S.side), turn |-> S.turn + 1,
   terminal |-> "None", winner |-> "None"]

WithResult(S, result) ==
  [board |-> S.board, pos |-> S.pos, mask |-> S.mask, owner |-> S.owner, side |-> S.side,
   turn |-> S.turn, terminal |-> result[1], winner |-> result[2]]

After(S, p, to, m) == WithResult(Moved(S, p, to, m), At(Moved(S, p, to, m))!Verdict)

LEMMA AtVerdict ==
  ASSUME NEW S
  PROVE  At(S)!Verdict =
           IF \E p \in Piece : /\ S.owner[p] = S.side /\ S.pos[p] \in Square
                               /\ IsBackRank(S.pos[p], S.side) /\ "Lion" \in S.mask[p]
           THEN <<"Try", S.side>>
           ELSE IF \E p \in Piece : /\ S.owner[p] = Opposite(S.side) /\ S.pos[p] \in HandSlot
                                    /\ "Lion" \in S.mask[p]
                THEN <<"Catch", Opposite(S.side)>>
                ELSE IF S.turn >= TurnLimit THEN <<"Draw", "None">> ELSE <<"None", "None">>
  BY AtPlaces
  DEF At!Verdict, At!HasTryCandidate, At!HasHandLion, At!Owns, At!OnBoard, At!InHand

-----------------------------------------------------------------------------
(* Two states that are one game under other numbers, seen by two players.  *)

SamePlaces(f, s, R, S) ==
  /\ \A x \in Square : S.board[PublicSquare(x, s)] =
       IF R.board[x] = Empty THEN Empty ELSE f[R.board[x]]
  /\ \A p \in Piece :
       IF R.pos[p] \in Square THEN S.pos[f[p]] = PublicSquare(R.pos[p], s)
       ELSE S.pos[f[p]] \in HandSlot

SamePieces(f, s, R, S) ==
  /\ Renamed(f, R.mask, S.mask)
  /\ \A p \in Piece : S.owner[f[p]] = Relative(R.owner[p], s)

SameClock(s, R, S) ==
  /\ S.side = Relative(R.side, s)
  /\ S.turn = R.turn
  /\ S.terminal = R.terminal
  /\ S.winner = IF R.winner = "None" THEN "None" ELSE Relative(R.winner, s)

Twin(f, s, R, S) ==
  /\ f \in Renaming(s)
  /\ IsState(R) /\ IsState(S)
  /\ SamePlaces(f, s, R, S) /\ SamePieces(f, s, R, S) /\ SameClock(s, R, S)

LEMMA SlotIsLeft ==
  ASSUME NEW places \in [Piece -> Square \cup HandSlot], NEW c \in Piece
  PROVE  /\ SlotsLeft(places, c) # {}
         /\ Least(SlotsLeft(places, c)) \in SlotsLeft(places, c)
         /\ Least(SlotsLeft(places, c)) \in HandSlot
<1>1. SlotsLeft(places, c) # {}
  <2> SUFFICES ASSUME SlotsLeft(places, c) = {}
               PROVE  FALSE
    OBVIOUS
  <2> DEFINE user == [x \in HandSlot |-> CHOOSE q \in Piece \ {c} : places[q] = x]
  <2>1. ASSUME NEW x \in HandSlot
        PROVE  user[x] \in Piece \ {c} /\ places[user[x]] = x
    <3>1. \E q \in Piece \ {c} : places[q] = x
      BY DEF SlotsLeft
    <3>2. QED
      BY <3>1
  <2>2. /\ IsFiniteSet(Piece \ {c})
        /\ Cardinality(Piece \ {c}) = Cardinality(Piece) - 1
    BY FS_RemoveElement, GameConstants
  <2>3. Cardinality(Piece \ {c}) < Cardinality(HandSlot)
    BY <2>2, Places
  <2>4. user \in [HandSlot -> Piece \ {c}]
    BY <2>1
  <2> HIDE DEF user
  <2>5. \E x, y \in HandSlot : x # y /\ user[x] = user[y]
    <3> DEFINE rest == Piece \ {c}
    <3>1. /\ IsFiniteSet(HandSlot) /\ IsFiniteSet(rest)
          /\ Cardinality(rest) < Cardinality(HandSlot) /\ user \in [HandSlot -> rest]
      BY <2>2, <2>3, <2>4, Places
    <3> HIDE DEF rest
    <3> QED BY <3>1, FS_PigeonHole
  <2>6. QED
    BY <2>1, <2>5
<1>2. SlotsLeft(places, c) \in SUBSET Nat /\ SlotsLeft(places, c) \subseteq HandSlot
  BY Places DEF SlotsLeft
<1>3. \E m \in SlotsLeft(places, c) : \A k \in SlotsLeft(places, c) : m <= k
  BY <1>1, <1>2, LeastNatural
<1>4. Least(SlotsLeft(places, c)) \in SlotsLeft(places, c)
  BY <1>3 DEF Least
<1> QED BY <1>1, <1>2, <1>4

(* What twins say of one piece and one square. *)
LEMMA TwinPiece ==
  ASSUME NEW s \in Side, NEW f, NEW R, NEW S, Twin(f, s, R, S), NEW p \in Piece
  PROVE  /\ f[p] \in Piece
         /\ S.pos[f[p]] \in HandSlot <=> R.pos[p] \in HandSlot
         /\ S.pos[f[p]] \in Square <=> R.pos[p] \in Square
         /\ S.pos[f[p]] \in HandSlot <=> S.pos[f[p]] \notin Square
         /\ R.pos[p] \in HandSlot <=> R.pos[p] \notin Square
         /\ R.pos[p] \in Square => S.pos[f[p]] = PublicSquare(R.pos[p], s)
         /\ S.mask[f[p]] = R.mask[p]
         /\ R.owner[p] \in Side
         /\ S.owner[f[p]] = Relative(R.owner[p], s)
<1>1. f[p] \in Piece
  BY DEF Twin, Renaming
<1>2. R.pos[p] \in Square \cup HandSlot /\ S.pos[f[p]] \in Square \cup HandSlot
  BY <1>1 DEF Twin, IsState
<1>3. \A x \in Square \cup HandSlot : x \in HandSlot <=> x \notin Square
  BY Places
<1>4. \A x \in Square : PublicSquare(x, s) \in Square
  BY PublicSquareFacts
<1>5. IF R.pos[p] \in Square THEN S.pos[f[p]] = PublicSquare(R.pos[p], s)
      ELSE S.pos[f[p]] \in HandSlot
  BY DEF Twin, SamePlaces
<1>6. S.mask[f[p]] = R.mask[p] /\ S.owner[f[p]] = Relative(R.owner[p], s)
  BY DEF Twin, SamePieces, Renamed
<1>7. R.owner[p] \in Side
  BY DEF Twin, IsState
<1> QED BY <1>1, <1>2, <1>3, <1>4, <1>5, <1>6, <1>7

LEMMA TwinSquare ==
  ASSUME NEW s \in Side, NEW f, NEW R, NEW S, Twin(f, s, R, S), NEW x \in Square
  PROVE  /\ PublicSquare(x, s) \in Square
         /\ R.board[x] \in Piece \cup {Empty}
         /\ S.board[PublicSquare(x, s)] \in Piece \cup {Empty}
         /\ S.board[PublicSquare(x, s)] = Empty <=> R.board[x] = Empty
         /\ R.board[x] # Empty => S.board[PublicSquare(x, s)] = f[R.board[x]]
         /\ \A p \in Piece : S.board[PublicSquare(x, s)] = f[p] <=> R.board[x] = p
<1>1. PublicSquare(x, s) \in Square
  BY PublicSquareFacts
<1>2. R.board[x] \in Piece \cup {Empty} /\ Empty \notin Piece
  BY GameConstants DEF Twin, IsState
<1>3. \A p \in Piece : f[p] \in Piece
  BY DEF Twin, Renaming
<1>4. \A p, q \in Piece : f[p] = f[q] => p = q
  BY DEF Twin, Renaming
<1>5. S.board[PublicSquare(x, s)] = IF R.board[x] = Empty THEN Empty ELSE f[R.board[x]]
  BY DEF Twin, SamePlaces
<1> QED BY <1>1, <1>2, <1>3, <1>4, <1>5

LEMMA TwinAdmissible ==
  ASSUME NEW s \in Side, NEW f, NEW R, NEW S, Twin(f, s, R, S),
         NEW p \in Piece, NEW to \in Square
  PROVE  At(S)!Admissible(f[p], PublicSquare(to, s)) <=> At(R)!Admissible(p, to)
<1> DEFINE t == PublicSquare(to, s)
<1>1. /\ S.side = Relative(R.side, s) /\ S.terminal = R.terminal /\ R.side \in Side
  BY DEF Twin, SameClock, IsState
<1>2. \A q \in Piece : S.owner[f[q]] = S.side <=> R.owner[q] = R.side
  BY <1>1, TwinPiece, RelativeFacts
<1>3. (S.board[t] # Empty => S.owner[S.board[t]] # S.side)
        <=> (R.board[to] # Empty => R.owner[R.board[to]] # R.side)
  BY <1>2, TwinSquare
<1>4. ASSUME R.pos[p] \notin HandSlot
      PROVE  (/\ S.board[S.pos[f[p]]] = f[p]
              /\ S.mask[f[p]] \cap MoveForms[S.side][S.pos[f[p]]][t] # {})
             <=> (/\ R.board[R.pos[p]] = p
                  /\ R.mask[p] \cap MoveForms[R.side][R.pos[p]][to] # {})
  <2>1. R.pos[p] \in Square /\ S.pos[f[p]] = PublicSquare(R.pos[p], s)
    BY <1>4, TwinPiece
  <2>2. MoveForms[S.side][S.pos[f[p]]][t] = MoveForms[R.side][R.pos[p]][to]
    BY <1>1, <2>1, MoveFormsTurned
  <2>3. S.board[S.pos[f[p]]] = f[p] <=> R.board[R.pos[p]] = p
    BY <2>1, TwinSquare
  <2> QED BY <2>2, <2>3, TwinPiece
<1>5. S.board[t] # Empty => SlotsLeft(S.pos, S.board[t]) # {}
  <2>1. S.pos \in [Piece -> Square \cup HandSlot]
    BY DEF Twin, IsState
  <2> QED BY <2>1, TwinSquare, SlotIsLeft
<1>6. R.board[to] # Empty => SlotsLeft(R.pos, R.board[to]) # {}
  <2>1. R.pos \in [Piece -> Square \cup HandSlot]
    BY DEF Twin, IsState
  <2> QED BY <2>1, TwinSquare, SlotIsLeft
<1>7. S.board[t] = Empty <=> R.board[to] = Empty
  BY TwinSquare
<1>8. S.pos[f[p]] \in HandSlot <=> R.pos[p] \in HandSlot
  BY TwinPiece
<1>9. At(S)!Admissible(f[p], t) <=>
        /\ S.terminal = "None"
        /\ S.owner[f[p]] = S.side
        /\ S.board[t] # Empty => S.owner[S.board[t]] # S.side
        /\ IF S.pos[f[p]] \in HandSlot THEN S.board[t] = Empty
           ELSE /\ S.board[S.pos[f[p]]] = f[p]
                /\ S.mask[f[p]] \cap MoveForms[S.side][S.pos[f[p]]][t] # {}
        /\ S.board[t] # Empty => SlotsLeft(S.pos, S.board[t]) # {}
  BY AtAdmissible
<1>10. At(R)!Admissible(p, to) <=>
         /\ R.terminal = "None"
         /\ R.owner[p] = R.side
         /\ R.board[to] # Empty => R.owner[R.board[to]] # R.side
         /\ IF R.pos[p] \in HandSlot THEN R.board[to] = Empty
            ELSE /\ R.board[R.pos[p]] = p
                 /\ R.mask[p] \cap MoveForms[R.side][R.pos[p]][to] # {}
         /\ R.board[to] # Empty => SlotsLeft(R.pos, R.board[to]) # {}
  BY AtAdmissible
<1> QED BY <1>1, <1>2, <1>3, <1>4, <1>5, <1>6, <1>7, <1>8, <1>9, <1>10

LEMMA TwinOwners ==
  ASSUME NEW s \in Side, NEW f, NEW R, NEW S, Twin(f, s, R, S),
         NEW p \in Piece, NEW to \in Square, NEW q \in Piece
  PROVE  /\ At(R)!OwnerAfter(p, to)[q] \in Side
         /\ At(S)!OwnerAfter(f[p], PublicSquare(to, s))[f[q]]
              = Relative(At(R)!OwnerAfter(p, to)[q], s)
<1>1. At(R)!OwnerAfter(p, to)[q] = IF q = R.board[to] THEN R.side ELSE R.owner[q]
  BY AtAfter
<1>2. At(S)!OwnerAfter(f[p], PublicSquare(to, s))[f[q]] =
        IF f[q] = S.board[PublicSquare(to, s)] THEN S.side ELSE S.owner[f[q]]
  BY AtAfter, TwinPiece
<1>3. f[q] = S.board[PublicSquare(to, s)] <=> q = R.board[to]
  BY TwinSquare
<1>4. S.side = Relative(R.side, s) /\ R.side \in Side
  BY DEF Twin, SameClock, IsState
<1> QED BY <1>1, <1>2, <1>3, <1>4, TwinPiece

LEMMA TwinPositions ==
  ASSUME NEW s \in Side, NEW f, NEW R, NEW S, Twin(f, s, R, S),
         NEW p \in Piece, NEW to \in Square, NEW q \in Piece
  PROVE  LET r == At(R)!PosAfter(p, to)[q]
             t == At(S)!PosAfter(f[p], PublicSquare(to, s))[f[q]] IN
         /\ r \in Square \cup HandSlot
         /\ t \in Square \cup HandSlot
         /\ r \in Square => t = PublicSquare(r, s)
         /\ r \in HandSlot <=> t \in HandSlot
         /\ r \in HandSlot <=> r \notin Square
<1> DEFINE r == At(R)!PosAfter(p, to)[q]
           t == At(S)!PosAfter(f[p], PublicSquare(to, s))[f[q]]
<1>0. \A x \in Square \cup HandSlot : x \in HandSlot <=> x \notin Square
  BY Places
<1>1. r = IF q = p THEN to
          ELSE IF q = R.board[to] THEN Least(SlotsLeft(R.pos, q)) ELSE R.pos[q]
  BY AtAfter
<1>2. t = IF f[q] = f[p] THEN PublicSquare(to, s)
          ELSE IF f[q] = S.board[PublicSquare(to, s)] THEN Least(SlotsLeft(S.pos, f[q]))
               ELSE S.pos[f[q]]
  BY AtAfter, TwinPiece
<1>3. (f[q] = S.board[PublicSquare(to, s)] <=> q = R.board[to]) /\ PublicSquare(to, s) \in Square
  BY TwinSquare
<1>4. f[q] = f[p] <=> q = p
  BY DEF Twin, Renaming
<1>5. R.pos \in [Piece -> Square \cup HandSlot] /\ S.pos \in [Piece -> Square \cup HandSlot]
  BY DEF Twin, IsState
<1>6. Least(SlotsLeft(R.pos, q)) \in HandSlot /\ Least(SlotsLeft(S.pos, f[q])) \in HandSlot
  BY <1>5, TwinPiece, SlotIsLeft
<1> HIDE DEF r, t
<1>7. /\ r \in Square \cup HandSlot
      /\ t \in Square \cup HandSlot
      /\ r \in Square => t = PublicSquare(r, s)
      /\ r \in HandSlot <=> t \in HandSlot
      /\ r \in HandSlot <=> r \notin Square
  <2>1. CASE q = p
    BY <1>0, <1>1, <1>2, <1>3, <1>4, <2>1
  <2>2. CASE q # p /\ q = R.board[to]
    BY <1>0, <1>1, <1>2, <1>3, <1>4, <1>6, <2>2
  <2>3. CASE q # p /\ q # R.board[to]
    <3>1. r = R.pos[q] /\ t = S.pos[f[q]]
      BY <1>1, <1>2, <1>3, <1>4, <2>3
    <3> QED BY <1>0, <1>5, <3>1, TwinPiece
  <2> QED BY <2>1, <2>2, <2>3
<1> QED BY <1>7 DEF r, t

LEMMA TwinBoards ==
  ASSUME NEW s \in Side, NEW f, NEW R, NEW S, Twin(f, s, R, S),
         NEW p \in Piece, NEW to \in Square, NEW x \in Square
  PROVE  At(S)!BoardAfter(f[p], PublicSquare(to, s))[PublicSquare(x, s)] =
           IF At(R)!BoardAfter(p, to)[x] = Empty THEN Empty ELSE f[At(R)!BoardAfter(p, to)[x]]
<1>1. At(R)!BoardAfter(p, to)[x] =
        IF x = to THEN p ELSE IF x = R.pos[p] THEN Empty ELSE R.board[x]
  BY AtAfter
<1>2. At(S)!BoardAfter(f[p], PublicSquare(to, s))[PublicSquare(x, s)] =
        IF PublicSquare(x, s) = PublicSquare(to, s) THEN f[p]
        ELSE IF PublicSquare(x, s) = S.pos[f[p]] THEN Empty ELSE S.board[PublicSquare(x, s)]
  BY AtAfter, TwinSquare
<1>3. PublicSquare(x, s) = PublicSquare(to, s) <=> x = to
  BY PublicSquareFacts
<1>4. PublicSquare(x, s) = S.pos[f[p]] <=> x = R.pos[p]
  <2>1. CASE R.pos[p] \in Square
    BY <2>1, TwinPiece, PublicSquareFacts
  <2>2. CASE R.pos[p] \notin Square
    BY <2>2, TwinPiece, TwinSquare
  <2> QED BY <2>1, <2>2
<1>5. Empty \notin Piece
  BY GameConstants
<1> QED BY <1>1, <1>2, <1>3, <1>4, <1>5, TwinSquare

LEMMA TwinCollapsed ==
  ASSUME NEW s \in Side, NEW f, NEW R, NEW S, Twin(f, s, R, S),
         NEW p \in Piece, NEW to \in Square
  PROVE  /\ Renamed(f, At(R)!CollapsedMask(p, to),
                    At(S)!CollapsedMask(f[p], PublicSquare(to, s)))
         /\ At(R)!CollapsedMask(p, to) \in Mask
         /\ At(S)!CollapsedMask(f[p], PublicSquare(to, s)) \in Mask
<1> DEFINE t == PublicSquare(to, s)
           shown(X, q, x) == X.mask[q] \cap MoveForms[X.side][X.pos[q]][x]
           promoted(X, forms, x) ==
             IF IsBackRank(x, X.side) /\ "Chick" \in forms
             THEN (forms \ {"Chick"}) \cup {"Hen"} ELSE forms
           new(X, a, x, q) ==
             IF q = a
             THEN IF X.pos[a] \in Square THEN promoted(X, shown(X, a, x), x) ELSE X.mask[a]
             ELSE IF q = X.board[x] THEN Demoted(X.mask[q]) ELSE X.mask[q]
<1>1. At(R)!CollapsedMask(p, to) = [q \in Piece |-> new(R, p, to, q)]
  BY AtCollapsed
<1>2. At(S)!CollapsedMask(f[p], t) = [q \in Piece |-> new(S, f[p], t, q)]
  BY AtCollapsed
<1>3. ASSUME NEW X, IsState(X), NEW a \in Piece, NEW x, NEW q \in Piece
      PROVE  new(X, a, x, q) \in SUBSET Form
  <2>1. X.mask[q] \in SUBSET Form /\ X.mask[a] \in SUBSET Form
    BY <1>3 DEF IsState, Mask
  <2> QED BY <2>1 DEF Demoted, Form
<1>4. ASSUME NEW q \in Piece
      PROVE  new(S, f[p], t, f[q]) = new(R, p, to, q)
  <2>1. f[q] = f[p] <=> q = p
    BY DEF Twin, Renaming
  <2>2. f[q] = S.board[t] <=> q = R.board[to]
    BY TwinSquare
  <2>3. S.mask[f[q]] = R.mask[q] /\ S.mask[f[p]] = R.mask[p]
    BY TwinPiece
  <2>4. S.pos[f[p]] \in Square <=> R.pos[p] \in Square
    BY TwinPiece
  <2>5. S.side = Relative(R.side, s) /\ R.side \in Side
    BY DEF Twin, SameClock, IsState
  <2>6. IsBackRank(t, S.side) <=> IsBackRank(to, R.side)
    BY <2>5, BackRankTurned
  <2>7. R.pos[p] \in Square => shown(S, f[p], t) = shown(R, p, to)
    BY <2>3, <2>5, TwinPiece, MoveFormsTurned
  <2>8. R.pos[p] \in Square =>
          promoted(S, shown(S, f[p], t), t) = promoted(R, shown(R, p, to), to)
    BY <2>6, <2>7
  <2> HIDE DEF shown, promoted, t
  <2> QED BY <2>1, <2>2, <2>3, <2>4, <2>8
<1>5. IsState(R) /\ IsState(S) /\ \A q \in Piece : f[q] \in Piece
  BY TwinPiece DEF Twin
<1> HIDE DEF new, t
<1>6. Renamed(f, At(R)!CollapsedMask(p, to), At(S)!CollapsedMask(f[p], t))
  BY <1>1, <1>2, <1>4, <1>5 DEF Renamed
<1>7. At(R)!CollapsedMask(p, to) \in Mask
  BY <1>1, <1>3, <1>5 DEF Mask
<1>8. At(S)!CollapsedMask(f[p], t) \in Mask
  BY <1>2, <1>3, <1>5 DEF Mask
<1> QED BY <1>6, <1>7, <1>8 DEF t

LEMMA TwinResolved ==
  ASSUME NEW s \in Side, NEW f, NEW R, NEW S, Twin(f, s, R, S),
         NEW p \in Piece, NEW to \in Square,
         NEW m \in Mask, NEW m2 \in Mask, Renamed(f, m, m2)
  PROVE  /\ Renamed(f, At(R)!Resolved(p, to, m),
                    At(S)!Resolved(f[p], PublicSquare(to, s), m2))
         /\ At(R)!Resolved(p, to, m) \in Mask
         /\ At(S)!Resolved(f[p], PublicSquare(to, s), m2) \in Mask
<1> DEFINE t == PublicSquare(to, s)
           ownersR == At(R)!OwnerAfter(p, to)
           ownersS == At(S)!OwnerAfter(f[p], t)
           placesR == At(R)!PosAfter(p, to)
           placesS == At(S)!PosAfter(f[p], t)
           keepsR == \E q \in Piece : ownersR[q] = Opposite(R.side) /\ "Lion" \in m[q]
           keepsS == \E q \in Piece : ownersS[q] = Opposite(S.side) /\ "Lion" \in m2[q]
<1>1. At(R)!Resolved(p, to, m) =
        IF R.pos[p] \in Square /\ keepsR THEN Refuted(ownersR, placesR, R.side, m) ELSE m
  BY AtResolved
<1>2. At(S)!Resolved(f[p], t, m2) =
        IF S.pos[f[p]] \in Square /\ keepsS THEN Refuted(ownersS, placesS, S.side, m2) ELSE m2
  BY AtResolved
<1>3. \A q \in Piece : ownersR[q] \in Side /\ ownersS[f[q]] = Relative(ownersR[q], s)
  BY TwinOwners
<1>4. \A q \in Piece : placesS[f[q]] \in HandSlot <=> placesR[q] \in HandSlot
  BY TwinPositions
<1>5. S.side = Relative(R.side, s) /\ R.side \in Side /\ Opposite(R.side) \in Side
      /\ Opposite(S.side) = Relative(Opposite(R.side), s)
  BY OppositeSide, RelativeFacts DEF Twin, SameClock, IsState
<1>6. \A q \in Piece : f[q] \in Piece /\ m2[f[q]] = m[q]
  BY TwinPiece DEF Renamed
<1>7. \A q \in Piece : \E r \in Piece : f[r] = q
  BY DEF Twin, Renaming
<1> HIDE DEF ownersR, ownersS, placesR, placesS, t
<1>8. keepsS <=> keepsR
  <2>1. \A q \in Piece : ownersS[f[q]] = Opposite(S.side) <=> ownersR[q] = Opposite(R.side)
    BY <1>3, <1>5, RelativeFacts
  <2> QED BY <1>6, <1>7, <2>1
<1>9. S.pos[f[p]] \in Square <=> R.pos[p] \in Square
  BY TwinPiece
<1>10. Renamed(f, Refuted(ownersR, placesR, R.side, m), Refuted(ownersS, placesS, S.side, m2))
  <2>1. \A q \in Piece : ownersS[f[q]] = S.side <=> ownersR[q] = R.side
    BY <1>3, <1>5, RelativeFacts
  <2> QED BY <1>4, <1>6, <2>1 DEF Renamed, Refuted
<1>11. /\ Refuted(ownersR, placesR, R.side, m) \in Mask
       /\ Refuted(ownersS, placesS, S.side, m2) \in Mask
  BY DEF Refuted, Mask
<1> HIDE DEF keepsR, keepsS
<1>12. Renamed(f, At(R)!Resolved(p, to, m), At(S)!Resolved(f[p], t, m2))
  BY <1>1, <1>2, <1>8, <1>9, <1>10
<1>13. At(R)!Resolved(p, to, m) \in Mask /\ At(S)!Resolved(f[p], t, m2) \in Mask
  BY <1>1, <1>2, <1>11
<1> QED BY <1>12, <1>13 DEF t

LEMMA OneMask ==
  ASSUME NEW S, NEW p, NEW to, NEW m \in At(S)!MasksAfter(p, to),
         NEW n \in At(S)!MasksAfter(p, to)
  PROVE  m = n
  BY AtMasksAfter

LEMMA TwinMasks ==
  ASSUME NEW s \in Side, NEW f, NEW R, NEW S, Twin(f, s, R, S),
         NEW p \in Piece, NEW to \in Square
  PROVE  /\ At(R)!MasksAfter(p, to) # {} <=> At(S)!MasksAfter(f[p], PublicSquare(to, s)) # {}
         /\ \A m \in At(R)!MasksAfter(p, to), m2 \in At(S)!MasksAfter(f[p], PublicSquare(to, s)) :
              m \in Mask /\ m2 \in Mask /\ Renamed(f, m, m2)
<1> DEFINE t == PublicSquare(to, s)
           cR == At(R)!CollapsedMask(p, to)
           cS == At(S)!CollapsedMask(f[p], t)
           rR == At(R)!Resolved(p, to, Pass(cR))
           rS == At(S)!Resolved(f[p], t, Pass(cS))
<1>1. cR \in Mask /\ cS \in Mask /\ Renamed(f, cR, cS)
  BY TwinCollapsed
<1>2. f \in Renaming(s)
  BY DEF Twin
<1>3. (Consistent(cR) <=> Consistent(cS)) /\ Renamed(f, Pass(cR), Pass(cS))
  BY <1>1, <1>2, PropagateRenamed
<1>4. Pass(cR) \in Mask /\ Pass(cS) \in Mask
  BY <1>1, PassShrinks
<1>5. rR \in Mask /\ rS \in Mask /\ Renamed(f, rR, rS)
  BY <1>3, <1>4, TwinResolved
<1>6. (Consistent(rR) <=> Consistent(rS)) /\ Renamed(f, Pass(rR), Pass(rS))
  BY <1>2, <1>5, PropagateRenamed
<1>7. Pass(rR) \in Mask /\ Pass(rS) \in Mask
  BY <1>5, PassShrinks
<1>8. \A m : m \in At(R)!MasksAfter(p, to) <=> Consistent(cR) /\ Consistent(rR) /\ m = Pass(rR)
  BY AtMasksAfter
<1>9. \A m : m \in At(S)!MasksAfter(f[p], t) <=> Consistent(cS) /\ Consistent(rS) /\ m = Pass(rS)
  BY AtMasksAfter
<1> HIDE DEF cR, cS, rR, rS
<1> QED BY <1>3, <1>6, <1>7, <1>8, <1>9

(* The fields of the State after a move. *)
LEMMA AfterIs ==
  ASSUME NEW S, NEW p, NEW to, NEW m
  PROVE  LET N == After(S, p, to, m) IN
         /\ N.board = At(S)!BoardAfter(p, to)
         /\ N.pos = At(S)!PosAfter(p, to)
         /\ N.mask = m
         /\ N.owner = At(S)!OwnerAfter(p, to)
         /\ N.side = Opposite(S.side)
         /\ N.turn = S.turn + 1
         /\ N.terminal = At(N)!Verdict[1]
         /\ N.winner = At(N)!Verdict[2]
<1> DEFINE moved == Moved(S, p, to, m)
           N == After(S, p, to, m)
<1>1. N = WithResult(moved, At(moved)!Verdict)
  BY DEF After
<1>2. /\ moved.board = At(S)!BoardAfter(p, to) /\ moved.pos = At(S)!PosAfter(p, to)
      /\ moved.mask = m /\ moved.owner = At(S)!OwnerAfter(p, to)
      /\ moved.side = Opposite(S.side) /\ moved.turn = S.turn + 1
  BY DEF Moved
<1> HIDE DEF N, moved
<1>3. /\ N.board = moved.board /\ N.pos = moved.pos /\ N.mask = moved.mask
      /\ N.owner = moved.owner /\ N.side = moved.side /\ N.turn = moved.turn
      /\ N.terminal = At(moved)!Verdict[1] /\ N.winner = At(moved)!Verdict[2]
  BY <1>1 DEF WithResult
<1>4. At(N)!Verdict = At(moved)!Verdict
  BY <1>3, AtVerdict
<1>5. /\ N.board = At(S)!BoardAfter(p, to)
      /\ N.pos = At(S)!PosAfter(p, to)
      /\ N.mask = m
      /\ N.owner = At(S)!OwnerAfter(p, to)
      /\ N.side = Opposite(S.side)
      /\ N.turn = S.turn + 1
      /\ N.terminal = At(N)!Verdict[1]
      /\ N.winner = At(N)!Verdict[2]
  BY <1>2, <1>3, <1>4
<1> QED BY <1>5 DEF N

LEMMA TwinVerdict ==
  ASSUME NEW s \in Side, NEW f \in Renaming(s), NEW R, NEW S, IsState(R), IsState(S),
         SamePlaces(f, s, R, S), SamePieces(f, s, R, S),
         S.side = Relative(R.side, s), S.turn = R.turn
  PROVE  /\ At(S)!Verdict[1] = At(R)!Verdict[1]
         /\ At(S)!Verdict[2] = IF At(R)!Verdict[2] = "None" THEN "None"
                               ELSE Relative(At(R)!Verdict[2], s)
<1> DEFINE tried(X) == \E p \in Piece : /\ X.owner[p] = X.side /\ X.pos[p] \in Square
                                        /\ IsBackRank(X.pos[p], X.side) /\ "Lion" \in X.mask[p]
           held(X) == \E p \in Piece : /\ X.owner[p] = Opposite(X.side) /\ X.pos[p] \in HandSlot
                                       /\ "Lion" \in X.mask[p]
<1>1. /\ R.side \in Side /\ S.side \in Side /\ Opposite(R.side) \in Side
      /\ Opposite(S.side) = Relative(Opposite(R.side), s)
  BY OppositeSide, RelativeFacts DEF IsState
<1>2. ASSUME NEW p \in Piece
      PROVE  /\ f[p] \in Piece
             /\ S.owner[f[p]] = S.side <=> R.owner[p] = R.side
             /\ S.owner[f[p]] = Opposite(S.side) <=> R.owner[p] = Opposite(R.side)
             /\ S.mask[f[p]] = R.mask[p]
             /\ S.pos[f[p]] \in HandSlot <=> R.pos[p] \in HandSlot
             /\ S.pos[f[p]] \in Square <=> R.pos[p] \in Square
             /\ R.pos[p] \in Square =>
                  (IsBackRank(S.pos[f[p]], S.side) <=> IsBackRank(R.pos[p], R.side))
  <2>1. f[p] \in Piece /\ S.owner[f[p]] = Relative(R.owner[p], s) /\ R.owner[p] \in Side
        /\ S.mask[f[p]] = R.mask[p]
    BY DEF Renaming, SamePieces, Renamed, IsState
  <2>2. R.pos[p] \in Square \cup HandSlot /\ S.pos[f[p]] \in Square \cup HandSlot
    BY <2>1 DEF IsState
  <2>3. IF R.pos[p] \in Square THEN S.pos[f[p]] = PublicSquare(R.pos[p], s)
        ELSE S.pos[f[p]] \in HandSlot
    BY DEF SamePlaces
  <2>4. \A x \in Square \cup HandSlot : x \in HandSlot <=> x \notin Square
    BY Places
  <2>5. \A x \in Square : PublicSquare(x, s) \in Square
    BY PublicSquareFacts
  <2>6. /\ S.owner[f[p]] = S.side <=> R.owner[p] = R.side
        /\ S.owner[f[p]] = Opposite(S.side) <=> R.owner[p] = Opposite(R.side)
    <3>1. \A a, b \in Side : Relative(a, s) = Relative(b, s) <=> a = b
      BY RelativeFacts
    <3>2. S.side = Relative(R.side, s)
      OBVIOUS
    <3>3. Relative(R.owner[p], s) = Relative(R.side, s) <=> R.owner[p] = R.side
      BY <1>1, <2>1, <3>1
    <3>4. Relative(R.owner[p], s) = Relative(Opposite(R.side), s)
            <=> R.owner[p] = Opposite(R.side)
      BY <1>1, <2>1, <3>1
    <3>5. Opposite(S.side) = Relative(Opposite(R.side), s)
      BY <1>1
    <3> QED BY <2>1, <3>2, <3>3, <3>4, <3>5
  <2>7. R.pos[p] \in Square =>
          (IsBackRank(S.pos[f[p]], S.side) <=> IsBackRank(R.pos[p], R.side))
    BY <1>1, <2>3, BackRankTurned
  <2> QED BY <2>1, <2>2, <2>3, <2>4, <2>5, <2>6, <2>7
<1>3. \A q \in Piece : \E p \in Piece : f[p] = q
  BY DEF Renaming
<1>4. tried(S) <=> tried(R)
  BY <1>2, <1>3
<1>5. held(S) <=> held(R)
  BY <1>2, <1>3
<1>6. \A X : At(X)!Verdict = IF tried(X) THEN <<"Try", X.side>>
                             ELSE IF held(X) THEN <<"Catch", Opposite(X.side)>>
                                  ELSE IF X.turn >= TurnLimit THEN <<"Draw", "None">>
                                       ELSE <<"None", "None">>
  BY AtVerdict
<1>7. R.side # "None" /\ Opposite(R.side) # "None"
  BY <1>1 DEF Side
<1> HIDE DEF tried, held
<1> QED BY <1>1, <1>4, <1>5, <1>6, <1>7

LEMMA StateAfter ==
  ASSUME NEW S, IsState(S), NEW p \in Piece, NEW to \in Square, NEW m \in Mask
  PROVE  IsState(After(S, p, to, m))
<1>1. At(S)!BoardAfter(p, to) \in [Square -> Piece \cup {Empty}]
  BY AtAfter DEF IsState
<1>2. At(S)!OwnerAfter(p, to) \in [Piece -> Side]
  BY AtAfter DEF IsState
<1>3. At(S)!PosAfter(p, to) \in [Piece -> Square \cup HandSlot]
  <2>1. S.pos \in [Piece -> Square \cup HandSlot]
    BY DEF IsState
  <2>2. \A q \in Piece : Least(SlotsLeft(S.pos, q)) \in HandSlot
    BY <2>1, SlotIsLeft
  <2> QED BY <2>1, <2>2, AtAfter
<1>4. Opposite(S.side) \in Side /\ S.turn + 1 \in Nat
  BY OppositeSide DEF IsState
<1> QED BY <1>1, <1>2, <1>3, <1>4, AfterIs DEF IsState

(* Twins stay twins when they make the same move. *)
LEMMA TwinAfter ==
  ASSUME NEW s \in Side, NEW f, NEW R, NEW S, Twin(f, s, R, S),
         NEW p \in Piece, NEW to \in Square,
         NEW m \in Mask, NEW m2 \in Mask, Renamed(f, m, m2)
  PROVE  Twin(f, s, After(R, p, to, m), After(S, f[p], PublicSquare(to, s), m2))
<1> DEFINE t == PublicSquare(to, s)
           R2 == After(R, p, to, m)
           S2 == After(S, f[p], t, m2)
<1>1. f \in Renaming(s) /\ IsState(R) /\ IsState(S) /\ f[p] \in Piece /\ t \in Square
  BY TwinPiece, TwinSquare DEF Twin
<1>2. IsState(R2) /\ IsState(S2)
  BY <1>1, StateAfter
<1>3. /\ R2.board = At(R)!BoardAfter(p, to) /\ S2.board = At(S)!BoardAfter(f[p], t)
      /\ R2.pos = At(R)!PosAfter(p, to) /\ S2.pos = At(S)!PosAfter(f[p], t)
      /\ R2.owner = At(R)!OwnerAfter(p, to) /\ S2.owner = At(S)!OwnerAfter(f[p], t)
      /\ R2.mask = m /\ S2.mask = m2
      /\ R2.side = Opposite(R.side) /\ S2.side = Opposite(S.side)
      /\ R2.turn = R.turn + 1 /\ S2.turn = S.turn + 1
      /\ R2.terminal = At(R2)!Verdict[1] /\ S2.terminal = At(S2)!Verdict[1]
      /\ R2.winner = At(R2)!Verdict[2] /\ S2.winner = At(S2)!Verdict[2]
  BY AfterIs
<1> HIDE DEF R2, S2
<1>4. SamePlaces(f, s, R2, S2)
  <2>1. \A x \in Square : S2.board[PublicSquare(x, s)] =
          IF R2.board[x] = Empty THEN Empty ELSE f[R2.board[x]]
    BY <1>3, TwinBoards
  <2>2. \A q \in Piece :
          IF R2.pos[q] \in Square THEN S2.pos[f[q]] = PublicSquare(R2.pos[q], s)
          ELSE S2.pos[f[q]] \in HandSlot
    BY <1>3, TwinPositions
  <2> QED BY <2>1, <2>2 DEF SamePlaces
<1>5. SamePieces(f, s, R2, S2)
  BY <1>3, TwinOwners DEF SamePieces
<1>6. S2.side = Relative(R2.side, s) /\ S2.turn = R2.turn
  BY <1>3, RelativeFacts DEF Twin, SameClock, IsState
<1>7. SameClock(s, R2, S2)
  BY <1>1, <1>2, <1>3, <1>4, <1>5, <1>6, TwinVerdict DEF SameClock
<1>8. Twin(f, s, R2, S2)
  BY <1>1, <1>2, <1>4, <1>5, <1>7 DEF Twin
<1> QED BY <1>8 DEF R2, S2, t

-----------------------------------------------------------------------------
(* The states of the modules, as records. *)

GameState ==
  [board |-> board, pos |-> pos, mask |-> mask, owner |-> owner,
   side |-> sideToMove, turn |-> turn, terminal |-> terminal, winner |-> winner]

CopyState ==
  [board |-> copyBoard, pos |-> copyPos, mask |-> copyMask, owner |-> copyOwner,
   side |-> copySide, turn |-> copyTurn, terminal |-> copyTerminal, winner |-> copyWinner]

LEMMA AfterRecord ==
  ASSUME NEW S, NEW p, NEW to, NEW m, NEW N,
         N = [board |-> N.board, pos |-> N.pos, mask |-> N.mask, owner |-> N.owner,
              side |-> N.side, turn |-> N.turn, terminal |-> N.terminal, winner |-> N.winner],
         N.board = At(S)!BoardAfter(p, to), N.pos = At(S)!PosAfter(p, to), N.mask = m,
         N.owner = At(S)!OwnerAfter(p, to), N.side = Opposite(S.side), N.turn = S.turn + 1,
         N.terminal = At(N)!Verdict[1], N.winner = At(N)!Verdict[2]
  PROVE  N = After(S, p, to, m)
<1> DEFINE moved == Moved(S, p, to, m)
<1>1. After(S, p, to, m) = WithResult(moved, At(moved)!Verdict)
  BY DEF After
<1>2. /\ moved.board = N.board /\ moved.pos = N.pos /\ moved.mask = N.mask
      /\ moved.owner = N.owner /\ moved.side = N.side /\ moved.turn = N.turn
  BY DEF Moved
<1> HIDE DEF moved
<1>3. At(N)!Verdict = At(moved)!Verdict
  BY <1>2, AtVerdict
<1>4. N = WithResult(moved, At(moved)!Verdict)
  BY <1>2, <1>3 DEF WithResult
<1> QED BY <1>1, <1>4

LEMMA AtGame ==
  ASSUME NEW p, NEW to
  PROVE  /\ At(GameState)!Admissible(p, to) <=> Admissible(p, to)
         /\ At(GameState)!BoardAfter(p, to) = BoardAfter(p, to)
         /\ At(GameState)!PosAfter(p, to) = PosAfter(p, to)
         /\ At(GameState)!OwnerAfter(p, to) = OwnerAfter(p, to)
         /\ At(GameState)!MasksAfter(p, to) = MasksAfter(p, to)
<1>0. /\ GameState.board = board /\ GameState.pos = pos /\ GameState.mask = mask
      /\ GameState.owner = owner /\ GameState.side = sideToMove
      /\ GameState.turn = turn /\ GameState.terminal = terminal
  BY DEF GameState
<1>1. At(GameState)!Admissible(p, to) <=> Admissible(p, to)
  BY <1>0, AtAdmissible
  DEF Admissible, MovePreconditionsHold, OriginEffectsPossible, Captures, FreeSlots, UsedSlots,
      InHand, Owns, SlotsLeft
<1>2. At(GameState)!BoardAfter(p, to) = BoardAfter(p, to)
  BY <1>0, AtAfter DEF BoardAfter
<1>3. At(GameState)!OwnerAfter(p, to) = OwnerAfter(p, to)
  BY <1>0, AtAfter DEF OwnerAfter
<1>4. At(GameState)!PosAfter(p, to) = PosAfter(p, to)
  <2>1. \A c : LowestFreeSlot(c) = Least(SlotsLeft(pos, c))
    <3> TAKE c
    <3>1. FreeSlots(c) = SlotsLeft(pos, c)
      BY DEF FreeSlots, UsedSlots, InHand, SlotsLeft
    <3> QED BY <3>1, Zenon DEF LowestFreeSlot, Least
  <2> QED BY <1>0, <2>1, AtAfter DEF PosAfter
<1>5. At(GameState)!CollapsedMask(p, to) = CollapsedMask(p, to)
  BY <1>0, AtCollapsed DEF CollapsedMask, OnBoard, Promoted
<1>6. \A m : At(GameState)!Resolved(p, to, m) = Resolved(p, to, m)
  BY <1>0, <1>3, <1>4, AtResolved DEF Resolved, OnBoard, OpponentKeepsLion, LionsRefuted, Refuted
<1>7. \A m : At(GameState)!Propagate(m) = Propagate(m)
  BY AtLineage
<1>8. At(GameState)!MasksAfter(p, to) = MasksAfter(p, to)
  BY <1>5, <1>6, <1>7 DEF At!MasksAfter, MasksAfter
<1> QED BY <1>1, <1>2, <1>3, <1>4, <1>8

LEMMA AtGameVerdict == At(GameState)!Verdict = Verdict
<1>0. /\ GameState.pos = pos /\ GameState.mask = mask
      /\ GameState.owner = owner /\ GameState.side = sideToMove /\ GameState.turn = turn
  BY DEF GameState
<1> QED BY <1>0, AtVerdict DEF Verdict, HasTryCandidate, HasHandLion, Owns, OnBoard, InHand

LEMMA EnginePlaces ==
  /\ Engine!HandSlot = HandSlot /\ Engine!Square = Square /\ Engine!MoveForms = MoveForms
  /\ \A x, side : Engine!IsBackRank(x, side) <=> IsBackRank(x, side)
  /\ \A side : Engine!Opposite(side) = Opposite(side)
  /\ \A forms : Engine!Demoted(forms) = Demoted(forms)
<1>1. Engine!Square = Square
  BY Zenon DEF Engine!Square, Square, Engine!BoardSize, BoardSize
<1>2. Engine!HandSlot = HandSlot
  BY Zenon DEF Engine!HandSlot, HandSlot, Engine!BoardSize, BoardSize, Engine!Cardinality,
     Cardinality
<1>3. Engine!MoveForms = MoveForms
  BY Zenon DEF MoveForms, Engine!MoveForms, RowOf, ColOf, Engine!RowOf, Engine!ColOf,
     Engine!Form, Form, Side, Engine!Side, Square, Engine!Square, BoardSize, Engine!BoardSize,
     Reaches, Engine!Reaches
<1>4. /\ \A x, side : Engine!IsBackRank(x, side) <=> IsBackRank(x, side)
      /\ \A side : Engine!Opposite(side) = Opposite(side)
      /\ \A forms : Engine!Demoted(forms) = Demoted(forms)
  BY Zenon DEF IsBackRank, Engine!IsBackRank, RowOf, Engine!RowOf, Opposite, Engine!Opposite,
     Demoted, Engine!Demoted
<1> QED BY <1>1, <1>2, <1>3, <1>4

LEMMA AtCopy ==
  ASSUME NEW p, NEW to
  PROVE  /\ At(CopyState)!Admissible(p, to) <=> Engine!Admissible(p, to)
         /\ At(CopyState)!BoardAfter(p, to) = Engine!BoardAfter(p, to)
         /\ At(CopyState)!PosAfter(p, to) = Engine!PosAfter(p, to)
         /\ At(CopyState)!OwnerAfter(p, to) = Engine!OwnerAfter(p, to)
         /\ At(CopyState)!MasksAfter(p, to) = Engine!MasksAfter(p, to)
<1>0. /\ CopyState.board = copyBoard /\ CopyState.pos = copyPos /\ CopyState.mask = copyMask
      /\ CopyState.owner = copyOwner /\ CopyState.side = copySide
      /\ CopyState.turn = copyTurn /\ CopyState.terminal = copyTerminal
  BY DEF CopyState
<1>p. /\ Engine!HandSlot = HandSlot /\ Engine!Square = Square /\ Engine!MoveForms = MoveForms
      /\ \A x, side : Engine!IsBackRank(x, side) <=> IsBackRank(x, side)
      /\ \A side : Engine!Opposite(side) = Opposite(side)
      /\ \A forms : Engine!Demoted(forms) = Demoted(forms)
  BY EnginePlaces
<1>1. At(CopyState)!Admissible(p, to) <=> Engine!Admissible(p, to)
  BY <1>0, <1>p, AtAdmissible
  DEF Engine!Admissible, Engine!MovePreconditionsHold, Engine!OriginEffectsPossible,
      Engine!Captures, Engine!FreeSlots, Engine!UsedSlots, Engine!InHand, Engine!Owns, SlotsLeft
<1>2. At(CopyState)!BoardAfter(p, to) = Engine!BoardAfter(p, to)
  BY <1>0, <1>p, AtAfter DEF Engine!BoardAfter
<1>3. At(CopyState)!OwnerAfter(p, to) = Engine!OwnerAfter(p, to)
  BY <1>0, AtAfter DEF Engine!OwnerAfter
<1>4. At(CopyState)!PosAfter(p, to) = Engine!PosAfter(p, to)
  <2>1. \A c : Engine!LowestFreeSlot(c) = Least(SlotsLeft(copyPos, c))
    <3> TAKE c
    <3>1. Engine!FreeSlots(c) = SlotsLeft(copyPos, c)
      BY <1>p DEF Engine!FreeSlots, Engine!UsedSlots, Engine!InHand, SlotsLeft
    <3> QED BY <3>1, Zenon DEF Engine!LowestFreeSlot, Least
  <2> QED BY <1>0, <2>1, AtAfter DEF Engine!PosAfter
<1>5. At(CopyState)!CollapsedMask(p, to) = Engine!CollapsedMask(p, to)
  BY <1>0, <1>p, AtCollapsed DEF Engine!CollapsedMask, Engine!OnBoard, Engine!Promoted
<1>6. \A m : At(CopyState)!Resolved(p, to, m) = Engine!Resolved(p, to, m)
  BY <1>0, <1>p, <1>3, <1>4, AtResolved
  DEF Engine!Resolved, Engine!OnBoard, Engine!OpponentKeepsLion, Engine!LionsRefuted, Refuted
<1>7. \A m : At(CopyState)!Propagate(m) = Engine!Propagate(m)
  BY Zenon DEF At!Propagate, At!Consistent, At!Pass, At!Worlds, At!Supported,
     At!FormsForLineages, At!LineageOf, At!Assignments, At!Group, At!Animal, At!Form, At!Side,
     Engine!Propagate, Engine!Consistent, Engine!Pass, Engine!Worlds, Engine!Supported,
     Engine!FormsForLineages, Engine!LineageOf, Engine!Assignments, Engine!Group,
     Engine!Animal, Engine!Form, Engine!Side
<1>8. At(CopyState)!MasksAfter(p, to) = Engine!MasksAfter(p, to)
  BY <1>5, <1>6, <1>7 DEF At!MasksAfter, Engine!MasksAfter
<1> QED BY <1>1, <1>2, <1>3, <1>4, <1>8

LEMMA GameMoves ==
  ASSUME NEW p, NEW to, ApplyMove(p, to)
  PROVE  /\ At(GameState)!Admissible(p, to)
         /\ \E m \in At(GameState)!MasksAfter(p, to) :
              GameState' = After(GameState, p, to, m)
<1>1. PICK N : N = GameState'
  OBVIOUS
<1>2. /\ N.board = board' /\ N.pos = pos' /\ N.mask = mask' /\ N.owner = owner'
      /\ N.side = sideToMove' /\ N.turn = turn' /\ N.terminal = terminal' /\ N.winner = winner'
  BY <1>1 DEF GameState
<1>3. /\ N.board = BoardAfter(p, to) /\ N.pos = PosAfter(p, to) /\ N.owner = OwnerAfter(p, to)
      /\ N.mask \in MasksAfter(p, to) /\ N.side = Opposite(sideToMove) /\ N.turn = turn + 1
      /\ N.terminal = Verdict'[1] /\ N.winner = Verdict'[2] /\ Admissible(p, to)
  BY <1>2 DEF ApplyMove
<1>4. At(N)!Verdict = Verdict'
  BY <1>2, AtVerdict DEF Verdict, HasTryCandidate, HasHandLion, Owns, OnBoard, InHand
<1>5. GameState.side = sideToMove /\ GameState.turn = turn
  BY DEF GameState
<1>6. N = [board |-> N.board, pos |-> N.pos, mask |-> N.mask, owner |-> N.owner,
           side |-> N.side, turn |-> N.turn, terminal |-> N.terminal, winner |-> N.winner]
  BY <1>1, <1>2 DEF GameState
<1>7. N = After(GameState, p, to, N.mask)
  BY <1>3, <1>4, <1>5, <1>6, AtGame, AfterRecord
<1> QED BY <1>1, <1>2, <1>3, <1>7, AtGame

LEMMA CopyMoves ==
  ASSUME NEW p, NEW to, Engine!ApplyMove(p, to)
  PROVE  /\ At(CopyState)!Admissible(p, to)
         /\ \E m \in At(CopyState)!MasksAfter(p, to) :
              CopyState' = After(CopyState, p, to, m)
<1>1. PICK N : N = CopyState'
  OBVIOUS
<1>2. /\ N.board = copyBoard' /\ N.pos = copyPos' /\ N.mask = copyMask' /\ N.owner = copyOwner'
      /\ N.side = copySide' /\ N.turn = copyTurn'
      /\ N.terminal = copyTerminal' /\ N.winner = copyWinner'
  BY <1>1 DEF CopyState
<1>3. /\ N.board = Engine!BoardAfter(p, to) /\ N.pos = Engine!PosAfter(p, to)
      /\ N.owner = Engine!OwnerAfter(p, to) /\ N.mask \in Engine!MasksAfter(p, to)
      /\ N.side = Engine!Opposite(copySide) /\ N.turn = copyTurn + 1
      /\ N.terminal = Engine!Verdict'[1] /\ N.winner = Engine!Verdict'[2]
      /\ Engine!Admissible(p, to)
  BY <1>2 DEF Engine!ApplyMove
<1>p. /\ Engine!Square = Square /\ Engine!HandSlot = HandSlot
      /\ \A x, side : Engine!IsBackRank(x, side) <=> IsBackRank(x, side)
      /\ \A side : Engine!Opposite(side) = Opposite(side)
  BY EnginePlaces
<1>4. At(N)!Verdict = Engine!Verdict'
  BY <1>2, <1>p, AtVerdict
  DEF Engine!Verdict, Engine!HasTryCandidate, Engine!HasHandLion, Engine!Owns, Engine!OnBoard,
      Engine!InHand
<1>5. CopyState.side = copySide /\ CopyState.turn = copyTurn
  BY DEF CopyState
<1>6. N = [board |-> N.board, pos |-> N.pos, mask |-> N.mask, owner |-> N.owner,
           side |-> N.side, turn |-> N.turn, terminal |-> N.terminal, winner |-> N.winner]
  BY <1>1, <1>2 DEF CopyState
<1>7. N = After(CopyState, p, to, N.mask)
  BY <1>3, <1>4, <1>5, <1>6, <1>p, AtCopy, AfterRecord
<1> QED BY <1>1, <1>2, <1>3, <1>7, AtCopy

-----------------------------------------------------------------------------
(* Twins whose pieces in hand have the same slots. *)

ExactTwin(f, s, R, S) ==
  Twin(f, s, R, S) /\ \A p \in Piece : S.pos[f[p]] = PublicSquare(R.pos[p], s)

LEMMA TwinSlots ==
  ASSUME NEW s \in Side, NEW f, NEW R, NEW S, ExactTwin(f, s, R, S), NEW c \in Piece
  PROVE  SlotsLeft(S.pos, f[c]) = SlotsLeft(R.pos, c)
<1>1. \A p, q \in Piece : f[p] = f[q] => p = q
  BY DEF ExactTwin, Twin, Renaming
<1>2. \A q \in Piece : \E p \in Piece : f[p] = q
  BY DEF ExactTwin, Twin, Renaming
<1>3. \A p \in Piece : /\ f[p] \in Piece
                       /\ S.pos[f[p]] \in HandSlot <=> R.pos[p] \in HandSlot
                       /\ R.pos[p] \in HandSlot => S.pos[f[p]] = R.pos[p]
  <2> TAKE p \in Piece
  <2>1. Twin(f, s, R, S) /\ S.pos[f[p]] = PublicSquare(R.pos[p], s)
    BY DEF ExactTwin
  <2>2. R.pos[p] \in Square \cup HandSlot
    BY <2>1 DEF Twin, IsState
  <2> QED BY <2>1, <2>2, TwinPiece, PublicSquareFacts
<1>4. \A x \in HandSlot :
        (\E q \in Piece : q # f[c] /\ S.pos[q] \in HandSlot /\ S.pos[q] = x)
          <=> (\E p \in Piece : p # c /\ R.pos[p] \in HandSlot /\ R.pos[p] = x)
  BY <1>1, <1>2, <1>3
<1> QED BY <1>4 DEF SlotsLeft

LEMMA ExactTwinAfter ==
  ASSUME NEW s \in Side, NEW f, NEW R, NEW S, ExactTwin(f, s, R, S),
         NEW p \in Piece, NEW to \in Square,
         NEW m \in Mask, NEW m2 \in Mask, Renamed(f, m, m2)
  PROVE  ExactTwin(f, s, After(R, p, to, m), After(S, f[p], PublicSquare(to, s), m2))
<1> DEFINE t == PublicSquare(to, s)
           R2 == After(R, p, to, m)
           S2 == After(S, f[p], t, m2)
<1>1. Twin(f, s, R, S)
  BY DEF ExactTwin
<1>2. Twin(f, s, R2, S2)
  BY <1>1, TwinAfter
<1>3. ASSUME NEW q \in Piece PROVE S2.pos[f[q]] = PublicSquare(R2.pos[q], s)
  <2>1. R2.pos = At(R)!PosAfter(p, to) /\ S2.pos = At(S)!PosAfter(f[p], t)
    BY AfterIs
  <2>2. R2.pos[q] = IF q = p THEN to
                    ELSE IF q = R.board[to] THEN Least(SlotsLeft(R.pos, q)) ELSE R.pos[q]
    BY <2>1, AtAfter
  <2>3. f[q] \in Piece /\ (f[q] = f[p] <=> q = p)
    BY <1>1 DEF Twin, Renaming
  <2>4. S2.pos[f[q]] = IF f[q] = f[p] THEN t
                       ELSE IF f[q] = S.board[t] THEN Least(SlotsLeft(S.pos, f[q]))
                            ELSE S.pos[f[q]]
    BY <2>1, <2>3, AtAfter
  <2>5. f[q] = S.board[t] <=> q = R.board[to]
    BY <1>1, TwinSquare
  <2>6. SlotsLeft(S.pos, f[q]) = SlotsLeft(R.pos, q)
    BY TwinSlots
  <2>7. Least(SlotsLeft(R.pos, q)) \in HandSlot
    BY <1>1, SlotIsLeft DEF Twin, IsState
  <2>8. PublicSquare(Least(SlotsLeft(R.pos, q)), s) = Least(SlotsLeft(R.pos, q))
    BY <2>7, PublicSquareFacts
  <2>9. S.pos[f[q]] = PublicSquare(R.pos[q], s)
    BY DEF ExactTwin
  <2> HIDE DEF R2, S2
  <2> QED BY <2>2, <2>3, <2>4, <2>5, <2>6, <2>8, <2>9
<1> HIDE DEF R2, S2, t
<1>4. ExactTwin(f, s, R2, S2)
  BY <1>2, <1>3 DEF ExactTwin
<1> QED BY <1>4 DEF R2, S2, t

(* Twins make the same moves, and are twins after them. *)
LEMMA TwinMoves ==
  ASSUME NEW s \in Side, NEW f, NEW R, NEW S, ExactTwin(f, s, R, S),
         NEW p \in Piece, NEW to \in Square, NEW m \in At(R)!MasksAfter(p, to),
         NEW m2 \in At(S)!MasksAfter(f[p], PublicSquare(to, s))
  PROVE  ExactTwin(f, s, After(R, p, to, m), After(S, f[p], PublicSquare(to, s), m2))
<1>1. Twin(f, s, R, S)
  BY DEF ExactTwin
<1>2. m \in Mask /\ m2 \in Mask /\ Renamed(f, m, m2)
  BY <1>1, TwinMasks
<1> QED BY <1>2, ExactTwinAfter

-----------------------------------------------------------------------------
(* What twins call their moves. *)

LEMMA ActionsDecode ==
  ASSUME NEW u \in Source, NEW x \in Square
  PROVE  /\ ActionSource(EncodeAction(u, x)) = u
         /\ ActionDestination(EncodeAction(u, x)) = x
<1>1. PICK w \in Nat \ {0} : w = BoardSize
  <2>1. BoardSize \in Nat /\ Square = 0 .. BoardSize - 1
    BY Places DEF Square
  <2> QED BY <2>1
<1>2. PICK a \in Int, b \in 0 .. w - 1 : a = u /\ b = x
  BY <1>1, Places DEF Source, Square
<1>3. PICK n \in Int : n = a * w + b
  OBVIOUS
<1>4. n = w * a + b
  BY <1>3
<1>5. n \div w = a /\ n % w = b
  BY <1>4, DivisionUnique
<1>6. EncodeAction(u, x) = n
  BY <1>1, <1>2, <1>3 DEF EncodeAction
<1> QED BY <1>1, <1>2, <1>5, <1>6 DEF ActionSource, ActionDestination

LEMMA LegalTwin ==
  ASSUME NEW f, sideToMove \in Side, ExactTwin(f, sideToMove, GameState, CopyState),
         NEW p \in Piece, NEW to \in Square
  PROVE  /\ f[p] \in Piece
         /\ PublicSquare(to, sideToMove) \in Square
         /\ Engine!Legal(f[p], PublicSquare(to, sideToMove)) <=> Legal(p, to)
         /\ EncodeAction(copyPos[f[p]], PublicSquare(to, sideToMove)) = PublicAction(<<p, to>>)
<1> DEFINE s == sideToMove
           t == PublicSquare(to, s)
<1>1. s \in Side /\ Twin(f, s, GameState, CopyState)
  BY DEF ExactTwin
<1>2. f[p] \in Piece /\ t \in Square
  BY <1>1, TwinPiece, TwinSquare
<1>3. At(CopyState)!Admissible(f[p], t) <=> At(GameState)!Admissible(p, to)
  BY <1>1, TwinAdmissible
<1>4. At(GameState)!MasksAfter(p, to) # {} <=> At(CopyState)!MasksAfter(f[p], t) # {}
  BY <1>1, TwinMasks
<1>5. At(CopyState)!Admissible(f[p], t) <=> Engine!Admissible(f[p], t)
  BY AtCopy
<1>6. At(CopyState)!MasksAfter(f[p], t) = Engine!MasksAfter(f[p], t)
  BY AtCopy
<1>7. copyPos[f[p]] = PublicSquare(pos[p], s)
  BY DEF ExactTwin, GameState, CopyState
<1>8. EncodeAction(copyPos[f[p]], t) = PublicAction(<<p, to>>)
  BY <1>7 DEF PublicAction
<1> HIDE DEF t
<1>9. Engine!Legal(f[p], t) <=> Legal(p, to)
  BY <1>3, <1>4, <1>5, <1>6, AtGame DEF Legal, Engine!Legal
<1> QED BY <1>2, <1>8, <1>9 DEF t

(* The copy's moves have the actions that the referee lists. *)
LEMMA TwinActions ==
  ASSUME NEW f, sideToMove \in Side, ExactTwin(f, sideToMove, GameState, CopyState)
  PROVE  CopyActions = LegalActions
<1> DEFINE s == sideToMove
<1>1. f \in Renaming(s)
  BY DEF ExactTwin, Twin
<1>2. ASSUME NEW p \in Piece, NEW to \in Square, Legal(p, to)
      PROVE  PublicAction(<<p, to>>) \in CopyActions
  <2>1. PICK q \in Piece, t \in Square : q = f[p] /\ t = PublicSquare(to, s)
    BY LegalTwin
  <2>2. Engine!Legal(q, t) /\ EncodeAction(copyPos[q], t) = PublicAction(<<p, to>>)
    BY <1>2, <2>1, LegalTwin
  <2>3. <<q, t>> \in {n \in Piece \X Square : Engine!Legal(n[1], n[2])}
    BY <2>2
  <2>4. EncodeAction(copyPos[<<q, t>>[1]], <<q, t>>[2]) \in CopyActions
    BY <2>3 DEF CopyActions
  <2> QED BY <2>2, <2>4
<1>3. ASSUME NEW q \in Piece, NEW t \in Square, Engine!Legal(q, t)
      PROVE  EncodeAction(copyPos[q], t) \in LegalActions
  <2>1. PICK p \in Piece : f[p] = q
    BY <1>1 DEF Renaming
  <2>2. PICK to \in Square : PublicSquare(to, s) = t
    BY PublicSquareFacts
  <2>3. Legal(p, to) /\ EncodeAction(copyPos[q], t) = PublicAction(<<p, to>>)
    BY <1>3, <2>1, <2>2, LegalTwin
  <2>4. <<p, to>> \in {n \in Piece \X Square : Legal(n[1], n[2])}
    BY <2>3
  <2> QED BY <2>3, <2>4 DEF LegalActions
<1>4. \A a \in LegalActions : a \in CopyActions
  <2> TAKE a \in LegalActions
  <2>1. PICK n \in Piece \X Square : Legal(n[1], n[2]) /\ a = PublicAction(n)
    BY DEF LegalActions
  <2>2. n = <<n[1], n[2]>> /\ n[1] \in Piece /\ n[2] \in Square
    BY <2>1
  <2> QED BY <1>2, <2>1, <2>2
<1>5. \A a \in CopyActions : a \in LegalActions
  <2> TAKE a \in CopyActions
  <2>1. PICK n \in Piece \X Square :
          Engine!Legal(n[1], n[2]) /\ a = EncodeAction(copyPos[n[1]], n[2])
    BY DEF CopyActions
  <2>2. n[1] \in Piece /\ n[2] \in Square
    BY <2>1
  <2> QED BY <1>3, <2>1, <2>2
<1> QED BY <1>4, <1>5

-----------------------------------------------------------------------------
(* The numbers that an observation gives the pieces. *)

LEMMA NumbersAreNames ==
  ASSUME ProtocolConstants, NEW obs, WellFormed(obs),
         DOMAIN obs \subseteq Nat, IsFiniteSet(DOMAIN obs),
         \A t \in DOMAIN obs : obs[t].origin \in Side
  PROVE  /\ \A t \in DOMAIN obs : /\ PieceNumber(obs, t) \in Piece
                                  /\ Origin[PieceNumber(obs, t)] = obs[t].origin
         /\ \A t, u \in DOMAIN obs : PieceNumber(obs, t) = PieceNumber(obs, u) => t = u
<1> DEFINE D == DOMAIN obs
           same(t) == {u \in D : obs[u].origin = obs[t].origin}
           before(t) == {u \in D : obs[u].origin = obs[t].origin /\ u < t}
           k(t) == Cardinality(before(t))
<1>1. ASSUME NEW t \in D
      PROVE  k(t) \in 0 .. PiecesPerOrigin - 1
  <2>1. IsFiniteSet(same(t)) /\ Cardinality(same(t)) = PiecesPerOrigin
    <3>1. same(t) \in SUBSET D
      OBVIOUS
    <3> QED BY <3>1, FS_Subset DEF WellFormed
  <2>2. before(t) \in SUBSET same(t) /\ t \in same(t) /\ t \notin before(t)
    OBVIOUS
  <2> HIDE DEF same, before
  <2>3. Cardinality(before(t)) < Cardinality(same(t)) /\ Cardinality(before(t)) \in Nat
    <3>1. before(t) # same(t)
      BY <2>2
    <3>2. /\ IsFiniteSet(before(t)) /\ Cardinality(before(t)) <= Cardinality(same(t))
          /\ Cardinality(same(t)) = Cardinality(before(t)) => same(t) = before(t)
      BY <2>1, <2>2, FS_Subset
    <3>3. Cardinality(before(t)) \in Nat /\ Cardinality(same(t)) \in Nat
      BY <2>1, <3>2, FS_CardinalityType
    <3> QED BY <3>1, <3>2, <3>3
  <2> QED BY <2>1, <2>3, ProtocolConstants DEF ProtocolConstants
<1>2. ASSUME NEW t \in D, NEW u \in D, obs[t].origin = obs[u].origin, t < u
      PROVE  k(t) < k(u)
  <2>1. before(t) \in SUBSET before(u) /\ t \in before(u) /\ t \notin before(t)
    BY <1>2
  <2>2. IsFiniteSet(before(u))
    <3>1. before(u) \in SUBSET D
      OBVIOUS
    <3> QED BY <3>1, FS_Subset
  <2> HIDE DEF before
  <2>3. before(t) # before(u)
    BY <2>1
  <2>4. /\ IsFiniteSet(before(t)) /\ Cardinality(before(t)) <= Cardinality(before(u))
        /\ Cardinality(before(u)) = Cardinality(before(t)) => before(u) = before(t)
    BY <2>1, <2>2, FS_Subset
  <2>5. Cardinality(before(t)) \in Nat /\ Cardinality(before(u)) \in Nat
    BY <2>2, <2>4, FS_CardinalityType
  <2> QED BY <2>3, <2>4, <2>5
<1>3. \A t \in D : PieceNumber(obs, t) =
        k(t) + (IF obs[t].origin = "South" THEN 0 ELSE PiecesPerOrigin)
  BY DEF PieceNumber
<1>4. /\ PiecesPerOrigin \in Nat \ {0} /\ Piece = 0 .. 2 * PiecesPerOrigin - 1
      /\ \A p \in Piece : Origin[p] = IF p < PiecesPerOrigin THEN "South" ELSE "North"
  BY ProtocolConstants DEF ProtocolConstants
<1>5. D \subseteq Nat /\ \A t \in D : obs[t].origin = "South" \/ obs[t].origin = "North"
  BY DEF Side
<1> HIDE DEF D, k
<1>6. ASSUME NEW t \in D
      PROVE  PieceNumber(obs, t) \in Piece /\ Origin[PieceNumber(obs, t)] = obs[t].origin
  <2>1. CASE obs[t].origin = "South"
    BY <1>1, <1>3, <1>4, <2>1
  <2>2. CASE obs[t].origin = "North"
    BY <1>1, <1>3, <1>4, <2>2
  <2> QED BY <1>5, <2>1, <2>2
<1>7. ASSUME NEW t \in D, NEW u \in D, PieceNumber(obs, t) = PieceNumber(obs, u)
      PROVE  t = u
  <2>1. obs[t].origin = obs[u].origin
    BY <1>6, <1>7
  <2>2. k(t) = k(u) /\ k(t) \in Int /\ k(u) \in Int
    BY <1>1, <1>3, <1>4, <1>7, <2>1
  <2>3. ~(t < u) /\ ~(u < t)
    BY <1>2, <2>1, <2>2
  <2> QED BY <1>5, <2>3
<1> QED BY <1>6, <1>7 DEF D

(* The source of each piece shows it, and no other. *)
LEMMA ObservationShows ==
  ASSUME GameTypeOK, BoardConsistent
  PROVE  /\ DOMAIN Observation = {PublicSquare(pos[p], sideToMove) : p \in Piece}
         /\ DOMAIN Observation \subseteq Source
         /\ IsFiniteSet(DOMAIN Observation)
         /\ \A p, q \in Piece : pos[p] = pos[q] => p = q
         /\ \A p \in Piece : /\ pos[p] \in Square \cup HandSlot
                             /\ PublicSquare(pos[p], sideToMove) \in DOMAIN Observation
                             /\ Observation[PublicSquare(pos[p], sideToMove)] = Seen(p)
<1> DEFINE s == sideToMove
           src == [p \in Piece |-> PublicSquare(pos[p], s)]
<1>1. s \in Side /\ \A p \in Piece : pos[p] \in Square \cup HandSlot
  BY DEF GameTypeOK
<1>2. DOMAIN Observation = {PublicSquare(pos[p], s) : p \in Piece}
  BY DEF Observation
<1>3. ASSUME NEW p \in Piece, NEW q \in Piece, pos[p] = pos[q]
      PROVE  p = q
  <2>1. CASE pos[p] \in Square
    BY <1>3, <2>1 DEF BoardConsistent, OnBoard
  <2>2. CASE pos[p] \in HandSlot
    BY <1>3, <2>2 DEF BoardConsistent, InHand
  <2> QED BY <1>1, <2>1, <2>2
<1>4. ASSUME NEW p \in Piece
      PROVE  Observation[PublicSquare(pos[p], s)] = Seen(p)
  <2> DEFINE t == PublicSquare(pos[p], s)
  <2>1. \A q \in Piece : PublicSquare(pos[q], s) = t => q = p
    BY <1>1, <1>3, PublicSquareFacts
  <2>2. (CHOOSE q \in Piece : PublicSquare(pos[q], s) = t) = p
    BY <2>1
  <2>3. Observation[t] = Seen(CHOOSE q \in Piece : PublicSquare(pos[q], s) = t)
    BY DEF Observation
  <2> QED BY <2>2, <2>3
<1>5. DOMAIN Observation \subseteq Source
  BY <1>1, <1>2, PublicSquareFacts DEF Source
<1>6. IsFiniteSet(DOMAIN Observation)
  <2>1. src \in Surjection(Piece, DOMAIN Observation)
    BY <1>2 DEF Surjection
  <2> QED BY <2>1, FS_Surjection, GameConstants
<1> QED BY <1>1, <1>2, <1>3, <1>4, <1>5, <1>6

(* The renumbering of a request. *)
Numbers(obs) == [p \in Piece |-> PieceNumber(obs, PublicSquare(pos[p], sideToMove))]

LEMMA NumbersRename ==
  ASSUME ProtocolConstants, GameTypeOK, BoardConsistent, WellFormed(Observation)
  PROVE  /\ Numbers(Observation) \in Renaming(sideToMove)
         /\ \A p \in Piece : SourceOf(Observation)[Numbers(Observation)[p]]
                               = PublicSquare(pos[p], sideToMove)
<1> DEFINE obs == Observation
           s == sideToMove
           src == [p \in Piece |-> PublicSquare(pos[p], s)]
           f == Numbers(obs)
<1>1. /\ DOMAIN obs = {src[p] : p \in Piece} /\ DOMAIN obs \subseteq Source
      /\ IsFiniteSet(DOMAIN obs)
      /\ \A p, q \in Piece : pos[p] = pos[q] => p = q
      /\ \A p \in Piece : pos[p] \in Square \cup HandSlot /\ src[p] \in DOMAIN obs
                          /\ obs[src[p]] = Seen(p)
  BY ObservationShows
<1>2. \A p \in Piece : Seen(p).origin = Relative(Origin[p], s)
                       /\ Relative(Origin[p], s) \in Side /\ Origin[p] \in Side
  BY RelativeFacts, LineageConstants DEF Seen, GameTypeOK
<1>w. WellFormed(obs)
  OBVIOUS
<1> HIDE DEF obs
<1>3. \A t \in DOMAIN obs : obs[t].origin \in Side
  <2> TAKE t \in DOMAIN obs
  <2>1. PICK p \in Piece : t = src[p]
    BY <1>1
  <2>2. obs[t] = Seen(p)
    BY <1>1, <2>1
  <2> QED BY <1>2, <2>2
<1>4. DOMAIN obs \subseteq Nat
  BY <1>1, Places DEF Source
<1>5. /\ \A t \in DOMAIN obs : PieceNumber(obs, t) \in Piece
                               /\ Origin[PieceNumber(obs, t)] = obs[t].origin
      /\ \A t, u \in DOMAIN obs : PieceNumber(obs, t) = PieceNumber(obs, u) => t = u
  BY <1>w, <1>1, <1>3, <1>4, NumbersAreNames
<1>6. \A p, q \in Piece : src[p] = src[q] => p = q
  BY <1>1, PublicSquareFacts DEF GameTypeOK
<1>7. f = [p \in Piece |-> PieceNumber(obs, src[p])]
  BY DEF Numbers
<1> HIDE DEF src, f
<1>8. f \in [Piece -> Piece] /\ \A p, q \in Piece : f[p] = f[q] => p = q
  <2>1. \A p \in Piece : src[p] \in DOMAIN obs /\ f[p] = PieceNumber(obs, src[p])
    BY <1>1, <1>7
  <2>2. \A p \in Piece : f[p] \in Piece
    <3> TAKE p \in Piece
    <3>1. PICK t \in DOMAIN obs : t = src[p]
      BY <2>1
    <3>2. PieceNumber(obs, t) \in Piece
      BY <1>5
    <3>3. f[p] = PieceNumber(obs, t)
      BY <2>1, <3>1
    <3> QED BY <3>2, <3>3
  <2>3. f \in [Piece -> Piece]
    BY <1>7, <2>2
  <2>4. ASSUME NEW p \in Piece, NEW q \in Piece, f[p] = f[q]
        PROVE  p = q
    <3>1. src[p] = src[q]
      BY <1>5, <2>1, <2>4
    <3> QED BY <1>6, <3>1
  <2> QED BY <2>3, <2>4
<1>9. ASSUME NEW p \in Piece PROVE Origin[f[p]] = Relative(Origin[p], s)
  <2>1. src[p] \in DOMAIN obs /\ f[p] = PieceNumber(obs, src[p]) /\ obs[src[p]] = Seen(p)
    BY <1>1, <1>7
  <2>2. Origin[f[p]] = Seen(p).origin
    BY <1>5, <2>1
  <2> QED BY <1>2, <2>2
<1>10. \A q \in Piece : \E p \in Piece : f[p] = q
  <2>1. f \in Injection(Piece, Piece)
    BY <1>8 DEF Injection, IsInjective
  <2>2. f \in Surjection(Piece, Piece)
    BY <2>1, FS_Injection, GameConstants
  <2> QED BY <2>2 DEF Surjection
<1>11. f \in Renaming(s)
  BY <1>8, <1>9, <1>10 DEF Renaming
<1>12. ASSUME NEW p \in Piece
       PROVE  SourceOf(obs)[f[p]] = src[p]
  <2>1. f[p] \in Piece /\ f[p] = PieceNumber(obs, src[p]) /\ src[p] \in DOMAIN obs
    BY <1>1, <1>7, <1>8
  <2>2. \A t \in DOMAIN obs : PieceNumber(obs, t) = f[p] <=> t = src[p]
    BY <1>5, <2>1
  <2>3. (CHOOSE t \in DOMAIN obs : PieceNumber(obs, t) = f[p]) = src[p]
    BY <2>1, <2>2
  <2> QED BY <2>1, <2>3 DEF SourceOf
<1> QED BY <1>11, <1>12 DEF obs, src, f

LEMMA GameStateIs ==
  ASSUME GameTypeOK
  PROVE  IsState(GameState)
BY DEF GameTypeOK, IsState, GameState

(* What state_from_observation builds is the game under other numbers. *)
LEMMA RebuildMirrors ==
  ASSUME ProtocolConstants, GameInv, terminal = "None", winner = "None", Rebuild(Observation)
  PROVE  \E f : ExactTwin(f, sideToMove, GameState, CopyState')
<1> DEFINE obs == Observation
           s == sideToMove
           f == Numbers(obs)
           source == SourceOf(obs)
           shown == [q \in Piece |-> obs[source[q]].mask]
<1>0. /\ GameTypeOK /\ BoardConsistent /\ Settled(mask) /\ WellFormed(obs)
      /\ s \in Side /\ turn \in Nat /\ turn < TurnLimit /\ mask \in Mask /\ TurnLimit \in Nat
  BY GameConstants DEF GameInv, GameTypeOK, OpenGame, MasksSettled, Rebuild
<1>1. /\ f \in Renaming(s)
      /\ \A p \in Piece : source[f[p]] = PublicSquare(pos[p], s)
  BY <1>0, NumbersRename
<1>2. /\ DOMAIN obs = {PublicSquare(pos[p], s) : p \in Piece}
      /\ \A p, q \in Piece : pos[p] = pos[q] => p = q
      /\ \A p \in Piece : /\ pos[p] \in Square \cup HandSlot
                          /\ PublicSquare(pos[p], s) \in DOMAIN obs
                          /\ obs[PublicSquare(pos[p], s)] = Seen(p)
  BY <1>0, ObservationShows
<1>3. /\ copyPos' = source
      /\ copyBoard' = [x \in Square |-> IF x \in DOMAIN obs THEN PieceNumber(obs, x) ELSE Empty]
      /\ copyOwner' = [q \in Piece |-> obs[source[q]].owner]
      /\ copyMask' \in Propagate(shown)
      /\ copySide' = "South" /\ copyTurn' = turn
      /\ copyTerminal' = "None" /\ copyWinner' = "None"
  BY <1>0 DEF Rebuild, RebuiltTurn
<1>4. \A p \in Piece : f[p] = PieceNumber(obs, PublicSquare(pos[p], s))
  BY DEF Numbers
<1>5. source = [q \in Piece |-> source[q]]
  BY DEF SourceOf
<1> HIDE DEF obs, f, source
<1>6. ASSUME NEW p \in Piece
      PROVE  /\ f[p] \in Piece
             /\ copyPos'[f[p]] = PublicSquare(pos[p], s)
             /\ obs[source[f[p]]] = Seen(p)
             /\ copyOwner'[f[p]] = Relative(owner[p], s) /\ owner[p] \in Side
             /\ shown[f[p]] = mask[p]
  <2>1. f[p] \in Piece
    BY <1>1 DEF Renaming
  <2>2. source[f[p]] = PublicSquare(pos[p], s) /\ obs[source[f[p]]] = Seen(p)
    BY <1>1, <1>2
  <2>3. Seen(p).owner = Relative(owner[p], s) /\ Seen(p).mask = mask[p] /\ owner[p] \in Side
    BY <1>0 DEF Seen, GameTypeOK
  <2> QED BY <1>3, <2>1, <2>2, <2>3
<1>7. \A q \in Piece : \E p \in Piece : f[p] = q
  BY <1>1 DEF Renaming
<1>8. shown \in Mask /\ Renamed(f, mask, shown)
  <2>1. ASSUME NEW q \in Piece PROVE obs[source[q]].mask \in SUBSET Form
    <3>1. PICK p \in Piece : f[p] = q
      BY <1>7
    <3>2. shown[f[p]] = mask[p] /\ mask[p] \in SUBSET Form
      BY <1>0, <1>6 DEF Mask
    <3> QED BY <3>1, <3>2
  <2> QED BY <1>6, <2>1 DEF Mask, Renamed
<1>9. copyMask' \in Mask /\ Renamed(f, mask, copyMask')
  <2>1. copyMask' = Pass(shown)
    BY <1>3 DEF Propagate
  <2>2. Pass(mask) = mask
    BY <1>0 DEF Settled
  <2> HIDE DEF shown
  <2>3. Renamed(f, Pass(mask), Pass(shown))
    BY <1>0, <1>1, <1>8, PropagateRenamed
  <2>4. Pass(shown) \in Mask
    BY <1>8, PassShrinks
  <2> QED BY <2>1, <2>2, <2>3, <2>4
<1>10. ASSUME NEW y \in Square
       PROVE  copyBoard'[PublicSquare(y, s)] = IF board[y] = Empty THEN Empty ELSE f[board[y]]
  <2>1. PublicSquare(y, s) \in Square
    BY <1>0, PublicSquareFacts
  <2>2. CASE board[y] = Empty
    <3>1. \A p \in Piece : pos[p] # y
      BY <1>0, <2>2, GameConstants DEF BoardConsistent, OnBoard
    <3>2. ASSUME NEW p \in Piece PROVE PublicSquare(pos[p], s) # PublicSquare(y, s)
      <4>1. PICK x \in Square \cup HandSlot : x = pos[p] /\ x # y
        BY <1>2, <3>1
      <4>2. PublicSquare(x, s) = PublicSquare(y, s) <=> x = y
        BY <1>0, PublicSquareFacts
      <4> QED BY <4>1, <4>2
    <3>3. PublicSquare(y, s) \notin DOMAIN obs
      BY <1>2, <3>2
    <3> QED BY <1>3, <2>1, <2>2, <3>3
  <2>3. CASE board[y] # Empty
    <3>1. PICK p \in Piece : p = board[y] /\ pos[p] = y
      BY <1>0, <2>3 DEF BoardConsistent, GameTypeOK
    <3>2. PublicSquare(y, s) \in DOMAIN obs /\ f[p] = PieceNumber(obs, PublicSquare(y, s))
      BY <1>2, <1>4, <3>1
    <3> QED BY <1>3, <2>1, <2>3, <3>1, <3>2
  <2> QED BY <2>2, <2>3
<1>11. PICK C : C = CopyState'
  OBVIOUS
<1>12. /\ C.board = copyBoard' /\ C.pos = copyPos' /\ C.mask = copyMask' /\ C.owner = copyOwner'
       /\ C.side = copySide' /\ C.turn = copyTurn'
       /\ C.terminal = copyTerminal' /\ C.winner = copyWinner'
  BY <1>11 DEF CopyState
<1>13. PICK R : R = GameState
  OBVIOUS
<1>14. /\ R.board = board /\ R.pos = pos /\ R.mask = mask /\ R.owner = owner
       /\ R.side = sideToMove /\ R.turn = turn /\ R.terminal = terminal /\ R.winner = winner
  BY <1>13 DEF GameState
<1>15. IsState(R)
  BY <1>0, <1>13, GameStateIs
<1>16. IsState(C)
  <2>1. copyPos' \in [Piece -> Square \cup HandSlot]
    <3>1. ASSUME NEW q \in Piece PROVE source[q] \in Square \cup HandSlot
      <4>1. PICK p \in Piece : f[p] = q
        BY <1>7
      <4>2. source[q] = PublicSquare(pos[p], s) /\ pos[p] \in Square \cup HandSlot
        BY <1>1, <1>2, <4>1
      <4> QED BY <1>0, <4>2, PublicSquareFacts
    <3> QED BY <1>3, <1>5, <3>1
  <2>2. copyBoard' \in [Square -> Piece \cup {Empty}]
    <3>1. ASSUME NEW x \in Square, x \in DOMAIN obs PROVE PieceNumber(obs, x) \in Piece
      <4>1. PICK p \in Piece : x = PublicSquare(pos[p], s)
        BY <1>2, <3>1
      <4> QED BY <1>4, <1>6, <4>1
    <3> QED BY <1>3, <3>1
  <2>3. copyOwner' \in [Piece -> Side]
    <3>1. ASSUME NEW q \in Piece PROVE copyOwner'[q] \in Side
      <4>1. PICK p \in Piece : f[p] = q
        BY <1>7
      <4>2. copyOwner'[q] = Relative(owner[p], s) /\ owner[p] \in Side
        BY <1>6, <4>1
      <4> QED BY <1>0, <4>2, RelativeFacts
    <3> QED BY <1>3, <3>1
  <2> QED BY <1>0, <1>3, <1>9, <1>12, <2>1, <2>2, <2>3 DEF IsState, Side
<1>17. SamePlaces(f, s, R, C)
  <2>1. \A p \in Piece :
          IF R.pos[p] \in Square THEN C.pos[f[p]] = PublicSquare(R.pos[p], s)
          ELSE C.pos[f[p]] \in HandSlot
    <3> TAKE p \in Piece
    <3>1. C.pos[f[p]] = PublicSquare(R.pos[p], s) /\ R.pos[p] \in Square \cup HandSlot
      BY <1>2, <1>6, <1>12, <1>14
    <3> QED BY <1>0, <3>1, PublicSquareFacts
  <2> QED BY <1>10, <1>12, <1>14, <2>1 DEF SamePlaces
<1>18. SamePieces(f, s, R, C)
  BY <1>6, <1>9, <1>12, <1>14 DEF SamePieces
<1>19. SameClock(s, R, C)
  BY <1>0, <1>3, <1>12, <1>14 DEF SameClock, Relative
<1>20. \A p \in Piece : C.pos[f[p]] = PublicSquare(R.pos[p], s)
  BY <1>6, <1>12, <1>14
<1>21. ExactTwin(f, s, R, C)
  BY <1>1, <1>15, <1>16, <1>17, <1>18, <1>19, <1>20 DEF ExactTwin, Twin
<1> QED BY <1>11, <1>13, <1>21

-----------------------------------------------------------------------------
(* The engine's copy of the game. *)

(* The answer names a move of the State R whose result C is a twin of. *)
Answered(R, C, s, action) ==
  \E f \in Renaming(s), p \in Piece, to \in Square : \E m \in At(R)!MasksAfter(p, to) :
    /\ action = EncodeAction(PublicSquare(R.pos[p], s), PublicSquare(to, s))
    /\ ExactTwin(f, s, After(R, p, to, m), C)

(* Between messages the copy is a twin of the game; once the engine has    *)
(* answered it is a twin of the game as the answer will leave it.          *)
CopyInv ==
  /\ GameInv
  /\ terminal = "None" => winner = "None"
  /\ seat \in Side
  /\ phase \in {"request", "search", "apply"}
  /\ phase # "request" => seat = sideToMove
  /\ phase = "search" => allowed = LegalActions
  /\ phase # "apply" => \E f : ExactTwin(f, seat, GameState, CopyState)
  /\ phase = "apply" => Answered(GameState, CopyState, seat, answer)

LEMMA TwinOfItself ==
  ASSUME NEW S, IsState(S), S.winner \in Side \cup {"None"}
  PROVE  \E f : ExactTwin(f, "South", S, S)
<1> DEFINE f == [p \in Piece |-> p]
<1>1. \A a \in Side : Relative(a, "South") = a
  BY RelativeFacts DEF Side
<1>2. f \in Renaming("South")
  BY <1>1, LineageConstants DEF Renaming
<1>3. \A x \in Square \cup HandSlot : PublicSquare(x, "South") = x
  BY DEF PublicSquare
<1>4. \A p \in Piece : f[p] = p
  OBVIOUS
<1>5. Empty \notin Piece
  BY GameConstants
<1> HIDE DEF f
<1>6. SamePlaces(f, "South", S, S)
  BY <1>3, <1>4, <1>5, Places DEF SamePlaces, IsState
<1>7. SamePieces(f, "South", S, S)
  BY <1>1, <1>4 DEF SamePieces, Renamed, IsState
<1>8. SameClock("South", S, S)
  BY <1>1 DEF SameClock, IsState
<1>9. \A p \in Piece : S.pos[f[p]] = PublicSquare(S.pos[p], "South")
  BY <1>3, <1>4 DEF IsState
<1> QED BY <1>2, <1>6, <1>7, <1>8, <1>9 DEF ExactTwin, Twin

LEMMA OpenHasNoWinner ==
  ASSUME NEW p, NEW to, ApplyMove(p, to), terminal' = "None"
  PROVE  winner' = "None"
<1>1. terminal' = Verdict'[1] /\ winner' = Verdict'[2]
  BY DEF ApplyMove
<1>2. Verdict' \in {<<"Try", sideToMove'>>, <<"Catch", Opposite(sideToMove')>>,
                   <<"Draw", "None">>, <<"None", "None">>}
  BY DEF Verdict
<1> QED BY <1>1, <1>2

LEMMA InitCopyInv ==
  ASSUME ProtocolInit
  PROVE  CopyInv
<1>1. GameInv /\ winner = "None" /\ phase = "request" /\ seat = "South"
  BY InitGameInv DEF ProtocolInit, GameInit
<1>2. CopyState = GameState
  <2>1. /\ copyPos = pos /\ copyBoard = board /\ copyMask = mask /\ copyOwner = owner
        /\ copySide = sideToMove /\ copyTurn = turn
        /\ copyTerminal = terminal /\ copyWinner = winner
    BY EnginePlaces, Zenon
    DEF ProtocolInit, GameInit, Engine!GameInit, Animal, Engine!Animal
  <2> QED BY <2>1 DEF CopyState, GameState
<1>3. \E f : ExactTwin(f, "South", GameState, GameState)
  <2>1. IsState(GameState) /\ GameState.winner = "None"
    BY <1>1, GameStateIs DEF GameInv, GameState
  <2> QED BY <2>1, TwinOfItself
<1> QED BY <1>1, <1>2, <1>3 DEF CopyInv, Side

LEMMA SameLegalActions ==
  ASSUME UNCHANGED gameVars
  PROVE  LegalActions' = LegalActions
  BY DEF gameVars, LegalActions, PublicAction, Legal, Admissible, MasksAfter,
      MovePreconditionsHold, OriginEffectsPossible, Captures, FreeSlots, UsedSlots, InHand, Owns,
      CollapsedMask, OnBoard, Promoted, Resolved, OpponentKeepsLion, LionsRefuted, OwnerAfter,
      PosAfter, LowestFreeSlot

LEMMA RequestKeepsCopyInv ==
  ASSUME ProtocolConstants, CopyInv, Request
  PROVE  CopyInv'
<1>1. /\ GameInv /\ terminal = "None" /\ winner = "None" /\ Rebuild(Observation)
      /\ seat' = sideToMove /\ phase' = "search" /\ allowed' = LegalActions
      /\ UNCHANGED gameVars
  BY DEF CopyInv, Request
<1>2. GameInv'
  BY <1>1, StutterKeepsGameInv
<1>3. PICK f : ExactTwin(f, sideToMove, GameState, CopyState')
  BY <1>1, RebuildMirrors
<1>4. GameState' = GameState /\ sideToMove' = sideToMove /\ winner' = winner
  BY <1>1 DEF gameVars, GameState
<1>5. LegalActions' = LegalActions
  BY <1>1, SameLegalActions
<1>6. sideToMove \in Side
  BY <1>1 DEF GameInv, GameTypeOK
<1> QED BY <1>1, <1>2, <1>3, <1>4, <1>5, <1>6 DEF CopyInv

LEMMA SearchKeepsCopyInv ==
  ASSUME CopyInv, Search
  PROVE  CopyInv'
<1> DEFINE s == sideToMove
<1>1. /\ GameInv /\ s \in Side /\ seat = s /\ allowed = LegalActions
      /\ terminal = "None" => winner = "None"
      /\ \E f : ExactTwin(f, s, GameState, CopyState)
      /\ UNCHANGED <<gameVars, seat, allowed>> /\ phase' = "apply"
  BY DEF CopyInv, Search, GameInv, GameTypeOK
<1>2. PICK f : ExactTwin(f, s, GameState, CopyState)
  BY <1>1
<1>3. PICK q \in Piece, t \in Square :
        Engine!ApplyMove(q, t) /\ answer' \in Chosen(EncodeAction(copyPos[q], t))
  BY DEF Search
<1>4. f \in Renaming(s)
  BY <1>2 DEF ExactTwin, Twin
<1>5. PICK p \in Piece, to \in Square : f[p] = q /\ PublicSquare(to, s) = t
  BY <1>1, <1>4, PublicSquareFacts DEF Renaming
<1>6. PICK n \in At(CopyState)!MasksAfter(q, t) : CopyState' = After(CopyState, q, t, n)
  BY <1>3, CopyMoves
<1>7. Engine!Legal(q, t)
  <2>1. Engine!Admissible(q, t)
    BY <1>3 DEF Engine!ApplyMove
  <2>2. At(CopyState)!MasksAfter(q, t) = Engine!MasksAfter(q, t)
    BY AtCopy
  <2> QED BY <1>6, <2>1, <2>2 DEF Engine!Legal
<1>8. Legal(p, to) /\ EncodeAction(copyPos[q], t) = PublicAction(<<p, to>>)
  BY <1>1, <1>2, <1>5, <1>7, LegalTwin
<1>9. answer' = PublicAction(<<p, to>>)
  <2>1. <<p, to>> \in {k \in Piece \X Square : Legal(k[1], k[2])}
    BY <1>8
  <2>2. PublicAction(<<p, to>>) \in allowed
    BY <1>1, <2>1 DEF LegalActions
  <2> QED BY <1>3, <1>8, <2>2 DEF Chosen
<1>10. PICK m : m \in At(GameState)!MasksAfter(p, to)
  BY <1>8, AtGame DEF Legal
<1>11. ExactTwin(f, s, After(GameState, p, to, m), CopyState')
  BY <1>1, <1>2, <1>5, <1>6, <1>10, TwinMoves
<1>12. answer' = EncodeAction(PublicSquare(GameState.pos[p], s), PublicSquare(to, s))
  BY <1>9 DEF PublicAction, GameState
<1>13. Answered(GameState, CopyState', s, answer')
  BY <1>4, <1>10, <1>11, <1>12 DEF Answered
<1>14. GameInv' /\ GameState' = GameState /\ seat' = s /\ sideToMove' = s
       /\ terminal' = terminal /\ winner' = winner
  BY <1>1, StutterKeepsGameInv DEF gameVars, GameState
<1> QED BY <1>1, <1>13, <1>14 DEF CopyInv

LEMMA ApplyKeepsCopyInv ==
  ASSUME CopyInv, Apply
  PROVE  CopyInv'
<1> DEFINE s == sideToMove
<1>1. /\ GameInv /\ s \in Side /\ seat = s /\ Answered(GameState, CopyState, s, answer)
      /\ UNCHANGED <<copyVars, seat, allowed, answer>> /\ phase' = "request"
  BY DEF CopyInv, Apply, GameInv, GameTypeOK
<1>2. PICK p \in Piece, to \in Square : <<p, to>> \in ActualMove(answer) /\ ApplyMove(p, to)
  BY DEF Apply, ActualMove
<1>3. PICK f \in Renaming(s), q \in Piece, t \in Square :
        \E m \in At(GameState)!MasksAfter(q, t) :
          /\ answer = EncodeAction(PublicSquare(GameState.pos[q], s), PublicSquare(t, s))
          /\ ExactTwin(f, s, After(GameState, q, t, m), CopyState)
  BY <1>1 DEF Answered
<1>4. PICK m \in At(GameState)!MasksAfter(q, t) :
        /\ answer = EncodeAction(PublicSquare(pos[q], s), PublicSquare(t, s))
        /\ ExactTwin(f, s, After(GameState, q, t, m), CopyState)
  BY <1>3 DEF GameState
<1>5. q = p /\ t = to
  <2>1. /\ \A a, b \in Piece : pos[a] = pos[b] => a = b
        /\ \A a \in Piece : pos[a] \in Square \cup HandSlot
    BY <1>1, ObservationShows DEF GameInv
  <2>2. PublicSquare(pos[q], s) \in Source /\ PublicSquare(t, s) \in Square
    BY <1>1, <2>1, PublicSquareFacts DEF Source
  <2>3. /\ ActionSource(answer) = PublicSquare(pos[q], s)
        /\ ActionDestination(answer) = PublicSquare(t, s)
    BY <1>4, <2>2, ActionsDecode
  <2>4. /\ pos[p] = PublicSquare(PublicSquare(pos[q], s), s)
        /\ to = PublicSquare(PublicSquare(t, s), s)
    BY <1>2, <2>3 DEF ActualMove
  <2>5. pos[p] = pos[q] /\ to = t
    BY <1>1, <2>1, <2>4, PublicSquareFacts
  <2> QED BY <2>1, <2>5
<1>6. PICK n \in At(GameState)!MasksAfter(p, to) : GameState' = After(GameState, p, to, n)
  BY <1>2, GameMoves
<1>7. n = m
  BY <1>5, <1>6, OneMask
<1>8. ExactTwin(f, s, GameState', CopyState)
  BY <1>4, <1>5, <1>6, <1>7
<1>9. CopyState' = CopyState /\ seat' = s
  BY <1>1 DEF copyVars, CopyState
<1>10. GameInv'
  BY <1>1, <1>2, MoveKeepsGameInv
<1>11. terminal' = "None" => winner' = "None"
  BY <1>2, OpenHasNoWinner
<1> QED BY <1>1, <1>8, <1>9, <1>10, <1>11 DEF CopyInv

LEMMA StutterKeepsCopyInv ==
  ASSUME CopyInv, UNCHANGED protocolVars
  PROVE  CopyInv'
<1>1. /\ UNCHANGED gameVars /\ GameState' = GameState /\ CopyState' = CopyState
      /\ seat' = seat /\ phase' = phase /\ allowed' = allowed /\ answer' = answer
      /\ sideToMove' = sideToMove /\ terminal' = terminal /\ winner' = winner
  BY DEF protocolVars, gameVars, copyVars, GameState, CopyState
<1>2. GameInv'
  BY <1>1, StutterKeepsGameInv DEF CopyInv
<1>3. LegalActions' = LegalActions
  BY <1>1, SameLegalActions
<1> QED BY <1>1, <1>2, <1>3 DEF CopyInv

LEMMA CopyInvMirrors ==
  ASSUME CopyInv
  PROVE  EngineSeesTheGame
<1>1. ASSUME phase # "apply" PROVE Mirrors
  <2>1. PICK f : ExactTwin(f, seat, GameState, CopyState)
    BY <1>1 DEF CopyInv
  <2>2. ASSUME NEW p \in Piece
        PROVE  /\ f[p] \in Piece
               /\ copyPos[f[p]] = PublicSquare(pos[p], seat)
               /\ copyMask[f[p]] = mask[p]
               /\ copyOwner[f[p]] = Relative(owner[p], seat)
               /\ Origin[f[p]] = Relative(Origin[p], seat)
    BY <2>1 DEF ExactTwin, Twin, SamePieces, Renamed, Renaming, GameState, CopyState
  <2>3. /\ copySide = Relative(sideToMove, seat)
        /\ copyTurn = turn
        /\ copyTerminal = terminal
        /\ copyWinner = (IF winner = "None" THEN "None" ELSE Relative(winner, seat))
    BY <2>1 DEF ExactTwin, Twin, SameClock, GameState, CopyState
  <2> QED BY <2>2, <2>3 DEF Mirrors
<1>2. ASSUME phase = "search" PROVE CopyActions = allowed
  <2>1. /\ seat = sideToMove /\ seat \in Side /\ allowed = LegalActions
        /\ \E f : ExactTwin(f, seat, GameState, CopyState)
    BY <1>2 DEF CopyInv
  <2> QED BY <2>1, TwinActions
<1> QED BY <1>1, <1>2 DEF EngineSeesTheGame, CopyMirrorsGame, SameActions

(* Rebuilding (read_incoming_state, rebuild_state), answering and applying *)
(* keep the engine's copy a renaming of the game, a move ahead at most.    *)
THEOREM CopyInvariant == ProtocolSpec => []CopyInv
<1>1. ProtocolInit => CopyInv
  BY InitCopyInv
<1>2. CopyInv /\ [ProtocolNext]_protocolVars => CopyInv'
  <2> SUFFICES ASSUME CopyInv, [ProtocolNext]_protocolVars
               PROVE  CopyInv'
    OBVIOUS
  <2>1. CASE Request
    BY <2>1, RequestKeepsCopyInv, ProtocolConstants
  <2>2. CASE Search
    BY <2>2, SearchKeepsCopyInv
  <2>3. CASE Apply
    BY <2>3, ApplyKeepsCopyInv
  <2>4. CASE UNCHANGED protocolVars
    BY <2>4, StutterKeepsCopyInv
  <2> QED BY <2>1, <2>2, <2>3, <2>4 DEF ProtocolNext, MatchOver
<1> QED BY <1>1, <1>2, PTL DEF ProtocolSpec

(* Whatever is played, the engine searches the game the referee plays and  *)
(* both list the same actions.                                             *)
THEOREM EngineAlwaysSeesTheGame == ProtocolSpec => []EngineSeesTheGame
<1>1. CopyInv => EngineSeesTheGame
  BY CopyInvMirrors
<1> QED BY <1>1, CopyInvariant, PTL

(* The referee's game keeps the rules, whatever the engine answers.        *)
THEOREM RefereeKeepsTheRules == ProtocolSpec => GameSpec
<1>1. ProtocolInit => GameInit
  BY DEF ProtocolInit
<1>2. [ProtocolNext]_protocolVars => [GameNext]_gameVars
  <2> SUFFICES ASSUME [ProtocolNext]_protocolVars PROVE [GameNext]_gameVars
    OBVIOUS
  <2>1. CASE Apply
    BY <2>1 DEF Apply, ActualMove, GameNext
  <2> QED BY <2>1 DEF ProtocolNext, MatchOver, Request, Search, protocolVars
<1> QED BY <1>1, <1>2, PTL DEF ProtocolSpec, GameSpec

-----------------------------------------------------------------------------
(* Keys. *)

Counted(a) == [t \in {a[p] : p \in DOMAIN a} |-> Cardinality({p \in DOMAIN a : a[p] = t})]

Tuple(S, p) ==
  <<IF S.pos[p] \in HandSlot THEN BoardSize ELSE S.pos[p], <<S.owner[p], S.mask[p]>>>>

Face(S, p) == <<Origin[p], <<S.owner[p], S.mask[p]>>>>

KeyOf(S) ==
  [board |-> [x \in Square |-> IF S.board[x] = Empty THEN {} ELSE {Face(S, S.board[x])}],
   pieces |-> [side \in Side |-> Counted([p \in Group(side) |-> Tuple(S, p)])],
   sideToMove |-> S.side, turn |-> S.turn, terminal |-> S.terminal, winner |-> S.winner]

LEMMA AtKey ==
  ASSUME NEW S
  PROVE  At(S)!CanonKey = KeyOf(S)
<1>1. /\ At(S)!HandSlot = HandSlot /\ At(S)!Square = Square /\ At(S)!BoardSize = BoardSize
      /\ At(S)!Side = Side
  BY AtPlaces, Zenon DEF Side, At!Side
<1>2. \A side : At(S)!Group(side) = Group(side)
  BY Zenon DEF At!Group, Group
<1>3. \A p : At(S)!PieceTuple(p) = Tuple(S, p)
  BY <1>1, Zenon
  DEF At!PieceTuple, At!CanonicalPosition, At!InHand, At!Look, Tuple
<1>4. At(S)!CanonicalBoard =
        [x \in Square |-> IF S.board[x] = Empty THEN {} ELSE {Face(S, S.board[x])}]
  BY <1>1, Zenon DEF At!CanonicalBoard, At!Look, Face
<1>5. ASSUME NEW side PROVE At(S)!PiecesOf(side) = Counted([p \in Group(side) |-> Tuple(S, p)])
  <2> DEFINE a == [p \in Group(side) |-> Tuple(S, p)]
  <2>1. [p \in At(S)!Group(side) |-> At(S)!PieceTuple(p)] = a
    BY <1>2, <1>3
  <2>2. DOMAIN a = Group(side)
    OBVIOUS
  <2>3. At(S)!PiecesOf(side) =
          [t \in {a[p] : p \in Group(side)} |-> At(S)!Cardinality({p \in Group(side) : a[p] = t})]
    BY <1>2, <2>1, Zenon DEF At!PiecesOf
  <2> HIDE DEF a
  <2>4. \A t : At(S)!Cardinality({p \in Group(side) : a[p] = t})
                = Cardinality({p \in DOMAIN a : a[p] = t})
    BY <2>2, AtCardinality, Zenon
  <2>5. {a[p] : p \in Group(side)} = {a[p] : p \in DOMAIN a}
    BY <2>2
  <2>6. At(S)!PiecesOf(side) = Counted(a)
    BY <2>3, <2>4, <2>5, Zenon DEF Counted
  <2> QED BY <2>6 DEF a
<1>6. At(S)!CanonKey =
  [board |-> At(S)!CanonicalBoard, pieces |-> [side \in At(S)!Side |-> At(S)!PiecesOf(side)],
   sideToMove |-> S.side, turn |-> S.turn, terminal |-> S.terminal, winner |-> S.winner]
  BY DEF At!CanonKey
<1>7. [side \in At(S)!Side |-> At(S)!PiecesOf(side)] =
        [side \in Side |-> Counted([p \in Group(side) |-> Tuple(S, p)])]
  BY <1>1, <1>5, Zenon
<1> QED BY <1>4, <1>6, <1>7 DEF KeyOf

RedState ==
  [board |-> redBoard, pos |-> redPos, mask |-> redMask, owner |-> redOwner,
   side |-> redSide, turn |-> redTurn, terminal |-> redTerminal, winner |-> redWinner]

LEMMA InAt ==
  ASSUME NEW S, NEW result
  PROVE  /\ In(S.board, S.pos, S.mask, S.owner, result)!CanonicalBoard = At(S)!CanonicalBoard
         /\ In(S.board, S.pos, S.mask, S.owner, result)!Side = At(S)!Side
         /\ \A side : In(S.board, S.pos, S.mask, S.owner, result)!PiecesOf(side)
                       = At(S)!PiecesOf(side)
<1>1. In(S.board, S.pos, S.mask, S.owner, result)!CanonicalBoard = At(S)!CanonicalBoard
  BY Zenon DEF In!CanonicalBoard, At!CanonicalBoard, In!Look, At!Look, In!Square, At!Square,
    In!BoardSize, At!BoardSize
<1>2. \A side : In(S.board, S.pos, S.mask, S.owner, result)!PiecesOf(side)
                = At(S)!PiecesOf(side)
  BY Zenon DEF In!PiecesOf, At!PiecesOf, In!PieceTuple, At!PieceTuple, In!Look, At!Look,
    In!CanonicalPosition, At!CanonicalPosition, In!InHand, At!InHand, In!HandSlot, At!HandSlot,
    In!BoardSize, At!BoardSize, In!Group, At!Group, In!Cardinality, At!Cardinality
<1>3. In(S.board, S.pos, S.mask, S.owner, result)!Side = At(S)!Side
  BY Zenon DEF In!Side, At!Side
<1> QED BY <1>1, <1>2, <1>3

LEMMA InKey ==
  ASSUME NEW S, NEW result, S.side = Opposite(sideToMove), S.turn = turn + 1,
         S.terminal = result[1], S.winner = result[2]
  PROVE  In(S.board, S.pos, S.mask, S.owner, result)!CanonKey = KeyOf(S)
<1>1. At(S)!CanonKey =
        [board |-> At(S)!CanonicalBoard,
         pieces |-> [side \in At(S)!Side |-> At(S)!PiecesOf(side)],
         sideToMove |-> S.side, turn |-> S.turn, terminal |-> S.terminal, winner |-> S.winner]
  BY DEF At!CanonKey
<1>2. In(S.board, S.pos, S.mask, S.owner, result)!CanonKey =
        [board |-> In(S.board, S.pos, S.mask, S.owner, result)!CanonicalBoard,
         pieces |-> [side \in In(S.board, S.pos, S.mask, S.owner, result)!Side |->
                      In(S.board, S.pos, S.mask, S.owner, result)!PiecesOf(side)],
         sideToMove |-> S.side, turn |-> S.turn, terminal |-> S.terminal, winner |-> S.winner]
  BY DEF In!CanonKey
<1>3. [side \in In(S.board, S.pos, S.mask, S.owner, result)!Side |->
        In(S.board, S.pos, S.mask, S.owner, result)!PiecesOf(side)]
        = [side \in At(S)!Side |-> At(S)!PiecesOf(side)]
  BY InAt, Zenon
<1> QED BY <1>1, <1>2, <1>3, InAt, AtKey

LEMMA InVerdict ==
  ASSUME NEW S, NEW result, S.side = Opposite(sideToMove), S.turn = turn + 1
  PROVE  In(S.board, S.pos, S.mask, S.owner, result)!Verdict = At(S)!Verdict
<1>1. In(S.board, S.pos, S.mask, S.owner, result)!HandSlot = HandSlot
  BY Zenon DEF In!HandSlot, HandSlot, In!BoardSize, BoardSize, In!Cardinality, Cardinality
<1>2. In(S.board, S.pos, S.mask, S.owner, result)!Square = Square
  BY Zenon DEF In!Square, Square, In!BoardSize, BoardSize
<1>3. /\ \A x, side : In(S.board, S.pos, S.mask, S.owner, result)!IsBackRank(x, side)
                       <=> IsBackRank(x, side)
      /\ \A side : In(S.board, S.pos, S.mask, S.owner, result)!Opposite(side) = Opposite(side)
  BY Zenon DEF In!IsBackRank, IsBackRank, In!RowOf, RowOf, In!Opposite, Opposite
<1> QED BY <1>1, <1>2, <1>3, AtVerdict
  DEF In!Verdict, In!HasTryCandidate, In!HasHandLion, In!Owns, In!OnBoard, In!InHand

LEMMA KeyAfterIs ==
  ASSUME NEW p, NEW to, NEW m
  PROVE  KeyAfter(<<p, to>>, m) = KeyOf(After(GameState, p, to, m))
<1> DEFINE N == Moved(GameState, p, to, m)
           result == At(N)!Verdict
           A == After(GameState, p, to, m)
<1>1. /\ N.board = BoardAfter(p, to) /\ N.pos = PosAfter(p, to) /\ N.mask = m
      /\ N.owner = OwnerAfter(p, to) /\ N.side = Opposite(sideToMove) /\ N.turn = turn + 1
  BY AtGame DEF Moved, GameState
<1>2. A = WithResult(N, result)
  BY DEF After
<1> HIDE DEF N
<1>3. /\ A.board = N.board /\ A.pos = N.pos /\ A.mask = N.mask /\ A.owner = N.owner
      /\ A.side = N.side /\ A.turn = N.turn /\ A.terminal = result[1] /\ A.winner = result[2]
  BY <1>2 DEF WithResult
<1> HIDE DEF A
<1>4. In(BoardAfter(p, to), PosAfter(p, to), m, OwnerAfter(p, to), <<"None", "None">>)!Verdict
        = result
  BY <1>1, InVerdict
<1> HIDE DEF result
<1>5. In(BoardAfter(p, to), PosAfter(p, to), m, OwnerAfter(p, to), result)!CanonKey = KeyOf(A)
  BY <1>1, <1>3, InKey
<1>6. KeyAfter(<<p, to>>, m) =
        In(BoardAfter(p, to), PosAfter(p, to), m, OwnerAfter(p, to), result)!CanonKey
  BY <1>4 DEF KeyAfter
<1> QED BY <1>5, <1>6 DEF A

LEMMA RedPlaces ==
  /\ Red!HandSlot = HandSlot /\ Red!Square = Square /\ Red!MoveForms = MoveForms
  /\ \A x, side : Red!IsBackRank(x, side) <=> IsBackRank(x, side)
  /\ \A side : Red!Opposite(side) = Opposite(side)
  /\ \A forms : Red!Demoted(forms) = Demoted(forms)
<1>1. Red!Square = Square
  BY Zenon DEF Red!Square, Square, Red!BoardSize, BoardSize
<1>2. Red!HandSlot = HandSlot
  BY Zenon DEF Red!HandSlot, HandSlot, Red!BoardSize, BoardSize, Red!Cardinality,
     Cardinality
<1>3. Red!MoveForms = MoveForms
  BY Zenon DEF MoveForms, Red!MoveForms, RowOf, ColOf, Red!RowOf, Red!ColOf,
     Red!Form, Form, Side, Red!Side, Square, Red!Square, BoardSize, Red!BoardSize,
     Reaches, Red!Reaches
<1>4. /\ \A x, side : Red!IsBackRank(x, side) <=> IsBackRank(x, side)
      /\ \A side : Red!Opposite(side) = Opposite(side)
      /\ \A forms : Red!Demoted(forms) = Demoted(forms)
  BY Zenon DEF IsBackRank, Red!IsBackRank, RowOf, Red!RowOf, Opposite, Red!Opposite,
     Demoted, Red!Demoted
<1> QED BY <1>1, <1>2, <1>3, <1>4

LEMMA AtRed ==
  ASSUME NEW p, NEW to
  PROVE  /\ At(RedState)!Admissible(p, to) <=> Red!Admissible(p, to)
         /\ At(RedState)!BoardAfter(p, to) = Red!BoardAfter(p, to)
         /\ At(RedState)!PosAfter(p, to) = Red!PosAfter(p, to)
         /\ At(RedState)!OwnerAfter(p, to) = Red!OwnerAfter(p, to)
         /\ At(RedState)!MasksAfter(p, to) = Red!MasksAfter(p, to)
<1>0. /\ RedState.board = redBoard /\ RedState.pos = redPos /\ RedState.mask = redMask
      /\ RedState.owner = redOwner /\ RedState.side = redSide
      /\ RedState.turn = redTurn /\ RedState.terminal = redTerminal
  BY DEF RedState
<1>p. /\ Red!HandSlot = HandSlot /\ Red!Square = Square /\ Red!MoveForms = MoveForms
      /\ \A x, side : Red!IsBackRank(x, side) <=> IsBackRank(x, side)
      /\ \A side : Red!Opposite(side) = Opposite(side)
      /\ \A forms : Red!Demoted(forms) = Demoted(forms)
  BY RedPlaces
<1>1. At(RedState)!Admissible(p, to) <=> Red!Admissible(p, to)
  BY <1>0, <1>p, AtAdmissible
  DEF Red!Admissible, Red!MovePreconditionsHold, Red!OriginEffectsPossible,
      Red!Captures, Red!FreeSlots, Red!UsedSlots, Red!InHand, Red!Owns, SlotsLeft
<1>2. At(RedState)!BoardAfter(p, to) = Red!BoardAfter(p, to)
  BY <1>0, <1>p, AtAfter DEF Red!BoardAfter
<1>3. At(RedState)!OwnerAfter(p, to) = Red!OwnerAfter(p, to)
  BY <1>0, AtAfter DEF Red!OwnerAfter
<1>4. At(RedState)!PosAfter(p, to) = Red!PosAfter(p, to)
  <2>1. \A c : Red!LowestFreeSlot(c) = Least(SlotsLeft(redPos, c))
    <3> TAKE c
    <3>1. Red!FreeSlots(c) = SlotsLeft(redPos, c)
      BY <1>p DEF Red!FreeSlots, Red!UsedSlots, Red!InHand, SlotsLeft
    <3> QED BY <3>1, Zenon DEF Red!LowestFreeSlot, Least
  <2> QED BY <1>0, <2>1, AtAfter DEF Red!PosAfter
<1>5. At(RedState)!CollapsedMask(p, to) = Red!CollapsedMask(p, to)
  BY <1>0, <1>p, AtCollapsed DEF Red!CollapsedMask, Red!OnBoard, Red!Promoted
<1>6. \A m : At(RedState)!Resolved(p, to, m) = Red!Resolved(p, to, m)
  BY <1>0, <1>p, <1>3, <1>4, AtResolved
  DEF Red!Resolved, Red!OnBoard, Red!OpponentKeepsLion, Red!LionsRefuted, Refuted
<1>7. \A m : At(RedState)!Propagate(m) = Red!Propagate(m)
  BY Zenon DEF At!Propagate, At!Consistent, At!Pass, At!Worlds, At!Supported,
     At!FormsForLineages, At!LineageOf, At!Assignments, At!Group, At!Animal, At!Form, At!Side,
     Red!Propagate, Red!Consistent, Red!Pass, Red!Worlds, Red!Supported,
     Red!FormsForLineages, Red!LineageOf, Red!Assignments, Red!Group,
     Red!Animal, Red!Form, Red!Side
<1>8. At(RedState)!MasksAfter(p, to) = Red!MasksAfter(p, to)
  BY <1>5, <1>6, <1>7 DEF At!MasksAfter, Red!MasksAfter
<1> QED BY <1>1, <1>2, <1>3, <1>4, <1>8

LEMMA RedMoves ==
  ASSUME NEW p, NEW to, Red!ApplyMove(p, to)
  PROVE  /\ At(RedState)!Admissible(p, to)
         /\ \E m \in At(RedState)!MasksAfter(p, to) :
              RedState' = After(RedState, p, to, m)
<1>1. PICK N : N = RedState'
  OBVIOUS
<1>2. /\ N.board = redBoard' /\ N.pos = redPos' /\ N.mask = redMask' /\ N.owner = redOwner'
      /\ N.side = redSide' /\ N.turn = redTurn'
      /\ N.terminal = redTerminal' /\ N.winner = redWinner'
  BY <1>1 DEF RedState
<1>3. /\ N.board = Red!BoardAfter(p, to) /\ N.pos = Red!PosAfter(p, to)
      /\ N.owner = Red!OwnerAfter(p, to) /\ N.mask \in Red!MasksAfter(p, to)
      /\ N.side = Red!Opposite(redSide) /\ N.turn = redTurn + 1
      /\ N.terminal = Red!Verdict'[1] /\ N.winner = Red!Verdict'[2]
      /\ Red!Admissible(p, to)
  BY <1>2 DEF Red!ApplyMove
<1>p. /\ Red!Square = Square /\ Red!HandSlot = HandSlot
      /\ \A x, side : Red!IsBackRank(x, side) <=> IsBackRank(x, side)
      /\ \A side : Red!Opposite(side) = Opposite(side)
  BY RedPlaces
<1>4. At(N)!Verdict = Red!Verdict'
  BY <1>2, <1>p, AtVerdict
  DEF Red!Verdict, Red!HasTryCandidate, Red!HasHandLion, Red!Owns, Red!OnBoard,
      Red!InHand
<1>5. RedState.side = redSide /\ RedState.turn = redTurn
  BY DEF RedState
<1>6. N = [board |-> N.board, pos |-> N.pos, mask |-> N.mask, owner |-> N.owner,
           side |-> N.side, turn |-> N.turn, terminal |-> N.terminal, winner |-> N.winner]
  BY <1>1, <1>2 DEF RedState
<1>7. N = After(RedState, p, to, N.mask)
  BY <1>3, <1>4, <1>5, <1>6, <1>p, AtRed, AfterRecord
<1> QED BY <1>1, <1>2, <1>3, <1>7, AtRed

LEMMA RedInAt ==
  ASSUME NEW S, NEW result
  PROVE  /\ Red!In(S.board, S.pos, S.mask, S.owner, result)!CanonicalBoard = At(S)!CanonicalBoard
         /\ Red!In(S.board, S.pos, S.mask, S.owner, result)!Side = At(S)!Side
         /\ \A side : Red!In(S.board, S.pos, S.mask, S.owner, result)!PiecesOf(side)
                       = At(S)!PiecesOf(side)
<1>1. Red!In(S.board, S.pos, S.mask, S.owner, result)!CanonicalBoard = At(S)!CanonicalBoard
  BY Zenon DEF Red!In!CanonicalBoard, At!CanonicalBoard, Red!In!Look, At!Look,
    Red!In!Square, At!Square, Red!In!BoardSize, At!BoardSize
<1>2. \A side : Red!In(S.board, S.pos, S.mask, S.owner, result)!PiecesOf(side)
                = At(S)!PiecesOf(side)
  BY Zenon DEF Red!In!PiecesOf, At!PiecesOf, Red!In!PieceTuple, At!PieceTuple, Red!In!Look, At!Look,
    Red!In!CanonicalPosition, At!CanonicalPosition, Red!In!InHand, At!InHand, Red!In!HandSlot,
    At!HandSlot, Red!In!BoardSize, At!BoardSize, Red!In!Group, At!Group,
    Red!In!Cardinality, At!Cardinality
<1>3. Red!In(S.board, S.pos, S.mask, S.owner, result)!Side = At(S)!Side
  BY Zenon DEF Red!In!Side, At!Side
<1> QED BY <1>1, <1>2, <1>3

LEMMA RedInKey ==
  ASSUME NEW S, NEW result, S.side = Red!Opposite(redSide), S.turn = redTurn + 1,
         S.terminal = result[1], S.winner = result[2]
  PROVE  Red!In(S.board, S.pos, S.mask, S.owner, result)!CanonKey = KeyOf(S)
<1>1. At(S)!CanonKey =
        [board |-> At(S)!CanonicalBoard,
         pieces |-> [side \in At(S)!Side |-> At(S)!PiecesOf(side)],
         sideToMove |-> S.side, turn |-> S.turn, terminal |-> S.terminal, winner |-> S.winner]
  BY DEF At!CanonKey
<1>2. Red!In(S.board, S.pos, S.mask, S.owner, result)!CanonKey =
        [board |-> Red!In(S.board, S.pos, S.mask, S.owner, result)!CanonicalBoard,
         pieces |-> [side \in Red!In(S.board, S.pos, S.mask, S.owner, result)!Side |->
                      Red!In(S.board, S.pos, S.mask, S.owner, result)!PiecesOf(side)],
         sideToMove |-> S.side, turn |-> S.turn, terminal |-> S.terminal, winner |-> S.winner]
  BY DEF Red!In!CanonKey
<1>3. [side \in Red!In(S.board, S.pos, S.mask, S.owner, result)!Side |->
        Red!In(S.board, S.pos, S.mask, S.owner, result)!PiecesOf(side)]
        = [side \in At(S)!Side |-> At(S)!PiecesOf(side)]
  BY RedInAt, Zenon
<1> QED BY <1>1, <1>2, <1>3, RedInAt, AtKey

LEMMA RedInVerdict ==
  ASSUME NEW S, NEW result, S.side = Red!Opposite(redSide), S.turn = redTurn + 1
  PROVE  Red!In(S.board, S.pos, S.mask, S.owner, result)!Verdict = At(S)!Verdict
<1>1. Red!In(S.board, S.pos, S.mask, S.owner, result)!HandSlot = HandSlot
  BY Zenon DEF Red!In!HandSlot, HandSlot, Red!In!BoardSize, BoardSize,
    Red!In!Cardinality, Cardinality
<1>2. Red!In(S.board, S.pos, S.mask, S.owner, result)!Square = Square
  BY Zenon DEF Red!In!Square, Square, Red!In!BoardSize, BoardSize
<1>3. /\ \A x, side : Red!In(S.board, S.pos, S.mask, S.owner, result)!IsBackRank(x, side)
                       <=> IsBackRank(x, side)
      /\ \A side : Red!In(S.board, S.pos, S.mask, S.owner, result)!Opposite(side) = Opposite(side)
  BY Zenon DEF Red!In!IsBackRank, IsBackRank, Red!In!RowOf, RowOf, Red!In!Opposite, Opposite
<1> QED BY <1>1, <1>2, <1>3, AtVerdict
  DEF Red!In!Verdict, Red!In!HasTryCandidate, Red!In!HasHandLion, Red!In!Owns,
      Red!In!OnBoard, Red!In!InHand

LEMMA RedKeyAfterIs ==
  ASSUME NEW p, NEW to, NEW m
  PROVE  Red!KeyAfter(<<p, to>>, m) = KeyOf(After(RedState, p, to, m))
<1> DEFINE N == Moved(RedState, p, to, m)
           result == At(N)!Verdict
           A == After(RedState, p, to, m)
<1>1. /\ N.board = Red!BoardAfter(p, to) /\ N.pos = Red!PosAfter(p, to) /\ N.mask = m
      /\ N.owner = Red!OwnerAfter(p, to) /\ N.side = Red!Opposite(redSide) /\ N.turn = redTurn + 1
  BY AtRed, RedPlaces DEF Moved, RedState
<1>2. A = WithResult(N, result)
  BY DEF After
<1> HIDE DEF N
<1>3. /\ A.board = N.board /\ A.pos = N.pos /\ A.mask = N.mask /\ A.owner = N.owner
      /\ A.side = N.side /\ A.turn = N.turn /\ A.terminal = result[1] /\ A.winner = result[2]
  BY <1>2 DEF WithResult
<1> HIDE DEF A
<1>4. Red!In(Red!BoardAfter(p, to), Red!PosAfter(p, to), m, Red!OwnerAfter(p, to),
             <<"None", "None">>)!Verdict
        = result
  BY <1>1, RedInVerdict
<1> HIDE DEF result
<1>5. Red!In(Red!BoardAfter(p, to), Red!PosAfter(p, to), m, Red!OwnerAfter(p, to),
             result)!CanonKey = KeyOf(A)
  BY <1>1, <1>3, RedInKey
<1>6. Red!KeyAfter(<<p, to>>, m) =
        Red!In(Red!BoardAfter(p, to), Red!PosAfter(p, to), m, Red!OwnerAfter(p, to),
               result)!CanonKey
  BY <1>4 DEF Red!KeyAfter
<1> QED BY <1>5, <1>6 DEF A

-----------------------------------------------------------------------------
(* Equal bags are a renumbering of one another. *)

(* A renumbering of G that takes a to b. *)
Takes(f, G, a, b) ==
  /\ f \in [G -> G]
  /\ \A p, q \in G : f[p] = f[q] => p = q
  /\ \A q \in G : \E p \in G : f[p] = q
  /\ \A p \in G : b[f[p]] = a[p]

LEMMA SameCounts ==
  ASSUME NEW G, IsFiniteSet(G), NEW a, NEW b, DOMAIN a = G, DOMAIN b = G,
         NEW f, Takes(f, G, a, b)
  PROVE  Counted(a) = Counted(b)
<1> USE DEF Takes
<1>1. {a[p] : p \in G} = {b[q] : q \in G}
  <2>1. ASSUME NEW p \in G PROVE \E q \in G : b[q] = a[p]
    OBVIOUS
  <2>2. ASSUME NEW q \in G PROVE \E p \in G : a[p] = b[q]
    OBVIOUS
  <2> QED BY <2>1, <2>2
<1>2. ASSUME NEW t
      PROVE  Cardinality({p \in G : a[p] = t}) = Cardinality({q \in G : b[q] = t})
  <2> DEFINE A == {p \in G : a[p] = t}
             B == {q \in G : b[q] = t}
             g == [p \in A |-> f[p]]
  <2>1. IsFiniteSet(A)
    <3>1. A \in SUBSET G
      OBVIOUS
    <3> QED BY <3>1, FS_Subset
  <2>2. g \in [A -> B]
    OBVIOUS
  <2>3. \A p, q \in A : g[p] = g[q] => p = q
    OBVIOUS
  <2>4. \A q \in B : \E p \in A : g[p] = q
    <3> TAKE q \in B
    <3>1. PICK p \in G : f[p] = q
      OBVIOUS
    <3> QED BY <3>1
  <2> HIDE DEF A, B, g
  <2>5. g \in Bijection(A, B)
    BY <2>2, <2>3, <2>4 DEF Bijection, Injection, IsInjective, Surjection
  <2>6. Cardinality(B) = Cardinality(A)
    BY <2>1, <2>5, FS_Bijection DEF ExistsBijection
  <2> QED BY <2>6 DEF A, B
<1> QED BY <1>1, <1>2 DEF Counted

LEMMA CountsMatch ==
  ASSUME NEW G, IsFiniteSet(G), NEW a, NEW b, DOMAIN a = G, DOMAIN b = G,
         Counted(a) = Counted(b)
  PROVE  \E f : Takes(f, G, a, b)
<1> DEFINE T == {a[p] : p \in G}
           A(t) == {p \in G : a[p] = t}
           B(t) == {q \in G : b[q] = t}
<1>1. Counted(a) = [t \in T |-> Cardinality(A(t))]
  BY DEF Counted
<1>2. Counted(b) = [t \in {b[q] : q \in G} |-> Cardinality(B(t))]
  BY DEF Counted
<1>3. T = {b[q] : q \in G}
  <2>1. DOMAIN Counted(a) = T
    BY <1>1
  <2>2. DOMAIN Counted(b) = {b[q] : q \in G}
    BY <1>2
  <2> QED BY <2>1, <2>2
<1>4. ASSUME NEW t \in T PROVE ExistsBijection(A(t), B(t))
  <2>1. Cardinality(A(t)) = Cardinality(B(t))
    <3>1. Counted(a)[t] = Cardinality(A(t))
      BY <1>1
    <3>2. Counted(b)[t] = Cardinality(B(t))
      BY <1>2, <1>3
    <3> QED BY <3>1, <3>2
  <2>2. A(t) \in SUBSET G /\ B(t) \in SUBSET G
    OBVIOUS
  <2> HIDE DEF A, B
  <2>3. IsFiniteSet(A(t)) /\ IsFiniteSet(B(t))
    BY <2>2, FS_Subset
  <2> QED BY <2>1, <2>3, FS_SameCardinalityBij
<1> DEFINE g(t) == CHOOSE k : k \in Bijection(A(t), B(t))
           f == [p \in G |-> g(a[p])[p]]
<1>5. ASSUME NEW t \in T
      PROVE  /\ \A p \in A(t) : g(t)[p] \in B(t)
             /\ \A p, q \in A(t) : g(t)[p] = g(t)[q] => p = q
             /\ \A q \in B(t) : \E p \in A(t) : g(t)[p] = q
  <2> HIDE DEF A, B
  <2>1. \E k : k \in Bijection(A(t), B(t))
    BY <1>4 DEF ExistsBijection
  <2>2. g(t) \in Bijection(A(t), B(t))
    BY <2>1
  <2> HIDE DEF g
  <2> QED BY <2>2 DEF Bijection, Injection, IsInjective, Surjection
<1>6. \A p \in G : a[p] \in T /\ p \in A(a[p])
  OBVIOUS
<1>7. \A q \in G : b[q] \in T /\ q \in B(b[q])
  BY <1>3
<1> HIDE DEF g
<1>8. \A p \in G : f[p] = g(a[p])[p] /\ f[p] \in G /\ b[f[p]] = a[p]
  BY <1>5, <1>6
<1>9. ASSUME NEW p \in G, NEW q \in G, f[p] = f[q] PROVE p = q
  <2>1. a[p] = a[q]
    BY <1>8, <1>9
  <2> QED BY <1>5, <1>6, <1>8, <1>9, <2>1
<1>10. ASSUME NEW q \in G PROVE \E p \in G : f[p] = q
  <2>1. PICK p \in A(b[q]) : g(b[q])[p] = q
    BY <1>5, <1>7
  <2>2. p \in G /\ a[p] = b[q]
    OBVIOUS
  <2> QED BY <1>8, <2>1, <2>2
<1>11. f \in [G -> G]
  BY <1>8
<1> QED BY <1>8, <1>9, <1>10, <1>11 DEF Takes

-----------------------------------------------------------------------------
(* Twins seen from South are the states with one key. *)

(* The board and the positions name the same squares. *)
Seated(S) ==
  /\ \A x \in Square : S.board[x] # Empty => S.pos[S.board[x]] = x
  /\ \A p \in Piece : S.pos[p] \in Square => S.board[S.pos[p]] = p

HasResult(S) == S.winner \in Side \cup {"None"}

LEMMA FiniteGroups ==
  ASSUME NEW side
  PROVE  IsFiniteSet(Group(side)) /\ Group(side) \subseteq Piece
<1>1. Group(side) \in SUBSET Piece
  BY DEF Group
<1> QED BY <1>1, FS_Subset, GameConstants

LEMMA SouthTwin ==
  ASSUME NEW f, NEW R, NEW S, Twin(f, "South", R, S), NEW p \in Piece
  PROVE  /\ f[p] \in Piece /\ Origin[f[p]] = Origin[p] /\ Origin[p] \in Side
         /\ S.owner[f[p]] = R.owner[p] /\ S.mask[f[p]] = R.mask[p]
         /\ S.pos[f[p]] \in HandSlot <=> R.pos[p] \in HandSlot
         /\ R.pos[p] \notin HandSlot => S.pos[f[p]] = R.pos[p]
         /\ Tuple(S, f[p]) = Tuple(R, p) /\ Face(S, f[p]) = Face(R, p)
<1>1. "South" \in Side
  BY DEF Side
<1>2. /\ f[p] \in Piece
      /\ S.pos[f[p]] \in HandSlot <=> R.pos[p] \in HandSlot
      /\ R.pos[p] \in HandSlot <=> R.pos[p] \notin Square
      /\ R.pos[p] \in Square => S.pos[f[p]] = PublicSquare(R.pos[p], "South")
      /\ S.mask[f[p]] = R.mask[p]
      /\ R.owner[p] \in Side
      /\ S.owner[f[p]] = Relative(R.owner[p], "South")
  BY <1>1, TwinPiece
<1>3. Origin[f[p]] = Relative(Origin[p], "South") /\ Origin[p] \in Side
  BY LineageConstants DEF Twin, Renaming
<1>4. Origin[f[p]] = Origin[p] /\ S.owner[f[p]] = R.owner[p]
  BY <1>1, <1>2, <1>3, RelativeFacts
<1>5. R.pos[p] \notin HandSlot => S.pos[f[p]] = R.pos[p]
  BY <1>1, <1>2, PublicSquareFacts
<1>6. Tuple(S, f[p]) = Tuple(R, p) /\ Face(S, f[p]) = Face(R, p)
  BY <1>2, <1>4, <1>5 DEF Tuple, Face
<1> QED BY <1>2, <1>3, <1>4, <1>5, <1>6

LEMMA TwinKeys ==
  ASSUME NEW f, NEW R, NEW S, Twin(f, "South", R, S), HasResult(R)
  PROVE  KeyOf(R) = KeyOf(S)
<1>0. "South" \in Side
  BY DEF Side
<1>1. ASSUME NEW x \in Square
      PROVE  (IF S.board[x] = Empty THEN {} ELSE {Face(S, S.board[x])})
               = (IF R.board[x] = Empty THEN {} ELSE {Face(R, R.board[x])})
  <2>1. PublicSquare(x, "South") = x
    BY <1>0, PublicSquareFacts
  <2>2. /\ R.board[x] \in Piece \cup {Empty}
        /\ S.board[x] = Empty <=> R.board[x] = Empty
        /\ R.board[x] # Empty => S.board[x] = f[R.board[x]]
    BY <1>0, <2>1, TwinSquare
  <2>3. ASSUME R.board[x] # Empty PROVE Face(S, S.board[x]) = Face(R, R.board[x])
    <3>1. PICK p \in Piece : p = R.board[x]
      BY <2>2, <2>3
    <3>2. S.board[x] = f[p]
      BY <2>2, <2>3, <3>1
    <3> QED BY <3>1, <3>2, SouthTwin
  <2> QED BY <2>2, <2>3
<1>2. ASSUME NEW side \in Side
      PROVE  Counted([p \in Group(side) |-> Tuple(S, p)])
               = Counted([p \in Group(side) |-> Tuple(R, p)])
  <2> DEFINE G == Group(side)
             a == [p \in G |-> Tuple(R, p)]
             b == [p \in G |-> Tuple(S, p)]
             g == [p \in G |-> f[p]]
  <2>1. \A p \in G : p \in Piece /\ Origin[p] = side /\ f[p] \in G /\ b[f[p]] = a[p]
    BY SouthTwin DEF Group
  <2>2. g \in [G -> G] /\ \A p \in G : g[p] = f[p]
    BY <2>1
  <2>3. \A p, q \in G : g[p] = g[q] => p = q
    BY <2>1, <2>2 DEF Twin, Renaming
  <2>4. \A q \in G : \E p \in G : g[p] = q
    <3> TAKE q \in G
    <3>1. PICK p \in Piece : f[p] = q
      BY <2>1 DEF Twin, Renaming
    <3>2. p \in G
      BY <2>1, <3>1, SouthTwin DEF Group
    <3> QED BY <2>2, <3>1, <3>2
  <2>5. IsFiniteSet(G) /\ DOMAIN a = G /\ DOMAIN b = G /\ \A p \in G : b[g[p]] = a[p]
    BY <2>1, <2>2, FiniteGroups
  <2> HIDE DEF G, a, b, g
  <2>6. Counted(a) = Counted(b)
    BY <2>2, <2>3, <2>4, <2>5, SameCounts DEF Takes
  <2> QED BY <2>6 DEF G, a, b
<1>3. S.side = R.side /\ S.turn = R.turn /\ S.terminal = R.terminal /\ S.winner = R.winner
  BY <1>0, RelativeFacts DEF Twin, IsState, SameClock, HasResult
<1>4. [x \in Square |-> IF S.board[x] = Empty THEN {} ELSE {Face(S, S.board[x])}]
        = [x \in Square |-> IF R.board[x] = Empty THEN {} ELSE {Face(R, R.board[x])}]
  BY <1>1
<1>5. [side \in Side |-> Counted([p \in Group(side) |-> Tuple(S, p)])]
        = [side \in Side |-> Counted([p \in Group(side) |-> Tuple(R, p)])]
  BY <1>2
<1> QED BY <1>3, <1>4, <1>5 DEF KeyOf

LEMMA KeyTwins ==
  ASSUME NEW R, NEW S, IsState(R), IsState(S), Seated(R), Seated(S), HasResult(R),
         KeyOf(R) = KeyOf(S)
  PROVE  \E f : Twin(f, "South", R, S)
<1>0. "South" \in Side /\ \A a \in Side : Relative(a, "South") = a
  BY RelativeFacts DEF Side
<1>1. /\ [x \in Square |-> IF R.board[x] = Empty THEN {} ELSE {Face(R, R.board[x])}]
           = [x \in Square |-> IF S.board[x] = Empty THEN {} ELSE {Face(S, S.board[x])}]
      /\ [side \in Side |-> Counted([p \in Group(side) |-> Tuple(R, p)])]
           = [side \in Side |-> Counted([p \in Group(side) |-> Tuple(S, p)])]
      /\ R.side = S.side /\ R.turn = S.turn /\ R.terminal = S.terminal /\ R.winner = S.winner
  BY DEF KeyOf
<1>2. \A x \in Square : R.board[x] = Empty <=> S.board[x] = Empty
  <2> TAKE x \in Square
  <2>1. (IF R.board[x] = Empty THEN {} ELSE {Face(R, R.board[x])})
          = (IF S.board[x] = Empty THEN {} ELSE {Face(S, S.board[x])})
    BY <1>1
  <2> QED BY <2>1
<1>3. ASSUME NEW side \in Side
      PROVE  \E g : Takes(g, Group(side), [p \in Group(side) |-> Tuple(R, p)],
                           [p \in Group(side) |-> Tuple(S, p)])
  <2> DEFINE G == Group(side)
             a == [p \in G |-> Tuple(R, p)]
             b == [p \in G |-> Tuple(S, p)]
  <2>1. Counted(a) = Counted(b)
    BY <1>1
  <2>2. IsFiniteSet(G) /\ DOMAIN a = G /\ DOMAIN b = G
    BY FiniteGroups
  <2> HIDE DEF a, b, G
  <2>3. \E g : Takes(g, G, a, b)
    BY <2>1, <2>2, CountsMatch
  <2> QED BY <2>3 DEF G, a, b
<1> DEFINE h(side) == CHOOSE g : Takes(g, Group(side), [p \in Group(side) |-> Tuple(R, p)],
                                       [p \in Group(side) |-> Tuple(S, p)])
           f == [p \in Piece |-> h(Origin[p])[p]]
<1>4. ASSUME NEW side \in Side
      PROVE  /\ \A p \in Group(side) : h(side)[p] \in Group(side)
             /\ \A p, q \in Group(side) : h(side)[p] = h(side)[q] => p = q
             /\ \A q \in Group(side) : \E p \in Group(side) : h(side)[p] = q
             /\ \A p \in Group(side) : Tuple(S, h(side)[p]) = Tuple(R, p)
  <2>1. Takes(h(side), Group(side), [p \in Group(side) |-> Tuple(R, p)],
              [p \in Group(side) |-> Tuple(S, p)])
    BY <1>3
  <2> HIDE DEF h
  <2> QED BY <2>1 DEF Takes
<1>5. \A p \in Piece : f[p] = h(Origin[p])[p] /\ Origin[p] \in Side /\ p \in Group(Origin[p])
  BY LineageConstants DEF Group
<1> HIDE DEF h, f
<1>6. ASSUME NEW p \in Piece
      PROVE  f[p] \in Piece /\ Origin[f[p]] = Origin[p] /\ Tuple(S, f[p]) = Tuple(R, p)
  BY <1>4, <1>5 DEF Group
<1>7. ASSUME NEW p \in Piece, NEW q \in Piece, f[p] = f[q] PROVE p = q
  <2>1. Origin[p] = Origin[q]
    BY <1>6, <1>7
  <2> QED BY <1>4, <1>5, <1>7, <2>1
<1>8. ASSUME NEW q \in Piece PROVE \E p \in Piece : f[p] = q
  <2>1. PICK p \in Group(Origin[q]) : h(Origin[q])[p] = q
    BY <1>4, <1>5
  <2>2. p \in Piece /\ Origin[p] = Origin[q]
    BY DEF Group
  <2> QED BY <1>5, <2>1, <2>2
<1>9. f \in Renaming("South")
  <2>1. f \in [Piece -> Piece]
    <3>1. f = [p \in Piece |-> f[p]]
      BY DEF f
    <3> QED BY <1>6, <3>1
  <2> QED BY <1>0, <1>5, <1>6, <1>7, <1>8, <2>1 DEF Renaming
<1>10. ASSUME NEW p \in Piece
       PROVE  /\ S.owner[f[p]] = R.owner[p] /\ S.mask[f[p]] = R.mask[p]
              /\ R.pos[p] \in Square => S.pos[f[p]] = R.pos[p]
              /\ R.pos[p] \notin Square => S.pos[f[p]] \in HandSlot
              /\ R.owner[p] \in Side
  <2>1. (IF S.pos[f[p]] \in HandSlot THEN BoardSize ELSE S.pos[f[p]])
          = (IF R.pos[p] \in HandSlot THEN BoardSize ELSE R.pos[p])
        /\ S.owner[f[p]] = R.owner[p] /\ S.mask[f[p]] = R.mask[p]
    BY <1>6 DEF Tuple
  <2>2. /\ S.pos[f[p]] \in Square \cup HandSlot /\ R.pos[p] \in Square \cup HandSlot
        /\ R.owner[p] \in Side
    BY <1>6 DEF IsState
  <2>3. /\ BoardSize \notin Square
        /\ \A x \in Square \cup HandSlot : x \in HandSlot <=> x \notin Square
    BY Places DEF Square
  <2> QED BY <2>1, <2>2, <2>3
<1>11. SamePlaces(f, "South", R, S)
  <2>1. ASSUME NEW x \in Square
        PROVE  S.board[PublicSquare(x, "South")] =
                 IF R.board[x] = Empty THEN Empty ELSE f[R.board[x]]
    <3>1. PublicSquare(x, "South") = x
      BY <1>0, PublicSquareFacts
    <3>2. CASE R.board[x] = Empty
      BY <1>2, <3>1, <3>2
    <3>3. CASE R.board[x] # Empty
      <4>1. PICK p \in Piece : p = R.board[x] /\ R.pos[p] = x
        BY <3>3 DEF IsState, Seated
      <4>2. S.pos[f[p]] = x /\ f[p] \in Piece
        BY <1>6, <1>10, <4>1
      <4>3. S.board[x] = f[p]
        BY <4>2 DEF Seated
      <4> QED BY <3>1, <3>3, <4>1, <4>3
    <3> QED BY <3>2, <3>3
  <2>2. \A x \in Square : PublicSquare(x, "South") = x
    BY <1>0, PublicSquareFacts
  <2> QED BY <1>10, <2>1, <2>2 DEF SamePlaces
<1>12. SamePieces(f, "South", R, S)
  BY <1>0, <1>10 DEF SamePieces, Renamed
<1>13. SameClock("South", R, S)
  BY <1>0, <1>1 DEF SameClock, IsState, HasResult
<1> QED BY <1>9, <1>11, <1>12, <1>13 DEF Twin

-----------------------------------------------------------------------------
(* The reduced game. *)

LEMMA StateHasResult ==
  ASSUME NEW S, IsState(S), NEW p, NEW to, NEW m
  PROVE  HasResult(After(S, p, to, m))
<1> DEFINE N == After(S, p, to, m)
<1>1. N.side = Opposite(S.side) /\ N.winner = At(N)!Verdict[2]
  BY AfterIs
<1>2. N.side \in Side /\ Opposite(N.side) \in Side
  BY <1>1, OppositeSide DEF IsState
<1> HIDE DEF N
<1>3. At(N)!Verdict \in {<<"Try", N.side>>, <<"Catch", Opposite(N.side)>>,
                         <<"Draw", "None">>, <<"None", "None">>}
  BY AtVerdict
<1>4. N.winner \in Side \cup {"None"}
  BY <1>1, <1>2, <1>3
<1> QED BY <1>4 DEF HasResult, N

LEMMA MasksAreMasks ==
  ASSUME NEW S, IsState(S), HasResult(S), NEW p \in Piece, NEW to \in Square,
         NEW m \in At(S)!MasksAfter(p, to)
  PROVE  m \in Mask
<1>1. PICK f : ExactTwin(f, "South", S, S)
  BY TwinOfItself DEF HasResult
<1>2. "South" \in Side /\ Twin(f, "South", S, S)
  BY <1>1 DEF ExactTwin, Side
<1>3. At(S)!MasksAfter(f[p], PublicSquare(to, "South")) # {}
  BY <1>2, TwinMasks
<1> QED BY <1>2, <1>3, TwinMasks

LEMMA SeatedAfter ==
  ASSUME NEW S, IsState(S), Seated(S), NEW p \in Piece, NEW to \in Square, NEW m
  PROVE  Seated(After(S, p, to, m))
<1> DEFINE N == After(S, p, to, m)
<1>1. N.board = At(S)!BoardAfter(p, to) /\ N.pos = At(S)!PosAfter(p, to)
  BY AfterIs
<1>2. \A x \in Square : N.board[x] =
        IF x = to THEN p ELSE IF x = S.pos[p] THEN Empty ELSE S.board[x]
  BY <1>1, AtAfter
<1>3. \A q \in Piece : N.pos[q] =
        IF q = p THEN to
        ELSE IF q = S.board[to] THEN Least(SlotsLeft(S.pos, q)) ELSE S.pos[q]
  BY <1>1, AtAfter
<1>4. \A q \in Piece : Least(SlotsLeft(S.pos, q)) \notin Square
  BY SlotIsLeft, Places DEF IsState
<1>5. Empty \notin Piece /\ \A x \in Square : S.board[x] \in Piece \cup {Empty}
  BY GameConstants DEF IsState
<1> HIDE DEF N
<1>6. ASSUME NEW x \in Square, N.board[x] # Empty PROVE N.pos[N.board[x]] = x
  <2>1. CASE x = to
    BY <1>2, <1>3, <2>1
  <2>2. CASE x # to
    <3>1. PICK q \in Piece : q = S.board[x] /\ N.board[x] = q /\ x # S.pos[p]
      BY <1>2, <1>5, <1>6, <2>2
    <3>2. S.pos[q] = x
      BY <1>5, <3>1 DEF Seated
    <3>3. q # p /\ q # S.board[to]
      BY <1>5, <2>2, <3>1, <3>2 DEF Seated
    <3> QED BY <1>3, <3>1, <3>2, <3>3
  <2> QED BY <2>1, <2>2
<1>7. ASSUME NEW q \in Piece, N.pos[q] \in Square PROVE N.board[N.pos[q]] = q
  <2>1. CASE q = p
    BY <1>2, <1>3, <2>1
  <2>2. CASE q # p
    <3>1. q # S.board[to] /\ N.pos[q] = S.pos[q] /\ S.pos[q] \in Square
      BY <1>3, <1>4, <1>7, <2>2
    <3>2. S.board[S.pos[q]] = q
      BY <3>1 DEF Seated
    <3>3. S.pos[q] # to /\ S.pos[q] # S.pos[p]
      BY <2>2, <3>1, <3>2 DEF Seated
    <3> QED BY <1>2, <3>1, <3>2, <3>3
  <2> QED BY <2>1, <2>2
<1>8. Seated(N)
  BY <1>6, <1>7 DEF Seated
<1> QED BY <1>8 DEF N

LEMMA GameIsSeated ==
  ASSUME GameInv
  PROVE  IsState(GameState) /\ Seated(GameState) /\ HasResult(GameState)
<1>1. GameTypeOK /\ BoardConsistent
  BY DEF GameInv
<1>2. Seated(GameState)
  BY <1>1 DEF BoardConsistent, OnBoard, Seated, GameState
<1>3. HasResult(GameState)
  BY <1>1 DEF GameTypeOK, HasResult, GameState
<1> QED BY <1>1, <1>2, <1>3, GameStateIs

(* The keys a state leads to. *)
Leads(S, k) ==
  \E p \in Piece, to \in Square :
    /\ At(S)!Admissible(p, to)
    /\ \E m \in At(S)!MasksAfter(p, to) : k = KeyOf(After(S, p, to, m))

LEMMA TwinLeads ==
  ASSUME NEW f, NEW R, NEW S, Twin(f, "South", R, S), NEW k
  PROVE  Leads(R, k) <=> Leads(S, k)
<1>0. "South" \in Side /\ IsState(R) /\ f \in Renaming("South")
      /\ \A x \in Square : PublicSquare(x, "South") = x
  BY PublicSquareFacts DEF Twin, Side
<1>1. ASSUME NEW p \in Piece, NEW to \in Square
      PROVE  /\ f[p] \in Piece
             /\ At(S)!Admissible(f[p], to) <=> At(R)!Admissible(p, to)
             /\ At(R)!MasksAfter(p, to) # {} <=> At(S)!MasksAfter(f[p], to) # {}
             /\ \A m \in At(R)!MasksAfter(p, to), m2 \in At(S)!MasksAfter(f[p], to) :
                  KeyOf(After(R, p, to, m)) = KeyOf(After(S, f[p], to, m2))
  <2>1. PublicSquare(to, "South") = to
    BY <1>0
  <2>2. f[p] \in Piece /\ (At(S)!Admissible(f[p], to) <=> At(R)!Admissible(p, to))
    BY <1>0, <2>1, TwinPiece, TwinAdmissible
  <2>3. /\ At(R)!MasksAfter(p, to) # {} <=> At(S)!MasksAfter(f[p], to) # {}
        /\ \A m \in At(R)!MasksAfter(p, to), m2 \in At(S)!MasksAfter(f[p], to) :
             m \in Mask /\ m2 \in Mask /\ Renamed(f, m, m2)
    BY <1>0, <2>1, TwinMasks
  <2>4. ASSUME NEW m \in At(R)!MasksAfter(p, to), NEW m2 \in At(S)!MasksAfter(f[p], to)
        PROVE  KeyOf(After(R, p, to, m)) = KeyOf(After(S, f[p], to, m2))
    <3>1. m \in Mask /\ m2 \in Mask /\ Renamed(f, m, m2)
      BY <2>3
    <3>2. Twin(f, "South", After(R, p, to, m), After(S, f[p], PublicSquare(to, "South"), m2))
      BY <1>0, <3>1, TwinAfter
    <3>3. HasResult(After(R, p, to, m))
      BY <1>0, StateHasResult
    <3> QED BY <2>1, <3>2, <3>3, TwinKeys
  <2> QED BY <2>2, <2>3, <2>4
<1>2. ASSUME Leads(R, k) PROVE Leads(S, k)
  <2>1. PICK p \in Piece, to \in Square :
          /\ At(R)!Admissible(p, to)
          /\ \E m \in At(R)!MasksAfter(p, to) : k = KeyOf(After(R, p, to, m))
    BY <1>2 DEF Leads
  <2>2. PICK m \in At(R)!MasksAfter(p, to) : k = KeyOf(After(R, p, to, m))
    BY <2>1
  <2>3. PICK q \in Piece : q = f[p]
    BY <1>1
  <2>4. PICK m2 : m2 \in At(S)!MasksAfter(q, to)
    BY <1>1, <2>3
  <2> QED BY <1>1, <2>1, <2>2, <2>3, <2>4 DEF Leads
<1>3. ASSUME Leads(S, k) PROVE Leads(R, k)
  <2>1. PICK q \in Piece, to \in Square :
          /\ At(S)!Admissible(q, to)
          /\ \E m \in At(S)!MasksAfter(q, to) : k = KeyOf(After(S, q, to, m))
    BY <1>3 DEF Leads
  <2>2. PICK m2 \in At(S)!MasksAfter(q, to) : k = KeyOf(After(S, q, to, m2))
    BY <2>1
  <2>3. PICK p \in Piece : q = f[p]
    BY <1>0 DEF Renaming
  <2>4. PICK m : m \in At(R)!MasksAfter(p, to)
    BY <1>1, <2>3
  <2> QED BY <1>1, <2>1, <2>2, <2>3, <2>4 DEF Leads
<1> QED BY <1>2, <1>3

(* The classes of a State have the keys it leads to. *)
LEMMA ClassKeys ==
  ASSUME NEW k
  PROVE  k \in Keys(Classes) <=> Leads(GameState, k)
<1>1. ASSUME NEW p, NEW to
      PROVE  /\ At(GameState)!Admissible(p, to) <=> Admissible(p, to)
             /\ At(GameState)!MasksAfter(p, to) = MasksAfter(p, to)
  BY AtGame
<1>2. k \in Keys(Classes) <=> \E a \in Applied : k = KeyAfter(a[1], a[2])
  <2> DEFINE keyed == {<<a[1], KeyAfter(a[1], a[2])>> : a \in Applied}
             ks == {x[2] : x \in keyed}
             class(h) == [key |-> h, moves |-> {x[1] : x \in {y \in keyed : y[2] = h}}]
  <2>1. Classes = {class(h) : h \in ks}
    BY DEF Classes
  <2>2. \A h : class(h).key = h
    OBVIOUS
  <2>3. ASSUME k \in ks PROVE \E a \in Applied : k = KeyAfter(a[1], a[2])
    <3>1. PICK x \in keyed : k = x[2]
      BY <2>3, Zenon
    <3>2. PICK a \in Applied : x = <<a[1], KeyAfter(a[1], a[2])>>
      BY <3>1, Zenon
    <3> QED BY <3>1, <3>2
  <2>4. ASSUME NEW a \in Applied, k = KeyAfter(a[1], a[2]) PROVE k \in ks
    <3>1. PICK x : x = <<a[1], KeyAfter(a[1], a[2])>>
      OBVIOUS
    <3>2. x \in keyed /\ x[2] = k
      BY <2>4, <3>1
    <3> HIDE DEF keyed
    <3> QED BY <3>2, Zenon
  <2> HIDE DEF ks, class
  <2> QED BY <2>1, <2>2, <2>3, <2>4 DEF Keys
<1>3. ASSUME NEW a \in Applied, k = KeyAfter(a[1], a[2]) PROVE Leads(GameState, k)
  <2>1. PICK n \in Piece \X Square : 
          Admissible(n[1], n[2]) /\ a \in {<<n, masks>> : masks \in MasksAfter(n[1], n[2])}
    BY DEF Applied
  <2>2. PICK masks \in MasksAfter(n[1], n[2]) : a = <<n, masks>>
    BY <2>1
  <2>3. PICK p \in Piece, to \in Square : n = <<p, to>>
    OBVIOUS
  <2>4. k = KeyAfter(<<p, to>>, masks)
    BY <1>3, <2>2, <2>3
  <2>5. k = KeyOf(After(GameState, p, to, masks))
    BY <2>4, KeyAfterIs
  <2> QED BY <1>1, <2>1, <2>2, <2>3, <2>5 DEF Leads
<1>4. ASSUME Leads(GameState, k) PROVE \E a \in Applied : k = KeyAfter(a[1], a[2])
  <2>1. PICK p \in Piece, to \in Square :
          /\ At(GameState)!Admissible(p, to)
          /\ \E m \in At(GameState)!MasksAfter(p, to) : k = KeyOf(After(GameState, p, to, m))
    BY <1>4 DEF Leads
  <2>2. PICK m \in MasksAfter(p, to) : k = KeyOf(After(GameState, p, to, m))
    BY <1>1, <2>1
  <2>3. k = KeyAfter(<<p, to>>, m)
    BY <2>2, KeyAfterIs
  <2>4. Admissible(p, to)
    BY <1>1, <2>1
  <2>5. <<<<p, to>>, m>> \in Applied
    <3>1. PICK n : n = <<p, to>>
      OBVIOUS
    <3>2. n \in Piece \X Square /\ n[1] = p /\ n[2] = to
      BY <3>1
    <3>3. <<n, m>> \in {<<n, masks>> : masks \in MasksAfter(n[1], n[2])}
      BY <2>2, <3>2
    <3>4. n \in {x \in Piece \X Square : Admissible(x[1], x[2])}
      BY <2>4, <3>2
    <3> DEFINE applied(x) == {<<x, masks>> : masks \in MasksAfter(x[1], x[2])}
               ms == {y \in Piece \X Square : Admissible(y[1], y[2])}
    <3>5. <<n, m>> \in UNION {applied(x) : x \in ms}
      <4>1. <<n, m>> \in applied(n) /\ n \in ms
        BY <3>3, <3>4
      <4> HIDE DEF applied, ms
      <4> QED BY <4>1
    <3> QED BY <3>1, <3>5, Zenon DEF Applied
  <2> QED BY <2>3, <2>5
<1> QED BY <1>2, <1>3, <1>4

LEMMA RedClassKeys ==
  ASSUME NEW k
  PROVE  k \in Keys(Red!Classes) <=> Leads(RedState, k)
<1>1. ASSUME NEW p, NEW to
      PROVE  /\ At(RedState)!Admissible(p, to) <=> Red!Admissible(p, to)
             /\ At(RedState)!MasksAfter(p, to) = Red!MasksAfter(p, to)
  BY AtRed
<1>0. Red!Square = Square
  BY RedPlaces
<1>2. k \in Keys(Red!Classes) <=> \E a \in Red!Applied : k = Red!KeyAfter(a[1], a[2])
  <2> DEFINE keyed == {<<a[1], Red!KeyAfter(a[1], a[2])>> : a \in Red!Applied}
             ks == {x[2] : x \in keyed}
             class(h) == [key |-> h, moves |-> {x[1] : x \in {y \in keyed : y[2] = h}}]
  <2>1. Red!Classes = {class(h) : h \in ks}
    BY DEF Red!Classes
  <2>2. \A h : class(h).key = h
    OBVIOUS
  <2>3. ASSUME k \in ks PROVE \E a \in Red!Applied : k = Red!KeyAfter(a[1], a[2])
    <3>1. PICK x \in keyed : k = x[2]
      BY <2>3, Zenon
    <3>2. PICK a \in Red!Applied : x = <<a[1], Red!KeyAfter(a[1], a[2])>>
      BY <3>1, Zenon
    <3> QED BY <3>1, <3>2
  <2>4. ASSUME NEW a \in Red!Applied, k = Red!KeyAfter(a[1], a[2]) PROVE k \in ks
    <3>1. PICK x : x = <<a[1], Red!KeyAfter(a[1], a[2])>>
      OBVIOUS
    <3>2. x \in keyed /\ x[2] = k
      BY <2>4, <3>1
    <3> HIDE DEF keyed
    <3> QED BY <3>2, Zenon
  <2> HIDE DEF ks, class
  <2> QED BY <2>1, <2>2, <2>3, <2>4 DEF Keys
<1>3. ASSUME NEW a \in Red!Applied, k = Red!KeyAfter(a[1], a[2]) PROVE Leads(RedState, k)
  <2>1. PICK n \in Piece \X Square : 
          /\ Red!Admissible(n[1], n[2])
          /\ a \in {<<n, masks>> : masks \in Red!MasksAfter(n[1], n[2])}
    BY <1>0 DEF Red!Applied
  <2>2. PICK masks \in Red!MasksAfter(n[1], n[2]) : a = <<n, masks>>
    BY <2>1
  <2>3. PICK p \in Piece, to \in Square : n = <<p, to>>
    OBVIOUS
  <2>4. k = Red!KeyAfter(<<p, to>>, masks)
    BY <1>3, <2>2, <2>3
  <2>5. k = KeyOf(After(RedState, p, to, masks))
    BY <2>4, RedKeyAfterIs
  <2> QED BY <1>1, <2>1, <2>2, <2>3, <2>5 DEF Leads
<1>4. ASSUME Leads(RedState, k) PROVE \E a \in Red!Applied : k = Red!KeyAfter(a[1], a[2])
  <2>1. PICK p \in Piece, to \in Square :
          /\ At(RedState)!Admissible(p, to)
          /\ \E m \in At(RedState)!MasksAfter(p, to) : k = KeyOf(After(RedState, p, to, m))
    BY <1>4 DEF Leads
  <2>2. PICK m \in Red!MasksAfter(p, to) : k = KeyOf(After(RedState, p, to, m))
    BY <1>1, <2>1
  <2>3. k = Red!KeyAfter(<<p, to>>, m)
    BY <2>2, RedKeyAfterIs
  <2>4. Red!Admissible(p, to)
    BY <1>1, <2>1
  <2>5. <<<<p, to>>, m>> \in Red!Applied
    <3>1. PICK n : n = <<p, to>>
      OBVIOUS
    <3>2. n \in Piece \X Square /\ n[1] = p /\ n[2] = to
      BY <3>1
    <3>3. <<n, m>> \in {<<n, masks>> : masks \in Red!MasksAfter(n[1], n[2])}
      BY <2>2, <3>2
    <3>4. n \in {x \in Piece \X Square : Red!Admissible(x[1], x[2])}
      BY <2>4, <3>2
    <3> DEFINE applied(x) == {<<x, masks>> : masks \in Red!MasksAfter(x[1], x[2])}
               ms == {y \in Piece \X Square : Red!Admissible(y[1], y[2])}
    <3>5. <<n, m>> \in UNION {applied(x) : x \in ms}
      <4>1. <<n, m>> \in applied(n) /\ n \in ms
        BY <3>3, <3>4
      <4> HIDE DEF applied, ms
      <4> QED BY <4>1
    <3> QED BY <1>0, <3>1, <3>5, Zenon DEF Red!Applied
  <2> QED BY <2>3, <2>5
<1> QED BY <1>2, <1>3, <1>4

(* A search that looks at the game has a twin of it. *)
ReducedInv ==
  /\ GameInv
  /\ followed =>
       /\ IsState(RedState) /\ Seated(RedState) /\ HasResult(RedState)
       /\ \E f : Twin(f, "South", GameState, RedState)

(* What the search follows with leads to the key the game is led to. *)
LEMMA FollowLeads ==
  ASSUME NEW p \in Piece, NEW to \in Square, Follow(<<p, to>>)
  PROVE  \E q \in Piece, t \in Square :
           /\ Red!ApplyMove(q, t)
           /\ \E m \in MasksAfter(p, to), n \in Red!MasksAfter(q, t) :
                KeyAfter(<<p, to>>, m) = Red!KeyAfter(<<q, t>>, n)
<1>1. PICK c \in Red!Classes :
        /\ c.key \in {KeyAfter(<<p, to>>, masks) : masks \in MasksAfter(p, to)}
        /\ \E n \in c.moves : Red!ApplyMove(n[1], n[2])
  BY DEF Follow
<1>2. PICK m \in MasksAfter(p, to) : c.key = KeyAfter(<<p, to>>, m)
  BY <1>1
<1>3. PICK x \in c.moves : Red!ApplyMove(x[1], x[2])
  BY <1>1
<1>4. \E a \in Red!Applied : a[1] = x /\ Red!KeyAfter(a[1], a[2]) = c.key
  BY DEF Red!Classes
<1>5. PICK a \in Red!Applied : a[1] = x /\ Red!KeyAfter(a[1], a[2]) = c.key
  BY <1>4
<1>6. PICK y \in Piece \X Red!Square : a \in {<<y, masks>> : masks \in Red!MasksAfter(y[1], y[2])}
  BY DEF Red!Applied
<1>7. PICK n \in Red!MasksAfter(y[1], y[2]) : a = <<y, n>>
  BY <1>6
<1>8. PICK q \in Piece, t \in Square : y = <<q, t>>
  BY RedPlaces
<1>9. x = <<q, t>> /\ n \in Red!MasksAfter(q, t) /\ Red!KeyAfter(<<q, t>>, n) = c.key
  BY <1>5, <1>7, <1>8
<1> QED BY <1>2, <1>3, <1>9

LEMMA FollowKeepsTwin ==
  ASSUME ReducedInv, GameInv', followed, NEW p \in Piece, NEW to \in Square,
         ApplyMove(p, to), Follow(<<p, to>>)
  PROVE  /\ (IsState(RedState) /\ Seated(RedState) /\ HasResult(RedState))'
         /\ \E f : Twin(f, "South", GameState', RedState')
<1>1. PICK q \in Piece, t \in Square :
        /\ Red!ApplyMove(q, t)
        /\ \E m \in MasksAfter(p, to), n \in Red!MasksAfter(q, t) :
             KeyAfter(<<p, to>>, m) = Red!KeyAfter(<<q, t>>, n)
  BY FollowLeads
<1>2. PICK m \in MasksAfter(p, to), n \in Red!MasksAfter(q, t) :
        KeyAfter(<<p, to>>, m) = Red!KeyAfter(<<q, t>>, n)
  BY <1>1
<1>3. PICK m2 \in At(GameState)!MasksAfter(p, to) : GameState' = After(GameState, p, to, m2)
  BY GameMoves
<1>4. PICK n2 \in At(RedState)!MasksAfter(q, t) : RedState' = After(RedState, q, t, n2)
  BY <1>1, RedMoves
<1>5. m2 = m
  BY <1>2, <1>3, AtGame, OneMask
<1>6. n2 = n
  BY <1>2, <1>4, AtRed, OneMask
<1>7. KeyOf(GameState') = KeyOf(RedState')
  BY <1>2, <1>3, <1>4, <1>5, <1>6, KeyAfterIs, RedKeyAfterIs
<1>8. IsState(RedState) /\ Seated(RedState) /\ HasResult(RedState)
  BY DEF ReducedInv
<1>9. PICK N : N = RedState'
  OBVIOUS
<1>10. IsState(N) /\ Seated(N) /\ HasResult(N)
  <2>1. n2 \in Mask
    BY <1>8, MasksAreMasks
  <2> QED BY <1>4, <1>8, <1>9, <2>1, StateAfter, SeatedAfter, StateHasResult
<1>11. PICK G : G = GameState'
  OBVIOUS
<1>12. IsState(G) /\ Seated(G) /\ HasResult(G)
  <2>1. (GameInv => IsState(GameState) /\ Seated(GameState) /\ HasResult(GameState))'
    BY GameIsSeated, PTL
  <2> QED BY <1>11, <2>1
<1>13. \E f : Twin(f, "South", G, N)
  BY <1>7, <1>9, <1>10, <1>11, <1>12, KeyTwins
<1> QED BY <1>9, <1>10, <1>11, <1>13

LEMMA InitReducedInv ==
  ASSUME GameInit, FollowInit
  PROVE  ReducedInv
<1>1. GameInv
  BY InitGameInv
<1>2. RedState = GameState
  <2>1. /\ redPos = pos /\ redBoard = board /\ redMask = mask /\ redOwner = owner
        /\ redSide = sideToMove /\ redTurn = turn
        /\ redTerminal = terminal /\ redWinner = winner
    BY RedPlaces, Zenon
    DEF FollowInit, GameInit, Red!GameInit, Animal, Red!Animal
  <2> QED BY <2>1 DEF RedState, GameState
<1>3. IsState(GameState) /\ Seated(GameState) /\ HasResult(GameState)
  BY <1>1, GameIsSeated
<1>4. \E f : Twin(f, "South", GameState, GameState)
  BY <1>3, TwinOfItself DEF ExactTwin, HasResult
<1> QED BY <1>1, <1>2, <1>3, <1>4 DEF ReducedInv

LEMMA StepKeepsReducedInv ==
  ASSUME ReducedInv, [ReducedNext]_<<gameVars, redVars>>
  PROVE  ReducedInv'
<1>1. CASE UNCHANGED <<gameVars, redVars>>
  <2>1. GameState' = GameState /\ RedState' = RedState /\ followed' = followed
    BY <1>1 DEF gameVars, redVars, GameState, RedState
  <2>2. GameInv'
    BY <1>1, StutterKeepsGameInv DEF ReducedInv
  <2> QED BY <2>1, <2>2 DEF ReducedInv
<1>2. CASE GameOver /\ UNCHANGED redVars
  BY <1>1, <1>2 DEF GameOver
<1>3. ASSUME NEW p \in Piece, NEW to \in Square, ApplyMove(p, to), Looks(<<p, to>>)
      PROVE  ReducedInv'
  <2>1. GameInv'
    BY <1>3, MoveKeepsGameInv DEF ReducedInv
  <2>2. CASE followed
    <3>1. Follow(<<p, to>>) /\ followed' = followed
      BY <1>3, <2>2 DEF Looks
    <3> QED BY <1>3, <2>1, <2>2, <3>1, FollowKeepsTwin DEF ReducedInv
  <2>3. CASE ~followed
    <3>1. followed' = followed
      BY <1>3, <2>3 DEF Looks, redVars
    <3> QED BY <2>1, <2>3, <3>1 DEF ReducedInv
  <2> QED BY <2>2, <2>3
<1>4. ASSUME NEW m \in Piece \X Square, ApplyMove(m[1], m[2]), Looks(m)
      PROVE  ReducedInv'
  <2>1. PICK p \in Piece, to \in Square : m = <<p, to>>
    OBVIOUS
  <2>2. ApplyMove(p, to) /\ Looks(<<p, to>>)
    BY <1>4, <2>1
  <2> QED BY <1>3, <2>2
<1> QED BY <1>1, <1>2, <1>4 DEF ReducedNext

LEMMA ReducedInvLosesNoSuccessor ==
  ASSUME ReducedInv
  PROVE  NoSuccessorIsLost
<1> SUFFICES ASSUME followed PROVE Keys(Classes) = Keys(Red!Classes)
  BY DEF NoSuccessorIsLost
<1>1. PICK f : Twin(f, "South", GameState, RedState)
  BY DEF ReducedInv
<1>2. \A k : k \in Keys(Classes) <=> k \in Keys(Red!Classes)
  BY <1>1, ClassKeys, RedClassKeys, TwinLeads
<1> QED BY <1>2

LEMMA ReducedInvRenames ==
  ASSUME ReducedInv
  PROVE  PositionsAreRenamed
<1> SUFFICES ASSUME followed
             PROVE  /\ \E r \in Renamings :
                         /\ \A p \in Piece :
                              /\ redOwner[r[p]] = owner[p] /\ redMask[r[p]] = mask[p]
                              /\ IF InHand(p) THEN redPos[r[p]] \in HandSlot
                                 ELSE redPos[r[p]] = pos[p]
                         /\ \A x \in Square :
                              redBoard[x] = IF board[x] = Empty THEN Empty ELSE r[board[x]]
                    /\ <<redSide, redTurn, redTerminal, redWinner>>
                         = <<sideToMove, turn, terminal, winner>>
  BY DEF PositionsAreRenamed
<1>0. "South" \in Side /\ "North" \in Side /\ \A x \in Square : PublicSquare(x, "South") = x
  BY PublicSquareFacts DEF Side
<1>1. PICK f : Twin(f, "South", GameState, RedState)
  BY DEF ReducedInv
<1>2. ASSUME NEW p \in Piece
      PROVE  /\ f[p] \in Piece /\ Origin[f[p]] = Origin[p] /\ Origin[p] \in Side
             /\ redOwner[f[p]] = owner[p] /\ redMask[f[p]] = mask[p]
             /\ IF InHand(p) THEN redPos[f[p]] \in HandSlot ELSE redPos[f[p]] = pos[p]
  BY <1>1, SouthTwin DEF GameState, RedState, InHand
<1>3. f \in [Piece -> Piece]
  BY <1>1 DEF Twin, Renaming
<1>4. ASSUME NEW side \in Side
      PROVE  \E g \in Bijection(Group(side), Group(side)) : \A p \in Group(side) : g[p] = f[p]
  <2> DEFINE G == Group(side)
             g == [p \in G |-> f[p]]
  <2>1. \A p \in G : p \in Piece /\ Origin[p] = side /\ f[p] \in G
    BY <1>2 DEF Group
  <2>2. g \in [G -> G] /\ \A p \in G : g[p] = f[p]
    BY <2>1
  <2>3. \A p, q \in G : g[p] = g[q] => p = q
    BY <1>1, <2>1, <2>2 DEF Twin, Renaming
  <2>4. \A q \in G : \E p \in G : g[p] = q
    <3> TAKE q \in G
    <3>1. PICK p \in Piece : f[p] = q
      BY <1>1, <2>1 DEF Twin, Renaming
    <3>2. p \in G
      BY <1>2, <2>1, <3>1 DEF Group
    <3> QED BY <2>2, <3>1, <3>2
  <2> HIDE DEF G, g
  <2>5. g \in Bijection(G, G)
    BY <2>2, <2>3, <2>4 DEF Bijection, Injection, IsInjective, Surjection
  <2> QED BY <2>2, <2>5 DEF G
<1>5. f \in Renamings
  <2>1. PICK s \in Bijection(Group("South"), Group("South")) :
          \A p \in Group("South") : s[p] = f[p]
    BY <1>0, <1>4
  <2>2. PICK n \in Bijection(Group("North"), Group("North")) :
          \A p \in Group("North") : n[p] = f[p]
    BY <1>0, <1>4
  <2>3. f = [p \in Piece |-> IF Origin[p] = "South" THEN s[p] ELSE n[p]]
    <3>1. \A p \in Piece : Origin[p] = "South" => p \in Group("South")
      BY DEF Group
    <3>2. \A p \in Piece : Origin[p] # "South" => p \in Group("North")
      BY <1>2 DEF Group, Side
    <3> QED BY <1>3, <2>1, <2>2, <3>1, <3>2
  <2> DEFINE shuffles(side) == Bijection(Group(side), Group(side))
             glued(a, b) == [p \in Piece |-> IF Origin[p] = "South" THEN a[p] ELSE b[p]]
  <2>4. Renamings = {glued(a, b) : a \in shuffles("South"), b \in shuffles("North")}
    BY DEF Renamings
  <2>5. s \in shuffles("South") /\ n \in shuffles("North") /\ f = glued(s, n)
    BY <2>1, <2>2, <2>3
  <2> HIDE DEF shuffles, glued
  <2> QED BY <2>4, <2>5
<1>6. ASSUME NEW x \in Square
      PROVE  redBoard[x] = IF board[x] = Empty THEN Empty ELSE f[board[x]]
  <2>1. PublicSquare(x, "South") = x
    BY <1>0
  <2> QED BY <1>1, <2>1 DEF Twin, SamePlaces, GameState, RedState
<1>7. /\ redSide = sideToMove /\ redTurn = turn
      /\ redTerminal = terminal /\ redWinner = winner
  <2>1. \A a \in Side : Relative(a, "South") = a
    BY <1>0, RelativeFacts
  <2>2. GameState.side \in Side /\ GameState.winner \in Side \cup {"None"}
    BY GameIsSeated DEF ReducedInv, IsState, HasResult
  <2>3. /\ RedState.side = GameState.side /\ RedState.turn = GameState.turn
        /\ RedState.terminal = GameState.terminal /\ RedState.winner = GameState.winner
    BY <1>1, <2>1, <2>2 DEF Twin, SameClock
  <2> QED BY <2>3 DEF GameState, RedState
<1> QED BY <1>2, <1>5, <1>6, <1>7

(* Following the game with the representatives of its moves' classes keeps *)
(* the search's position a renaming of the game.                           *)
THEOREM ReducedInvariant == ReducedSpec => []ReducedInv
<1>1. GameInit /\ FollowInit => ReducedInv
  BY InitReducedInv
<1>2. ReducedInv /\ [ReducedNext]_<<gameVars, redVars>> => ReducedInv'
  BY StepKeepsReducedInv
<1> QED BY <1>1, <1>2, PTL DEF ReducedSpec

(* reduce_successors costs a search no line of play, and the positions it  *)
(* reaches are the game's but for the names of pieces: canonical_key tells *)
(* apart exactly what the game does.                                       *)
THEOREM ReductionStaysExact == ReducedSpec => []ReductionIsExact
<1>1. ReducedInv => ReductionIsExact
  BY ReducedInvLosesNoSuccessor, ReducedInvRenames DEF ReductionIsExact
<1> QED BY <1>1, ReducedInvariant, PTL

-----------------------------------------------------------------------------
(* The hint. *)

(* Move <<p, to>> of the game leads to key k. *)
MoveLeads(p, to, k) ==
  /\ Admissible(p, to)
  /\ \E m \in MasksAfter(p, to) : k = KeyOf(After(GameState, p, to, m))

LEMMA AppliedMoves ==
  ASSUME NEW x, NEW k
  PROVE  (\E a \in Applied : a[1] = x /\ KeyAfter(a[1], a[2]) = k) <=>
         (\E p \in Piece, to \in Square : x = <<p, to>> /\ MoveLeads(p, to, k))
<1>1. ASSUME NEW a \in Applied, a[1] = x, KeyAfter(a[1], a[2]) = k
      PROVE  \E p \in Piece, to \in Square : x = <<p, to>> /\ MoveLeads(p, to, k)
  <2>1. PICK n \in Piece \X Square :
          Admissible(n[1], n[2]) /\ a \in {<<n, masks>> : masks \in MasksAfter(n[1], n[2])}
    BY DEF Applied
  <2>2. PICK masks \in MasksAfter(n[1], n[2]) : a = <<n, masks>>
    BY <2>1
  <2>3. PICK p \in Piece, to \in Square : n = <<p, to>>
    OBVIOUS
  <2>4. k = KeyAfter(<<p, to>>, masks) /\ x = <<p, to>>
    BY <1>1, <2>2, <2>3
  <2>5. k = KeyOf(After(GameState, p, to, masks))
    BY <2>4, KeyAfterIs
  <2> QED BY <2>1, <2>2, <2>3, <2>4, <2>5 DEF MoveLeads
<1>2. ASSUME NEW p \in Piece, NEW to \in Square, x = <<p, to>>, MoveLeads(p, to, k)
      PROVE  \E a \in Applied : a[1] = x /\ KeyAfter(a[1], a[2]) = k
  <2>1. PICK m \in MasksAfter(p, to) : k = KeyOf(After(GameState, p, to, m))
    BY <1>2 DEF MoveLeads
  <2>2. k = KeyAfter(x, m)
    BY <1>2, <2>1, KeyAfterIs
  <2>3. x \in Piece \X Square /\ x[1] = p /\ x[2] = to
    BY <1>2
  <2> DEFINE applied(n) == {<<n, masks>> : masks \in MasksAfter(n[1], n[2])}
             ms == {n \in Piece \X Square : Admissible(n[1], n[2])}
  <2>4. <<x, m>> \in applied(x) /\ x \in ms
    BY <1>2, <2>1, <2>3 DEF MoveLeads
  <2>5. Applied = UNION {applied(n) : n \in ms}
    BY DEF Applied
  <2> HIDE DEF applied, ms
  <2>6. <<x, m>> \in Applied
    BY <2>4, <2>5
  <2> QED BY <2>2, <2>6
<1> QED BY <1>1, <1>2

(* A class is a key with all moves that lead to it. *)
LEMMA ClassIs ==
  ASSUME NEW c \in Classes
  PROVE  /\ c.moves \subseteq Piece \X Square
         /\ \A p \in Piece, to \in Square : <<p, to>> \in c.moves <=> MoveLeads(p, to, c.key)
<1>1. ASSUME NEW x
      PROVE  x \in c.moves <=> \E a \in Applied : a[1] = x /\ KeyAfter(a[1], a[2]) = c.key
  <2> DEFINE keyed == {<<a[1], KeyAfter(a[1], a[2])>> : a \in Applied}
  <2>1. PICK k : c = [key |-> k, moves |-> {y[1] : y \in {z \in keyed : z[2] = k}}]
    BY DEF Classes
  <2>2. x \in c.moves <=> \E y \in keyed : y[2] = c.key /\ x = y[1]
    <3> HIDE DEF keyed
    <3> QED BY <2>1
  <2>3. ASSUME NEW y \in keyed, y[2] = c.key, x = y[1]
        PROVE  \E a \in Applied : a[1] = x /\ KeyAfter(a[1], a[2]) = c.key
    <3>1. PICK a \in Applied : y = <<a[1], KeyAfter(a[1], a[2])>>
      BY Zenon
    <3> QED BY <2>3, <3>1
  <2>4. ASSUME NEW a \in Applied, a[1] = x, KeyAfter(a[1], a[2]) = c.key
        PROVE  \E y \in keyed : y[2] = c.key /\ x = y[1]
    <3>1. PICK y : y = <<a[1], KeyAfter(a[1], a[2])>>
      OBVIOUS
    <3>2. y \in keyed /\ y[2] = c.key /\ y[1] = x
      BY <2>4, <3>1
    <3> HIDE DEF keyed
    <3> QED BY <3>2
  <2> QED BY <2>2, <2>3, <2>4
<1>2. \A x : x \in c.moves <=>
        \E p \in Piece, to \in Square : x = <<p, to>> /\ MoveLeads(p, to, c.key)
  BY <1>1, AppliedMoves
<1>3. c.moves \subseteq Piece \X Square
  BY <1>2
<1>4. \A p \in Piece, to \in Square : <<p, to>> \in c.moves <=> MoveLeads(p, to, c.key)
  BY <1>2
<1> QED BY <1>3, <1>4

(* Two moves lead to one key. *)
Duplicates(p, t, q, u) ==
  <<p, t>> # <<q, u>> /\ \E k : MoveLeads(p, t, k) /\ MoveLeads(q, u, k)

LEMMA ManyElements ==
  ASSUME NEW T, IsFiniteSet(T)
  PROVE  Cardinality(T) > 1 <=> \E x, y \in T : x # y
<1>1. ASSUME NEW x \in T, NEW y \in T, x # y PROVE Cardinality(T) > 1
  <2>1. Cardinality(T) \in Nat /\ Cardinality(T) # 0
    BY FS_CardinalityType, FS_EmptySet
  <2>2. Cardinality(T) # 1
    BY <1>1, FS_Singleton
  <2> QED BY <2>1, <2>2
<1>2. ASSUME ~ \E x, y \in T : x # y PROVE ~(Cardinality(T) > 1)
  <2>1. T = {} \/ \E x : T = {x}
    BY <1>2
  <2>2. Cardinality(T) = 0 \/ Cardinality(T) = 1
    BY <2>1, FS_EmptySet, FS_Singleton
  <2> QED BY <2>2
<1> QED BY <1>1, <1>2

LEMMA ClassesWithMany ==
  (\E c \in Classes : Cardinality(c.moves) > 1) <=>
  \E p, q \in Piece, t, u \in Square : Duplicates(p, t, q, u)
<1>0. ASSUME NEW c \in Classes
      PROVE  Cardinality(c.moves) > 1 <=> \E x, y \in c.moves : x # y
  <2>1. IsFiniteSet(Square)
    BY Places, FS_Interval DEF Square
  <2>2. IsFiniteSet(Piece \X Square)
    BY <2>1, GameConstants, FS_Product
  <2>3. c.moves \in SUBSET (Piece \X Square)
    BY ClassIs
  <2>4. IsFiniteSet(c.moves)
    BY <2>2, <2>3, FS_Subset
  <2> QED BY <2>4, ManyElements
<1>1. ASSUME NEW c \in Classes, Cardinality(c.moves) > 1
      PROVE  \E p, q \in Piece, t, u \in Square : Duplicates(p, t, q, u)
  <2>1. PICK x \in c.moves, y \in c.moves : x # y
    BY <1>0, <1>1
  <2>2. x \in Piece \X Square /\ y \in Piece \X Square
    BY ClassIs
  <2>3. PICK p \in Piece, t \in Square : x = <<p, t>>
    BY <2>2
  <2>4. PICK q \in Piece, u \in Square : y = <<q, u>>
    BY <2>2
  <2>5. MoveLeads(p, t, c.key) /\ MoveLeads(q, u, c.key)
    BY <2>1, <2>3, <2>4, ClassIs
  <2>6. Duplicates(p, t, q, u)
    BY <2>1, <2>3, <2>4, <2>5 DEF Duplicates
  <2> QED BY <2>6
<1>2. ASSUME NEW p \in Piece, NEW q \in Piece, NEW t \in Square, NEW u \in Square,
             Duplicates(p, t, q, u)
      PROVE  \E c \in Classes : Cardinality(c.moves) > 1
  <2>1. PICK k : MoveLeads(p, t, k) /\ MoveLeads(q, u, k)
    BY <1>2 DEF Duplicates
  <2>2. Leads(GameState, k)
    BY <2>1, AtGame DEF Leads, MoveLeads
  <2>3. PICK c \in Classes : c.key = k
    BY <2>2, ClassKeys DEF Keys
  <2>4. <<p, t>> \in c.moves /\ <<q, u>> \in c.moves
    BY <2>1, <2>3, ClassIs
  <2> QED BY <1>0, <1>2, <2>3, <2>4 DEF Duplicates
<1> QED BY <1>1, <1>2

LEMMA RoomForDrop ==
  ASSUME GameInv, NEW p \in Piece, pos[p] \in HandSlot
  PROVE  \E x \in Square : board[x] = Empty
<1> SUFFICES ASSUME \A x \in Square : board[x] # Empty PROVE FALSE
  OBVIOUS
<1>1. GameTypeOK /\ BoardConsistent
  BY DEF GameInv
<1>2. pos[p] \notin Square
  BY Places
<1>3. ASSUME NEW x \in Square PROVE board[x] \in Piece \ {p} /\ pos[board[x]] = x
  BY <1>1, <1>2 DEF GameTypeOK, BoardConsistent
<1>4. board \in [Square -> Piece \ {p}]
  BY <1>1, <1>3 DEF GameTypeOK
<1>5. /\ IsFiniteSet(Piece \ {p}) /\ Cardinality(Piece \ {p}) = Cardinality(Piece) - 1
      /\ Cardinality(Piece) \in Nat
  BY FS_RemoveElement, FS_CardinalityType, GameConstants
<1>6. IsFiniteSet(Square)
  BY Places, FS_Interval DEF Square
<1>7. Cardinality(Piece) <= Cardinality(Square)
  <2>1. Home \in Injection(Piece, Square)
    BY GameConstants DEF Injection, IsInjective
  <2> QED BY <1>6, <2>1, FS_Injection
<1>8. Cardinality(Square) \in Nat
  BY <1>6, FS_CardinalityType
<1>9. \E x, y \in Square : x # y /\ board[x] = board[y]
  BY <1>4, <1>5, <1>6, <1>7, <1>8, FS_PigeonHole
<1> QED BY <1>3, <1>9

(* Two hand pieces of one origin and one mask may change places. *)
LEMMA HandPiecesSwap ==
  ASSUME GameInv, NEW p \in Piece, NEW q \in Piece,
         pos[p] \in HandSlot, pos[q] \in HandSlot,
         owner[p] = owner[q], mask[p] = mask[q], Origin[p] = Origin[q]
  PROVE  \E f : Twin(f, "South", GameState, GameState) /\ f[p] = q
<1> DEFINE f == [r \in Piece |-> IF r = p THEN q ELSE IF r = q THEN p ELSE r]
<1>0. "South" \in Side /\ (\A x \in Square : PublicSquare(x, "South") = x)
      /\ \A a \in Side : Relative(a, "South") = a
  BY PublicSquareFacts, RelativeFacts DEF Side
<1>1. IsState(GameState) /\ Seated(GameState) /\ HasResult(GameState)
  BY GameIsSeated
<1>2. /\ GameState.board = board /\ GameState.pos = pos /\ GameState.mask = mask
      /\ GameState.owner = owner /\ GameState.side = sideToMove
      /\ GameState.winner = winner
  BY DEF GameState
<1>3. pos[p] \notin Square /\ pos[q] \notin Square
  BY Places
<1>4. f \in Renaming("South")
  BY <1>0, LineageConstants DEF Renaming
<1>5. SamePlaces(f, "South", GameState, GameState)
  <2>1. ASSUME NEW x \in Square PROVE board[x] = IF board[x] = Empty THEN Empty ELSE f[board[x]]
    <3>1. board[x] # Empty => board[x] \in Piece /\ board[x] # p /\ board[x] # q
      BY <1>1, <1>2, <1>3 DEF IsState, Seated
    <3> QED BY <3>1
  <2>2. ASSUME NEW r \in Piece
        PROVE  IF pos[r] \in Square THEN pos[f[r]] = pos[r] ELSE pos[f[r]] \in HandSlot
    <3>1. pos[r] \in Square \cup HandSlot
      BY <1>1, <1>2 DEF IsState
    <3> QED BY <1>3, <3>1
  <2> HIDE DEF f
  <2> QED BY <1>0, <1>2, <2>1, <2>2 DEF SamePlaces
<1>6. SamePieces(f, "South", GameState, GameState)
  <2>1. \A r \in Piece : mask[f[r]] = mask[r] /\ owner[f[r]] = owner[r] /\ owner[r] \in Side
    BY <1>1, <1>2 DEF IsState
  <2> HIDE DEF f
  <2> QED BY <1>0, <1>2, <2>1 DEF SamePieces, Renamed
<1>7. SameClock("South", GameState, GameState)
  BY <1>0, <1>1, <1>2 DEF SameClock, IsState, HasResult
<1>8. f[p] = q
  OBVIOUS
<1> HIDE DEF f
<1> QED BY <1>1, <1>4, <1>5, <1>6, <1>7, <1>8 DEF Twin

LEMMA HintMakesDuplicates ==
  ASSUME GameInv, terminal = "None", HasDuplicateDropHint
  PROVE  \E p, q \in Piece, t, u \in Square : Duplicates(p, t, q, u)
<1>1. PICK p \in Piece, q \in Piece :
        /\ p # q
        /\ pos[p] \in HandSlot /\ owner[p] = sideToMove
        /\ pos[q] \in HandSlot /\ owner[q] = sideToMove
        /\ mask[p] = mask[q] /\ Origin[p] = Origin[q]
  BY DEF HasDuplicateDropHint, InHand, Owns
<1>2. PICK t \in Square : board[t] = Empty
  BY <1>1, RoomForDrop
<1>3. Legal(p, t) /\ Legal(q, t)
  <2>1. PseudoLegal(p, t) /\ PseudoLegal(q, t)
    BY <1>1, <1>2 DEF PseudoLegal, Owns, InHand
  <2> QED BY <2>1, CandidateIsLegal
<1>4. PICK f : Twin(f, "South", GameState, GameState) /\ f[p] = q
  BY <1>1, HandPiecesSwap
<1>5. "South" \in Side /\ PublicSquare(t, "South") = t /\ IsState(GameState)
  BY PublicSquareFacts, GameIsSeated DEF Side
<1>6. PICK m \in MasksAfter(p, t), n \in MasksAfter(q, t) : TRUE
  BY <1>3 DEF Legal
<1>7. m \in At(GameState)!MasksAfter(p, t) /\ n \in At(GameState)!MasksAfter(q, t)
  BY <1>6, AtGame
<1>8. m \in Mask /\ n \in Mask /\ Renamed(f, m, n)
  BY <1>4, <1>5, <1>7, TwinMasks
<1>9. Twin(f, "South", After(GameState, p, t, m), After(GameState, q, t, n))
  BY <1>4, <1>5, <1>8, TwinAfter
<1>10. HasResult(After(GameState, p, t, m))
  BY <1>5, StateHasResult
<1>11. KeyOf(After(GameState, p, t, m)) = KeyOf(After(GameState, q, t, n))
  BY <1>9, <1>10, TwinKeys
<1>12. PICK k : k = KeyOf(After(GameState, p, t, m))
  OBVIOUS
<1>13. MoveLeads(p, t, k) /\ MoveLeads(q, t, k)
  BY <1>3, <1>6, <1>11, <1>12 DEF Legal, MoveLeads
<1>14. <<p, t>> # <<q, t>>
  BY <1>1
<1> QED BY <1>13, <1>14 DEF Duplicates

(* States with one key show the same on every square. *)
SameFaces(A, B) ==
  \A x \in Square :
    /\ A.board[x] = Empty <=> B.board[x] = Empty
    /\ A.board[x] # Empty => Face(A, A.board[x]) = Face(B, B.board[x])

LEMMA OneKeyOneBoard ==
  ASSUME NEW A, NEW B, KeyOf(A) = KeyOf(B)
  PROVE  SameFaces(A, B)
<1>1. [x \in Square |-> IF A.board[x] = Empty THEN {} ELSE {Face(A, A.board[x])}]
        = [x \in Square |-> IF B.board[x] = Empty THEN {} ELSE {Face(B, B.board[x])}]
  BY DEF KeyOf
<1>2. ASSUME NEW x \in Square
      PROVE  (IF A.board[x] = Empty THEN {} ELSE {Face(A, A.board[x])})
               = (IF B.board[x] = Empty THEN {} ELSE {Face(B, B.board[x])})
  BY <1>1
<1> QED BY <1>2 DEF SameFaces

(* What move <<p, t>> leaves in A, as a key shows it. *)
Leaves(p, t, A) ==
  /\ \A x \in Square : A.board[x] =
       IF x = t THEN p ELSE IF x = pos[p] THEN Empty ELSE board[x]
  /\ \A r \in Piece : A.owner[r] = IF r = board[t] THEN sideToMove ELSE owner[r]

LEMMA MoveLeaves ==
  ASSUME NEW p, NEW t, NEW m
  PROVE  Leaves(p, t, After(GameState, p, t, m)) /\ After(GameState, p, t, m).mask = m
<1> DEFINE A == After(GameState, p, t, m)
<1>1. /\ A.board = At(GameState)!BoardAfter(p, t) /\ A.owner = At(GameState)!OwnerAfter(p, t)
      /\ A.mask = m
  BY AfterIs
<1> HIDE DEF A
<1>2. A.board = BoardAfter(p, t) /\ A.owner = OwnerAfter(p, t)
  BY <1>1, AtGame
<1> QED BY <1>1, <1>2 DEF Leaves, BoardAfter, OwnerAfter, A

(* A move on the board shares its key with no other move. *)
LEMMA BoardMoveIsAlone ==
  ASSUME GameInv, NEW p \in Piece, NEW t \in Square, NEW q \in Piece, NEW u \in Square,
         Admissible(p, t), Admissible(q, u), pos[p] \in Square,
         NEW A, NEW B, Leaves(p, t, A), Leaves(q, u, B), SameFaces(A, B)
  PROVE  q = p /\ u = t
<1>1. /\ \A x \in Square : board[x] \in Piece \cup {Empty}
      /\ \A x \in Square : board[x] # Empty => pos[board[x]] = x
      /\ \A r \in Piece : pos[r] \in Square => board[pos[r]] = r
      /\ Empty \notin Piece
  BY GameConstants DEF GameInv, GameTypeOK, BoardConsistent, OnBoard
<1>2. /\ owner[p] = sideToMove /\ owner[q] = sideToMove
      /\ board[t] # Empty => owner[board[t]] # sideToMove
      /\ board[u] # Empty => owner[board[u]] # sideToMove
  BY DEF Admissible, MovePreconditionsHold, Owns
<1>3. board[pos[p]] = p /\ t # pos[p] /\ u # pos[p]
  BY <1>1, <1>2
<1>4. A.board[pos[p]] = Empty
  BY <1>3 DEF Leaves
<1>5. B.board[pos[p]] = Empty
  BY <1>4 DEF SameFaces
<1>6. pos[p] = pos[q]
  BY <1>1, <1>3, <1>5 DEF Leaves
<1>7. q = p
  BY <1>1, <1>3, <1>6
<1>8. ASSUME t # u PROVE FALSE
  <2>1. A.board[t] = p /\ p # Empty
    BY <1>1 DEF Leaves
  <2>2. PICK c : c = board[t]
    OBVIOUS
  <2>3. B.board[t] = c
    BY <1>3, <1>6, <1>8, <2>2 DEF Leaves
  <2>4. c # Empty /\ Face(A, p) = Face(B, c)
    BY <2>1, <2>3 DEF SameFaces
  <2>5. c \in Piece /\ owner[c] # sideToMove /\ c # board[u]
    BY <1>1, <1>2, <1>8, <2>2, <2>4
  <2>6. A.owner[p] = sideToMove /\ B.owner[c] # sideToMove
    BY <1>2, <2>5 DEF Leaves
  <2> QED BY <2>4, <2>6 DEF Face
<1> QED BY <1>7, <1>8

(* A drop says nothing about any piece. *)
LEMMA DropKeepsMasks ==
  ASSUME GameInv, NEW p \in Piece, NEW t \in Square, pos[p] \in HandSlot, Admissible(p, t),
         NEW m \in MasksAfter(p, t)
  PROVE  m = mask
<1>1. board[t] = Empty /\ Empty \notin Piece /\ ~OnBoard(p)
  BY Places, GameConstants DEF Admissible, OriginEffectsPossible, InHand, OnBoard
<1>2. mask \in Mask /\ Settled(mask)
  BY DEF GameInv, GameTypeOK, MasksSettled
<1>3. mask = [r \in Piece |-> mask[r]]
  BY <1>2 DEF Mask
<1>4. CollapsedMask(p, t) = mask
  BY <1>1, <1>3 DEF CollapsedMask
<1>5. Propagate(mask) = {mask}
  BY <1>2 DEF Settled, Propagate
<1>6. Resolved(p, t, mask) = mask
  BY <1>1 DEF Resolved
<1> QED BY <1>4, <1>5, <1>6 DEF MasksAfter

LEMMA DuplicatesMakeHint ==
  ASSUME GameInv, NEW p \in Piece, NEW q \in Piece, NEW t \in Square, NEW u \in Square,
         Duplicates(p, t, q, u)
  PROVE  HasDuplicateDropHint
<1>1. PICK k : MoveLeads(p, t, k) /\ MoveLeads(q, u, k)
  BY DEF Duplicates
<1>2. PICK m \in MasksAfter(p, t) : k = KeyOf(After(GameState, p, t, m))
  BY <1>1 DEF MoveLeads
<1>3. PICK n \in MasksAfter(q, u) : k = KeyOf(After(GameState, q, u, n))
  BY <1>1 DEF MoveLeads
<1>4. PICK A : A = After(GameState, p, t, m)
  OBVIOUS
<1>5. PICK B : B = After(GameState, q, u, n)
  OBVIOUS
<1>6. Leaves(p, t, A) /\ A.mask = m /\ Leaves(q, u, B) /\ B.mask = n
  BY <1>4, <1>5, MoveLeaves
<1>7. SameFaces(A, B) /\ SameFaces(B, A)
  BY <1>2, <1>3, <1>4, <1>5, OneKeyOneBoard
<1>8. /\ Admissible(p, t) /\ Admissible(q, u)
      /\ pos[p] \in Square \cup HandSlot /\ pos[q] \in Square \cup HandSlot
  BY <1>1 DEF MoveLeads, GameInv, GameTypeOK
<1>9. <<p, t>> # <<q, u>>
  BY DEF Duplicates
<1>10. pos[p] \in HandSlot
  BY <1>6, <1>7, <1>8, <1>9, BoardMoveIsAlone
<1>11. pos[q] \in HandSlot
  BY <1>6, <1>7, <1>8, <1>9, BoardMoveIsAlone
<1>12. /\ board[t] = Empty /\ board[u] = Empty
       /\ owner[p] = sideToMove /\ owner[q] = sideToMove
       /\ Empty \notin Piece
  BY <1>8, <1>10, <1>11, GameConstants
  DEF Admissible, MovePreconditionsHold, OriginEffectsPossible, InHand, Owns
<1>13. A.board[t] = p
  BY <1>6 DEF Leaves
<1>14. t = u
  <2>1. SUFFICES ASSUME t # u PROVE FALSE
    OBVIOUS
  <2>2. B.board[t] = Empty
    BY <1>6, <1>12, <2>1 DEF Leaves
  <2> QED BY <1>7, <1>12, <1>13, <2>2 DEF SameFaces
<1>15. p # q /\ B.board[t] = q
  BY <1>6, <1>9, <1>14 DEF Leaves
<1>16. Face(A, p) = Face(B, q)
  BY <1>7, <1>12, <1>13, <1>15 DEF SameFaces
<1>17. Origin[p] = Origin[q] /\ m[p] = n[q]
  BY <1>6, <1>16 DEF Face
<1>18. m = mask /\ n = mask
  BY <1>8, <1>10, <1>11, DropKeepsMasks
<1> QED BY <1>10, <1>11, <1>12, <1>15, <1>17, <1>18 DEF HasDuplicateDropHint, InHand, Owns

(* has_duplicate_drop_hint looks at one hand only, and yet tells exactly   *)
(* whether some of the successors are the same.                            *)
THEOREM HintStaysExact == ReducedSpec => []HintIsExact
<1>1. ReducedInv => HintIsExact
  <2> SUFFICES ASSUME GameInv, terminal = "None"
               PROVE  HasDuplicateDropHint <=> \E c \in Classes : Cardinality(c.moves) > 1
    BY DEF ReducedInv, HintIsExact
  <2>1. ASSUME HasDuplicateDropHint PROVE \E c \in Classes : Cardinality(c.moves) > 1
    BY <2>1, HintMakesDuplicates, ClassesWithMany
  <2>2. ASSUME \E c \in Classes : Cardinality(c.moves) > 1 PROVE HasDuplicateDropHint
    BY <2>2, DuplicatesMakeHint, ClassesWithMany
  <2> QED BY <2>1, <2>2
<1> QED BY <1>1, ReducedInvariant, PTL

=============================================================================
