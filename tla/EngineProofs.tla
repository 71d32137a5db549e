---------------------------- MODULE EngineProofs ----------------------------
(***************************************************************************)
(* Proofs about how the engine thinks: its identity solver, for any set of *)
(* pieces that can take the animals one each, and its search, for any game *)
(* of bounded length, any options, windows, table and order of moves.      *)
(*                                                                         *)
(* The search's invariant SearchInv says of every number under way what it *)
(* bounds.  A score carries two claims (AtLeast, AtMost): a mate that it   *)
(* announces is forced, always; and where it looks as far as any search    *)
(* has (Seen), it bounds the minimax value.  Each entry of the table makes *)
(* the claims of its bound; each frame, those of best over the moves it    *)
(* has tried and of alpha; each call, those its caller will rely on; and   *)
(* the frame called keeps to the window its caller opened (Link).          *)
(***************************************************************************)
EXTENDS QuantumState, Search, WellFoundedInduction, SequenceTheorems, TLAPS

-----------------------------------------------------------------------------
(* The identity solver. *)

SolverInv == SolverTypeOK /\ MasksAreMarginals

(* Normalised masks allow the assignments the masks before them allowed,   *)
(* no fewer and no more.                                                   *)
LEMMA NormalizeKeepsAssignments ==
  ASSUME NEW m
  PROVE  Assignments(Normalize(m)) = Assignments(m)
<1>1. ASSUME NEW a \in Assignments(Normalize(m))
      PROVE  a \in Assignments(m)
  <2>1. ASSUME NEW p \in Piece
        PROVE  a[p] \in m[p]
    <3>1. a[p] \in Normalize(m)[p]
      BY <1>1 DEF Assignments
    <3>2. PICK b \in Assignments(m) : a[p] = b[p]
      BY <3>1 DEF Normalize
    <3>3. QED
      BY <3>2 DEF Assignments
  <2>2. QED
    BY <1>1, <2>1 DEF Assignments
<1>2. ASSUME NEW a \in Assignments(m)
      PROVE  a \in Assignments(Normalize(m))
  <2>1. \A p \in Piece : a[p] \in Normalize(m)[p]
    BY <1>2 DEF Normalize
  <2>2. QED
    BY <1>2, <2>1 DEF Assignments
<1>3. QED
  BY <1>1, <1>2

(* Cutting one mask excludes the assignments that contradict the           *)
(* observation, and no others.                                             *)
LEMMA CutExcludes ==
  ASSUME SolverTypeOK, NEW p \in Piece, NEW allowed
  PROVE  Assignments(Cut(p, allowed)) = {a \in Assignments(masks) : a[p] \in allowed}
<1>1. \A q \in Piece :
        Cut(p, allowed)[q] = IF q = p THEN masks[q] \cap allowed ELSE masks[q]
  BY DEF SolverTypeOK, Cut
<1>2. QED
  BY <1>1 DEF Assignments

(* What normalisation leaves is what some assignment supports.             *)
LEMMA NormalizeSupports ==
  ASSUME NEW m, Assignments(m) # {}
  PROVE  /\ Normalize(m) \in [Piece -> (SUBSET Animal) \ {{}}]
         /\ \A p \in Piece, x \in Animal :
              x \in Normalize(m)[p] <=> \E a \in Assignments(Normalize(m)) : a[p] = x
<1>1. \A a \in Assignments(m), p \in Piece : a[p] \in Animal
  BY DEF Assignments, Assignment
<1>2. \A p \in Piece : Normalize(m)[p] = {a[p] : a \in Assignments(m)}
  BY DEF Normalize
<1>3. ASSUME NEW p \in Piece
      PROVE  Normalize(m)[p] \in (SUBSET Animal) \ {{}}
  <2>1. PICK a : a \in Assignments(m)
    OBVIOUS
  <2>2. a[p] \in Normalize(m)[p]
    BY <1>2, <2>1
  <2>3. Normalize(m)[p] \subseteq Animal
    BY <1>1, <1>2
  <2>4. QED
    BY <2>2, <2>3
<1>4. Normalize(m) \in [Piece -> (SUBSET Animal) \ {{}}]
  BY <1>3 DEF Normalize
<1>5. QED
  BY <1>2, <1>4, NormalizeKeepsAssignments

(* Any piece may be any animal before the first observation: exchange the  *)
(* piece with the one that has the animal.                                 *)
LEMMA EveryAnimalPossible ==
  ASSUME NEW p \in Piece, NEW x \in Animal
  PROVE  \E a \in Assignment : a[p] = x
<1>1. PICK a : a \in Assignment
  BY QuantumConstants
<1>2. PICK q \in Piece : a[q] = x
  BY <1>1 DEF Assignment
<1>3. a \in [Piece -> Animal]
  BY <1>1 DEF Assignment
<1> DEFINE b == [r \in Piece |-> IF r = p THEN a[q] ELSE IF r = q THEN a[p] ELSE a[r]]
<1>4. b \in [Piece -> Animal]
  BY <1>3
<1>5. \A r, s \in Piece : b[r] = b[s] => r = s
  <2>1. \A r, s \in Piece : a[r] = a[s] => r = s
    BY <1>1 DEF Assignment
  <2>2. QED
    BY <2>1
<1>6. \A y \in Animal : \E r \in Piece : b[r] = y
  <2>1. ASSUME NEW y \in Animal
        PROVE  \E r \in Piece : b[r] = y
    <3>1. PICK r \in Piece : a[r] = y
      BY <1>1 DEF Assignment
    <3>2. b[IF r = p THEN q ELSE IF r = q THEN p ELSE r] = y
      BY <3>1
    <3>3. QED
      BY <3>2
  <2>2. QED
    BY <2>1
<1>7. b \in Assignment /\ b[p] = x
  BY <1>2, <1>4, <1>5, <1>6 DEF Assignment
<1>8. QED
  BY <1>7

(* Before the first observation all assignments are possible.              *)
LEMMA InitAssignments ==
  ASSUME SolverInit
  PROVE  Assignments(masks) = Assignment
BY DEF SolverInit, Assignments, Assignment

(* Every operation is a constraint of one piece.                           *)
LEMMA OperationsConstrain ==
  ASSUME SolverNext
  PROVE  \E p \in Piece, allowed \in SUBSET Form : Constrain(p, allowed)
<1>1. PICK p \in Piece :
        \/ \E dx, dy \in -1..1, side \in Side : ObserveMove(p, dx, dy, side)
        \/ \E x \in Form : Require(p, x)
        \/ \E x \in Form : Eliminate(p, x)
        \/ \E x \in Form : MeasureCapture(p, x)
  BY DEF SolverNext
<1>2. CASE \E dx, dy \in -1..1, side \in Side : ObserveMove(p, dx, dy, side)
  <2>1. PICK dx \in -1..1, dy \in -1..1, side \in Side : ObserveMove(p, dx, dy, side)
    BY <1>2
  <2>2. Constrain(p, AnimalsForMove(dx, dy, side))
    BY <2>1 DEF ObserveMove
  <2>3. AnimalsForMove(dx, dy, side) \in SUBSET Form
    BY DEF AnimalsForMove, Form
  <2>4. QED
    BY <2>2, <2>3
<1>3. CASE \E x \in Form : Require(p, x)
  BY <1>3 DEF Require
<1>4. CASE \E x \in Form : Eliminate(p, x)
  <2>1. \A x \in Form : Animal \ {x} \in SUBSET Form
    BY DEF Form
  <2>2. QED
    BY <1>4, <2>1 DEF Eliminate
<1>5. CASE \E x \in Form : MeasureCapture(p, x)
  BY <1>5 DEF MeasureCapture, Require
<1>6. QED
  BY <1>1, <1>2, <1>3, <1>4, <1>5

(* The masks always have their type and show exactly what is possible.     *)
THEOREM SolverInvariant == SolverSpec => []SolverInv
<1>1. SolverInit => SolverInv
  <2> SUFFICES ASSUME SolverInit PROVE SolverInv
    OBVIOUS
  <2>1. SolverTypeOK
    BY DEF SolverInit, SolverTypeOK, Animal
  <2>2. \A p \in Piece, x \in Animal : x \in masks[p] /\ Matching(p, x) # {}
    BY InitAssignments, EveryAnimalPossible DEF SolverInit, Matching
  <2>3. QED
    BY <2>1, <2>2 DEF SolverInv, MasksAreMarginals
<1>2. SolverInv /\ [SolverNext]_masks => SolverInv'
  <2> SUFFICES ASSUME SolverInv, [SolverNext]_masks PROVE SolverInv'
    OBVIOUS
  <2>1. CASE masks' = masks
    BY <2>1 DEF SolverInv, SolverTypeOK, MasksAreMarginals, Matching
  <2>2. CASE SolverNext
    <3>1. PICK p \in Piece, allowed \in SUBSET Form : Constrain(p, allowed)
      BY <2>2, OperationsConstrain
    <3>2. CASE Assignments(Cut(p, allowed)) # {}
      <4>1. masks' = Normalize(Cut(p, allowed))
        BY <3>1, <3>2 DEF Constrain
      <4>2. SolverTypeOK'
        BY <3>2, <4>1, NormalizeSupports DEF SolverTypeOK
      <4>3. \A q \in Piece, x \in Animal :
              x \in masks'[q] <=> \E a \in Assignments(masks') : a[q] = x
        BY <3>2, <4>1, NormalizeSupports
      <4>4. MasksAreMarginals'
        BY <4>3 DEF MasksAreMarginals, Matching
      <4>5. QED
        BY <4>2, <4>4 DEF SolverInv
    <3>3. CASE Assignments(Cut(p, allowed)) = {}
      <4>1. masks' = masks
        BY <3>1, <3>3 DEF Constrain
      <4>2. QED
        BY <2>1, <4>1
    <3>4. QED
      BY <3>2, <3>3
  <2>3. QED
    BY <2>1, <2>2
<1>3. QED
  BY <1>1, <1>2, PTL DEF SolverSpec

(* Every piece keeps at least one animal, all through the input.           *)
THEOREM SolverTypesCorrect == SolverSpec => []SolverTypeOK
<1>1. SolverInv => SolverTypeOK
  BY DEF SolverInv
<1>2. QED
  BY <1>1, SolverInvariant, PTL

(* A mask shows an animal exactly when its probability is not zero.        *)
THEOREM MasksStayMarginals == SolverSpec => []MasksAreMarginals
<1>1. SolverInv => MasksAreMarginals
  BY DEF SolverInv
<1>2. QED
  BY <1>1, SolverInvariant, PTL

(* The solver implements Identities: its masks stand for the set of worlds *)
(* that agree with all it was told, although it never keeps that set.      *)
THEOREM SolverImplementsIdentities == SolverSpec => KnowledgeImplemented
<1>1. SolverInit => Known!KnowInit
  BY InitAssignments DEF Known!KnowInit, Known!Permutation, Assignment
<1>2. SolverInv /\ [SolverNext]_masks => [Known!KnowNext]_(Assignments(masks))
  <2> SUFFICES ASSUME SolverInv, [SolverNext]_masks
               PROVE  [Known!KnowNext]_(Assignments(masks))
    OBVIOUS
  <2>1. CASE masks' = masks
    BY <2>1
  <2>2. CASE SolverNext
    <3>1. PICK p \in Piece, allowed \in SUBSET Form : Constrain(p, allowed)
      BY <2>2, OperationsConstrain
    <3>2. CASE Assignments(Cut(p, allowed)) # {}
      <4>1. Assignments(masks') = Assignments(Cut(p, allowed))
        BY <3>1, <3>2, NormalizeKeepsAssignments DEF Constrain
      <4>2. Assignments(Cut(p, allowed))
              = {a \in Assignments(masks) : a[p] \in allowed \cap Animal}
        <5>1. \A a \in Assignments(masks) : a[p] \in Animal
          BY DEF Assignments, Assignment
        <5>2. QED
          BY <5>1, CutExcludes DEF SolverInv
      <4>3. Known!Observe(p, allowed \cap Animal)
        BY <3>2, <4>1, <4>2 DEF Known!Observe, Known!Agreeing
      <4>4. QED
        BY <4>3 DEF Known!KnowNext
    <3>3. CASE Assignments(Cut(p, allowed)) = {}
      BY <2>1, <3>1, <3>3 DEF Constrain
    <3>4. QED
      BY <3>2, <3>3
  <2>3. QED
    BY <2>1, <2>2
<1>3. QED
  BY <1>1, <1>2, SolverInvariant, PTL DEF SolverSpec, KnowledgeImplemented, Known!KnowSpec

-----------------------------------------------------------------------------
(* The invariant of the search. *)

(* No position is of a later turn.                                         *)
LastTurn == Longest - 1

(* Scores as the table counts mates, from the position itself, and as a    *)
(* search counts them that reached the position at a ply.                  *)
PosScore(p, v) ==
  v \in Int /\ (MateScore(v) => Mate - (LastTurn - Turn[p]) <= Abs(v) /\ Abs(v) <= Mate)

PlyScore(p, ply, v) ==
  v \in Int /\ (MateScore(v) => Mate - (LastTurn - Turn[p]) - ply <= Abs(v) /\ Abs(v) <= Mate - ply)

(* What an entry for p at depth d may say when the furthest turn looked at *)
(* is h: a mate it announces is forced, and if the entry looks as far as   *)
(* h it bounds the minimax value.                                          *)
AtLeast(h, p, d, v) ==
  /\ v > Mate - Margin => Wins(p, v)
  /\ Turn[p] + d = h => v <= Value[d][p]

AtMost(h, p, d, v) ==
  /\ v < Margin - Mate => Loses(p, v)
  /\ Turn[p] + d = h => Value[d][p] <= v

(* The same of a score at a ply of the search.                             *)
Lower(h, p, d, ply, v) == PlyScore(p, ply, v) /\ AtLeast(h, p, d, ToTable(v, ply))
Upper(h, p, d, ply, v) == PlyScore(p, ply, v) /\ AtMost(h, p, d, ToTable(v, ply))

(* What an entry of the table says.                                        *)
EntrySound(h, e) ==
  e.pos # NoPos =>
    /\ e.depth \in Nat /\ PosScore(e.pos, e.score) /\ Reach(e) <= h
    /\ e.bound # "upper" => AtLeast(h, e.pos, e.depth, e.score)
    /\ e.bound # "lower" => AtMost(h, e.pos, e.depth, e.score)

FrameType ==
  [pos : Pos, depth : Nat, alpha : Int, beta : Int, original : Int, best : Int,
   move : Pos \cup {NoPos}, todo : SUBSET Pos, tried : Pos \cup {NoPos},
   first : BOOLEAN, scout : BOOLEAN]

(* A frame at index i of the stack of a search of r to depth d. *)
Shaped(r, d, f, i) ==
  /\ f \in FrameType
  /\ f.depth = d - (i - 1) /\ Turn[f.pos] = Turn[r] + (i - 1)
  /\ -Infinity <= f.original /\ f.original <= f.alpha /\ f.alpha < Infinity
  /\ f.todo \subseteq Moves[f.pos] /\ f.best \in Score
  /\ f.original < f.beta /\ f.beta <= Infinity

(* A best score so far is one that every move could have.                  *)
Backed(p, ply, v) == \A m \in Moves[p] : PlyScore(m, ply + 1, -v)

(* The loop over moves: what best and alpha say once all moves but the     *)
(* pending ones are searched.                                              *)
Working(h, f, ply, pending) ==
  /\ Moves[f.pos] # {} /\ f.depth > 0
  /\ f.best = -Infinity \/ Backed(f.pos, ply, f.best)
  /\ f.best <= f.alpha
  /\ f.alpha < f.beta \/ (f.beta <= f.best /\ f.todo = {})
  /\ f.alpha > f.original => Lower(h, f.pos, f.depth, ply, f.alpha)
  /\ f.best < f.beta =>
       \A m \in Moves[f.pos] \ pending :
         f.best # -Infinity /\ Lower(h, m, f.depth - 1, ply + 1, -f.best)

(* The loop while its call for the move tried is under way.                *)
Waiting(h, f, ply) ==
  /\ Working(h, f, ply, f.todo \cup {f.tried})
  /\ f.tried \in Moves[f.pos] /\ f.alpha < f.beta

(* The window g has called f with; only its own entry narrows it. *)
CalledAlpha(g) == IF g.scout THEN -g.alpha - 1 ELSE -g.beta

(* The frame f that g has called, at the ply of f.                         *)
Link(h, g, f, ply) ==
  /\ f.pos = g.tried /\ f.original = CalledAlpha(g) /\ f.beta <= -g.alpha
  /\ f.beta < -g.alpha => Upper(h, f.pos, f.depth, ply, f.beta)

(* What a call returns to g, at ply, where the search was not stopped. *)
Answers(h, g, ply, v) ==
  /\ PlyScore(g.tried, ply, v)
  /\ v > CalledAlpha(g) => Lower(h, g.tried, g.depth - 1, ply, v)
  /\ v < -g.alpha => Upper(h, g.tried, g.depth - 1, ply, v)

(* The frame of search_root, which never narrows its own window.           *)
RootFrame(h, f) ==
  /\ f.pos = root /\ f.original = iter.alpha /\ f.beta = iter.beta
  /\ f.alpha = Larger(f.original, f.best)
  /\ f.best > f.original =>
       f.move \in Moves[root] /\ Upper(h, f.move, f.depth - 1, 1, -f.best)

(* Horizon, but for a root not searched yet.                               *)
Seen == IF iter.depth = 0 THEN deepest ELSE Larger(deepest, Turn[root] + iter.depth)

(* Where find_best_move is, and what it then has.                          *)
Phase ==
  /\ stack \in Seq(FrameType)
  /\ pc \in {"idle", "deepen", "window"} <=> stack = <<>>
  /\ iter.depth > 0 => root \in Pos
  /\ pc # "idle" => iter.depth > 0 /\ Moves[root] # {}
  /\ pc \notin {"idle", "deepen"} => iter.alpha < iter.beta

(* Every frame that waits, the frame that works, and what one returned.    *)
StackSound ==
  /\ \A i \in 1 .. Len(stack) : Shaped(root, iter.depth, stack[i], i)
  /\ \A i \in 1 .. Len(stack) :
       (i < Len(stack) \/ pc = "return") => Waiting(Seen, stack[i], i - 1)
  /\ \A i \in 2 .. Len(stack) : Link(Seen, stack[i - 1], stack[i], i - 1)
  /\ stack # <<>> => RootFrame(Seen, stack[1])
  /\ pc = "loop" => Working(Seen, Top, Ply, Top.todo)
  /\ pc = "visit" =>
       Len(stack) > 1 /\ Top = Frame(Top.pos, Top.depth, Top.alpha, Top.beta)
  /\ pc = "return" /\ ~stopped => Answers(Seen, Top, Len(stack), value)

EntriesSound == \A s \in Slots : EntrySound(Seen, table[s])

(* The answer to a question, before and after its search.                  *)
AnswerSound ==
  /\ root = NoPos => result.depth = 0
  /\ root # NoPos => PosScore(root, result.score) /\ Announces(root, result.score, "exact")

SearchInv ==
  /\ VariablesOK /\ Phase /\ StackSound
  /\ EntriesSound /\ AnswerIsMinimax /\ AnswerSound

-----------------------------------------------------------------------------
(* What the assumptions say, and the equations of the minimax value. *)

(* A set of numbers has a least one.                                       *)
LEMMA LeastNumber ==
  ASSUME NEW S \in SUBSET Nat, S # {}
  PROVE  \E m \in S : \A k \in S : m <= k
<1>1. PICK less : IsWellFoundedOn(less, Nat) /\ \A x, y \in Nat : x < y => <<x, y>> \in less
  <2>1. \A x, y \in Nat : x < y => <<x, y>> \in OpToRel(<, Nat)
    BY DEF OpToRel
  <2>2. QED
    BY <2>1, NatLessThanWellFounded, Zenon
<1>2. PICK m \in S : \A k \in S : ~(<<k, m>> \in less)
  <2>1. S \subseteq Nat /\ IsWellFoundedOn(less, Nat)
    BY <1>1
  <2> QED
    BY <2>1, WFMin, Zenon
<1>3. \A k \in S : ~(k < m)
  BY <1>1, <1>2
<1>4. QED
  BY <1>3

LEMMA Numbers ==
  /\ Mate \in Nat /\ Margin \in Nat /\ Margin < Mate /\ Mate < Infinity /\ Infinity \in Nat
  /\ Longest \in Nat /\ 1 <= Longest /\ Longest <= Margin
  /\ LastTurn \in Nat /\ LastTurn < Margin
  /\ MaxDepth \in 1 .. Longest
  /\ StopMargin \in Nat /\ StopMargin < Margin
  /\ Window \in Nat \ {0} /\ AgeSpan \in Nat \ {0}
BY Scores, ValueIsMinimax, SearchConstants DEF Depths, LastTurn

(* Every move is a turn, and a game that is over has none.                 *)
LEMMA Turns ==
  ASSUME NEW p \in Pos
  PROVE  /\ Turn[p] \in Nat /\ Turn[p] <= LastTurn
         /\ Moves[p] \subseteq Pos
         /\ \A q \in Moves[p] : q \in Pos /\ Turn[q] = Turn[p] + 1
         /\ Outcome[p] \in {"open", "draw", "won", "lost"}
         /\ Moves[p] # {} => Outcome[p] = "open"
         /\ p # NoPos
BY Positions, Scores, ValueIsMinimax, SearchConstants DEF LastTurn

(* A value is attained by a move, and no move does better.                 *)
LEMMA Values ==
  ASSUME NEW p \in Pos, NEW d \in Depths
  PROVE  /\ Value[d][p] \in Int
         /\ Outcome[p] # "open" => Value[d][p] = TerminalScore(p, 0)
         /\ Outcome[p] = "open" /\ d = 0 => Value[d][p] = Eval[p]
         /\ Outcome[p] = "open" /\ d # 0 /\ Moves[p] = {} => Value[d][p] = -Mate
         /\ d # 0 /\ Moves[p] # {} =>
              /\ \E q \in Moves[p] : Value[d][p] = MoveValue(d, q)
              /\ \A q \in Moves[p] : MoveValue(d, q) <= Value[d][p]
<1> DEFINE V == Value[d][p]
<1>1. V \in Int
  BY ValueIsMinimax
<1>2. IF Outcome[p] # "open" THEN V = TerminalScore(p, 0)
      ELSE IF d = 0 THEN V = Eval[p]
      ELSE IF Moves[p] = {} THEN V = -Mate
      ELSE IsLargest(V, {MoveValue(d, q) : q \in Moves[p]})
  BY ValueIsMinimax, Zenon
<1>3. Moves[p] # {} => Outcome[p] = "open"
  BY Turns
<1> HIDE DEF V
<1>4. Moves[p] # {} /\ d # 0 => IsLargest(V, {MoveValue(d, q) : q \in Moves[p]})
  BY <1>2, <1>3
<1>5. Moves[p] # {} /\ d # 0 => (\E q \in Moves[p] : V = MoveValue(d, q))
                              /\ \A q \in Moves[p] : MoveValue(d, q) <= V
  BY <1>4 DEF IsLargest
<1>6. QED
  BY <1>1, <1>2, <1>5 DEF V

-----------------------------------------------------------------------------
(* The arithmetic of mate scores. *)

(* The value of every depth is a score the table can keep.                 *)
LEMMA LeafScores ==
  ASSUME NEW p \in Pos, NEW ply \in Nat, ply <= Turn[p]
  PROVE  /\ PlyScore(p, ply, Eval[p]) /\ PlyScore(p, ply, ply - Mate)
         /\ ToTable(Eval[p], ply) = Eval[p] /\ ToTable(ply - Mate, ply) = -Mate
         /\ Outcome[p] # "open" =>
              /\ PlyScore(p, ply, TerminalScore(p, ply))
              /\ ToTable(TerminalScore(p, ply), ply) = TerminalScore(p, 0)
<1>1. Eval[p] \in Int /\ ~MateScore(Eval[p])
  BY Positions, Scores
<1>2. /\ TerminalScore(p, ply) \in {0, Mate - ply, ply - Mate} \/ Outcome[p] = "open"
      /\ Outcome[p] = "draw" => TerminalScore(p, ply) = 0 /\ TerminalScore(p, 0) = 0
      /\ Outcome[p] = "won" => TerminalScore(p, ply) = Mate - ply /\ TerminalScore(p, 0) = Mate - 0
      /\ Outcome[p] = "lost" => TerminalScore(p, ply) = ply - Mate /\ TerminalScore(p, 0) = 0 - Mate
  BY Turns DEF TerminalScore
<1>3. QED
  BY <1>1, <1>2, Numbers, Turns DEF PlyScore, MateScore, ToTable, Abs

(* Between the two ways to count, nothing is lost and the order is kept.   *)
LEMMA TableScores ==
  ASSUME NEW p \in Pos, NEW ply \in Nat, ply <= Turn[p], NEW v \in Int
  PROVE  /\ PlyScore(p, ply, v) => /\ PosScore(p, ToTable(v, ply))
                                   /\ FromTable(ToTable(v, ply), ply) = v
         /\ PosScore(p, v) => /\ PlyScore(p, ply, FromTable(v, ply))
                              /\ ToTable(FromTable(v, ply), ply) = v
BY Numbers, Turns DEF PlyScore, PosScore, MateScore, ToTable, FromTable, Abs

(* Scores are in the same order at every ply.                              *)
LEMMA TableOrder ==
  ASSUME NEW p \in Pos, NEW ply \in Nat, ply <= Turn[p], NEW v \in Int, NEW w \in Int,
         PlyScore(p, ply, v), PlyScore(p, ply, w), v <= w
  PROVE  ToTable(v, ply) <= ToTable(w, ply)
BY Numbers, Turns DEF PlyScore, MateScore, ToTable, Abs

LEMMA PlyScoreAtRoot ==
  ASSUME NEW p \in Pos, NEW v
  PROVE  /\ PlyScore(p, 0, v) <=> PosScore(p, v)
         /\ v \in Int => ToTable(v, 0) = v
BY Numbers, Turns DEF PlyScore, PosScore, MateScore, ToTable, Abs

LEMMA ScoreRange ==
  ASSUME NEW p \in Pos, NEW v
  PROVE  /\ PosScore(p, v) => v \in Int /\ -Mate <= v /\ v <= Mate /\ v \in Score
         /\ \A ply \in Nat :
              PlyScore(p, ply, v) => v \in Int /\ -Mate <= v /\ v <= Mate /\ v \in Score
BY Numbers, Turns DEF PlyScore, PosScore, MateScore, Abs, Score

(* One ply up: the value of a move in the table's terms.                   *)
Back(v) == -FromTable(v, 1)

LEMMA BackScores ==
  ASSUME NEW p \in Pos, NEW q \in Moves[p], NEW v \in Int, PosScore(q, v)
  PROVE  PosScore(p, Back(v)) /\ Back(v) \in Int
BY Numbers, Turns DEF PosScore, MateScore, FromTable, Abs, Back

LEMMA BackOrder ==
  ASSUME NEW p \in Pos, NEW q \in Moves[p], NEW v \in Int, NEW w \in Int,
         PosScore(q, v), PosScore(q, w), v <= w
  PROVE  Back(w) <= Back(v)
BY Numbers, Turns DEF PosScore, MateScore, FromTable, Abs, Back

LEMMA BackOfPly ==
  ASSUME NEW p \in Pos, NEW q \in Moves[p], NEW ply \in Nat, ply <= Turn[p], NEW v \in Int,
         PlyScore(q, ply + 1, v)
  PROVE  PlyScore(p, ply, -v) /\ ToTable(-v, ply) = Back(ToTable(v, ply + 1))
BY Numbers, Turns DEF PlyScore, MateScore, ToTable, FromTable, Abs, Back

(* Every value is a score of its position.                                 *)
LEMMA ValueScores ==
  \A d \in Depths, p \in Pos : PosScore(p, Value[d][p])
<1> DEFINE Bad == {d \in Depths : \E p \in Pos : ~PosScore(p, Value[d][p])}
<1>1. SUFFICES ASSUME Bad # {} PROVE FALSE
  BY Zenon
<1>2. Depths \subseteq Nat /\ Bad \subseteq Depths
  BY Numbers DEF Depths
<1>3. PICK d \in Bad : \A k \in Bad : d <= k
  <2>1. Bad \in SUBSET Nat
    BY <1>2
  <2> HIDE DEF Bad
  <2> QED
    BY <1>1, <2>1, LeastNumber
<1>4. PICK p \in Pos : ~PosScore(p, Value[d][p])
  BY <1>3
<1>5. d \in Depths
  BY <1>2, <1>3
<1>6. CASE Outcome[p] # "open"
  <2>1. TerminalScore(p, 0) \in {0, Mate, -Mate}
    BY <1>6, Numbers, Turns DEF TerminalScore
  <2>2. PosScore(p, TerminalScore(p, 0))
    BY <2>1, Numbers, Turns DEF PosScore, Abs, MateScore
  <2> QED
    BY <2>2, <1>4, <1>5, <1>6, Values
<1>7. CASE Outcome[p] = "open" /\ d = 0
  <2>1. Value[d][p] = Eval[p]
    BY <1>5, <1>7, Values
  <2>2. Eval[p] \in Int /\ ~MateScore(Eval[p])
    BY Positions, Scores
  <2> QED
    BY <1>4, <2>1, <2>2 DEF PosScore
<1>8. CASE Outcome[p] = "open" /\ d # 0 /\ Moves[p] = {}
  <2>1. Value[d][p] = -Mate
    BY <1>5, <1>8, Values
  <2>2. PosScore(p, -Mate)
    BY Numbers, Turns DEF PosScore, Abs, MateScore
  <2> QED
    BY <1>4, <2>1, <2>2
<1>9. CASE d # 0 /\ Moves[p] # {}
  <2>1. PICK q \in Moves[p] : Value[d][p] = MoveValue(d, q)
    BY <1>5, <1>9, Values
  <2>2. d - 1 \in Depths /\ d - 1 < d
    BY <1>5, <1>9, Numbers DEF Depths
  <2>3. ~(d - 1 \in Bad)
    BY <1>2, <1>3, <2>2
  <2>4. q \in Pos
    BY Turns
  <2>5. PosScore(q, Value[d - 1][q])
    BY <2>2, <2>3, <2>4
  <2>6. MoveValue(d, q) = Back(Value[d - 1][q]) /\ Value[d - 1][q] \in Int
    BY <2>5 DEF MoveValue, Back, PosScore
  <2> QED
    BY <1>4, <2>1, <2>5, <2>6, BackScores
<1>10. QED
  BY <1>6, <1>7, <1>8, <1>9

-----------------------------------------------------------------------------
(* What a forced mate means for the values of greater depths. *)

(* The step of the next lemma: one more ply of depth keeps a mate.         *)
LEMMA MateGrows ==
  ASSUME NEW k \in Nat, k + 2 \in Depths,
         k > 0 => \A q \in Pos :
           /\ Value[k][q] >= Mate - (k - 1) => Value[k + 1][q] >= Mate - (k - 1)
           /\ Value[k][q] <= (k - 1) - Mate => Value[k + 1][q] <= (k - 1) - Mate,
         NEW p \in Pos
  PROVE  /\ Value[k + 1][p] >= Mate - k => Value[k + 2][p] >= Mate - k
         /\ Value[k + 1][p] <= k - Mate => Value[k + 2][p] <= k - Mate
<1>1. k \in Depths /\ k + 1 \in Depths /\ k + 1 # 0 /\ k + 2 # 0 /\ k < LastTurn
  BY Numbers DEF Depths, LastTurn
<1>2. /\ PosScore(p, Value[k + 1][p]) /\ PosScore(p, Value[k + 2][p])
      /\ Value[k + 1][p] \in Int /\ Value[k + 2][p] \in Int
  BY <1>1, ValueScores DEF PosScore
<1>3. CASE Moves[p] = {}
  <2>1. Value[k + 1][p] = Value[k + 2][p]
    BY <1>1, <1>3, Values
  <2> QED
    BY <2>1
<1>4. CASE Moves[p] # {}
  <2>1. ASSUME NEW q \in Moves[p]
        PROVE  /\ MoveValue(k + 1, q) = Back(Value[k][q])
               /\ MoveValue(k + 2, q) = Back(Value[k + 1][q])
               /\ PosScore(q, Value[k][q]) /\ PosScore(q, Value[k + 1][q])
               /\ Value[k][q] \in Int /\ Value[k + 1][q] \in Int
               /\ -Mate <= Value[k][q] /\ Value[k][q] <= Mate
               /\ Back(Value[k][q]) \in Int /\ Back(Value[k + 1][q]) \in Int
    <3>1. q \in Pos
      BY Turns
    <3>2. PosScore(q, Value[k][q]) /\ PosScore(q, Value[k + 1][q])
      BY <1>1, <3>1, ValueScores
    <3>3. (k + 1) - 1 = k /\ (k + 2) - 1 = k + 1
      OBVIOUS
    <3> QED
      BY <3>1, <3>2, <3>3, BackScores, ScoreRange DEF MoveValue, Back, PosScore
  <2>2. ASSUME Value[k + 1][p] >= Mate - k PROVE Value[k + 2][p] >= Mate - k
    <3>1. PICK q \in Moves[p] : Value[k + 1][p] = MoveValue(k + 1, q)
      BY <1>1, <1>4, Values
    <3>2. Back(Value[k][q]) >= Mate - k
      BY <2>1, <2>2, <3>1
    <3>3. k > 0 /\ Value[k][q] <= (k - 1) - Mate
      BY <1>1, <2>1, <3>2, Numbers DEF Back, FromTable
    <3>4. Value[k + 1][q] <= (k - 1) - Mate
      BY <3>3, Turns
    <3>5. Back(Value[k + 1][q]) >= Mate - k
      BY <1>1, <2>1, <3>4, Numbers DEF Back, FromTable
    <3>6. MoveValue(k + 2, q) <= Value[k + 2][p]
      BY <1>1, <1>4, Values
    <3>7. Back(Value[k + 1][q]) <= Value[k + 2][p] /\ Back(Value[k + 1][q]) \in Int
      BY <2>1, <3>6
    <3> QED
      BY <1>2, <3>5, <3>7, Numbers
  <2>3. ASSUME Value[k + 1][p] <= k - Mate PROVE Value[k + 2][p] <= k - Mate
    <3>1. PICK q \in Moves[p] : Value[k + 2][p] = MoveValue(k + 2, q)
      BY <1>1, <1>4, Values
    <3>2. Back(Value[k][q]) <= k - Mate
      <4>1. MoveValue(k + 1, q) <= Value[k + 1][p]
        BY <1>1, <1>4, Values
      <4>2. Back(Value[k][q]) <= Value[k + 1][p] /\ Back(Value[k][q]) \in Int
        BY <2>1, <4>1
      <4> QED
        BY <1>2, <2>3, <4>2, Numbers
    <3>3. k > 0 /\ Value[k][q] >= Mate - (k - 1)
      BY <1>1, <2>1, <3>2, Numbers DEF Back, FromTable
    <3>4. Value[k + 1][q] >= Mate - (k - 1)
      BY <3>3, Turns
    <3>5. Back(Value[k + 1][q]) <= k - Mate
      BY <1>1, <2>1, <3>4, Numbers DEF Back, FromTable
    <3> QED
      BY <2>1, <3>1, <3>5
  <2> QED
    BY <2>2, <2>3
<1>5. QED
  BY <1>3, <1>4

(* A mate in at most k plies is one in at most k + 1.                      *)
LEMMA MatesPersist ==
  \A k \in Nat : k + 2 \in Depths =>
    \A p \in Pos : /\ Value[k + 1][p] >= Mate - k => Value[k + 2][p] >= Mate - k
                   /\ Value[k + 1][p] <= k - Mate => Value[k + 2][p] <= k - Mate
<1> DEFINE Kept(k) == \A p \in Pos :
             /\ Value[k + 1][p] >= Mate - k => Value[k + 2][p] >= Mate - k
             /\ Value[k + 1][p] <= k - Mate => Value[k + 2][p] <= k - Mate
           Bad == {k \in Nat : k + 2 \in Depths /\ ~Kept(k)}
<1>1. SUFFICES ASSUME Bad # {} PROVE FALSE
  OBVIOUS
<1>2. PICK k \in Bad : \A j \in Bad : k <= j
  <2>1. Bad \in SUBSET Nat
    OBVIOUS
  <2> HIDE DEF Bad
  <2> QED
    BY <1>1, <2>1, LeastNumber
<1>3. k \in Nat /\ k + 2 \in Depths /\ ~Kept(k)
  BY <1>2
<1>4. k > 0 => Kept(k - 1)
  <2> HAVE k > 0
  <2>1. k - 1 \in Nat /\ (k - 1) + 2 \in Depths /\ ~(k <= k - 1)
    BY <1>3, Numbers DEF Depths
  <2> QED
    BY <1>2, <2>1
<1>5. k > 0 => \A q \in Pos : /\ Value[k][q] >= Mate - (k - 1) => Value[k + 1][q] >= Mate - (k - 1)
                              /\ Value[k][q] <= (k - 1) - Mate => Value[k + 1][q] <= (k - 1) - Mate
  <2>1. (k - 1) + 1 = k /\ (k - 1) + 2 = k + 1
    BY <1>3
  <2> QED
    BY <1>4, <2>1
<1>6. Kept(k)
  <2> HIDE DEF Bad
  <2> QED
    BY <1>3, <1>5, MateGrows
<1>7. QED
  BY <1>3, <1>6

(* A mate that is forced in so many plies is forced in more.               *)
LEMMA MatesWithin ==
  \A k \in Nat, n \in Nat : k + n + 1 \in Depths =>
    \A p \in Pos : /\ Value[k + 1][p] >= Mate - k => Value[k + n + 1][p] >= Mate - k - n
                   /\ Value[k + 1][p] <= k - Mate => Value[k + n + 1][p] <= k + n - Mate
<1> SUFFICES ASSUME NEW k \in Nat
    PROVE  \A n \in Nat : k + n + 1 \in Depths =>
      \A p \in Pos : /\ Value[k + 1][p] >= Mate - k => Value[k + n + 1][p] >= Mate - k - n
                     /\ Value[k + 1][p] <= k - Mate => Value[k + n + 1][p] <= k + n - Mate
  OBVIOUS
<1> DEFINE Kept(n) == \A p \in Pos :
             /\ Value[k + 1][p] >= Mate - k => Value[k + n + 1][p] >= Mate - k - n
             /\ Value[k + 1][p] <= k - Mate => Value[k + n + 1][p] <= k + n - Mate
           Bad == {n \in Nat : k + n + 1 \in Depths /\ ~Kept(n)}
<1>1. SUFFICES ASSUME Bad # {} PROVE FALSE
  OBVIOUS
<1>2. PICK n \in Bad : \A j \in Bad : n <= j
  <2>1. Bad \in SUBSET Nat
    OBVIOUS
  <2> HIDE DEF Bad
  <2> QED
    BY <1>1, <2>1, LeastNumber
<1>3. n \in Nat /\ k + n + 1 \in Depths /\ ~Kept(n)
  BY <1>2
<1>4. n # 0
  <2>1. k + 0 + 1 = k + 1 /\ Mate - k - 0 = Mate - k /\ k + 0 - Mate = k - Mate
    BY Numbers
  <2> QED
    BY <1>3, <2>1
<1>5. Kept(n - 1)
  <2>1. n - 1 \in Nat /\ k + (n - 1) + 1 \in Depths /\ ~(n <= n - 1)
    BY <1>3, <1>4, Numbers DEF Depths
  <2> QED
    BY <1>2, <2>1
<1>6. ASSUME NEW p \in Pos
      PROVE  /\ Value[k + 1][p] >= Mate - k => Value[k + n + 1][p] >= Mate - k - n
             /\ Value[k + 1][p] <= k - Mate => Value[k + n + 1][p] <= k + n - Mate
  <2> DEFINE m == k + (n - 1)
  <2>1. /\ Value[k + 1][p] >= Mate - k => Value[m + 1][p] >= Mate - k - (n - 1)
        /\ Value[k + 1][p] <= k - Mate => Value[m + 1][p] <= k + (n - 1) - Mate
    BY <1>5
  <2>2. m \in Nat /\ m + 2 \in Depths /\ m + 1 \in Depths /\ m + 2 = k + n + 1
        /\ Mate - k - (n - 1) = Mate - m /\ k + (n - 1) - Mate = m - Mate
        /\ Mate - k - n = Mate - m - 1 /\ k + n - Mate = m + 1 - Mate
    BY <1>3, <1>4, Numbers DEF Depths
  <2> HIDE DEF m
  <2>3. /\ Value[m + 1][p] >= Mate - m => Value[m + 2][p] >= Mate - m
        /\ Value[m + 1][p] <= m - Mate => Value[m + 2][p] <= m - Mate
    BY <2>2, MatesPersist
  <2>4. Value[m + 2][p] \in Int
    BY <2>2, Values
  <2> QED
    BY <2>1, <2>2, <2>3, <2>4, Numbers
<1>7. QED
  BY <1>3, <1>6

-----------------------------------------------------------------------------
(* How bounds follow from bounds. *)

(* A better bound is a bound.                                              *)
LEMMA Weaker ==
  ASSUME NEW h, NEW p \in Pos, NEW d \in Depths, NEW v, NEW w,
         PosScore(p, v), PosScore(p, w)
  PROVE  /\ AtLeast(h, p, d, v) /\ w <= v => AtLeast(h, p, d, w)
         /\ AtMost(h, p, d, v) /\ v <= w => AtMost(h, p, d, w)
<1>1. v \in Int /\ w \in Int /\ Value[d][p] \in Int
  BY Values DEF PosScore
<1>2. ASSUME w > Mate - Margin, w <= v, Wins(p, v)
      PROVE  Wins(p, w)
  <2> DEFINE k == Mate - v
             n == v - w
  <2>1. v > Mate - Margin /\ v <= Mate /\ k \in Nat /\ n \in Nat /\ k + n + 1 \in Depths
        /\ v = Mate - k /\ w = Mate - k - n /\ Mate - w + 1 = k + n + 1 /\ Mate - v + 1 = k + 1
    BY <1>1, <1>2, Numbers, Turns DEF PosScore, MateScore, Abs, Depths, LastTurn
  <2> HIDE DEF k, n
  <2>2. Value[k + 1][p] >= Mate - k
    BY <1>2, <2>1 DEF Wins
  <2>3. Value[k + n + 1][p] >= Mate - k - n
    BY <2>1, <2>2, MatesWithin
  <2> QED
    BY <2>1, <2>3 DEF Wins
<1>3. ASSUME w < Margin - Mate, v <= w, Loses(p, v)
      PROVE  Loses(p, w)
  <2> DEFINE k == Mate + v
             n == w - v
  <2>1. v < Margin - Mate /\ -Mate <= v /\ k \in Nat /\ n \in Nat /\ k + n + 1 \in Depths
        /\ v = k - Mate /\ w = k + n - Mate /\ Mate + w + 1 = k + n + 1 /\ Mate + v + 1 = k + 1
    BY <1>1, <1>3, Numbers, Turns DEF PosScore, MateScore, Abs, Depths, LastTurn
  <2> HIDE DEF k, n
  <2>2. Value[k + 1][p] <= k - Mate
    BY <1>3, <2>1 DEF Loses
  <2>3. Value[k + n + 1][p] <= k + n - Mate
    BY <2>1, <2>2, MatesWithin
  <2> QED
    BY <2>1, <2>3 DEF Loses
<1>4. ASSUME AtLeast(h, p, d, v), w <= v
      PROVE  AtLeast(h, p, d, w)
  <2>1. w > Mate - Margin => Wins(p, w)
    <3>1. w > Mate - Margin => v > Mate - Margin
      BY <1>1, <1>4, Numbers
    <3> QED
      BY <1>2, <1>4, <3>1 DEF AtLeast
  <2>2. Turn[p] + d = h => w <= Value[d][p]
    BY <1>1, <1>4 DEF AtLeast
  <2> QED
    BY <2>1, <2>2 DEF AtLeast
<1>5. ASSUME AtMost(h, p, d, v), v <= w
      PROVE  AtMost(h, p, d, w)
  <2>1. w < Margin - Mate => Loses(p, w)
    <3>1. w < Margin - Mate => v < Margin - Mate
      BY <1>1, <1>5, Numbers
    <3> QED
      BY <1>3, <1>5, <3>1 DEF AtMost
  <2>2. Turn[p] + d = h => Value[d][p] <= w
    BY <1>1, <1>5 DEF AtMost
  <2> QED
    BY <2>1, <2>2 DEF AtMost
<1>6. QED
  BY <1>4, <1>5

(* The best a mover can get is at least what any of his moves gives him... *)
LEMMA MoveBounds ==
  ASSUME NEW h \in Int, NEW p \in Pos, NEW q \in Moves[p], NEW d \in Depths, d > 0,
         NEW v, PosScore(q, v), AtMost(h, q, d - 1, v)
  PROVE  AtLeast(h, p, d, Back(v))
<1>1. q \in Pos /\ Turn[q] = Turn[p] + 1 /\ v \in Int /\ Turn[p] \in Nat /\ Turn[q] <= LastTurn
  BY Turns DEF PosScore
<1>2. ASSUME Back(v) > Mate - Margin
      PROVE  Wins(p, Back(v))
  <2> DEFINE k == Mate + v + 1
  <2>1. /\ v < Margin - Mate /\ -Mate <= v /\ Back(v) = -v - 1
        /\ k \in Nat /\ k + 1 \in Depths /\ k \in Depths /\ k + 1 # 0
        /\ Mate - Back(v) + 1 = k + 1 /\ (k + 1) - 1 = k
    BY <1>1, <1>2, Numbers, Turns DEF PosScore, MateScore, Abs, Depths, LastTurn, Back, FromTable
  <2>2. Value[k][q] <= v
    BY <2>1, AtMost(h, q, d - 1, v) DEF AtMost, Loses
  <2> HIDE DEF k
  <2>3. PosScore(q, Value[k][q]) /\ Value[k][q] \in Int
    BY <1>1, <2>1, ValueScores DEF PosScore
  <2>4. Back(v) <= Back(Value[k][q])
    BY <1>1, <2>2, <2>3, BackOrder
  <2>5. MoveValue(k + 1, q) <= Value[k + 1][p]
    BY <2>1, Values
  <2>6. MoveValue(k + 1, q) = Back(Value[k][q]) /\ Back(Value[k][q]) \in Int
    BY <2>1, <2>3, BackScores DEF MoveValue, Back
  <2>7. Back(v) <= Value[k + 1][p]
    <3>1. Value[k + 1][p] \in Int /\ Back(v) \in Int
      BY <1>1, <2>1, Values, BackScores
    <3> QED
      BY <2>4, <2>5, <2>6, <3>1
  <2> QED
    BY <2>1, <2>7 DEF Wins
<1>3. ASSUME Turn[p] + d = h
      PROVE  Back(v) <= Value[d][p]
  <2>1. d - 1 \in Depths /\ d # 0 /\ Turn[q] + (d - 1) = h
    BY <1>1, <1>3, Numbers DEF Depths
  <2>2. Value[d - 1][q] <= v /\ PosScore(q, Value[d - 1][q]) /\ Value[d - 1][q] \in Int
    BY <1>1, <2>1, ValueScores DEF AtMost, PosScore
  <2>3. Back(v) <= Back(Value[d - 1][q])
    BY <1>1, <2>2, BackOrder
  <2>4. MoveValue(d, q) <= Value[d][p] /\ MoveValue(d, q) = Back(Value[d - 1][q])
    BY <2>1, Values DEF MoveValue, Back
  <2>5. Value[d][p] \in Int /\ Back(v) \in Int /\ Back(Value[d - 1][q]) \in Int
    BY <1>1, <2>2, Values, BackScores
  <2> QED
    BY <2>3, <2>4, <2>5
<1>4. QED
  BY <1>2, <1>3 DEF AtLeast

(* ... and at most what all of them give him.                              *)
LEMMA AllMovesBound ==
  ASSUME NEW h \in Int, NEW p \in Pos, Moves[p] # {}, NEW d \in Depths, d > 0,
         NEW v \in Int, \A q \in Moves[p] : PosScore(q, v) /\ AtLeast(h, q, d - 1, v)
  PROVE  AtMost(h, p, d, Back(v))
<1>1. \A q \in Moves[p] : q \in Pos /\ Turn[q] = Turn[p] + 1 /\ Turn[q] <= LastTurn
  BY Turns
<1>2. Turn[p] \in Nat /\ Turn[p] <= LastTurn
  BY Turns
<1>3. ASSUME Back(v) < Margin - Mate
      PROVE  Loses(p, Back(v))
  <2> DEFINE k == Mate - v + 1
  <2>1. PICK q0 : q0 \in Moves[p]
    OBVIOUS
  <2>2. /\ Mate - Margin < v /\ v <= Mate /\ Back(v) = 1 - v
        /\ k \in Nat /\ k + 1 \in Depths /\ k \in Depths /\ k + 1 # 0
        /\ Mate + Back(v) + 1 = k + 1 /\ (k + 1) - 1 = k
    <3>1. PosScore(q0, v) /\ Turn[q0] = Turn[p] + 1 /\ Turn[q0] <= LastTurn
      BY <1>1, <2>1
    <3> QED
      BY <1>2, <1>3, <3>1, Numbers DEF PosScore, MateScore, Abs, Depths, LastTurn, Back, FromTable
  <2>3. ASSUME NEW q \in Moves[p]
        PROVE  MoveValue(k + 1, q) <= Back(v) /\ MoveValue(k + 1, q) \in Int
    <3>1. v <= Value[k][q]
      BY <2>2 DEF AtLeast, Wins
    <3> HIDE DEF k
    <3>2. PosScore(q, Value[k][q]) /\ Value[k][q] \in Int
      BY <1>1, <2>2, ValueScores DEF PosScore
    <3>3. Back(Value[k][q]) <= Back(v) /\ Back(Value[k][q]) \in Int
      BY <1>1, <3>1, <3>2, BackOrder, BackScores
    <3> QED
      BY <2>2, <3>3 DEF MoveValue, Back
  <2> HIDE DEF k
  <2>4. PICK q \in Moves[p] : Value[k + 1][p] = MoveValue(k + 1, q)
    BY <2>2, Values
  <2>5. Value[k + 1][p] <= Back(v)
    BY <2>3, <2>4
  <2> QED
    BY <2>2, <2>5 DEF Loses
<1>4. ASSUME Turn[p] + d = h
      PROVE  Value[d][p] <= Back(v)
  <2>1. d - 1 \in Depths /\ d # 0
    BY Numbers DEF Depths
  <2>2. PICK q \in Moves[p] : Value[d][p] = MoveValue(d, q)
    BY <2>1, Values
  <2>3. Turn[q] + (d - 1) = h
    BY <1>1, <1>2, <1>4, Numbers DEF Depths
  <2>4. v <= Value[d - 1][q] /\ PosScore(q, Value[d - 1][q]) /\ Value[d - 1][q] \in Int
    BY <1>1, <2>1, <2>3, ValueScores DEF AtLeast, PosScore
  <2>5. Back(Value[d - 1][q]) <= Back(v)
    BY <1>1, <2>4, BackOrder
  <2> QED
    BY <2>2, <2>5 DEF MoveValue, Back
<1>5. QED
  BY <1>3, <1>4 DEF AtMost

(* The same as a search counts.                                            *)
LEMMA SearchBounds ==
  ASSUME NEW h \in Int, NEW p \in Pos, NEW d \in Depths, NEW ply \in Nat, ply <= Turn[p],
         NEW v, NEW w, PlyScore(p, ply, w)
  PROVE  /\ Lower(h, p, d, ply, v) /\ w <= v => Lower(h, p, d, ply, w)
         /\ Upper(h, p, d, ply, v) /\ v <= w => Upper(h, p, d, ply, w)
<1>1. ASSUME Lower(h, p, d, ply, v), w <= v
      PROVE  Lower(h, p, d, ply, w)
  <2>1. PlyScore(p, ply, v) /\ v \in Int /\ w \in Int
    BY <1>1 DEF Lower, PlyScore
  <2>2. ToTable(w, ply) <= ToTable(v, ply)
    BY <1>1, <2>1, TableOrder
  <2>3. PosScore(p, ToTable(w, ply)) /\ PosScore(p, ToTable(v, ply))
    BY <2>1, TableScores
  <2> QED
    BY <1>1, <2>2, <2>3, Weaker DEF Lower
<1>2. ASSUME Upper(h, p, d, ply, v), v <= w
      PROVE  Upper(h, p, d, ply, w)
  <2>1. PlyScore(p, ply, v) /\ v \in Int /\ w \in Int
    BY <1>2 DEF Upper, PlyScore
  <2>2. ToTable(v, ply) <= ToTable(w, ply)
    BY <1>2, <2>1, TableOrder
  <2>3. PosScore(p, ToTable(w, ply)) /\ PosScore(p, ToTable(v, ply))
    BY <2>1, TableScores
  <2> QED
    BY <1>2, <2>2, <2>3, Weaker DEF Upper
<1>3. QED
  BY <1>1, <1>2

(* The same of scores as a search at a ply counts them.                    *)
LEMMA SearchMoveBounds ==
  ASSUME NEW h \in Int, NEW p \in Pos, NEW q \in Moves[p], NEW d \in Depths, d > 0,
         NEW ply \in Nat, ply <= Turn[p], NEW v, Upper(h, q, d - 1, ply + 1, v)
  PROVE  Lower(h, p, d, ply, -v)
<1>1. PlyScore(q, ply + 1, v) /\ v \in Int /\ AtMost(h, q, d - 1, ToTable(v, ply + 1))
  BY DEF Upper, PlyScore
<1>2. q \in Pos /\ ply + 1 \in Nat /\ ply + 1 <= Turn[q]
  BY Turns
<1>3. PosScore(q, ToTable(v, ply + 1))
  BY <1>1, <1>2, TableScores
<1>4. PlyScore(p, ply, -v) /\ ToTable(-v, ply) = Back(ToTable(v, ply + 1))
  BY <1>1, BackOfPly
<1>5. QED
  BY <1>1, <1>3, <1>4, MoveBounds DEF Lower

LEMMA SearchAllMovesBound ==
  ASSUME NEW h \in Int, NEW p \in Pos, Moves[p] # {}, NEW d \in Depths, d > 0,
         NEW ply \in Nat, ply <= Turn[p], NEW v \in Int,
         \A q \in Moves[p] : Lower(h, q, d - 1, ply + 1, -v)
  PROVE  Upper(h, p, d, ply, v)
<1> DEFINE y == ToTable(-v, ply + 1)
<1>1. PICK q \in Moves[p] : TRUE
  OBVIOUS
<1>2. PlyScore(q, ply + 1, -v) /\ -v \in Int /\ -(-v) = v
  BY DEF Lower
<1>3. PlyScore(p, ply, v) /\ ToTable(v, ply) = Back(y)
  BY <1>2, BackOfPly
<1>4. ASSUME NEW m \in Moves[p]
      PROVE  PosScore(m, y) /\ AtLeast(h, m, d - 1, y)
  <2>1. PlyScore(m, ply + 1, -v) /\ AtLeast(h, m, d - 1, y)
    BY DEF Lower
  <2>2. m \in Pos /\ ply + 1 \in Nat /\ ply + 1 <= Turn[m]
    BY Turns
  <2> QED
    BY <1>2, <2>1, <2>2, TableScores
<1>5. y \in Int
  BY <1>4 DEF PosScore
<1> HIDE DEF y
<1>6. AtMost(h, p, d, Back(y))
  BY <1>4, <1>5, AllMovesBound
<1>7. QED
  BY <1>3, <1>6 DEF Upper

(* Exact says both.                                                        *)
Exact(h, p, d, ply, v) == Lower(h, p, d, ply, v) /\ Upper(h, p, d, ply, v)

(* Where negamax looks no further, its score is exact.                     *)
LEMMA SearchLeaves ==
  ASSUME NEW h \in Int, NEW p \in Pos, NEW d \in Depths, NEW ply \in Nat, ply <= Turn[p]
  PROVE  /\ Outcome[p] # "open" => Exact(h, p, d, ply, TerminalScore(p, ply))
         /\ Outcome[p] = "open" /\ d = 0 => Exact(h, p, d, ply, Eval[p])
         /\ Outcome[p] = "open" /\ d > 0 /\ Moves[p] = {} => Exact(h, p, d, ply, ply - Mate)
<1>1. 1 \in Depths /\ Value[d][p] \in Int /\ 1 # 0 /\ Mate - Mate + 1 = 1 /\ Mate + (-Mate) + 1 = 1
  BY Numbers, Values DEF Depths
<1>2. ASSUME NEW v \in {0, Mate, -Mate},
             v = Mate => Value[1][p] = Mate, v = -Mate => Value[1][p] = -Mate,
             Value[d][p] = v
      PROVE  AtLeast(h, p, d, v) /\ AtMost(h, p, d, v)
  <2>1. v > Mate - Margin => v = Mate /\ Mate - v + 1 = 1
    BY <1>2, Numbers
  <2>2. v < Margin - Mate => v = -Mate /\ Mate + v + 1 = 1
    BY <1>2, Numbers
  <2>3. v \in Int
    BY <1>1, <1>2
  <2>4. v > Mate - Margin => Wins(p, v)
    BY <1>1, <1>2, <2>1, <2>3, Numbers DEF Wins
  <2>5. v < Margin - Mate => Loses(p, v)
    BY <1>1, <1>2, <2>2, <2>3, Numbers DEF Loses
  <2> QED
    BY <1>2, <2>3, <2>4, <2>5 DEF AtLeast, AtMost
<1>3. ASSUME Outcome[p] # "open"
      PROVE  Exact(h, p, d, ply, TerminalScore(p, ply))
  <2> DEFINE v == TerminalScore(p, 0)
  <2>1. v \in {0, Mate, -Mate}
    BY <1>3, Numbers, Turns DEF TerminalScore
  <2>2. Value[1][p] = v /\ Value[d][p] = v
    BY <1>1, <1>3, Values
  <2> HIDE DEF v
  <2>3. AtLeast(h, p, d, v) /\ AtMost(h, p, d, v)
    BY <1>2, <2>1, <2>2
  <2>4. PlyScore(p, ply, TerminalScore(p, ply)) /\ ToTable(TerminalScore(p, ply), ply) = v
    BY <1>3, LeafScores DEF v
  <2> QED
    BY <2>3, <2>4 DEF Exact, Lower, Upper
<1>4. ASSUME Outcome[p] = "open", d = 0
      PROVE  Exact(h, p, d, ply, Eval[p])
  <2>1. Value[d][p] = Eval[p]
    BY <1>4, Values
  <2>2. Eval[p] \in Int /\ ~MateScore(Eval[p])
    BY Positions, Scores
  <2>3. AtLeast(h, p, d, Eval[p]) /\ AtMost(h, p, d, Eval[p])
    BY <2>1, <2>2 DEF AtLeast, AtMost, MateScore
  <2>4. PlyScore(p, ply, Eval[p]) /\ ToTable(Eval[p], ply) = Eval[p]
    BY LeafScores
  <2> QED
    BY <2>3, <2>4 DEF Exact, Lower, Upper
<1>5. ASSUME Outcome[p] = "open", d > 0, Moves[p] = {}
      PROVE  Exact(h, p, d, ply, ply - Mate)
  <2>1. Value[1][p] = -Mate /\ Value[d][p] = -Mate
    <3>1. d # 0
      BY <1>5 DEF Depths
    <3> QED
      BY <1>1, <1>5, <3>1, Values
  <2>2. AtLeast(h, p, d, -Mate) /\ AtMost(h, p, d, -Mate)
    <3>1. -Mate = Mate => Value[1][p] = Mate
      BY <2>1
    <3> QED
      BY <1>2, <2>1, <3>1
  <2>3. PlyScore(p, ply, ply - Mate) /\ ToTable(ply - Mate, ply) = -Mate
    BY LeafScores
  <2> QED
    BY <2>2, <2>3 DEF Exact, Lower, Upper
<1>6. QED
  BY <1>3, <1>4, <1>5

(* What an entry says of a search that needs no more than it has.          *)
LEMMA EntryBounds ==
  ASSUME NEW h \in Int, NEW e, EntrySound(h, e), e.pos \in Pos, e.depth \in Depths,
         NEW d \in Depths, d <= e.depth, NEW ply \in Nat, ply <= Turn[e.pos]
  PROVE  LET v == FromTable(e.score, ply) IN
         /\ PlyScore(e.pos, ply, v)
         /\ e.bound # "upper" => Lower(h, e.pos, d, ply, v)
         /\ e.bound # "lower" => Upper(h, e.pos, d, ply, v)
<1> DEFINE p == e.pos
           v == FromTable(e.score, ply)
<1>1. /\ PosScore(p, e.score) /\ Turn[p] + e.depth <= h /\ e.score \in Int
      /\ e.bound # "upper" => AtLeast(h, p, e.depth, e.score)
      /\ e.bound # "lower" => AtMost(h, p, e.depth, e.score)
  BY Turns DEF EntrySound, Reach, PosScore
<1>2. PlyScore(p, ply, v) /\ ToTable(v, ply) = e.score
  BY <1>1, TableScores
<1>3. Turn[p] + d = h => d = e.depth
  BY <1>1, Turns DEF Depths
<1>4. /\ e.bound # "upper" => AtLeast(h, p, d, e.score)
      /\ e.bound # "lower" => AtMost(h, p, d, e.score)
  BY <1>1, <1>3 DEF AtLeast, AtMost
<1>5. QED
  BY <1>2, <1>4 DEF Lower, Upper

(* And what may be stored.                                                 *)
LEMMA StoredSound ==
  ASSUME NEW h \in Int, NEW p \in Pos, NEW d \in Depths, NEW ply \in Nat, ply <= Turn[p],
         NEW v, PlyScore(p, ply, v), Turn[p] + d <= h, NEW bound, NEW a,
         bound # "upper" => Lower(h, p, d, ply, v),
         bound # "lower" => Upper(h, p, d, ply, v)
  PROVE  EntrySound(h, [pos |-> p, depth |-> d, score |-> ToTable(v, ply),
                        bound |-> bound, age |-> a])
<1>1. v \in Int /\ d \in Nat
  BY DEF PlyScore, Depths
<1>2. PosScore(p, ToTable(v, ply))
  BY <1>1, TableScores
<1>3. QED
  BY <1>1, <1>2 DEF EntrySound, Lower, Upper, Reach

(* Looking further forgets the bounds, not the mates.                      *)
LEMMA FurtherSound ==
  ASSUME NEW h \in Int, NEW k \in Int, h <= k, NEW e, EntrySound(h, e), e.pos \in Pos \cup {NoPos}
  PROVE  EntrySound(k, e)
<1>1. CASE e.pos = NoPos
  BY <1>1 DEF EntrySound
<1>2. CASE e.pos \in Pos
  <2>1. e.pos # NoPos /\ Turn[e.pos] \in Nat
    BY <1>2, Turns
  <2>2. e.depth \in Nat /\ Turn[e.pos] + e.depth <= h
    BY <2>1 DEF EntrySound, Reach
  <2>3. Turn[e.pos] + e.depth = k => Turn[e.pos] + e.depth = h
    BY <2>1, <2>2
  <2>4. Reach(e) <= k
    BY <2>1, <2>2 DEF Reach
  <2> QED
    BY <2>1, <2>3, <2>4 DEF EntrySound, AtLeast, AtMost
<1>3. QED
  BY <1>1, <1>2

-----------------------------------------------------------------------------
(* What a frame knows, step by step. *)

(* A score that every move can answer is one its position can have.        *)
LEMMA BackedScores ==
  ASSUME NEW p \in Pos, Moves[p] # {}, NEW ply \in Nat, ply <= Turn[p], NEW v \in Int,
         Backed(p, ply, v)
  PROVE  PlyScore(p, ply, v)
<1>1. PICK m \in Moves[p] : PlyScore(m, ply + 1, -v)
  BY DEF Backed
<1>2. -v \in Int /\ -(-v) = v
  OBVIOUS
<1>3. QED
  BY <1>1, <1>2, BackOfPly

(* All moves of a position are alike to a score.                           *)
LEMMA BackedByOne ==
  ASSUME NEW p \in Pos, NEW q \in Moves[p], NEW ply \in Nat, NEW v, PlyScore(q, ply + 1, v)
  PROVE  Backed(p, ply, -v)
<1>1. v \in Int /\ -(-v) = v
  BY DEF PlyScore
<1>2. \A m \in Moves[p] : Turn[m] = Turn[q]
  BY Turns
<1>3. QED
  BY <1>1, <1>2 DEF Backed, PlyScore

(* A loop that takes in an answer.                                         *)
LEMMA AbsorbWorks ==
  ASSUME NEW h \in Int, NEW f \in FrameType, NEW ply \in Nat, ply <= Turn[f.pos],
         f.depth \in Depths, Waiting(h, f, ply), f.original <= f.alpha,
         NEW v, Answers(h, f, ply + 1, v),
         ~(f.scout /\ f.alpha < -v /\ -v < f.beta)
  PROVE  Working(h, Absorb(f, -v), ply, Absorb(f, -v).todo)
<1> DEFINE s == -v
           g == Absorb(f, s)
           q == f.tried
<1>1. /\ f.pos \in Pos /\ f.alpha \in Int /\ f.beta \in Int /\ f.best \in Int /\ f.original \in Int
      /\ f.todo \subseteq Pos
  BY DEF FrameType
<1>2. /\ Moves[f.pos] # {} /\ f.depth > 0 /\ f.best <= f.alpha
      /\ f.alpha < f.beta /\ q \in Moves[f.pos]
      /\ f.best = -Infinity \/ Backed(f.pos, ply, f.best)
      /\ f.alpha > f.original => Lower(h, f.pos, f.depth, ply, f.alpha)
      /\ f.best < f.beta =>
           \A m \in Moves[f.pos] \ (f.todo \cup {q}) :
             f.best # -Infinity /\ Lower(h, m, f.depth - 1, ply + 1, -f.best)
  BY DEF Waiting, Working
<1>3. /\ PlyScore(q, ply + 1, v) /\ v \in Int /\ s \in Int /\ v = -s
      /\ v > CalledAlpha(f) => Lower(h, q, f.depth - 1, ply + 1, v)
      /\ v < -f.alpha => Upper(h, q, f.depth - 1, ply + 1, v)
  BY DEF Answers, PlyScore
<1>4. Backed(f.pos, ply, s) /\ PlyScore(f.pos, ply, s)
  BY <1>1, <1>2, <1>3, BackedByOne, BackedScores
<1>5. s > -Infinity
  <2>1. PlyScore(f.pos, ply, s)
    BY <1>4
  <2> HIDE DEF s
  <2>2. -Mate <= s
    BY <1>1, <2>1, ScoreRange
  <2> QED
    BY <1>3, <2>2, Numbers
<1>6. /\ g.pos = f.pos /\ g.depth = f.depth /\ g.original = f.original /\ g.beta = f.beta
      /\ g.best = Larger(f.best, s) /\ g.alpha = Larger(f.alpha, s)
      /\ g.todo = IF Larger(f.alpha, s) >= f.beta THEN {} ELSE f.todo
  BY DEF Absorb, FrameType
<1> HIDE DEF g, s, q
<1>7. g.best = -Infinity \/ Backed(g.pos, ply, g.best)
  BY <1>1, <1>2, <1>3, <1>4, <1>5, <1>6, Numbers DEF Larger
<1>8. g.best <= g.alpha /\ (g.alpha < g.beta \/ (g.beta <= g.best /\ g.todo = {}))
  BY <1>1, <1>2, <1>3, <1>6 DEF Larger
<1>9. g.alpha > g.original => Lower(h, g.pos, g.depth, ply, g.alpha)
  <2>1. CASE s > f.alpha
    <3>1. Upper(h, q, f.depth - 1, ply + 1, v)
      BY <1>1, <1>3, <2>1
    <3>2. Lower(h, f.pos, f.depth, ply, -v)
      BY <1>1, <1>2, <3>1, SearchMoveBounds
    <3>3. g.alpha = -v
      BY <1>1, <1>3, <1>6, <2>1 DEF Larger, s
    <3> QED
      BY <1>6, <3>2, <3>3
  <2>2. CASE ~(s > f.alpha)
    <3>1. g.alpha = f.alpha
      BY <1>1, <1>3, <1>6, <2>2 DEF Larger
    <3> QED
      BY <1>2, <1>6, <3>1
  <2> QED
    BY <2>1, <2>2
<1>10. ASSUME g.best < g.beta, NEW m \in Moves[g.pos] \ g.todo
       PROVE  g.best # -Infinity /\ Lower(h, m, g.depth - 1, ply + 1, -g.best)
  <2>1. s < f.beta /\ f.best < f.beta /\ g.todo = f.todo /\ g.best >= s /\ g.best >= f.best
        /\ g.best \in Int /\ g.best # -Infinity
    BY <1>1, <1>2, <1>3, <1>5, <1>6, <1>10, Numbers DEF Larger
  <2>2. PlyScore(m, ply + 1, -g.best)
    BY <1>6, <1>7, <2>1 DEF Backed
  <2>3. m \in Pos /\ ply + 1 \in Nat /\ ply + 1 <= Turn[m] /\ f.depth - 1 \in Depths
    BY <1>1, <1>2, <1>6, Turns, Numbers DEF Depths
  <2>4. CASE m = q
    <3>1. v > CalledAlpha(f)
      BY <1>1, <1>2, <1>3, <2>1 DEF CalledAlpha, s
    <3>2. Lower(h, m, f.depth - 1, ply + 1, v) /\ -g.best <= v
      BY <1>3, <2>1, <2>4, <3>1
    <3> QED
      BY <1>6, <2>1, <2>2, <2>3, <3>2, SearchBounds
  <2>5. CASE m # q
    <3>1. Lower(h, m, f.depth - 1, ply + 1, -f.best) /\ -g.best <= -f.best
      BY <1>1, <1>2, <1>6, <2>1, <2>5
    <3> QED
      BY <1>6, <2>1, <2>2, <2>3, <3>1, SearchBounds
  <2> QED
    BY <2>4, <2>5
<1>11. Working(h, g, ply, g.todo)
  BY <1>2, <1>6, <1>7, <1>8, <1>9, <1>10 DEF Working
<1>12. QED
  BY <1>11 DEF g, s

(* What a loop that is over says of its position.                          *)
LEMMA DoneBounds ==
  ASSUME NEW h \in Int, NEW f \in FrameType, NEW ply \in Nat, ply <= Turn[f.pos],
         f.depth \in Depths, Working(h, f, ply, f.todo), f.todo = {},
         -Infinity <= f.original, f.original < f.beta
  PROVE  /\ PlyScore(f.pos, ply, f.best)
         /\ f.best > f.original => Lower(h, f.pos, f.depth, ply, f.best)
         /\ f.best < f.beta => Upper(h, f.pos, f.depth, ply, f.best)
<1>1. /\ f.pos \in Pos /\ f.alpha \in Int /\ f.beta \in Int /\ f.best \in Int /\ f.original \in Int
  BY DEF FrameType
<1>2. /\ Moves[f.pos] # {} /\ f.depth > 0 /\ f.best <= f.alpha
      /\ f.best = -Infinity \/ Backed(f.pos, ply, f.best)
      /\ f.alpha > f.original => Lower(h, f.pos, f.depth, ply, f.alpha)
      /\ f.best < f.beta =>
           \A m \in Moves[f.pos] : f.best # -Infinity /\ Lower(h, m, f.depth - 1, ply + 1, -f.best)
  BY DEF Working
<1>3. f.best # -Infinity
  BY <1>1, <1>2, Numbers
<1>4. PlyScore(f.pos, ply, f.best)
  BY <1>1, <1>2, <1>3, BackedScores
<1>5. f.best > f.original => Lower(h, f.pos, f.depth, ply, f.best)
  BY <1>1, <1>2, <1>4, SearchBounds
<1>6. f.best < f.beta => Upper(h, f.pos, f.depth, ply, f.best)
  BY <1>1, <1>2, SearchAllMovesBound
<1>7. QED
  BY <1>4, <1>5, <1>6

(* Bounds on the window called are an answer, though an entry narrowed it. *)
LEMMA AnswersByBounds ==
  ASSUME NEW h \in Int, NEW g \in FrameType, NEW f \in FrameType, NEW ply \in Nat,
         ply <= Turn[f.pos], f.depth \in Depths, f.depth = g.depth - 1, Link(h, g, f, ply),
         NEW v, PlyScore(f.pos, ply, v),
         v > f.original => Lower(h, f.pos, f.depth, ply, v),
         v < f.beta => Upper(h, f.pos, f.depth, ply, v)
  PROVE  Answers(h, g, ply, v)
<1>1. /\ f.pos \in Pos /\ f.pos = g.tried /\ f.original = CalledAlpha(g) /\ f.beta <= -g.alpha
      /\ f.beta < -g.alpha => Upper(h, f.pos, f.depth, ply, f.beta)
      /\ f.beta \in Int /\ g.alpha \in Int /\ v \in Int
  BY DEF Link, FrameType, PlyScore
<1>2. v < -g.alpha => Upper(h, f.pos, f.depth, ply, v)
  <2>1. CASE v < f.beta
    BY <2>1
  <2>2. CASE f.beta <= v
    BY <1>1, <2>2, SearchBounds
  <2> QED
    BY <1>1, <2>1, <2>2
<1>3. QED
  BY <1>1, <1>2 DEF Answers

(* A call that ends where it began.                                        *)
LEMMA ExactAnswers ==
  ASSUME NEW h, NEW g, NEW ply, NEW v, Exact(h, g.tried, g.depth - 1, ply, v)
  PROVE  Answers(h, g, ply, v)
BY DEF Exact, Lower, Answers

(* A call that the table answers: no score is left in the window.          *)
LEMMA EntryAnswers ==
  ASSUME NEW h \in Int, NEW g \in FrameType, NEW f \in FrameType, NEW ply \in Nat,
         ply <= Turn[f.pos], f.depth \in Depths, f.depth = g.depth - 1, Link(h, g, f, ply),
         f.alpha = f.original, f.original < f.beta,
         NEW e, EntrySound(h, e), e.pos = f.pos, e.depth \in Depths, f.depth <= e.depth,
         e.bound \in {"exact", "lower", "upper"},
         e.bound = "lower" => Larger(f.alpha, FromTable(e.score, ply)) >= f.beta,
         e.bound = "upper" => f.alpha >= Smaller(f.beta, FromTable(e.score, ply))
  PROVE  Answers(h, g, ply, FromTable(e.score, ply))
<1> DEFINE v == FromTable(e.score, ply)
<1>1. /\ PlyScore(f.pos, ply, v)
      /\ e.bound # "upper" => Lower(h, f.pos, f.depth, ply, v)
      /\ e.bound # "lower" => Upper(h, f.pos, f.depth, ply, v)
  <2>1. f.pos \in Pos
    BY DEF FrameType
  <2> QED
    BY <2>1, EntryBounds
<1> HIDE DEF v
<1>2. v \in Int /\ f.alpha \in Int /\ f.beta \in Int /\ f.original \in Int
  BY <1>1 DEF FrameType, PlyScore
<1>3. /\ e.bound = "upper" => ~(v > f.original)
      /\ e.bound = "lower" => ~(v < f.beta)
  BY <1>2 DEF Larger, Smaller, v
<1>4. /\ v > f.original => Lower(h, f.pos, f.depth, ply, v)
      /\ v < f.beta => Upper(h, f.pos, f.depth, ply, v)
  BY <1>1, <1>3
<1>5. Answers(h, g, ply, v)
  BY <1>1, <1>4, AnswersByBounds
<1>6. QED
  BY <1>5 DEF v

(* A loop that begins, its window narrowed or not by the entry.            *)
LEMMA LoopBegins ==
  ASSUME NEW h \in Int, NEW f \in FrameType, NEW ply \in Nat, ply <= Turn[f.pos],
         f.depth > 0, Moves[f.pos] # {}, f.best = -Infinity, -Infinity <= f.alpha,
         f.alpha < f.beta, f.todo = Moves[f.pos],
         f.alpha > f.original => Lower(h, f.pos, f.depth, ply, f.alpha)
  PROVE  Working(h, f, ply, f.todo)
BY DEF Working

(* The root's own entries in the result.                                   *)
LEMMA AbsorbAtRoot ==
  ASSUME NEW h \in Int, NEW r \in Pos, NEW f \in FrameType, f.pos = r, f.depth \in Depths,
         Waiting(h, f, 0), f.alpha = Larger(f.original, f.best),
         f.best > f.original => f.move \in Moves[r] /\ Upper(h, f.move, f.depth - 1, 1, -f.best),
         NEW v, Answers(h, f, 1, v)
  PROVE  LET g == Absorb(f, -v) IN
         /\ g.alpha = Larger(g.original, g.best)
         /\ g.best > g.original => g.move \in Moves[r] /\ Upper(h, g.move, g.depth - 1, 1, -g.best)
<1> DEFINE s == -v
           g == Absorb(f, s)
<1>1. /\ f.alpha \in Int /\ f.best \in Int /\ f.original \in Int /\ v \in Int /\ s \in Int
      /\ -s = v /\ f.tried \in Moves[r]
      /\ v < -f.alpha => Upper(h, f.tried, f.depth - 1, 1, v)
  BY DEF FrameType, Answers, PlyScore, Waiting
<1>2. /\ g.depth = f.depth /\ g.original = f.original
      /\ g.best = Larger(f.best, s) /\ g.alpha = Larger(f.alpha, s)
      /\ g.move = IF s > f.best THEN f.tried ELSE f.move
  BY DEF Absorb, FrameType
<1> HIDE DEF g, s
<1>3. g.alpha = Larger(g.original, g.best)
  BY <1>1, <1>2 DEF Larger
<1>4. ASSUME g.best > g.original
      PROVE  g.move \in Moves[r] /\ Upper(h, g.move, g.depth - 1, 1, -g.best)
  <2>1. CASE s > f.best
    <3>1. g.best = s /\ v < -f.alpha /\ g.move = f.tried /\ -g.best = v
      BY <1>1, <1>2, <1>4, <2>1 DEF Larger, s
    <3> QED
      BY <1>1, <1>2, <3>1
  <2>2. CASE ~(s > f.best)
    <3>1. g.best = f.best /\ g.move = f.move
      BY <1>1, <1>2, <2>2 DEF Larger
    <3> QED
      BY <1>2, <1>4, <3>1
  <2> QED
    BY <2>1, <2>2
<1>5. QED
  BY <1>3, <1>4 DEF g, s

-----------------------------------------------------------------------------
(* The stack. *)

LEMMA Popped ==
  ASSUME NEW S, NEW s \in Seq(S), s # <<>>
  PROVE  /\ Len(s) \in Nat /\ Len(s) >= 1 /\ Len(s) \in 1 .. Len(s)
         /\ \A i \in 1 .. Len(s) : s[i] \in S
         /\ SubSeq(s, 1, Len(s) - 1) \in Seq(S)
         /\ Len(SubSeq(s, 1, Len(s) - 1)) = Len(s) - 1
         /\ \A i \in 1 .. Len(s) - 1 : SubSeq(s, 1, Len(s) - 1)[i] = s[i]
<1>1. Len(s) \in Nat /\ Len(s) >= 1
  BY LenProperties, EmptySeq
<1>2. \A i \in 1 .. Len(s) : s[i] \in S
  BY ElementOfSeq
<1>3. \A i \in 1 .. Len(s) - 1 : s[i] \in S
  BY <1>1, <1>2
<1>4. /\ SubSeq(s, 1, Len(s) - 1) \in Seq(S)
      /\ Len(SubSeq(s, 1, Len(s) - 1)) = IF 1 <= Len(s) - 1 THEN (Len(s) - 1) - 1 + 1 ELSE 0
      /\ \A i \in 1 .. (Len(s) - 1) - 1 + 1 : SubSeq(s, 1, Len(s) - 1)[i] = s[1 + i - 1]
  <2>1. 1 \in Int /\ Len(s) - 1 \in Int
    BY <1>1
  <2> QED
    BY <1>3, <2>1, SubSeqProperties
<1>5. \A i \in 1 .. Len(s) - 1 : SubSeq(s, 1, Len(s) - 1)[i] = s[i]
  BY <1>1, <1>4
<1>6. Len(SubSeq(s, 1, Len(s) - 1)) = Len(s) - 1
  <2> DEFINE m == Len(SubSeq(s, 1, Len(s) - 1))
             n == Len(s)
  <2>1. n \in Nat /\ n >= 1 /\ m = IF 1 <= n - 1 THEN (n - 1) - 1 + 1 ELSE 0
    BY <1>1, <1>4
  <2> HIDE DEF m, n
  <2>2. m = n - 1
    BY <2>1
  <2> QED
    BY <2>2 DEF m, n
<1>7. Len(s) \in 1 .. Len(s)
  BY <1>1
<1>8. QED
  BY <1>1, <1>2, <1>4, <1>5, <1>6, <1>7

LEMMA TopReplaced ==
  ASSUME NEW S, NEW s \in Seq(S), s # <<>>, NEW f \in S, NEW t,
         t = Append(SubSeq(s, 1, Len(s) - 1), f)
  PROVE  /\ t \in Seq(S) /\ t # <<>> /\ Len(t) = Len(s) /\ t[Len(s)] = f
         /\ \A i \in 1 .. Len(s) - 1 : t[i] = s[i]
<1> DEFINE b == SubSeq(s, 1, Len(s) - 1)
<1>1. /\ Len(s) \in Nat /\ b \in Seq(S) /\ Len(b) = Len(s) - 1
      /\ \A i \in 1 .. Len(s) - 1 : b[i] = s[i]
  BY Popped
<1>2. t = Append(b, f)
  OBVIOUS
<1> HIDE DEF b
<1>5. /\ t \in Seq(S) /\ t # <<>> /\ Len(t) = Len(b) + 1
       /\ \A i \in 1 .. Len(b) : t[i] = b[i]
       /\ t[Len(b) + 1] = f
  BY <1>1, <1>2, AppendProperties
<1>3. (Len(s) - 1) + 1 = Len(s)
  BY <1>1
<1>4. QED
  BY <1>1, <1>5, <1>3

(* What an active search knows of its stack.                               *)
LEMMA Active ==
  ASSUME SearchInv, pc \in {"loop", "visit", "return"}
  PROVE  /\ stack \in Seq(FrameType) /\ stack # <<>>
         /\ Len(stack) \in Nat /\ Len(stack) >= 1 /\ Ply \in Nat /\ Ply + 1 = Len(stack)
         /\ root \in Pos /\ Turn[root] \in Nat /\ iter.depth \in 1 .. MaxDepth /\ Moves[root] # {}
         /\ Seen \in Int /\ Turn[root] + iter.depth <= Seen
         /\ Top \in FrameType /\ Top.pos \in Pos /\ Shaped(root, iter.depth, Top, Len(stack))
         /\ Ply <= Turn[Top.pos] /\ Top.depth \in Depths /\ Top.depth \in 0 .. MaxDepth
         /\ Turn[Top.pos] + Top.depth = Turn[root] + iter.depth
         /\ Turn[Top.pos] + Top.depth <= Seen
<1>1. stack \in Seq(FrameType) /\ stack # <<>>
  BY DEF SearchInv, Phase
<1>2. Len(stack) \in Nat /\ Len(stack) >= 1 /\ Top \in FrameType /\ Len(stack) \in 1 .. Len(stack)
  BY <1>1, Popped DEF Top
<1>3. iter.depth \in 1 .. MaxDepth /\ root \in Pos /\ Moves[root] # {} /\ deepest \in Nat
  BY Numbers DEF SearchInv, Phase, VariablesOK
<1>4. Turn[root] \in Nat
  BY <1>3, Turns
<1>5. Seen \in Int /\ Turn[root] + iter.depth <= Seen
  BY <1>3, <1>4 DEF Seen, Larger
<1>6. Shaped(root, iter.depth, Top, Len(stack))
  BY <1>2 DEF SearchInv, StackSound, Top
<1>7. Top.pos \in Pos /\ Top.depth \in Nat
  BY <1>2 DEF FrameType
<1>8. /\ Top.depth = iter.depth - (Len(stack) - 1)
      /\ Turn[Top.pos] = Turn[root] + (Len(stack) - 1)
  BY <1>6 DEF Shaped
<1>9. Top.depth \in 0 .. MaxDepth /\ Top.depth \in Depths
  BY <1>2, <1>3, <1>7, <1>8, Numbers DEF Depths
<1>10. QED
  BY <1>1, <1>2, <1>3, <1>4, <1>5, <1>6, <1>7, <1>8, <1>9 DEF Ply

(* The frame below the top, which waits for it.                            *)
LEMMA Caller ==
  ASSUME SearchInv, pc \in {"loop", "visit"}, Ply > 0
  PROVE  /\ Len(stack) - 1 \in 1 .. Len(stack) /\ stack[Len(stack) - 1] \in FrameType
         /\ Waiting(Seen, stack[Len(stack) - 1], Len(stack) - 2)
         /\ Link(Seen, stack[Len(stack) - 1], Top, Ply)
         /\ Top.depth = stack[Len(stack) - 1].depth - 1
<1>1. /\ stack \in Seq(FrameType) /\ stack # <<>> /\ Len(stack) \in Nat /\ Ply + 1 = Len(stack)
      /\ Ply \in Nat
      /\ Shaped(root, iter.depth, Top, Len(stack)) /\ iter.depth \in Nat
  BY Active
<1>2. Len(stack) - 1 \in 1 .. Len(stack) /\ Len(stack) \in 2 .. Len(stack)
  BY <1>1
<1>3. stack[Len(stack) - 1] \in FrameType
  BY <1>1, <1>2, Popped
<1>4. /\ Waiting(Seen, stack[Len(stack) - 1], (Len(stack) - 1) - 1)
      /\ Shaped(root, iter.depth, stack[Len(stack) - 1], Len(stack) - 1)
  BY <1>1, <1>2 DEF SearchInv, StackSound
<1>5. Link(Seen, stack[Len(stack) - 1], Top, Len(stack) - 1)
  BY <1>2 DEF SearchInv, StackSound, Top
<1>6. Top.depth = stack[Len(stack) - 1].depth - 1
  BY <1>1, <1>4 DEF Shaped
<1>7. (Len(stack) - 1) - 1 = Len(stack) - 2 /\ Len(stack) - 1 = Ply
  BY <1>1
<1>8. QED
  BY <1>2, <1>3, <1>4, <1>5, <1>6, <1>7

(* A step of a running search: its stack is sound again if the frames it   *)
(* has touched are.                                                        *)
SameSearch == UNCHANGED <<root, iter, deepest>>

LEMMA SameSeen ==
  ASSUME SameSearch
  PROVE  Seen' = Seen /\ root' = root /\ iter' = iter
BY DEF SameSearch, Seen

(* The invariant of the stack when its top is replaced, ...                *)
LEMMA StackTop ==
  ASSUME SearchInv, pc \in {"visit", "return"}, SameSearch, pc' = "loop",
         NEW f \in FrameType, SetTop(f),
         Shaped(root, iter.depth, f, Len(stack)), Working(Seen, f, Ply, f.todo),
         Ply > 0 => Link(Seen, stack[Len(stack) - 1], f, Ply),
         Ply = 0 => RootFrame(Seen, f)
  PROVE  Phase' /\ StackSound'
<1>1. /\ stack \in Seq(FrameType) /\ stack # <<>> /\ Len(stack) \in Nat /\ Len(stack) >= 1
      /\ Ply + 1 = Len(stack) /\ Ply \in Nat /\ iter.depth > 0
  BY Active
<1>2. /\ stack' \in Seq(FrameType) /\ stack' # <<>> /\ Len(stack') = Len(stack)
      /\ stack'[Len(stack)] = f /\ \A i \in 1 .. Len(stack) - 1 : stack'[i] = stack[i]
  BY <1>1, TopReplaced DEF SetTop, Below
<1>3. Top' = f /\ Ply' = Ply /\ Seen' = Seen /\ root' = root /\ iter' = iter
  BY <1>2, SameSeen DEF Top, Ply
<1>4. Phase'
  BY <1>1, <1>2, <1>3 DEF SearchInv, Phase
<1>5. ASSUME NEW i \in 1 .. Len(stack)
      PROVE  Shaped(root, iter.depth, stack'[i], i)
  <2>1. CASE i = Len(stack)
    BY <1>2, <2>1
  <2>2. CASE i # Len(stack)
    <3>1. i \in 1 .. Len(stack) - 1
      BY <1>1, <2>2
    <3> QED
      BY <1>2, <3>1 DEF SearchInv, StackSound
  <2> QED
    BY <2>1, <2>2
<1>6. ASSUME NEW i \in 1 .. Len(stack), i < Len(stack)
      PROVE  Waiting(Seen, stack'[i], i - 1)
  <2>1. i \in 1 .. Len(stack) - 1
    BY <1>1, <1>6
  <2> QED
    BY <1>2, <1>6, <2>1 DEF SearchInv, StackSound
<1>7. ASSUME NEW i \in 2 .. Len(stack)
      PROVE  Link(Seen, stack'[i - 1], stack'[i], i - 1)
  <2>1. i - 1 \in 1 .. Len(stack) - 1
    BY <1>1
  <2>2. CASE i = Len(stack)
    <3>1. Ply > 0 /\ i - 1 = Ply
      BY <1>1, <2>2
    <3>2. Link(Seen, stack[i - 1], f, i - 1)
      BY <2>2, <3>1
    <3> QED
      BY <1>2, <2>1, <2>2, <3>2
  <2>3. CASE i # Len(stack)
    <3>1. i \in 1 .. Len(stack) - 1
      BY <1>1, <2>3
    <3>2. stack'[i] = stack[i] /\ stack'[i - 1] = stack[i - 1]
      BY <1>2, <2>1, <3>1
    <3> QED
      BY <3>2 DEF SearchInv, StackSound
  <2> QED
    BY <2>2, <2>3
<1>8. RootFrame(Seen, stack'[1])
  <2>1. CASE Ply = 0
    BY <1>1, <1>2, <2>1
  <2>2. CASE Ply # 0
    <3>1. 1 \in 1 .. Len(stack) - 1
      BY <1>1, <2>2
    <3> QED
      BY <1>1, <1>2, <3>1 DEF SearchInv, StackSound
  <2> QED
    BY <2>1, <2>2
<1>9. RootFrame(Seen, stack[1])'
  BY <1>3, <1>8 DEF RootFrame
<1>10. StackSound'
  BY <1>2, <1>3, <1>5, <1>6, <1>7, <1>9 DEF StackSound
<1>11. QED
  BY <1>4, <1>10

(* ... when a call is pushed, ...                                          *)
LEMMA StackPushed ==
  ASSUME SearchInv, pc \in {"loop", "return"}, SameSearch, pc' = "visit",
         NEW g \in FrameType, NEW f \in FrameType, stack' = Append(Append(Below, g), f),
         Shaped(root, iter.depth, g, Len(stack)), Waiting(Seen, g, Ply),
         Ply > 0 => Link(Seen, stack[Len(stack) - 1], g, Ply),
         Ply = 0 => RootFrame(Seen, g),
         Shaped(root, iter.depth, f, Len(stack) + 1), Link(Seen, g, f, Ply + 1),
         f = Frame(f.pos, f.depth, f.alpha, f.beta)
  PROVE  Phase' /\ StackSound'
<1> DEFINE n == Len(stack)
           mid == Append(Below, g)
<1>1. /\ stack \in Seq(FrameType) /\ stack # <<>> /\ n \in Nat /\ n >= 1
      /\ Ply + 1 = n /\ Ply \in Nat /\ iter.depth > 0
  BY Active
<1>2. /\ mid \in Seq(FrameType) /\ Len(mid) = n
      /\ mid[n] = g /\ \A i \in 1 .. n - 1 : mid[i] = stack[i]
  BY <1>1, TopReplaced DEF Below
<1>3. /\ stack' \in Seq(FrameType) /\ stack' # <<>> /\ Len(stack') = n + 1
      /\ \A i \in 1 .. n : stack'[i] = mid[i]
      /\ stack'[n + 1] = f
  <2>1. stack' = Append(mid, f)
    OBVIOUS
  <2> HIDE DEF mid
  <2> QED
    BY <1>2, <2>1, AppendProperties
<1> HIDE DEF n, mid
<1>4. Top' = f /\ Ply' = n /\ Seen' = Seen /\ root' = root /\ iter' = iter
  BY <1>1, <1>3, SameSeen DEF Top, Ply
<1>5. stack'[n] = g /\ \A i \in 1 .. n - 1 : stack'[i] = stack[i]
  BY <1>1, <1>2, <1>3
<1>6. Phase'
  BY <1>1, <1>3, <1>4 DEF SearchInv, Phase
<1>7. ASSUME NEW i \in 1 .. n + 1
      PROVE  Shaped(root, iter.depth, stack'[i], i)
  <2>1. CASE i = n + 1
    BY <1>3, <2>1 DEF n
  <2>2. CASE i = n
    BY <1>5, <2>2 DEF n
  <2>3. CASE i \in 1 .. n - 1
    <3>1. i \in 1 .. Len(stack)
      BY <1>1, <2>3 DEF n
    <3> QED
      BY <1>5, <2>3, <3>1 DEF SearchInv, StackSound
  <2>4. n \in Nat /\ n >= 1
    BY <1>1
  <2>5. i = n + 1 \/ i = n \/ i \in 1 .. n - 1
    BY <2>4
  <2> QED
    BY <2>1, <2>2, <2>3, <2>5
<1>8. ASSUME NEW i \in 1 .. n
      PROVE  Waiting(Seen, stack'[i], i - 1)
  <2>1. CASE i = n
    <3>1. i - 1 = Ply
      BY <1>1, <2>1
    <3> QED
      BY <1>5, <2>1, <3>1
  <2>2. CASE i # n
    <3>1. i \in 1 .. n - 1 /\ i \in 1 .. Len(stack) /\ i < Len(stack)
      BY <1>1, <2>2 DEF n
    <3> QED
      BY <1>5, <3>1 DEF SearchInv, StackSound
  <2> QED
    BY <2>1, <2>2
<1>9. ASSUME NEW i \in 2 .. n + 1
      PROVE  Link(Seen, stack'[i - 1], stack'[i], i - 1)
  <2>1. CASE i = n + 1
    <3>1. i - 1 = n /\ i - 1 = Ply + 1
      BY <1>1, <2>1
    <3> QED
      BY <1>3, <1>5, <2>1, <3>1
  <2>2. CASE i = n
    <3>1. Ply > 0 /\ i - 1 = Ply /\ i - 1 \in 1 .. n - 1
      BY <1>1, <2>2
    <3>2. Link(Seen, stack[i - 1], g, i - 1)
      BY <2>2, <3>1 DEF n
    <3> QED
      BY <1>5, <2>2, <3>1, <3>2
  <2>3. CASE i \in 2 .. n - 1
    <3>1. i - 1 \in 1 .. n - 1 /\ i \in 1 .. n - 1 /\ i \in 2 .. Len(stack)
      BY <1>1, <2>3 DEF n
    <3> QED
      BY <1>5, <3>1 DEF SearchInv, StackSound
  <2>4. n \in Nat /\ n >= 1
    BY <1>1
  <2>5. i = n + 1 \/ i = n \/ i \in 2 .. n - 1
    BY <2>4
  <2> QED
    BY <2>1, <2>2, <2>3, <2>5
<1>10. RootFrame(Seen, stack'[1])
  <2>1. CASE Ply = 0
    BY <1>1, <1>5, <2>1
  <2>2. CASE Ply # 0
    <3>1. 1 \in 1 .. n - 1
      BY <1>1, <2>2
    <3> QED
      BY <1>1, <1>5, <3>1 DEF SearchInv, StackSound
  <2> QED
    BY <2>1, <2>2
<1>11. RootFrame(Seen, stack[1])'
  BY <1>4, <1>10 DEF RootFrame
<1>12. \A i \in 1 .. n + 1 : i < n + 1 => i \in 1 .. n
  BY <1>1
<1>13. StackSound'
  BY <1>1, <1>3, <1>4, <1>7, <1>8, <1>9, <1>11, <1>12 DEF StackSound
<1>14. QED
  BY <1>6, <1>13

(* ... when a call returns, ...                                            *)
LEMMA StackPopped ==
  ASSUME SearchInv, pc \in {"loop", "visit", "return"}, SameSearch, pc' = "return", Ply > 0,
         stack' = Below,
         ~stopped' => Answers(Seen, stack[Len(stack) - 1], Ply, value')
  PROVE  Phase' /\ StackSound'
<1> DEFINE n == Len(stack)
<1>1. /\ stack \in Seq(FrameType) /\ stack # <<>> /\ n \in Nat /\ n >= 2
      /\ Ply + 1 = n /\ Ply \in Nat /\ iter.depth > 0
  BY Active
<1>2. /\ stack' \in Seq(FrameType) /\ Len(stack') = n - 1
      /\ \A i \in 1 .. n - 1 : stack'[i] = stack[i]
  BY <1>1, Popped DEF Below
<1>3. stack' # <<>>
  BY <1>1, <1>2, EmptySeq
<1>4. Top' = stack[n - 1] /\ Seen' = Seen /\ root' = root /\ iter' = iter
  <2>1. n - 1 \in 1 .. n - 1
    BY <1>1
  <2> QED
    BY <1>2, <2>1, SameSeen DEF Top
<1>5. Phase'
  BY <1>1, <1>2, <1>3, <1>4 DEF SearchInv, Phase
<1> HIDE DEF n
<1>6. ASSUME NEW i \in 1 .. n - 1
      PROVE  Shaped(root, iter.depth, stack'[i], i) /\ Waiting(Seen, stack'[i], i - 1)
  <2>1. i \in 1 .. Len(stack) /\ i < Len(stack)
    BY <1>1 DEF n
  <2> QED
    BY <1>2, <2>1 DEF SearchInv, StackSound
<1>7. ASSUME NEW i \in 2 .. n - 1
      PROVE  Link(Seen, stack'[i - 1], stack'[i], i - 1)
  <2>1. i - 1 \in 1 .. n - 1 /\ i \in 1 .. n - 1 /\ i \in 2 .. Len(stack)
    BY <1>1 DEF n
  <2> QED
    BY <1>2, <2>1 DEF SearchInv, StackSound
<1>8. RootFrame(Seen, stack'[1])
  <2>1. 1 \in 1 .. n - 1
    BY <1>1
  <2> QED
    BY <1>1, <1>2, <2>1 DEF SearchInv, StackSound
<1>9. RootFrame(Seen, stack[1])'
  BY <1>4, <1>8 DEF RootFrame
<1>10. ~stopped' => Answers(Seen, Top', Len(stack'), value')
  <2>1. Len(stack') = Ply
    BY <1>1, <1>2
  <2> QED
    BY <1>4, <2>1 DEF n
<1>11. StackSound'
  BY <1>2, <1>4, <1>6, <1>7, <1>9, <1>10 DEF StackSound
<1>12. QED
  BY <1>5, <1>11

(* ... and when the search leaves search_root.                             *)
LEMMA StackCleared ==
  ASSUME stack' = <<>>, pc' \in {"idle", "deepen", "window"},
         iter'.depth > 0 => root' \in Pos,
         pc' # "idle" => iter'.depth > 0 /\ Moves[root'] # {},
         pc' = "window" => iter'.alpha < iter'.beta
  PROVE  Phase' /\ StackSound'
<1>1. stack' \in Seq(FrameType) /\ Len(stack') = 0
  BY EmptySeq
<1>2. Phase'
  BY <1>1 DEF Phase
<1>3. 1 .. 0 = {} /\ 2 .. 0 = {}
  OBVIOUS
<1>4. StackSound'
  BY <1>1, <1>3 DEF StackSound
<1>5. QED
  BY <1>2, <1>4

-----------------------------------------------------------------------------
(* The steps of negamax. *)

(* What is left to show of a step below find_best_move.                    *)
LEMMA InnerStep ==
  ASSUME SearchInv, SameSearch, UNCHANGED <<options, result, age, searches>>,
         UNCHANGED table \/ (table' \in [Slots -> Entry] /\ EntriesSound'),
         pc' \in {"loop", "visit", "return"}, value' \in Score, stopped' \in BOOLEAN,
         Phase', StackSound'
  PROVE  SearchInv'
<1>1. Seen' = Seen /\ root' = root /\ iter' = iter /\ deepest' = deepest
  BY SameSeen DEF SameSearch
<1>2. VariablesOK'
  BY <1>1 DEF SearchInv, VariablesOK
<1>3. EntriesSound'
  BY <1>1 DEF SearchInv, EntriesSound
<1>4. AnswerIsMinimax' /\ AnswerSound'
  BY <1>1 DEF SearchInv, AnswerIsMinimax, AnswerSound
<1>5. QED
  BY <1>2, <1>3, <1>4 DEF SearchInv

(* A call from frame f, whose move becomes q.                              *)
LEMMA CallStep ==
  ASSUME SearchInv, pc \in {"loop", "return"}, SameSearch,
         NEW f \in FrameType, NEW q \in Moves[f.pos], NEW scout \in BOOLEAN, NEW g,
         g = [f EXCEPT !.tried = q, !.scout = scout],
         Shaped(root, iter.depth, f, Len(stack)), Waiting(Seen, g, Ply), f.depth > 0,
         Ply > 0 => Link(Seen, stack[Len(stack) - 1], f, Ply),
         Ply = 0 => RootFrame(Seen, f),
         Call(f, q, CalledAlpha(g), -f.alpha, scout)
  PROVE  Phase' /\ StackSound' /\ pc' = "visit"
<1> DEFINE c == Frame(q, f.depth - 1, CalledAlpha(g), -f.alpha)
<1>1. /\ f.pos \in Pos /\ f.depth \in Nat /\ f.alpha \in Int /\ f.beta \in Int /\ f.original \in Int
      /\ f.best \in Int /\ f.move \in Pos \cup {NoPos}
      /\ f.todo \in SUBSET Pos /\ f.first \in BOOLEAN
      /\ q \in Pos /\ Turn[q] = Turn[f.pos] + 1
  <2>1. f.pos \in Pos
    BY DEF FrameType
  <2> QED
    BY <2>1, Turns DEF FrameType
<1>2. /\ g.pos = f.pos /\ g.depth = f.depth /\ g.alpha = f.alpha /\ g.beta = f.beta
      /\ g.original = f.original /\ g.best = f.best /\ g.move = f.move /\ g.todo = f.todo
      /\ g.tried = q /\ g.scout = scout
      /\ g \in FrameType
  BY <1>1 DEF FrameType
<1>3. /\ Len(stack) \in Nat /\ Ply + 1 = Len(stack) /\ root \in Pos /\ Turn[root] \in Nat
      /\ iter.depth \in Nat
  BY Active
<1>4. /\ f.depth = iter.depth - (Len(stack) - 1) /\ Turn[f.pos] = Turn[root] + (Len(stack) - 1)
      /\ -Infinity <= f.original /\ f.original <= f.alpha /\ f.alpha < Infinity
      /\ f.original < f.beta /\ f.beta <= Infinity
      /\ f.todo \subseteq Moves[f.pos] /\ f.best \in Score
  BY DEF Shaped
<1>5. Shaped(root, iter.depth, g, Len(stack))
  BY <1>2, <1>4 DEF Shaped
<1>6. Ply > 0 => Link(Seen, stack[Len(stack) - 1], g, Ply)
  BY <1>2 DEF Link
<1>7. Ply = 0 => RootFrame(Seen, g)
  BY <1>2 DEF RootFrame
<1>8. f.alpha < f.beta
  BY <1>2 DEF Waiting
<1>9. /\ CalledAlpha(g) \in Int /\ -Infinity <= CalledAlpha(g) /\ CalledAlpha(g) < -f.alpha
      /\ CalledAlpha(g) < Infinity /\ -f.alpha <= Infinity /\ -f.alpha \in Int
      /\ f.depth - 1 \in Nat /\ f.depth - 1 = iter.depth - ((Len(stack) + 1) - 1)
      /\ Turn[f.pos] + 1 = Turn[root] + ((Len(stack) + 1) - 1)
      /\ -Infinity \in Int
  <2>1. CalledAlpha(g) \in {-f.alpha - 1, -f.beta}
    BY <1>2 DEF CalledAlpha
  <2>2. Turn[f.pos] \in Nat
    BY <1>1, Turns
  <2> DEFINE a == f.alpha
             b == f.beta
             o == f.original
             w == CalledAlpha(g)
  <2>3. /\ a \in Int /\ b \in Int /\ o \in Int /\ -Infinity <= o /\ o <= a /\ a < Infinity
        /\ o < b /\ b <= Infinity /\ a < b /\ (w = -a - 1 \/ w = -b)
    BY <1>1, <1>4, <1>8, <2>1
  <2> HIDE DEF a, b, o, w
  <2>4. /\ w \in Int /\ -Infinity <= w /\ w < -a /\ w < Infinity
        /\ -a <= Infinity /\ -a \in Int /\ -Infinity \in Int
    <3>1. Infinity \in Nat
      BY Numbers
    <3> QED
      BY <2>3, <3>1
  <2> DEFINE n == Len(stack)
             d == f.depth
             m == iter.depth
             t == Turn[f.pos]
             r == Turn[root]
  <2>5. n \in Nat /\ d \in Nat /\ d > 0 /\ m \in Nat /\ t \in Nat /\ r \in Nat
        /\ d = m - (n - 1) /\ t = r + (n - 1)
    BY <1>1, <1>3, <1>4, <2>2
  <2> HIDE DEF n, d, m, t, r
  <2>6. d - 1 \in Nat /\ d - 1 = m - ((n + 1) - 1) /\ t + 1 = r + ((n + 1) - 1)
    BY <2>5
  <2> QED
    BY <2>4, <2>6 DEF a, b, o, w, n, d, m, t, r
<1>10. /\ c.pos = q /\ c.depth = f.depth - 1 /\ c.alpha = CalledAlpha(g) /\ c.beta = -f.alpha
       /\ c.original = CalledAlpha(g) /\ c.best = -Infinity /\ c.todo = {}
       /\ c = Frame(c.pos, c.depth, c.alpha, c.beta)
  BY DEF Frame
<1>11. c \in FrameType
  <2>2. \A d \in Nat, a \in Int, b \in Int : -Infinity \in Int => Frame(q, d, a, b) \in FrameType
    BY <1>1 DEF Frame, FrameType
  <2> QED
    BY <1>9, <2>2, Zenon
<1>12. stack' = Append(Append(Below, g), c) /\ pc' = "visit"
  BY DEF Call
<1> HIDE DEF c
<1>13. Shaped(root, iter.depth, c, Len(stack) + 1)
  <2>1. -Infinity \in Score
    BY Numbers DEF Score
  <2>2. /\ c.depth = iter.depth - ((Len(stack) + 1) - 1)
        /\ Turn[c.pos] = Turn[root] + ((Len(stack) + 1) - 1)
    BY <1>1, <1>9, <1>10
  <2> QED
    BY <1>9, <1>10, <1>11, <2>1, <2>2 DEF Shaped
<1>14. Link(Seen, g, c, Ply + 1)
  BY <1>1, <1>2, <1>9, <1>10 DEF Link
<1>15. QED
  BY <1>2, <1>5, <1>6, <1>7, <1>10, <1>11, <1>12, <1>13, <1>14, StackPushed

(* What the loop over moves and a call just made may rely on.              *)
LEMMA LoopFrame ==
  ASSUME SearchInv, pc \in {"loop", "visit"}
  PROVE  /\ Ply > 0 => Link(Seen, stack[Len(stack) - 1], Top, Ply)
         /\ Ply = 0 => RootFrame(Seen, Top)
         /\ pc = "loop" => Working(Seen, Top, Ply, Top.todo)
<1>1. stack # <<>> /\ Ply + 1 = Len(stack) /\ Len(stack) \in Nat
  BY Active
<1>2. Ply = 0 => RootFrame(Seen, Top)
  <2> HAVE Ply = 0
  <2>1. Top = stack[1]
    <3>1. Len(stack) = 1
      BY <1>1
    <3> QED
      BY <3>1 DEF Top
  <2>2. RootFrame(Seen, stack[1])
    BY <1>1 DEF SearchInv, StackSound
  <2> QED
    BY <2>1, <2>2
<1>3. QED
  BY <1>2, Caller DEF SearchInv, StackSound

(* What the caller may rely on when a call has returned.                   *)
LEMMA ReturnFrame ==
  ASSUME SearchInv, pc = "return"
  PROVE  /\ Ply > 0 => Link(Seen, stack[Len(stack) - 1], Top, Ply)
         /\ Ply = 0 => RootFrame(Seen, Top)
         /\ Waiting(Seen, Top, Ply)
         /\ ~stopped => Answers(Seen, Top, Ply + 1, value)
<1>1. stack # <<>> /\ Ply + 1 = Len(stack) /\ Len(stack) \in Nat /\ Len(stack) >= 1 /\ Ply \in Nat
  BY Active
<1>2. Ply = 0 => RootFrame(Seen, Top)
  BY <1>1 DEF SearchInv, StackSound, Top
<1>3. Len(stack) \in 1 .. Len(stack) /\ Len(stack) - 1 = Ply
  BY <1>1
<1>4. Waiting(Seen, Top, Len(stack) - 1)
  BY <1>3 DEF SearchInv, StackSound, Top
<1>5. ASSUME Ply > 0 PROVE Link(Seen, stack[Len(stack) - 1], Top, Len(stack) - 1)
  <2>1. Len(stack) \in 2 .. Len(stack)
    BY <1>1, <1>5
  <2> QED
    BY <2>1 DEF SearchInv, StackSound, Top
<1>6. ~stopped => Answers(Seen, Top, Len(stack), value)
  BY DEF SearchInv, StackSound
<1>7. QED
  BY <1>1, <1>2, <1>3, <1>4, <1>5, <1>6

LEMMA TryMoveStep ==
  ASSUME SearchInv, NEW q \in Pos, TryMove(q)
  PROVE  SearchInv'
<1> DEFINE t == Top
           scout == options.pvs /\ ~t.first
           f == [t EXCEPT !.todo = @ \ {q}]
           g == [f EXCEPT !.tried = q, !.scout = scout]
<1>1. /\ pc = "loop" /\ q \in t.todo
      /\ Call(f, q, IF scout THEN -t.alpha - 1 ELSE -t.beta, -t.alpha, scout)
      /\ SameSearch /\ UNCHANGED <<options, result, age, searches, table, value, stopped>>
  BY DEF TryMove, SameSearch
<1>2. /\ t \in FrameType /\ Shaped(root, iter.depth, t, Len(stack))
      /\ Working(Seen, t, Ply, t.todo)
      /\ Ply > 0 => Link(Seen, stack[Len(stack) - 1], t, Ply)
      /\ Ply = 0 => RootFrame(Seen, t)
  BY <1>1, Active, LoopFrame
<1>3. scout \in BOOLEAN
  OBVIOUS
<1> HIDE DEF t, scout
<1>4. /\ f.pos = t.pos /\ f.depth = t.depth /\ f.alpha = t.alpha /\ f.beta = t.beta
      /\ f.original = t.original /\ f.best = t.best /\ f.move = t.move /\ f.todo = t.todo \ {q}
      /\ f \in FrameType
  BY <1>2 DEF FrameType
<1>5. /\ g.pos = t.pos /\ g.depth = t.depth /\ g.alpha = t.alpha /\ g.beta = t.beta
      /\ g.original = t.original /\ g.best = t.best /\ g.todo = t.todo \ {q}
      /\ g.tried = q /\ g.scout = scout
  BY <1>2 DEF FrameType
<1>6. g = [f EXCEPT !.tried = q, !.scout = scout]
  OBVIOUS
<1> HIDE DEF f, g
<1>7. Shaped(root, iter.depth, f, Len(stack))
  BY <1>2, <1>4 DEF Shaped
<1>8. Ply > 0 => Link(Seen, stack[Len(stack) - 1], f, Ply)
  BY <1>2, <1>4 DEF Link
<1>9. Ply = 0 => RootFrame(Seen, f)
  BY <1>2, <1>4 DEF RootFrame
<1>10. q \in Moves[f.pos] /\ t.depth > 0
  BY <1>1, <1>2, <1>4 DEF Shaped, Working
<1>11. Waiting(Seen, g, Ply)
  <2>1. g.todo \cup {g.tried} = t.todo
    BY <1>1, <1>5
  <2>2. t.alpha < t.beta
    BY <1>1, <1>2 DEF Working
  <2>3. Working(Seen, g, Ply, g.todo \cup {g.tried})
    BY <1>2, <1>5, <2>1, <2>2 DEF Working
  <2> QED
    BY <1>4, <1>5, <1>10, <2>2, <2>3 DEF Waiting
<1>12. Call(f, q, CalledAlpha(g), -f.alpha, scout)
  BY <1>1, <1>4, <1>5 DEF CalledAlpha
<1>13. Phase' /\ StackSound' /\ pc' = "visit"
  BY <1>1, <1>3, <1>4, <1>6, <1>7, <1>8, <1>9, <1>10, <1>11, <1>12, CallStep
<1>14. value' \in Score /\ stopped' \in BOOLEAN
  BY <1>1 DEF SearchInv, VariablesOK
<1>15. QED
  BY <1>1, <1>13, <1>14, InnerStep

LEMMA StopInNodeStep ==
  ASSUME SearchInv, StopInNode
  PROVE  SearchInv'
<1>1. /\ pc = "visit" /\ stopped' = TRUE /\ value' = 0 /\ stack' = Below /\ pc' = "return"
      /\ SameSearch /\ UNCHANGED <<options, result, age, searches, table>>
  BY DEF StopInNode, Return, SameSearch
<1>2. Ply > 0
  <2>1. Len(stack) > 1
    BY <1>1 DEF SearchInv, StackSound
  <2>2. Len(stack) \in Nat /\ Ply \in Nat /\ Ply + 1 = Len(stack)
    BY <1>1, Active
  <2> QED
    BY <2>1, <2>2
<1>3. Phase' /\ StackSound'
  BY <1>1, <1>2, StackPopped
<1>4. 0 \in Score
  BY Numbers DEF Score
<1>5. QED
  BY <1>1, <1>3, <1>4, InnerStep

LEMMA UnwindStep ==
  ASSUME SearchInv, Unwind
  PROVE  SearchInv'
<1>1. /\ pc = "return" /\ stopped /\ SameSearch /\ stopped' = stopped
      /\ UNCHANGED <<options, result, age, searches, table>>
  BY DEF Unwind, SameSearch
<1>2. CASE Ply = 0
  <2>1. stack' = <<>> /\ pc' = "idle" /\ value' = value
    BY <1>2 DEF Unwind
  <2>2. Phase' /\ StackSound'
    <3>1. root' = root /\ iter' = iter /\ (iter.depth > 0 => root \in Pos)
      BY <1>1 DEF SameSearch, SearchInv, Phase
    <3> QED
      BY <2>1, <3>1, StackCleared
  <2>3. Seen' = Seen /\ root' = root /\ iter' = iter /\ deepest' = deepest
    BY <1>1, SameSeen DEF SameSearch
  <2>4. VariablesOK'
    BY <1>1, <2>1, <2>3 DEF SearchInv, VariablesOK
  <2>5. EntriesSound' /\ AnswerIsMinimax' /\ AnswerSound'
    BY <1>1, <2>3 DEF SearchInv, EntriesSound, AnswerIsMinimax, AnswerSound
  <2> QED
    BY <2>2, <2>4, <2>5 DEF SearchInv
<1>3. CASE Ply # 0
  <2>1. value' = 0 /\ stack' = Below /\ pc' = "return"
    BY <1>3 DEF Unwind, Return
  <2>2. Ply > 0
    BY <1>1, <1>3, Active
  <2>3. Phase' /\ StackSound'
    BY <1>1, <2>1, <2>2, StackPopped
  <2>4. 0 \in Score /\ stopped' \in BOOLEAN
    BY <1>1, Numbers DEF Score, SearchInv, VariablesOK
  <2> QED
    BY <1>1, <2>1, <2>3, <2>4, InnerStep
<1>4. QED
  BY <1>2, <1>3

(* The entry found for a position.                                         *)
LEMMA Probed ==
  ASSUME SearchInv, NEW p \in Pos
  PROVE  Probe(p) \in Entry /\ EntrySound(Seen, Probe(p)) /\ Slot[p] \in Slots
<1>1. Slot[p] \in Slots
  BY DEF Slots
<1>2. QED
  BY <1>1 DEF Probe, SearchInv, VariablesOK, EntriesSound

(* What an entry makes of the window, and of the call if it closes it.     *)
LEMMA NarrowedSound ==
  ASSUME SearchInv, pc = "visit",
         NEW w, w = Narrowed(Top), NEW v, v = FromTable(Probe(Top.pos).score, Ply)
  PROVE  /\ w = [Top EXCEPT !.alpha = w.alpha, !.beta = w.beta]
         /\ w.alpha \in Int /\ w.beta \in Int
         /\ w.alpha >= w.beta => Answers(Seen, stack[Len(stack) - 1], Ply, v)
         /\ w.alpha < w.beta =>
              /\ Top.alpha <= w.alpha /\ w.beta <= Top.beta
              /\ w.alpha > Top.alpha => Lower(Seen, Top.pos, Top.depth, Ply, w.alpha)
              /\ w.beta < Top.beta => Upper(Seen, Top.pos, Top.depth, Ply, w.beta)
<1> DEFINE f == Top
           e == Probe(Top.pos)
           g == stack[Len(stack) - 1]
<1>1. /\ f \in FrameType /\ f.pos \in Pos /\ Ply \in Nat /\ Ply <= Turn[f.pos] /\ Seen \in Int
      /\ f.depth \in Depths /\ f.original < f.beta /\ f.depth \in Int
  BY Active DEF Shaped, Depths
<1>2. Ply > 0 /\ f = Frame(f.pos, f.depth, f.alpha, f.beta)
  <2>1. Len(stack) > 1 /\ f = Frame(f.pos, f.depth, f.alpha, f.beta)
    BY DEF SearchInv, StackSound
  <2>2. Len(stack) \in Nat /\ Ply \in Nat /\ Ply + 1 = Len(stack)
    BY Active
  <2> QED
    BY <2>1, <2>2
<1>3. g \in FrameType /\ Link(Seen, g, f, Ply) /\ f.depth = g.depth - 1
  BY <1>2, Caller
<1>4. f.alpha = f.original
  BY <1>2 DEF Frame
<1>5. e \in Entry /\ EntrySound(Seen, e)
  BY <1>1, Probed
<1>6. /\ f.alpha \in Int /\ f.beta \in Int
      /\ e.bound \in {"exact", "lower", "upper"} /\ e.depth \in -1 .. MaxDepth
  BY <1>1, <1>5 DEF FrameType, Entry
<1>7. v = FromTable(e.score, Ply) /\
      w = IF ~Hit(f.pos) \/ e.depth < f.depth THEN f
          ELSE IF e.bound = "lower" THEN [f EXCEPT !.alpha = Larger(f.alpha, v)]
          ELSE IF e.bound = "upper" THEN [f EXCEPT !.beta = Smaller(f.beta, v)]
          ELSE [f EXCEPT !.alpha = v, !.beta = v]
  BY <1>6 DEF Narrowed
<1>8. e.pos = f.pos \/ ~Hit(f.pos)
  BY DEF Hit
<1> HIDE DEF f, e, g
<1>9. CASE ~Hit(f.pos) \/ e.depth < f.depth
  <2>1. w = f
    BY <1>7, <1>9
  <2>2. w = [f EXCEPT !.alpha = w.alpha, !.beta = w.beta]
    BY <1>1, <2>1 DEF FrameType
  <2> QED
    BY <1>1, <1>4, <1>6, <2>1, <2>2 DEF f, g
<1>10. CASE Hit(f.pos) /\ ~(e.depth < f.depth)
  <2>1. e.pos = f.pos /\ e.depth \in Depths /\ f.depth <= e.depth
    BY <1>1, <1>6, <1>8, <1>10, Numbers DEF Depths
  <2>2. /\ PlyScore(f.pos, Ply, v)
        /\ e.bound # "upper" => Lower(Seen, f.pos, f.depth, Ply, v)
        /\ e.bound # "lower" => Upper(Seen, f.pos, f.depth, Ply, v)
    BY <1>1, <1>5, <1>7, <2>1, EntryBounds
  <2>3. v \in Int
    BY <2>2 DEF PlyScore
  <2>4. ASSUME e.bound = "lower" => Larger(f.alpha, v) >= f.beta,
               e.bound = "upper" => f.alpha >= Smaller(f.beta, v)
        PROVE  Answers(Seen, g, Ply, v)
    BY <1>1, <1>3, <1>4, <1>5, <1>6, <1>7, <2>1, <2>4, EntryAnswers
  <2>5. CASE e.bound = "lower"
    <3>1. w = [f EXCEPT !.alpha = Larger(f.alpha, v)]
      BY <1>7, <1>10, <2>5
    <3>2. w.alpha = Larger(f.alpha, v) /\ w.beta = f.beta
          /\ w = [f EXCEPT !.alpha = w.alpha, !.beta = w.beta]
      BY <1>1, <3>1 DEF FrameType
    <3>3. w.alpha >= w.beta => Answers(Seen, g, Ply, v)
      BY <2>4, <2>5, <3>2
    <3>4. w.alpha \in Int /\ f.alpha <= w.alpha /\ (w.alpha > f.alpha => w.alpha = v)
      BY <1>6, <2>3, <3>2 DEF Larger
    <3> QED
      BY <1>6, <2>2, <2>5, <3>2, <3>3, <3>4 DEF f, g
  <2>6. CASE e.bound = "upper"
    <3>1. w = [f EXCEPT !.beta = Smaller(f.beta, v)]
      BY <1>7, <1>10, <2>6
    <3>2. w.alpha = f.alpha /\ w.beta = Smaller(f.beta, v)
          /\ w = [f EXCEPT !.alpha = w.alpha, !.beta = w.beta]
      BY <1>1, <3>1 DEF FrameType
    <3>3. w.alpha >= w.beta => Answers(Seen, g, Ply, v)
      BY <2>4, <2>6, <3>2
    <3>4. w.beta \in Int /\ w.beta <= f.beta /\ (w.beta < f.beta => w.beta = v)
      BY <1>6, <2>3, <3>2 DEF Smaller
    <3> QED
      BY <1>6, <2>2, <2>6, <3>2, <3>3, <3>4 DEF f, g
  <2>7. CASE e.bound = "exact"
    <3>1. w = [f EXCEPT !.alpha = v, !.beta = v]
      BY <1>7, <1>10, <2>7
    <3>2. w.alpha = v /\ w.beta = v /\ w = [f EXCEPT !.alpha = w.alpha, !.beta = w.beta]
      BY <1>1, <3>1 DEF FrameType
    <3>3. Answers(Seen, g, Ply, v)
      BY <2>4, <2>7
    <3> QED
      BY <2>3, <3>2, <3>3 DEF f, g
  <2> QED
    BY <1>6, <2>5, <2>6, <2>7
<1>11. QED
  BY <1>9, <1>10

LEMMA VisitStep ==
  ASSUME SearchInv, Visit
  PROVE  SearchInv'
<1> DEFINE f == Top
           w == Narrowed(f)
           v == FromTable(Probe(f.pos).score, Ply)
           g == stack[Len(stack) - 1]
<1>1. /\ pc = "visit" /\ SameSearch
      /\ UNCHANGED <<options, result, age, searches, table, stopped>>
  BY DEF Visit, SameSearch
<1>2. \/ Outcome[f.pos] # "open" /\ Return(TerminalScore(f.pos, Ply))
      \/ Outcome[f.pos] = "open" /\ f.depth = 0 /\ Return(Eval[f.pos])
      \/ w.alpha >= w.beta /\ Return(v)
      \/ Outcome[f.pos] = "open" /\ f.depth # 0 /\ Moves[f.pos] = {} /\ Return(Ply - Mate)
      \/ /\ f.depth # 0 /\ Moves[f.pos] # {} /\ ~(w.alpha >= w.beta)
         /\ SetTop([w EXCEPT !.todo = Moves[f.pos]]) /\ pc' = "loop" /\ value' = value
  BY DEF Visit, SearchMoves
<1>3. /\ f \in FrameType /\ f.pos \in Pos /\ Ply \in Nat /\ Ply <= Turn[f.pos] /\ Seen \in Int
      /\ f.depth \in Depths /\ f.depth \in Nat /\ Shaped(root, iter.depth, f, Len(stack))
  BY <1>1, Active DEF Depths
<1>4. Ply > 0 /\ f = Frame(f.pos, f.depth, f.alpha, f.beta)
  <2>1. Len(stack) > 1 /\ f = Frame(f.pos, f.depth, f.alpha, f.beta)
    BY <1>1 DEF SearchInv, StackSound
  <2>2. Len(stack) \in Nat /\ Ply \in Nat /\ Ply + 1 = Len(stack)
    BY <1>1, Active
  <2> QED
    BY <2>1, <2>2
<1>5. g \in FrameType /\ Link(Seen, g, f, Ply) /\ f.depth = g.depth - 1 /\ f.pos = g.tried
  BY <1>1, <1>4, Caller DEF Link
<1>6. /\ w = [f EXCEPT !.alpha = w.alpha, !.beta = w.beta]
      /\ w.alpha \in Int /\ w.beta \in Int
      /\ w.alpha >= w.beta => Answers(Seen, g, Ply, v)
      /\ w.alpha < w.beta =>
           /\ f.alpha <= w.alpha /\ w.beta <= f.beta
           /\ w.alpha > f.alpha => Lower(Seen, f.pos, f.depth, Ply, w.alpha)
           /\ w.beta < f.beta => Upper(Seen, f.pos, f.depth, Ply, w.beta)
  BY <1>1, NarrowedSound
<1> HIDE DEF f, w, v, g
<1>7. ASSUME NEW x, Return(x), Answers(Seen, g, Ply, x)
      PROVE  SearchInv'
  <2>1. stack' = Below /\ pc' = "return" /\ value' = x
    BY <1>7 DEF Return
  <2>2. Answers(Seen, stack[Len(stack) - 1], Ply, value')
    BY <1>7, <2>1 DEF g
  <2>3. Phase' /\ StackSound'
    BY <1>1, <1>4, <2>1, <2>2, StackPopped
  <2>4. x \in Score
    <3>1. PlyScore(f.pos, Ply, x)
      BY <1>5, <1>7 DEF Answers
    <3> QED
      BY <1>3, <3>1, ScoreRange
  <2>5. stopped' \in BOOLEAN
    BY <1>1 DEF SearchInv, VariablesOK
  <2> QED
    BY <1>1, <2>1, <2>3, <2>4, <2>5, InnerStep
<1>8. ASSUME NEW x, Return(x), Exact(Seen, f.pos, f.depth, Ply, x)
      PROVE  SearchInv'
  BY <1>5, <1>7, <1>8, ExactAnswers
<1>9. CASE Outcome[f.pos] # "open" /\ Return(TerminalScore(f.pos, Ply))
  BY <1>3, <1>8, <1>9, SearchLeaves
<1>10. CASE Outcome[f.pos] = "open" /\ f.depth = 0 /\ Return(Eval[f.pos])
  BY <1>3, <1>8, <1>10, SearchLeaves
<1>11. CASE w.alpha >= w.beta /\ Return(v)
  BY <1>6, <1>7, <1>11
<1>12. CASE Outcome[f.pos] = "open" /\ f.depth # 0 /\ Moves[f.pos] = {} /\ Return(Ply - Mate)
  <2>1. f.depth > 0
    BY <1>3, <1>12
  <2> QED
    BY <1>3, <1>8, <1>12, <2>1, SearchLeaves
<1>13. CASE /\ f.depth # 0 /\ Moves[f.pos] # {} /\ ~(w.alpha >= w.beta)
            /\ SetTop([w EXCEPT !.todo = Moves[f.pos]]) /\ pc' = "loop" /\ value' = value
  <2> DEFINE b == [w EXCEPT !.todo = Moves[f.pos]]
  <2>1. /\ f.alpha \in Int /\ f.beta \in Int /\ f.original = f.alpha /\ f.best = -Infinity
        /\ f.move \in Pos \cup {NoPos} /\ f.tried \in Pos \cup {NoPos} /\ f.original \in Int
        /\ f.best \in Int /\ f.first \in BOOLEAN /\ f.scout \in BOOLEAN
    BY <1>3, <1>4 DEF FrameType, Frame
  <2>2. Moves[f.pos] \in SUBSET Pos
    BY <1>3, Turns
  <2>3. w.alpha < w.beta /\ f.depth > 0
    BY <1>3, <1>6, <1>13
  <2>4. /\ b.pos = f.pos /\ b.depth = f.depth /\ b.alpha = w.alpha /\ b.beta = w.beta
        /\ b.original = f.alpha /\ b.best = -Infinity /\ b.todo = Moves[f.pos]
        /\ b \in FrameType
    BY <1>3, <1>6, <2>1, <2>2 DEF FrameType
  <2> HIDE DEF b
  <2>5. /\ f.depth = iter.depth - (Len(stack) - 1) /\ Turn[f.pos] = Turn[root] + (Len(stack) - 1)
        /\ -Infinity <= f.alpha /\ f.beta <= Infinity /\ f.best \in Score
    BY <1>3, <2>1 DEF Shaped
  <2>6. /\ f.alpha <= w.alpha /\ w.beta <= f.beta
        /\ w.alpha > f.alpha => Lower(Seen, f.pos, f.depth, Ply, w.alpha)
        /\ w.beta < f.beta => Upper(Seen, f.pos, f.depth, Ply, w.beta)
    BY <1>6, <2>3
  <2>7. /\ -Infinity <= w.alpha /\ w.alpha < Infinity /\ f.alpha < w.beta /\ w.beta <= Infinity
    <3>1. \A x, y, z, t \in Int : -Infinity <= x /\ x <= y /\ y < z /\ z <= t /\ t <= Infinity =>
            -Infinity <= y /\ y < Infinity /\ x < z /\ z <= Infinity
      BY Numbers
    <3> QED
      BY <1>6, <2>1, <2>3, <2>5, <2>6, <3>1
  <2>8. Shaped(root, iter.depth, b, Len(stack))
    BY <2>1, <2>4, <2>5, <2>6, <2>7 DEF Shaped
  <2>9. Working(Seen, b, Ply, b.todo)
    <3>1. Ply <= Turn[b.pos] /\ b.depth > 0 /\ Moves[b.pos] # {} /\ -Infinity <= b.alpha
          /\ b.alpha < b.beta
      BY <1>3, <1>13, <2>3, <2>4, <2>7
    <3>2. b.alpha > b.original => Lower(Seen, b.pos, b.depth, Ply, b.alpha)
      BY <2>4, <2>6
    <3> QED
      BY <1>3, <2>4, <3>1, <3>2, LoopBegins
  <2>10. Link(Seen, g, b, Ply)
    <3>1. /\ f.pos = g.tried /\ f.alpha = CalledAlpha(g) /\ f.beta <= -g.alpha
          /\ f.beta < -g.alpha => Upper(Seen, f.pos, f.depth, Ply, f.beta)
          /\ g.alpha \in Int
      BY <1>5, <2>1 DEF Link, FrameType
    <3>2. w.beta <= -g.alpha
      BY <1>6, <2>1, <2>6, <3>1
    <3>3. w.beta < -g.alpha => Upper(Seen, f.pos, f.depth, Ply, w.beta)
      <4>1. w.beta = f.beta \/ w.beta < f.beta
        BY <1>6, <2>1, <2>6
      <4> QED
        BY <2>6, <3>1, <4>1
    <3> QED
      BY <2>4, <3>1, <3>2, <3>3 DEF Link
  <2>11. SetTop(b) /\ pc' = "loop" /\ value' = value
    BY <1>13 DEF b
  <2>12. Phase' /\ StackSound'
    <3>1. Ply > 0 => Link(Seen, stack[Len(stack) - 1], b, Ply)
      BY <2>10 DEF g
    <3>2. ~(Ply = 0)
      BY <1>4
    <3> QED
      BY <1>1, <2>4, <2>8, <2>9, <2>11, <3>1, <3>2, StackTop
  <2>13. value' \in Score /\ stopped' \in BOOLEAN
    BY <1>1, <2>11 DEF SearchInv, VariablesOK
  <2> QED
    BY <1>1, <2>11, <2>12, <2>13, InnerStep
<1>14. QED
  BY <1>2, <1>9, <1>10, <1>11, <1>12, <1>13

LEMMA ResumeStep ==
  ASSUME SearchInv, Resume
  PROVE  SearchInv'
<1> DEFINE f == Top
           s == -value
           b == Absorb(f, s)
<1>1. /\ pc = "return" /\ ~stopped /\ SameSearch /\ value' = value /\ stopped' = stopped
      /\ UNCHANGED <<options, result, age, searches, table>>
  BY DEF Resume, SameSearch
<1>2. IF f.scout /\ f.alpha < s /\ s < f.beta
      THEN Call(f, f.tried, -f.beta, -f.alpha, FALSE)
      ELSE SetTop(b) /\ pc' = "loop"
  BY DEF Resume
<1>3. /\ f \in FrameType /\ f.pos \in Pos /\ Ply \in Nat /\ Ply <= Turn[f.pos] /\ Seen \in Int
      /\ f.depth \in Depths /\ f.depth \in Nat /\ Shaped(root, iter.depth, f, Len(stack))
      /\ root \in Pos
  BY <1>1, Active DEF Depths
<1>4. /\ Ply > 0 => Link(Seen, stack[Len(stack) - 1], f, Ply)
      /\ Ply = 0 => RootFrame(Seen, f)
      /\ Waiting(Seen, f, Ply) /\ Answers(Seen, f, Ply + 1, value)
  BY <1>1, ReturnFrame
<1>5. value' \in Score /\ stopped' \in BOOLEAN
  BY <1>1 DEF SearchInv, VariablesOK
<1> HIDE DEF f, s, b
<1>6. CASE f.scout /\ f.alpha < s /\ s < f.beta
  <2> DEFINE g == [f EXCEPT !.tried = f.tried, !.scout = FALSE]
  <2>1. /\ f.tried \in Pos \cup {NoPos} /\ f.pos \in Pos /\ f.depth \in Nat /\ f.first \in BOOLEAN
    BY <1>3 DEF FrameType
  <2>2. /\ g.pos = f.pos /\ g.depth = f.depth /\ g.alpha = f.alpha /\ g.beta = f.beta
        /\ g.original = f.original /\ g.best = f.best /\ g.todo = f.todo /\ g.tried = f.tried
        /\ g.scout = FALSE
    BY <1>3 DEF FrameType
  <2>3. g = [f EXCEPT !.tried = f.tried, !.scout = FALSE]
    OBVIOUS
  <2> HIDE DEF g
  <2>4. f.tried \in Moves[f.pos] /\ f.depth > 0
    BY <1>4 DEF Waiting, Working
  <2>5. Waiting(Seen, g, Ply)
    BY <1>4, <2>2 DEF Waiting, Working
  <2>6. Call(f, f.tried, CalledAlpha(g), -f.alpha, FALSE)
    BY <1>2, <1>6, <2>2 DEF CalledAlpha
  <2>7. Phase' /\ StackSound' /\ pc' = "visit"
    <3>1. FALSE \in BOOLEAN
      OBVIOUS
    <3> QED
      BY <1>1, <1>3, <1>4, <2>3, <2>4, <2>5, <2>6, <3>1, CallStep
  <2> QED
    BY <1>1, <1>5, <2>7, InnerStep
<1>7. CASE ~(f.scout /\ f.alpha < s /\ s < f.beta)
  <2>1. SetTop(b) /\ pc' = "loop"
    BY <1>2, <1>7
  <2>2. /\ f.alpha \in Int /\ f.beta \in Int /\ f.original \in Int /\ f.best \in Int
        /\ f.move \in Pos \cup {NoPos} /\ f.tried \in Pos \cup {NoPos}
        /\ f.todo \in SUBSET Pos /\ f.scout \in BOOLEAN
    BY <1>3 DEF FrameType
  <2>3. f.tried \in Moves[f.pos] /\ PlyScore(f.tried, Ply + 1, value) /\ f.tried \in Pos
    BY <1>3, <1>4, Turns DEF Waiting, Answers
  <2>4. s \in Int /\ -Mate <= s /\ s <= Mate
    <3>1. Ply + 1 \in Nat
      BY <1>3
    <3>2. value \in Int /\ -Mate <= value /\ value <= Mate
      BY <2>3, <3>1, ScoreRange
    <3> QED
      BY <3>2, Numbers DEF s
  <2>5. /\ b.pos = f.pos /\ b.depth = f.depth /\ b.beta = f.beta /\ b.original = f.original
        /\ b.best = Larger(f.best, s) /\ b.alpha = Larger(f.alpha, s)
        /\ b.todo \in {{}, f.todo}
        /\ b.move \in {f.tried, f.move} /\ b.tried = f.tried /\ b.scout = f.scout /\ b.first = FALSE
    BY <1>3 DEF b, Absorb, FrameType
  <2>6. Larger(f.best, s) \in Int /\ Larger(f.alpha, s) \in Int
    BY <2>2, <2>4 DEF Larger
  <2>7. b \in FrameType
    <3>1. \A x \in Int, m \in Pos \cup {NoPos}, a \in Int, t \in SUBSET Pos :
            [f EXCEPT !.best = x, !.move = m, !.alpha = a, !.first = FALSE, !.todo = t]
              \in FrameType
      BY <1>3 DEF FrameType
    <3>2. b = [f EXCEPT !.best = b.best, !.move = b.move, !.alpha = b.alpha, !.first = FALSE,
                        !.todo = b.todo]
      <4> DEFINE a == Larger(f.alpha, s)
                 x == Larger(f.best, s)
                 m == IF s > f.best THEN f.tried ELSE f.move
                 t == IF a >= f.beta THEN {} ELSE f.todo
      <4>1. b = [f EXCEPT !.best = x, !.move = m, !.alpha = a, !.first = FALSE, !.todo = t]
        BY DEF b, Absorb
      <4> HIDE DEF a, x, m, t
      <4>2. b.best = x /\ b.move = m /\ b.alpha = a /\ b.todo = t
        BY <1>3, <4>1 DEF FrameType
      <4> QED
        BY <4>1, <4>2
    <3>3. b.best \in Int /\ b.move \in Pos \cup {NoPos} /\ b.alpha \in Int /\ b.todo \in SUBSET Pos
      BY <2>2, <2>5, <2>6
    <3>4. [f EXCEPT !.best = b.best, !.move = b.move, !.alpha = b.alpha, !.first = FALSE,
                    !.todo = b.todo] \in FrameType
      <4> DEFINE a == b.alpha
                 x == b.best
                 m == b.move
                 t == b.todo
      <4>1. x \in Int /\ m \in Pos \cup {NoPos} /\ a \in Int /\ t \in SUBSET Pos
        BY <3>3
      <4> HIDE DEF a, x, m, t
      <4>2. [f EXCEPT !.best = x, !.move = m, !.alpha = a, !.first = FALSE, !.todo = t]
              \in FrameType
        BY <3>1, <4>1
      <4> QED
        BY <4>2 DEF a, x, m, t
    <3> QED
      BY <3>2, <3>4
  <2>8. Shaped(root, iter.depth, b, Len(stack))
    <3>1. /\ f.depth = iter.depth - (Len(stack) - 1) /\ Turn[f.pos] = Turn[root] + (Len(stack) - 1)
          /\ -Infinity <= f.original /\ f.original <= f.alpha /\ f.alpha < Infinity
          /\ f.original < f.beta /\ f.beta <= Infinity
          /\ f.todo \subseteq Moves[f.pos] /\ f.best \in Score
      BY <1>3 DEF Shaped
    <3>2. f.original <= b.alpha /\ b.alpha < Infinity /\ b.best \in Score
      <4>1. f.best \in -Infinity .. Infinity
        BY <3>1 DEF Score
      <4> QED
        BY <2>2, <2>4, <2>5, <3>1, <4>1, Numbers DEF Larger, Score
    <3>3. b.todo \subseteq Moves[b.pos]
      BY <2>5, <3>1
    <3> QED
      BY <2>5, <2>7, <3>1, <3>2, <3>3 DEF Shaped
  <2>9. Working(Seen, b, Ply, b.todo)
    <3>1. f.original <= f.alpha
      BY <1>3 DEF Shaped
    <3>2. ~(f.scout /\ f.alpha < -value /\ -value < f.beta)
      BY <1>7 DEF s
    <3> QED
      BY <1>3, <1>4, <3>1, <3>2, AbsorbWorks DEF b, s
  <2>10. Ply > 0 => Link(Seen, stack[Len(stack) - 1], b, Ply)
    BY <1>4, <2>5 DEF Link
  <2>11. ASSUME Ply = 0 PROVE RootFrame(Seen, b)
    <3>1. RootFrame(Seen, f) /\ Waiting(Seen, f, 0) /\ Answers(Seen, f, 1, value)
      <4>1. Ply + 1 = 1
        BY <2>11
      <4> QED
        BY <1>4, <2>11, <4>1
    <3>2. /\ f.pos = root /\ f.original = iter.alpha /\ f.beta = iter.beta
          /\ f.alpha = Larger(f.original, f.best)
          /\ f.best > f.original =>
               f.move \in Moves[root] /\ Upper(Seen, f.move, f.depth - 1, 1, -f.best)
      BY <3>1 DEF RootFrame
    <3>3. /\ b.alpha = Larger(b.original, b.best)
          /\ b.best > b.original =>
               b.move \in Moves[root] /\ Upper(Seen, b.move, b.depth - 1, 1, -b.best)
      BY <1>3, <3>1, <3>2, AbsorbAtRoot DEF b, s
    <3> QED
      BY <2>5, <3>2, <3>3 DEF RootFrame
  <2>12. Phase' /\ StackSound'
    BY <1>1, <2>1, <2>7, <2>8, <2>9, <2>10, <2>11, StackTop
  <2> QED
    BY <1>1, <1>5, <2>1, <2>12, InnerStep
<1>8. QED
  BY <1>6, <1>7

(* What is stored when a loop is over.                                     *)
LEMMA StoreStep ==
  ASSUME SearchInv, pc = "loop", Top.todo = {}, Store(Top, Ply)
  PROVE  /\ table' \in [Slots -> Entry]
         /\ \A i \in Slots : EntrySound(Seen, table'[i])
         /\ PlyScore(Top.pos, Ply, Top.best)
         /\ Top.best > Top.original => Lower(Seen, Top.pos, Top.depth, Ply, Top.best)
         /\ Top.best < Top.beta => Upper(Seen, Top.pos, Top.depth, Ply, Top.best)
<1> DEFINE f == Top
           e == [pos |-> f.pos, depth |-> f.depth, score |-> ToTable(f.best, Ply),
                 bound |-> Bound(f), age |-> age]
<1>1. /\ f \in FrameType /\ f.pos \in Pos /\ Ply \in Nat /\ Ply <= Turn[f.pos] /\ Seen \in Int
      /\ f.depth \in Depths /\ f.depth \in 0 .. MaxDepth /\ Shaped(root, iter.depth, f, Len(stack))
      /\ Turn[f.pos] + f.depth <= Seen
  BY Active
<1>2. Working(Seen, f, Ply, f.todo)
  BY LoopFrame
<1>3. table \in [Slots -> Entry] /\ age \in 0 .. AgeSpan - 1
      /\ \A i \in Slots : EntrySound(Seen, table[i])
  BY DEF SearchInv, VariablesOK, EntriesSound
<1>4. table' = table \/ table' = [table EXCEPT ![Slot[f.pos]] = e]
  BY DEF Store
<1>5. f.todo = {}
  OBVIOUS
<1> HIDE DEF f
<1>6. /\ PlyScore(f.pos, Ply, f.best)
      /\ f.best > f.original => Lower(Seen, f.pos, f.depth, Ply, f.best)
      /\ f.best < f.beta => Upper(Seen, f.pos, f.depth, Ply, f.best)
  <2>1. -Infinity <= f.original /\ f.original < f.beta
    BY <1>1 DEF Shaped
  <2> QED
    BY <1>1, <1>2, <1>5, <2>1, DoneBounds
<1>7. f.best \in Int /\ f.original \in Int /\ f.beta \in Int
  BY <1>1 DEF FrameType
<1>8. /\ Bound(f) \in {"exact", "lower", "upper"}
      /\ Bound(f) # "upper" => f.best > f.original
      /\ Bound(f) # "lower" => f.best < f.beta
  <2>1. f.original < f.beta
    BY <1>1 DEF Shaped
  <2> QED
    BY <1>7, <2>1 DEF Bound
<1>9. EntrySound(Seen, e)
  BY <1>1, <1>6, <1>8, StoredSound
<1>10. e \in Entry
  <2>1. PosScore(f.pos, ToTable(f.best, Ply))
    BY <1>1, <1>6, <1>7, TableScores
  <2>2. ToTable(f.best, Ply) \in Score
    BY <1>1, <2>1, ScoreRange
  <2>3. f.depth \in -1 .. MaxDepth
    BY <1>1
  <2> QED
    BY <1>1, <1>3, <1>8, <2>2, <2>3 DEF Entry
<1> HIDE DEF e
<1>11. table' \in [Slots -> Entry]
  BY <1>3, <1>4, <1>10
<1>12. \A i \in Slots : table'[i] = table[i] \/ table'[i] = e
  BY <1>3, <1>4
<1>13. \A i \in Slots : EntrySound(Seen, table'[i])
  BY <1>3, <1>9, <1>12
<1>14. QED
  BY <1>6, <1>11, <1>13 DEF f

LEMMA NodeDoneStep ==
  ASSUME SearchInv, NodeDone
  PROVE  SearchInv'
<1>1. /\ pc = "loop" /\ Ply > 0 /\ Top.todo = {} /\ Store(Top, Ply) /\ SameSearch
      /\ stack' = Below /\ pc' = "return" /\ value' = Top.best /\ stopped' = stopped
      /\ UNCHANGED <<options, result, age, searches>>
  BY DEF NodeDone, Return, SameSearch
<1>2. /\ table' \in [Slots -> Entry]
      /\ \A i \in Slots : EntrySound(Seen, table'[i])
      /\ PlyScore(Top.pos, Ply, Top.best)
      /\ Top.best > Top.original => Lower(Seen, Top.pos, Top.depth, Ply, Top.best)
      /\ Top.best < Top.beta => Upper(Seen, Top.pos, Top.depth, Ply, Top.best)
  BY <1>1, StoreStep
<1>3. /\ Top \in FrameType /\ Top.pos \in Pos /\ Ply \in Nat /\ Ply <= Turn[Top.pos] /\ Seen \in Int
      /\ Top.depth \in Depths
  BY <1>1, Active
<1>4. /\ stack[Len(stack) - 1] \in FrameType
      /\ Link(Seen, stack[Len(stack) - 1], Top, Ply)
      /\ Top.depth = stack[Len(stack) - 1].depth - 1
  BY <1>1, Caller
<1>5. Answers(Seen, stack[Len(stack) - 1], Ply, Top.best)
  BY <1>2, <1>3, <1>4, AnswersByBounds
<1>6. Phase' /\ StackSound'
  BY <1>1, <1>5, StackPopped
<1>7. Seen' = Seen
  BY <1>1, SameSeen
<1>8. EntriesSound'
  BY <1>2, <1>7 DEF EntriesSound
<1>9. Top.best \in Score /\ stopped' \in BOOLEAN
  BY <1>1, <1>2, <1>3, ScoreRange DEF SearchInv, VariablesOK
<1>10. QED
  BY <1>1, <1>2, <1>6, <1>8, <1>9, InnerStep

-----------------------------------------------------------------------------
(* The steps of find_best_move. *)

(* A new iteration may look further; what the table says stays sound.      *)
LEMMA SeenGrows ==
  ASSUME SearchInv, NEW h, h = Seen', h \in Int, Seen \in Int, Seen <= h,
         table' \in [Slots -> Entry], \A i \in Slots : EntrySound(Seen, table'[i])
  PROVE  EntriesSound'
<1>1. ASSUME NEW i \in Slots
      PROVE  EntrySound(h, table'[i])
  <2>1. table'[i].pos \in Pos \cup {NoPos}
    BY DEF Entry
  <2> QED
    BY <2>1, FurtherSound
<1>2. QED
  BY <1>1 DEF EntriesSound

LEMMA SeenNumber ==
  ASSUME SearchInv
  PROVE  /\ Seen \in Nat /\ deepest \in Nat /\ deepest <= Seen
         /\ iter.depth > 0 => root \in Pos /\ Turn[root] \in Nat /\ Turn[root] + iter.depth <= Seen
         /\ iter.depth \in 0 .. MaxDepth
<1>1. deepest \in Nat /\ iter.depth \in 0 .. MaxDepth /\ (iter.depth > 0 => root \in Pos)
  BY DEF SearchInv, VariablesOK, Phase
<1>2. iter.depth > 0 => Turn[root] \in Nat
  BY <1>1, Turns
<1>3. QED
  BY <1>1, <1>2, Numbers DEF Seen, Larger

LEMMA InitSound == SearchInit => SearchInv
<1> SUFFICES ASSUME SearchInit PROVE SearchInv
  OBVIOUS
<1>1. /\ EmptyEntry \in Entry
      /\ NoResult \in [move : Pos \cup {NoPos}, score : Score, depth : 0 .. MaxDepth]
      /\ NoIter \in
           [depth : 0 .. MaxDepth, alpha : Score, beta : Score, window : Nat, retries : Nat]
      /\ 0 \in Score /\ 0 \in 0 .. AgeSpan - 1
  BY Numbers DEF EmptyEntry, Entry, NoResult, NoIter, Score
<1>2. VariablesOK
  BY <1>1 DEF SearchInit, VariablesOK
<1>3. Phase
  BY EmptySeq DEF SearchInit, Phase, NoIter
<1>4. StackSound
  <2>1. Len(stack) = 0 /\ 1 .. 0 = {} /\ 2 .. 0 = {}
    BY EmptySeq DEF SearchInit
  <2> QED
    BY <2>1 DEF SearchInit, StackSound
<1>5. EntriesSound
  BY DEF SearchInit, EntriesSound, EntrySound, EmptyEntry
<1>6. AnswerIsMinimax /\ AnswerSound
  BY SearchConstants DEF SearchInit, AnswerIsMinimax, AnswerSound, NoResult
<1>7. QED
  BY <1>2, <1>3, <1>4, <1>5, <1>6 DEF SearchInv

LEMMA AskStep ==
  ASSUME SearchInv, NEW p \in Pos, Ask(p)
  PROVE  SearchInv'
<1> DEFINE done == [NoResult EXCEPT !.score =
                     IF Outcome[p] = "open" THEN -Mate ELSE TerminalScore(p, 0)]
           start == [NoIter EXCEPT !.depth = IF options.deepening THEN 1 ELSE MaxDepth]
<1>1. /\ pc = "idle" /\ searches' = searches + 1 /\ root' = p /\ stopped' = FALSE
      /\ age' = (age + 1) % AgeSpan /\ options' = options /\ stack' = stack /\ value' = value
      /\ deepest' = IF options.clear THEN 0 ELSE Seen
      /\ table' = IF options.clear THEN [s \in Slots |-> EmptyEntry] ELSE table
  BY DEF Ask, Seen
<1>2. \/ Moves[p] = {} /\ result' = done /\ iter' = NoIter /\ pc' = "idle"
      \/ /\ Moves[p] # {} /\ iter' = start /\ pc' = "deepen"
         /\ \E m \in Moves[p] : result' = [move |-> m, score |-> Eval[p], depth |-> 0]
  BY <1>1 DEF Ask
<1>3. iter' = NoIter \/ iter' = start
  BY <1>2
<1>4. Seen \in Nat /\ Turn[p] \in Nat /\ p # NoPos
  BY SeenNumber, Turns
<1>5. /\ NoIter.depth = 0 /\ start.depth \in 1 .. MaxDepth
      /\ {NoIter, start} \subseteq
           [depth : 0 .. MaxDepth, alpha : Score, beta : Score, window : Nat, retries : Nat]
  BY Numbers DEF NoIter, Score
<1>6. EmptyEntry \in Entry /\ EmptyEntry.pos = NoPos
  BY Numbers DEF EmptyEntry, Entry, Score
<1>7. stack' = <<>>
  BY <1>1 DEF SearchInv, Phase
<1>8. Phase' /\ StackSound'
  <2>1. pc' \in {"idle", "deepen", "window"} /\ pc' # "window"
    BY <1>2
  <2>2. pc' # "idle" => iter'.depth > 0 /\ Moves[root'] # {}
    BY <1>1, <1>2, <1>5
  <2> QED
    BY <1>1, <1>7, <2>1, <2>2, StackCleared
<1>9. table' \in [Slots -> Entry]
  BY <1>1, <1>6 DEF SearchInv, VariablesOK
<1>10. EntriesSound'
  <2>1. CASE options.clear
    <3>1. \A i \in Slots : table'[i].pos = NoPos
      BY <1>1, <1>6, <2>1
    <3> QED
      BY <3>1 DEF EntriesSound, EntrySound
  <2>2. CASE ~options.clear
    <3>1. table' = table /\ deepest' = Seen
      BY <1>1, <2>2
    <3>2. Seen' = IF iter'.depth = 0 THEN deepest' ELSE Larger(deepest', Turn[root'] + iter'.depth)
      BY DEF Seen
    <3>3. iter'.depth \in Nat
      BY <1>3, <1>5
    <3>4. Seen' \in Int /\ Seen <= Seen'
      <4> DEFINE k == Turn[p] + iter'.depth
      <4>1. k \in Int /\ (Seen' = Seen \/ Seen' = Larger(Seen, k))
        BY <1>1, <1>4, <3>1, <3>2, <3>3
      <4> HIDE DEF k
      <4> QED
        BY <1>4, <4>1 DEF Larger
    <3>5. \A i \in Slots : EntrySound(Seen, table'[i])
      BY <3>1 DEF SearchInv, EntriesSound
    <3> QED
      BY <1>4, <1>9, <3>4, <3>5, SeenGrows
  <2> QED
    BY <2>1, <2>2
<1>11. /\ result' \in [move : Pos \cup {NoPos}, score : Score, depth : 0 .. MaxDepth]
       /\ result'.depth = 0
       /\ IF Moves[p] = {} THEN result'.move = NoPos ELSE result'.move \in Moves[p]
       /\ PosScore(p, result'.score) /\ Announces(p, result'.score, "exact")
  <2>1. CASE Moves[p] = {}
    <3> DEFINE v == IF Outcome[p] = "open" THEN -Mate ELSE TerminalScore(p, 0)
    <3>1. result' = [NoResult EXCEPT !.score = v]
      BY <1>2, <2>1
    <3>2. 1 \in Depths /\ 0 \in Nat /\ 0 <= Turn[p] /\ 0 \in Int /\ 0 - Mate = -Mate
      BY <1>4, Numbers DEF Depths
    <3>3. Exact(0, p, 1, 0, v)
      <4>1. /\ Outcome[p] # "open" => Exact(0, p, 1, 0, TerminalScore(p, 0))
            /\ Outcome[p] = "open" => Exact(0, p, 1, 0, 0 - Mate)
        BY <2>1, <3>2, SearchLeaves
      <4>2. Outcome[p] = "open" => v = 0 - Mate
        BY <3>2
      <4>3. Outcome[p] # "open" => v = TerminalScore(p, 0)
        OBVIOUS
      <4> HIDE DEF v
      <4> QED
        BY <4>1, <4>2, <4>3
    <3> HIDE DEF v
    <3>4. PosScore(p, v) /\ ToTable(v, 0) = v
      BY <3>3, PlyScoreAtRoot, ScoreRange DEF Exact, Lower
    <3>5. Announces(p, v, "exact")
      BY <3>3, <3>4 DEF Exact, Lower, Upper, AtLeast, AtMost, Announces
    <3>6. v \in Score
      BY <3>4, ScoreRange
    <3>7. /\ result'.score = v /\ result'.move = NoPos /\ result'.depth = 0
          /\ result' = [move |-> NoPos, score |-> v, depth |-> 0]
      BY <3>1 DEF NoResult
    <3>8. 0 \in 0 .. MaxDepth
      BY Numbers
    <3> QED
      BY <2>1, <3>4, <3>5, <3>6, <3>7, <3>8
  <2>2. CASE Moves[p] # {}
    <3>1. PICK m \in Moves[p] : result' = [move |-> m, score |-> Eval[p], depth |-> 0]
      BY <1>2, <2>2
    <3>2. Eval[p] \in Int /\ ~MateScore(Eval[p])
      BY Positions, Scores
    <3>3. PosScore(p, Eval[p]) /\ Announces(p, Eval[p], "exact")
      BY <3>2 DEF PosScore, Announces, MateScore
    <3>4. Eval[p] \in Score /\ m \in Pos /\ 0 \in 0 .. MaxDepth
      BY <3>3, ScoreRange, Turns, Numbers
    <3> QED
      BY <2>2, <3>1, <3>3, <3>4
  <2> QED
    BY <2>1, <2>2
<1>12. AnswerIsMinimax' /\ AnswerSound'
  BY <1>1, <1>4, <1>11 DEF AnswerIsMinimax, AnswerSound
<1>13. VariablesOK'
  <2>1. (age + 1) % AgeSpan \in 0 .. AgeSpan - 1
    <3>1. age \in Nat
      BY Numbers DEF SearchInv, VariablesOK
    <3> QED
      BY <3>1, Numbers
  <2>2. deepest' \in Nat /\ searches' \in Nat /\ stopped' \in BOOLEAN
    <3>1. deepest' = 0 \/ deepest' = Seen
      BY <1>1
    <3>2. searches \in Nat
      BY DEF SearchInv, VariablesOK
    <3>3. deepest' \in Nat
      BY <1>4, <3>1
    <3>4. searches' = searches + 1 /\ stopped' = FALSE
      BY <1>1
    <3>5. searches' \in Nat
      BY <3>2, <3>4, SMT
    <3>6. stopped' \in BOOLEAN
      BY <3>4, Zenon
    <3> QED
      BY <3>3, <3>5, <3>6
  <2>3. iter' \in [depth : 0 .. MaxDepth, alpha : Score, beta : Score, window : Nat, retries : Nat]
    BY <1>3, <1>5
  <2>4. /\ pc' \in {"idle", "deepen", "window", "loop", "visit", "return"}
        /\ root' \in Pos \cup {NoPos}
    BY <1>1, <1>2
  <2>5. options' \in Options /\ value' \in Score
    BY <1>1 DEF SearchInv, VariablesOK
  <2> QED
    BY <1>1, <1>9, <1>11, <2>1, <2>2, <2>3, <2>4, <2>5 DEF VariablesOK
<1>14. QED
  BY <1>8, <1>10, <1>12, <1>13 DEF SearchInv

LEMMA DeepenStep ==
  ASSUME SearchInv, Deepen
  PROVE  SearchInv'
<1>1. /\ pc = "deepen" /\ pc' = "window" /\ stack' = stack /\ root' = root /\ deepest' = deepest
      /\ UNCHANGED <<options, table, age, result, value, stopped, searches>>
  BY DEF Deepen
<1>2. PICK a, b : /\ iter' = [iter EXCEPT !.alpha = a, !.beta = b, !.window = Window, !.retries = 0]
                  /\ \/ a = -Infinity /\ b = Infinity
                     \/ /\ Abs(result.score) < Mate - Margin
                        /\ a = Larger(-Infinity, result.score - Window)
                        /\ b = Smaller(Infinity, result.score + Window)
  <2> DEFINE narrow == /\ options.aspiration
                       /\ iter.depth > 1 /\ result.depth > 0
                       /\ Abs(result.score) < Mate - Margin
  <2>1. iter' = [iter EXCEPT
          !.alpha = IF narrow THEN Larger(-Infinity, result.score - Window) ELSE -Infinity,
          !.beta = IF narrow THEN Smaller(Infinity, result.score + Window) ELSE Infinity,
          !.window = Window,
          !.retries = 0]
    BY DEF Deepen
  <2>2. narrow => Abs(result.score) < Mate - Margin
    OBVIOUS
  <2> HIDE DEF narrow
  <2>3. CASE narrow
    BY <2>1, <2>2, <2>3
  <2>4. CASE ~narrow
    BY <2>1, <2>4
  <2> QED
    BY <2>3, <2>4
<1>3. /\ iter \in [depth : 0 .. MaxDepth, alpha : Score, beta : Score, window : Nat, retries : Nat]
      /\ result.score \in -Infinity .. Infinity /\ result.score \in Int
  BY Numbers DEF SearchInv, VariablesOK, Score
<1>4. a \in Int /\ b \in Int /\ -Infinity <= a /\ a < b /\ b <= Infinity
  BY <1>2, <1>3, Numbers DEF Larger, Smaller, Abs
<1>5. a \in Score /\ b \in Score /\ Window \in Nat /\ 0 \in Nat
  BY <1>4, Numbers DEF Score
<1>6. /\ iter'.depth = iter.depth /\ iter'.alpha = a /\ iter'.beta = b
      /\ iter' \in [depth : 0 .. MaxDepth, alpha : Score, beta : Score, window : Nat, retries : Nat]
  BY <1>2, <1>3, <1>5
<1>7. Seen' = Seen
  BY <1>1, <1>6 DEF Seen
<1>8. stack' = <<>> /\ iter.depth > 0 /\ root \in Pos /\ Moves[root] # {}
  BY <1>1 DEF SearchInv, Phase
<1>9. Phase' /\ StackSound'
  BY <1>1, <1>4, <1>6, <1>8, StackCleared
<1>10. VariablesOK'
  BY <1>1, <1>6 DEF SearchInv, VariablesOK
<1>11. EntriesSound' /\ AnswerIsMinimax' /\ AnswerSound'
  BY <1>1, <1>7 DEF SearchInv, EntriesSound, AnswerIsMinimax, AnswerSound
<1>12. QED
  BY <1>9, <1>10, <1>11 DEF SearchInv

LEMMA StartRootStep ==
  ASSUME SearchInv, StartRoot
  PROVE  SearchInv'
<1> DEFINE f == [Frame(root, iter.depth, iter.alpha, iter.beta) EXCEPT !.todo = Moves[root]]
<1>1. /\ pc = "window" /\ pc' = "loop" /\ stack' = <<f>> /\ SameSearch
      /\ UNCHANGED <<options, result, age, searches, table, value, stopped>>
  BY DEF StartRoot, SameSearch, SearchMoves
<1>2. /\ root \in Pos /\ iter.depth > 0 /\ Moves[root] # {} /\ iter.alpha < iter.beta
  BY <1>1 DEF SearchInv, Phase
<1>3. /\ iter.depth \in 0 .. MaxDepth /\ iter.alpha \in Score /\ iter.beta \in Score
      /\ root' = root /\ iter' = iter /\ Seen' = Seen
  BY <1>1, SameSeen DEF SearchInv, VariablesOK
<1>4. /\ iter.alpha \in Int /\ iter.beta \in Int /\ iter.depth \in Nat /\ Seen \in Int
      /\ -Infinity <= iter.alpha /\ iter.alpha < Infinity /\ iter.beta <= Infinity
      /\ -Infinity \in Int /\ -Infinity \in Score
  BY <1>2, <1>3, Numbers, SeenNumber DEF Score
<1>5. Moves[root] \in SUBSET Pos /\ Turn[root] \in Nat
  BY <1>2, Turns
<1>6. /\ f.pos = root /\ f.depth = iter.depth /\ f.alpha = iter.alpha /\ f.beta = iter.beta
      /\ f.original = iter.alpha /\ f.best = -Infinity /\ f.todo = Moves[root]
  BY DEF Frame
<1>7. f \in FrameType
  BY <1>2, <1>4, <1>5 DEF Frame, FrameType
<1> HIDE DEF f
<1>8. Shaped(root, iter.depth, f, 1)
  <2>1. iter.depth = iter.depth - (1 - 1) /\ Turn[root] = Turn[root] + (1 - 1)
    BY <1>4, <1>5
  <2>2. iter.alpha <= iter.alpha
    BY <1>4
  <2> QED
    BY <1>2, <1>4, <1>6, <1>7, <2>1, <2>2 DEF Shaped
<1>9. Working(Seen, f, 0, f.todo)
  <2>1. 0 \in Nat /\ 0 <= Turn[f.pos] /\ ~(f.alpha > f.original)
    BY <1>4, <1>5, <1>6
  <2> QED
    BY <1>2, <1>4, <1>6, <1>7, <2>1, LoopBegins
<1>10. RootFrame(Seen, f)
  <2>1. f.alpha = Larger(f.original, f.best) /\ ~(f.best > f.original)
    BY <1>4, <1>6 DEF Larger
  <2> QED
    BY <1>6, <2>1 DEF RootFrame
<1>11. stack' \in Seq(FrameType) /\ Len(stack') = 1 /\ stack'[1] = f /\ stack' # <<>>
  BY <1>1, <1>7
<1>12. Top' = f /\ Ply' = 0
  BY <1>11 DEF Top, Ply
<1>13. Phase'
  BY <1>1, <1>2, <1>3, <1>11 DEF Phase
<1>14. RootFrame(Seen, stack[1])'
  BY <1>3, <1>10, <1>11 DEF RootFrame
<1>15. StackSound'
  <2>1. \A i \in 1 .. 1 : i = 1
    OBVIOUS
  <2>2. \A i \in 2 .. 1 : FALSE
    OBVIOUS
  <2> QED
    BY <1>1, <1>3, <1>8, <1>9, <1>11, <1>12, <1>14, <2>1, <2>2 DEF StackSound
<1>16. value' \in Score /\ stopped' \in BOOLEAN
  BY <1>1 DEF SearchInv, VariablesOK
<1>17. QED
  BY <1>1, <1>13, <1>15, <1>16, InnerStep

LEMMA StopAtRootStep ==
  ASSUME SearchInv, StopAtRoot
  PROVE  SearchInv'
<1>1. /\ stopped' = TRUE /\ stack' = <<>> /\ pc' = "idle" /\ root' = root /\ iter' = iter
      /\ deepest' = deepest
      /\ UNCHANGED <<options, table, age, result, value, searches>>
  BY DEF StopAtRoot
<1>2. Phase' /\ StackSound'
  <2>1. iter.depth > 0 => root \in Pos
    BY DEF SearchInv, Phase
  <2> QED
    BY <1>1, <2>1, StackCleared
<1>3. Seen' = Seen
  BY <1>1 DEF Seen
<1>4. VariablesOK'
  BY <1>1 DEF SearchInv, VariablesOK
<1>5. EntriesSound' /\ AnswerIsMinimax' /\ AnswerSound'
  BY <1>1, <1>3 DEF SearchInv, EntriesSound, AnswerIsMinimax, AnswerSound
<1>6. QED
  BY <1>2, <1>4, <1>5 DEF SearchInv

(* A completed iteration of the furthest depth has the value and a move    *)
(* that attains it.                                                        *)
LEMMA RootValue ==
  ASSUME NEW r \in Pos, NEW d \in Depths, d > 0, NEW v, NEW q \in Moves[r], NEW h,
         h = Turn[r] + d, Exact(h, r, d, 0, v), Upper(h, q, d - 1, 1, -v)
  PROVE  v = Value[d][r] /\ v = MoveValue(d, q)
<1> DEFINE y == ToTable(-v, 1)
<1>1. /\ 0 \in Nat /\ 1 \in Nat /\ 0 + 1 = 1 /\ Turn[r] \in Nat /\ 0 <= Turn[r] /\ q \in Pos
      /\ Turn[q] = Turn[r] + 1 /\ 1 <= Turn[q] /\ d - 1 \in Depths /\ d # 0 /\ d \in Nat
  BY Turns, Numbers DEF Depths
<1>2. PlyScore(r, 0, v) /\ v \in Int /\ ToTable(v, 0) = v
  BY PlyScoreAtRoot DEF Exact, Lower, PlyScore
<1>3. v = Value[d][r]
  <2>1. Value[d][r] \in Int
    BY Values
  <2>2. v <= Value[d][r] /\ Value[d][r] <= v
    BY <1>2 DEF Exact, Lower, Upper, AtLeast, AtMost
  <2> QED
    BY <1>2, <2>1, <2>2
<1>4. PlyScore(q, 1, -v) /\ -v \in Int /\ -(-v) = v /\ AtMost(h, q, d - 1, y)
  BY <1>2 DEF Upper
<1>5. PosScore(q, y) /\ y \in Int
  BY <1>1, <1>4, TableScores DEF PosScore
<1>6. Back(y) = v
  <2>1. PlyScore(q, 0 + 1, -v)
    BY <1>1, <1>4
  <2>2. ToTable(-(-v), 0) = Back(ToTable(-v, 0 + 1))
    BY <1>1, <1>4, <2>1, BackOfPly
  <2> QED
    BY <1>1, <1>2, <1>4, <2>2
<1> HIDE DEF y
<1>7. Value[d - 1][q] <= y
  <2>1. Turn[q] + (d - 1) = h
    BY <1>1
  <2> QED
    BY <1>4, <2>1 DEF AtMost
<1>8. PosScore(q, Value[d - 1][q]) /\ Value[d - 1][q] \in Int
  BY <1>1, ValueScores DEF PosScore
<1>9. Back(y) <= Back(Value[d - 1][q]) /\ Back(Value[d - 1][q]) \in Int
  BY <1>5, <1>7, <1>8, BackOrder, BackScores
<1>10. MoveValue(d, q) <= Value[d][r] /\ MoveValue(d, q) = Back(Value[d - 1][q])
  BY <1>1, Values DEF MoveValue, Back
<1>11. QED
  BY <1>2, <1>3, <1>6, <1>9, <1>10

LEMMA RootDoneStep ==
  ASSUME SearchInv, RootDone
  PROVE  SearchInv'
<1> DEFINE f == Top
<1>1. /\ pc = "loop" /\ Ply = 0 /\ f.todo = {} /\ Store(f, Ply) /\ stack' = <<>>
      /\ root' = root /\ deepest' = deepest
      /\ UNCHANGED <<options, age, value, stopped, searches>>
      /\ IF iter.alpha < f.best /\ f.best < iter.beta THEN Complete ELSE Retry
  BY DEF RootDone
<1>2. /\ f \in FrameType /\ root \in Pos /\ Moves[root] # {} /\ iter.depth \in 1 .. MaxDepth
      /\ Seen \in Int /\ Turn[root] + iter.depth <= Seen /\ Turn[root] \in Nat
      /\ f.depth \in Depths /\ f.depth = iter.depth
      /\ Shaped(root, iter.depth, f, Len(stack))
  <2>1. f.depth = iter.depth - (Len(stack) - 1) /\ Len(stack) = 1 /\ iter.depth \in Nat
    BY <1>1, Active DEF Shaped
  <2>2. f.depth = iter.depth
    BY <2>1
  <2> QED
    BY <1>1, <2>2, Active
<1>3. /\ f.pos = root /\ f.original = iter.alpha /\ f.beta = iter.beta
      /\ f.best > f.original =>
           f.move \in Moves[root] /\ Upper(Seen, f.move, f.depth - 1, 1, -f.best)
  BY <1>1, LoopFrame DEF RootFrame
<1>4. /\ table' \in [Slots -> Entry]
      /\ \A i \in Slots : EntrySound(Seen, table'[i])
      /\ PlyScore(root, 0, f.best)
      /\ f.best > f.original => Lower(Seen, root, iter.depth, 0, f.best)
      /\ f.best < f.beta => Upper(Seen, root, iter.depth, 0, f.best)
  BY <1>1, <1>2, <1>3, StoreStep
<1> HIDE DEF f
<1>5. /\ PosScore(root, f.best) /\ f.best \in Score
      /\ f.best \in Int /\ -Mate <= f.best /\ f.best <= Mate
  BY <1>2, <1>4, PlyScoreAtRoot, ScoreRange
<1>6. /\ iter \in [depth : 0 .. MaxDepth, alpha : Score, beta : Score, window : Nat, retries : Nat]
      /\ deepest \in Nat /\ iter.alpha < iter.beta
  BY <1>1 DEF SearchInv, VariablesOK, Phase
<1>7. iter.alpha \in Int /\ iter.beta \in Int /\ -Infinity <= iter.alpha /\ iter.beta <= Infinity
      /\ iter.window \in Nat /\ iter.retries \in Nat
  BY <1>6, Numbers DEF Score
<1>8. CASE iter.alpha < f.best /\ f.best < iter.beta
  <2>1. result' = [move |-> f.move, score |-> f.best, depth |-> iter.depth]
        /\ \/ pc' = "idle" /\ iter' = iter
           \/ /\ iter.depth < MaxDepth /\ iter' = [iter EXCEPT !.depth = iter.depth + 1]
              /\ pc' = "deepen"
    BY <1>1, <1>8 DEF Complete, f
  <2>2. Exact(Seen, root, iter.depth, 0, f.best) /\ f.move \in Moves[root]
        /\ Upper(Seen, f.move, iter.depth - 1, 1, -f.best)
    <3>1. f.best > f.original /\ f.best < f.beta
      BY <1>3, <1>5, <1>7, <1>8
    <3> QED
      BY <1>2, <1>3, <1>4, <3>1 DEF Exact
  <2>3. f.move \in Pos
    BY <1>2, <2>2, Turns
  <2>4. /\ iter' \in
             [depth : 0 .. MaxDepth, alpha : Score, beta : Score, window : Nat, retries : Nat]
        /\ iter'.depth \in Nat /\ iter'.depth >= iter.depth
    <3>1. iter.depth < MaxDepth => iter.depth + 1 \in 0 .. MaxDepth
      BY <1>2, Numbers
    <3> QED
      BY <1>2, <1>6, <2>1, <3>1
  <2>5. /\ result' \in [move : Pos \cup {NoPos}, score : Score, depth : 0 .. MaxDepth]
        /\ result'.move = f.move /\ result'.score = f.best /\ result'.depth = iter.depth
    BY <1>2, <1>5, <2>1, <2>3
  <2>6. Phase' /\ StackSound'
    <3>1. pc' \in {"idle", "deepen", "window"} /\ pc' # "window" /\ iter'.depth > 0
      BY <1>2, <2>1, <2>4
    <3> QED
      BY <1>1, <1>2, <3>1, StackCleared
  <2>7. VariablesOK'
    <3>1. pc' \in {"idle", "deepen", "window", "loop", "visit", "return"}
      BY <2>1
    <3> QED
      BY <1>1, <1>4, <2>4, <2>5, <3>1 DEF SearchInv, VariablesOK
  <2>8. EntriesSound'
    <3> DEFINE k == Turn[root] + iter.depth
               m == Turn[root] + iter'.depth
    <3>1. k \in Int /\ m \in Int /\ k <= m /\ deepest \in Int
      BY <1>2, <1>6, <2>4
    <3>2. Seen = Larger(deepest, k) /\ Seen' = Larger(deepest, m)
      BY <1>1, <1>2, <2>4 DEF Seen
    <3> HIDE DEF k, m
    <3>3. Seen' \in Int /\ Seen <= Seen'
      BY <3>1, <3>2 DEF Larger
    <3> QED
      BY <1>2, <1>4, <3>3, SeenGrows
  <2>9. AnswerIsMinimax'
    <3>1. ASSUME Turn[root] + iter.depth >= deepest
          PROVE  f.best = Value[iter.depth][root] /\ f.best = MoveValue(iter.depth, f.move)
      <4>1. Seen = Turn[root] + iter.depth
        BY <1>2, <1>6, <3>1 DEF Seen, Larger
      <4>2. iter.depth \in Depths /\ iter.depth > 0
        BY <1>2
      <4> QED
        BY <1>2, <2>2, <4>1, <4>2, RootValue
    <3> QED
      BY <1>1, <1>2, <2>2, <2>5, <3>1 DEF AnswerIsMinimax
  <2>10. AnswerSound'
    <3>1. root # NoPos /\ ToTable(f.best, 0) = f.best
      BY <1>2, <1>5, Turns, PlyScoreAtRoot
    <3>2. Announces(root, f.best, "exact")
      BY <2>2, <3>1 DEF Exact, Lower, Upper, AtLeast, AtMost, Announces
    <3> QED
      BY <1>1, <1>5, <2>5, <3>1, <3>2 DEF AnswerSound
  <2> QED
    BY <2>6, <2>7, <2>8, <2>9, <2>10 DEF SearchInv
<1>9. CASE ~(iter.alpha < f.best /\ f.best < iter.beta)
  <2> DEFINE wide == 2 * iter.window
             low == IF f.best <= iter.alpha THEN Larger(-Infinity, f.best - wide) ELSE iter.alpha
             high == IF f.best >= iter.beta THEN Smaller(Infinity, f.best + wide) ELSE iter.beta
  <2>1. /\ pc' = "window" /\ result' = result
        /\ \/ iter' = [iter EXCEPT !.retries = iter.retries + 1,
                                   !.alpha = -Infinity, !.beta = Infinity]
           \/ iter' = [iter EXCEPT !.retries = iter.retries + 1, !.window = wide,
                                   !.alpha = low, !.beta = high]
    BY <1>1, <1>9 DEF Retry, f
  <2>2. wide \in Nat
    BY <1>7
  <2> HIDE DEF wide
  <2>3. low \in Int /\ high \in Int /\ -Infinity <= low /\ low < high /\ high <= Infinity
    BY <1>5, <1>6, <1>7, <2>2, Numbers DEF Larger, Smaller
  <2> HIDE DEF low, high
  <2>4. low \in Score /\ high \in Score /\ -Infinity \in Score /\ Infinity \in Score
        /\ -Infinity < Infinity
    BY <2>3, Numbers DEF Score
  <2>5. /\ iter' \in
             [depth : 0 .. MaxDepth, alpha : Score, beta : Score, window : Nat, retries : Nat]
        /\ iter'.depth = iter.depth /\ iter'.alpha < iter'.beta
    <3>1. iter.retries + 1 \in Nat
      BY <1>7
    <3> QED
      BY <1>6, <2>1, <2>2, <2>3, <2>4, <3>1
  <2>6. Seen' = Seen
    BY <1>1, <2>5 DEF Seen
  <2>7. Phase' /\ StackSound'
    <3>1. iter'.depth > 0
      BY <1>2, <2>5
    <3> QED
      BY <1>1, <1>2, <2>1, <2>5, <3>1, StackCleared
  <2>8. VariablesOK'
    BY <1>1, <1>4, <2>1, <2>5 DEF SearchInv, VariablesOK
  <2>9. EntriesSound'
    BY <1>4, <2>6 DEF EntriesSound
  <2>10. AnswerIsMinimax' /\ AnswerSound'
    BY <1>1, <2>1 DEF SearchInv, AnswerIsMinimax, AnswerSound
  <2> QED
    BY <2>7, <2>8, <2>9, <2>10 DEF SearchInv
<1>10. QED
  BY <1>8, <1>9

LEMMA SearchInductive == SearchInv /\ [SearchNext]_vars => SearchInv'
<1> SUFFICES ASSUME SearchInv, [SearchNext]_vars PROVE SearchInv'
  OBVIOUS
<1>1. CASE \E p \in Pos : Ask(p)
  BY <1>1, AskStep
<1>2. CASE \E p \in Pos : TryMove(p)
  BY <1>2, TryMoveStep
<1>3. CASE Deepen
  BY <1>3, DeepenStep
<1>4. CASE StartRoot
  BY <1>4, StartRootStep
<1>5. CASE RootDone
  BY <1>5, RootDoneStep
<1>6. CASE StopAtRoot
  BY <1>6, StopAtRootStep
<1>7. CASE Visit
  BY <1>7, VisitStep
<1>8. CASE StopInNode
  BY <1>8, StopInNodeStep
<1>9. CASE Resume
  BY <1>9, ResumeStep
<1>10. CASE Unwind
  BY <1>10, UnwindStep
<1>11. CASE NodeDone
  BY <1>11, NodeDoneStep
<1>12. CASE UNCHANGED vars
  <2>1. /\ options' = options /\ table' = table /\ age' = age /\ pc' = pc /\ root' = root
        /\ iter' = iter /\ result' = result /\ stack' = stack /\ value' = value
        /\ stopped' = stopped /\ searches' = searches /\ deepest' = deepest
    BY <1>12 DEF vars
  <2>2. Seen' = Seen /\ Top' = Top /\ Ply' = Ply
    BY <2>1 DEF Seen, Top, Ply
  <2>3. VariablesOK' /\ Phase'
    BY <2>1 DEF SearchInv, VariablesOK, Phase
  <2>4. StackSound'
    <3>1. \A h, g : RootFrame(h, g)' <=> RootFrame(h, g)
      BY <2>1 DEF RootFrame
    <3> QED
      BY <2>1, <2>2 DEF SearchInv, StackSound, RootFrame
  <2>5. EntriesSound' /\ AnswerIsMinimax' /\ AnswerSound'
    BY <2>1, <2>2 DEF SearchInv, EntriesSound, AnswerIsMinimax, AnswerSound
  <2> QED
    BY <2>3, <2>4, <2>5 DEF SearchInv
<1>13. QED
  BY <1>1, <1>2, <1>3, <1>4, <1>5, <1>6, <1>7, <1>8, <1>9, <1>10, <1>11, <1>12 DEF SearchNext

-----------------------------------------------------------------------------
(* What the invariant says of every search. *)

LEMMA SearchTyped == SearchInv => SearchTypeOK
<1> SUFFICES ASSUME SearchInv PROVE SearchTypeOK
  OBVIOUS
<1>1. VariablesOK /\ (pc \in {"idle", "deepen", "window"} <=> stack = <<>>)
      /\ stack \in Seq(FrameType)
  BY DEF SearchInv, Phase
<1>2. DOMAIN stack = 1 .. Len(stack)
  BY <1>1, LenProperties
<1>3. ASSUME NEW i \in 1 .. Len(stack)
      PROVE  /\ stack[i].pos \in Pos /\ stack[i].depth = iter.depth - (i - 1)
             /\ stack[i].todo \subseteq Moves[stack[i].pos]
             /\ stack[i].best \in Score /\ stack[i].alpha \in Score
  <2>1. Shaped(root, iter.depth, stack[i], i)
    BY DEF SearchInv, StackSound
  <2> DEFINE f == stack[i]
  <2>2. /\ f \in FrameType /\ f.depth = iter.depth - (i - 1) /\ f.todo \subseteq Moves[f.pos]
        /\ f.best \in Score /\ -Infinity <= f.original /\ f.original <= f.alpha
        /\ f.alpha < Infinity
    BY <2>1 DEF Shaped
  <2>3. f.pos \in Pos /\ f.original \in Int /\ f.alpha \in Int
    BY <2>2 DEF FrameType
  <2>4. f.alpha \in Score
    BY <2>2, <2>3, Numbers DEF Score
  <2> QED
    BY <2>2, <2>3, <2>4
<1>4. QED
  BY <1>1, <1>2, <1>3 DEF SearchTypeOK

(* No entry looks further than Seen, and Seen is no further than Horizon.  *)
LEMMA HorizonIsSeen ==
  ASSUME SearchInv
  PROVE  Seen <= Horizon /\ Seen \in Int /\ Horizon \in Int
<1>1. Seen \in Nat /\ deepest \in Nat /\ deepest <= Seen /\ iter.depth \in 0 .. MaxDepth
      /\ (iter.depth > 0 => root \in Pos)
  BY SeenNumber
<1>2. root \in Pos \cup {NoPos}
  BY DEF SearchInv, VariablesOK
<1>3. root # NoPos => Turn[root] \in Nat
  BY <1>2, Turns
<1>4. iter.depth \in Nat
  BY <1>1, Numbers
<1> DEFINE k == IF root = NoPos THEN 0 ELSE Turn[root] + iter.depth
<1>5. k \in Int /\ Horizon = Larger(deepest, k)
  BY <1>3, <1>4 DEF Horizon
<1>6. Seen = deepest \/ Seen = Larger(deepest, k)
  <2>1. iter.depth > 0 => root # NoPos
    BY <1>1, SearchConstants
  <2> QED
    BY <1>4, <2>1 DEF Seen
<1>7. QED
  <2> HIDE DEF k
  <2> QED
    BY <1>1, <1>5, <1>6 DEF Larger

LEMMA TableIsSound == SearchInv => TableSound
<1> SUFFICES ASSUME SearchInv, NEW s \in Slots,
                    table[s].pos # NoPos, Reach(table[s]) = Horizon
             PROVE  LET e == table[s] IN
                    CASE e.bound = "exact" -> Value[e.depth][e.pos] = e.score
                      [] e.bound = "lower" -> Value[e.depth][e.pos] >= e.score
                      [] e.bound = "upper" -> Value[e.depth][e.pos] <= e.score
  BY DEF TableSound
<1> DEFINE e == table[s]
<1>1. e \in Entry
  BY DEF SearchInv, VariablesOK
<1>2. e.pos \in Pos /\ e.bound \in {"exact", "lower", "upper"} /\ e.score \in Score
      /\ e.depth \in -1 .. MaxDepth
  BY <1>1 DEF Entry
<1>3. EntrySound(Seen, e)
  BY DEF SearchInv, EntriesSound
<1>4. /\ e.depth \in Nat /\ PosScore(e.pos, e.score) /\ Reach(e) <= Seen
      /\ e.bound # "upper" => AtLeast(Seen, e.pos, e.depth, e.score)
      /\ e.bound # "lower" => AtMost(Seen, e.pos, e.depth, e.score)
  BY <1>3 DEF EntrySound
<1>5. Turn[e.pos] + e.depth = Seen
  <2>1. Turn[e.pos] + e.depth = Horizon /\ Turn[e.pos] + e.depth <= Seen
    BY <1>4 DEF Reach
  <2> QED
    BY <2>1, HorizonIsSeen
<1>6. /\ e.bound # "upper" => e.score <= Value[e.depth][e.pos]
      /\ e.bound # "lower" => Value[e.depth][e.pos] <= e.score
  BY <1>4, <1>5 DEF AtLeast, AtMost
<1>7. e.depth \in Depths
  BY <1>2, <1>4, Numbers DEF Depths
<1>8. Value[e.depth][e.pos] \in Int /\ e.score \in Int
  BY <1>2, <1>4, <1>7, Values DEF PosScore
<1>9. /\ e.bound = "exact" => Value[e.depth][e.pos] = e.score
      /\ e.bound = "lower" => Value[e.depth][e.pos] >= e.score
      /\ e.bound = "upper" => Value[e.depth][e.pos] <= e.score
  <2> HIDE DEF e
  <2> QED
    BY <1>6, <1>8
<1>10. QED
  BY <1>2, <1>9

LEMMA MatesAnnounced == SearchInv => MatesAreForced
<1> SUFFICES ASSUME SearchInv PROVE MatesAreForced
  OBVIOUS
<1>1. root # NoPos => Announces(root, result.score, "exact")
  BY DEF SearchInv, AnswerSound
<1>2. ASSUME NEW s \in Slots, table[s].pos # NoPos
      PROVE  Announces(table[s].pos, table[s].score, table[s].bound)
  <2>1. EntrySound(Seen, table[s])
    BY DEF SearchInv, EntriesSound
  <2> QED
    BY <1>2, <2>1 DEF EntrySound, AtLeast, AtMost, Announces
<1>3. QED
  BY <1>1, <1>2 DEF MatesAreForced

(* The invariant holds of every state of every search.                     *)
LEMMA AlwaysSearchInv == SearchSpec => []SearchInv
<1>1. SearchInit => SearchInv
  BY InitSound
<1>2. SearchInv /\ [SearchNext]_vars => SearchInv'
  BY SearchInductive
<1>3. QED
  BY <1>1, <1>2, PTL DEF SearchSpec

(* The types of the engine's state between any two steps of a search, and  *)
(* the shape of its frames: each is one ply deeper and one depth less than *)
(* its caller's.                                                           *)
THEOREM SearchTypesCorrect == SearchSpec => []SearchTypeOK
  BY AlwaysSearchInv, SearchTyped, PTL

(* An entry of the transposition table that looks as far as any search did *)
(* is a true bound of the minimax value: exact means equal, lower and      *)
(* upper hold, whatever order moves were tried in, wherever searches were  *)
(* stopped and whatever entries they used or replaced.                     *)
THEOREM TableStaysSound == SearchSpec => []TableSound
  BY AlwaysSearchInv, TableIsSound, PTL

(* find_best_move answers with a move the rules allow, if there is one.    *)
(* And an answer of the furthest depth has the minimax value for a score   *)
(* and a move that attains it, through aspiration windows, null windows,   *)
(* retries and stops.                                                      *)
THEOREM AnswersAreMinimax == SearchSpec => []AnswerIsMinimax
<1>1. SearchInv => AnswerIsMinimax
  BY DEF SearchInv
<1>2. QED
  BY <1>1, AlwaysSearchInv, PTL

(* A mate score is right in every entry and in every answer: the side it   *)
(* speaks of wins, or loses, by force within the plies it counts, even     *)
(* where entries of other depths were mixed.                               *)
THEOREM MatesStayForced == SearchSpec => []MatesAreForced
  BY AlwaysSearchInv, MatesAnnounced, PTL
=============================================================================
