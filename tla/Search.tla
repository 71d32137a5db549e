------------------------------- MODULE Search -------------------------------
(***************************************************************************)
(* AlphaBetaEngine (src/search/alpha_beta.cpp): iterative deepening with   *)
(* aspiration windows, negamax with scout windows, the transposition table *)
(* that outlives a search, and the stop that may come at any node.         *)
(*                                                                         *)
(* One step is one turn of a loop or one call of negamax.  The order in    *)
(* which moves are tried is left open: killers, history and the other      *)
(* ordering heuristics decide nothing else.                                *)
(***************************************************************************)
EXTENDS GameTree, Sequences, FiniteSets

CONSTANTS
  NoPos,
  Roots,        \* positions a message may ask about first
  Follows,      \* <<p, q>>: q may be asked about after p
  Slot,         \* [Pos -> index of its table entry]
  Options,      \* SearchOptions the engine may be started with
  MaxDepth,     \* max_depth
  Window,       \* aspiration_initial_window
  MaxRetries,   \* aspiration_max_retries
  StopMargin,   \* kMateStopMargin
  Infinity,     \* search_infinity
  AgeSpan,      \* age_ is an unsigned integer below AgeSpan
  MaxSearches   \* bound: calls of find_best_move

ASSUME SearchConstants ==
  /\ NoPos \notin Pos
  /\ Roots \subseteq Pos /\ Follows \subseteq Pos \X Pos
  /\ DOMAIN Slot = Pos
  /\ Options \subseteq
       [pvs : BOOLEAN, aspiration : BOOLEAN, table : BOOLEAN, clear : BOOLEAN,
        deepening : BOOLEAN]
  /\ MaxDepth \in Depths \ {0}
  /\ Window \in Nat \ {0} /\ MaxRetries \in Nat
  /\ StopMargin \in Nat /\ StopMargin < Margin
  /\ Infinity \in Nat /\ Infinity > Mate
  /\ AgeSpan \in Nat \ {0}

VARIABLES
  options,
  table,      \* [slots -> Entry]
  age,
  pc,         \* where find_best_move is
  root,       \* its argument
  iter,       \* its locals: depth, alpha, beta, window, retries
  result,     \* best_move, score and depth_reached
  stack,      \* frames of search_root (first) and negamax
  value,      \* what the last call of negamax returned
  stopped,    \* stopped_
  searches,
  deepest     \* history: largest turn + depth of earlier iterations

vars == <<options, table, age, pc, root, iter, result, stack, value, stopped,
          searches, deepest>>

Larger(a, b) == IF a >= b THEN a ELSE b
Smaller(a, b) == IF a <= b THEN a ELSE b
Abs(a) == IF a >= 0 THEN a ELSE -a

Slots == {Slot[p] : p \in Pos}
EmptyEntry == [pos |-> NoPos, depth |-> -1, score |-> 0, bound |-> "exact", age |-> 0]
NoResult == [move |-> NoPos, score |-> 0, depth |-> 0]
NoIter == [depth |-> 0, alpha |-> 0, beta |-> 0, window |-> 0, retries |-> 0]

Frame(p, depth, alpha, beta) ==
  [pos |-> p, depth |-> depth, alpha |-> alpha, beta |-> beta,
   original |-> alpha,      \* original_alpha
   best |-> -Infinity, move |-> NoPos,
   todo |-> {},             \* moves not tried yet
   tried |-> NoPos,         \* the move being searched
   first |-> TRUE,
   scout |-> FALSE]         \* it is searched with a null window

Ply == Len(stack) - 1
Top == stack[Len(stack)]
Below == SubSeq(stack, 1, Len(stack) - 1)
SetTop(f) == stack' = Append(Below, f)

(* generate_search_moves and order_moves: a set, for the order is left open. *)
SearchMoves(p) == Moves[p]

SearchInit ==
  /\ options \in Options
  /\ table = [s \in Slots |-> EmptyEntry]
  /\ age = 0
  /\ pc = "idle"
  /\ root = NoPos
  /\ iter = NoIter
  /\ result = NoResult
  /\ stack = <<>>
  /\ value = 0
  /\ stopped = FALSE
  /\ searches = 0
  /\ deepest = 0

-----------------------------------------------------------------------------
(* The transposition table. *)

Probe(p) == table[Slot[p]]
Hit(p) == options.table /\ Probe(p).pos = p

(* Replacement: a deeper entry of this search stays, whatever its key; so  *)
(* does a deeper exact entry of the same key.                              *)
Keeps(e, p, depth) ==
  \/ e.pos \notin {NoPos, p} /\ e.age = age /\ e.depth > depth
  \/ e.pos = p /\ e.depth > depth /\ e.bound = "exact"

(* Mutant of Bound: a score that fails low is taken for the exact value. *)
BoundNeverUpper(f) == IF f.best >= f.beta THEN "lower" ELSE "exact"

Bound(f) ==
  IF f.best <= f.original THEN "upper" ELSE IF f.best >= f.beta THEN "lower" ELSE "exact"

Store(f, ply) ==
  IF ~options.table \/ Keeps(Probe(f.pos), f.pos, f.depth)
  THEN UNCHANGED table
  ELSE table' = [table EXCEPT ![Slot[f.pos]] =
         [pos |-> f.pos, depth |-> f.depth, score |-> ToTable(f.best, ply),
          bound |-> Bound(f), age |-> age]]

-----------------------------------------------------------------------------
(* find_best_move. *)

(* The root score of a position without moves is never searched. *)
Ask(p) ==
  /\ pc = "idle" /\ searches < MaxSearches
  /\ IF root = NoPos THEN p \in Roots ELSE <<root, p>> \in Follows
  /\ searches' = searches + 1
  /\ deepest' = IF options.clear THEN 0
                ELSE IF iter.depth = 0 THEN deepest
                ELSE Larger(deepest, Turn[root] + iter.depth)
  /\ root' = p
  /\ stopped' = FALSE
  /\ age' = (age + 1) % AgeSpan
  /\ table' = IF options.clear THEN [s \in Slots |-> EmptyEntry] ELSE table
  /\ IF Moves[p] = {}
     THEN /\ result' = [NoResult EXCEPT !.score =
                          IF Outcome[p] = "open" THEN -Mate ELSE TerminalScore(p, 0)]
          /\ iter' = NoIter
          /\ UNCHANGED pc
     ELSE /\ \E m \in Moves[p] : result' = [move |-> m, score |-> Eval[p], depth |-> 0]
          /\ iter' = [NoIter EXCEPT !.depth = IF options.deepening THEN 1 ELSE MaxDepth]
          /\ pc' = "deepen"
  /\ UNCHANGED <<options, stack, value>>

(* The window of an iteration, around the last score unless that is mate. *)
Deepen ==
  LET narrow == /\ options.aspiration
                /\ iter.depth > 1 /\ result.depth > 0
                /\ Abs(result.score) < Mate - Margin
  IN
  /\ pc = "deepen"
  /\ iter' = [iter EXCEPT
       !.alpha = IF narrow THEN Larger(-Infinity, result.score - Window) ELSE -Infinity,
       !.beta = IF narrow THEN Smaller(Infinity, result.score + Window) ELSE Infinity,
       !.window = Window,
       !.retries = 0]
  /\ pc' = "window"
  /\ UNCHANGED <<options, table, age, root, result, stack, value, stopped, searches, deepest>>

(* search_root is entered; it neither cuts off nor narrows on its entry. *)
StartRoot ==
  /\ pc = "window"
  /\ stack' = <<[Frame(root, iter.depth, iter.alpha, iter.beta) EXCEPT !.todo = SearchMoves(root)]>>
  /\ pc' = "loop"
  /\ UNCHANGED <<options, table, age, root, iter, result, value, stopped, searches, deepest>>

(* The iteration is over: its result replaces the last one. *)
Complete ==
  /\ result' = [move |-> Top.move, score |-> Top.best, depth |-> iter.depth]
  /\ \/ pc' = "idle" /\ UNCHANGED iter    \* at the last depth, or past soft_deadline_
     \/ /\ options.deepening /\ iter.depth < MaxDepth
        /\ Abs(Top.best) < Mate - StopMargin
        /\ iter' = [iter EXCEPT !.depth = @ + 1]
        /\ pc' = "deepen"

(* Mutant of Retry: the iteration is repeated with the window it missed. *)
RetryUnchanged ==
  /\ pc' = "window"
  /\ UNCHANGED <<iter, result>>

(* The score is outside the window: the window is widened on that side, or *)
(* opened after max_retries or when soft_deadline_ has passed.  No score   *)
(* misses the open window: the loop's last break is never taken.           *)
Retry ==
  LET retries == iter.retries + 1
      wide == 2 * iter.window
  IN
  /\ \/ iter' = [iter EXCEPT !.retries = retries, !.alpha = -Infinity, !.beta = Infinity]
     \/ /\ retries <= MaxRetries
        /\ iter' = [iter EXCEPT
             !.retries = retries,
             !.window = wide,
             !.alpha = IF Top.best <= @ THEN Larger(-Infinity, Top.best - wide) ELSE @,
             !.beta = IF Top.best >= @ THEN Smaller(Infinity, Top.best + wide) ELSE @]
  /\ pc' = "window"
  /\ UNCHANGED result

(* search_root returns true. *)
RootDone ==
  /\ pc = "loop" /\ Ply = 0 /\ Top.todo = {}
  /\ Store(Top, 0)
  /\ IF iter.alpha < Top.best /\ Top.best < iter.beta THEN Complete ELSE Retry
  /\ stack' = <<>>
  /\ UNCHANGED <<options, age, root, value, stopped, searches, deepest>>

(* should_stop in the root's loop: search_root returns false. *)
StopAtRoot ==
  /\ pc = "loop" /\ Ply = 0 /\ Top.todo # {}
  /\ stopped' = TRUE
  /\ stack' = <<>>
  /\ pc' = "idle"
  /\ UNCHANGED <<options, table, age, root, iter, result, value, searches, deepest>>

-----------------------------------------------------------------------------
(* negamax, and the loop over moves it shares with search_root. *)

Call(f, q, alpha, beta, scout) ==
  /\ stack' = Append(Append(Below, [f EXCEPT !.tried = q, !.scout = scout]),
                     Frame(q, f.depth - 1, alpha, beta))
  /\ pc' = "visit"

TryMove(q) ==
  LET f == Top
      scout == options.pvs /\ ~f.first
  IN
  /\ pc = "loop" /\ q \in f.todo
  /\ Call([f EXCEPT !.todo = @ \ {q}], q, IF scout THEN -f.alpha - 1 ELSE -f.beta, -f.alpha, scout)
  /\ UNCHANGED <<options, table, age, root, iter, result, value, stopped, searches, deepest>>

Return(v) ==
  /\ value' = v
  /\ stack' = Below
  /\ pc' = "return"

StopInNode ==
  /\ pc = "visit"
  /\ stopped' = TRUE
  /\ Return(0)
  /\ UNCHANGED <<options, table, age, root, iter, result, searches, deepest>>

(* The entry's bound narrows the window; no score is left in it: cutoff. *)
Narrowed(f) ==
  LET e == Probe(f.pos)
      score == FromTable(e.score, Ply)
  IN
  IF ~Hit(f.pos) \/ e.depth < f.depth THEN f
  ELSE CASE e.bound = "lower" -> [f EXCEPT !.alpha = Larger(@, score)]
         [] e.bound = "upper" -> [f EXCEPT !.beta = Smaller(@, score)]
         [] OTHER -> [f EXCEPT !.alpha = score, !.beta = score]

Visit ==
  LET f == Top
      narrowed == Narrowed(f)
  IN
  /\ pc = "visit"
  /\ IF Outcome[f.pos] # "open" THEN Return(TerminalScore(f.pos, Ply))
     ELSE IF f.depth = 0 THEN Return(Eval[f.pos])
     ELSE IF narrowed.alpha >= narrowed.beta
          THEN Return(FromTable(Probe(f.pos).score, Ply))
     ELSE IF SearchMoves(f.pos) = {} THEN Return(Ply - Mate)
     ELSE /\ SetTop([narrowed EXCEPT !.todo = SearchMoves(f.pos)])
          /\ pc' = "loop"
          /\ UNCHANGED value
  /\ UNCHANGED <<options, table, age, root, iter, result, stopped, searches, deepest>>

(* A score that beats what the loop has, and the end of the loop at beta. *)
Absorb(f, score) ==
  LET alpha == Larger(f.alpha, score) IN
  [f EXCEPT !.best = Larger(@, score),
            !.move = IF score > f.best THEN f.tried ELSE @,
            !.alpha = alpha,
            !.first = FALSE,
            !.todo = IF alpha >= f.beta THEN {} ELSE @]

(* Mutant of Resume: a scout that finds a better move is believed. *)
ResumeUnsearched ==
  /\ pc = "return" /\ ~stopped
  /\ SetTop(Absorb(Top, -value))
  /\ pc' = "loop"
  /\ UNCHANGED <<options, table, age, root, iter, result, value, stopped, searches, deepest>>

Resume ==
  LET f == Top
      score == -value
  IN
  /\ pc = "return" /\ ~stopped
  /\ IF f.scout /\ f.alpha < score /\ score < f.beta
     THEN Call(f, f.tried, -f.beta, -f.alpha, FALSE)
     ELSE SetTop(Absorb(f, score)) /\ pc' = "loop"
  /\ UNCHANGED <<options, table, age, root, iter, result, value, stopped, searches, deepest>>

(* if (stopped_) return 0, up to the root; find_best_move ends. *)
Unwind ==
  /\ pc = "return" /\ stopped
  /\ IF Ply = 0 THEN stack' = <<>> /\ pc' = "idle" /\ UNCHANGED value
                ELSE Return(0)
  /\ UNCHANGED <<options, table, age, root, iter, result, stopped, searches, deepest>>

NodeDone ==
  /\ pc = "loop" /\ Ply > 0 /\ Top.todo = {}
  /\ Store(Top, Ply)
  /\ Return(Top.best)
  /\ UNCHANGED <<options, age, root, iter, result, stopped, searches, deepest>>

-----------------------------------------------------------------------------

SearchNext ==
  \/ \E p \in Pos : Ask(p) \/ TryMove(p)
  \/ Deepen \/ StartRoot \/ RootDone \/ StopAtRoot
  \/ Visit \/ StopInNode \/ Resume \/ Unwind \/ NodeDone

SearchSpec == SearchInit /\ [][SearchNext]_vars

(* A thread that searches goes on; whether anyone asks again is open. *)
SearchStep == SearchNext /\ pc # "idle"
FairSearchSpec == SearchSpec /\ WF_vars(SearchStep)

-----------------------------------------------------------------------------

Score == -Infinity .. Infinity

Entry == [pos : Pos \cup {NoPos}, depth : -1 .. MaxDepth, score : Score,
          bound : {"exact", "lower", "upper"}, age : 0 .. AgeSpan - 1]

VariablesOK ==
  /\ options \in Options
  /\ pc \in {"idle", "deepen", "window", "loop", "visit", "return"}
  /\ root \in Pos \cup {NoPos}
  /\ result \in [move : Pos \cup {NoPos}, score : Score, depth : 0 .. MaxDepth]
  /\ iter \in [depth : 0 .. MaxDepth, alpha : Score, beta : Score, window : Nat, retries : Nat]
  /\ table \in [Slots -> Entry]
  /\ age \in 0 .. AgeSpan - 1
  /\ value \in Score /\ stopped \in BOOLEAN /\ searches \in Nat /\ deepest \in Nat

SearchTypeOK ==
  /\ VariablesOK
  /\ pc \in {"idle", "deepen", "window"} <=> stack = <<>>
  /\ \A i \in DOMAIN stack :
       /\ stack[i].pos \in Pos /\ stack[i].depth = iter.depth - (i - 1)
       /\ stack[i].todo \subseteq Moves[stack[i].pos]
       /\ stack[i].best \in Score /\ stack[i].alpha \in Score

(* The furthest turn that any iteration since the table was cleared has    *)
(* looked at, and the last turn an entry has looked at.                    *)
Horizon == Larger(deepest, IF root = NoPos THEN 0 ELSE Turn[root] + iter.depth)
Reach(e) == Turn[e.pos] + e.depth

(* The entries of the furthest iteration say the truth about the minimax   *)
(* value, whatever was cut off, researched with another window, replaced   *)
(* or interrupted, and by whichever search.  (An entry that reaches less   *)
(* far may mix depths: a search may meet entries that reach further.)      *)
TableSound ==
  \A s \in Slots :
    LET e == table[s] IN
    (e.pos # NoPos /\ Reach(e) = Horizon) =>
      CASE e.bound = "exact" -> Value[e.depth][e.pos] = e.score
        [] e.bound = "lower" -> Value[e.depth][e.pos] >= e.score
        [] e.bound = "upper" -> Value[e.depth][e.pos] <= e.score

(* An answer, interrupted or not, is a legal move if there is one, and the *)
(* minimax result of the depth it reports: its score is the value and its  *)
(* move attains it.                                                        *)
AnswerIsMinimax ==
  /\ root # NoPos =>
       IF Moves[root] = {} THEN result.move = NoPos ELSE result.move \in Moves[root]
  /\ (result.depth > 0 /\ Turn[root] + result.depth >= deepest) =>
       /\ result.score = Value[result.depth][root]
       /\ result.score = MoveValue(result.depth, result.move)

(* A score that announces a mate is right, mixed depths or not: the side   *)
(* it speaks of wins, or loses, by force within the plies it says.         *)
Wins(p, score) == Mate - score + 1 \in Depths /\ Value[Mate - score + 1][p] >= score
Loses(p, score) == Mate + score + 1 \in Depths /\ Value[Mate + score + 1][p] <= score

Announces(p, score, bound) ==
  /\ (score > Mate - Margin /\ bound # "upper") => Wins(p, score)
  /\ (score < Margin - Mate /\ bound # "lower") => Loses(p, score)

MatesAreForced ==
  /\ \A s \in Slots :
       LET e == table[s] IN e.pos # NoPos => Announces(e.pos, e.score, e.bound)
  /\ root # NoPos => Announces(root, result.score, "exact")

(* Every search ends: the window of an iteration cannot be missed forever, *)
(* even where entries of other depths make scores inconsistent.            *)
SearchEnds == pc # "idle" ~> pc = "idle"
=============================================================================
