----------------------------- MODULE Identities -----------------------------
(***************************************************************************)
(* What an identity solver promises: it knows the set of worlds, complete  *)
(* assignments of the animals to the pieces, that agree with everything    *)
(* observed.  An observation excludes the worlds it contradicts, and is    *)
(* refused when that would leave none.                                     *)
(***************************************************************************)
CONSTANTS
  Piece,
  Animal

Permutation ==
  {a \in [Piece -> Animal] :
    /\ \A p, q \in Piece : a[p] = a[q] => p = q
    /\ \A x \in Animal : \E p \in Piece : a[p] = x}

VARIABLE worlds

KnowInit == worlds = Permutation

Agreeing(p, allowed) == {a \in worlds : a[p] \in allowed}

Observe(p, allowed) == Agreeing(p, allowed) # {} /\ worlds' = Agreeing(p, allowed)

KnowNext == \E p \in Piece, allowed \in SUBSET Animal : Observe(p, allowed)

KnowSpec == KnowInit /\ [][KnowNext]_worlds

==============================================================================
