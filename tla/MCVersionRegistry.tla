-------------------------- MODULE MCVersionRegistry --------------------------
(***************************************************************************)
(* Shells, and version IDs other than the anchor, are interchangeable, and *)
(* so are the companions of one program.                                   *)
(***************************************************************************)
EXTENDS VersionRegistry, TLC

(* The builds other than the anchor's are one program with two companions. *)
TwoPrograms == [b \in Build |-> IF b = AnchorBuild THEN "old" ELSE "new"]

Symmetric ==
  Permutations(Process) \cup Permutations(Version \ {Anchor})
    \cup Permutations(Build \ {AnchorBuild})
==============================================================================
