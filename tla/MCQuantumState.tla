--------------------------- MODULE MCQuantumState ---------------------------
(***************************************************************************)
(* Four interchangeable pieces for TLC.                                    *)
(***************************************************************************)
EXTENDS QuantumState, TLC

Interchangeable == Permutations(Piece)

==============================================================================
