------------------------------ MODULE MCHistory ------------------------------
(* The workers do the same, so they may be exchanged.                         *)
EXTENDS History, TLC

Symmetry == Permutations(Workers)
=============================================================================
