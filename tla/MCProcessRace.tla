---------------------------- MODULE MCProcessRace ----------------------------
(* The goroutines that charge a process do the same, so they may be exchanged. *)
EXTENDS ProcessRace, TLC

Symmetry == Permutations(Writers)
=============================================================================
