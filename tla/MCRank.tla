-------------------------------- MODULE MCRank --------------------------------
(* An instance of Rank: two callers, three objects, and two windows in which *)
(* the objects rank differently.                                             *)
EXTENDS Rank

CONSTANTS o1, o2, o3

Bytes ==
    [o \in {o1, o2, o3} |->
        CASE o = o1 -> [sec \in {0, 1, 2} |-> 2]
          [] o = o2 -> [sec \in {0, 1, 2} |-> IF sec = 2 THEN 3 ELSE 1]
          [] o = o3 -> [sec \in {0, 1, 2} |-> 0]]

Symmetry == Permutations(Callers)
=============================================================================
