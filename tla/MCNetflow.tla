------------------------------ MODULE MCNetflow ------------------------------
(* Instances of Netflow: one device, one connection, its two address pairs.  *)
EXTENDS Netflow, TLC

CONSTANTS c1, k1, k2, m1, m2, m3

OneAddr == c1 :> k1
Mirror  == (k1 :> k2) @@ (k2 :> k1)

\* One packet of each direction; or one that is not IPv4.
TwoAddrs   == (m1 :> k1) @@ (m2 :> k2)
IgnoredAddrs == (m1 :> k1) @@ (m3 :> None)

Symmetry == Permutations(Pids)
=============================================================================
