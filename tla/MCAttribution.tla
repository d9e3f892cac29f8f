---------------------------- MODULE MCAttribution ----------------------------
(* Instances of Attribution with two sockets: the two ends of a loopback     *)
(* connection, and two connections that use one address pair in turn.        *)
EXTENDS Attribution, TLC

CONSTANTS c1, c2, k1, k2

TwinAddr  == (c1 :> k1) @@ (c2 :> k2)
ReuseAddr == (c1 :> k1) @@ (c2 :> k1)
Mirror    == (k1 :> k2) @@ (k2 :> k1)

Symmetry  == Permutations(Pids)
=============================================================================
