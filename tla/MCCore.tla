-------------------------------- MODULE MCCore --------------------------------
(* The windows that the two agents rank.                                     *)
EXTENDS Core

Windows == [a \in Agents |-> IF a = "core" THEN 5 ELSE 60]
=============================================================================
