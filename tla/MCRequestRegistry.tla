-------------------------- MODULE MCRequestRegistry --------------------------
(* Instances of RequestRegistry for TLC.                                   *)
EXTENDS RequestRegistry

CONSTANTS w, a

(* The first request tries twice; the second one streams.                  *)
Three == {1, 2, 3}
Second == {2}
FirstRetries == [r \in Three |-> IF r = 1 THEN 2 ELSE 1]
=============================================================================
