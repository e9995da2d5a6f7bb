--------------------------- MODULE MCRelayForward ---------------------------
(* Instances of RelayForward for TLC.                                      *)
EXTENDS RelayForward, TLC

CONSTANTS a, b

ByPriority == <<a, b>>
SubLists == {<<>>, <<a>>, <<b>>, <<a, b>>}

Symmetry == Permutations(Request)
=============================================================================
