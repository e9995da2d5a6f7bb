---------------------------- MODULE MCGroupRoute ----------------------------
(* Instances of GroupRoute for TLC.                                        *)
EXTENDS GroupRoute, FiniteSets, TLC

CONSTANTS a, b

(* Any ranking of any part of the group: what the routing modes, the       *)
(* rejected members and the unavailable ones can leave of its list.        *)
AnyRanking == {s \in UNION {[1..n -> Member] : n \in 0..Cardinality(Member)} :
                 \A j, k \in DOMAIN s : j # k => s[j] # s[k]}

Symmetry == Permutations(Request)
=============================================================================
