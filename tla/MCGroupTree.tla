----------------------------- MODULE MCGroupTree -----------------------------
(* Instances of GroupTree for TLC.                                         *)
EXTENDS GroupTree

(* One channel with two models, each with its group. *)
OneChannel == [l \in Grant |-> "channel"]
TwoAutoGroups == [l \in Grant |-> IF l = "x" THEN "auto x" ELSE "auto y"]

(* A channel for each grant. *)
OwnChannel == [l \in Grant |-> IF l = "x" THEN "channel" ELSE "other"]

(* Chains of up to three nested groups, a diamond, a group with a member   *)
(* of its own before a nested one.                                         *)
ShortLists ==
    {<<"auto x">>, <<"auto y">>, <<"group">>, <<"auto x", "auto y">>, <<"x", "group">>}
=============================================================================
