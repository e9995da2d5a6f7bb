----------------------------- MODULE MCHedgeRace -----------------------------
(* Instances of HedgeRace for TLC.                                         *)
EXTENDS HedgeRace

CONSTANTS a, b, c, d

(* A group of four, in one order: any member may be the primary, any may   *)
(* be unusable.                                                            *)
Orders == {<<a, b, c, d>>}

(* No trigger, a delay only, a load only, both; a width below the range    *)
(* and one above it.                                                       *)
Settings ==
    {[enabled |-> TRUE, width |-> w, after |-> s, peak |-> p] :
        w \in {0, 9}, s \in {0, 1}, p \in {0, 2}}
=============================================================================
