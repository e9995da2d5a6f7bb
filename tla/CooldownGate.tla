---------------------------- MODULE CooldownGate ----------------------------
(***************************************************************************)
(* What the routing table of a group promises about cooldowns, with none   *)
(* of its machinery: a member that was put into cooldown is given no       *)
(* request before its deadline, unless the cooldown was forgiven, and a    *)
(* restart of the process forgives nothing.                                *)
(*                                                                         *)
(* GroupRoute implements this specification when every database write     *)
(* succeeds; the affinity, the current member, the probe slot and the      *)
(* persisted rows are its own business.                                    *)
(***************************************************************************)
EXTENDS Naturals

CONSTANTS
    Member,     \* the rows of the group's flattened member table
    Request,    \* the client requests being forwarded
    None,       \* the zero value of an item ID: no member
    Penalty,    \* the lengths a cooldown may have
    MaxTime     \* bound on the clock

VARIABLES
    now,        \* the wall clock
    until,      \* deadline of the member's running cooldown, 0 if it has none
    serving     \* the member each request is being sent to

gateVars == <<now, until, serving>>

GateInit ==
    /\ now = 1
    /\ until = [i \in Member |-> 0]
    /\ serving = [r \in Request |-> None]

(* The cooldowns of the members in S end early. *)
Forgiven(S) == [i \in Member |-> IF i \in S THEN 0 ELSE until[i]]

(* A request starts on a member whose cooldown is not running; the same   *)
(* step may forgive other members.                                        *)
Start(r, i, S) ==
    /\ serving[r] = None
    /\ until[i] = 0
    /\ i \notin S
    /\ serving' = [serving EXCEPT ![r] = i]
    /\ until' = Forgiven(S)
    /\ UNCHANGED now

(* A request leaves its member without a penalty. *)
Leave(r) ==
    /\ serving[r] # None
    /\ serving' = [serving EXCEPT ![r] = None]
    /\ UNCHANGED <<now, until>>

(* A failed request puts its member into cooldown. *)
Penalise(r, length) ==
    /\ serving[r] # None
    /\ until' = [until EXCEPT ![serving[r]] = now + length]
    /\ serving' = [serving EXCEPT ![r] = None]
    /\ UNCHANGED now

Forgive(S) ==
    /\ until' = Forgiven(S)
    /\ UNCHANGED <<now, serving>>

(* The process dies and comes back: requests are gone, cooldowns are not. *)
Outage ==
    /\ serving' = [r \in Request |-> None]
    /\ UNCHANGED <<now, until>>

Advance ==
    /\ now < MaxTime
    /\ now' = now + 1
    /\ until' = [i \in Member |-> IF until[i] > now' THEN until[i] ELSE 0]
    /\ UNCHANGED serving

GateNext ==
    \/ \E r \in Request, i \in Member, S \in SUBSET Member : Start(r, i, S)
    \/ \E r \in Request : Leave(r)
    \/ \E r \in Request, length \in Penalty : Penalise(r, length)
    \/ \E S \in SUBSET Member : Forgive(S)
    \/ Outage
    \/ Advance

GateSpec == GateInit /\ [][GateNext]_gateVars
=============================================================================
