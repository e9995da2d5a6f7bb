----------------------------- MODULE GroupRoute -----------------------------
(***************************************************************************)
(* The shared routing state of one group (internal/relay/route.go) and the *)
(* rows that make its cooldowns survive a restart                          *)
(* (internal/op/route_cooldown.go).                                        *)
(*                                                                         *)
(* All requests of a group share one RouteState, and every operation on it *)
(* runs under routeMu, database write included: one operation is one       *)
(* action.  Requests here are the most general client: they pick a member  *)
(* from any member list they were handed and report any outcome the        *)
(* forwarding loop can report, in any interleaving.  RelayForward          *)
(* restricts them to what Forward does.                                    *)
(***************************************************************************)
EXTENDS Naturals, Sequences

CONSTANTS
    Member,         \* the IDs of the group's flattened member rows
    Request,        \* the client requests being forwarded
    None,           \* item ID 0: no member
    Views,          \* the member lists a pick may be handed, in ranked order
    MaxAttempts,    \* RelayConfig.MemberMaxAttempts
    CooldownTime,   \* RelayConfig.MemberCooldownSeconds
    AffinityTime,   \* RelayConfig.MemberAffinitySeconds, 0 turns affinity off
    Hint,           \* capped Retry-After hints, 0 when the upstream gave none
    DbFaults,       \* whether a database statement may fail
    MaxTime         \* bound on the clock

ASSUME RouteAssumption ==
    /\ None \notin Member
    /\ Views \subseteq Seq(Member)
    /\ MaxAttempts \in Nat \ {0}
    /\ CooldownTime \in Nat \ {0}
    /\ AffinityTime \in Nat
    /\ Hint \subseteq Nat
    /\ DbFaults \in BOOLEAN
    /\ MaxTime \in Nat

VARIABLES
    now,        \* the wall clock
    route,      \* routes[group.ID]; exists is FALSE for a nil entry
    saved,      \* route_cooldowns: the row's deadline, 0 when there is no row
    unsaved,    \* members whose last database write was lost
    flight,     \* the member each request has a round open on
    probers,    \* requests whose open round was granted the probe slot
    sounding    \* cooling members the background probe is trying

routeVars == <<now, route, saved, unsaved, flight, probers, sounding>>

NoCooldown == [i \in Member |-> 0]

NoRoute == [exists   |-> FALSE,
            current  |-> None,
            probe    |-> None,
            affinity |-> 0,
            armed    |-> FALSE,
            cooldown |-> NoCooldown]

Listed(items) == {items[k] : k \in DOMAIN items}
Longer(a, b) == IF a > b THEN a ELSE b
Cooling(i) == route.cooldown[i] > now

-----------------------------------------------------------------------------
(* Database rows.                                                          *)

(* One statement per member of S writes the deadline d, 0 deletes the row. *)
(* The statements of the members in failed are lost: they are only logged. *)
Write(S, d, failed) ==
    /\ failed # {} => DbFaults
    /\ saved' = [i \in Member |-> IF i \in S \ failed THEN d ELSE saved[i]]
    /\ unsaved' = (unsaved \ S) \cup failed

NoWrite == UNCHANGED <<saved, unsaved>>

-----------------------------------------------------------------------------
(* The route table.                                                        *)

(* groupRouteLocked: whatever is not in the list at hand is forgotten. *)
KeptUnchecked(S, item) == item          \* mutant: a member that left is kept
Kept(S, item) == IF item \in S THEN item ELSE None
CurrentAlwaysStays(S) == TRUE           \* mutant: the affinity outlives its member
CurrentStays(S) == route.current = None \/ route.current \in S

Pruned(S) ==
    [exists   |-> TRUE,
     current  |-> Kept(S, route.current),
     probe    |-> Kept(S, route.probe),
     affinity |-> IF CurrentStays(S) THEN route.affinity ELSE 0,
     armed    |-> CurrentStays(S) /\ route.armed,
     cooldown |-> [i \in Member |-> IF i \in S THEN route.cooldown[i] ELSE 0]]

(* The members whose cooldown groupRouteLocked deletes, row included. *)
DroppedInMemoryOnly(S) == {}            \* mutant: the rows are left behind
Dropped(S) == {i \in Member \ S : route.cooldown[i] # 0}

(* pickGroupItem forgets an affinity that has run out. *)
PickRoute(S) ==
    LET rt == Pruned(S) IN
    IF rt.affinity <= now THEN [rt EXCEPT !.affinity = 0] ELSE rt

(* The current member is kept for the time of its affinity. *)
NeverSticky(rt) == FALSE                \* mutant: no affinity shortcut
Sticky(rt) == rt.current # None /\ rt.affinity > now

(* A member may be chosen when it has no cooldown, or one that has run out *)
(* and nobody occupies the probe slot.                                     *)
EligibleEarly(rt, i) == rt.cooldown[i] = 0 \/ rt.probe = None  \* mutant: deadline ignored
Eligible(rt, i) ==
    \/ rt.cooldown[i] = 0
    \/ rt.cooldown[i] <= now /\ rt.probe = None

(* The k-th member of the list is where the scan of pickGroupItem stops:   *)
(* everybody before it was skipped and none was the current member.        *)
Chosen(rt, items, k) ==
    /\ items[k] # rt.current
    /\ Eligible(rt, items[k])
    /\ \A j \in 1..(k - 1) : items[j] # rt.current /\ ~Eligible(rt, items[j])

(* A member without a cooldown becomes the current one; an expired one     *)
(* takes the probe slot and leaves the current member alone.               *)
SwitchAtOnce(rt, i) ==                  \* mutant: the probed member takes over
    [rt EXCEPT !.current = i, !.probe = IF rt.cooldown[i] = 0 THEN @ ELSE i]
Switch(rt, i) ==
    IF rt.cooldown[i] = 0 THEN [rt EXCEPT !.current = i] ELSE [rt EXCEPT !.probe = i]

PickGroupItem(r, items, failed) ==
    LET S == Listed(items)
        rt == PickRoute(S)
        choice == {k \in DOMAIN items : ~Sticky(rt) /\ Chosen(rt, items, k)}
    IN
    /\ flight[r] = None
    /\ failed \subseteq Dropped(S)
    /\ Write(Dropped(S), 0, failed)
    /\ \/ \E k \in choice :
            /\ route' = Switch(rt, items[k])
            /\ flight' = [flight EXCEPT ![r] = items[k]]
            /\ probers' = IF rt.cooldown[items[k]] = 0 THEN probers ELSE probers \cup {r}
       \/ /\ choice = {}
          /\ route' = rt
          /\ flight' = [flight EXCEPT ![r] = rt.current]
          /\ UNCHANGED probers
    /\ UNCHANGED <<now, sounding>>

(* pickGroupItemBalanced makes the entry before it ranks, and returns no   *)
(* member when the ranking comes out empty.                                *)
PickNobody(r, items) ==
    /\ flight[r] = None
    /\ \A i \in Listed(items) : Cooling(i)
    /\ route' = [route EXCEPT !.exists = TRUE]
    /\ UNCHANGED <<now, saved, unsaved, flight, probers, sounding>>

(* The round of a request is over. *)
Land(r) ==
    /\ flight[r] # None
    /\ flight' = [flight EXCEPT ![r] = None]
    /\ probers' = probers \ {r}

(* The member i answered: if it was being probed its cooldown ends, and it *)
(* takes over unless the current member's affinity is running.             *)
Recovered(i) ==
    LET back == route.current = None \/ route.affinity <= now IN
    IF route.probe # i THEN route
    ELSE [route EXCEPT !.probe = None,
                       !.cooldown[i] = 0,
                       !.current = IF back THEN i ELSE @,
                       !.affinity = IF back THEN 0 ELSE @]

(* The first success after a failover starts the affinity. *)
Settled(rt, i) ==
    IF rt.current # i \/ ~rt.armed THEN rt
    ELSE [rt EXCEPT !.armed = FALSE,
                    !.affinity = IF AffinityTime > 0 THEN now + AffinityTime ELSE @]

(* recordRouteSuccess. *)
RecordRouteSuccess(r) ==
    /\ Land(r)
    /\ route' = Settled(Recovered(flight[r]), flight[r])
    /\ NoWrite
    /\ UNCHANGED <<now, sounding>>

(* recordRouteFailureHint; n is the length of the request's own run of     *)
(* failures on this member, hint the capped Retry-After.                   *)
CoolsDownDeleted(i, n) == route.probe = i \/ n >= MaxAttempts  \* mutant: no nil check
CoolsDown(i, n) == route.exists /\ (route.probe = i \/ n >= MaxAttempts)

RecordRouteFailure(r, n, hint, failed) ==
    LET i == flight[r]
        deadline == now + Longer(CooldownTime, hint)
        leaves == route.current = i
    IN
    /\ Land(r)
    /\ IF CoolsDown(i, n)
       THEN /\ route' = [route EXCEPT
                            !.cooldown[i] = deadline,
                            !.probe = IF @ = i THEN None ELSE @,
                            !.current = IF leaves THEN None ELSE @,
                            !.affinity = IF leaves THEN 0 ELSE @,
                            !.armed = leaves \/ @]
            /\ failed \subseteq {i}
            /\ Write({i}, deadline, failed)
       ELSE UNCHANGED route /\ failed = {} /\ NoWrite
    /\ UNCHANGED <<now, sounding>>

(* releaseRouteProbe, when a round ends without a verdict. *)
ReleaseRouteProbe(r) ==
    /\ Land(r)
    /\ route' = [route EXCEPT !.probe = IF @ = flight[r] THEN None ELSE @]
    /\ NoWrite
    /\ UNCHANGED <<now, sounding>>

(* A round that ends and reports nothing to the route table. *)
AbandonRound(r) ==
    /\ Land(r)
    /\ UNCHANGED <<now, route, saved, unsaved, sounding>>

-----------------------------------------------------------------------------
(* The background probe (internal/relay/probe.go).                         *)

(* coolingProbeTargets takes up a member whose cooldown is still running. *)
StartSounding(i) ==
    /\ Cooling(i)
    /\ sounding' = sounding \cup {i}
    /\ UNCHANGED <<now, route, saved, unsaved, flight, probers>>

(* The answer arrives later; a good one clears whatever cooldown the       *)
(* member has by then (clearMemberCooldown).                               *)
FinishSounding(i, good, failed) ==
    /\ i \in sounding
    /\ sounding' = sounding \ {i}
    /\ IF good /\ route.cooldown[i] # 0
       THEN /\ route' = [route EXCEPT !.cooldown[i] = 0]
            /\ failed \subseteq {i}
            /\ Write({i}, 0, failed)
       ELSE UNCHANGED route /\ failed = {} /\ NoWrite
    /\ UNCHANGED <<now, flight, probers>>

-----------------------------------------------------------------------------
(* Administration and the process.                                         *)

(* ResetRouteState, after a change of mode or the removal of the group.    *)
(* RouteCooldownClearGroup is a single statement.                          *)
ResetRouteState(failed) ==
    /\ failed \in {{}, Member}
    /\ route' = NoRoute
    /\ Write(Member, 0, failed)
    /\ UNCHANGED <<now, flight, probers, sounding>>

(* RouteCooldownLoad returns the rows that have not expired. *)
RestoredExpired == {i \in Member : saved[i] <= now}  \* mutant: comparison swapped
Restored == {i \in Member : saved[i] > now}

(* A crash or a shutdown, and the next start with RestoreRouteCooldowns,   *)
(* which deletes the expired rows; a failed read leaves the rows alone,    *)
(* and so does a failed deletion.                                          *)
Restart(loaded, purged) ==
    LET alive == [i \in Member |-> IF i \in Restored THEN saved[i] ELSE 0] IN
    /\ ~loaded \/ ~purged => DbFaults
    /\ route' = IF loaded /\ Restored # {}
                THEN [NoRoute EXCEPT !.exists = TRUE, !.cooldown = alive]
                ELSE NoRoute
    /\ saved' = IF loaded /\ purged THEN alive ELSE saved
    /\ unsaved' = IF loaded THEN {} ELSE unsaved \cup Restored
    /\ flight' = [r \in Request |-> None]
    /\ probers' = {}
    /\ sounding' = {}
    /\ UNCHANGED now

Tick ==
    /\ now < MaxTime
    /\ now' = now + 1
    /\ UNCHANGED <<route, saved, unsaved, flight, probers, sounding>>

-----------------------------------------------------------------------------
RouteInit ==
    /\ now = 1
    /\ route = NoRoute
    /\ saved = NoCooldown
    /\ unsaved = {}
    /\ flight = [r \in Request |-> None]
    /\ probers = {}
    /\ sounding = {}

RequestNext(r) ==
    \/ \E items \in Views, failed \in SUBSET Member : PickGroupItem(r, items, failed)
    \/ \E items \in Views : PickNobody(r, items)
    \/ RecordRouteSuccess(r)
    \/ \E n \in 1..MaxAttempts, hint \in Hint, failed \in SUBSET Member :
            RecordRouteFailure(r, n, hint, failed)
    \/ ReleaseRouteProbe(r)
    \/ AbandonRound(r)

RouteNext ==
    \/ \E r \in Request : RequestNext(r)
    \/ \E i \in Member : StartSounding(i)
    \/ \E i \in Member, good \in BOOLEAN, failed \in SUBSET Member :
            FinishSounding(i, good, failed)
    \/ \E failed \in {{}, Member} : ResetRouteState(failed)
    \/ \E loaded, purged \in BOOLEAN : Restart(loaded, purged)
    \/ Tick

RouteSpec == RouteInit /\ [][RouteNext]_routeVars

-----------------------------------------------------------------------------
(* Properties.                                                             *)

RouteRecord == [exists   : BOOLEAN,
                current  : Member \cup {None},
                probe    : Member \cup {None},
                affinity : Nat,
                armed    : BOOLEAN,
                cooldown : [Member -> Nat]]

(* Every variable has its shape; a nil table entry carries nothing.        *)
RouteTypeOK ==
    /\ now \in Nat
    /\ route \in RouteRecord
    /\ saved \in [Member -> Nat]
    /\ unsaved \subseteq Member
    /\ flight \in [Request -> Member \cup {None}]
    /\ probers \subseteq Request
    /\ sounding \subseteq Member
    /\ ~route.exists =>
          /\ route.current = None /\ route.probe = None
          /\ route.affinity = 0 /\ ~route.armed
          /\ \A i \in Member : route.cooldown[i] = 0

(* The member that carries the group's traffic has no cooldown entry, not  *)
(* even an expired one.  pickGroupItem hands out the current member        *)
(* without looking at Cooldowns (the affinity shortcut, the break of the   *)
(* scan, the fallback after it), so everything rests on this.              *)
CurrentNotCooling == route.current # None => route.cooldown[route.current] = 0

(* The probe slot is never occupied for a member that is still serving its *)
(* cooldown: a late failure that renews the cooldown of the probed member  *)
(* takes the slot with it.                                                 *)
ProbeSlotExpired == route.probe # None => route.cooldown[route.probe] <= now

(* An affinity belongs to a current member and was started by exactly the  *)
(* first success after a failover: while a new affinity is still armed     *)
(* there is no old one left.                                               *)
AffinityWellFounded ==
    route.affinity # 0 => route.current # None /\ ~route.armed

(* The database knows every running cooldown and no other: whatever        *)
(* RestoreRouteCooldowns would load now is what memory holds, except for   *)
(* the members whose last statement failed.  recordRouteSuccess deletes an *)
(* entry from memory only, which is sound because it has expired by then.  *)
DurableCooldowns ==
    \A i \in Member \ unsaved :
        Longer(route.cooldown[i], saved[i]) > now => saved[i] = route.cooldown[i]

(* A running affinity is never handed over from one member to another: the *)
(* group changes its member only by giving the affinity up.                *)
AffinityNotInherited ==
    [][route.affinity > now /\ route'.affinity > now' =>
         route'.current = route.current]_routeVars

(* The table implements the gate: no request starts on a cooling member,   *)
(* cooldowns end early only by being forgiven, and a restart forgives none *)
(* of them.                                                                *)
Gate == INSTANCE CooldownGate WITH
    until   <- [i \in Member |-> IF Cooling(i) THEN route.cooldown[i] ELSE 0],
    serving <- flight,
    Penalty <- {Longer(CooldownTime, hint) : hint \in Hint}

CooldownsRespected == Gate!GateSpec
=============================================================================
