---------------------------- MODULE RelayForward ----------------------------
(***************************************************************************)
(* The forwarding loop of a client request (Forward in                     *)
(* internal/relay/handler.go) for a failover group, composed with the      *)
(* group's shared routing state.  Every step of a request that touches the *)
(* route table is the GroupRoute action of the route.go function it calls; *)
(* this module adds what the loop decides with its local variables:        *)
(* retries, the attempt budget, the rejected members and how it ends.      *)
(*                                                                         *)
(* A request reads the group, picks later from what it read, and waits for *)
(* the upstream in between; administrators, other requests and the         *)
(* background probe act at any of these points.                            *)
(***************************************************************************)
EXTENDS GroupRoute, SequencesExt

CONSTANTS
    Priority,        \* the group's members by Priority, each once
    Unusable,        \* members whose prepareRoundTarget may fail: the credential of
                     \* a nested group's member is disabled, a grant is incomplete
    FailFast,        \* RequestFaultAction() = failfast
    ProbeEnabled,    \* route_probe_enabled
    MinAttemptCap,   \* minAttemptCap (6 in the code)
    MaxAttemptCap,   \* maxAttemptCap (64 in the code)
    WaitCap,         \* waits for a member that make up the 60 seconds
    MaxInterrupts,   \* bound on manual interruptions
    MaxToggles,      \* bound on channels being disabled or enabled
    Deletable        \* whether the group may be deleted

(* The members of S in the order of their Priority. *)
InOrder(items, S) ==
    /\ ToSet(items) = S /\ IsInjective(items)
    /\ \A j, k \in DOMAIN items : j < k =>
          \E m, n \in DOMAIN Priority :
             m < n /\ Priority[m] = items[j] /\ Priority[n] = items[k]
Ordered ==
    CHOOSE list \in [SUBSET Member -> Views] :
        \A S \in SUBSET Member : InOrder(list[S], S)

ASSUME ForwardAssumption ==
    /\ ToSet(Priority) = Member /\ IsInjective(Priority)
    /\ \A S \in SUBSET Member : \E items \in Views : InOrder(items, S)
    /\ Unusable \subseteq Member
    /\ {FailFast, ProbeEnabled, Deletable} \subseteq BOOLEAN
    /\ {MinAttemptCap, MaxAttemptCap, WaitCap} \subseteq Nat \ {0}
    /\ {MaxInterrupts, MaxToggles} \subseteq Nat

VARIABLES
    available,   \* members GroupGetByName leaves in the group
    group,       \* "present", "removed" from the caches, "reset" as well
    loop,        \* the local variables of each request's Forward loop
    interrupts,  \* manual interruptions so far
    toggles      \* availability changes so far

adminVars == <<available, group, interrupts, toggles>>
forwardVars == <<routeVars, loop, adminVars>>

Max2(x, y) == IF x > y THEN x ELSE y
Min2(x, y) == IF x < y THEN x ELSE y

(* Where a request is: about to read the group, to pick, to prepare its    *)
(* target, waiting for the upstream, or writing the response.  The         *)
(* counters die with the request.                                          *)
Locals(label) ==
    [pc         |-> label,
     members    |-> {},     \* the member set it read at the top of this round
     waits      |-> 0,      \* waits without a member (unavailableWaitSince)
     attempts   |-> 0,
     failedItem |-> None,
     failures   |-> 0,      \* not counted beyond MaxAttempts
     rejected   |-> {}]     \* rejectedItems

At(r, label) == loop[r].pc = label
Goto(r, label) == loop' = [loop EXCEPT ![r].pc = label]
Finish(r) == loop' = [loop EXCEPT ![r] = Locals("done")]

(* attemptCap. *)
AttemptCapUnclamped(memberCount) ==     \* mutant: the upper clamp is missing
    Max2(Max2(memberCount, 1) * MaxAttempts * 2, MinAttemptCap)
AttemptCap(memberCount) ==
    Min2(Max2(Max2(memberCount, 1) * MaxAttempts * 2, MinAttemptCap), MaxAttemptCap)

(* dropRejectedMembers: an emptied list is handed back whole. *)
CandidatesAll(r) ==                     \* mutant: rejections are forgotten
    Ordered[loop[r].members]
Candidates(r) ==
    LET kept == loop[r].members \ loop[r].rejected
        offered == IF kept = {} THEN loop[r].members ELSE kept
    IN Ordered[offered]

-----------------------------------------------------------------------------
(* The client's request is registered and enters the loop. *)
Arrive(r) ==
    /\ At(r, "new")
    /\ group = "present"
    /\ Goto(r, "read")
    /\ UNCHANGED <<routeVars, adminVars>>

(* The top of a round: GroupGetByName and the flattened members.  While    *)
(* the group is gone the request waits here.                               *)
ReadGroup(r) ==
    /\ At(r, "read")
    /\ group = "present"
    /\ loop' = [loop EXCEPT ![r].members = available, ![r].pc = "pick"]
    /\ UNCHANGED <<routeVars, adminVars>>

(* The client leaves before the round or during a back-off. *)
LeaveIdle(r) ==
    /\ At(r, "read")
    /\ Finish(r)
    /\ UNCHANGED <<routeVars, adminVars>>

(* memberUnavailableWaitedEnough. *)
WaitsForever(r) == FALSE                \* mutant: no cap on the wait
WaitedEnough(r) == loop[r].waits >= WaitCap

(* pickGroupItem.  Without a member the request waits, up to the cap. *)
Pick(r) ==
    /\ At(r, "pick")
    /\ \E failed \in SUBSET Member : PickGroupItem(r, Candidates(r), failed)
    /\ IF flight'[r] # None
       THEN loop' = [loop EXCEPT ![r].pc = "picked", ![r].waits = 0]
       ELSE IF WaitedEnough(r)
            THEN Finish(r)
            ELSE loop' = [loop EXCEPT ![r].pc = "read", ![r].waits = Min2(@ + 1, WaitCap)]
    /\ UNCHANGED adminVars

(* prepareRoundTarget and startRound; a target that cannot be prepared is  *)
(* waited for, and nobody is told.                                         *)
Prepare(r) ==
    /\ At(r, "picked")
    /\ \/ flight[r] \in Unusable /\ AbandonRound(r) /\ Goto(r, "read")
       \/ UNCHANGED routeVars /\ Goto(r, "sending")
    /\ UNCHANGED adminVars

(* The upstream answered and the round can be committed. *)
Answered(r) ==
    /\ At(r, "sending")
    /\ RecordRouteSuccess(r)
    /\ Goto(r, "responding")
    /\ UNCHANGED adminVars

(* The response is written: it arrives, breaks, or the client leaves. *)
Responded(r) ==
    /\ At(r, "responding")
    /\ Finish(r)
    /\ UNCHANGED <<routeVars, adminVars>>

(* The client leaves while the upstream is working. *)
LeaveRound(r) ==
    /\ At(r, "sending")
    /\ ReleaseRouteProbe(r)
    /\ Finish(r)
    /\ UNCHANGED adminVars

(* Somebody interrupts the round in the log page. *)
Interrupted(r) ==
    /\ At(r, "sending")
    /\ interrupts < MaxInterrupts
    /\ interrupts' = interrupts + 1
    /\ ReleaseRouteProbe(r)
    /\ Goto(r, "read")
    /\ UNCHANGED <<available, group, toggles>>

(* The attempt that is failing is the last one the budget allows. *)
LastAttempt(r) ==
    loop[r].attempts + 1 >= AttemptCap(Cardinality(loop[r].members))

(* Any failure that uses up the attempt budget ends the request there. *)
Exhausted(r) ==
    /\ At(r, "sending")
    /\ LastAttempt(r)
    /\ AbandonRound(r)
    /\ Finish(r)
    /\ UNCHANGED adminVars

(* The member finds the request itself invalid (dispositionRequestFault): *)
(* no fault of the member, so the route table hears nothing of it.        *)
Refused(r) ==
    LET refusals == loop[r].rejected \cup {flight[r]} IN
    /\ At(r, "sending")
    /\ ~LastAttempt(r)
    /\ AbandonRound(r)
    /\ IF FailFast \/ loop[r].members \subseteq refusals
       THEN Finish(r)
       ELSE loop' = [loop EXCEPT ![r].pc = "read",
                                 ![r].attempts = @ + 1,
                                 ![r].rejected = refusals]
    /\ UNCHANGED adminVars

(* A failure of the member: recoverable, its own fault, or a rate limit    *)
(* with a hint.  The latter two use up all its tries at once.              *)
FailedRound(r, hint, fatal) ==
    LET run == IF loop[r].failedItem = flight[r]
               THEN Min2(loop[r].failures + 1, MaxAttempts) ELSE 1
        n == IF fatal \/ hint > 0 THEN MaxAttempts ELSE run
    IN
    /\ At(r, "sending")
    /\ ~LastAttempt(r)
    /\ \E failed \in SUBSET Member : RecordRouteFailure(r, n, hint, failed)
    /\ loop' = [loop EXCEPT ![r].pc = "read",
                            ![r].attempts = @ + 1,
                            ![r].failedItem = flight[r],
                            ![r].failures = n]
    /\ UNCHANGED adminVars

-----------------------------------------------------------------------------
(* A channel is disabled or enabled, and with it the members that use it. *)
ToggleMember(i) ==
    /\ toggles < MaxToggles
    /\ toggles' = toggles + 1
    /\ available' = IF i \in available THEN available \ {i} ELSE available \cup {i}
    /\ UNCHANGED <<routeVars, loop, group, interrupts>>

(* deleteGroup: GroupDel, and then ResetRouteState. *)
DeleteGroup ==
    /\ Deletable
    /\ group = "present"
    /\ group' = "removed"
    /\ UNCHANGED <<routeVars, loop, available, interrupts, toggles>>

ResetDeleted ==
    /\ group = "removed"
    /\ group' = "reset"
    /\ \E failed \in {{}, Member} : ResetRouteState(failed)
    /\ UNCHANGED <<loop, available, interrupts, toggles>>

BackgroundProbe ==
    /\ \/ \E i \in available : ProbeEnabled /\ group = "present" /\ StartSounding(i)
       \/ \E i \in Member, good \in BOOLEAN, failed \in SUBSET Member :
            FinishSounding(i, good, failed)
    /\ UNCHANGED <<loop, adminVars>>

(* The process dies with the requests it holds. *)
Crash ==
    /\ \E loaded, purged \in BOOLEAN : Restart(loaded, purged)
    /\ loop' = [r \in Request |-> IF At(r, "new") THEN loop[r] ELSE Locals("done")]
    /\ UNCHANGED adminVars

Clock == Tick /\ UNCHANGED <<loop, adminVars>>

-----------------------------------------------------------------------------
ForwardInit ==
    /\ RouteInit
    /\ available = Member
    /\ group = "present"
    /\ loop = [r \in Request |-> Locals("new")]
    /\ interrupts = 0
    /\ toggles = 0

(* What the loop does by itself once it is in a round. *)
Proceed(r) ==
    \/ ReadGroup(r) \/ Pick(r) \/ Prepare(r)
    \/ Answered(r) \/ Responded(r)
    \/ Exhausted(r) \/ Refused(r)
    \/ \E hint \in Hint, fatal \in BOOLEAN : FailedRound(r, hint, fatal)

ForwardNext ==
    \/ \E r \in Request : Proceed(r) \/ Arrive(r) \/ LeaveIdle(r) \/ LeaveRound(r)
                          \/ Interrupted(r)
    \/ \E i \in Member : ToggleMember(i)
    \/ DeleteGroup
    \/ ResetDeleted
    \/ BackgroundProbe
    \/ Crash
    \/ Clock

ForwardSpec == ForwardInit /\ [][ForwardNext]_forwardVars

(* The goroutine of a request keeps running: timers fire, and an upstream  *)
(* call ends, at the latest by its response timeout.                       *)
Fairness == \A r \in Request : WF_forwardVars(Proceed(r))

FairForwardSpec == ForwardSpec /\ Fairness

-----------------------------------------------------------------------------
(* Properties.                                                             *)

ForwardTypeOK ==
    /\ RouteTypeOK
    /\ available \subseteq Member
    /\ group \in {"present", "removed", "reset"}
    /\ loop \in [Request ->
          [pc : {"new", "read", "pick", "picked", "sending", "responding", "done"},
           members    : SUBSET Member,
           waits      : 0..WaitCap,
           attempts   : 0..MaxAttemptCap,
           failedItem : Member \cup {None},
           failures   : 0..MaxAttempts,
           rejected   : SUBSET Member]]
    /\ interrupts \in 0..MaxInterrupts
    /\ toggles \in 0..MaxToggles

(* A request is served only by members it read in this round, whatever the *)
(* shared current member, affinity or probe slot say: the routing state    *)
(* other requests left behind never widens a request's candidates.         *)
ServedFromView ==
    \A r \in Request : flight[r] # None => flight[r] \in loop[r].members

(* A member that called the request invalid does not get it again.         *)
NeverResentToRejecter ==
    \A r \in Request : flight[r] # None => flight[r] \notin loop[r].rejected

(* The cooldown of a member that is still in the group survives the pick   *)
(* of any request (groupRouteLocked clears what deleted members left).     *)
PickKeepsCooldowns ==
    [][\A r \in Request :
         At(r, "pick") /\ loop'[r].pc \in {"picked", "read"} =>
            \A i \in Member : Cooling(i) => route'.cooldown[i] = route.cooldown[i]]_forwardVars

(* At most one request of the group is probing an expired member.          *)
OneProbeAtATime == Cardinality(probers) <= 1

(* The probe slot is occupied only while the request that was granted it   *)
(* has its round open; a round without a verdict gives it back.            *)
ProbeSlotHeld ==
    route.probe # None => \E r \in probers : flight[r] = route.probe

(* A request that entered the loop comes to an end: by a response, by its  *)
(* budget, or by the cap on waiting, unless its group is deleted or it is  *)
(* given a member that cannot be prepared, and again whenever it goes on:  *)
(* these waits are neither counted nor capped.                             *)
Stranded(r) == At(r, "picked") /\ flight[r] \in Unusable
EveryRequestEnds ==
    \A r \in Request : At(r, "read") ~> At(r, "done") \/ group # "present" \/ Stranded(r)

(* internal/relay/route.go:153: a member that cannot be prepared counts as *)
(* a failed round and cools, so that later rounds skip it.                 *)
UnusableMemberCools ==
    \A r \in Request, i \in Unusable :
        At(r, "picked") /\ flight[r] = i ~> At(r, "done") \/ route.cooldown[i] # 0
=============================================================================
