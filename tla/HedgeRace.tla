------------------------------ MODULE HedgeRace ------------------------------
(***************************************************************************)
(* A hedged round (internal/relay/hedge.go, and its call in handler.go):   *)
(* the settings of the group decide whether the round races, the primary   *)
(* member is called at once, its rivals with it or after a delay, and the  *)
(* first valid answer wins.                                                *)
(*                                                                         *)
(* Every call is a goroutine with a context of its own under raceCtx; the  *)
(* calls hand their outcomes to the collector over a buffered channel.     *)
(* Timers have no clock here: the delay of the rivals, the time limit of a *)
(* call and the 200 ms the winner waits for leftovers may end at any time. *)
(***************************************************************************)
EXTENDS Integers, Sequences, FiniteSets, SequencesExt

CONSTANTS
    Member,        \* the usable members of the group
    None,          \* no member
    Configs,       \* the stored hedge settings of a group
    Rankings,      \* orders in which rankedHedgeCandidates returns members
    Loads,         \* requests of the group in flight
    DefaultWidth,  \* hedgeDefaultWidth (2 in the code)
    MaxWidth       \* hedgeMaxWidth (5 in the code)

ASSUME HedgeAssumption ==
    /\ None \notin Member /\ IsFiniteSet(Member)
    /\ Rankings \subseteq Seq(Member)
    /\ Configs \subseteq [enabled : BOOLEAN, width : Int, after : Nat, peak : Nat]
    /\ Loads \subseteq Nat
    /\ DefaultWidth \in Nat /\ MaxWidth \in Nat

VARIABLES
    config,     \* the group's settings
    plan,       \* the primary, its rivals and how they start
    streaming,  \* the client asked for a stream
    call,       \* the goroutine of each member
    outcome,    \* what each call brought
    results,    \* the channel of outcomes
    delay,      \* the timer that starts the rivals
    collector,  \* runRoundWithHedge: where it is, and its counters
    round,      \* roundCtx is alive
    race,       \* raceCtx is alive
    stream      \* the winner's stream, as the client gets it

hedgeVars == <<config, plan, streaming, call, outcome, results, delay,
               collector, round, race, stream>>

-----------------------------------------------------------------------------
(* hedgeSettingsOf: widths are clamped, an enabled hedge without a trigger *)
(* gets a delay.                                                           *)
Width(c) ==
    LET w == IF c.width < 2 THEN DefaultWidth ELSE c.width
    IN IF w > MaxWidth THEN MaxWidth ELSE w
Delays(c) == c.after > 0 \/ (c.enabled /\ c.peak = 0)

(* The rivals of a round: the best candidates that can be prepared, not    *)
(* the primary, as long as the width allows one more.                      *)
Rivals(c, primary, ranking, usable) ==
    LET others == {i \in DOMAIN ranking : ranking[i] \in usable \ {primary}}
    IN {ranking[i] : i \in {k \in others : Cardinality({j \in others : j < k}) < Width(c) - 1}}

Start(c, load) ==
    IF c.peak > 0 /\ load >= c.peak THEN "at once"
    ELSE IF Delays(c) THEN "delayed" ELSE "never"

Racing == {plan.primary} \cup plan.rivals
CapacityOne == 1                                 \* mutant: a buffer for one outcome
Capacity == Cardinality(plan.rivals) + 1

(* Calls the collector counts on; the delayed ones are counted before they *)
(* are started.                                                            *)
StartedOnTime == IF plan.start = "at once" THEN Cardinality(Racing) ELSE 1   \* mutant
Started == IF plan.start = "never" THEN 1 ELSE Cardinality(Racing)

(* The context of a call is a child of raceCtx, not of the round's. *)
CtxAliveRound(m) == round                        \* mutant: a child of roundCtx
CtxAlive(m) == race

-----------------------------------------------------------------------------
(* The goroutines of the calls.                                            *)

(* The upstream answers or fails. *)
Respond(m) ==
    /\ call[m] = "running" /\ CtxAlive(m)
    /\ \E kind \in {"ok", "failed"} : outcome' = [outcome EXCEPT ![m] = kind]
    /\ call' = [call EXCEPT ![m] = "back"]
    /\ UNCHANGED <<config, plan, streaming, results, delay, collector, round, race, stream>>

(* The call's context ended: its time limit, or a cancellation above it. *)
Abort(m) ==
    /\ call[m] = "running"
    /\ outcome' = [outcome EXCEPT ![m] = IF CtxAlive(m) THEN "timeout" ELSE "canceled"]
    /\ call' = [call EXCEPT ![m] = "back"]
    /\ UNCHANGED <<config, plan, streaming, results, delay, collector, round, race, stream>>

(* The time limit expires while a valid answer is in hand: timer.Stop      *)
(* comes too late, the stream of the answer is closed.                     *)
LateTimeout(m) ==
    /\ call[m] = "back" /\ outcome[m] = "ok" /\ CtxAlive(m)
    /\ outcome' = [outcome EXCEPT ![m] = "timeout"]
    /\ UNCHANGED <<config, plan, streaming, call, results, delay, collector, round, race, stream>>

Deliver(m) ==
    /\ call[m] = "back" /\ Len(results) < Capacity
    /\ results' = Append(results, m)
    /\ call' = [call EXCEPT ![m] = "ended"]
    /\ UNCHANGED <<config, plan, streaming, outcome, delay, collector, round, race, stream>>

-----------------------------------------------------------------------------
(* The timer of the rivals: it reads raceCtx, then starts them.            *)

DelayOver ==
    /\ delay = "armed"
    /\ delay' = IF race THEN "starting" ELSE "over"
    /\ UNCHANGED <<config, plan, streaming, call, outcome, results, collector, round, race, stream>>

StartRivals ==
    /\ delay = "starting"
    /\ delay' = "over"
    /\ call' = [m \in Member |-> IF m \in plan.rivals THEN "running" ELSE call[m]]
    /\ UNCHANGED <<config, plan, streaming, outcome, results, collector, round, race, stream>>

-----------------------------------------------------------------------------
(* runRoundWithHedge.                                                      *)

(* The deferred timer.Stop and cancelRace. *)
Return(answer, error) ==
    /\ collector' = [collector EXCEPT !.at = "returned", !.answer = answer, !.error = error]
    /\ race' = FALSE
    /\ delay' = IF delay = "armed" THEN "over" ELSE delay
    /\ stream' = IF answer # None /\ streaming THEN "open" ELSE "none"

ClientLeft ==
    /\ collector.at = "collecting" /\ ~round
    /\ Return(None, "canceled")
    /\ UNCHANGED <<config, plan, streaming, call, outcome, results, round>>

(* The next outcome.  A win cancels the race; the last failure of all is   *)
(* answered with the primary's error.                                      *)
CollectWin ==
    /\ collector.at = "collecting" /\ results # <<>> /\ outcome[Head(results)] = "ok"
    /\ collector' = [collector EXCEPT !.at = "draining", !.answer = Head(results),
                                      !.received = @ + 1]
    /\ results' = Tail(results)
    /\ race' = FALSE
    /\ UNCHANGED <<config, plan, streaming, call, outcome, delay, round, stream>>

CollectLoss ==
    /\ collector.at = "collecting" /\ results # <<>> /\ outcome[Head(results)] # "ok"
    /\ LET m == Head(results)
           error == IF m = plan.primary THEN outcome[m] ELSE collector.error
       IN IF collector.received + 1 < Started
          THEN /\ collector' = [collector EXCEPT !.received = @ + 1, !.error = error]
               /\ UNCHANGED <<race, delay, stream>>
          ELSE Return(None, IF error = "none" THEN "all failed" ELSE error)
    /\ results' = Tail(results)
    /\ UNCHANGED <<config, plan, streaming, call, outcome, round>>

(* The winner waits for the leftovers, for the log: their answers are      *)
(* dropped.                                                                *)
Drain ==
    /\ collector.at = "draining" /\ results # <<>> /\ collector.received < Started
    /\ collector' = [collector EXCEPT !.received = @ + 1]
    /\ results' = Tail(results)
    /\ UNCHANGED <<config, plan, streaming, call, outcome, delay, round, race, stream>>

(* All are in, or 200 ms passed without one. *)
EndDrain ==
    /\ collector.at = "draining"
    /\ results = <<>> \/ collector.received = Started
    /\ Return(collector.answer, collector.error)
    /\ UNCHANGED <<config, plan, streaming, call, outcome, results, round>>

-----------------------------------------------------------------------------
(* The rest of the round: an interruption or the client ends its context,  *)
(* Forward reads the winner's stream under the context of its call.        *)

EndRound ==
    /\ round /\ stream \in {"none", "open"}
    /\ round' = FALSE /\ race' = FALSE
    /\ UNCHANGED <<config, plan, streaming, call, outcome, results, delay, collector, stream>>

ForwardStream ==
    /\ stream = "open"
    /\ stream' = IF CtxAlive(collector.answer) THEN "forwarded" ELSE "cut"
    /\ UNCHANGED <<config, plan, streaming, call, outcome, results, delay, collector, round, race>>

-----------------------------------------------------------------------------
(* A round whose group races, its first calls started. *)
HedgeInit ==
    /\ config \in {c \in Configs : c.enabled}
    /\ streaming \in BOOLEAN
    /\ \E primary \in Member, ranking \in Rankings, usable \in SUBSET Member, load \in Loads :
          /\ plan = [primary |-> primary,
                     rivals |-> Rivals(config, primary, ranking, usable),
                     start |-> Start(config, load)]
          /\ plan.rivals # {}
    /\ call = [m \in Member |->
                 IF m \in Racing /\ (m = plan.primary \/ plan.start = "at once")
                 THEN "running" ELSE "idle"]
    /\ outcome = [m \in Member |-> "none"]
    /\ results = <<>>
    /\ delay = IF plan.start = "delayed" THEN "armed" ELSE "over"
    /\ collector = [at |-> "collecting", received |-> 0, answer |-> None, error |-> "none"]
    /\ round = TRUE /\ race = TRUE
    /\ stream = "none"

Call(m) == Respond(m) \/ Abort(m) \/ LateTimeout(m) \/ Deliver(m)
Collect == ClientLeft \/ CollectWin \/ CollectLoss \/ Drain \/ EndDrain
Delay == DelayOver \/ StartRivals

HedgeNext ==
    \/ \E m \in Member : Call(m)
    \/ Collect
    \/ Delay
    \/ EndRound
    \/ ForwardStream

(* The goroutines are scheduled and every call has a time limit; nobody    *)
(* has to interrupt the round.                                             *)
FairHedgeSpec ==
    /\ HedgeInit /\ [][HedgeNext]_hedgeVars
    /\ \A m \in Member : WF_hedgeVars(Call(m))
    /\ WF_hedgeVars(Collect) /\ WF_hedgeVars(Delay) /\ WF_hedgeVars(ForwardStream)

-----------------------------------------------------------------------------
(* Properties.                                                             *)

(* Every variable has its shape; the channel holds what its buffer can,    *)
(* and no setting makes a round wider than the limit.                      *)
HedgeTypeOK ==
    /\ config \in Configs
    /\ plan \in [primary : Member, rivals : SUBSET Member, start : {"at once", "delayed", "never"}]
    /\ Cardinality(plan.rivals) < MaxWidth
    /\ streaming \in BOOLEAN
    /\ call \in [Member -> {"idle", "running", "back", "ended"}]
    /\ outcome \in [Member -> {"none", "ok", "failed", "timeout", "canceled"}]
    /\ results \in Seq(Member) /\ Len(results) <= Capacity
    /\ delay \in {"armed", "starting", "over"}
    /\ collector \in [at : {"collecting", "draining", "returned"}, received : 0..Started,
                      answer : Member \cup {None},
                      error : {"none", "failed", "timeout", "canceled", "all failed"}]
    /\ round \in BOOLEAN /\ race \in BOOLEAN
    /\ stream \in {"none", "open", "forwarded", "cut"}

(* A round is lost only when every call that was counted on has failed,    *)
(* the delayed ones included, and the error it is lost with, which decides *)
(* about retry and cooldown, is the primary's own.                         *)
LostOnlyWhenAllFailed ==
    (collector.at = "returned" /\ collector.answer = None /\ round) =>
        /\ collector.error = outcome[plan.primary]
        /\ \A m \in Racing : m = plan.primary \/ plan.start # "never" =>
               outcome[m] \in {"failed", "timeout"}

(* Once the round has its answer, no other call goes on.                   *)
LosersAreCanceled ==
    collector.at \in {"draining", "returned"} =>
        \A m \in Member \ {collector.answer} : ~CtxAlive(m)

(* Every round returns and leaves no goroutine behind it.                  *)
EveryRaceEnds ==
    <>[](/\ collector.at = "returned" /\ delay = "over"
         /\ \A m \in Member : call[m] \in {"idle", "ended"})

(* A winner's stream is only cut when the round itself was ended.          *)
WinnerStreamLives == stream = "cut" => ~round
=============================================================================
