----------------------------- MODULE RoutePicks -----------------------------
(* Which member of one group is tried first, pick after pick: the dispatch *)
(* by the group's mode (pickGroupItemByModeWithFeatures), the round of the *)
(* weighted round robin and the accumulators of the allocate mode, which   *)
(* are read, planned with and advanced in separate critical sections.      *)
(*                                                                         *)
(* The affinity of a member, its probe and the cooldown table are          *)
(* GroupRoute's; here a cooldown begins or ends whenever the view changes. *)
EXTENDS CandidateRanking

CONSTANTS
    Request,       \* concurrent requests
    None,          \* no member, no plan
    Views(_),      \* the views a group of a mode may start with
    Learnable(_, _), \* what may be learnt of a member in a dimension
    Coolable       \* members that cool down and recover

VARIABLES
    mode,      \* the group's mode
    balanced,  \* RouteBalanceEnabled
    view,      \* the group's members and what is known of them
    round,     \* balanceRound, up to a period of every weighting
    current,   \* allocCurrent; an absent entry is 0
    dropped,   \* the map a reset took away from the requests that plan with it
    plan,      \* what a request holds between two critical sections
    first      \* the member tried first by the latest pick

pickVars == <<mode, balanced, view, round, current, dropped, plan, first>>

(* What a request can see of a group. *)
ViewRecord ==
    [items : {list \in Seq(Item) : IsInjective(list) /\ ToSet(list) = Item},
     tops : Seq(Nat), nested : SUBSET Item, off : SUBSET Item, cooling : SUBSET Item,
     tier : [Item -> {"auto", "decision", "execution"}],
     obs : [Dim -> [Item -> Nat \cup {Unknown}]]]

SortModes == {"lowest_cost", "quality_first", "lowest_latency", "least_busy", "lowest_tpm_rpm"}
Mode == SortModes \cup {"failover", "weighted", "smart", "allocate"}

ASSUME PicksAssumption ==
    /\ None \notin Item
    /\ \A m \in Mode : Views(m) \subseteq ViewRecord
    /\ \A i \in Item, d \in Dim : Learnable(i, d) \subseteq Nat \cup {Unknown}
    /\ Coolable \subseteq Item

RankByMode(m, v) ==
    CASE m = "lowest_cost"    -> rankByLowestCost(v)
      [] m = "quality_first"  -> rankByQuality(v)
      [] m = "lowest_latency" -> rankByLatency(v)
      [] m = "least_busy"     -> rankByBusy(v)
      [] m = "lowest_tpm_rpm" -> rankByRecentLoad(v)
      [] m = "weighted"       -> rankByWeighted(v)

Period == 12  \* of the rounds: a multiple of 1, 3 and 6, those of up to three members

(* The list of a failover group: as it is, or in its turn. *)
FailoverList(v, r) == IF balanced THEN rankCandidates(v, r, FALSE) ELSE v.items

(* pickGroupItem without affinity: the first that is not cooling.  Whether *)
(* it is switched off is not asked here.                                   *)
FirstOf(v, list) ==
    LET ready == Only(list, Item \ v.cooling)
    IN IF ready = <<>> THEN None ELSE Head(ready)

(* pickGroupItemSmart: the tier, and if it has nobody everybody, in the    *)
(* next round.                                                             *)
Tier(v, complex) == smartTierItems(v, SmartDecisionMembers(v.tops), complex)
InTier(v, r, complex) ==
    LET tier == Tier(v, complex) IN FirstOf(v, FailoverList([v EXCEPT !.items = tier], r))
FallsBack(v, r, complex) == Tier(v, complex) # <<>> /\ InTier(v, r, complex) = None

PickGroupItemSmart(v, r, complex) ==
    IF FallsBack(v, r, complex) THEN FirstOf(v, FailoverList(v, (r + 1) % Period))
    ELSE InTier(v, r, complex)

(* Every mode but allocate picks from the view and the round. *)
Picked(m, v, r, complex) ==
    CASE m = "smart"    -> PickGroupItemSmart(v, r, complex)
      [] m = "failover" -> FirstOf(v, FailoverList(v, r))
      [] OTHER          -> FirstOf(v, RankByMode(m, v))

(* rankedHedgeCandidatesWithFeatures: the rivals of a hedged round. *)
RankedHedgeCandidates(m, v, r, complex) ==
    LET tier == Tier(v, complex)
        inTier == rankCandidates([v EXCEPT !.items = tier], r, TRUE)
        weights == allocatePlan(v)
    IN CASE m \in SortModes -> RankByMode(m, v)
         [] m = "smart" /\ inTier # <<>> -> inTier
         [] m = "allocate" /\ DOMAIN weights # {} ->
                orderAllocateSamples(weights, Heaviest(v, weights),
                                     partitionCandidates(v).cooling)
         [] OTHER -> rankCandidates(v, r, TRUE)

-----------------------------------------------------------------------------
(* Picks of every mode but allocate.                                       *)

PickGroupItem(complex) ==
    /\ mode # "allocate"
    /\ first' = Picked(mode, view, round, complex)
    /\ round' = IF ~balanced \/ mode \notin {"failover", "smart"} THEN round
                ELSE IF mode = "smart" /\ FallsBack(view, round, complex) THEN (round + 2) % Period
                ELSE (round + 1) % Period
    /\ UNCHANGED <<mode, balanced, view, current, dropped, plan>>

SetRouteBalanceEnabled(on) ==
    /\ mode \in {"failover", "smart"}
    /\ balanced' = on
    /\ round' = IF on THEN round ELSE 0
    /\ UNCHANGED <<mode, view, current, dropped, plan, first>>

-----------------------------------------------------------------------------
(* A pick of the allocate mode (pickGroupItemAllocate).                    *)

(* The cooldowns and the map are taken under the lock, the rest is read    *)
(* without it.  Nobody to be planned with ends the pick.                   *)
AllocatePlan(r) ==
    /\ mode = "allocate" /\ plan[r] = None
    /\ Counted(view) # {}
    /\ plan' = [plan EXCEPT ![r] =
                   [step |-> "planned", held |-> TRUE, weights |-> allocatePlan(view),
                    cooling |-> Members(partitionCandidates(view).cooling)]]
    /\ UNCHANGED <<mode, balanced, view, round, current, dropped, first>>

(* allocateStep: everybody planned with gains its weight, the largest wins *)
(* and pays for all; equals go to the smaller id.                          *)
Winner(values) ==
    CHOOSE i \in DOMAIN values : \A j \in DOMAIN values \ {i} :
        values[i] > values[j] \/ (values[i] = values[j] /\ i < j)

allocateStepFree(values, weights) ==  \* mutant: the winner pays its own weight
    LET gained == [i \in DOMAIN weights |-> values[i] + weights[i]]
        best == Winner(gained)
    IN [best |-> best,
        after |-> [i \in DOMAIN values |->
                      IF i \notin DOMAIN weights THEN values[i]
                      ELSE gained[i] - IF i = best THEN weights[i] ELSE 0]]
allocateStep(values, weights) ==
    LET gained == [i \in DOMAIN weights |-> values[i] + weights[i]]
        best == Winner(gained)
    IN [best |-> best,
        after |-> [i \in DOMAIN values |->
                      IF i \notin DOMAIN weights THEN values[i]
                      ELSE gained[i] - IF i = best THEN Total(weights) ELSE 0]]

Nothing == [i \in Item |-> 0]
Planned(r) == plan[r] # None /\ plan[r].step = "planned"

(* The step under the lock, in the map the plan was made with; one that a  *)
(* reset has dropped is garbage once the last request is through with it.  *)
AllocateStep(r) ==
    LET held == plan[r].held
        stepped == allocateStep(IF held THEN current ELSE dropped, plan[r].weights)
        last == \A q \in Request \ {r} : Planned(q) => plan[q].held
    IN
    /\ Planned(r)
    /\ first' = stepped.best
    /\ current' = IF held THEN stepped.after ELSE current
    /\ dropped' = IF last THEN Nothing ELSE IF held THEN dropped ELSE stepped.after
    /\ plan' = [plan EXCEPT ![r].step = "stepped"]
    /\ UNCHANGED <<mode, balanced, view, round>>

(* pickGroupItem takes the lock once more; groupRouteLocked deletes the    *)
(* accumulator of every member that is not in the ranked list.             *)
FinishPick(r) ==
    /\ plan[r] # None /\ plan[r].step = "stepped"
    /\ LET ranked == DOMAIN plan[r].weights \cup plan[r].cooling
       IN current' = [i \in Item |-> IF i \in ranked THEN current[i] ELSE 0]
    /\ plan' = [plan EXCEPT ![r] = None]
    /\ UNCHANGED <<mode, balanced, view, round, dropped, first>>

-----------------------------------------------------------------------------
(* The surroundings.                                                       *)

(* A response, a scan of the balances, a request of the minute. *)
Observe(i, d, x) ==
    /\ mode = "allocate"
    /\ view.obs[d][i] # x
    /\ view' = [view EXCEPT !.obs[d][i] = x]
    /\ UNCHANGED <<mode, balanced, round, current, dropped, plan, first>>

(* A cooldown starts or ends. *)
Cool(i) ==
    /\ mode = "allocate" /\ i \notin view.cooling
    /\ view' = [view EXCEPT !.cooling = @ \cup {i}]
    /\ UNCHANGED <<mode, balanced, round, current, dropped, plan, first>>

CooldownOver(i) ==
    /\ mode = "allocate" /\ i \in view.cooling
    /\ view' = [view EXCEPT !.cooling = @ \ {i}]
    /\ UNCHANGED <<mode, balanced, round, current, dropped, plan, first>>

(* ResetRouteState: the map is left to the requests that plan with it.     *)
(* Bound: one dropped map at a time.                                       *)
ResetRouteState ==
    /\ mode = "allocate"
    /\ \A r \in Request : Planned(r) => plan[r].held
    /\ current' = Nothing
    /\ dropped' = IF \E r \in Request : Planned(r) THEN current ELSE Nothing
    /\ plan' = [r \in Request |-> IF Planned(r) THEN [plan[r] EXCEPT !.held = FALSE] ELSE plan[r]]
    /\ UNCHANGED <<mode, balanced, view, round, first>>

-----------------------------------------------------------------------------
PicksInit ==
    /\ mode \in Mode
    /\ balanced \in (IF mode \in {"failover", "smart"} THEN BOOLEAN ELSE {FALSE})
    /\ view \in Views(mode)
    /\ round = 0
    /\ current = Nothing
    /\ dropped = Nothing
    /\ plan = [r \in Request |-> None]
    /\ first = None

PicksNext ==
    \/ \E complex \in BOOLEAN : PickGroupItem(complex)
    \/ \E on \in BOOLEAN : SetRouteBalanceEnabled(on)
    \/ \E r \in Request : AllocatePlan(r)
    \/ \E r \in Request : AllocateStep(r)
    \/ \E r \in Request : FinishPick(r)
    \/ \E i \in Item, d \in Dim : \E x \in Learnable(i, d) : Observe(i, d, x)
    \/ \E i \in Coolable : Cool(i)
    \/ \E i \in Coolable : CooldownOver(i)
    \/ ResetRouteState

PicksSpec == PicksInit /\ [][PicksNext]_pickVars

-----------------------------------------------------------------------------
(* Properties.                                                             *)

Usable == Available(view) \ view.cooling

(* No ranking invents, repeats or forgets a member that is marked          *)
(* available: in every mode it is in the list the request would work down, *)
(* a cooling one behind every other; only members that have nothing left   *)
(* to pay with may be missing.                                             *)
Broke(i) ==
    \/ mode = "allocate" /\ (Spent(view, i) \/ Limited(view, i))
    \/ mode = "weighted" /\ view.obs["monthly"][i] = 0
RankingsAreComplete ==
    \A list \in {RankedHedgeCandidates(mode, view, round, FALSE),
                 IF mode \in SortModes \cup {"weighted"} THEN RankByMode(mode, view)
                 ELSE rankCandidates(view, round, FALSE)} :
        list # <<>> =>
            /\ IsInjective(list)
            /\ Members(list) \subseteq Available(view)
            /\ \A j, k \in DOMAIN list : list[j] \in view.cooling /\ list[k] \in Usable => k < j
            /\ mode # "smart" => \A i \in Available(view) \ Members(list) : Broke(i)

(* Over one period of its weights every member on time is first exactly as *)
(* often as it weighs, the first of n members n times, the next n - 1      *)
(* times: what smoothWeightedOrder rests on when it drops whole periods.   *)
RoundsFollowWeights ==
    mode = "failover" =>
        LET onTime == SortedBy({i \in Usable : ~IsSlow(view, i)}, NoKey)
            n == Len(onTime)
            period == (n * (n + 1)) \div 2
            heads == [r \in 0..(period - 1) |-> Head(rankCandidates(view, r, FALSE))]
        IN \A k \in 1..n :
              Cardinality({r \in 0..(period - 1) : heads[r] = onTime[k]}) = n + 1 - k

(* A tier is who is asked first, never a reason to ask nobody or somebody  *)
(* who cools: a request of either kind finds a member of a smart group     *)
(* that is not cooling while there is one, however the tiers are declared; *)
(* with the round robin on, one that is marked available.                  *)
TiersNeverStrand ==
    mode = "smart" =>
        LET open == (IF balanced THEN Available(view) ELSE Item) \ view.cooling
        IN open # {} => \A complex \in BOOLEAN : PickGroupItemSmart(view, round, complex) \in open

(* Weights decide what matters more, not what is better: a member that is  *)
(* no worse than another in any dimension, the unknown taken for the best, *)
(* and comes before it in the group is ranked before it.                   *)
NoWorse(i, j, d) ==
    LET x == view.obs[d][i]
        y == view.obs[d][j]
    IN \/ x = Unknown
       \/ y # Unknown /\ (IF d \in LowerBetter THEN x <= y ELSE x >= y)
DominatedComesLater ==
    mode = "weighted" =>
        LET list == rankByWeighted(view)
        IN \A j, k \in DOMAIN list :
              /\ list[j] \notin view.cooling /\ list[k] \notin view.cooling
              /\ Priority[list[j]] < Priority[list[k]]
              /\ \A d \in WeightDim : NoWorse(list[j], list[k], d)
              => j < k

(* The accumulators stay small however long the group is used and whatever *)
(* is learnt, dropped or interleaved meanwhile: a winner pays what all the *)
(* others were given, and waits at most behind each of them.               *)
Bound == 2 * (Cardinality(Item) - 1) * MaxWeight
AccumulatorsBounded ==
    \A i \in Item : current[i] \in -Bound..Bound /\ dropped[i] \in -Bound..Bound

(* Every member that can pay keeps getting requests: one that from some    *)
(* time on is usable, not spent and not at its limit is first again and    *)
(* again while requests come in, whatever the others gain, lose or skip,   *)
(* once the administrator leaves the group alone.                          *)
Able(i) == i \in Usable /\ ~Spent(view, i) /\ ~Limited(view, i)
NobodyStarves ==
    <>[][~ResetRouteState]_pickVars /\ []<><<\E r \in Request : AllocateStep(r)>>_pickVars =>
        \A i \in Item : <>[]Able(i) => []<>(first = i)

(* internal/model/setting.go:43: a slow member comes behind the others in  *)
(* every mode.                                                             *)
SlowComesLast ==
    mode # "allocate" =>
        \A complex \in BOOLEAN :
            LET i == Picked(mode, view, round, complex)
            IN i \in Usable /\ IsSlow(view, i) => \A j \in Usable : IsSlow(view, j)

(* internal/relay/smart.go:195: if the members of a tier cool or are       *)
(* switched off, all of them, the request still leaves through another.    *)
TierFallsBack ==
    LET usable == (Item \ view.off) \ view.cooling IN
    mode = "smart" /\ usable # {} =>
        \A complex \in BOOLEAN :
            Members(Tier(view, complex)) \cap usable = {} =>
                PickGroupItemSmart(view, round, complex) \in usable

(* internal/relay/balance.go:21: who is dropped from a ranking is switched  *)
(* off.                                                                    *)
OnlySwitchedOffDropped ==
    mode = "failover" /\ balanced =>
        LET list == rankCandidates(view, round, FALSE)
        IN list # <<>> => Item \ view.off \subseteq Members(list)

(* internal/relay/hedge.go:188: the rivals are in the order of the group's *)
(* mode.                                                                   *)
RivalsInOrderOfMode ==
    mode # "allocate" =>
        \A complex \in BOOLEAN :
            LET list == RankedHedgeCandidates(mode, view, round, complex)
            IN list # <<>> => Head(list) = Picked(mode, view, round, complex)
=============================================================================
