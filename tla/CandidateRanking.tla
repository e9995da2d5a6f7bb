-------------------------- MODULE CandidateRanking --------------------------
(* The order in which the members of a group are tried: the rankings of    *)
(* internal/relay/balance.go, strategy.go, weights.go, smart.go and        *)
(* allocate.go as operators over a view, what one request sees of the      *)
(* group.  A view holds                                                    *)
(*   items    the flattened members in their own order,                    *)
(*   tops     how many of them each member of the group flattens to,       *)
(*   nested   those that are members of a nested group,                    *)
(*   off      the nested ones whose channel or credential is switched off, *)
(*   cooling  those whose cooldown runs,                                   *)
(*   tier     the declared tier of each member,                            *)
(*   obs      what is known of each member in each dimension.              *)
(* Members are numbers: the last tie is broken by the smaller id.          *)
EXTENDS Integers, FiniteSets, SequencesExt

CONSTANTS
    Item,          \* the members of the group
    Priority,      \* their places in the group
    Unknown,       \* nothing is known of a member in a dimension
    SlowMs,        \* route_slow_latency_ms; 0 switches the partition off
    Weight,        \* route_weight_* by dimension
    ExcludeSpent,  \* route_monthly_action = "exclude"
    MinRequests,   \* route_allocate_min_requests
    RpmLimit,      \* route_member_rpm_limit; 0 is no limit
    TpmLimit,      \* route_member_tpm_limit; 0 is no limit
    HealthWeight,  \* route_allocate_health_weight, in percent
    LateMs,        \* route_allocate_slow_latency_ms; 0 is no discount
    MaxWeight      \* allocateMaxWeight

ASSUME RankingAssumption ==
    /\ Item \subseteq Nat /\ IsFiniteSet(Item) /\ Unknown \notin Int
    /\ Priority \in [Item -> Nat]
    /\ {SlowMs, MinRequests, RpmLimit, TpmLimit, LateMs} \subseteq Nat /\ ExcludeSpent \in BOOLEAN
    /\ MaxWeight \in Nat \ {0}
    /\ HealthWeight \in 0..100

(* Less is better in the first of these and more is in the second. *)
LowerBetter == {"cost", "multiplier", "perCall", "latency", "busy", "load"}
HigherBetter == {"balance", "monthly", "quality"}
WeightDim == LowerBetter \cup HigherBetter
Dim == WeightDim \cup {"requests", "throttled", "speed"}

ASSUME WeightAssumption == Weight \in [WeightDim -> Nat]

OrElse(x, default) == IF x = Unknown THEN default ELSE x

(* Success rates are percentages; memberQualityNeutralPrior. *)
FullRate == 100

-----------------------------------------------------------------------------
(* Order.                                                                  *)

Lex(a, b) ==
    \E k \in DOMAIN a : a[k] < b[k] /\ \A j \in 1..(k - 1) : a[j] = b[j]

(* The members S by key, then by priority, then by id. *)
Before(key, i, j) == Lex(key[i] \o <<Priority[i], i>>, key[j] \o <<Priority[j], j>>)
SortedBy(S, key) ==
    CHOOSE list \in [1..Cardinality(S) -> S] :
        \A j, k \in DOMAIN list : j < k => Before(key, list[j], list[k])

NoKey == [i \in Item |-> <<>>]

Members(list) == ToSet(list)

(* The part of a list that is in S. *)
Only(list, S) ==
    LET kept[k \in 0..Len(list)] ==
            IF k = 0 THEN <<>>
            ELSE IF list[k] \in S THEN Append(kept[k - 1], list[k]) ELSE kept[k - 1]
    IN kept[Len(list)]

(* The sum of what f gives on S, and of all that it gives. *)
SumOver(f, S) == MapThenSumSet(LAMBDA x : f[x], S)
Total(f) == SumOver(f, DOMAIN f)

-----------------------------------------------------------------------------
(* The partitions every ranking starts from.                               *)

(* Item.Available: groupSnapshot sets it for the members of the group      *)
(* itself and GroupGetByName leaves out those for which it is false;       *)
(* flatten takes the members of a nested group, enabled or not, from the   *)
(* cache, where nobody ever set it.                                        *)
Available(v) == Item \ v.nested

(* partitionCandidates: members that are not marked available are dropped. *)
partitionCandidates(v) ==
    [eligible |-> Only(v.items, Available(v) \ v.cooling),
     cooling  |-> Only(v.items, Available(v) \cap v.cooling)]

(* A member is slow once it was measured above the threshold. *)
IsSlow(v, i) ==
    /\ SlowMs > 0
    /\ v.obs["latency"][i] # Unknown
    /\ v.obs["latency"][i] > SlowMs

splitSlow(v, list) ==
    LET late == {i \in Item : IsSlow(v, i)}
    IN [fast |-> Only(list, Item \ late), slow |-> Only(list, late)]

(* The fast members as they are ranked, in front of the slow and the       *)
(* cooling ones; ErrNoEligibleMember is the empty list.                    *)
Fast(v) == Members(splitSlow(v, partitionCandidates(v).eligible).fast)
WithTails(v, ranked) ==
    LET parts == partitionCandidates(v)
    IN IF parts.eligible = <<>> THEN <<>>
       ELSE ranked \o splitSlow(v, parts.eligible).slow \o parts.cooling

RankBy(v, key) == WithTails(v, SortedBy(Fast(v), key))

-----------------------------------------------------------------------------
(* strategy.go: one dimension.  A member of unknown price comes last; what *)
(* else is unknown is taken for the best.                                  *)

rankByLowestCost(v) ==
    LET price == v.obs["cost"] IN
    RankBy(v, [i \in Item |-> IF price[i] = Unknown THEN <<1, 0>> ELSE <<0, price[i]>>])

rankByQuality(v) == RankBy(v, [i \in Item |-> <<-OrElse(v.obs["quality"][i], FullRate)>>])

rankByLatency(v) == RankBy(v, [i \in Item |-> <<OrElse(v.obs["latency"][i], 0)>>])

rankByBusy(v) == RankBy(v, [i \in Item |-> <<OrElse(v.obs["busy"][i], 0)>>])

(* load counts tokens, requests attempts, both of the last minute. *)
rankByRecentLoad(v) ==
    RankBy(v, [i \in Item |-> <<OrElse(v.obs["load"][i], 0), OrElse(v.obs["requests"][i], 0)>>])

-----------------------------------------------------------------------------
(* balance.go: smooth weighted round robin.                                *)

(* The place of the largest value, the first of several. *)
Largest(values) ==
    CHOOSE k \in DOMAIN values :
        /\ \A j \in DOMAIN values : values[j] <= values[k]
        /\ \A j \in 1..(k - 1) : values[j] < values[k]

(* smoothWeightedOrder: the round is replayed from the start of its period *)
(* and its winner put in front.                                            *)
ReplayUncharged(weights, round) ==  \* mutant: the winner is not charged
    LET n == Len(weights) IN
    Largest([k \in 1..n |-> weights[k] * ((round % Total(weights)) + 1)])
Added(current, weights) == [k \in 1..Len(weights) |-> current[k] + weights[k]]
Charged(current, k, total) == [current EXCEPT ![k] = @ - total]
Rounds(weights) ==
    LET after[step \in 0..Total(weights)] ==
            IF step = 0 THEN [k \in 1..Len(weights) |-> 0]
            ELSE LET current == Added(after[step - 1], weights)
                 IN Charged(current, Largest(current), Total(weights))
    IN after
Replay(weights, round) == Largest(Added(Rounds(weights)[round % Total(weights)], weights))

OrderWithWinnerTwice(weights, round) ==  \* mutant: the winner stays in its place
    <<Replay(weights, round)>> \o [k \in 1..Len(weights) |-> k]
smoothWeightedOrder(weights, round) ==
    LET best == Replay(weights, round)
    IN <<best>> \o Only([k \in 1..Len(weights) |-> k], 1..Len(weights) \ {best})

(* stableLatencySort: a member moves in front of those of its own priority *)
(* that are slower or unmeasured.                                          *)
Sooner(v, i, j) ==
    LET late == v.obs["latency"] IN
    /\ Priority[i] = Priority[j]
    /\ late[i] # Unknown
    /\ late[j] = Unknown \/ late[i] < late[j]

stableLatencySort(v, list) ==
    LET Sink(out, i) ==
            LET stop == CHOOSE k \in 0..Len(out) :
                    /\ k = 0 \/ ~Sooner(v, i, out[k])
                    /\ \A j \in (k + 1)..Len(out) : Sooner(v, i, out[j])
            IN InsertAt(out, stop + 1, i)
        sorted[k \in 0..Len(list)] == IF k = 0 THEN <<>> ELSE Sink(sorted[k - 1], list[k])
    IN sorted[Len(list)]

(* rankCandidates: the first of n members by priority weighs n, the next   *)
(* n - 1; with a latency provider equal priorities are sorted by it.       *)
rankCandidates(v, round, byLatency) ==
    LET sorted == SortedBy(Fast(v), NoKey)
        n == Len(sorted)
        order == smoothWeightedOrder([k \in 1..n |-> n + 1 - k], round)
        turn == IF n = 0 THEN <<>> ELSE [k \in 1..n |-> sorted[order[k]]]
    IN WithTails(v, IF byLatency THEN stableLatencySort(v, turn) ELSE turn)

-----------------------------------------------------------------------------
(* weights.go: the weighted sum of all dimensions.                         *)

(* What the candidates S are known to be in dimension d. *)
Seen(v, S, d) == {v.obs[d][i] : i \in S} \ {Unknown}

(* A dimension gives from 0 to Scale, one half to everybody if it tells    *)
(* nothing.  Scale is divided by every spread of small values.             *)
Scale == 12
ScoreSwapped(v, S, d, i) ==  \* mutant: the worst value takes the most
    LET seen == Seen(v, S, d)
        x == v.obs[d][i]
    IN IF seen = {} THEN Scale \div 2
       ELSE IF x = Unknown THEN Scale
       ELSE IF Max(seen) <= Min(seen) THEN Scale \div 2
       ELSE (Scale * (x - Min(seen))) \div (Max(seen) - Min(seen))
Score(v, S, d, i) ==
    LET seen == Seen(v, S, d)
        x == v.obs[d][i]
        gain == IF d \in LowerBetter THEN Max(seen) - x ELSE x - Min(seen)
    IN IF seen = {} THEN Scale \div 2
       ELSE IF x = Unknown THEN Scale
       ELSE IF Max(seen) <= Min(seen) THEN Scale \div 2
       ELSE (Scale * gain) \div (Max(seen) - Min(seen))

(* normalizedScore; its division by the total of the weights orders nothing. *)
normalizedScore(v, S, i) ==
    Total([d \in WeightDim |-> Weight[d] * Score(v, S, d, i)])

(* rankByWeighted: spent members are dropped or only score low. *)
rankByWeighted(v) ==
    LET parts == partitionCandidates(v)
        spent == {i \in Item : v.obs["monthly"][i] = 0}
        kept == Members(parts.eligible) \
                    (IF ExcludeSpent /\ Weight["monthly"] > 0 THEN spent ELSE {})
    IN IF kept = {} THEN <<>>
       ELSE SortedBy(kept, [i \in kept |-> <<-normalizedScore(v, kept, i)>>]) \o parts.cooling

-----------------------------------------------------------------------------
(* smart.go: tiers.                                                        *)

(* SmartTierTopCount, SmartDecisionMembers: the first half of the top      *)
(* members decides, tops[k] is how many members the k-th one flattens to.  *)
SmartDecisionMembers(tops) == Total(SubSeq(tops, 1, (Len(tops) + 1) \div 2))

(* smartTierItems: declared tiers, else the first decision members. *)
TierStrict(v, decision, complex) ==  \* mutant: no way back from an empty tier
    Only(v.items, {i \in Item : (v.tier[i] = "decision") = complex})
smartTierItems(v, decision, complex) ==
    LET declared == \E i \in Members(v.items) : v.tier[i] # "auto"
        named == Only(v.items, {i \in Item : (v.tier[i] = "decision") = complex})
        n == Len(v.items)
        cut == Min({n, IF decision <= 0 THEN (n + 1) \div 2 ELSE decision})
    IN IF declared THEN IF named = <<>> THEN v.items ELSE named
       ELSE IF complex THEN SubSeq(v.items, 1, cut)
       ELSE IF cut >= n THEN v.items
       ELSE SubSeq(v.items, cut + 1, n)

-----------------------------------------------------------------------------
(* allocate.go: shares by the requests a member can still pay for.         *)

(* estimateRemainingRequests, in whole requests: the monthly quota, or the *)
(* balance by the price of a call, or by the price of its tokens.          *)
estimateRemainingRequests(v, i) ==
    LET Positive(d) == v.obs[d][i] \notin {Unknown, 0}
        price == IF Positive("perCall") THEN v.obs["perCall"][i]
                 ELSE IF ~Positive("cost") THEN Unknown
                 ELSE v.obs["cost"][i] * (IF Positive("multiplier") THEN v.obs["multiplier"][i] ELSE 1)
    IN IF v.obs["monthly"][i] # Unknown THEN v.obs["monthly"][i]
       ELSE IF v.obs["balance"][i] \in {Unknown, 0} THEN v.obs["balance"][i]
       ELSE IF price = Unknown THEN Unknown
       ELSE v.obs["balance"][i] \div price

(* allocateSampleOf: a member that had its requests, or its tokens, of     *)
(* this minute.                                                            *)
Limited(v, i) ==
    \/ RpmLimit > 0 /\ OrElse(v.obs["requests"][i], 0) >= RpmLimit
    \/ TpmLimit > 0 /\ OrElse(v.obs["load"][i], 0) >= TpmLimit

(* Known not to pay for another request. *)
Spent(v, i) ==
    LET left == estimateRemainingRequests(v, i) IN left # Unknown /\ left < MinRequests

(* memberHealthFactor and memberSpeedFactor, in percent, the worse of both; *)
(* the speed factor is read as a whole.                                    *)
memberHealthFactor(v, i) ==
    LET late == OrElse(v.obs["latency"][i], 0)
        over == IF LateMs = 0 \/ late <= LateMs THEN 0
                ELSE Min({100, ((late - LateMs) * 100) \div LateMs})
        failing == FullRate - OrElse(v.obs["quality"][i], FullRate)
        penalty == IF v.obs["throttled"][i] # Unknown THEN 100 ELSE Max({over, failing})
    IN 100 - (HealthWeight * penalty) \div 100
Factor(v, i) == Min({memberHealthFactor(v, i), OrElse(v.obs["speed"][i], 100)})

(* math.Round of a / b. *)
Rounded(a, b) == (2 * a + b) \div (2 * b)

clampAtMost(weight) == Min({weight, MaxWeight})  \* mutant: no lower bound
clampAllocateWeight(weight) == Min({Max({weight, 1}), MaxWeight})

(* allocateWeights of the members S: the one with most requests weighs     *)
(* MaxWeight, an unknown one the median of the known (the upper of two).   *)
allocateWeights(v, S) ==
    LET left(i) == estimateRemainingRequests(v, i)
        known == {i \in S : left(i) # Unknown}
        most == IF known = {} THEN 0 ELSE Max({left(i) : i \in known})
        scaled(i) == IF most = 0 THEN 1
                     ELSE clampAllocateWeight(Rounded(left(i) * MaxWeight, most))
        upTo(x) == {i \in known : scaled(i) <= x}
        median == IF known = {} THEN 1
                  ELSE Min({x \in {scaled(i) : i \in known} :
                               2 * Cardinality(upTo(x)) > Cardinality(known)})
        weight(i) == IF i \in known THEN scaled(i) ELSE median
    IN [i \in S |-> clampAllocateWeight(Rounded(weight(i) * Factor(v, i), 100))]

(* allocatePlan: spent members are out; members at their limit step aside  *)
(* unless everybody is.                                                    *)
Counted(v) == {i \in Members(partitionCandidates(v).eligible) : ~Spent(v, i)}
allocatePlan(v) ==
    LET free == {i \in Counted(v) : ~Limited(v, i)}
    IN allocateWeights(v, IF free = {} THEN Counted(v) ELSE free)

(* orderAllocateSamples: the winner, the others by weight, the cooling. *)
orderAllocateSamples(weights, winner, cooling) ==
    <<winner>> \o SortedBy(DOMAIN weights \ {winner}, [i \in DOMAIN weights |-> <<-weights[i]>>]) \o cooling

(* allocateRank without advance: the heaviest, by priority, then in order. *)
Heaviest(v, weights) ==
    Head(SortedBy(DOMAIN weights, [i \in DOMAIN weights |-> <<-weights[i]>>]))
=============================================================================
