# A TLA+ model of OctoNexus

OctoNexus is a gateway between clients that speak the OpenAI or Anthropic
protocols and many upstream channels.  A client names a *group*; the gateway
chooses a *member* of it (a model on a channel with a key), forwards the
request, and tries again elsewhere when the member fails.  This directory
specifies the parts of it where several goroutines, a database and failures
meet: where a request goes, what is remembered of it, what it is counted for,
and what administrators change meanwhile.  TLC checks the specifications on
small instances, and TLAPS proves what matters most for every instance.

Run everything from this directory: `tlc -config X.cfg M`, `tlapm M.tla`.
`PROJECT.json` names every run, the lines each definition stands for, the
hazards the properties are for, and the finding.

## 1. Inventory

| Component | State | Operations | What is hard | What makes it correct | Modelled in |
|---|---|---|---|---|---|
| **Group routing state** `internal/relay/route.go`, `internal/op/route_cooldown.go` | per group: current member, probe slot, affinity, cooldown deadlines (under `routeMu`); rows of `route_cooldowns` | pick, success, failure with an optional Retry-After, release of the probe slot, clear by the background probe, reset, restore after a restart | every request of the group shares it and reports late; memory and rows are written at many places; statements may fail; the process may die | nobody is sent to a cooling member; one probe at a time; an affinity belongs to its member; a restart forgets no cooldown | `GroupRoute`, `CooldownGate` |
| **Forwarding loop** `relay/handler.go`, `relay/retry.go` | locals of each request: members of this round, attempts, run of failures, rejected members, time spent waiting | read group, pick, prepare, send, commit, report, give up | acts on what it read earlier while administrators, other requests and the background probe act; many exits | ends, unless its member cannot be prepared; serves only members it read; does not repeat a rejected try; leaves the shared state as it should | `RelayForward` |
| **Request registry** `relay/state.go`, `relay/stop_reason.go` | `requests`, `watchers`, the chain of attempts, rows of `relay_logs` | new, start/finish round, commit, succeed/fail/cancel, interrupt, clear, status streams | bounded history, chain and buffers; the log page interrupts a round of a running goroutine; slow readers | the chain is complete, live requests stay listed, an open page misses nothing, rows are final | `RequestRegistry` |
| **Hedged rounds** `relay/hedge.go` | contexts of the round, the race and each call; the channel of outcomes; timers | several upstream calls in one round, at once or after a delay; the first valid answer wins | losers that answer as well, calls that start after the race is over, contexts cancelled with the race | a round is lost only when all have failed; losers are cancelled; no goroutine is left; the winner's stream lives | `HedgeRace` |
| **Ranking** `relay/strategy.go`, `balance.go`, `weights.go`, `smart.go`, `allocate.go` | the counter of the round robin, the accumulators of the allocate mode | order the members by cost, quality, latency, load, quota, tier | values change between plan and step; unknown values; rounding; long runs; availability that is marked for some members only | no marked member is lost, shares follow weights, a dominated member comes later, nobody starves | `CandidateRanking`, `RoutePicks` |
| **Member observations** `relay/metrics.go`, `throttle.go`, `speed.go`, `allocmon.go` | windows and moving averages per member | record, read | only order the members | – | values that change at any time in `RoutePicks` |
| **Background probe** `relay/probe.go`, `op/route_probe.go` | none of its own | try cooling members, clear a cooldown | the answer comes later than the state it was based on | – | `GroupRoute`, `RelayForward` (its effect) |
| **Upstream calls** `relay/upstream.go`, `protocol.go`, `channel.go`, … | none | HTTP, SSE, conversion | I/O | – | the outcomes of a round |
| **Groups** `op/group.go`, `group_prune.go` | rows, `groupCache` | create, update, delete, automatic groups, pruning, flattening of nested groups | checks before the write; the cache is refilled group by group while requests read it | the nesting has no cycle; what is flattened is the tree; the cache follows the rows | `GroupTree`, `RelayForward` |
| **Channels** `op/channel.go`, `channel_key_state.go` | rows, caches that carry counters | edit, switch, delete, reload | a reload meets counters that are newer than their rows | counters go back in two edits only, deleted rows stay deleted | `StatsFlush`, `GroupTree` |
| **Statistics** `op/stats.go` | totals, day, hours, dirty sets | add, flush, roll over the day | flush against update, failed flush, flushes that overlap (nothing keeps them apart), midnight, crash | nothing is forgotten and finished days are complete, but where an older value is written over a newer one; rows go back only where flushes meet | `StatsFlush` |
| **Accounts and credential pools** `op/official_account.go`, `official_pool.go` | accounts, credentials, cached copies | authorise, callback, read usage, refresh, synchronise, switch by hand, delete | requests to the provider between reading and writing; late callbacks; failing writes | the operator's word outlives a synchronisation; what is served is what is stored | `CredentialPool` |
| **Proxy core** `internal/proxycore`, `op/proxy_node.go` | nodes and their ports, one child process | allocate ports, start, stop, supervise, wait until ready | ports taken by others, by the core itself and by an older core; a stop that gives up | no request leaves through another node's exit; a live core is in the manager's hand, or it tried to stop it | `ProxyCore` |
| **Key rate limits** `op/ratelimit.go`, `server/middleware/auth.go` | windows of a minute per key | admit, charge | tokens are charged afterwards; late readings of the clock | a window admits no more than its limit | `KeyUsage` |
| **Usage** `op/usage.go` | buckets by hour, rows | log, flush, prune, query | a flush that fails between its statements, flushes that overlap, the end of the process | no usage is lost on its way, but where flushes race for a row | `KeyUsage` |
| **Scheduled tasks** `internal/task/task.go` | one goroutine and channel per task | register, update, remove | update against a busy goroutine, overlapping runs | the last interval set is the one in force | not modelled, see 6 |
| **Logs, quota, alerts** `op/log.go`, `quota*.go`, `alert_rule.go` | rows | queries | – | – | rows of finished requests in `RequestRegistry`; reports are not modelled |
| **Collector, plugins** `internal/collector`, `plugin`, `pluginmarket` | child processes | run, install, supervise | external programs | – | not modelled, see 6 |
| **Clash configuration** `internal/clashcfg` | none | download, translate | – | – | not modelled: data without state |
| **Health, notify, price, update, secret** | – | HTTP, files, encryption | – | – | not modelled: I/O |
| **Server, authentication** `internal/server` | sessions | handlers | what a handler calls after the operation, or forgets to | – | handlers of groups, accounts and the proxy core |
| **Database, migrations, configuration** `internal/db`, `conf` | schema | run once | – | – | not modelled |
| **Web interface** `web` | – | – | – | – | not modelled |

How they interact: `Forward` runs once per client request in its own
goroutine, behind the middleware that admits it (`KeyUsage`).  It reads the
group from the caches (`GroupTree`), ranks its members (`RoutePicks`), calls
into `route.go` (all under `routeMu`, database statement included), registers
and reports in `state.go` (all under `mu`), and calls the upstream with no lock
held, in a race when the group asks for one (`HedgeRace`), through the exit of
a node when the channel is bound to one (`ProxyCore`).  Its end is counted
(`StatsFlush`, `KeyUsage`).  The background probe, the scheduled tasks and the
administration handlers change the same state from other goroutines; the log
page interrupts rounds and reads the registry over server-sent events.

## 2. Modules

```
CooldownGate      what the routing state promises          (abstract)
  ^ implements (proved in GroupRouteProofs, checked in forward_ends)
GroupRoute        the routing state, with the most general client
  ^ extended by
RelayForward      the forwarding loop over it, administrators, the process
RequestRegistry   the registry of requests, log page, rows
HedgeRace         one round that races several calls
CandidateRanking  the rankings, as operators over what a request sees
  ^ extended by
RoutePicks        pick after pick: modes, round robin, allocate mode
GroupTree         nested groups, their rows and their cache
StatsFlush        counters, days and their flushes
KeyUsage          limits and hourly usage of an API key
CredentialPool    accounts and the credentials made of them
ProxyCore         ports of nodes and the core that serves them

MC*               constants for TLC
GroupRouteProofs (with RelayForward), RequestProofs (RequestRegistry and
HedgeRace), RoutePicksProofs (with CandidateRanking), GroupTreeProofs,
StatsFlushProofs, KeyUsageProofs, CredentialPoolProofs, ProxyCoreProofs
                  theorems (TLAPS)
```

`PROJECT.json` maps each definition to its lines; this section says how the
state and the steps correspond, and what each module abstracts from.

**GroupRoute.**  `route` is the entry of `routes` (`exists` is FALSE for a nil
pointer), `saved` the group's rows, `now` the clock.  `flight` and `probers`
are what the callers hold in local variables: the member a round was given and
whether the pick took the probe slot.  `unsaved` is history: the members whose
last statement was lost.  Every function of `route.go` is one action, since it
runs under `routeMu` from end to end: `PickGroupItem` is `groupRouteLocked` (an
entry of a member not in the list is dropped, its row deleted), the affinity
shortcut, the scan and the fallback; `RecordRouteSuccess`,
`RecordRouteFailure`, `ReleaseRouteProbe`, `ResetRouteState`, `Restart`.
The member list a pick gets is any member of `Views`, so the routing modes,
which only differ in how they order the list, are all covered except `manual`;
which order each mode makes is `RoutePicks`.  Requests report any outcome: what
is proved of `GroupRoute` holds whatever the forwarding loop does.

**CooldownGate** knows deadlines and who is being served, nothing else.
`until[i]` is refined by the cooldown while it runs and 0 afterwards.  Its
`Start` needs `until[i] = 0`; its `Outage` loses the requests and no cooldown.

**RelayForward** gives each request the places of the `for` loop in `Forward`
(`read`, `pick`, `picked`, `sending`, `responding`) and its local variables.
Each step takes the `GroupRoute` action of the function it calls, so that a
round that fails in the model changes the shared state exactly as in the code.
A member of `Unusable` may fail to be prepared: `GroupGetByName` has taken the
group's own switched off members out before the pick, but a member of a nested
group may have a disabled credential, and a grant may be incomplete
(`handler.go:301-309`).  The round is then given up without a count or a report,
after the timer of the waiting cap was reset, and whether the next attempt at
the same member succeeds is open.
The outcomes of a round follow the code's order: the client left, an
interruption, the budget (`attemptCap`, before any classification), a request
fault (fail fast, or rejected by this member), a failure of the member with or
without a hint.  Administrators switch channels off and on (`ToggleMember`),
and delete the group in the two steps `deleteGroup` takes (the caches first,
the routing state later).  `Crash` is a restart.  A request that finds no
member waits, up to the cap of `memberUnavailableWaitedEnough`; `WaitCap`
counts those waits instead of 60 seconds.  A list is a set of members in the
order of `sortGroupItems` (`Ordered`).  A round is one call here; a round
that races is `HedgeRace`.

**RequestRegistry** splits a `RequestState` into what is published (`state`)
and what is not (`cancel`, `fault`), because a status stream carries copies.
`place` says where `Forward` is between its calls.  `Interrupt` is two
actions: it takes the cancel function under `mu` and calls it after the
unlock.  `killed` holds the requests whose round's context was ended that way
while it is still in use.  `FinishLocked` is the tail of the three terminal
operations: archive the last round, write the row, publish, evict.  Usage,
cost and recorded bodies are left out, and so are three fields that the code
changes without publishing (`setDecision`, `retargetRound` and
`noteEffectiveEffort`, `state.go:208-280`): "the current state" a page has is
that of the modelled fields.

**HedgeRace** is one call of `runRoundWithHedge` with its goroutines.  `config`
and `plan` are chosen in `Init` from what `hedgeSettingsOf` and the caller in
`handler.go` can make of any stored settings.  `call[m]` is the goroutine of a
member, `outcome[m]` what it will put on the channel, `results` the channel
with its capacity, `delay` the timer that starts the rivals, `collector` the
loop that receives, `round`, `race` and `stream` the contexts.  Timers have no
clock: the delay, the limit of a call and the 200 ms that the winner waits for
leftovers may end at any time, so every order of answers, expiries and
cancellations is a behaviour.  The ranking of the rivals is a constant.

**CandidateRanking** has no variables: a view is what one request reads of its
group, and each function of `strategy.go`, `balance.go`, `weights.go`,
`smart.go` and `allocate.go` is an operator from a view to a list.
Money, latencies and rates are small integers; scores that the code keeps in
floats are percentages or are scaled so that they stay whole; quotas are counted
in whole requests, and the factor of a member's speed is read as a whole.
A view says which members belong to nested groups (`nested`) and which of these
are switched off (`off`).  `Available` is the code's `item.Available`:
`groupSnapshot` marks the members of the group itself, `GroupGetByName` drops
those it has not marked, and `flatten` takes the members of nested groups from
the cache, where nobody has.  So every member but the nested ones is marked, and
the rankings, which start with `partitionCandidates`, never see a nested one; a
failover list that is used as it is does.

**RoutePicks** dispatches by the group's mode.  For most modes the state is the
view and `round`, the counter of `balanceRound` modulo a common period.  In the
allocate mode a pick is three steps, as in the code: the weights are planned
without the lock (`plan`), the accumulators (`current`) are advanced under it,
and those of members that were not in the plan are pruned.  Between the steps
other requests plan and step, members are learnt of, cool and recover, and a
reset takes the whole map away; `dropped` is the map a request still holds
(one at a time).  A request reads its observations in one step.  A pick of a smart group looks in the tier first (`InTier`) and in the
whole group, one round of the round robin later, if the tier has nobody
(`FallsBack`); without the round robin a member that is switched off counts as
somebody, as in `pickGroupItem`.  Views of
other modes are enumerated in `Init`, because nothing of them survives a pick.
Affinity and the probe slot are `GroupRoute`'s.

**GroupTree.**  `rows` and `cache` map a group to the list of its items; a
group stands for its id and name, an item for what it refers to.  A request of
the panel is a record in `edit` with its place: `GroupCreate`, `GroupUpdate`
and `GroupDel` check against the rows, write them in one transaction and go on
to the reload, which reads the rows (`copy`) and puts them into the cache group
by group, while requests flatten it.  The groups and their items are two
queries (`Find` with `Preload`, `group.go:500-502`), read in one step here.  `AutoGroup` gives the group that is made
and pruned with a grant.  A restart loads the cache again.  Ids are never used
twice (they are auto-incremented), and a creation whose name was given to
another group since it was checked is refused (`gorm:"unique"`).  `Flatten` follows `flattenIntoWithTier`;
the property compares it with a search level by level.

**StatsFlush.**  `cached`, `stored` and `dirty` are the counters in memory, in
their rows, and the sets `…NeedUpdate`; `total`, `daily` and `days` the grand
total, `statsDailyCache` and the daily rows.  A flush is a process with a
place: it takes the snapshots, takes the dirty ids, and then reads each counter
(`held`) and writes it in separate steps, each of which may fail; a failure
puts the marks back.  There are as many flushes as `Task` (runs of the scheduled
task, which starts each as a goroutine, `task.go:104`, and the shutdown) and
`Rollover` (requests that find a new day) have members, and any of them may
begin while others are under way.  `alone` is history: such a flush has met no
other.  So are `overwritten`, `lost` and `shrunk`, which name what a meeting, a
failed flush of a new day or an edit has done, so that the properties can say
what is true of everything else.  An administrator's edit is between database
and cache (`edit`): the update that carries the counters over, the deletions,
the switch of a channel, whose copy is put back (`ChannelEnabled`, `PutBack`),
and the reload of all rows (`ReadRows`, `PutRows`).  One edit is under way at a
time, and the clearing and filling of the caches (`channel.go:426-442`) is one
step.  The date is read under the lock of the day; the code reads it just
before (`stats.go:224`).  Hours are not modelled.

**CredentialPool.**  Rows of accounts and credentials, the cached credentials
(`served`), the unused states of authorisations (`ticket`), the provider's last
token (`issued`), and per request of the panel a `job` with what it has read.
Each read of rows, each request to the provider and each write is a step, with
failures.  `word` is history: what the operator last said of a credential.
Accounts have names of their own, so an account whose usage failed once never
comes back (the code's unique name forbids it, see the hazard at
`official_account.go:364`).  Accounts and keys are read in one step.  A reload of
the cache that fails (`official_pool.go:179`) is not a step of its own: it
leaves what a failing write before it leaves.

**ProxyCore.**  `row` is the node's row with its port; `core` the processes
started so far with their listeners and the configuration they read; `handle`
is `manager.cmd`, `mutex` is `manager.mu`.  `occupied` are ports other programs
listen on.  Allocation writes node after node from rows it has read before; a
core takes its ports once, at its start, and may miss some; it may die at any
time, and the goroutine that waits for it clears the handle only if it is its
own.  `StopLocked` is `stopLocked`: the core ends within the five seconds, or it
does not, since nobody looks at what the kill answered, and the handle is cleared
all the same; `abandoned` is history, the live cores a stop has given up on.  A
restart of the program leaves the core behind.

**KeyUsage** has two halves that meet at the end of a request.  A window is kept
by the age of its stamps; every operation works with a reading of the clock
that is up to `MaxStall` ticks late, because the code reads it before it takes
the lock.  The flush of the hourly usage takes the buckets, merges the stored
rows into them row by row and writes; each statement may fail.  Two flushes may
be under way (`UsageSaveDB` excludes none), and `raced` is history: the rows one
has written that another had read and was still to write.  The end of the
process drops buckets and windows, also at an orderly shutdown, because
`SaveCache` saves the statistics only (`cache.go:43`).  Since a key without limits
never has its windows read, and one with limits leaves its usage in the same
way, a run has one half at work: `limit` is chosen in `Init`.

Left out on purpose everywhere: wording and layout of logs, bodies, costs in
money, explanations for the panel, the stream of routing states (same mechanism
as the registry's), `manual` mode, IDs of several groups (groups share nothing
but `routeMu`).

## 3. Runs

| Run | Bounds | What it shows |
|---|---|---|
| `group_route` | 2 members, 2 requests, every ranking of every part of the list, threshold 2, affinity 2 and cooldown 1 ticks, hint 0 or 2, time to 4, statements may fail | `RouteTypeOK`, `CurrentNotCooling`, `ProbeSlotExpired`, `AffinityWellFounded`, `DurableCooldowns`, `AffinityNotInherited` |
| `forward_failover` | 2 members, one of which may not be prepared, 2 requests, budget 3 or 4, one interruption, background probe, crashes | `NeverResentToRejecter` |
| `forward_ends` | the same with fail fast, one switch of a channel, deletion; fair | `EveryRequestEnds`, and `CooldownsRespected`: the gate is implemented by the system with its real client |
| `registry` | 3 requests (one streams, one tries twice), one page with a buffer of 1, one administrator, history and chain of 1 | `EveryAttemptOnChain`, `BusyIsExact`, `PagesMissNothing`, `RowsAreFinal` |
| `hedge` | 4 members, every trigger, races of up to 3; fair | `LostOnlyWhenAllFailed`, `LosersAreCanceled`, `EveryRaceEnds` |
| `stats` | four starts: a channel counting 2 and an API key counting 1 with one flush; either of them alone with a new day whose flush meets the scheduled one; no counters, 3 days, 3 requests and three flushes; every edit, one restart; fair | `NothingForgotten`, `EveryDayIsKept`, `RowsGoBackInMeetings`, `CountersNeverGoBack`, `DeletedStaysDeleted`, `SavedInTheEnd` |
| `pool` | 2 accounts, 2 tokens each, one request of the panel at a time, one restart | `OperatorsWordHolds`, `ServedAsStored`, `SyncConverges` |
| `proxy_core` | 2 nodes, 2 ports, 2 cores, one port taken by others at a time, one request of the panel at a time, one restart of the program | `NeverAnotherExit`, `NoCoreLost` |
| `group_tree` | 4 groups (two automatic), 2 grants of a channel, lists of up to 2 items, depth 2 | `NoCycle`, `FlattenIsTheTree`, `CacheFollowsRows` |
| `ranking` | 3 members, nested or not, switched off or not; all views of up to 2 values a dimension for each mode; allocate mode with 2 requests and 2 keys, weights to 3 | `RankingsAreComplete`, `RoundsFollowWeights`, `TiersNeverStrand`, `DominatedComesLater`, `AccumulatorsBounded`, `NobodyStarves` |
| `key_usage` | 2 clients, minute of 3 ticks, readings 1 late, limits of 2 requests and 3 tokens; or no limits, 2 hours, 3 logged requests, two flushes that overlap, one failing statement; one restart; fair | `RateKept`, `OverrunBounded`, `UsageKept`, `NeverLockedOut` |
| `hedged_stream` | a race of two, violated | `WinnerStreamLives`, see *Findings* |

*Why the bounds are enough.*  In the routing runs two members are enough for a
switch, a probe of one beside the traffic of the other, and a list without one
of them; two requests for one that reports late on what the other changed; four
ticks to cool, expire, probe, fail again and start an affinity.  In the
registry each limit (16 updates, 50 finished requests, 32 rounds) is 1, so that
it is reached and passed; nothing in the code depends on the number.  A race of
three has a primary, a rival that answers and one that does not; a fourth
member shows that the width is kept.  In `stats` a counter that
counts twice tells a flush that wrote an older value from one that wrote the
last; two flushes are enough for one to write between the reading and the
writing of another, and three days for a flush of a new day that meets the next
one.  Its starts keep the parts that do not touch one another apart, and with
them the number of states: the counters of a flush, the meeting of two, the days.
Every flush may fail at any statement, in all of them.  Two accounts tell a synchronisation that stops in the middle;
two nodes on two ports are enough for a core that listens where the row of
another node points, and the second core is the one that is started beside an
abandoned or left one.  Four groups
with depth 2 have a chain of three below another group, which is refused, and a
cycle through two.  Three members show a dominated one between two others and
every order of the round robin.  `key_usage` reaches both limits within a
minute and a minute's edge with a late reading; without limits three logged
requests reach a row, a bucket and a flush in hand at once, or two flushes that
have read the same row.  All counters of the models are
bounded in guards by constants named in the modules.  The theorems of section 5
lift the invariants named there to instances of any size.

*One request of the panel at a time* (`Operator` has one member) in `pool`,
`group_tree` and `proxy_core`: with two, some of the statements are false; the
notes under *Refuted statements* say which.

*Deadlock.*  Runs of `RelayForward`, `RequestRegistry`, `HedgeRace`,
`CredentialPool` and `ProxyCore` set `CHECK_DEADLOCK FALSE`: a finite set of
requests, the calls of a race, a bounded number of tokens or cores come to
their end.  The others are checked with it.

*Symmetry.*  Requests are interchangeable where nothing else distinguishes
them; it is not used in the runs with liveness, nor where members are ordered
by number.

*Fairness.*  `FairForwardSpec`: only `Proceed(r)`, the goroutine of a request,
keeps running; a timer fires, and an upstream call ends by its answer, an error
or the round's timeout.  `FairHedgeSpec`: each goroutine of a race runs on, its
timers fire, a call returns at the latest at its limit, and the client's
handler takes what the stream brings.  `FairStatsSpec`: the task begins flush
after flush, and a flush, or an edit of the administrator, that has begun goes
on; a write may fail every time, and `SavedInTheEnd` says that once requests
stop and flushes no longer fail everything is saved, but for counters whose row
an older value was written over.  `KeySpec`: time passes, a request
that was let in ends, and clients that were refused try again.  `PicksSpec`
states none: `NobodyStarves` is an implication, from requests that keep coming
and resets that come to an end.  Nothing is assumed of administrators, the
background probe, the date, or which of its possible outcomes a step has.

### Findings

The run checks what a comment of the code says, and TLC shows how the code comes
to do otherwise.

* `hedged_stream` – the winner of a race reads its stream under a context that
  is a child of `raceCtx` (`hedge.go:291`), and the win cancels `raceCtx`.  The
  stream of the client is cut although nobody has ended its round.

## 4. Refuted statements

These statements of documents, comments or plain expectation are definitions of
the modules, with their source in the comment, and TLC refutes them; they are
in no run, so that the runs are spent on what holds.

* `RelayForward`.`UnusableMemberCools` (`tlc -config UnusableMember.cfg
  MCRelayForward`) – a member that cannot be prepared is neither reported nor
  counted and is picked again, and each pick resets the cap on waiting
  (`handler.go:299-309`); `route.go:153` says that it cools and is skipped.
  Switched off members of the group itself do not come this far
  (`group.go:68`); members of nested groups and incomplete grants do.
* `RoutePicks`.`TierFallsBack` (`tlc -config TierSwitchedOff.cfg MCRoutePicks`) –
  without the round robin a tier whose members are switched off does not fall
  back to the whole group (`route.go:178-203`), against `smart.go:195`.
* `RoutePicks`.`OnlySwitchedOffDropped` (`tlc -config NestedDropped.cfg
  MCRoutePicks`) – members of nested groups that are switched on are dropped from
  every ranking, because `Available` is never set for them (`balance.go:84`,
  `group.go:574`), against `balance.go:20`.
* `StatsFlush`.`ReloadsKeepCounters` (`tlc -config StatsReload.cfg
  MCStatsFlush`) – the reload of all rows, after a switched credential or a
  synchronised pool, puts the counters of the rows over newer ones
  (`channel.go:438`), which the comment at `channel.go:475` forbids and the
  reload of one channel avoids.
* `ProxyCore`.`OneCore` (`tlc -config TwoCores.cfg ProxyCore`) – a stop that gives
  up after five seconds clears the handle (`manager.go:359-368`), and the next
  start runs a second core; `manager.go:69` says there is one.
* `KeyUsage`.`UsageExact` (`tlc -config UsageExact.cfg MCKeyUsage`) – the merge adds
  the stored row to the rows it is given; a flush that fails after it puts the
  sums back into the buckets, and the stored part is counted twice
  (`usage.go:63-78`), against `usage.go:106`.
* `RelayForward`.`ProbeSlotHeld` – the exits of a failed round for the budget,
  for fail fast and for a rejected request neither report nor release: a
  probing request that leaves there keeps `ProbeItemID` (`handler.go:458-486`).
* `RelayForward`.`OneProbeAtATime` – the slot is identified by member, not by
  request: a late result on the probed member frees it while the probe is under
  way (`route.go:228`, `317`, `355`).
* `RelayForward`.`PickKeepsCooldowns` – `pickGroupItem` gets the list without
  the members that rejected this request and takes them for deleted: their
  cooldowns, rows and probe slot go for all requests (`handler.go:244`,
  `route.go:376`).
* `RequestRegistry`.`InterruptsWaitingOnly` – an interruption that loses the
  race against the first event cuts off a stream that is already being
  forwarded (`state.go:365`).
* `GroupTree`.`DisabledIsNotOffered` (`tlc -config NestedDisabled.cfg
  MCGroupTree`) – availability is judged for the members of the group that was
  asked for, not for those of nested groups (`group.go:564`, against `:57`).
* `RoutePicks`.`SlowComesLast` (`tlc -config SlowMembers.cfg MCRoutePicks`) –
  `model/setting.go:43` and `balance.go:27` promise it for every mode; a
  failover group without balancing uses its list as it is.
* `RoutePicks`.`RivalsInOrderOfMode` – weighted groups, and failover groups
  without balancing, rank the rivals of a race differently from their picks
  (`hedge.go:188`).
* `ProxyCore`.`ExitsKeepWorking` – allocating ports while the core runs moves
  every enabled node off the port its core serves, because `portFree` tries to
  listen on it (`manager.go:180`, against the comment at `:157`).
* `CredentialPool`.`DeletedAccountsAreNotServed` – the credential of a deleted
  account stays in the cache, the comment at `official_account.go:412` leaves
  the reload to a caller that does none.
* With two requests of the panel at once: `ProxyCore`.`PortsDiffer` and
  `NeverAnotherExit` (two allocations pick the same port from rows read
  before), `CredentialPool`.`OperatorsWordHolds` (a synchronisation works on
  rows it read before the operator's switch), `GroupTree`.`CacheFollowsRows` (an
  update puts a group back into the cache that was deleted after its
  transaction, `group.go:293`).

Defined and true in the instances of the runs, but in none of them because a
deeper property took the place: the type invariants of the other modules,
`RelayForward`.`ServedFromView`, `RequestRegistry`.`LiveIsListed` and
`GroupTree`.`UsableMembersAreOffered` (all three proved).

Seen on the way, and stated nowhere: a plain failure shortens a hinted cooldown
of another request (`route.go:316`); a pick after the deletion of a group makes
its routing state and a row again (`route.go:366`); a request whose group
disappears waits until its client leaves (`handler.go:225`); the background
probe clears a cooldown that is newer than its question (`probe.go:110`); the
upper clamp of 64 attempts is less than one scan of a large group
(`retry.go:128`); a request that ran longer than the whole history may be
evicted the moment it ends (`state.go:618`); the second valid answer of a race
is dropped with its stream open (`hedge.go:354`), a primary that wins before
the delay waits 200 ms for rivals that were never started (`:356`), and a
probing primary that loses a race is not reported (`handler.go:403`); rivals are
ranked from all members, the rejecting ones included (`handler.go:344`); the
flush of a new day that fails loses the rest of the day (`stats.go:238`), and one
that meets an older snapshot of it may lose part; a request that waits for the
lock of the day past midnight takes the new day for an old one (`stats.go:224`);
hours of yesterday are never written after midnight (`stats.go:134`), and a request
that ends after its API key was deleted makes the row again (`stats.go:316`);
one failed reading of the usage puts an account out of service for good
(`official_account.go:364`); ports are allocated before those of disabled nodes
are released, so that a full range fails every start (`manager.go:274`); two
flushes of the usage at once lose what the earlier one added (`usage.go:69`, the
rows `raced` in `KeyUsage`), a shutdown drops the buckets (`cache.go:43`), and a query during a flush sees neither bucket nor row (`usage.go:134`);
`model/log.go:59` says the chain keeps the *first* rounds, the code and every
other comment the last ones; `state.go:320` says an interrupted round stays
`Sending`, but `finishRound` resets it (`BusyIsExact`).

## 5. Proofs

All theorems hold for every value of the constants that the named assumptions
(`RouteAssumption`, `HedgeAssumption`, …) admit.  Each proof module takes one
inductive invariant through all actions, then draws the properties from it.

*GroupRouteProofs.*  None of the four safety properties is inductive alone.
The current member has no cooldown only because a pick switches to members
without one and a success ends the cooldown of the member it switches to;
the rows equal memory only because `recordRouteSuccess`, which deletes the
probed member's cooldown from memory and not its row, does so when it has
expired (`ProbeSlotExpired`), and that in turn because a failure that renews
the cooldown of the probed member clears the slot.  `IInv` is their conjunction
with the type invariant.  The lemmas go over `Sound(rt, t)`, what `IInv` says of
one entry: `PrunedSound`, `PickRouteSound`, `SwitchSound`, `RecoveredSound` and
`SettledSound` say that each part of an operation keeps an entry sound,
`WriteRows` what the statements do to the rows.  The theorems are
`RouteInvariant` and its parts, database faults included, and the action
property `AffinityStays`.

The second half is the refinement, `TableImplementsGate`: without database
faults the routing state implements `CooldownGate`.  Each action is mapped to one of the gate or
to a stutter; the invariant is needed for picks (the affinity shortcut and the
fallback hand out the current member unseen) and for the restart (the rows are
what memory held, `NothingLost`).  With faults the statement is false: a
cooldown whose row was lost is forgiven by a restart.

The third part is about the system, `RelayForward`.  Every step of a request, of
an administrator, of the probe and of a crash is a step of `GroupRoute` or leaves
it alone (`LoopUsesTheTable`), so that every theorem above carries over;
`ClientsRespectCooldowns` is the refinement with the real client.  A pick is one
that `GroupRoute` allows only because the list it is handed is one of `Views`
(`OrderedIs`, `CandidatesAre`), which needs the locals of the request typed.
`LoopInv` is that, together with `Founded` (the member a request is with is one
it read, and one that rejected it only when the whole list did) and, for a group
whose members stay, `Steady` (a request that goes on has a member that has not
rejected it).  From it follow `ServedByWhatWasRead` and
`RejectersAreLeftAlone`.  The latter assumes `MaxToggles = 0`, as the run
`forward_failover` does: when the list shrinks to members that rejected the
request, `dropRejectedMembers` hands it back whole, and `Founded` is all that is
left.

*RequestProofs*, the registry.  `RegistryInv`: for every request, types; what its
place says of its status, of its round and of its `Sending` flag (`InPlace`);
the row (`RowIsFinal`); and `Holds`, the chain has the newest of the finished
rounds in order.  `Holds` needs the place, because the round of a live request
is not on the chain yet and that of a finished one is.  Theorems:
`ChainsAreComplete`, `BusyCountsAreExact`, `RowsStayFinal`.  `PagesAreComplete`
needs its own step for each way an update reaches a page (shown at once, queued,
the page cut off because its buffer is full, received), `HistoryIsBounded` the
counting of finished requests: one is added by `FinishLocked` and the oldest is
dropped when there are more than the limit.

*RequestProofs*, the race.  `RaceInv`: shape; where each call can be in each phase of
the collector; which contexts are alive; the collector's counter is the number
of outcomes it has taken; a verdict is one of a call.  That a lost round has
heard of *every* call is the counting argument: the outcomes taken are as many
as the calls counted, so none is missing (`LostRoundsFailedEverywhere`).
`WinnerCancelsLosers` needs that a call that starts after the win starts under
a cancelled context.  Any number of members, any ranking.

*RoutePicksProofs*, for any number of members and any weights.
`AccumulatorsStayBounded` is the one that needs an invariant of its own.  A step
of the allocate mode adds the weights of whoever is planned with and takes their
sum from the winner, so an accumulator falls by as much as the *others* were
given; what it can fall to is not a matter of one accumulator.  `Balanced`
bounds the sum over every set of `k` members by `Cap(k) = k (2 n - 1 - k) W`, a
parabola: a set that has the winner loses what the others gain, and one that has
not gains at most `k W` while each of its members is at most the winner
(`StepBalanced`, `CutBalanced` for accumulators that are dropped).  With
`k = 1` that is `2 (n - 1) W`.  The bound first stated here was `n W`; it holds
in the instance of the run, where the weights follow from few observations, and
the proof showed that it is false in general: three members that come and go with
weights up to 3 reach 11, because a member that goes takes its share along.

The others are about what one request computes from a view the invariant allows
(`StandingThroughout`).  `PeriodsFollowWeights`: after `s` rounds a member stands
at `s` times its weight less the total for each round it won, nobody is as low
as minus the total, so after a period everybody is at zero; `TurnsFollowWeights`
carries that to the lists of `rankCandidates`.  `RankingsStayComplete` shows
once that a sorted list, its slow tail and its cooling tail arrange the members
that are marked available (`Arranges`, `TailsArranged`, `RankedWhole`), and then mode by mode that
the code's key sorts (`SortKeys`, `WeightedWhole`) and that the allocate mode drops only what `Broke` names.
`TiersLeaveSomebody` is about the pick of a smart group: a tier is part of the
group (`TierArranged`), what a pick finds is the first that does not cool
(`FirstOfFound`), and if the tier has none the whole group is asked; it promises
a marked member only with the round robin, where the ranking drops the others.
`DominatedStaysBehind` is that `normalizedScore` is monotone in spite of its
integer division and of the half for dimensions that tell nothing.

*StatsFlushProofs*, for any number of flushes that meet and fail as they like.
`CountersAreNotForgotten`: `Marks` adds to the property that what a flush has to
do is among the ids it took, which a failure marks again, and that the copy an
edit will put back is no newer than the counter.  A counter that another flush
overtakes loses its claim in two ways only: an older value is written over the
row (`overwritten`), or the cache itself goes back.  `RowsGoBackOnlyInMeetings`
has three invariants about a flush that is `alone`: what it holds of a counter
(`Rows`), of the total (`Totals`) and of a day (`DaysInv`) is no less than the
row has; `Apart` says that the others are idle then.  `DaysAreKept` is from
`DaysInv`: the flush that a new day made holds all that was counted on the old
one until it has written it, and a row that goes back afterwards is in `lost`.
`CountersOnlyGrow` and `DeletedIsFinal` come from `Edits`, what an edit under way
knows of the rows.

*KeyUsageProofs.*  `UsageIsKept`, for any number of flushes that overlap: what was
logged is in the bucket, in the hands of the flushes, or in the row; after a
failed statement it may be there twice, never less than once.  A merged row
contains the stored one, so that what a flush has in hand is the difference;
that is a claim on the row only while no other flush has read it too (`raced`).
A restart takes what was not in the table out of the count: `UsageKept` is
about what a running process loses.  `RateIsKept` and
`OverrunIsBounded` are sums over a minute of ages.  `RateInv` relates the window
the code keeps to the history of what passed: a stamp that has been cut was
older than a minute for the latest reading, so the window has at least what any
minute, less the stall, counts.  `TokenInv` adds what is still owed: what was
charged to a minute, and the largest request for every client that is inside,
stay below the limit and one such request per client.  Both hold for any number
of clients and any limits.

*CredentialPoolProofs.*  `PoolTypes` needs nothing.  The others name the
requests that must not meet, since a synchronisation works with rows that it
read at its start (see *Refuted statements*): `OperatorsWordIsKept` for any
number of requests while the operator leaves the switches alone during a
synchronisation; `CredentialsServedAsStored` and `SynchronisationConverges`
while requests come one after the other.  The invariant of the last says what a
synchronisation has already settled, account by account, and that what it still
has in hand (rows, a fresh token) is what is stored.  The hypotheses are action
formulas, so that they restrict nothing else; the one request at a time of the
run satisfies them.

*GroupTreeProofs.*  `NoGroupBelowItself`, for any number of requests of the
panel.  A cycle is a set of groups each of which has a subgroup in the set;
`Grounded` says there is none, and is kept: rows that lose references keep it, a
list that `validateChildGroupRefs` admits keeps it because the groups below it
are a closed set without the group (`ValidIsClosed`: the search that goes no
deeper than `MaxDepth` has found them all), and a group whose creation was
checked *before* it is written keeps it because nothing can refer to it yet
(`NoStrays`, `NewStandsApart`).  `WayBack` follows a cycle that `Below` finds
back to such a set.  `ClientsSeeTheRows`, with one request at a time: `Abreast`
says how far the cache is behind at each place of a request.

`FlattenedIsWhole` and `UsableStayOffered` need only that the cached table is
one (`TreeShape`): they hold for any table, torn, dangling or cyclic, and so for
any number of requests of the panel.  The walk is sound because what it finds
at one depth is found one step below (`SoundStep`, from the deepest depth up).
It is complete although it turns back at groups it is inside of: `Nearest` says
that a group is `m` steps below the one the walk is at and further below every
other group of its path, which a child on a shortest way keeps with `m - 1`
(`NearestNext`), so the walk down a shortest way is never turned back.  An item
left out of the list of a request leads to nothing usable, because what the walk
finds below it with a longer path and less depth left is in the tree below it,
and the check of availability finds all of that.

*ProxyCoreProofs.*  `CoresAreInHand`, for any number of requests of the panel and
stops that give up: a start has cleared the handle under the lock it still holds, and the goroutine that waits for an older
core finds a handle that is not its own.  `EveryNodeItsOwnExit`, with one
request at a time: no two rows share a port, what is read for allocation is
still true of the rows, and a core of this run that listens on the port of a
row, disabled or not, sends it to that row's node.

*Induction.*  Sums over a set, levels below a group, lists without some items,
the rounds of the round robin and the walk through nested groups are recursive
functions; of the library's operators with an operator argument only the sum of
a set is used where something is proved, as a function of its own (`SumOver`).
That such a function exists is `Recursion`, where the library has
no theorem for it.  What is said of one for every argument is proved from a
minimal counterexample: `NatLessThanWellFounded` and
`FS_StrictSubsetOrderingWellFounded` give the least number (`Least`) or the
smallest set (`Smallest`) for which it is false, and the definition leads to a
smaller one; `Along` is the form for a range of numbers.

*Only model-checked*:

* liveness under fairness (`EveryRequestEnds`, `EveryRaceEnds`, `SavedInTheEnd`,
  `NobodyStarves`, `NeverLockedOut`), out of the prover's reach;
* the bounds in `StatsTypeOK` (its shapes are `FlushShapes`), the finding and the
  refuted statements.

Every other property of a passing run is stated by a theorem, some under
hypotheses about the instance that the theorem names.

## 6. Not modelled, and the plan

* **Scheduled tasks**: registration, a new interval and removal against the
  goroutine of a task (TaskRunner), next in the plan; the overlap of two runs of
  one task is in the models of what they run (`StatsFlush`, `KeyUsage`).
* **Collector, plugins**: start, supervision and stop of a child process
  (PluginRuntime), after it; `ProxyCore` has the same shape.
* **Upstream calls, protocols, balance pages, Clash configurations,
  notifications, prices, updates**: I/O and conversions of data; nothing of it
  is state of more than one step.
* **Reports** (`analytics.go`, `usage_report.go`, quota scans) and the CRUD of
  the panel that only reads or writes one row.
* **Member observations**: the windows and averages that produce what the
  rankings read.

Further: `RelayForward` with `manual` mode and with rounds that are races
(HedgeRace composed with GroupRoute: the probe slot of a primary that loses);
queries during a flush; edits of the panel that meet one another around the
counters.
