------------------------------ MODULE KeyUsage ------------------------------
(* What an API key may use and what it has used: the limits of requests    *)
(* and tokens by the minute (op/ratelimit.go, checked and charged in       *)
(* server/middleware/auth.go), the end of a request (finishLocked), and    *)
(* the usage by the hour with its way into the database (op/usage.go).     *)
(* The usage is written by flushes that may fail, that nothing keeps from  *)
(* meeting, and that the end of the process does not wait for.             *)
(*                                                                         *)
(* One key; time is in ticks, Span of them a minute.  A window is kept by  *)
(* the age of its stamps: what counts of the stamps of one age is their    *)
(* sum.  Every operation reads the clock before it takes the lock, so its  *)
(* reading is up to MaxStall ticks late when it works with it.             *)
(*                                                                         *)
(* Limits and usage meet in the end of a request only.  A key with a limit *)
(* is therefore modelled without the usage it leaves, and one without      *)
(* limits without its windows, which nobody reads.                         *)
EXTENDS Integers, FiniteSets, FiniteSetsExt

CONSTANTS
    Client,      \* each sends one request at a time
    Span,        \* rateWindowSpan
    MaxStall,    \* how late a reading of the clock may be
    Limits,      \* the limits a key may have, rpm and tpm, 0 is none
    Tokens,      \* the tokens a request may turn out to take
    Target,      \* pairs of model and channel
    Flush,       \* the runs of UsageSaveDB that may be under way
    Retention,   \* UsageHourlyRetentionDays, in hours
    MaxHour,     \* bound on the hours that begin
    MaxLogged,   \* bound on the requests that reach a target
    MaxFaults,   \* bound on failing database statements
    MaxBoot      \* bound on restarts

ASSUME KeyUsageAssumption ==
    /\ IsFiniteSet(Client) /\ IsFiniteSet(Target) /\ IsFiniteSet(Flush)
    /\ Span \in Nat \ {0}
    /\ MaxStall \in 0..(Span - 1)
    /\ Limits \subseteq [rpm : Nat, tpm : Nat]
    /\ {Retention, MaxHour, MaxLogged, MaxFaults, MaxBoot} \subseteq Nat
    /\ Tokens \subseteq Nat /\ IsFiniteSet(Tokens)

VARIABLES
    limit,     \* the limits of the key
    at,        \* where each client's request is
    requests,  \* rateLimitRPM of the key, by age
    tokens,    \* rateLimitTPM of the key, by age
    passed,    \* the requests that passed AllowKeyRPM, by age
    charged,   \* the tokens that were charged, by age
    hour,      \* the hour of the clock
    buckets,   \* usageBuckets
    rows,      \* the usage_hourly table
    logged,    \* history: the requests LogUsageHourly was told of, but for
               \*   those that an end of the process has lost
    flush,     \* the runs of UsageSaveDB
    faults,    \* failed statements so far
    boot,      \* restarts of the process
    raced      \* history: rows that a flush has written while another one,
               \*   that had read them before, was still to write them

limitVars == <<requests, tokens, passed, charged>>
usageVars == <<hour, buckets, rows, logged, flush, faults, boot, raced>>
keyVars == <<limit, at, limitVars, usageVars>>

-----------------------------------------------------------------------------
(* Windows.                                                                *)

(* Older stamps count for nobody. *)
Age == 0..(Span + MaxStall - 1)
Empty == [a \in Age |-> 0]
SumOver(w, S) == MapThenSumSet(LAMBDA a : w[a], S)
Sum(w) == SumOver(w, Age)
Older(w) == [a \in Age |-> IF a = 0 THEN 0 ELSE w[a - 1]]

(* What is left of a window by a reading that is late. *)
Recent(w, late) == [a \in Age |-> IF a - late < Span THEN w[a] ELSE 0]
Stamped(w, late, n) == [Recent(w, late) EXCEPT ![late] = @ + n]

(* allowRate *)
WithinAtLimit(w, late) == Sum(Recent(w, late)) <= limit.rpm  \* mutant: one too many
Within(w, late) == Sum(Recent(w, late)) + 1 <= limit.rpm

RefusedStamped(w, late) == Stamped(w, late, 1)  \* mutant: refusals count
Refused(w, late) == Recent(w, late)

(* AllowKeyTPM *)
UnspentFresh(w, late) == w[late] < limit.tpm  \* mutant: looks at the last stamp only
Unspent(w, late) == Sum(Recent(w, late)) < limit.tpm

-----------------------------------------------------------------------------
(* A request of the key (APIKeyAuth and what it wraps).                    *)

Goto(c, place) == at' = [at EXCEPT ![c] = place]

AllowKeyRPM(c) ==
    /\ at[c] = "out"
    /\ limit.rpm > 0
    /\ \E late \in 0..MaxStall :
          IF Within(requests, late)
          THEN /\ requests' = Stamped(requests, late, 1)
               /\ passed' = [passed EXCEPT ![late] = @ + 1]
               /\ Goto(c, "counted")
          ELSE /\ requests' = Refused(requests, late)
               /\ UNCHANGED <<at, passed>>
    /\ UNCHANGED <<limit, tokens, charged, usageVars>>

(* Refused by its tokens a request has been counted all the same. *)
AllowKeyTPM(c) ==
    /\ at[c] = "counted"
    /\ limit.tpm > 0
    /\ \E late \in 0..MaxStall :
          /\ tokens' = Recent(tokens, late)
          /\ Goto(c, IF Unspent(tokens, late) THEN "inside" ELSE "out")
    /\ UNCHANGED <<limit, requests, passed, charged, usageVars>>

(* Without a limit nothing is read or counted. *)
NoLimit(c) ==
    \/ at[c] = "out" /\ limit.rpm = 0 /\ Goto(c, "counted") /\ UNCHANGED <<limit, limitVars, usageVars>>
    \/ at[c] = "counted" /\ limit.tpm = 0 /\ Goto(c, "inside") /\ UNCHANGED <<limit, limitVars, usageVars>>

(* RecordKeyUsage, allowTPMAt: nothing counts as one token. *)
Charge(n) ==
    IF limit.tpm = 0 THEN UNCHANGED <<tokens, charged>>
    ELSE \E late \in 0..MaxStall :
            LET amount == IF n = 0 THEN 1 ELSE n IN
            /\ tokens' = Stamped(tokens, late, amount)
            /\ charged' = [charged EXCEPT ![late] = @ + amount]

(* finishLocked: the recorder, if the usage is known, and then the bucket  *)
(* of the hour, if a target was chosen.                                    *)
Bucket(target) == <<hour, target>>
LogUsageHourly(target) ==
    /\ buckets' = [buckets EXCEPT ![Bucket(target)] = @ + 1]
    /\ logged' = [logged EXCEPT ![Bucket(target)] = @ + 1]

NoLimits == [rpm |-> 0, tpm |-> 0]
LoggedSoFar == MapThenSumSet(LAMBDA k : logged[k], DOMAIN logged)

Finish(c) ==
    /\ at[c] = "inside"
    /\ \/ \E n \in Tokens : Charge(n) /\ Goto(c, "charged")
       \/ Goto(c, "finished") /\ UNCHANGED <<tokens, charged>>
    /\ \/ /\ limit = NoLimits /\ LoggedSoFar < MaxLogged
          /\ \E target \in Target : LogUsageHourly(target)
       \/ UNCHANGED <<buckets, logged>>
    /\ UNCHANGED <<limit, requests, passed, hour, rows, flush, faults, boot, raced>>

(* The deferred call of APIKeyAuth: who was not charged is charged nothing, *)
(* also a request that was turned away before it was registered.           *)
Leave(c) ==
    /\ at[c] \in {"inside", "finished", "charged"}
    /\ IF at[c] = "charged" THEN UNCHANGED <<tokens, charged>> ELSE Charge(0)
    /\ Goto(c, "out")
    /\ UNCHANGED <<limit, requests, passed, usageVars>>

Tick ==
    /\ requests' = Older(requests)
    /\ tokens' = Older(tokens)
    /\ passed' = Older(passed)
    /\ charged' = Older(charged)
    /\ UNCHANGED <<limit, at, usageVars>>

-----------------------------------------------------------------------------
(* UsageSaveDB, run by the task that saves the statistics, which does not  *)
(* wait for its last run to end.                                           *)

Key == (0..MaxHour) \X Target
NoUsage == [k \in Key |-> 0]
Idle == [step |-> "idle", rows |-> NoUsage, read |-> {}]
Plus(u, v) == [k \in Key |-> u[k] + v[k]]

UsageTake(f) ==
    /\ limit = NoLimits
    /\ flush[f].step = "idle"
    /\ flush' = [flush EXCEPT ![f] =
          [step |-> IF buckets = NoUsage THEN "cleaning" ELSE "taken", rows |-> buckets, read |-> {}]]
    /\ buckets' = NoUsage
    /\ UNCHANGED <<limit, at, limitVars, hour, rows, logged, faults, boot, raced>>

(* mergeUsageRows adds what the table has to the rows it is given, in      *)
(* place, one after the other.                                             *)
Unread(f) == {k \in Key : flush[f].rows[k] > 0} \ flush[f].read

Merged(f, k) == flush[f].rows[k] + rows[k]

MergeUsageRow(f, k) ==
    /\ flush[f].step = "taken" /\ k \in Unread(f)
    /\ flush' = [flush EXCEPT ![f] =
          [step |-> "taken", rows |-> [@.rows EXCEPT ![k] = Merged(f, k)], read |-> @.read \cup {k}]]
    /\ UNCHANGED <<limit, at, limitVars, hour, buckets, rows, logged, faults, boot, raced>>

(* The upsert of all rows. *)
UsageStore(f) ==
    /\ flush[f].step = "taken" /\ Unread(f) = {}
    /\ rows' = [k \in Key |-> IF flush[f].rows[k] > 0 THEN flush[f].rows[k] ELSE rows[k]]
    /\ raced' = raced \cup {k \in flush[f].read : \E g \in Flush \ {f} : k \in flush[g].read}
    /\ flush' = [flush EXCEPT ![f] = [Idle EXCEPT !.step = "cleaning"]]
    /\ UNCHANGED <<limit, at, limitVars, hour, buckets, logged, faults, boot>>

(* restoreUsageBuckets *)
RestoredNone(taken) == buckets  \* mutant: a failed flush forgets what it took
Restored(taken) == Plus(buckets, taken)

Fault ==
    /\ faults < MaxFaults
    /\ faults' = faults + 1

(* A row cannot be read, or the rows cannot be written: they go back into  *)
(* the buckets as they are, merged or not.                                 *)
UsageFails(f) ==
    /\ flush[f].step = "taken"
    /\ Fault
    /\ buckets' = Restored(flush[f].rows)
    /\ flush' = [flush EXCEPT ![f] = Idle]
    /\ UNCHANGED <<limit, at, limitVars, hour, rows, logged, boot, raced>>

(* Rows past their time are deleted, or stay until the next flush. *)
Kept(k) == k[1] >= hour - Retention
Cleanup(f) ==
    /\ flush[f].step = "cleaning"
    /\ \/ rows' = [k \in Key |-> IF Kept(k) THEN rows[k] ELSE 0] /\ UNCHANGED faults
       \/ Fault /\ UNCHANGED rows
    /\ flush' = [flush EXCEPT ![f] = Idle]
    /\ UNCHANGED <<limit, at, limitVars, hour, buckets, logged, boot, raced>>

NextHour ==
    /\ limit = NoLimits
    /\ hour < MaxHour
    /\ hour' = hour + 1
    /\ UNCHANGED <<limit, at, limitVars, buckets, rows, logged, flush, faults, boot, raced>>

(* The process ends, at a crash or by a shutdown: SaveCache writes the     *)
(* statistics and leaves the buckets, and the windows are memory too.      *)
Restart ==
    /\ boot < MaxBoot
    /\ boot' = boot + 1
    /\ at' = [c \in Client |-> "out"]
    /\ requests' = Empty /\ tokens' = Empty /\ passed' = Empty /\ charged' = Empty
    /\ buckets' = NoUsage
    /\ flush' = [f \in Flush |-> Idle]
    /\ logged' = rows /\ raced' = {}
    /\ UNCHANGED <<limit, hour, rows, faults>>

-----------------------------------------------------------------------------
KeyInit ==
    /\ limit \in Limits
    /\ at = [c \in Client |-> "out"]
    /\ requests = Empty /\ tokens = Empty
    /\ passed = Empty /\ charged = Empty
    /\ hour = 0
    /\ buckets = NoUsage /\ rows = NoUsage /\ logged = NoUsage
    /\ flush = [f \in Flush |-> Idle]
    /\ faults = 0 /\ boot = 0 /\ raced = {}

Proceed(c) == AllowKeyRPM(c) \/ AllowKeyTPM(c) \/ NoLimit(c) \/ Finish(c) \/ Leave(c)

UsageSaveDB(f) ==
    \/ UsageTake(f) \/ UsageStore(f) \/ UsageFails(f) \/ Cleanup(f)
    \/ \E k \in Key : MergeUsageRow(f, k)

KeyNext ==
    \/ \E c \in Client : Proceed(c)
    \/ Tick \/ NextHour \/ Restart
    \/ \E f \in Flush : UsageSaveDB(f)

(* Clients try again, requests end, and time passes. *)
KeySpec ==
    /\ KeyInit /\ [][KeyNext]_keyVars
    /\ \A c \in Client : WF_keyVars(Proceed(c))
    /\ WF_keyVars(Tick)

-----------------------------------------------------------------------------
(* Properties.                                                             *)

(* What was stamped in a minute, shortened by the stall: a late reading    *)
(* misses the stamps that a punctual one has just cut off.                 *)
Minutes == {from..(from + Span - MaxStall - 1) : from \in 0..(2 * MaxStall)}

(* No minute of a running process passes more requests than the limit,     *)
(* although readings arrive late at the lock and whoever comes cuts the    *)
(* window by its own reading.                                              *)
RateKept == limit.rpm > 0 => \A m \in Minutes : SumOver(passed, m) <= limit.rpm

(* Tokens are charged when a request ends, so the limit is overrun; by no  *)
(* more than what the requests took that were inside at the same time.     *)
OverrunBounded ==
    limit.tpm > 0 => \A m \in Minutes :
        SumOver(charged, m) < limit.tpm + Cardinality(Client) * Max(Tokens \cup {1})

(* A key is never locked out: while its clients try, they get in again and *)
(* again, although every refusal for tokens takes one of the key's         *)
(* requests of the minute.                                                 *)
NeverLockedOut == []<>(\E c \in Client : at[c] = "inside")

(* What of key k is in the hands of flush f: a merged row contains the     *)
(* stored one.                                                             *)
InHand(f, k) == flush[f].rows[k] - IF k \in flush[f].read THEN rows[k] ELSE 0
OnTheWay(k) == buckets[k] + rows[k] + SumOver([f \in Flush |-> InHand(f, k)], Flush)

(* As long as the process runs usage is not lost on its way to the table,  *)
(* whichever statement fails, and it is exact as long as none has - but    *)
(* for the rows that two flushes have read before either wrote them.       *)
UsageKept ==
    \A k \in Key \ raced : Kept(k) =>
        /\ OnTheWay(k) >= logged[k]
        /\ faults = 0 => OnTheWay(k) = logged[k]

(* internal/op/usage.go:106: what a failed flush puts back into the        *)
(* buckets is what it took from them.                                      *)
UsageExact == \A k \in Key \ raced : Kept(k) => OnTheWay(k) = logged[k]
=============================================================================
