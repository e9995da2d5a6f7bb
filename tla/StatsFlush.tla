----------------------------- MODULE StatsFlush -----------------------------
(***************************************************************************)
(* The counters of finished requests (internal/op/stats.go): they are      *)
(* added up in memory, marked, and written to the database by flushes that *)
(* run in steps, may fail half-way, and meet each other, the change of     *)
(* day, an administrator and the end of the process: nothing keeps a flush *)
(* from beginning while another one is under way.                          *)
(*                                                                         *)
(* A counter of a channel, of a model or of a credential lives in the      *)
(* cached row of its owner and is written with UPDATE; the counter of an   *)
(* API key is a row of its own, written with an upsert.  The locks of the  *)
(* code cover one step each.                                               *)
(***************************************************************************)
EXTENDS Integers, FiniteSets

CONSTANTS
    Owner,      \* channels, models and credentials
    ApiKey,     \* API keys
    Task,       \* the flushes of the scheduled task, and of the shutdown
    Rollover,   \* the flushes of requests that find a new day
    Starts,     \* the owners and keys at first, the requests and restarts so far, the date
    MaxTotal,   \* bound on requests
    MaxUse,     \* bound on the requests each counter counts
    MaxDay,     \* bound on the days
    MaxBoot     \* bound on restarts

Flush == Task \cup Rollover
Counter == Owner \cup ApiKey
Gone == -1      \* no cached row, no row in the database
NoRow == "none"

ASSUME StatsAssumption ==
    /\ Owner \cap ApiKey = {} /\ Rollover \cap Task = {}
    /\ {MaxTotal, MaxDay, MaxBoot} \subseteq Nat
    /\ MaxUse \in [Counter -> Nat]
    /\ Starts \subseteq [owners : SUBSET Owner, keys : SUBSET ApiKey,
                        total : 0..MaxTotal, today : 0..MaxDay, boot : 0..MaxBoot]

VARIABLES
    cached,     \* the counters in memory
    dirty,      \* the sets of counters to write (...NeedUpdate)
    stored,     \* the counters in the database
    keys,       \* the API keys (rows of api_keys)
    total,      \* [cached, stored] of the grand total
    daily,      \* statsDailyCache
    days,       \* the daily rows
    used,       \* history: what each day's row has to say
    today,      \* the date
    flush,      \* the flushes under way
    edit,       \* the administrator, between the database and the cache
    boot,       \* restarts of the process
    overwritten, \* history: counters whose row got an older value than it had,
                \*   and that no request has counted since
    shrunk,     \* the counters that an edit of this process has dropped, or
                \*   made smaller in memory
    lost        \* history: days whose row got an older value than it had, or
                \*   whose own flush failed before it wrote the day

history == <<overwritten, shrunk, lost>>
statsVars ==
    <<cached, dirty, stored, keys, total, daily, days, used, today, flush, edit, boot, history>>

(* "alone" is history: no other flush has been under way with this one. *)
NoFlush == [at |-> "idle", total |-> 0, daily |-> [date |-> 0, count |-> 0],
            ids |-> {}, todo |-> {}, row |-> NoRow, held |-> Gone, alone |-> FALSE]
NoEdit == [op |-> "none", row |-> NoRow, count |-> Gone, rows |-> [c \in Counter |-> Gone]]

Idle(f) == flush[f].at = "idle"

(* Flush f starts as r, and meets those that are under way. *)
Started(f, r) ==
    [g \in Flush |-> IF g = f THEN [r EXCEPT !.alone = \A h \in Flush : Idle(h)]
                     ELSE [flush[g] EXCEPT !.alone = FALSE]]

-----------------------------------------------------------------------------
(* A finished request.                                                     *)

(* ChannelStatsUpdate and its likes: under the lock of the dirty set. *)
Marked(c) == dirty \cup {c}

StatsUpdate(c) ==
    /\ cached[c] \in 0..(MaxUse[c] - 1)
    /\ cached' = [cached EXCEPT ![c] = @ + 1]
    /\ dirty' = Marked(c)
    /\ overwritten' = overwritten \ {c}
    /\ UNCHANGED <<stored, keys, total, daily, days, used, today, flush, edit, boot, shrunk, lost>>

(* The entry of an API key is made when it is first counted, or looked at, *)
(* perhaps by a request that outlives its key.                             *)
StatsAPIKeyFirst(k) ==
    /\ k \in keys \cup shrunk /\ cached[k] = Gone
    /\ cached' = [cached EXCEPT ![k] = 0]
    /\ dirty' = dirty \cup {k}
    /\ overwritten' = overwritten \ {k}
    /\ UNCHANGED <<stored, keys, total, daily, days, used, today, flush, edit, boot, shrunk, lost>>

(* StatsTotalUpdate, then StatsDailyUpdate: the first request of a new day *)
(* takes the old one away and flushes it itself.                           *)
StatsSameDay ==
    /\ total.cached < MaxTotal /\ daily.date = today
    /\ total' = [total EXCEPT !.cached = @ + 1]
    /\ daily' = [daily EXCEPT !.count = @ + 1]
    /\ used' = [used EXCEPT ![today] = @ + 1]
    /\ UNCHANGED <<cached, dirty, stored, keys, days, today, flush, edit, boot, history>>

PreviousToday == [date |-> today, count |-> 1]   \* mutant: the new day is flushed
Previous == daily

StatsNewDay(f) ==
    /\ total.cached < MaxTotal /\ daily.date # today
    /\ f \in Rollover /\ Idle(f)
    /\ total' = [total EXCEPT !.cached = @ + 1]
    /\ daily' = [date |-> today, count |-> 1]
    /\ used' = [used EXCEPT ![today] = @ + 1]
    /\ flush' = Started(f, [NoFlush EXCEPT !.at = "total", !.daily = Previous])
    /\ UNCHANGED <<cached, dirty, stored, keys, days, today, edit, boot, history>>

-----------------------------------------------------------------------------
(* A flush.                                                                *)

(* StatsSaveDB and statsSaveDBWithDailyOverride take the totals. *)
BeginIfDirty(f) == Idle(f) /\ dirty # {}         \* mutant: nothing marked, nothing to do
Begin(f) == Idle(f)

StatsSaveDB(f) ==
    /\ f \in Task /\ Begin(f)
    /\ flush' = Started(f, [NoFlush EXCEPT
                    !.at = "drain", !.total = total.cached, !.daily = daily])
    /\ UNCHANGED <<cached, dirty, stored, keys, total, daily, days, used, today, edit, boot, history>>

WithDailyOverride(f) ==
    /\ flush[f].at = "total"
    /\ flush' = [flush EXCEPT ![f].at = "drain", ![f].total = total.cached]
    /\ UNCHANGED <<cached, dirty, stored, keys, total, daily, days, used, today, edit, boot, history>>

DrainDirtySets(f) ==
    /\ flush[f].at = "drain"
    /\ flush' = [flush EXCEPT ![f] = [@ EXCEPT !.at = "saveTotal", !.ids = dirty, !.todo = dirty]]
    /\ dirty' = {}
    /\ UNCHANGED <<cached, stored, keys, total, daily, days, used, today, edit, boot, history>>

SaveTotal(f) ==
    /\ flush[f].at = "saveTotal"
    /\ total' = [total EXCEPT !.stored = flush[f].total]
    /\ flush' = [flush EXCEPT ![f].at = "saveDay", ![f].total = 0]
    /\ UNCHANGED <<cached, dirty, stored, keys, daily, days, used, today, edit, boot, history>>

SaveDay(f) ==
    /\ flush[f].at = "saveDay"
    /\ LET d == flush[f].daily.date IN
       /\ days' = [days EXCEPT ![d] = flush[f].daily.count]
       /\ lost' = IF days'[d] < days[d] THEN lost \cup {d} ELSE lost
    /\ flush' = [flush EXCEPT ![f].at = "counters", ![f].daily = NoFlush.daily]
    /\ UNCHANGED <<cached, dirty, stored, keys, total, daily, used, today, edit, boot,
                   overwritten, shrunk>>

(* Each counter is read from the cache when its turn comes, without the    *)
(* lock; one whose row left the cache is passed over.                      *)
ReadCounter(f, c) ==
    /\ flush[f].at = "counters" /\ c \in flush[f].todo
    /\ flush' = IF cached[c] = Gone THEN [flush EXCEPT ![f].todo = @ \ {c}]
                ELSE [flush EXCEPT ![f].at = "write", ![f].row = c, ![f].held = cached[c],
                                   ![f].todo = @ \ {c}]
    /\ UNCHANGED <<cached, dirty, stored, keys, total, daily, days, used, today, edit, boot, history>>

WrittenUpsert(c, n) == n                         \* mutant: an upsert for both
(* Owners are updated where they are, API keys are inserted if need be. *)
Written(c, n) == IF c \in Owner /\ stored[c] = Gone THEN Gone ELSE n

WriteCounter(f) ==
    /\ flush[f].at = "write"
    /\ LET c == flush[f].row IN
       /\ stored' = [stored EXCEPT ![c] = Written(c, flush[f].held)]
       /\ overwritten' = IF stored'[c] < stored[c] THEN overwritten \cup {c} ELSE overwritten
    /\ flush' = [flush EXCEPT ![f] = [@ EXCEPT !.at = "counters", !.row = NoRow, !.held = Gone]]
    /\ UNCHANGED <<cached, dirty, keys, total, daily, days, used, today, edit, boot, shrunk, lost>>

EndFlush(f) ==
    /\ flush[f].at = "counters" /\ flush[f].todo = {}
    /\ flush' = [flush EXCEPT ![f] = NoFlush]
    /\ UNCHANGED <<cached, dirty, stored, keys, total, daily, days, used, today, edit, boot, history>>

(* A write fails: everything that was drained is marked again. *)
RestoredRest(f) == dirty                         \* mutant: nothing is marked again
Restored(f) == dirty \cup flush[f].ids

FailFlush(f) ==
    /\ flush[f].at \in {"saveTotal", "saveDay", "write"}
    /\ dirty' = Restored(f)
    /\ flush' = [flush EXCEPT ![f] = NoFlush]
    /\ lost' = IF f \in Rollover /\ flush[f].at # "write" THEN lost \cup {flush[f].daily.date}
               ELSE lost
    /\ UNCHANGED <<cached, stored, keys, total, daily, days, used, today, edit, boot,
                   overwritten, shrunk>>

-----------------------------------------------------------------------------
(* The administrator.  Each operation writes the database, then the cache. *)

(* ChannelUpdate: the cached counters are carried over, under the lock. *)
CarriedFromRow(c) == stored[c]                   \* mutant: the counters of the row
Carried(c) == cached[c]

ChannelUpdate(c) ==
    /\ c \in Owner /\ edit = NoEdit /\ cached[c] # Gone
    /\ edit' = [NoEdit EXCEPT !.op = "update", !.row = c]
    /\ UNCHANGED <<cached, dirty, stored, keys, total, daily, days, used, today, flush, boot, history>>

ReloadChannelChildren ==
    /\ edit.op = "update"
    /\ cached' = [cached EXCEPT ![edit.row] = Carried(edit.row)]
    /\ edit' = NoEdit
    /\ UNCHANGED <<dirty, stored, keys, total, daily, days, used, today, flush, boot, history>>

(* ChannelDel, and a child dropped by ChannelUpdate: the latter leaves its *)
(* mark behind.                                                            *)
ChannelDel(c) ==
    /\ c \in Owner /\ edit = NoEdit /\ cached[c] # Gone
    /\ stored' = [stored EXCEPT ![c] = Gone]
    /\ edit' = [NoEdit EXCEPT !.op = "delete", !.row = c]
    /\ UNCHANGED <<cached, dirty, keys, total, daily, days, used, today, flush, boot, history>>

DropRow ==
    /\ edit.op = "delete"
    /\ cached' = [cached EXCEPT ![edit.row] = Gone]
    /\ \E mark \in BOOLEAN : dirty' = IF mark THEN dirty ELSE dirty \ {edit.row}
    /\ edit' = NoEdit
    /\ shrunk' = shrunk \cup {edit.row}
    /\ UNCHANGED <<stored, keys, total, daily, days, used, today, flush, boot,
                   overwritten, lost>>

(* APIKeyDelete, StatsAPIKeyDel: the cache first, then the rows. *)
StatsAPIKeyDel(k) ==
    /\ k \in ApiKey /\ edit = NoEdit /\ cached[k] # Gone
    /\ cached' = [cached EXCEPT ![k] = Gone]
    /\ dirty' = dirty \ {k}
    /\ edit' = [NoEdit EXCEPT !.op = "apiKey", !.row = k]
    /\ shrunk' = shrunk \cup {k}
    /\ UNCHANGED <<stored, keys, total, daily, days, used, today, flush, boot,
                   overwritten, lost>>

DeleteAPIKeyRow ==
    /\ edit.op = "apiKey"
    /\ stored' = [stored EXCEPT ![edit.row] = Gone]
    /\ keys' = keys \ {edit.row}
    /\ edit' = NoEdit
    /\ UNCHANGED <<cached, dirty, total, daily, days, used, today, flush, boot, history>>

(* ChannelEnabled: the cached row is copied, the database written, the     *)
(* copy put back, without the lock of the counters.                        *)
ChannelEnabled(c) ==
    /\ c \in Owner /\ edit = NoEdit /\ cached[c] # Gone
    /\ edit' = [NoEdit EXCEPT !.op = "toggle", !.row = c, !.count = cached[c]]
    /\ UNCHANGED <<cached, dirty, stored, keys, total, daily, days, used, today, flush, boot, history>>

PutBack ==
    /\ edit.op = "toggle"
    /\ cached' = [cached EXCEPT ![edit.row] = edit.count]
    /\ shrunk' = IF edit.count < cached[edit.row] THEN shrunk \cup {edit.row} ELSE shrunk
    /\ edit' = NoEdit
    /\ UNCHANGED <<dirty, stored, keys, total, daily, days, used, today, flush, boot,
                   overwritten, lost>>

(* channelRefreshCache, after a credential was switched or a pool synced:  *)
(* the rows are read, then they replace the cached ones, counters          *)
(* included, without the locks either.                                     *)
ReadRows ==
    /\ edit = NoEdit
    /\ edit' = [NoEdit EXCEPT !.op = "refresh", !.rows = stored]
    /\ UNCHANGED <<cached, dirty, stored, keys, total, daily, days, used, today, flush, boot, history>>

PutRows ==
    /\ edit.op = "refresh"
    /\ cached' = [c \in Counter |-> IF c \in Owner THEN edit.rows[c] ELSE cached[c]]
    /\ shrunk' = shrunk \cup {c \in Owner : edit.rows[c] < cached[c]}
    /\ overwritten' = overwritten \cup {c \in Owner : edit.rows[c] > stored[c]}
    /\ edit' = NoEdit
    /\ UNCHANGED <<dirty, stored, keys, total, daily, days, used, today, flush, boot, lost>>

-----------------------------------------------------------------------------
(* The clock and the process.                                              *)

Midnight ==
    /\ today < MaxDay
    /\ today' = today + 1
    /\ UNCHANGED <<cached, dirty, stored, keys, total, daily, days, used, flush, edit, boot, history>>

(* The process ends in whatever it is doing; the next one loads the rows.  *)
LoadedAsNew == [date |-> today, count |-> 0]     \* mutant: the day begins anew
LoadedDay == [date |-> today, count |-> days[today]]

Restart ==
    /\ boot < MaxBoot
    /\ boot' = boot + 1
    /\ cached' = stored
    /\ dirty' = {}
    /\ total' = [total EXCEPT !.cached = total.stored]
    /\ daily' = LoadedDay
    /\ flush' = [f \in Flush |-> NoFlush]
    /\ edit' = NoEdit
    /\ used' = days
    /\ overwritten' = {} /\ shrunk' = {} /\ lost' = {}
    /\ UNCHANGED <<stored, keys, days, today>>

-----------------------------------------------------------------------------
(* A process that has nothing to save, perhaps since an earlier day. *)
StatsStart(s) ==
    /\ cached = [c \in Counter |-> IF c \in s.owners THEN 0 ELSE Gone]
    /\ stored = cached
    /\ keys = s.keys
    /\ dirty = {}
    /\ total = [cached |-> s.total, stored |-> s.total]
    /\ daily = [date |-> 0, count |-> 0]
    /\ days = [d \in 0..MaxDay |-> 0]
    /\ used = days
    /\ today = s.today
    /\ flush = [f \in Flush |-> NoFlush]
    /\ edit = NoEdit
    /\ boot = s.boot
    /\ overwritten = {} /\ shrunk = {} /\ lost = {}

StatsInit == \E s \in Starts : StatsStart(s)

Use ==
    \/ \E c \in Counter : StatsUpdate(c)
    \/ \E k \in ApiKey : StatsAPIKeyFirst(k)
    \/ StatsSameDay
    \/ \E f \in Rollover : StatsNewDay(f)

Step(f) ==
    \/ WithDailyOverride(f) \/ DrainDirtySets(f) \/ SaveTotal(f) \/ SaveDay(f)
    \/ \E c \in Counter : ReadCounter(f, c)
    \/ WriteCounter(f) \/ EndFlush(f)

Admin ==
    \/ \E c \in Counter : ChannelUpdate(c) \/ ChannelDel(c) \/ StatsAPIKeyDel(c) \/ ChannelEnabled(c)
    \/ ReloadChannelChildren \/ DropRow \/ DeleteAPIKeyRow \/ PutBack
    \/ ReadRows \/ PutRows

StatsNext ==
    \/ Use
    \/ \E f \in Task : StatsSaveDB(f)
    \/ \E f \in Flush : Step(f) \/ FailFlush(f)
    \/ Admin
    \/ Midnight \/ Restart

StatsSpec == StatsInit /\ [][StatsNext]_statsVars

(* The flush is scheduled again and again and every step of it ends; a     *)
(* request's flush runs to its end too.                                    *)
FairStatsSpec ==
    /\ StatsSpec
    /\ \A f \in Task : WF_statsVars(StatsSaveDB(f))
    /\ \A f \in Flush : WF_statsVars(Step(f))
    /\ WF_statsVars(ReloadChannelChildren \/ DropRow \/ DeleteAPIKeyRow \/ PutBack \/ PutRows)

-----------------------------------------------------------------------------
(* Properties.                                                             *)

(* Every variable has its shape; no counter counts a request twice, and a  *)
(* day that outlives the process no more than each process has served.     *)
StatsTypeOK ==
    LET Count == 0..(MaxTotal * (MaxBoot + 1))
        Day == [date : 0..MaxDay, count : Count]
    IN
    /\ \A c \in Counter : {cached[c], stored[c]} \subseteq 0..MaxUse[c] \cup {Gone}
    /\ DOMAIN cached = Counter /\ DOMAIN stored = Counter
    /\ dirty \subseteq Counter /\ keys \subseteq ApiKey
    /\ total \in [cached : Count, stored : Count]
    /\ daily \in Day /\ days \in [0..MaxDay -> Count] /\ used \in [0..MaxDay -> Count]
    /\ today \in 0..MaxDay /\ boot \in 0..MaxBoot
    /\ flush \in [Flush -> [at : {"idle", "total", "drain", "saveTotal", "saveDay",
                                   "counters", "write"},
                            total : Count, daily : Day, ids : SUBSET Counter,
                            todo : SUBSET Counter, row : Counter \cup {NoRow},
                            held : Nat \cup {Gone}, alone : BOOLEAN]]
    /\ edit \in [op : {"none", "update", "delete", "apiKey", "toggle", "refresh"},
                  row : Counter \cup {NoRow}, count : Nat \cup {Gone},
                  rows : [Counter -> Nat \cup {Gone}]]
    /\ overwritten \subseteq Counter /\ shrunk \subseteq Counter /\ lost \subseteq 0..MaxDay

(* The counters that still have an owner. *)
Owned == {c \in Owner : stored[c] # Gone} \cup keys

(* A counter that is ahead of its row is on its way there: it is marked,   *)
(* or a flush has it before it or in hand, with all that was counted.  A   *)
(* failed flush, a flush that meets it, an edit, a deletion or a restart   *)
(* forgets none; only an older value written over a newer one does, until  *)
(* the next request counts.                                                *)
NothingForgotten ==
    \A c \in Owned \ overwritten : cached[c] > stored[c] =>
        \/ c \in dirty
        \/ \E f \in Flush : c \in flush[f].todo
                            \/ (flush[f].row = c /\ flush[f].held >= cached[c])

(* Rows go back only where flushes meet: as long as no flush under way has *)
(* seen another one, neither the row of a counter (unless an edit has made *)
(* it smaller in memory first) nor that of a day nor the total loses what  *)
(* it had, whatever fails and whenever the process ends.                   *)
RowsGoBackInMeetings ==
    [][(\A f \in Flush : Idle(f) \/ flush[f].alone) =>
          /\ \A c \in Counter \ shrunk : stored'[c] # Gone => stored'[c] >= stored[c]
          /\ \A d \in 0..MaxDay : days'[d] >= days[d]
          /\ total'.stored >= total.stored
      ]_statsVars

(* When a day is over, its row holds every request of the day that no end  *)
(* of the process has lost, as soon as the flush that the new day began is *)
(* done with it - unless that flush failed, or one of those it met wrote   *)
(* an older value over it.                                                 *)
EveryDayIsKept ==
    \A d \in 0..MaxDay \ lost : d < daily.date =>
        \/ days[d] = used[d]
        \/ \E f \in Rollover : /\ flush[f].at \in {"total", "drain", "saveTotal", "saveDay"}
                               /\ flush[f].daily.date = d

(* The counters of a running process go back in two of the panel's edits   *)
(* only, the switch of their own channel and the reload of every row; a    *)
(* saved channel keeps what its counters have counted, and the counters of *)
(* API keys never go back.                                                 *)
CountersNeverGoBack ==
    [][\A c \in Counter :
          (boot' = boot /\ cached[c] # Gone /\ cached'[c] # Gone /\ cached'[c] < cached[c]) =>
              c \in Owner /\ (edit.op = "refresh" \/ (edit.op = "toggle" /\ edit.row = c))
      ]_statsVars

(* A reload of cached rows does not put the counters of the database over  *)
(* those in memory, as reloadChannelChildren (channel.go:475) has it.      *)
ReloadsKeepCounters ==
    [][\A c \in Owner :
          (boot' = boot /\ edit.op \in {"update", "refresh"} /\ cached[c] # Gone /\ cached'[c] # Gone)
              => cached'[c] >= cached[c]
      ]_statsVars

(* A row that was deleted is not written again, nor its counters cached.   *)
DeletedStaysDeleted ==
    [][\A c \in Owner : stored[c] = Gone =>
          stored'[c] = Gone /\ (cached[c] = Gone => cached'[c] = Gone)]_statsVars

(* When requests stop and the database works again, everything gets there, *)
(* but for the counters whose row was overwritten by an older value.       *)
AllSaved ==
    /\ \A c \in Owned \ overwritten : cached[c] <= stored[c]
    /\ total.stored = total.cached
    /\ days[daily.date] = daily.count
SavedInTheEnd ==
    []<><<Use \/ \E f \in Flush : FailFlush(f)>>_statsVars \/ <>[]AllSaved
=============================================================================
