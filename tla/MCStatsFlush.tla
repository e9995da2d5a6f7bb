---------------------------- MODULE MCStatsFlush ----------------------------
(* Instances of StatsFlush for TLC.                                        *)
EXTENDS StatsFlush

(* Channels are counted twice, API keys once.                              *)
TwiceAndOnce == [c \in Counter |-> IF c \in Owner THEN 2 ELSE 1]

Start(owners, apiKeys, requests, date, restarts) ==
    [owners |-> owners, keys |-> apiKeys, total |-> requests, today |-> date, boot |-> restarts]

(* All counters, and the flush of the task alone: no request is left that  *)
(* could find a new day.                                                   *)
OneFlush == {Start(Owner, ApiKey, MaxTotal, MaxDay, MaxBoot)}

(* One kind of counters, and a new day whose flush meets that of the task. *)
NewDay ==
    {Start(Owner, {}, MaxTotal - 1, MaxDay, 0), Start({}, ApiKey, MaxTotal - 1, MaxDay, 0)}

(* No counters, and all the days.                                          *)
ManyDays == {Start({}, {}, 0, 0, 0)}

AllStarts == OneFlush \cup NewDay \cup ManyDays
=============================================================================
