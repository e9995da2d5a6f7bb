-------------------------- MODULE StatsFlushProofs --------------------------
(***************************************************************************)
(* Proofs about StatsFlush, for every set of counters and of flushes, any  *)
(* number of days, requests and restarts.  Flushes may meet and fail as    *)
(* they like.                                                              *)
(*                                                                         *)
(* What a flush may do to its own record is stated once (the lemmas of the *)
(* first part); the invariants that follow look at one piece of state each:*)
(* the marks (Marks), the rows of the counters (Rows), the total (Totals)  *)
(* and the days (DaysInv).                                                 *)
(***************************************************************************)
EXTENDS StatsFlush, TLAPS

Day == [date : 0..MaxDay, count : Nat]
Place == {"idle", "total", "drain", "saveTotal", "saveDay", "counters", "write"}
Value == {n \in Int : n >= Gone}
FlushRecord ==
    [at : Place, total : Nat, daily : Day, ids : SUBSET Counter, todo : SUBSET Counter,
     row : Counter \cup {NoRow}, held : Value, alone : BOOLEAN]
EditRecord ==
    [op : {"none", "update", "delete", "apiKey", "toggle", "refresh"},
     row : Counter \cup {NoRow}, count : Value, rows : [Counter -> Value]]

(* The shapes the argument needs, without the bounds of the instances. *)
Shape ==
    /\ cached \in [Counter -> Value] /\ stored \in [Counter -> Value]
    /\ dirty \subseteq Counter /\ keys \subseteq ApiKey
    /\ total \in [cached : Nat, stored : Nat]
    /\ daily \in Day /\ days \in [0..MaxDay -> Nat] /\ used \in [0..MaxDay -> Nat]
    /\ today \in 0..MaxDay /\ boot \in Nat
    /\ flush \in [Flush -> FlushRecord] /\ edit \in EditRecord

-----------------------------------------------------------------------------
(* What one step of a flush does to its record.                            *)

LEMMA ValueFacts == Gone \in Value /\ Gone = -1 /\ Value \subseteq Int /\ Nat \subseteq Value
  BY DEF Value, Gone

(* Counters, rows and what flushes hold are numbers. *)
LEMMA Numbers ==
    ASSUME Shape
    PROVE  /\ cached \in [Counter -> Int] /\ stored \in [Counter -> Int]
           /\ \A c \in Counter : cached[c] >= -1 /\ stored[c] >= -1
           /\ \A f \in Flush : flush[f].held \in Int
           /\ edit.count \in Int /\ \A c \in Counter : edit.rows[c] \in Int
           /\ Gone = -1
<1>1. /\ \A c \in Counter : cached[c] \in Value /\ stored[c] \in Value /\ edit.rows[c] \in Value
      /\ \A f \in Flush : flush[f].held \in Value
      /\ edit.count \in Value
  BY DEF Shape, FlushRecord, EditRecord
<1>2. \A v \in Value : v \in Int /\ v >= -1
  BY DEF Value, Gone
<1>3. cached \in [Counter -> Int] /\ stored \in [Counter -> Int]
  BY <1>1, <1>2 DEF Shape
<1>4. QED
  BY <1>1, <1>2, <1>3 DEF Gone

LEMMA NoFlushShape ==
    ASSUME StatsAssumption
    PROVE  /\ NoFlush \in FlushRecord
           /\ NoFlush.at = "idle" /\ NoFlush.todo = {} /\ NoFlush.held = Gone
           /\ NoFlush.total = 0
<1>1. 0 \in 0..MaxDay
  BY DEF StatsAssumption
<1>2. QED
  BY <1>1, ValueFacts DEF NoFlush, FlushRecord, Day, Place

LEMMA NoEditShape ==
    /\ NoEdit \in EditRecord /\ NoEdit.op = "none"
  BY ValueFacts DEF NoEdit, EditRecord

LEMMA OneChanges ==
    ASSUME Shape, NEW f \in Flush, NEW r \in FlushRecord, flush' = [flush EXCEPT ![f] = r]
    PROVE  /\ flush' \in [Flush -> FlushRecord] /\ flush'[f] = r
           /\ \A g \in Flush \ {f} : flush'[g] = flush[g]
  BY DEF Shape

(* Flush f has gone on, the others are as they were. *)
GoesOn(f) ==
    /\ flush' \in [Flush -> FlushRecord]
    /\ flush'[f].alone = flush[f].alone
    /\ \A g \in Flush \ {f} : flush'[g] = flush[g]

Same(f) == flush'[f].ids = flush[f].ids /\ flush'[f].todo = flush[f].todo

LEMMA Overridden ==
    ASSUME Shape, NEW f \in Flush, WithDailyOverride(f)
    PROVE  /\ GoesOn(f) /\ Same(f) /\ flush'[f].at = "drain" /\ flush'[f].total = total.cached
           /\ flush'[f].daily = flush[f].daily
           /\ flush'[f].row = flush[f].row /\ flush'[f].held = flush[f].held
<1> DEFINE r == [flush[f] EXCEPT !.at = "drain", !.total = total.cached]
<1>1. flush[f] \in FlushRecord /\ total.cached \in Nat
  BY DEF Shape
<1>2. /\ r \in FlushRecord /\ r.at = "drain" /\ r.total = total.cached /\ r.daily = flush[f].daily
      /\ r.ids = flush[f].ids /\ r.todo = flush[f].todo /\ r.row = flush[f].row
      /\ r.held = flush[f].held /\ r.alone = flush[f].alone
  BY <1>1 DEF FlushRecord, Place
<1>3. flush' = [flush EXCEPT ![f] = r]
  BY DEF WithDailyOverride
<1> HIDE DEF r
<1>4. QED
  BY <1>2, <1>3, OneChanges DEF GoesOn, Same

LEMMA Drained ==
    ASSUME Shape, NEW f \in Flush, DrainDirtySets(f)
    PROVE  /\ GoesOn(f) /\ flush'[f].at = "saveTotal" /\ flush'[f].total = flush[f].total
           /\ flush'[f].ids = dirty /\ flush'[f].todo = dirty
           /\ flush'[f].daily = flush[f].daily
           /\ flush'[f].row = flush[f].row /\ flush'[f].held = flush[f].held
<1> DEFINE r == [flush[f] EXCEPT !.at = "saveTotal", !.ids = dirty, !.todo = dirty]
<1>1. flush[f] \in FlushRecord /\ dirty \subseteq Counter
  BY DEF Shape
<1>2. /\ r \in FlushRecord /\ r.at = "saveTotal" /\ r.total = flush[f].total
      /\ r.daily = flush[f].daily /\ r.ids = dirty /\ r.todo = dirty /\ r.row = flush[f].row
      /\ r.held = flush[f].held /\ r.alone = flush[f].alone
  BY <1>1 DEF FlushRecord, Place
<1>3. flush' = [flush EXCEPT ![f] = r]
  BY DEF DrainDirtySets
<1> HIDE DEF r
<1>4. QED
  BY <1>2, <1>3, OneChanges DEF GoesOn

LEMMA TotalSaved ==
    ASSUME Shape, NEW f \in Flush, SaveTotal(f)
    PROVE  /\ GoesOn(f) /\ Same(f) /\ flush'[f].at = "saveDay" /\ flush'[f].total = 0
           /\ flush'[f].daily = flush[f].daily
           /\ flush'[f].row = flush[f].row /\ flush'[f].held = flush[f].held
<1> DEFINE r == [flush[f] EXCEPT !.at = "saveDay", !.total = 0]
<1>1. flush[f] \in FlushRecord
  BY DEF Shape
<1>2. /\ r \in FlushRecord /\ r.at = "saveDay" /\ r.total = 0 /\ r.daily = flush[f].daily
      /\ r.ids = flush[f].ids /\ r.todo = flush[f].todo /\ r.row = flush[f].row
      /\ r.held = flush[f].held /\ r.alone = flush[f].alone
  BY <1>1 DEF FlushRecord, Place
<1>3. flush' = [flush EXCEPT ![f] = r]
  BY DEF SaveTotal
<1> HIDE DEF r
<1>4. QED
  BY <1>2, <1>3, OneChanges DEF GoesOn, Same

LEMMA DaySaved ==
    ASSUME StatsAssumption, Shape, NEW f \in Flush, SaveDay(f)
    PROVE  /\ GoesOn(f) /\ Same(f) /\ flush'[f].at = "counters"
           /\ flush'[f].total = flush[f].total
           /\ flush'[f].row = flush[f].row /\ flush'[f].held = flush[f].held
<1> DEFINE r == [flush[f] EXCEPT !.at = "counters", !.daily = NoFlush.daily]
<1>1. flush[f] \in FlushRecord /\ NoFlush.daily \in Day
  BY NoFlushShape DEF Shape, FlushRecord
<1>2. /\ r \in FlushRecord /\ r.at = "counters" /\ r.total = flush[f].total
      /\ r.ids = flush[f].ids /\ r.todo = flush[f].todo /\ r.row = flush[f].row
      /\ r.held = flush[f].held /\ r.alone = flush[f].alone
  BY <1>1 DEF FlushRecord, Place
<1>3. flush' = [flush EXCEPT ![f] = r]
  BY DEF SaveDay
<1> HIDE DEF r
<1>4. QED
  BY <1>2, <1>3, OneChanges DEF GoesOn, Same

LEMMA CounterRead ==
    ASSUME Shape, NEW f \in Flush, NEW c \in Counter, ReadCounter(f, c)
    PROVE  /\ GoesOn(f) /\ flush'[f].total = flush[f].total
           /\ flush'[f].ids = flush[f].ids /\ flush'[f].todo = flush[f].todo \ {c}
           /\ \/ /\ cached[c] = Gone /\ flush'[f].at = "counters"
                 /\ flush'[f].row = flush[f].row /\ flush'[f].held = flush[f].held
              \/ /\ cached[c] # Gone /\ flush'[f].at = "write"
                 /\ flush'[f].row = c /\ flush'[f].held = cached[c]
<1> DEFINE rest == flush[f].todo \ {c}
           q == [flush[f] EXCEPT !.todo = rest]
           r == [flush[f] EXCEPT !.at = "write", !.row = c, !.held = cached[c], !.todo = rest]
<1>1. /\ flush[f] \in FlushRecord /\ flush[f].at = "counters" /\ cached[c] \in Value
      /\ rest \subseteq Counter
  BY DEF Shape, ReadCounter, FlushRecord
<1> HIDE DEF rest
<1>2. /\ q \in FlushRecord /\ q.at = "counters" /\ q.total = flush[f].total
      /\ q.ids = flush[f].ids /\ q.todo = rest /\ q.row = flush[f].row
      /\ q.held = flush[f].held /\ q.alone = flush[f].alone
  BY <1>1 DEF FlushRecord, Place
<1>3. /\ r \in FlushRecord /\ r.at = "write" /\ r.total = flush[f].total
      /\ r.ids = flush[f].ids /\ r.todo = rest /\ r.row = c
      /\ r.held = cached[c] /\ r.alone = flush[f].alone
  BY <1>1 DEF FlushRecord, Place
<1>4. CASE cached[c] = Gone
  <2>1. flush' = [flush EXCEPT ![f] = q]
    BY <1>4 DEF ReadCounter, rest
  <2> HIDE DEF q
  <2>2. QED
    BY <1>2, <1>4, <2>1, OneChanges DEF GoesOn, rest
<1>5. CASE cached[c] # Gone
  <2>1. flush' = [flush EXCEPT ![f] = r]
    BY <1>5 DEF ReadCounter, rest
  <2> HIDE DEF r
  <2>2. QED
    BY <1>3, <1>5, <2>1, OneChanges DEF GoesOn, rest
<1>6. QED
  BY <1>4, <1>5

LEMMA CounterWritten ==
    ASSUME Shape, NEW f \in Flush, WriteCounter(f)
    PROVE  /\ GoesOn(f) /\ Same(f) /\ flush'[f].at = "counters"
           /\ flush'[f].total = flush[f].total
           /\ flush'[f].row = NoRow /\ flush'[f].held = Gone
<1> DEFINE r == [flush[f] EXCEPT !.at = "counters", !.row = NoRow, !.held = Gone]
<1>1. flush[f] \in FlushRecord
  BY DEF Shape
<1>2. /\ r \in FlushRecord /\ r.at = "counters" /\ r.total = flush[f].total
      /\ r.ids = flush[f].ids /\ r.todo = flush[f].todo /\ r.row = NoRow
      /\ r.held = Gone /\ r.alone = flush[f].alone
  BY <1>1, ValueFacts DEF FlushRecord, Place
<1>3. flush' = [flush EXCEPT ![f] = r]
  BY DEF WriteCounter
<1> HIDE DEF r
<1>4. QED
  BY <1>2, <1>3, OneChanges DEF GoesOn, Same

LEMMA FlushEnds ==
    ASSUME StatsAssumption, Shape, NEW f \in Flush, EndFlush(f) \/ FailFlush(f)
    PROVE  /\ flush' \in [Flush -> FlushRecord] /\ flush'[f] = NoFlush
           /\ \A g \in Flush \ {f} : flush'[g] = flush[g]
<1>1. flush' = [flush EXCEPT ![f] = NoFlush]
  BY DEF EndFlush, FailFlush
<1>2. QED
  BY <1>1, OneChanges, NoFlushShape

(* A flush starts: the others are as they were, and know of it. *)
LEMMA FlushBegins ==
    ASSUME Shape, NEW f \in Flush, NEW r \in FlushRecord, flush' = Started(f, r)
    PROVE  /\ flush' \in [Flush -> FlushRecord]
           /\ flush'[f].at = r.at /\ flush'[f].total = r.total /\ flush'[f].daily = r.daily
           /\ flush'[f].ids = r.ids /\ flush'[f].todo = r.todo
           /\ flush'[f].row = r.row /\ flush'[f].held = r.held
           /\ flush'[f].alone => \A h \in Flush : Idle(h)
           /\ \A g \in Flush \ {f} :
                /\ flush'[g].at = flush[g].at /\ flush'[g].total = flush[g].total
                /\ flush'[g].daily = flush[g].daily
                /\ flush'[g].ids = flush[g].ids /\ flush'[g].todo = flush[g].todo
                /\ flush'[g].row = flush[g].row /\ flush'[g].held = flush[g].held
                /\ ~flush'[g].alone
<1> DEFINE a == \A h \in Flush : Idle(h)
           s == [r EXCEPT !.alone = a]
           t == [g \in Flush |-> [flush[g] EXCEPT !.alone = FALSE]]
<1>1. a \in BOOLEAN
  OBVIOUS
<1>2. flush' = [g \in Flush |-> IF g = f THEN s ELSE t[g]]
  BY DEF Started
<1> HIDE DEF a
<1>3. /\ s \in FlushRecord /\ s.at = r.at /\ s.total = r.total /\ s.daily = r.daily
      /\ s.ids = r.ids /\ s.todo = r.todo /\ s.row = r.row /\ s.held = r.held /\ s.alone = a
  BY <1>1 DEF FlushRecord
<1>4. ASSUME NEW g \in Flush
      PROVE  /\ t[g] \in FlushRecord /\ t[g].at = flush[g].at /\ t[g].total = flush[g].total
             /\ t[g].daily = flush[g].daily /\ t[g].ids = flush[g].ids
             /\ t[g].todo = flush[g].todo /\ t[g].row = flush[g].row
             /\ t[g].held = flush[g].held /\ ~t[g].alone
  <2>1. flush[g] \in FlushRecord /\ t[g] = [flush[g] EXCEPT !.alone = FALSE]
    BY DEF Shape
  <2>2. QED
    BY <2>1 DEF FlushRecord
<1> HIDE DEF s, t
<1>5. flush'[f] = s /\ \A g \in Flush \ {f} : flush'[g] = t[g]
  BY <1>2
<1>6. flush' \in [Flush -> FlushRecord]
  BY <1>2, <1>3, <1>4
<1>7. flush'[f].alone = a
  BY <1>3, <1>5
<1>8. flush'[f].alone => \A h \in Flush : Idle(h)
  BY <1>7, Zenon DEF a
<1>9. /\ flush'[f].at = r.at /\ flush'[f].total = r.total /\ flush'[f].daily = r.daily
      /\ flush'[f].ids = r.ids /\ flush'[f].todo = r.todo
      /\ flush'[f].row = r.row /\ flush'[f].held = r.held
  BY <1>3, <1>5
<1>10. \A g \in Flush \ {f} :
         /\ flush'[g].at = flush[g].at /\ flush'[g].total = flush[g].total
         /\ flush'[g].daily = flush[g].daily
         /\ flush'[g].ids = flush[g].ids /\ flush'[g].todo = flush[g].todo
         /\ flush'[g].row = flush[g].row /\ flush'[g].held = flush[g].held
         /\ ~flush'[g].alone
  BY <1>4, <1>5
<1>11. QED
  BY <1>6, <1>8, <1>9, <1>10, Zenon

LEMMA TaskStarts ==
    ASSUME StatsAssumption, Shape, NEW f \in Task, StatsSaveDB(f)
    PROVE  \E r \in FlushRecord :
              /\ flush' = Started(f, r) /\ r.at = "drain" /\ r.total = total.cached
              /\ r.daily = daily /\ r.todo = {} /\ r.held = Gone
<1> DEFINE r == [NoFlush EXCEPT !.at = "drain", !.total = total.cached, !.daily = daily]
<1>1. daily \in Day /\ total.cached \in Nat
  BY DEF Shape
<1>2. /\ r \in FlushRecord /\ r.at = "drain" /\ r.total = total.cached /\ r.daily = daily
      /\ r.todo = {} /\ r.held = Gone
  BY <1>1, NoFlushShape DEF FlushRecord, Place
<1>3. flush' = Started(f, r)
  BY DEF StatsSaveDB
<1> HIDE DEF r
<1>4. QED
  BY <1>2, <1>3

LEMMA RolloverStarts ==
    ASSUME StatsAssumption, Shape, NEW f \in Rollover, StatsNewDay(f)
    PROVE  \E r \in FlushRecord :
              /\ flush' = Started(f, r) /\ r.at = "total" /\ r.total = 0
              /\ r.daily = daily /\ r.todo = {} /\ r.held = Gone
<1> DEFINE r == [NoFlush EXCEPT !.at = "total", !.daily = daily]
<1>1. daily \in Day
  BY DEF Shape
<1>2. /\ r \in FlushRecord /\ r.at = "total" /\ r.total = 0 /\ r.daily = daily
      /\ r.todo = {} /\ r.held = Gone
  BY <1>1, NoFlushShape DEF FlushRecord, Place
<1>3. flush' = Started(f, r)
  BY DEF StatsNewDay, Previous
<1> HIDE DEF r
<1>4. QED
  BY <1>2, <1>3

-----------------------------------------------------------------------------
(* The shapes hold in every state.                                         *)

LEMMA Begun ==
    ASSUME StatsAssumption, StatsInit
    PROVE  /\ cached \in [Counter -> {0, Gone}] /\ stored = cached
           /\ keys \subseteq ApiKey /\ dirty = {}
           /\ total \in [cached : Nat, stored : Nat] /\ total.stored = total.cached
           /\ daily = [date |-> 0, count |-> 0] /\ today \in 0..MaxDay
           /\ days = [d \in 0..MaxDay |-> 0] /\ used = days
           /\ flush = [f \in Flush |-> NoFlush] /\ edit = NoEdit /\ boot \in Nat
           /\ overwritten = {} /\ shrunk = {} /\ lost = {}
<1>1. PICK s \in Starts : StatsStart(s)
  BY DEF StatsInit
<1>2. /\ s.keys \subseteq ApiKey /\ s.total \in Nat
      /\ s.today \in 0..MaxDay /\ s.boot \in Nat
  BY DEF StatsAssumption
<1>3. QED
  BY <1>1, <1>2 DEF StatsStart

LEMMA InitShape ==
    ASSUME StatsAssumption, StatsInit
    PROVE  Shape
<1>1. 0 \in 0..MaxDay /\ 0 \in Value
  BY DEF StatsAssumption, Value, Gone
<1>2. cached \in [Counter -> Value] /\ stored \in [Counter -> Value]
  <2>1. {0, Gone} \subseteq Value
    BY <1>1, ValueFacts
  <2>2. cached \in [Counter -> {0, Gone}] /\ stored = cached
    BY Begun
  <2>3. QED
    BY <2>1, <2>2
<1>3. flush \in [Flush -> FlushRecord] /\ edit \in EditRecord
  BY NoFlushShape, NoEditShape, Begun
<1>4. QED
  BY <1>1, <1>2, <1>3, Begun DEF Shape, Day

LEMMA TotalPut ==
    ASSUME Shape, NEW n \in Nat
    PROVE  /\ [total EXCEPT !.cached = n] \in [cached : Nat, stored : Nat]
           /\ [total EXCEPT !.stored = n] \in [cached : Nat, stored : Nat]
           /\ [total EXCEPT !.cached = n].cached = n
           /\ [total EXCEPT !.cached = n].stored = total.stored
           /\ [total EXCEPT !.stored = n].stored = n
           /\ [total EXCEPT !.stored = n].cached = total.cached
  BY DEF Shape

LEMMA FunctionPut ==
    ASSUME NEW S, NEW T, NEW w \in [S -> T], NEW c, NEW n \in T
    PROVE  /\ [w EXCEPT ![c] = n] \in [S -> T]
           /\ \A x \in S : [w EXCEPT ![c] = n][x] = IF x = c THEN n ELSE w[x]
<1>1. [w EXCEPT ![c] = n] = [x \in S |-> IF x = c THEN n ELSE w[x]]
  OBVIOUS
<1>2. QED
  BY <1>1

LEMMA UseShape ==
    ASSUME StatsAssumption, Shape, Use
    PROVE  Shape'
<1>1. /\ cached \in [Counter -> Value] /\ total.cached \in Nat /\ today \in 0..MaxDay
      /\ used \in [0..MaxDay -> Nat] /\ daily.date \in 0..MaxDay /\ daily.count \in Nat
  BY DEF Shape, Day
<1>2. ASSUME NEW c \in Counter, StatsUpdate(c) PROVE Shape'
  <2>1. cached[c] + 1 \in Value
    <3>1. cached[c] \in Int /\ cached[c] >= Gone
      BY <1>1 DEF Value
    <3>2. QED
      BY <3>1 DEF Value, Gone
  <2>2. cached' = [cached EXCEPT ![c] = cached[c] + 1]
    BY <1>2 DEF StatsUpdate
  <2>3. cached' \in [Counter -> Value]
    BY <1>1, <2>1, <2>2, FunctionPut
  <2>4. dirty' \subseteq Counter
    BY <1>2 DEF StatsUpdate, Marked, Shape
  <2>5. QED
    BY <1>2, <2>3, <2>4 DEF StatsUpdate, Shape
<1>3. ASSUME NEW k \in ApiKey, StatsAPIKeyFirst(k) PROVE Shape'
  <2>1. cached' \in [Counter -> Value]
    BY <1>1, <1>3, ValueFacts, FunctionPut DEF StatsAPIKeyFirst
  <2>2. QED
    BY <1>3, <2>1 DEF StatsAPIKeyFirst, Shape, Counter
<1>4. ASSUME StatsSameDay \/ \E f \in Rollover : StatsNewDay(f)
      PROVE  /\ total' \in [cached : Nat, stored : Nat] /\ used' \in [0..MaxDay -> Nat]
             /\ UNCHANGED <<cached, dirty, stored, keys, days, today, edit, boot>>
  <2>1. /\ total' = [total EXCEPT !.cached = total.cached + 1]
        /\ used' = [used EXCEPT ![today] = used[today] + 1]
        /\ UNCHANGED <<cached, dirty, stored, keys, days, today, edit, boot>>
    BY <1>4 DEF StatsSameDay, StatsNewDay
  <2>2. total.cached + 1 \in Nat /\ used[today] + 1 \in Nat
    <3>1. used[today] \in Nat
      BY <1>1
    <3>2. total.cached \in Nat
      BY <1>1
    <3>3. QED
      BY <3>1, <3>2
  <2>3. QED
    BY <1>1, <2>1, <2>2, TotalPut, FunctionPut
<1>5. CASE StatsSameDay
  <2>1. daily' = [daily EXCEPT !.count = daily.count + 1] /\ daily.count + 1 \in Nat
    BY <1>1, <1>5 DEF StatsSameDay
  <2>2. daily' \in Day /\ flush' = flush
    BY <1>5, <2>1 DEF Shape, Day, StatsSameDay
  <2>3. QED
    BY <1>4, <1>5, <2>2 DEF Shape
<1>6. ASSUME NEW f \in Rollover, StatsNewDay(f) PROVE Shape'
  <2>1. daily' \in Day
    BY <1>1, <1>6 DEF StatsNewDay, Day
  <2>2. flush' \in [Flush -> FlushRecord]
    BY <1>6, RolloverStarts, FlushBegins DEF Flush
  <2>3. QED
    BY <1>4, <1>6, <2>1, <2>2 DEF Shape
<1>7. QED
  BY <1>2, <1>3, <1>5, <1>6 DEF Use

(* The steps of the flushes, and what they leave alone. *)
FlushStep(f) == (f \in Task /\ StatsSaveDB(f)) \/ Step(f) \/ FailFlush(f)

LEMMA FlushShape ==
    ASSUME StatsAssumption, Shape, NEW f \in Flush, FlushStep(f)
    PROVE  /\ Shape'
           /\ UNCHANGED <<cached, keys, daily, used, today, edit, boot, shrunk>>
<1>1. /\ flush[f] \in FlushRecord /\ flush[f].total \in Nat /\ flush[f].daily.count \in Nat
      /\ flush[f].ids \subseteq Counter /\ flush[f].held \in Value
      /\ stored \in [Counter -> Value] /\ days \in [0..MaxDay -> Nat]
  BY DEF Shape, FlushRecord, Day
<1>2. flush' \in [Flush -> FlushRecord]
  <2>1. CASE f \in Task /\ StatsSaveDB(f)
    BY <2>1, TaskStarts, FlushBegins
  <2>2. CASE Step(f)
    BY <2>2, Overridden, Drained, TotalSaved, DaySaved, CounterRead, CounterWritten, FlushEnds
    DEF Step, GoesOn
  <2>3. CASE FailFlush(f)
    BY <2>3, FlushEnds
  <2>4. QED
    BY <2>1, <2>2, <2>3 DEF FlushStep
<1>3. UNCHANGED <<cached, keys, daily, used, today, edit, boot, shrunk>>
  BY DEF FlushStep, Step, StatsSaveDB, WithDailyOverride, DrainDirtySets, SaveTotal, SaveDay,
     ReadCounter, WriteCounter, EndFlush, FailFlush, history
<1>4. dirty' = dirty \/ dirty' = {} \/ dirty' = dirty \cup flush[f].ids
  BY DEF FlushStep, Step, StatsSaveDB, WithDailyOverride, DrainDirtySets, SaveTotal, SaveDay,
     ReadCounter, WriteCounter, EndFlush, FailFlush, Restored
<1>5. total' = total \/ total' = [total EXCEPT !.stored = flush[f].total]
  BY DEF FlushStep, Step, StatsSaveDB, WithDailyOverride, DrainDirtySets, SaveTotal, SaveDay,
     ReadCounter, WriteCounter, EndFlush, FailFlush
<1>6. days' = days \/ days' = [days EXCEPT ![flush[f].daily.date] = flush[f].daily.count]
  BY DEF FlushStep, Step, StatsSaveDB, WithDailyOverride, DrainDirtySets, SaveTotal, SaveDay,
     ReadCounter, WriteCounter, EndFlush, FailFlush
<1>7. \/ stored' = stored
      \/ stored' = [stored EXCEPT ![flush[f].row] = Written(flush[f].row, flush[f].held)]
  BY DEF FlushStep, Step, StatsSaveDB, WithDailyOverride, DrainDirtySets, SaveTotal, SaveDay,
     ReadCounter, WriteCounter, EndFlush, FailFlush
<1>8. Written(flush[f].row, flush[f].held) \in Value
  BY <1>1, ValueFacts DEF Written
<1>9. total' \in [cached : Nat, stored : Nat]
  BY <1>1, <1>5, TotalPut DEF Shape
<1>10. days' \in [0..MaxDay -> Nat]
  BY <1>1, <1>6, FunctionPut
<1>11. stored' \in [Counter -> Value]
  BY <1>1, <1>7, <1>8, FunctionPut
<1>12. dirty' \subseteq Counter
  BY <1>1, <1>4 DEF Shape
<1>13. QED
  BY <1>2, <1>3, <1>9, <1>10, <1>11, <1>12 DEF Shape

LEMMA EditPut ==
    ASSUME Shape, NEW c \in Counter
    PROVE  /\ [NoEdit EXCEPT !.op = "update", !.row = c] \in EditRecord
           /\ [NoEdit EXCEPT !.op = "delete", !.row = c] \in EditRecord
           /\ [NoEdit EXCEPT !.op = "apiKey", !.row = c] \in EditRecord
           /\ [NoEdit EXCEPT !.op = "toggle", !.row = c, !.count = cached[c]] \in EditRecord
<1>1. cached[c] \in Value
  BY DEF Shape
<1>2. ASSUME NEW o \in {"update", "delete", "apiKey"}
      PROVE  [NoEdit EXCEPT !.op = o, !.row = c] \in EditRecord
  BY NoEditShape DEF EditRecord
<1>3. [NoEdit EXCEPT !.op = "toggle", !.row = c, !.count = cached[c]] \in EditRecord
  BY <1>1, NoEditShape DEF EditRecord
<1>4. QED
  BY <1>2, <1>3

LEMMA AdminShape ==
    ASSUME StatsAssumption, Shape, Admin
    PROVE  Shape' /\ UNCHANGED <<total, daily, days, used, today, flush, boot, lost>>
<1>1. /\ cached \in [Counter -> Value] /\ stored \in [Counter -> Value] /\ edit \in EditRecord
      /\ edit.count \in Value /\ edit.rows \in [Counter -> Value] /\ Gone \in Value
  BY ValueFacts DEF Shape, EditRecord
<1>2. UNCHANGED <<total, daily, days, used, today, flush, boot, lost>>
  BY DEF Admin, ChannelUpdate, ChannelDel, StatsAPIKeyDel, ChannelEnabled, ReloadChannelChildren,
     DropRow, DeleteAPIKeyRow, PutBack, ReadRows, PutRows, history
<1>3. dirty' \subseteq Counter /\ keys' \subseteq ApiKey
  BY DEF Shape, Admin, ChannelUpdate, ChannelDel, StatsAPIKeyDel, ChannelEnabled,
     ReloadChannelChildren, DropRow, DeleteAPIKeyRow, PutBack, ReadRows, PutRows
<1>4. edit' \in EditRecord
  <2>1. CASE edit' = NoEdit
    BY <2>1, NoEditShape
  <2>2. CASE ReadRows
    BY <1>1, <2>2, NoEditShape DEF ReadRows, EditRecord
  <2>3. ASSUME NEW c \in Counter,
               ChannelUpdate(c) \/ ChannelDel(c) \/ StatsAPIKeyDel(c) \/ ChannelEnabled(c)
        PROVE  edit' \in EditRecord
    BY <2>3, EditPut DEF ChannelUpdate, ChannelDel, StatsAPIKeyDel, ChannelEnabled
  <2>4. QED
    BY <2>1, <2>2, <2>3 DEF Admin, ReloadChannelChildren, DropRow, DeleteAPIKeyRow, PutBack, PutRows
<1>5. stored' \in [Counter -> Value]
  <2>1. stored' = stored \/ \E c : stored' = [stored EXCEPT ![c] = Gone]
    BY DEF Admin, ChannelUpdate, ChannelDel, StatsAPIKeyDel, ChannelEnabled,
       ReloadChannelChildren, DropRow, DeleteAPIKeyRow, PutBack, ReadRows, PutRows
  <2>2. QED
    BY <1>1, <2>1, FunctionPut
<1>6. cached' \in [Counter -> Value]
  <2>1. CASE PutRows
    BY <1>1, <2>1 DEF PutRows
  <2>2. CASE PutBack
    BY <1>1, <2>2, FunctionPut DEF PutBack
  <2>3. CASE ReloadChannelChildren
    BY <1>1, <2>3 DEF ReloadChannelChildren, Carried
  <2>4. ASSUME ~PutRows, ~PutBack, ~ReloadChannelChildren
        PROVE  cached' = cached \/ \E c : cached' = [cached EXCEPT ![c] = Gone]
    BY <2>4 DEF Admin, ChannelUpdate, ChannelDel, StatsAPIKeyDel, ChannelEnabled,
       DropRow, DeleteAPIKeyRow, ReadRows
  <2>5. ASSUME NEW c, cached' = [cached EXCEPT ![c] = Gone]
        PROVE  cached' \in [Counter -> Value]
    <3>1. CASE c \in Counter
      BY <1>1, <2>5, <3>1, FunctionPut
    <3>2. CASE c \notin Counter
      <4>1. cached' = cached
        BY <1>1, <2>5, <3>2
      <4>2. QED
        BY <1>1, <4>1
    <3>3. QED
      BY <3>1, <3>2
  <2>6. QED
    BY <1>1, <2>1, <2>2, <2>3, <2>4, <2>5
<1>7. QED
  BY <1>2, <1>3, <1>4, <1>5, <1>6 DEF Shape

LEMMA RestartShape ==
    ASSUME StatsAssumption, Shape, Restart
    PROVE  Shape'
<1>1. total.stored \in Nat /\ total' = [total EXCEPT !.cached = total.stored]
  BY DEF Restart, Shape
<1>2. total' \in [cached : Nat, stored : Nat]
  BY <1>1, TotalPut
<1>3. daily' \in Day
  BY DEF Shape, Restart, LoadedDay, Day
<1>4. flush' \in [Flush -> FlushRecord] /\ edit' \in EditRecord
  BY NoFlushShape, NoEditShape DEF Restart
<1>5. /\ cached' \in [Counter -> Value] /\ stored' \in [Counter -> Value]
      /\ dirty' \subseteq Counter /\ keys' \subseteq ApiKey
      /\ days' \in [0..MaxDay -> Nat] /\ used' \in [0..MaxDay -> Nat] /\ today' \in 0..MaxDay
  BY DEF Shape, Restart
<1>6. boot' \in Nat
  <2>1. boot \in Nat /\ boot' = boot + 1
    BY DEF Shape, Restart
  <2>2. QED
    BY <2>1
<1>7. QED
  BY <1>2, <1>3, <1>4, <1>5, <1>6 DEF Shape

LEMMA ShapeNext ==
    ASSUME StatsAssumption, Shape, [StatsNext]_statsVars
    PROVE  Shape'
<1>1. CASE Midnight \/ UNCHANGED statsVars
  BY <1>1 DEF Shape, Midnight, statsVars, StatsAssumption
<1>2. CASE \E f \in Flush : FlushStep(f)
  BY <1>2, FlushShape
<1>3. QED
  BY <1>1, <1>2, UseShape, AdminShape, RestartShape DEF StatsNext, FlushStep, Flush

(* Every variable keeps its shape: what a flush holds is a counter's value *)
(* or nothing, what an edit has read are rows, and every day has its row   *)
(* (internal/op/stats.go, internal/op/channel.go).                         *)
THEOREM FlushShapes == StatsSpec => []Shape
<1>1. StatsInit => Shape
  BY InitShape, StatsAssumption
<1>2. Shape /\ [StatsNext]_statsVars => Shape'
  BY ShapeNext, StatsAssumption
<1>3. QED
  BY <1>1, <1>2, PTL DEF StatsSpec

-----------------------------------------------------------------------------
(* The marks.                                                              *)

(* A flush before its turn of the counters has nothing to do, one that is  *)
(* not writing holds nothing, and what it has to do is part of what it     *)
(* took and would give back.                                               *)
Working ==
    \A f \in Flush :
        /\ flush[f].todo \subseteq flush[f].ids
        /\ flush[f].at \in {"idle", "total", "drain"} => flush[f].todo = {}
        /\ flush[f].at = "write" => flush[f].row \in flush[f].ids
        /\ flush[f].at # "write" => flush[f].held = Gone

(* The copy that is put back is no newer than the counter. *)
OldCopy == edit.op = "toggle" => edit.row \in Counter /\ edit.count <= cached[edit.row]

(* Counter c is before flush f, or in its hands. *)
Has(f, c) == c \in flush[f].todo \/ (flush[f].row = c /\ flush[f].held >= cached[c])

Marks == Working /\ OldCopy /\ NothingForgotten

LEMMA MarksInit ==
    ASSUME StatsAssumption, StatsInit
    PROVE  Marks
<1>1. \A f \in Flush : flush[f] = NoFlush
  BY Begun
<1>2. Working
  BY <1>1, NoFlushShape DEF Working
<1>3. OldCopy
  BY NoEditShape, Begun DEF OldCopy
<1>4. NothingForgotten
  BY Begun DEF NothingForgotten, Owned, Counter, Gone
<1>5. QED
  BY <1>2, <1>3, <1>4 DEF Marks

(* A step that leaves the flushes alone. *)
LEMMA CountersOnly ==
    ASSUME Shape, Marks, Shape', UNCHANGED flush, OldCopy',
           \A c \in Owned' \ overwritten' : cached'[c] > stored'[c] =>
               \/ c \in dirty'
               \/ /\ c \in Owned \ overwritten /\ cached[c] > stored[c]
                  /\ cached[c] >= cached'[c] /\ (c \in dirty => c \in dirty')
    PROVE  Marks'
<1>1. Working'
  BY DEF Marks, Working
<1>2. NothingForgotten'
  <2> SUFFICES ASSUME NEW c \in Owned' \ overwritten', cached'[c] > stored'[c], c \notin dirty'
               PROVE  \E f \in Flush : Has(f, c)'
    BY DEF NothingForgotten, Has
  <2>1. /\ c \in Owned \ overwritten /\ cached[c] > stored[c] /\ c \notin dirty
        /\ cached[c] >= cached'[c]
    OBVIOUS
  <2>2. PICK f \in Flush : Has(f, c)
    BY <2>1 DEF Marks, NothingForgotten, Has
  <2>3. /\ c \in Counter /\ cached[c] \in Int /\ cached'[c] \in Int /\ flush[f].held \in Int
    BY <2>1 DEF Shape, Owned, Counter, FlushRecord, Value
  <2>4. Has(f, c)'
    BY <2>1, <2>2, <2>3 DEF Has
  <2>5. QED
    BY <2>4
<1>3. QED
  BY <1>1, <1>2 DEF Marks

(* A step of flush f. *)
LEMMA MarksOnly ==
    ASSUME Shape, Marks, UNCHANGED <<cached, keys, edit>>,
           NEW f \in Flush,
           \A g \in Flush \ {f} :
               /\ flush'[g].at = flush[g].at /\ flush'[g].ids = flush[g].ids
               /\ flush'[g].todo = flush[g].todo
               /\ flush'[g].row = flush[g].row /\ flush'[g].held = flush[g].held,
           flush'[f].todo \subseteq flush'[f].ids,
           flush'[f].at \in {"idle", "total", "drain"} => flush'[f].todo = {},
           flush'[f].at = "write" => flush'[f].row \in flush'[f].ids,
           flush'[f].at # "write" => flush'[f].held = Gone,
           \A c \in Owned' \ overwritten' : cached[c] > stored'[c] =>
               \/ c \in dirty' \/ Has(f, c)'
               \/ /\ c \in Owned \ overwritten /\ cached[c] > stored[c]
                  /\ ~(c \in dirty /\ c \notin dirty') /\ ~Has(f, c)
    PROVE  Marks'
<1>1. Working'
  BY DEF Marks, Working
<1>2. OldCopy'
  BY DEF Marks, OldCopy
<1>3. NothingForgotten'
  <2> SUFFICES ASSUME NEW c \in Owned' \ overwritten', cached[c] > stored'[c], c \notin dirty'
               PROVE  \E g \in Flush : Has(g, c)'
    BY DEF NothingForgotten, Has
  <2>1. CASE Has(f, c)'
    BY <2>1
  <2>2. CASE ~Has(f, c)'
    <3>1. c \in Owned \ overwritten /\ cached[c] > stored[c] /\ c \notin dirty /\ ~Has(f, c)
      BY <2>2
    <3>2. PICK g \in Flush : Has(g, c)
      BY <3>1 DEF Marks, NothingForgotten, Has
    <3>3. Has(g, c)'
      BY <3>1, <3>2 DEF Has
    <3>4. QED
      BY <3>3
  <2>3. QED
    BY <2>1, <2>2
<1>4. QED
  BY <1>1, <1>2, <1>3 DEF Marks

LEMMA UseMarks ==
    ASSUME StatsAssumption, Shape, Shape', Marks, Use
    PROVE  Marks'
<1>1. /\ cached \in [Counter -> Int] /\ stored \in [Counter -> Int] /\ Owned \subseteq Counter
      /\ \A c \in Counter : cached[c] >= -1 /\ stored[c] >= -1
  BY Numbers DEF Shape, Owned, Counter
<1>2. ASSUME NEW c \in Counter, StatsUpdate(c) PROVE Marks'
  <2>1. \A d \in Counter : cached'[d] >= cached[d] /\ (d # c => cached'[d] = cached[d])
    BY <1>1, <1>2 DEF StatsUpdate
  <2>2. UNCHANGED <<stored, keys, flush, edit>> /\ dirty' = dirty \cup {c}
    BY <1>2 DEF StatsUpdate, Marked
  <2>3. OldCopy'
    <3> SUFFICES ASSUME edit.op = "toggle" PROVE edit.count <= cached'[edit.row] /\ edit.row \in Counter
      BY <2>2 DEF OldCopy
    <3>1. edit.row \in Counter /\ edit.count <= cached[edit.row]
      BY DEF Marks, OldCopy
    <3>2. edit.count \in Int /\ cached[edit.row] \in Int /\ cached'[edit.row] \in Int
      BY <3>1 DEF Shape, EditRecord, Value
    <3>3. QED
      BY <2>1, <3>1, <3>2
  <2>4. ASSUME NEW d \in Owned' \ overwritten', cached'[d] > stored'[d], d \notin dirty'
        PROVE  /\ d \in Owned \ overwritten /\ cached[d] > stored[d] /\ cached[d] >= cached'[d]
               /\ d \notin dirty
    <3>1. d \in Owned /\ d # c /\ d \in Counter
      BY <1>1, <2>2, <2>4 DEF Owned
    <3>2. overwritten' = overwritten \ {c}
      BY <1>2 DEF StatsUpdate
    <3>3. QED
      BY <1>1, <2>1, <2>2, <2>4, <3>1, <3>2
  <2>5. QED
    BY <2>2, <2>3, <2>4, CountersOnly
<1>3. ASSUME NEW k \in ApiKey, StatsAPIKeyFirst(k) PROVE Marks'
  <2>1. \A d \in Counter : cached'[d] >= cached[d] /\ (d # k => cached'[d] = cached[d])
    BY <1>1, <1>3 DEF StatsAPIKeyFirst, Gone
  <2>2. UNCHANGED <<stored, keys, flush, edit>> /\ dirty' = dirty \cup {k}
    BY <1>3 DEF StatsAPIKeyFirst
  <2>3. OldCopy'
    <3> SUFFICES ASSUME edit.op = "toggle" PROVE edit.count <= cached'[edit.row] /\ edit.row \in Counter
      BY <2>2 DEF OldCopy
    <3>1. edit.row \in Counter /\ edit.count <= cached[edit.row]
      BY DEF Marks, OldCopy
    <3>2. edit.count \in Int /\ cached[edit.row] \in Int /\ cached'[edit.row] \in Int
      BY <3>1 DEF Shape, EditRecord, Value
    <3>3. QED
      BY <2>1, <3>1, <3>2
  <2>4. ASSUME NEW d \in Owned' \ overwritten', cached'[d] > stored'[d], d \notin dirty'
        PROVE  /\ d \in Owned \ overwritten /\ cached[d] > stored[d] /\ cached[d] >= cached'[d]
               /\ d \notin dirty
    <3>1. d \in Owned /\ d # k /\ d \in Counter
      BY <1>1, <2>2, <2>4 DEF Owned
    <3>2. overwritten' = overwritten \ {k}
      BY <1>3 DEF StatsAPIKeyFirst
    <3>3. QED
      BY <1>1, <2>1, <2>2, <2>4, <3>1, <3>2
  <2>5. QED
    BY <2>2, <2>3, <2>4, CountersOnly
<1>4. CASE StatsSameDay
  <2>1. UNCHANGED <<cached, dirty, stored, keys, flush, edit, overwritten>>
    BY <1>4 DEF StatsSameDay, history
  <2>2. OldCopy' /\ Owned' = Owned
    BY <2>1 DEF Marks, OldCopy, Owned
  <2>3. QED
    BY <1>1, <2>1, <2>2, CountersOnly
<1>5. ASSUME NEW f \in Rollover, StatsNewDay(f) PROVE Marks'
  <2>1. /\ UNCHANGED <<cached, dirty, stored, keys, edit, overwritten>> /\ f \in Flush
        /\ flush[f].at = "idle"
    BY <1>5 DEF StatsNewDay, history, Idle, Flush
  <2>2. PICK r \in FlushRecord : /\ flush' = Started(f, r) /\ r.at = "total"
                                 /\ r.todo = {} /\ r.held = Gone
    BY <1>5, RolloverStarts
  <2>3. flush[f].todo = {} /\ flush[f].held = Gone
    BY <2>1 DEF Marks, Working
  <2>4. \A c \in Owned' \ overwritten' : cached[c] > stored'[c] =>
            c \in Owned \ overwritten /\ cached[c] > stored[c] /\ c \in Counter /\ ~Has(f, c)
    BY <1>1, <2>1, <2>3 DEF Owned, Has, Gone
  <2>5. QED
    BY <2>1, <2>2, <2>4, FlushBegins, MarksOnly
<1>6. QED
  BY <1>2, <1>3, <1>4, <1>5 DEF Use

LEMMA FlushMarks ==
    ASSUME StatsAssumption, Shape, Shape', Marks, NEW f \in Flush, FlushStep(f)
    PROVE  Marks'
<1>1. /\ cached \in [Counter -> Int] /\ stored \in [Counter -> Int] /\ Owned \subseteq Counter
      /\ \A c \in Counter : cached[c] >= -1 /\ stored[c] >= -1
      /\ UNCHANGED <<cached, keys, edit>> /\ flush[f] \in FlushRecord /\ flush[f].held \in Int
  BY FlushShape, Numbers DEF Shape, Owned, Counter
<1>2. CASE f \in Task /\ StatsSaveDB(f)
  <2>1. UNCHANGED <<dirty, stored, overwritten>> /\ flush[f].at = "idle"
    BY <1>2 DEF StatsSaveDB, Begin, history, Idle
  <2>2. PICK r \in FlushRecord : /\ flush' = Started(f, r) /\ r.at = "drain"
                                 /\ r.todo = {} /\ r.held = Gone
    BY <1>2, TaskStarts
  <2>3. flush[f].todo = {} /\ flush[f].held = Gone
    BY <2>1 DEF Marks, Working
  <2>4. \A c \in Owned' \ overwritten' : cached[c] > stored'[c] =>
            c \in Owned \ overwritten /\ cached[c] > stored[c] /\ ~Has(f, c)
    BY <1>1, <2>1, <2>3 DEF Owned, Has, Gone
  <2>5. QED
    BY <1>1, <2>1, <2>2, <2>4, FlushBegins, MarksOnly
<1>3. CASE WithDailyOverride(f) \/ SaveTotal(f) \/ SaveDay(f)
  <2>1. /\ UNCHANGED <<dirty, stored, overwritten>>
        /\ flush[f].at \in {"total", "saveTotal", "saveDay"}
        /\ WithDailyOverride(f) => flush[f].at = "total"
    BY <1>3 DEF WithDailyOverride, SaveTotal, SaveDay, history
  <2>2. /\ GoesOn(f) /\ Same(f) /\ flush'[f].row = flush[f].row /\ flush'[f].held = flush[f].held
        /\ flush'[f].at \in {"drain", "saveDay", "counters"}
        /\ flush'[f].at = "drain" => flush[f].at = "total"
    BY <1>3, <2>1, Overridden, TotalSaved, DaySaved
  <2>3. flush[f].held = Gone /\ flush[f].todo \subseteq flush[f].ids
        /\ (flush[f].at = "total" => flush[f].todo = {})
    BY <2>1 DEF Marks, Working
  <2>4. \A c \in Owned' \ overwritten' : cached[c] > stored'[c] =>
            /\ c \in Owned \ overwritten /\ cached[c] > stored[c] /\ c \in Counter
            /\ (Has(f, c) => Has(f, c)')
    BY <1>1, <2>1, <2>2 DEF Owned, Has, Same
  <2>5. QED
    BY <1>1, <2>1, <2>2, <2>3, <2>4, MarksOnly DEF GoesOn, Same
<1>4. CASE DrainDirtySets(f)
  <2>1. UNCHANGED <<stored, overwritten>> /\ dirty' = {} /\ flush[f].at = "drain"
    BY <1>4 DEF DrainDirtySets, history
  <2>2. /\ GoesOn(f) /\ flush'[f].at = "saveTotal" /\ flush'[f].ids = dirty
        /\ flush'[f].todo = dirty /\ flush'[f].held = flush[f].held
    BY <1>4, Drained
  <2>3. flush[f].todo = {} /\ flush[f].held = Gone
    BY <2>1 DEF Marks, Working
  <2>4. ASSUME NEW c \in Owned' \ overwritten', cached[c] > stored'[c]
        PROVE  /\ c \in Owned \ overwritten /\ cached[c] > stored[c]
               /\ ~Has(f, c) /\ (c \in dirty => Has(f, c)')
    <3>1. c \in Owned \ overwritten /\ cached[c] > stored[c] /\ c \in Counter
      BY <1>1, <2>1, <2>4 DEF Owned
    <3>2. ~(Gone >= cached[c])
      BY <1>1, <3>1 DEF Gone
    <3>3. QED
      BY <2>2, <2>3, <3>1, <3>2 DEF Has
  <2>5. QED
    BY <1>1, <2>1, <2>2, <2>3, <2>4, MarksOnly DEF GoesOn
<1>5. ASSUME NEW d \in Counter, ReadCounter(f, d) PROVE Marks'
  <2>1. UNCHANGED <<dirty, stored, overwritten>> /\ flush[f].at = "counters" /\ d \in flush[f].todo
    BY <1>5 DEF ReadCounter, history
  <2>2. /\ GoesOn(f) /\ flush'[f].ids = flush[f].ids /\ flush'[f].todo = flush[f].todo \ {d}
        /\ \/ /\ cached[d] = Gone /\ flush'[f].at = "counters"
              /\ flush'[f].row = flush[f].row /\ flush'[f].held = flush[f].held
           \/ /\ cached[d] # Gone /\ flush'[f].at = "write"
              /\ flush'[f].row = d /\ flush'[f].held = cached[d]
    BY <1>5, CounterRead
  <2>3. flush[f].held = Gone /\ flush[f].todo \subseteq flush[f].ids
    BY <2>1 DEF Marks, Working
  <2>4. ASSUME NEW c \in Owned' \ overwritten', cached[c] > stored'[c]
        PROVE  /\ c \in Owned \ overwritten /\ cached[c] > stored[c]
               /\ (Has(f, c) => Has(f, c)')
    <3>1. c \in Owned \ overwritten /\ cached[c] > stored[c] /\ c \in Counter
      BY <1>1, <2>1, <2>4 DEF Owned
    <3>2. cached[c] > Gone /\ cached[c] >= cached[c]
      BY <1>1, <3>1 DEF Gone
    <3>3. Has(f, c) => c \in flush[f].todo
      BY <1>1, <2>3, <3>1, <3>2 DEF Has, Gone
    <3>4. CASE c = d
      BY <1>1, <2>2, <3>1, <3>2, <3>4 DEF Has
    <3>5. CASE c # d
      BY <2>2, <3>1, <3>3, <3>5 DEF Has
    <3>6. QED
      BY <3>1, <3>4, <3>5
  <2>5. QED
    BY <1>1, <2>1, <2>2, <2>3, <2>4, MarksOnly DEF GoesOn
<1>6. CASE WriteCounter(f)
  <2> DEFINE d == flush[f].row
  <2>1. /\ UNCHANGED <<dirty, keys>> /\ flush[f].at = "write"
        /\ stored' = [stored EXCEPT ![d] = Written(d, flush[f].held)]
        /\ overwritten' = IF stored'[d] < stored[d] THEN overwritten \cup {d} ELSE overwritten
    BY <1>1, <1>6 DEF WriteCounter
  <2>2. /\ GoesOn(f) /\ Same(f) /\ flush'[f].at = "counters"
        /\ flush'[f].row = NoRow /\ flush'[f].held = Gone
    BY <1>6, CounterWritten
  <2>3. /\ flush[f].todo \subseteq flush[f].ids /\ d \in flush[f].ids /\ d \in Counter
    BY <1>1, <2>1 DEF Marks, Working, FlushRecord
  <2>4. ASSUME NEW c \in Owned' \ overwritten', cached[c] > stored'[c]
        PROVE  /\ c \in Owned \ overwritten /\ cached[c] > stored[c]
               /\ (Has(f, c) => Has(f, c)')
    <3>1. /\ stored' \in [Counter -> Int] /\ c \in Counter
          /\ c \in Owner => stored'[c] # Gone
      <4>1. \A x \in Counter : stored'[x] \in Value
        BY DEF Shape
      <4>2. stored' \in [Counter -> Int]
        BY <4>1 DEF Shape, Value
      <4>3. QED
        BY <2>4, <4>2 DEF Shape, Owned, Counter, StatsAssumption
    <3>2. CASE c # d
      <4>1. stored'[c] = stored[c] /\ c \in Owned \ overwritten
        BY <1>1, <2>1, <2>4, <3>1, <3>2 DEF Owned
      <4>2. Has(f, c) => c \in flush[f].todo
        BY <3>2 DEF Has
      <4>3. QED
        BY <2>2, <2>4, <4>1, <4>2 DEF Has, Same
    <3>3. CASE c = d
      <4>1. stored'[c] = Written(c, flush[f].held)
        BY <1>1, <2>1, <3>1, <3>3
      <4>2. stored'[c] = flush[f].held /\ (c \in Owner => stored[c] # Gone)
        BY <3>1, <4>1 DEF Written
      <4>3. c \notin overwritten /\ ~(stored'[c] < stored[c])
        BY <2>1, <2>4, <3>3
      <4>4. c \in Owned
        BY <2>1, <2>4, <4>2 DEF Owned
      <4>5. cached[c] > stored[c] /\ ~(flush[f].held >= cached[c])
        BY <1>1, <2>3, <2>4, <3>1, <4>2, <4>3
      <4>6. Has(f, c) => Has(f, c)'
        BY <2>2, <4>5 DEF Has, Same
      <4>7. QED
        BY <4>3, <4>4, <4>5, <4>6
    <3>4. QED
      BY <3>2, <3>3
  <2>5. QED
    BY <1>1, <2>1, <2>2, <2>3, <2>4, MarksOnly DEF GoesOn, Same
<1>7. CASE EndFlush(f) \/ FailFlush(f)
  <2>1. /\ UNCHANGED <<stored, overwritten>>
        /\ \/ flush[f].todo = {} /\ flush[f].at = "counters" /\ dirty' = dirty
           \/ dirty' = dirty \cup flush[f].ids
    BY <1>7 DEF EndFlush, FailFlush, Restored, history
  <2>2. flush'[f] = NoFlush /\ \A g \in Flush \ {f} : flush'[g] = flush[g]
    BY <1>7, FlushEnds
  <2>3. /\ flush[f].todo \subseteq flush[f].ids
        /\ flush[f].at = "write" => flush[f].row \in flush[f].ids
        /\ flush[f].at # "write" => flush[f].held = Gone
    BY DEF Marks, Working
  <2>4. ASSUME NEW c \in Owned' \ overwritten', cached[c] > stored'[c], c \notin dirty'
        PROVE  c \in Owned \ overwritten /\ cached[c] > stored[c] /\ c \notin dirty /\ ~Has(f, c)
    <3>1. c \in Owned \ overwritten /\ cached[c] > stored[c] /\ c \in Counter /\ c \notin dirty
      BY <1>1, <2>1, <2>4 DEF Owned
    <3>2. ~(Gone >= cached[c])
      BY <1>1, <3>1 DEF Gone
    <3>3. QED
      BY <2>1, <2>3, <2>4, <3>1, <3>2 DEF Has
  <2>5. QED
    BY <1>1, <2>2, <2>4, NoFlushShape, MarksOnly
<1>8. QED
  BY <1>2, <1>3, <1>4, <1>5, <1>6, <1>7 DEF FlushStep, Step

LEMMA AdminMarks ==
    ASSUME StatsAssumption, Shape, Shape', Marks, Admin
    PROVE  Marks'
<1>1. /\ cached \in [Counter -> Int] /\ stored \in [Counter -> Int] /\ Owned \subseteq Counter
      /\ \A c \in Counter : cached[c] >= -1 /\ stored[c] >= -1
      /\ keys \subseteq ApiKey /\ flush' = flush /\ Gone = -1
      /\ edit.count \in Int /\ \A c \in Counter : edit.rows[c] \in Int
  BY Numbers, AdminShape DEF Shape, Owned, Counter
<1>2. NoEdit.op = "none" /\ Owner \cap ApiKey = {} /\ Counter = Owner \cup ApiKey
  BY NoEditShape DEF StatsAssumption, Counter
(* The counters stay, and so do the rows that still have an owner. *)
<1>3. ASSUME UNCHANGED <<cached, dirty, overwritten>>, OldCopy',
             \A c \in Owned' : c \in Owned /\ stored'[c] = stored[c]
      PROVE  Marks'
  BY <1>1, <1>3, CountersOnly
<1>4. ASSUME NEW c \in Counter, ChannelUpdate(c) PROVE Marks'
  <2>1. UNCHANGED <<cached, dirty, overwritten, stored, keys>> /\ edit'.op = "update"
    BY <1>4, NoEditShape DEF ChannelUpdate, history, EditRecord
  <2>2. QED
    BY <1>3, <2>1 DEF OldCopy, Owned
<1>5. ASSUME NEW c \in Counter, ChannelDel(c) PROVE Marks'
  <2>1. /\ UNCHANGED <<cached, dirty, overwritten, keys>> /\ edit'.op = "delete"
        /\ stored' = [stored EXCEPT ![c] = Gone] /\ c \in Owner
    BY <1>5, NoEditShape DEF ChannelDel, history, EditRecord
  <2>2. \A o \in Owned' : o \in Owned /\ stored'[o] = stored[o]
    BY <1>1, <1>2, <2>1 DEF Owned
  <2>3. QED
    BY <1>3, <2>1, <2>2 DEF OldCopy
<1>6. ASSUME NEW c \in Counter, ChannelEnabled(c) PROVE Marks'
  <2>1. /\ UNCHANGED <<cached, dirty, overwritten, stored, keys>>
        /\ edit'.row = c /\ edit'.count = cached[c]
    BY <1>6, NoEditShape DEF ChannelEnabled, history, EditRecord
  <2>2. QED
    BY <1>1, <1>3, <2>1 DEF OldCopy, Owned
<1>7. CASE ReadRows
  <2>1. UNCHANGED <<cached, dirty, overwritten, stored, keys>> /\ edit'.op = "refresh"
    BY <1>7, NoEditShape DEF ReadRows, history, EditRecord
  <2>2. QED
    BY <1>3, <2>1 DEF OldCopy, Owned
<1>8. CASE DeleteAPIKeyRow
  <2>1. /\ UNCHANGED <<cached, dirty, overwritten>> /\ edit' = NoEdit
        /\ stored' = [stored EXCEPT ![edit.row] = Gone] /\ keys' = keys \ {edit.row}
    BY <1>8 DEF DeleteAPIKeyRow, history
  <2>2. \A o \in Owned' : o \in Owned /\ stored'[o] = stored[o]
    BY <1>1, <1>2, <2>1 DEF Owned
  <2>3. QED
    BY <1>2, <1>3, <2>1, <2>2 DEF OldCopy
<1>9. CASE ReloadChannelChildren
  <2>1. /\ UNCHANGED <<dirty, overwritten, stored, keys>> /\ edit' = NoEdit
        /\ cached' = [cached EXCEPT ![edit.row] = cached[edit.row]]
    BY <1>9 DEF ReloadChannelChildren, Carried, history
  <2>2. cached' = cached
    BY <1>1, <2>1
  <2>3. QED
    BY <1>2, <1>3, <2>1, <2>2 DEF OldCopy, Owned
(* A counter gets smaller, or leaves the memory. *)
<1>10. ASSUME UNCHANGED <<stored, keys>>, edit' = NoEdit,
              \A c \in Counter : cached'[c] \in Int /\ cached'[c] <= cached[c],
              \A c \in Counter : c \in dirty => c \in dirty' \/ cached'[c] = Gone,
              overwritten \subseteq overwritten'
      PROVE  Marks'
  <2>1. OldCopy'
    BY <1>2, <1>10 DEF OldCopy
  <2>2. ASSUME NEW c \in Owned' \ overwritten', cached'[c] > stored'[c]
        PROVE  /\ c \in Owned \ overwritten /\ cached[c] > stored[c]
               /\ cached[c] >= cached'[c] /\ (c \in dirty => c \in dirty')
    <3>1. c \in Owned \ overwritten /\ c \in Counter /\ stored'[c] = stored[c]
      BY <1>1, <1>10, <2>2 DEF Owned
    <3>2. cached[c] \in Int /\ stored[c] \in Int /\ cached'[c] \in Int /\ stored[c] >= -1
      BY <1>1, <1>10, <3>1
    <3>3. QED
      BY <1>1, <1>10, <2>2, <3>1, <3>2
  <2>3. QED
    BY <1>1, <2>1, <2>2, CountersOnly
<1>11. ASSUME NEW x, cached' = [cached EXCEPT ![x] = Gone]
       PROVE  /\ \A c \in Counter : cached'[c] \in Int /\ cached'[c] <= cached[c]
              /\ x \in Counter => cached'[x] = Gone
  BY <1>1, <1>11
<1>12. CASE DropRow
  <2>1. /\ UNCHANGED <<stored, keys, overwritten>> /\ edit' = NoEdit
        /\ cached' = [cached EXCEPT ![edit.row] = Gone]
        /\ dirty' = dirty \/ dirty' = dirty \ {edit.row}
    BY <1>12 DEF DropRow
  <2>2. \A c \in Counter : c \in dirty => c \in dirty' \/ cached'[c] = Gone
    BY <1>11, <2>1
  <2>3. QED
    BY <1>10, <1>11, <2>1, <2>2
<1>13. ASSUME NEW k \in Counter, StatsAPIKeyDel(k) PROVE Marks'
  <2>1. /\ UNCHANGED <<stored, keys, overwritten>> /\ edit'.op = "apiKey"
        /\ cached' = [cached EXCEPT ![k] = Gone] /\ dirty' = dirty \ {k}
    BY <1>13, NoEditShape DEF StatsAPIKeyDel, EditRecord
  <2>2. ASSUME NEW c \in Owned' \ overwritten', cached'[c] > stored'[c]
        PROVE  /\ c \in Owned \ overwritten /\ cached[c] > stored[c]
               /\ cached[c] >= cached'[c] /\ (c \in dirty => c \in dirty')
    <3>1. c \in Owned \ overwritten /\ c \in Counter /\ stored'[c] = stored[c]
      BY <1>1, <2>1, <2>2 DEF Owned
    <3>2. cached'[c] > stored[c] /\ stored[c] \in Int /\ stored[c] >= -1 /\ cached[c] \in Int
      BY <1>1, <2>2, <3>1
    <3>3. cached'[k] = -1
      BY <1>1, <1>11, <2>1
    <3>4. c # k
      BY <3>2, <3>3
    <3>5. cached'[c] = cached[c]
      BY <1>1, <2>1, <3>1, <3>4
    <3>6. c \in dirty => c \in dirty'
      BY <2>1, <3>4
    <3>7. QED
      BY <3>1, <3>2, <3>5, <3>6
  <2>3. QED
    BY <1>1, <2>1, <2>2, CountersOnly DEF OldCopy
<1>14. CASE PutBack
  <2>1. /\ UNCHANGED <<stored, keys, dirty, overwritten>> /\ edit' = NoEdit
        /\ cached' = [cached EXCEPT ![edit.row] = edit.count]
        /\ edit.row \in Counter /\ edit.count <= cached[edit.row]
    BY <1>14 DEF PutBack, Marks, OldCopy
  <2>2. \A c \in Counter : cached'[c] \in Int /\ cached'[c] <= cached[c]
    BY <1>1, <2>1
  <2>3. QED
    BY <1>10, <2>1, <2>2
(* Rows replace the counters: none is ahead of its row, but for those that *)
(* a flush has turned back in between.                                     *)
<1>15. CASE PutRows
  <2>1. /\ UNCHANGED <<stored, keys, dirty>> /\ edit' = NoEdit
        /\ cached' = [c \in Counter |-> IF c \in Owner THEN edit.rows[c] ELSE cached[c]]
        /\ overwritten' = overwritten \cup {c \in Owner : edit.rows[c] > stored[c]}
    BY <1>15 DEF PutRows
  <2>2. ASSUME NEW c \in Owned' \ overwritten', cached'[c] > stored'[c]
        PROVE  /\ c \in Owned \ overwritten /\ cached[c] > stored[c]
               /\ cached[c] >= cached'[c] /\ (c \in dirty => c \in dirty')
    <3>1. c \in Owned \ overwritten /\ c \in Counter
      BY <1>1, <2>1 DEF Owned
    <3>2. c \notin Owner
      BY <2>1, <2>2, <3>1
    <3>3. cached'[c] = cached[c] /\ cached[c] \in Int
      BY <1>1, <2>1, <3>1, <3>2
    <3>4. QED
      BY <2>1, <2>2, <3>1, <3>3
  <2>3. OldCopy'
    BY <1>2, <2>1 DEF OldCopy
  <2>4. QED
    BY <1>1, <2>2, <2>3, CountersOnly
<1>16. QED
  BY <1>4, <1>5, <1>6, <1>7, <1>8, <1>9, <1>12, <1>13, <1>14, <1>15 DEF Admin

LEMMA MarksNext ==
    ASSUME StatsAssumption, Shape, Shape', Marks, [StatsNext]_statsVars
    PROVE  Marks'
<1>1. CASE Midnight \/ UNCHANGED statsVars
  <2>1. UNCHANGED <<cached, dirty, stored, keys, flush, edit, overwritten>>
    BY <1>1 DEF Midnight, statsVars, history
  <2>2. QED
    BY <2>1 DEF Marks, Working, OldCopy, NothingForgotten, Owned
<1>2. CASE Restart
  <2>1. /\ cached' = stored /\ stored' = stored /\ edit' = NoEdit
        /\ \A f \in Flush : flush'[f] = NoFlush
    BY <1>2 DEF Restart
  <2>2. Working' /\ OldCopy'
    BY <2>1, NoFlushShape, NoEditShape DEF Working, OldCopy
  <2>3. \A c \in Owned' : ~(cached'[c] > stored'[c])
    <3>1. \A c \in Counter : stored[c] \in Int
      BY Numbers
    <3>2. \A c \in Counter : ~(stored[c] > stored[c])
      BY <3>1
    <3>3. Owned' \subseteq Counter
      <4>1. keys' \subseteq ApiKey
        BY DEF Shape
      <4>2. QED
        BY <4>1 DEF Owned, Counter
    <3>4. QED
      BY <2>1, <3>2, <3>3
  <2>4. QED
    BY <2>2, <2>3 DEF Marks, NothingForgotten
<1>3. CASE \E f \in Flush : FlushStep(f)
  BY <1>3, FlushMarks
<1>4. QED
  BY <1>1, <1>2, <1>3, UseMarks, AdminMarks DEF StatsNext, FlushStep, Flush

(* The argument's invariant, for flushes that meet as they like: what a    *)
(* flush has to do is part of what it will give back when it fails, and    *)
(* with that no counter that is ahead of its row is left behind.           *)
THEOREM FlushInvariant == StatsSpec => []Marks
<1>1. StatsInit => Marks
  BY MarksInit, StatsAssumption
<1>2. Shape /\ Shape' /\ Marks /\ [StatsNext]_statsVars => Marks'
  BY MarksNext, StatsAssumption
<1>3. QED
  BY <1>1, <1>2, FlushShapes, PTL DEF StatsSpec

(* A counter that is ahead of its row is on its way to it, whatever        *)
(* requests, failures, meetings of flushes, edits, deletions, new days and *)
(* restarts do, unless an older value was written over a newer one         *)
(* (StatsSaveDB and its kin in internal/op/stats.go).                      *)
THEOREM CountersAreNotForgotten == StatsSpec => []NothingForgotten
<1>1. Marks => NothingForgotten
  BY DEF Marks
<1>2. QED
  BY <1>1, FlushInvariant, PTL

-----------------------------------------------------------------------------
(* Flushes that have met none.                                             *)

Apart == \A f, g \in Flush : flush[f].alone /\ g # f => Idle(g)

(* A flush that is under way, if it has met none, is the only one. *)
LEMMA OnlyOne ==
    ASSUME Apart, NEW f \in Flush, ~Idle(f), NEW g \in Flush \ {f}
    PROVE  ~flush[g].alone
  BY DEF Apart

(* What a step of a flush that is under way does to all of them. *)
LEMMA UnderWay ==
    ASSUME StatsAssumption, Shape, NEW f \in Flush, Step(f) \/ FailFlush(f)
    PROVE  /\ ~Idle(f)
           /\ \A g \in Flush \ {f} : flush'[g] = flush[g]
           /\ \/ flush'[f].alone = flush[f].alone
              \/ flush'[f] = NoFlush
<1>1. ~Idle(f)
  BY DEF Idle, Step, WithDailyOverride, DrainDirtySets, SaveTotal, SaveDay, ReadCounter, WriteCounter,
     EndFlush, FailFlush
<1>2. CASE EndFlush(f) \/ FailFlush(f)
  BY <1>1, <1>2, FlushEnds
<1>3. CASE Step(f) /\ ~EndFlush(f)
  BY <1>1, <1>3, Overridden, Drained, TotalSaved, DaySaved, CounterRead, CounterWritten
  DEF Step, GoesOn
<1>4. QED
  BY <1>2, <1>3

LEMMA ApartNext ==
    ASSUME StatsAssumption, Shape, Apart, [StatsNext]_statsVars
    PROVE  Apart'
<1>1. ~NoFlush.alone /\ NoFlush.at = "idle"
  BY DEF NoFlush
<1>2. ASSUME NEW f \in Flush, NEW r \in FlushRecord, flush' = Started(f, r) PROVE Apart'
  BY <1>2, FlushBegins DEF Apart, Idle
<1>3. ASSUME NEW f \in Flush, Step(f) \/ FailFlush(f) PROVE Apart'
  BY <1>1, <1>3, UnderWay DEF Apart, Idle
<1>4. ASSUME NEW f \in Task, StatsSaveDB(f) PROVE Apart'
  BY <1>2, <1>4, TaskStarts DEF Flush
<1>5. ASSUME NEW f \in Rollover, StatsNewDay(f) PROVE Apart'
  BY <1>2, <1>5, RolloverStarts DEF Flush
<1>6. CASE UNCHANGED flush
  BY <1>6 DEF Apart, Idle
<1>7. CASE Restart
  BY <1>1, <1>7 DEF Restart, Apart, Idle
<1>8. CASE Admin
  BY <1>6, <1>8, AdminShape
<1>9. CASE Use
  BY <1>5, <1>6, <1>9 DEF Use, StatsUpdate, StatsAPIKeyFirst, StatsSameDay
<1>10. QED
  BY <1>3, <1>4, <1>6, <1>7, <1>8, <1>9 DEF StatsNext, Midnight, statsVars

-----------------------------------------------------------------------------
(* The rows of the counters: none is ahead of its counter, nor is what a   *)
(* flush holds; a flush that has met none holds no less than the row has.  *)
Rows ==
    /\ \A c \in Counter \ shrunk :
          /\ stored[c] <= cached[c]
          /\ \A f \in Flush : flush[f].at = "write" /\ flush[f].row = c => flush[f].held <= cached[c]
    /\ \A f \in Flush :
          flush[f].alone /\ flush[f].at = "write" /\ flush[f].row \notin shrunk
              => flush[f].held >= stored[flush[f].row]

LEMMA RowsStart ==
    ASSUME Shape', \A f \in Flush : flush'[f].at # "write",
           \A c \in Counter \ shrunk' : stored'[c] <= cached'[c]
    PROVE  Rows'
  BY DEF Rows

(* A step that writes no row, and makes none but the counters smaller that *)
(* it says.                                                                *)
LEMMA RowsKept ==
    ASSUME Shape, Shape', Working, Rows,
           \A f \in Flush : flush'[f].at = "write" =>
               /\ flush[f].at = "write"
               /\ flush'[f].alone => flush[f].alone
               /\ flush'[f].row = flush[f].row /\ flush'[f].held = flush[f].held,
           shrunk \subseteq shrunk',
           \A c \in Counter : stored'[c] = stored[c] \/ stored'[c] = Gone,
           \A c \in Counter \ shrunk' : cached'[c] >= cached[c]
    PROVE  Rows'
<1>1. /\ cached \in [Counter -> Int] /\ stored \in [Counter -> Int]
      /\ \A c \in Counter : cached[c] >= -1 /\ stored[c] >= -1
      /\ \A f \in Flush : flush[f].held \in Int /\ flush[f].held >= -1
      /\ Gone = -1
  <2>1. \A f \in Flush : flush[f].held \in Value
    BY DEF Shape, FlushRecord
  <2>2. QED
    BY <2>1, Numbers DEF Value
<1>2. \A c \in Counter : cached'[c] \in Int /\ stored'[c] \in Int
  <2>1. \A c \in Counter : cached'[c] \in Value /\ stored'[c] \in Value
    BY DEF Shape
  <2>2. QED
    BY <2>1 DEF Value
<1>3. ASSUME NEW c \in Counter \ shrunk'
      PROVE  /\ stored'[c] <= cached'[c]
             /\ \A f \in Flush : flush'[f].at = "write" /\ flush'[f].row = c
                                     => flush'[f].held <= cached'[c]
  <2>1. stored[c] <= cached[c] /\ cached'[c] >= cached[c]
    BY <1>3 DEF Rows
  <2>2. stored'[c] <= cached'[c]
    BY <1>1, <1>2, <2>1
  <2>3. ASSUME NEW f \in Flush, flush'[f].at = "write", flush'[f].row = c
        PROVE  flush'[f].held <= cached'[c]
    <3>1. flush[f].held <= cached[c] /\ flush'[f].held = flush[f].held
      BY <1>3, <2>3 DEF Rows
    <3>2. QED
      BY <1>1, <1>2, <2>1, <3>1
  <2>4. QED
    BY <2>2, <2>3
<1>4. ASSUME NEW f \in Flush, flush'[f].alone, flush'[f].at = "write", flush'[f].row \notin shrunk'
      PROVE  flush'[f].held >= stored'[flush'[f].row]
  <2>1. /\ flush[f].held >= stored[flush[f].row] /\ flush'[f].held = flush[f].held
        /\ flush'[f].row = flush[f].row
    BY <1>4 DEF Rows
  <2>2. flush[f].row \in Counter
    BY <1>4 DEF Working, Shape, FlushRecord
  <2>3. QED
    BY <1>1, <2>1, <2>2
<1>5. QED
  BY <1>3, <1>4 DEF Rows

LEMMA RowsNext ==
    ASSUME StatsAssumption, Shape, Shape', Marks, Apart, Rows, [StatsNext]_statsVars
    PROVE  Rows'
<1>0. /\ Working /\ Gone = -1 /\ NoFlush.at = "idle"
      /\ cached \in [Counter -> Int] /\ stored \in [Counter -> Int]
      /\ \A c \in Counter : cached[c] >= -1 /\ stored[c] >= -1
      /\ edit.count \in Int /\ \A c \in Counter : edit.rows[c] \in Int
  BY Numbers, NoFlushShape DEF Marks
<1>1. \A c \in Counter : cached'[c] \in Int /\ cached'[c] >= -1
  <2>1. \A c \in Counter : cached'[c] \in Value
    BY DEF Shape
  <2>2. QED
    BY <2>1 DEF Value, Gone
(* A flush starts. *)
<1>2. ASSUME NEW f \in Flush, NEW r \in FlushRecord, flush' = Started(f, r), r.at # "write",
             UNCHANGED <<cached, stored, shrunk>>
      PROVE  Rows'
  <2>1. \A g \in Flush : flush'[g].at = "write" =>
           /\ flush[g].at = "write" /\ (flush'[g].alone => flush[g].alone)
           /\ flush'[g].row = flush[g].row /\ flush'[g].held = flush[g].held
    BY <1>2, FlushBegins
  <2>2. QED
    BY <1>0, <1>2, <2>1, RowsKept
<1>3. ASSUME NEW f \in Task, StatsSaveDB(f) PROVE Rows'
  <2>1. f \in Flush /\ UNCHANGED <<cached, stored, shrunk>>
    BY <1>3 DEF StatsSaveDB, history, Flush
  <2>2. QED
    BY <1>2, <1>3, <2>1, TaskStarts
<1>4. ASSUME NEW f \in Rollover, StatsNewDay(f) PROVE Rows'
  <2>1. f \in Flush /\ UNCHANGED <<cached, stored, shrunk>>
    BY <1>4 DEF StatsNewDay, history, Flush
  <2>2. QED
    BY <1>2, <1>4, <2>1, RolloverStarts
(* The flushes stay as they are. *)
<1>5. ASSUME UNCHANGED flush, shrunk \subseteq shrunk',
             \A c \in Counter : stored'[c] = stored[c] \/ stored'[c] = Gone,
             \A c \in Counter \ shrunk' : cached'[c] >= cached[c]
      PROVE  Rows'
  BY <1>0, <1>5, RowsKept
<1>6. CASE \/ \E c \in Counter : StatsUpdate(c)
           \/ \E k \in ApiKey : StatsAPIKeyFirst(k)
           \/ StatsSameDay \/ Midnight \/ UNCHANGED statsVars
  <2>1. /\ UNCHANGED <<flush, stored, shrunk>>
        /\ \/ cached' = cached
           \/ \E c \in Counter : cached' = [cached EXCEPT ![c] = cached[c] + 1]
           \/ \E c \in ApiKey : cached[c] = Gone /\ cached' = [cached EXCEPT ![c] = 0]
    BY <1>6 DEF StatsUpdate, StatsAPIKeyFirst, StatsSameDay, Midnight, statsVars, history
  <2>2. \A c \in Counter : cached'[c] >= cached[c]
    BY <1>0, <2>1 DEF Counter
  <2>3. QED
    BY <1>5, <2>1, <2>2
<1>7. CASE Admin
  <2>1. flush' = flush
    BY <1>7, AdminShape
  <2>2. shrunk \subseteq shrunk'
    BY <1>7 DEF Admin, ChannelUpdate, ChannelDel, StatsAPIKeyDel, ChannelEnabled,
       ReloadChannelChildren, DropRow, DeleteAPIKeyRow, PutBack, ReadRows, PutRows, history
  <2>3. \A c \in Counter : stored'[c] = stored[c] \/ stored'[c] = Gone
    <3>1. stored' = stored \/ \E c : stored' = [stored EXCEPT ![c] = Gone]
      BY <1>7 DEF Admin, ChannelUpdate, ChannelDel, StatsAPIKeyDel, ChannelEnabled,
         ReloadChannelChildren, DropRow, DeleteAPIKeyRow, PutBack, ReadRows, PutRows
    <3>2. QED
      BY <1>0, <3>1
  <2>4. ASSUME NEW c \in Counter \ shrunk' PROVE cached'[c] >= cached[c]
    <3>1. CASE PutRows
      BY <1>0, <1>1, <2>4, <3>1 DEF PutRows
    <3>2. CASE PutBack
      <4>1. /\ cached' = [cached EXCEPT ![edit.row] = edit.count]
            /\ shrunk' = IF edit.count < cached[edit.row] THEN shrunk \cup {edit.row} ELSE shrunk
        BY <3>2 DEF PutBack
      <4>2. CASE c = edit.row
        BY <1>0, <2>4, <4>1, <4>2
      <4>3. CASE c # edit.row
        BY <1>0, <2>4, <4>1, <4>3
      <4>4. QED
        BY <4>2, <4>3
    <3>3. CASE cached' = cached
      BY <1>0, <3>3
    <3>4. CASE ReloadChannelChildren
      BY <1>0, <3>4 DEF ReloadChannelChildren, Carried
    <3>5. ASSUME NEW x, cached' = [cached EXCEPT ![x] = Gone], x \in shrunk'
          PROVE  cached'[c] >= cached[c]
      BY <1>0, <2>4, <3>5
    <3>6. QED
      BY <1>7, <3>1, <3>2, <3>3, <3>4, <3>5 DEF Admin, ChannelUpdate, ChannelDel, StatsAPIKeyDel,
         ChannelEnabled, DropRow, DeleteAPIKeyRow, ReadRows
  <2>5. QED
    BY <1>5, <2>1, <2>2, <2>3, <2>4
<1>8. CASE Restart
  <2>1. /\ cached' = stored /\ stored' = stored /\ \A f \in Flush : flush'[f] = NoFlush
    BY <1>8 DEF Restart
  <2>2. QED
    BY <1>0, <2>1, RowsStart
(* A flush goes on. *)
<1>9. ASSUME NEW f \in Flush,
             \/ WithDailyOverride(f) \/ SaveTotal(f) \/ SaveDay(f) \/ DrainDirtySets(f)
             \/ EndFlush(f) \/ FailFlush(f)
      PROVE  Rows'
  <2>1. UNCHANGED <<cached, stored, shrunk>>
    BY <1>9 DEF WithDailyOverride, SaveTotal, SaveDay, DrainDirtySets, EndFlush, FailFlush, history
  <2>2. flush'[f].at # "write" /\ \A g \in Flush \ {f} : flush'[g] = flush[g]
    BY <1>0, <1>9, Overridden, TotalSaved, DaySaved, Drained, FlushEnds DEF GoesOn
  <2>3. QED
    BY <1>0, <2>1, <2>2, RowsKept
<1>10. ASSUME NEW f \in Flush, NEW d \in Counter, ReadCounter(f, d) PROVE Rows'
  <2>1. UNCHANGED <<cached, stored, shrunk>> /\ flush[f].at = "counters"
    BY <1>10 DEF ReadCounter, history
  <2>2. /\ \A g \in Flush \ {f} : flush'[g] = flush[g]
        /\ flush'[f].at = "write" => flush'[f].row = d /\ flush'[f].held = cached[d]
    BY <1>10, <2>1, CounterRead DEF GoesOn
  <2>3. ASSUME NEW c \in Counter \ shrunk'
        PROVE  /\ stored'[c] <= cached'[c]
               /\ \A g \in Flush : flush'[g].at = "write" /\ flush'[g].row = c
                                      => flush'[g].held <= cached'[c]
    BY <1>0, <2>1, <2>2, <2>3 DEF Rows
  <2>4. ASSUME NEW g \in Flush, flush'[g].alone, flush'[g].at = "write", flush'[g].row \notin shrunk'
        PROVE  flush'[g].held >= stored'[flush'[g].row]
    <3>1. CASE g = f
      BY <1>0, <2>1, <2>2, <2>4, <3>1 DEF Rows
    <3>2. CASE g # f
      BY <2>1, <2>2, <2>4, <3>2 DEF Rows
    <3>3. QED
      BY <3>1, <3>2
  <2>5. QED
    BY <2>3, <2>4 DEF Rows
<1>11. ASSUME NEW f \in Flush, WriteCounter(f) PROVE Rows'
  <2> DEFINE d == flush[f].row
  <2>1. /\ UNCHANGED <<cached, shrunk>> /\ flush[f].at = "write" /\ ~Idle(f)
        /\ stored' = [stored EXCEPT ![d] = Written(d, flush[f].held)]
    BY <1>11 DEF WriteCounter, Idle
  <2>2. flush'[f].at = "counters" /\ \A g \in Flush \ {f} : flush'[g] = flush[g]
    BY <1>11, CounterWritten DEF GoesOn
  <2>3. /\ d \in Counter /\ flush[f].held \in Int
        /\ Written(d, flush[f].held) \in {Gone, flush[f].held}
    BY <2>1, Numbers DEF Working, Marks, Shape, FlushRecord, Written
  <2>4. stored'[d] \in {Gone, flush[f].held} /\ \A c \in Counter \ {d} : stored'[c] = stored[c]
    BY <1>0, <2>1, <2>3
  <2>5. ASSUME NEW c \in Counter \ shrunk'
        PROVE  /\ stored'[c] <= cached'[c]
               /\ \A g \in Flush : flush'[g].at = "write" /\ flush'[g].row = c
                                      => flush'[g].held <= cached'[c]
    <3>1. stored'[c] <= cached'[c]
      BY <1>0, <2>1, <2>3, <2>4, <2>5 DEF Rows
    <3>2. QED
      BY <2>1, <2>2, <2>5, <3>1 DEF Rows
  <2>6. \A g \in Flush \ {f} : ~flush'[g].alone
    BY <2>1, <2>2, OnlyOne
  <2>7. QED
    BY <2>2, <2>5, <2>6 DEF Rows
<1>12. QED
  BY <1>3, <1>4, <1>6, <1>7, <1>8, <1>9, <1>10, <1>11 DEF StatsNext, Use, Step

(* The total.                                                              *)
Totals ==
    /\ total.stored <= total.cached
    /\ \A f \in Flush : flush[f].total <= total.cached
    /\ \A f \in Flush : flush[f].alone /\ flush[f].at \in {"drain", "saveTotal"}
                            => flush[f].total >= total.stored

LEMMA TotalsNext ==
    ASSUME StatsAssumption, Shape, Shape', Apart, Totals, [StatsNext]_statsVars
    PROVE  Totals'
<1>0. /\ total.cached \in Nat /\ total.stored \in Nat
      /\ total'.cached \in Nat /\ total'.stored \in Nat
      /\ \A f \in Flush : flush[f].total \in Nat
      /\ NoFlush.at = "idle" /\ NoFlush.total = 0
  BY NoFlushShape DEF Shape, FlushRecord
<1>1. ASSUME NEW f \in Flush, NEW r \in FlushRecord, flush' = Started(f, r),
             \/ r.total = total.cached
             \/ r.total = 0 /\ r.at = "total",
             total'.stored = total.stored, total'.cached >= total.cached
      PROVE  Totals'
  <2>1. /\ flush'[f].at = r.at /\ flush'[f].total = r.total
        /\ \A g \in Flush \ {f} : /\ flush'[g].at = flush[g].at /\ flush'[g].total = flush[g].total
                                  /\ ~flush'[g].alone
    BY <1>1, FlushBegins
  <2>2. ASSUME NEW g \in Flush PROVE flush'[g].total <= total'.cached
    <3>1. flush'[g].total \in {0, total.cached, flush[g].total} /\ flush[g].total <= total.cached
      BY <1>1, <2>1 DEF Totals
    <3>2. QED
      BY <1>0, <1>1, <3>1
  <2>3. ASSUME NEW g \in Flush, flush'[g].alone, flush'[g].at \in {"drain", "saveTotal"}
        PROVE  flush'[g].total >= total'.stored
    <3>1. flush'[g].total = total.cached
      BY <1>1, <2>1, <2>3
    <3>2. QED
      BY <1>0, <1>1, <3>1 DEF Totals
  <2>4. total'.stored <= total'.cached
    <3>1. total.stored <= total.cached
      BY DEF Totals
    <3>2. total'.stored = total.stored /\ total'.cached >= total.cached
      BY <1>1
    <3>3. QED
      BY <1>0, <3>1, <3>2
  <2>5. QED
    BY <2>2, <2>3, <2>4 DEF Totals
<1>2. ASSUME NEW f \in Task, StatsSaveDB(f) PROVE Totals'
  <2>1. f \in Flush /\ total' = total
    BY <1>2 DEF StatsSaveDB, Flush
  <2>2. QED
    BY <1>0, <1>1, <1>2, <2>1, TaskStarts
<1>3. ASSUME NEW f \in Rollover, StatsNewDay(f) PROVE Totals'
  <2>1. f \in Flush /\ total' = [total EXCEPT !.cached = total.cached + 1]
    BY <1>3 DEF StatsNewDay, Flush
  <2>2. total'.stored = total.stored /\ total'.cached = total.cached + 1
    BY <1>0, <2>1 DEF Shape
  <2>3. total'.cached >= total.cached
    BY <1>0, <2>2
  <2>4. QED
    BY <1>1, <1>3, <2>1, <2>2, <2>3, RolloverStarts
<1>4. ASSUME UNCHANGED flush, total'.stored = total.stored, total'.cached >= total.cached
      PROVE  Totals'
  <2>1. \A f \in Flush : flush'[f].total <= total'.cached
    BY <1>0, <1>4 DEF Totals
  <2>2. total'.stored <= total'.cached
    BY <1>0, <1>4 DEF Totals
  <2>3. QED
    BY <1>4, <2>1, <2>2 DEF Totals
<1>5. CASE StatsSameDay
  <2>1. flush' = flush /\ total' = [total EXCEPT !.cached = total.cached + 1]
    BY <1>5 DEF StatsSameDay
  <2>2. total'.stored = total.stored /\ total'.cached = total.cached + 1
    BY <1>0, <2>1 DEF Shape
  <2>3. QED
    BY <1>0, <1>4, <2>1, <2>2
<1>6. CASE \/ \E c \in Counter : StatsUpdate(c)
           \/ \E k \in ApiKey : StatsAPIKeyFirst(k)
           \/ Admin \/ Midnight \/ UNCHANGED statsVars
  <2>1. UNCHANGED <<flush, total>>
    BY <1>6, AdminShape DEF StatsUpdate, StatsAPIKeyFirst, Midnight, statsVars
  <2>2. QED
    BY <1>0, <1>4, <2>1
<1>7. CASE Restart
  <2>1. \A f \in Flush : flush'[f] = NoFlush
    BY <1>7 DEF Restart
  <2>2. total'.cached = total.stored /\ total'.stored = total.stored
    BY <1>7 DEF Restart, Shape
  <2>3. \A f \in Flush : flush'[f].at = "idle" /\ flush'[f].total = 0
    BY <1>0, <2>1
  <2>4. QED
    BY <1>0, <2>2, <2>3 DEF Totals
(* A flush goes on and takes the total, or keeps what it took. *)
<1>8. ASSUME NEW f \in Flush, total' = total, \A g \in Flush \ {f} : flush'[g] = flush[g],
             \/ flush'[f].total = total.cached
             \/ /\ flush'[f].total = flush[f].total
                /\ flush'[f].at \in {"drain", "saveTotal"} =>
                      flush[f].at \in {"drain", "saveTotal"} /\ flush'[f].alone = flush[f].alone
             \/ flush'[f].total = 0 /\ flush'[f].at \notin {"drain", "saveTotal"}
      PROVE  Totals'
  <2>1. ASSUME NEW g \in Flush PROVE flush'[g].total <= total'.cached
    <3>1. flush'[g].total \in {0, total.cached, flush[g].total} /\ flush[g].total <= total.cached
      BY <1>8 DEF Totals
    <3>2. QED
      BY <1>0, <1>8, <3>1
  <2>2. ASSUME NEW g \in Flush, flush'[g].alone, flush'[g].at \in {"drain", "saveTotal"}
        PROVE  flush'[g].total >= total'.stored
    <3>1. \/ flush'[g].total = total.cached
          \/ /\ flush'[g].total = flush[g].total /\ flush[g].alone
             /\ flush[g].at \in {"drain", "saveTotal"}
      BY <1>8, <2>2
    <3>2. QED
      BY <1>0, <1>8, <3>1 DEF Totals
  <2>3. QED
    BY <1>8, <2>1, <2>2 DEF Totals
<1>9. ASSUME NEW f \in Flush, WithDailyOverride(f) PROVE Totals'
  BY <1>8, <1>9, Overridden DEF WithDailyOverride, GoesOn
<1>10. ASSUME NEW f \in Flush, DrainDirtySets(f) PROVE Totals'
  BY <1>8, <1>10, Drained DEF DrainDirtySets, GoesOn
<1>11. ASSUME NEW f \in Flush, SaveDay(f) PROVE Totals'
  BY <1>8, <1>11, DaySaved DEF SaveDay, GoesOn
<1>12. ASSUME NEW f \in Flush, NEW c \in Counter, ReadCounter(f, c) PROVE Totals'
  <2>1. /\ flush'[f].at \in {"counters", "write"} /\ flush'[f].total = flush[f].total
        /\ \A g \in Flush \ {f} : flush'[g] = flush[g]
    BY <1>12, CounterRead DEF GoesOn
  <2>2. total' = total
    BY <1>12 DEF ReadCounter
  <2>3. QED
    BY <1>8, <2>1, <2>2
<1>13. ASSUME NEW f \in Flush, WriteCounter(f) PROVE Totals'
  BY <1>8, <1>13, CounterWritten DEF WriteCounter, GoesOn
<1>14. ASSUME NEW f \in Flush, EndFlush(f) \/ FailFlush(f) PROVE Totals'
  <2>1. total' = total
    BY <1>14 DEF EndFlush, FailFlush
  <2>2. QED
    BY <1>0, <1>8, <1>14, <2>1, FlushEnds
<1>15. ASSUME NEW f \in Flush, SaveTotal(f) PROVE Totals'
  <2>1. ~Idle(f) /\ total' = [total EXCEPT !.stored = flush[f].total]
    BY <1>15 DEF SaveTotal, Idle
  <2>2. total'.stored = flush[f].total /\ total'.cached = total.cached
    BY <1>0, <2>1, TotalPut
  <2>3. /\ flush'[f].at = "saveDay" /\ flush'[f].total = 0
        /\ \A g \in Flush \ {f} : flush'[g] = flush[g] /\ ~flush'[g].alone
    BY <1>15, <2>1, TotalSaved, OnlyOne DEF GoesOn
  <2>4. flush[f].total <= total.cached
    BY DEF Totals
  <2>5. \A g \in Flush : flush'[g].total <= total'.cached
    BY <1>0, <2>2, <2>3 DEF Totals
  <2>6. QED
    BY <1>0, <2>2, <2>3, <2>4, <2>5 DEF Totals
<1>16. QED
  BY <1>2, <1>3, <1>5, <1>6, <1>7, <1>9, <1>10, <1>11, <1>12, <1>13, <1>14, <1>15
  DEF StatsNext, Use, Step

-----------------------------------------------------------------------------
(* The days.                                                               *)

Holding(f) == flush[f].at \in {"total", "drain", "saveTotal", "saveDay"}

(* What flush f has taken of a day: no more than the day has counted, all  *)
(* of it if a new day made the flush, and no less than the row has as long *)
(* as it has met no other.                                                 *)
Held(f) ==
    LET d == flush[f].daily IN
    /\ d.date <= daily.date /\ d.count <= used[d.date]
    /\ f \in Rollover => d.date < daily.date /\ d.count = used[d.date]
    /\ flush[f].alone => d.count >= days[d.date]

Calendar ==
    /\ daily.date <= today /\ used[daily.date] = daily.count
    /\ \A d \in 0..MaxDay : days[d] <= used[d] /\ (d > daily.date => used[d] = 0)

DaysInv ==
    /\ Calendar
    /\ \A f \in Flush : Holding(f) => Held(f)
    /\ EveryDayIsKept

LEMMA DayNumbers ==
    ASSUME Shape
    PROVE  /\ daily.date \in 0..MaxDay /\ daily.count \in Nat /\ today \in 0..MaxDay
           /\ \A d \in 0..MaxDay : days[d] \in Nat /\ used[d] \in Nat
           /\ \A f \in Flush : flush[f].daily.date \in 0..MaxDay /\ flush[f].daily.count \in Nat
  BY DEF Shape, FlushRecord, Day

(* A step that counts nothing and writes no day. *)
LEMMA DaysStay ==
    ASSUME StatsAssumption, Shape, Shape', DaysInv, UNCHANGED <<daily, days, used>>, today' >= today,
           lost \subseteq lost',
           \A g \in Flush : Holding(g)' =>
               /\ Holding(g) /\ flush'[g].daily = flush[g].daily
               /\ flush'[g].alone => flush[g].alone,
           \A g \in Rollover : Holding(g) =>
               \/ Holding(g)' /\ flush'[g].daily = flush[g].daily
               \/ flush[g].daily.date \in lost'
    PROVE  DaysInv'
<1>1. Calendar'
  <2>1. daily.date <= today /\ today' \in Int
    BY DEF DaysInv, Calendar, Shape
  <2>2. daily.date <= today'
    BY <2>1, DayNumbers
  <2>3. QED
    BY <2>2 DEF DaysInv, Calendar
<1>2. ASSUME NEW g \in Flush, Holding(g)' PROVE Held(g)'
  BY <1>2 DEF DaysInv, Held
<1>3. ASSUME NEW d \in 0..MaxDay \ lost', d < daily.date
      PROVE  \/ days[d] = used[d]
             \/ \E g \in Rollover : Holding(g)' /\ flush'[g].daily.date = d
  <2>1. d \in 0..MaxDay \ lost
    OBVIOUS
  <2>2. \/ days[d] = used[d]
        \/ \E g \in Rollover : Holding(g) /\ flush[g].daily.date = d
    BY <1>3, <2>1 DEF DaysInv, EveryDayIsKept, Holding
  <2>3. QED
    BY <1>3, <2>2
<1>4. EveryDayIsKept'
  BY <1>3 DEF EveryDayIsKept, Holding
<1>5. QED
  BY <1>1, <1>2, <1>4 DEF DaysInv

(* The flush of the task takes the day as it is. *)
LEMMA DaysTaken ==
    ASSUME StatsAssumption, Shape, DaysInv, NEW f \in Task, StatsSaveDB(f)
    PROVE  DaysInv'
<1>1. /\ f \in Flush /\ f \notin Rollover /\ Idle(f)
      /\ UNCHANGED <<daily, days, used, today, lost>>
  BY DEF StatsSaveDB, Begin, Flush, StatsAssumption, history
<1>2. /\ flush'[f].at = "drain" /\ flush'[f].daily = daily
      /\ \A g \in Flush \ {f} : /\ flush'[g].at = flush[g].at /\ flush'[g].daily = flush[g].daily
                                /\ ~flush'[g].alone
  BY <1>1, TaskStarts, FlushBegins
<1>3. Calendar'
  BY <1>1 DEF DaysInv, Calendar
<1>4. ASSUME NEW g \in Flush, Holding(g)' PROVE Held(g)'
  <2>1. CASE g = f
    <3>1. daily.count <= used[daily.date] /\ daily.count >= days[daily.date]
      BY DayNumbers DEF DaysInv, Calendar
    <3>2. daily.date <= daily.date
      BY DayNumbers
    <3>3. QED
      BY <1>1, <1>2, <2>1, <3>1, <3>2 DEF Held
  <2>2. CASE g # f
    <3>1. Holding(g)
      BY <1>2, <1>4, <2>2 DEF Holding
    <3>2. QED
      BY <1>1, <1>2, <2>2, <3>1 DEF DaysInv, Held
  <2>3. QED
    BY <2>1, <2>2
<1>5. \A g \in Rollover : Holding(g) => Holding(g)' /\ flush'[g].daily = flush[g].daily
  BY <1>1, <1>2 DEF Holding, Flush
<1>6. EveryDayIsKept'
  BY <1>1, <1>5 DEF DaysInv, EveryDayIsKept, Holding
<1>7. QED
  BY <1>3, <1>4, <1>6 DEF DaysInv

(* A request of the day that is on. *)
LEMMA DaysCount ==
    ASSUME StatsAssumption, Shape, DaysInv, StatsSameDay
    PROVE  DaysInv'
<1>0. /\ daily.date = today /\ today \in 0..MaxDay
      /\ used \in [0..MaxDay -> Nat]
  BY DayNumbers DEF StatsSameDay, Shape
<1>1. UNCHANGED <<days, today, flush, lost>>
  BY DEF StatsSameDay, history
<1>2. daily'.date = daily.date /\ daily'.count = daily.count + 1
  BY DEF StatsSameDay, Shape, Day
<1>3. \A d \in 0..MaxDay : used'[d] = IF d = today THEN used[d] + 1 ELSE used[d]
  BY <1>0 DEF StatsSameDay
<1>4. Calendar'
  <2>1. used'[daily'.date] = daily'.count /\ daily'.date <= today'
    BY <1>0, <1>1, <1>2, <1>3, DayNumbers DEF DaysInv, Calendar
  <2>2. ASSUME NEW d \in 0..MaxDay PROVE days'[d] <= used'[d] /\ (d > daily'.date => used'[d] = 0)
    BY <1>0, <1>1, <1>2, <1>3, DayNumbers DEF DaysInv, Calendar
  <2>3. QED
    BY <2>1, <2>2 DEF Calendar
<1>5. ASSUME NEW g \in Flush, Holding(g)' PROVE Held(g)'
  <2> DEFINE d == flush[g].daily.date
  <2>1. Holding(g) /\ Held(g) /\ d \in 0..MaxDay /\ flush[g].daily.count \in Nat
    BY <1>1, <1>5, DayNumbers DEF DaysInv, Holding
  <2>2. flush[g].daily.count <= used[d] /\ d <= daily.date
    BY <2>1 DEF Held
  <2>3. flush[g].daily.count <= used'[d] /\ d <= daily'.date
    <3>1. used[d] \in Nat /\ used'[d] \in {used[d], used[d] + 1}
      BY <1>3, <2>1, DayNumbers
    <3>2. flush[g].daily.count <= used'[d]
      BY <2>1, <2>2, <3>1
    <3>3. QED
      BY <1>2, <2>2, <3>2
  <2>4. ASSUME g \in Rollover PROVE d < daily'.date /\ flush[g].daily.count = used'[d]
    <3>1. d < daily.date /\ flush[g].daily.count = used[d]
      BY <2>1, <2>4 DEF Held
    <3>2. used'[d] = used[d]
      BY <1>0, <1>3, <2>1, <3>1
    <3>3. QED
      BY <1>2, <3>1, <3>2
  <2>5. flush[g].alone => flush[g].daily.count >= days'[d]
    BY <1>1, <2>1 DEF Held
  <2>6. QED
    BY <1>1, <2>3, <2>4, <2>5 DEF Held
<1>6. EveryDayIsKept'
  <2>1. \A d \in 0..MaxDay : d < daily.date => used'[d] = used[d]
    BY <1>0, <1>3
  <2>2. QED
    BY <1>1, <1>2, <2>1 DEF DaysInv, EveryDayIsKept
<1>7. QED
  BY <1>4, <1>5, <1>6 DEF DaysInv

(* A request of a new day: its flush takes the old one. *)
LEMMA DaysTurn ==
    ASSUME StatsAssumption, Shape, DaysInv, NEW f \in Rollover, StatsNewDay(f)
    PROVE  DaysInv'
<1>0. /\ daily.date < today /\ today \in 0..MaxDay /\ f \in Flush /\ Idle(f)
      /\ used \in [0..MaxDay -> Nat]
  <2>1. daily.date # today /\ f \in Flush /\ Idle(f) /\ used \in [0..MaxDay -> Nat]
    BY DEF StatsNewDay, Shape, Flush
  <2>2. daily.date <= today
    BY DEF DaysInv, Calendar
  <2>3. QED
    BY <2>1, <2>2, DayNumbers
<1>1. UNCHANGED <<days, today, lost>> /\ daily'.date = today /\ daily'.count = 1
  BY DEF StatsNewDay, history
<1>2. /\ flush'[f].at = "total" /\ flush'[f].daily = daily
      /\ \A g \in Flush \ {f} : /\ flush'[g].at = flush[g].at /\ flush'[g].daily = flush[g].daily
                                /\ ~flush'[g].alone
  BY <1>0, RolloverStarts, FlushBegins
<1>3. \A d \in 0..MaxDay : used'[d] = IF d = today THEN used[d] + 1 ELSE used[d]
  BY <1>0 DEF StatsNewDay
<1>4. used[today] = 0
  BY <1>0, DayNumbers DEF DaysInv, Calendar
<1>5. Calendar'
  <2>1. used'[daily'.date] = daily'.count /\ daily'.date <= today'
    BY <1>0, <1>1, <1>3, <1>4
  <2>2. ASSUME NEW d \in 0..MaxDay PROVE days'[d] <= used'[d] /\ (d > daily'.date => used'[d] = 0)
    BY <1>0, <1>1, <1>3, DayNumbers DEF DaysInv, Calendar
  <2>3. QED
    BY <2>1, <2>2 DEF Calendar
<1>6. ASSUME NEW g \in Flush, Holding(g)' PROVE Held(g)'
  <2>1. CASE g = f
    <3>1. /\ daily.date < daily'.date /\ daily.date <= daily'.date
          /\ daily.count = used'[daily.date]
      BY <1>0, <1>1, <1>3, DayNumbers DEF DaysInv, Calendar
    <3>2. daily.count <= used'[daily.date] /\ daily.count >= days'[daily.date]
      BY <1>1, <3>1, DayNumbers DEF DaysInv, Calendar
    <3>3. QED
      BY <1>2, <2>1, <3>1, <3>2 DEF Held
  <2>2. CASE g # f
    <3> DEFINE d == flush[g].daily.date
    <3>1. Holding(g) /\ Held(g) /\ d \in 0..MaxDay
      BY <1>2, <1>6, <2>2, DayNumbers DEF DaysInv, Holding
    <3>2. d <= daily.date
      BY <3>1 DEF Held
    <3>3. d < daily'.date
      BY <1>0, <1>1, <3>1, <3>2, DayNumbers
    <3>5. used'[d] = used[d]
      BY <1>0, <1>1, <1>3, <3>1, <3>3
    <3>4. d <= daily'.date
      BY <1>0, <1>1, <3>1, <3>3
    <3>6. QED
      BY <1>2, <2>2, <3>1, <3>3, <3>5, <3>4 DEF Held
  <2>3. QED
    BY <2>1, <2>2
<1>7. ASSUME NEW d \in 0..MaxDay \ lost', d < daily'.date
      PROVE  \/ days'[d] = used'[d]
             \/ \E g \in Rollover : Holding(g)' /\ flush'[g].daily.date = d
  <2>1. used'[d] = used[d] /\ days'[d] = days[d] /\ d \in 0..MaxDay \ lost
    BY <1>0, <1>1, <1>3, <1>7
  <2>2. CASE d < daily.date
    <3>1. \/ days[d] = used[d]
          \/ \E g \in Rollover : Holding(g) /\ flush[g].daily.date = d
      BY <2>1, <2>2 DEF DaysInv, EveryDayIsKept, Holding
    <3>2. ASSUME NEW g \in Rollover, Holding(g)
          PROVE  Holding(g)' /\ flush'[g].daily = flush[g].daily
      BY <1>0, <1>2, <3>2 DEF Holding, Idle, Flush
    <3>3. QED
      BY <2>1, <3>1, <3>2
  <2>3. CASE d = daily.date
    BY <1>2, <2>3 DEF Holding
  <2>4. CASE d > daily.date
    BY <2>1, <2>4, DayNumbers DEF DaysInv, Calendar
  <2>5. QED
    BY <2>2, <2>3, <2>4, DayNumbers
<1>8. EveryDayIsKept'
  BY <1>7 DEF EveryDayIsKept, Holding
<1>9. QED
  BY <1>5, <1>6, <1>8 DEF DaysInv

(* A day is written. *)
LEMMA DaysWritten ==
    ASSUME StatsAssumption, Shape, Apart, DaysInv, NEW f \in Flush, SaveDay(f)
    PROVE  DaysInv'
<1> DEFINE d == flush[f].daily.date
           n == flush[f].daily.count
<1>0. /\ d \in 0..MaxDay /\ n \in Nat /\ days \in [0..MaxDay -> Nat] /\ ~Idle(f)
      /\ Holding(f) /\ Held(f)
  BY DayNumbers DEF Shape, SaveDay, Idle, Holding, DaysInv
<1>1. /\ UNCHANGED <<daily, used, today>>
      /\ days' = [days EXCEPT ![d] = n]
      /\ lost' = IF days'[d] < days[d] THEN lost \cup {d} ELSE lost
  BY DEF SaveDay
<1>2. days'[d] = n /\ \A x \in 0..MaxDay \ {d} : days'[x] = days[x]
  BY <1>0, <1>1
<1>3. flush'[f].at = "counters" /\ \A g \in Flush \ {f} : flush'[g] = flush[g] /\ ~flush'[g].alone
  BY <1>0, DaySaved, OnlyOne DEF GoesOn
<1>4. n <= used[d]
  BY <1>0 DEF Held
<1>5. Calendar'
  BY <1>0, <1>1, <1>2, <1>4, DayNumbers DEF DaysInv, Calendar
<1>6. ASSUME NEW g \in Flush, Holding(g)' PROVE Held(g)'
  <2>1. g # f /\ flush'[g] = flush[g] /\ ~flush'[g].alone /\ Holding(g)
    BY <1>3, <1>6 DEF Holding
  <2>2. QED
    BY <1>1, <2>1 DEF DaysInv, Held
<1>7. ASSUME NEW x \in 0..MaxDay \ lost', x < daily.date
      PROVE  \/ days'[x] = used[x]
             \/ \E g \in Rollover : Holding(g)' /\ flush'[g].daily.date = x
  <2>1. x \in 0..MaxDay \ lost
    BY <1>1, <1>7
  <2>2. \/ days[x] = used[x]
        \/ \E g \in Rollover : Holding(g) /\ flush[g].daily.date = x
    BY <1>7, <2>1 DEF DaysInv, EveryDayIsKept, Holding
  <2>3. CASE days[x] = used[x] /\ x = d
    <3>1. n >= days[x]
      BY <1>0, <1>1, <1>2, <1>7, <2>3
    <3>2. QED
      BY <1>0, <1>2, <1>4, <2>3, <3>1, DayNumbers
  <2>4. CASE days[x] = used[x] /\ x # d
    BY <1>2, <2>4
  <2>5. ASSUME NEW g \in Rollover, Holding(g), flush[g].daily.date = x
        PROVE  \/ days'[x] = used[x]
               \/ \E h \in Rollover : Holding(h)' /\ flush'[h].daily.date = x
    <3>1. CASE g = f
      BY <1>0, <1>2, <2>5, <3>1 DEF Held
    <3>2. CASE g # f
      <4>1. Holding(g)' /\ flush'[g].daily.date = x
        BY <1>3, <2>5, <3>2 DEF Holding, Flush
      <4>2. QED
        BY <2>5, <4>1
    <3>3. QED
      BY <3>1, <3>2
  <2>6. QED
    BY <2>2, <2>3, <2>4, <2>5
<1>8. EveryDayIsKept'
  BY <1>1, <1>7 DEF EveryDayIsKept, Holding
<1>9. QED
  BY <1>5, <1>6, <1>8 DEF DaysInv

LEMMA DaysRestart ==
    ASSUME StatsAssumption, Shape, DaysInv, Restart
    PROVE  DaysInv'
<1>1. /\ daily' = [date |-> today, count |-> days[today]] /\ used' = days
      /\ days' = days /\ today' = today /\ \A f \in Flush : flush'[f] = NoFlush
  BY DEF Restart, LoadedDay
<1>2. Calendar'
  <2>1. today <= today /\ \A d \in 0..MaxDay : days[d] <= days[d]
    BY DayNumbers
  <2>2. ASSUME NEW d \in 0..MaxDay, d > today PROVE days[d] = 0
    <3>1. d > daily.date /\ days[d] <= used[d]
      BY <2>2, DayNumbers DEF DaysInv, Calendar
    <3>2. used[d] = 0
      BY <3>1 DEF DaysInv, Calendar
    <3>3. QED
      BY <3>1, <3>2, DayNumbers
  <2>3. QED
    BY <1>1, <2>1, <2>2 DEF Calendar
<1>3. \A f \in Flush : ~Holding(f)'
  BY <1>1, NoFlushShape DEF Holding
<1>4. EveryDayIsKept'
  BY <1>1 DEF EveryDayIsKept
<1>5. QED
  BY <1>2, <1>3, <1>4 DEF DaysInv

LEMMA DaysNext ==
    ASSUME StatsAssumption, Shape, Shape', Apart, DaysInv, [StatsNext]_statsVars
    PROVE  DaysInv'
<1>1. ASSUME UNCHANGED <<daily, days, used, flush, lost>>, today' >= today PROVE DaysInv'
  BY <1>1, DaysStay DEF Holding
<1>2. CASE \/ \E c \in Counter : StatsUpdate(c)
           \/ \E k \in ApiKey : StatsAPIKeyFirst(k)
           \/ Admin \/ Midnight \/ UNCHANGED statsVars
  <2>1. UNCHANGED <<daily, days, used, flush, lost>>
    BY <1>2, AdminShape DEF StatsUpdate, StatsAPIKeyFirst, Midnight, statsVars, history
  <2>2. today' = today \/ today' = today + 1
    BY <1>2, AdminShape DEF StatsUpdate, StatsAPIKeyFirst, Midnight, statsVars
  <2>3. today' >= today
    BY <2>2, DayNumbers
  <2>4. QED
    BY <1>1, <2>1, <2>3
<1>3. ASSUME NEW f \in Flush, UNCHANGED <<daily, days, used, today>>, lost \subseteq lost',
             \A g \in Flush \ {f} : flush'[g] = flush[g],
             \/ /\ Holding(f) /\ Holding(f)' /\ flush'[f].daily = flush[f].daily
                /\ flush'[f].alone = flush[f].alone
             \/ /\ ~Holding(f)'
                /\ Holding(f) /\ f \in Rollover => flush[f].daily.date \in lost'
      PROVE  DaysInv'
  <2>1. \A g \in Flush : Holding(g)' =>
           /\ Holding(g) /\ flush'[g].daily = flush[g].daily
           /\ flush'[g].alone => flush[g].alone
    BY <1>3 DEF Holding
  <2>2. \A g \in Rollover : Holding(g) =>
           \/ Holding(g)' /\ flush'[g].daily = flush[g].daily
           \/ flush[g].daily.date \in lost'
    BY <1>3 DEF Holding, Flush
  <2>3. today' >= today
    BY <1>3, DayNumbers
  <2>4. QED
    BY <1>3, <2>1, <2>2, <2>3, DaysStay
<1>4. ASSUME NEW f \in Flush, WithDailyOverride(f) \/ DrainDirtySets(f) \/ SaveTotal(f)
      PROVE  DaysInv'
  <2>1. UNCHANGED <<daily, days, used, today, lost>> /\ Holding(f)
    BY <1>4 DEF WithDailyOverride, DrainDirtySets, SaveTotal, Holding, history
  <2>2. GoesOn(f) /\ Holding(f)' /\ flush'[f].daily = flush[f].daily
    BY <1>4, Overridden, Drained, TotalSaved DEF Holding
  <2>3. QED
    BY <1>3, <2>1, <2>2 DEF GoesOn
<1>5. ASSUME NEW f \in Flush,
             WriteCounter(f) \/ EndFlush(f) \/ \E c \in Counter : ReadCounter(f, c)
      PROVE  DaysInv'
  <2>1. UNCHANGED <<daily, days, used, today, lost>> /\ ~Holding(f)
    BY <1>5 DEF WriteCounter, EndFlush, ReadCounter, Holding, history
  <2>2. ~Holding(f)' /\ \A g \in Flush \ {f} : flush'[g] = flush[g]
    BY <1>5, CounterWritten, CounterRead, FlushEnds, NoFlushShape DEF Holding, GoesOn
  <2>3. QED
    BY <1>3, <2>1, <2>2
<1>6. ASSUME NEW f \in Flush, FailFlush(f) PROVE DaysInv'
  <2>1. /\ UNCHANGED <<daily, days, used, today>> /\ lost \subseteq lost'
        /\ Holding(f) /\ f \in Rollover => flush[f].daily.date \in lost'
    BY <1>6 DEF FailFlush, Holding
  <2>2. ~Holding(f)' /\ \A g \in Flush \ {f} : flush'[g] = flush[g]
    BY <1>6, FlushEnds, NoFlushShape DEF Holding
  <2>3. QED
    BY <1>3, <2>1, <2>2
<1>7. QED
  BY <1>2, <1>4, <1>5, <1>6, DaysTaken, DaysCount, DaysTurn, DaysWritten, DaysRestart
  DEF StatsNext, Use, Step

LEMMA DaysInit ==
    ASSUME StatsAssumption, StatsInit
    PROVE  Apart /\ DaysInv
<1>1. /\ \A f \in Flush : flush[f] = NoFlush
      /\ daily = [date |-> 0, count |-> 0] /\ today \in 0..MaxDay
      /\ days = [d \in 0..MaxDay |-> 0] /\ used = days
  BY Begun
<1>2. ~NoFlush.alone /\ NoFlush.at = "idle"
  BY DEF NoFlush
<1>3. 0 \in 0..MaxDay
  BY DEF StatsAssumption
<1>4. Calendar
  BY <1>1, <1>3 DEF Calendar
<1>5. EveryDayIsKept
  BY <1>1 DEF EveryDayIsKept
<1>6. Apart /\ \A f \in Flush : ~Holding(f)
  BY <1>1, <1>2 DEF Apart, Holding
<1>7. QED
  BY <1>4, <1>5, <1>6 DEF DaysInv

(* A day that is over keeps its requests, whatever flushes meet and fail:  *)
(* the flush of the new day has them, unless it failed or an older value   *)
(* was written over them (StatsDailyUpdate, statsSaveDBWithDailyOverride   *)
(* in internal/op/stats.go).                                               *)
THEOREM DaysAreKept == StatsSpec => []EveryDayIsKept
<1>1. StatsInit => Apart /\ DaysInv
  BY DaysInit, StatsAssumption
<1>2. Shape /\ Shape' /\ Apart /\ DaysInv /\ [StatsNext]_statsVars => Apart' /\ DaysInv'
  BY ApartNext, DaysNext, StatsAssumption
<1>3. DaysInv => EveryDayIsKept
  BY DEF DaysInv
<1>4. QED
  BY <1>1, <1>2, <1>3, FlushShapes, PTL DEF StatsSpec

-----------------------------------------------------------------------------
(* Rows and meetings.                                                      *)

LEMMA QuietInit ==
    ASSUME StatsAssumption, StatsInit
    PROVE  Rows /\ Totals
<1>1. /\ \A f \in Flush : flush[f] = NoFlush
      /\ total.cached \in Nat /\ total.stored = total.cached /\ stored = cached
      /\ \A c \in Counter : cached[c] \in {0, Gone}
  BY Begun
<1>2. ~NoFlush.alone /\ NoFlush.at = "idle" /\ NoFlush.total = 0
  BY DEF NoFlush
<1>3. Rows
  <2>1. \A c \in Counter : cached[c] \in {0, -1}
    BY <1>1 DEF Gone
  <2>2. \A c \in Counter : stored[c] <= cached[c]
    BY <1>1, <2>1
  <2>3. QED
    BY <1>1, <1>2, <2>2 DEF Rows
<1>4. Totals
  BY <1>1, <1>2 DEF Totals
<1>5. QED
  BY <1>3, <1>4

(* What a step does to the rows. *)
LEMMA WhoWrites ==
    ASSUME StatsAssumption, Shape, [StatsNext]_statsVars
    PROVE  /\ \/ stored' = stored \/ \E x : stored' = [stored EXCEPT ![x] = Gone]
              \/ \E f \in Flush : WriteCounter(f)
           /\ days' = days \/ \E f \in Flush : SaveDay(f)
           /\ total'.stored = total.stored \/ \E f \in Flush : SaveTotal(f)
<1>1. CASE UNCHANGED <<stored, days, total>>
  BY <1>1
<1>2. CASE Admin
  BY <1>2, AdminShape DEF Admin, ChannelUpdate, ChannelDel, StatsAPIKeyDel, ChannelEnabled,
     ReloadChannelChildren, DropRow, DeleteAPIKeyRow, PutBack, ReadRows, PutRows
<1>3. CASE Restart \/ StatsSameDay \/ \E f \in Rollover : StatsNewDay(f)
  <2>1. stored' = stored /\ days' = days
    BY <1>3 DEF Restart, StatsSameDay, StatsNewDay
  <2>2. \E n : total' = [total EXCEPT !.cached = n]
    BY <1>3 DEF Restart, StatsSameDay, StatsNewDay
  <2>3. total'.stored = total.stored
    BY <2>2 DEF Shape
  <2>4. QED
    BY <2>1, <2>3
<1>4. ASSUME NEW f \in Flush, Step(f)
      PROVE  \/ UNCHANGED <<stored, days, total>>
             \/ WriteCounter(f) /\ UNCHANGED <<days, total>>
             \/ SaveDay(f) /\ UNCHANGED <<stored, total>>
             \/ SaveTotal(f) /\ UNCHANGED <<stored, days>>
  <2>1. CASE WriteCounter(f)
    <3>1. UNCHANGED <<days, total>>
      BY <2>1 DEF WriteCounter
    <3>2. QED
      BY <2>1, <3>1
  <2>2. CASE SaveDay(f)
    <3>1. UNCHANGED <<stored, total>>
      BY <2>2 DEF SaveDay
    <3>2. QED
      BY <2>2, <3>1
  <2>3. CASE SaveTotal(f)
    <3>1. UNCHANGED <<stored, days>>
      BY <2>3 DEF SaveTotal
    <3>2. QED
      BY <2>3, <3>1
  <2>4. CASE \/ WithDailyOverride(f) \/ DrainDirtySets(f) \/ EndFlush(f)
             \/ \E c \in Counter : ReadCounter(f, c)
    <3>1. UNCHANGED <<stored, days, total>>
      BY <2>4 DEF WithDailyOverride, DrainDirtySets, EndFlush, ReadCounter
    <3>2. QED
      BY <3>1
  <2>5. QED
    BY <1>4, <2>1, <2>2, <2>3, <2>4 DEF Step
<1>5. CASE \E f \in Flush : FailFlush(f)
  BY <1>1, <1>5 DEF FailFlush
<1>6. CASE Midnight \/ UNCHANGED statsVars \/ \E f \in Task : StatsSaveDB(f)
  BY <1>1, <1>6 DEF Midnight, statsVars, StatsSaveDB
<1>7. CASE Use
  BY <1>1, <1>3, <1>7 DEF Use, StatsUpdate, StatsAPIKeyFirst
<1>8. CASE \E f \in Flush : Step(f)
  BY <1>4, <1>8, Zenon
<1>9. QED
  BY <1>2, <1>3, <1>5, <1>6, <1>7, <1>8 DEF StatsNext

(* A row goes back only where flushes meet, or after an edit has made its  *)
(* counter smaller: a flush that has met none writes no less than there is *)
(* (internal/op/stats.go).                                                 *)
THEOREM RowsGoBackOnlyInMeetings == StatsSpec => RowsGoBackInMeetings
<1>1. StatsInit => Apart /\ Rows /\ Totals
  BY QuietInit, DaysInit, StatsAssumption
<1>2. Shape /\ Shape' /\ Marks /\ Apart /\ Rows /\ Totals /\ [StatsNext]_statsVars
         => Apart' /\ Rows' /\ Totals'
  BY ApartNext, RowsNext, TotalsNext, StatsAssumption
<1>3. StatsInit => DaysInv
  BY DaysInit, StatsAssumption
<1>4. Shape /\ Shape' /\ Apart /\ DaysInv /\ [StatsNext]_statsVars => DaysInv'
  BY DaysNext, StatsAssumption
<1> DEFINE Step1 ==
      (\A f \in Flush : Idle(f) \/ flush[f].alone) =>
          /\ \A c \in Counter \ shrunk : stored'[c] # Gone => stored'[c] >= stored[c]
          /\ \A d \in 0..MaxDay : days'[d] >= days[d]
          /\ total'.stored >= total.stored
<1>5. Shape /\ Shape' /\ Marks /\ Apart /\ Rows /\ Totals /\ DaysInv /\ [StatsNext]_statsVars => Step1
  <2> SUFFICES ASSUME Shape, Shape', Marks, Rows, Totals, DaysInv, [StatsNext]_statsVars,
                      \A f \in Flush : Idle(f) \/ flush[f].alone
               PROVE  /\ \A c \in Counter \ shrunk : stored'[c] # Gone => stored'[c] >= stored[c]
                      /\ \A d \in 0..MaxDay : days'[d] >= days[d]
                      /\ total'.stored >= total.stored
    OBVIOUS
  <2>0. StatsAssumption /\ Gone = -1
    BY StatsAssumption DEF Gone
  <2>1. ASSUME NEW c \in Counter \ shrunk, stored'[c] # Gone PROVE stored'[c] >= stored[c]
    <3>0. stored[c] \in Int /\ stored \in [Counter -> Int]
      BY Numbers
    <3>1. CASE stored' = stored
      BY <3>0, <3>1
    <3>2. ASSUME NEW x, stored' = [stored EXCEPT ![x] = Gone] PROVE stored'[c] >= stored[c]
      BY <2>1, <3>0, <3>2
    <3>3. ASSUME NEW f \in Flush, WriteCounter(f) PROVE stored'[c] >= stored[c]
      <4>1. /\ stored' = [stored EXCEPT ![flush[f].row] = Written(flush[f].row, flush[f].held)]
            /\ flush[f].at = "write" /\ flush[f].alone
        BY <3>3 DEF WriteCounter, Idle
      <4>2. CASE c = flush[f].row
        <5>1. stored'[c] = Written(c, flush[f].held)
          BY <3>0, <4>1, <4>2
        <5>2. stored'[c] = flush[f].held
          BY <2>1, <5>1 DEF Written
        <5>3. flush[f].held >= stored[c]
          BY <4>1, <4>2 DEF Rows
        <5>4. QED
          BY <5>2, <5>3
      <4>3. CASE c # flush[f].row
        BY <3>0, <4>1, <4>3
      <4>4. QED
        BY <4>2, <4>3
    <3>4. QED
      BY <2>0, <3>1, <3>2, <3>3, WhoWrites
  <2>2. ASSUME NEW d \in 0..MaxDay PROVE days'[d] >= days[d]
    <3>1. CASE days' = days
      BY <3>1, DayNumbers
    <3>2. ASSUME NEW f \in Flush, SaveDay(f) PROVE days'[d] >= days[d]
      <4>1. /\ days' = [days EXCEPT ![flush[f].daily.date] = flush[f].daily.count]
            /\ flush[f].alone /\ Holding(f) /\ days \in [0..MaxDay -> Nat]
        BY <3>2 DEF SaveDay, Idle, Holding, Shape
      <4>2. flush[f].daily.count >= days[flush[f].daily.date]
        BY <4>1 DEF DaysInv, Held
      <4>3. CASE d = flush[f].daily.date
        BY <4>1, <4>2, <4>3
      <4>4. CASE d # flush[f].daily.date
        BY <4>1, <4>4
      <4>5. QED
        BY <4>3, <4>4
    <3>3. QED
      BY <2>0, <3>1, <3>2, WhoWrites
  <2>3. total'.stored >= total.stored
    <3>0. total.stored \in Nat
      BY DEF Shape
    <3>1. ASSUME NEW f \in Flush, SaveTotal(f) PROVE total'.stored >= total.stored
      <4>1. /\ total' = [total EXCEPT !.stored = flush[f].total]
            /\ flush[f].alone /\ flush[f].at = "saveTotal"
        BY <3>1 DEF SaveTotal, Idle
      <4>2. total'.stored = flush[f].total
        BY <4>1 DEF Shape
      <4>3. flush[f].total >= total.stored
        BY <4>1 DEF Totals
      <4>4. QED
        BY <4>2, <4>3
    <3>2. QED
      BY <2>0, <3>0, <3>1, WhoWrites
  <2>4. QED
    BY <2>1, <2>2, <2>3
<1>6. QED
  BY <1>1, <1>2, <1>3, <1>4, <1>5, FlushShapes, FlushInvariant, PTL DEF StatsSpec, RowsGoBackInMeetings

-----------------------------------------------------------------------------
(* Edits.                                                                  *)

(* What an edit that is under way knows of the rows. *)
Edits ==
    /\ edit.op \in {"none", "update", "delete", "apiKey", "toggle", "refresh"}
    /\ edit.op \in {"update", "delete", "toggle"} => edit.row \in Owner
    /\ edit.op = "apiKey" => edit.row \in ApiKey
    /\ edit.op = "toggle" => stored[edit.row] # Gone
    /\ edit.op = "refresh" => \A c \in Owner : stored[c] = Gone => edit.rows[c] = Gone
    /\ \A c \in Owner : stored[c] = Gone => cached[c] = Gone \/ (edit.op = "delete" /\ edit.row = c)
    /\ \A f \in Flush : flush[f].at = "write" => flush[f].held # Gone

LEMMA EditsInit ==
    ASSUME StatsAssumption, StatsInit
    PROVE  Edits
  BY NoEditShape, Begun DEF Edits, NoFlush, Gone

(* A step of no edit. *)
LEMMA EditsStay ==
    ASSUME StatsAssumption, Shape, Edits, UNCHANGED edit,
           \A c \in Owner : (cached[c] = Gone) = (cached'[c] = Gone),
           \A c \in Owner : (stored[c] = Gone) = (stored'[c] = Gone),
           \A f \in Flush : flush'[f].at = "write" => flush'[f].held # Gone
    PROVE  Edits'
  BY DEF Edits

LEMMA EditsFlush ==
    ASSUME StatsAssumption, Shape, Edits, NEW f \in Flush, FlushStep(f)
    PROVE  Edits'
<1>1. UNCHANGED <<cached, edit>>
  BY FlushShape
<1>2. \A c \in Owner : (stored[c] = Gone) = (stored'[c] = Gone)
  <2>1. CASE WriteCounter(f)
    <3>1. /\ stored' = [stored EXCEPT ![flush[f].row] = Written(flush[f].row, flush[f].held)]
          /\ flush[f].held # Gone
      BY <2>1 DEF WriteCounter, Edits
    <3>2. \A c \in Owner : (stored[c] = Gone) = (Written(c, flush[f].held) = Gone)
      BY <3>1 DEF Written
    <3>3. stored \in [Counter -> Value]
      BY DEF Shape
    <3>4. QED
      BY <3>1, <3>2, <3>3 DEF Counter
  <2>2. CASE ~WriteCounter(f)
    <3>1. stored' = stored
      BY <2>2 DEF FlushStep, Step, StatsSaveDB, WithDailyOverride, DrainDirtySets, SaveTotal,
         SaveDay, ReadCounter, EndFlush, FailFlush
    <3>2. QED
      BY <3>1
  <2>3. QED
    BY <2>1, <2>2
<1>3. \A g \in Flush : flush'[g].at = "write" => flush'[g].held # Gone
  <2>1. CASE f \in Task /\ StatsSaveDB(f)
    <3>1. PICK r \in FlushRecord : flush' = Started(f, r) /\ r.at = "drain"
      BY <2>1, TaskStarts
    <3>2. QED
      BY <3>1, FlushBegins DEF Edits
  <2>2. CASE FailFlush(f) \/ EndFlush(f)
    BY <2>2, FlushEnds, NoFlushShape DEF Edits
  <2>3. CASE \E c \in Counter : ReadCounter(f, c)
    BY <2>3, CounterRead DEF Edits, GoesOn
  <2>4. CASE WithDailyOverride(f) \/ DrainDirtySets(f) \/ SaveTotal(f) \/ SaveDay(f) \/ WriteCounter(f)
    BY <2>4, Overridden, Drained, TotalSaved, DaySaved, CounterWritten DEF Edits, GoesOn
  <2>5. QED
    BY <2>1, <2>2, <2>3, <2>4 DEF FlushStep, Step
<1>4. QED
  BY <1>1, <1>2, <1>3, EditsStay

LEMMA EditsUse ==
    ASSUME StatsAssumption, Shape, Edits, Use
    PROVE  Edits'
<1>1. UNCHANGED <<stored, edit>>
  BY DEF Use, StatsUpdate, StatsAPIKeyFirst, StatsSameDay, StatsNewDay
<1>2. \A c \in Owner : (cached[c] = Gone) = (cached'[c] = Gone)
  <2>1. \/ cached' = cached
        \/ \E c \in Counter : cached[c] \in 0..(MaxUse[c] - 1) /\ cached' = [cached EXCEPT ![c] = cached[c] + 1]
        \/ \E k \in ApiKey : cached' = [cached EXCEPT ![k] = 0]
    BY DEF Use, StatsUpdate, StatsAPIKeyFirst, StatsSameDay, StatsNewDay
  <2>2. cached \in [Counter -> Int] /\ Gone = -1
    BY Numbers
  <2>3. QED
    BY <2>1, <2>2 DEF StatsAssumption, Counter
<1>3. \A g \in Flush : flush'[g].at = "write" => flush'[g].held # Gone
  <2>1. CASE flush' = flush
    BY <2>1 DEF Edits
  <2>2. ASSUME NEW f \in Rollover, StatsNewDay(f)
        PROVE  \A g \in Flush : flush'[g].at = "write" => flush'[g].held # Gone
    <3>1. f \in Flush
      BY DEF Flush
    <3>2. PICK r \in FlushRecord : flush' = Started(f, r) /\ r.at = "total"
      BY <2>2, RolloverStarts
    <3>3. QED
      BY <3>1, <3>2, FlushBegins DEF Edits
  <2>3. QED
    BY <2>1, <2>2 DEF Use, StatsUpdate, StatsAPIKeyFirst, StatsSameDay
<1>4. QED
  BY <1>1, <1>2, <1>3, EditsStay

LEMMA EditsAdmin ==
    ASSUME StatsAssumption, Shape, Edits, Admin
    PROVE  Edits'
<1>0. /\ flush' = flush /\ NoEdit.op = "none" /\ Owner \subseteq Counter /\ ApiKey \subseteq Counter
      /\ Owner \cap ApiKey = {}
      /\ cached \in [Counter -> Value] /\ stored \in [Counter -> Value]
  BY AdminShape, NoEditShape DEF StatsAssumption, Counter, Shape
<1>1. ASSUME NEW c \in Owner, ChannelUpdate(c) \/ ChannelEnabled(c) PROVE Edits'
  <2>1. /\ edit'.op \in {"update", "toggle"} /\ edit'.row = c /\ cached[c] # Gone
        /\ edit.op = "none" /\ UNCHANGED <<cached, stored>>
    BY <1>1, NoEditShape DEF ChannelUpdate, ChannelEnabled, EditRecord
  <2>2. QED
    BY <1>0, <2>1 DEF Edits
<1>2. ASSUME NEW c \in Owner, ChannelDel(c) PROVE Edits'
  <2>1. /\ edit'.op = "delete" /\ edit'.row = c /\ edit.op = "none"
        /\ cached' = cached /\ stored' = [stored EXCEPT ![c] = Gone]
    BY <1>2, NoEditShape DEF ChannelDel, EditRecord
  <2>2. QED
    BY <1>0, <2>1 DEF Edits
<1>3. ASSUME NEW k \in ApiKey, StatsAPIKeyDel(k) PROVE Edits'
  <2>1. /\ edit'.op = "apiKey" /\ edit'.row = k /\ edit.op = "none"
        /\ stored' = stored /\ \A c \in Owner : cached'[c] = cached[c]
    BY <1>0, <1>3, NoEditShape DEF StatsAPIKeyDel, EditRecord
  <2>2. QED
    BY <1>0, <2>1 DEF Edits
<1>4. CASE ReadRows
  <2>1. /\ edit'.op = "refresh" /\ edit'.rows = stored /\ edit.op = "none" /\ UNCHANGED <<cached, stored>>
    BY <1>4, NoEditShape DEF ReadRows, EditRecord
  <2>2. QED
    BY <1>0, <2>1 DEF Edits
(* The edits that end. *)
<1>5. ASSUME edit' = NoEdit,
             \A c \in Owner : stored'[c] = Gone => cached'[c] = Gone
      PROVE  Edits'
  BY <1>0, <1>5 DEF Edits
<1>6. CASE ReloadChannelChildren
  BY <1>0, <1>5, <1>6 DEF ReloadChannelChildren, Carried, Edits
<1>7. CASE DropRow
  BY <1>0, <1>5, <1>7 DEF DropRow, Edits
<1>8. CASE DeleteAPIKeyRow
  BY <1>0, <1>5, <1>8 DEF DeleteAPIKeyRow, Edits
<1>9. CASE PutBack
  BY <1>0, <1>5, <1>9 DEF PutBack, Edits
<1>10. CASE PutRows
  BY <1>0, <1>5, <1>10 DEF PutRows, Edits
<1>11. QED
  BY <1>1, <1>2, <1>3, <1>4, <1>6, <1>7, <1>8, <1>9, <1>10
  DEF Admin, ChannelUpdate, ChannelEnabled, ChannelDel, StatsAPIKeyDel

LEMMA EditsNext ==
    ASSUME StatsAssumption, Shape, Edits, [StatsNext]_statsVars
    PROVE  Edits'
<1>1. CASE Midnight \/ UNCHANGED statsVars
  BY <1>1 DEF Midnight, statsVars, Edits
<1>2. CASE Restart
  BY <1>2, NoEditShape, NoFlushShape DEF Restart, Edits
<1>3. QED
  BY <1>1, <1>2, EditsUse, EditsFlush, EditsAdmin DEF StatsNext, FlushStep, Flush

(* The counters of a running process go back in the switch of their own    *)
(* channel and in the reload of every row only (ChannelEnabled and         *)
(* channelRefreshCache, internal/op/channel.go).                           *)
THEOREM CountersOnlyGrow == StatsSpec => CountersNeverGoBack
<1> DEFINE Back ==
      \A c \in Counter :
          (boot' = boot /\ cached[c] # Gone /\ cached'[c] # Gone /\ cached'[c] < cached[c]) =>
              c \in Owner /\ (edit.op = "refresh" \/ (edit.op = "toggle" /\ edit.row = c))
<1>1. Shape /\ Edits /\ [StatsNext]_statsVars => Back
  <2> SUFFICES ASSUME Shape, Edits, [StatsNext]_statsVars, NEW c \in Counter,
                      boot' = boot, cached[c] # Gone, cached'[c] # Gone, cached'[c] < cached[c]
               PROVE  c \in Owner /\ (edit.op = "refresh" \/ (edit.op = "toggle" /\ edit.row = c))
    OBVIOUS
  <2>0. /\ cached \in [Counter -> Int] /\ cached[c] \in Int /\ boot \in Nat /\ StatsAssumption
    BY Numbers, StatsAssumption DEF Shape
  <2>1. ~(cached' = cached) /\ ~Restart
    BY <2>0 DEF Restart
  <2>2. ~\E x \in Counter : StatsUpdate(x) \/ (x \in ApiKey /\ StatsAPIKeyFirst(x))
    BY <2>0 DEF StatsUpdate, StatsAPIKeyFirst
  <2>3. ~ReloadChannelChildren /\ ~\E x : cached' = [cached EXCEPT ![x] = Gone]
    BY <2>0 DEF ReloadChannelChildren, Carried
  <2>4. CASE PutBack
    <3>1. edit.op = "toggle" /\ cached' = [cached EXCEPT ![edit.row] = edit.count] /\ edit.row \in Owner
      BY <2>4 DEF PutBack, Edits
    <3>2. QED
      BY <2>0, <3>1
  <2>5. CASE PutRows
    BY <2>0, <2>5 DEF PutRows
  <2>6. CASE \E f \in Flush : FlushStep(f)
    BY <2>0, <2>1, <2>6, FlushShape
  <2>7. Admin => PutBack \/ PutRows
    BY <2>1, <2>3 DEF Admin, ChannelUpdate, ChannelDel, StatsAPIKeyDel, ChannelEnabled,
       DropRow, DeleteAPIKeyRow, ReadRows
  <2>8. ~Use /\ ~Midnight /\ ~UNCHANGED statsVars
    BY <2>1, <2>2 DEF Use, StatsSameDay, StatsNewDay, Midnight, statsVars, Counter
  <2>9. QED
    <3>1. Use \/ Admin \/ Midnight \/ Restart \/ UNCHANGED statsVars \/ \E f \in Flush : FlushStep(f)
      BY DEF StatsNext, FlushStep, Flush
    <3>2. QED
      BY <2>1, <2>4, <2>5, <2>6, <2>7, <2>8, <3>1
<1>2. StatsInit => Edits
  BY EditsInit, StatsAssumption
<1>3. Shape /\ Edits /\ [StatsNext]_statsVars => Edits'
  BY EditsNext, StatsAssumption
<1>4. QED
  BY <1>1, <1>2, <1>3, FlushShapes, PTL DEF StatsSpec, CountersNeverGoBack

(* A deleted channel, model or credential stays deleted: no flush writes   *)
(* its row again and no edit brings its counters back                      *)
(* (internal/op/stats.go, ChannelDel in internal/op/channel.go).           *)
THEOREM DeletedIsFinal == StatsSpec => DeletedStaysDeleted
<1> DEFINE Final ==
      \A c \in Owner : stored[c] = Gone =>
          stored'[c] = Gone /\ (cached[c] = Gone => cached'[c] = Gone)
<1>1. Shape /\ Edits /\ [StatsNext]_statsVars => Final
  <2> SUFFICES ASSUME Shape, Edits, [StatsNext]_statsVars, NEW c \in Owner, stored[c] = Gone
               PROVE  stored'[c] = Gone /\ (cached[c] = Gone => cached'[c] = Gone)
    OBVIOUS
  <2>0. /\ cached \in [Counter -> Int] /\ stored \in [Counter -> Int] /\ c \in Counter /\ c \notin ApiKey
        /\ StatsAssumption /\ Gone = -1
    BY Numbers, StatsAssumption DEF StatsAssumption, Counter
  <2>1. stored'[c] = Gone
    <3>1. ASSUME NEW f \in Flush, WriteCounter(f) PROVE stored'[c] = Gone
      BY <2>0, <3>1 DEF WriteCounter, Written
    <3>2. QED
      BY <2>0, <3>1, WhoWrites
  <2>2. ASSUME cached[c] = Gone PROVE cached'[c] = Gone
    <3>1. CASE Use
      <4>1. \/ cached' = cached
            \/ \E x \in Counter : /\ cached[x] \in 0..(MaxUse[x] - 1)
                                  /\ cached' = [cached EXCEPT ![x] = cached[x] + 1]
            \/ \E k \in ApiKey : cached' = [cached EXCEPT ![k] = 0]
        BY <3>1 DEF Use, StatsUpdate, StatsAPIKeyFirst, StatsSameDay, StatsNewDay
      <4>2. QED
        BY <2>0, <2>2, <4>1 DEF StatsAssumption
    <3>2. CASE \E f \in Flush : FlushStep(f)
      BY <2>0, <2>2, <3>2, FlushShape
    <3>3. CASE Midnight \/ UNCHANGED statsVars \/ Restart
      BY <2>2, <3>3 DEF Midnight, statsVars, Restart
    <3>4. CASE PutBack
      BY <2>0, <2>2, <3>4 DEF PutBack, Edits
    <3>5. CASE PutRows
      BY <2>0, <2>2, <3>5 DEF PutRows, Edits
    <3>6. CASE Admin /\ ~PutBack /\ ~PutRows
      <4>1. cached' = cached \/ \E x : cached' = [cached EXCEPT ![x] = Gone]
        BY <2>0, <3>6 DEF Admin, ChannelUpdate, ChannelDel, StatsAPIKeyDel, ChannelEnabled,
           ReloadChannelChildren, Carried, DropRow, DeleteAPIKeyRow, ReadRows
      <4>2. QED
        BY <2>0, <2>2, <4>1
    <3>7. QED
      BY <3>1, <3>2, <3>3, <3>4, <3>5, <3>6 DEF StatsNext, FlushStep, Flush
  <2>3. QED
    BY <2>1, <2>2
<1>2. StatsInit => Edits
  BY EditsInit, StatsAssumption
<1>3. Shape /\ Edits /\ [StatsNext]_statsVars => Edits'
  BY EditsNext, StatsAssumption
<1>4. QED
  BY <1>1, <1>2, <1>3, FlushShapes, PTL DEF StatsSpec, DeletedStaysDeleted
=============================================================================
