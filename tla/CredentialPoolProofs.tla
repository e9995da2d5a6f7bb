------------------------ MODULE CredentialPoolProofs ------------------------
(* Proofs about CredentialPool, for any accounts and any number of         *)
(* requests of the panel.                                                  *)
(*                                                                         *)
(* A synchronisation works through rows that it read at its start, and a   *)
(* reload installs rows that it read before.  What the code promises holds *)
(* as long as the panel's requests keep out of each other's way, so each   *)
(* theorem names the requests that must not meet.                          *)
EXTENDS CredentialPool, TLAPS

Syncing(p) == job[p].at \in {"sync", "refresh token", "persist token", "write key"}
AtAccount(p) == job[p].at \in {"refresh token", "persist token", "write key"}

(* The operator does not touch the switches while the pool is synchronised. *)
Switches(p, a) == SaveChannelKeys(p, a) \/ \E on \in BOOLEAN : SetChannelKeyEnabled(p, a, on)
SwitchesApartStep ==
    (\E p \in Operator, a \in Account : Switches(p, a)) => \A q \in Operator : ~Syncing(q)
SwitchesApart == [][SwitchesApartStep]_poolVars

(* The requests of the panel come one after the other. *)
OneByOneStep ==
    \A p \in Operator : Request(p) => \A q \in Operator \ {p} : job[q].at = "idle"
OneByOne == [][OneByOneStep]_poolVars

-----------------------------------------------------------------------------
(* Shapes.                                                                 *)

JobRecord ==
    [at : {"idle", "exchange", "read usage", "sync", "refresh token", "persist token",
           "write key", "refresh", "install"},
     of : SUBSET Account, todo : SUBSET Account, seen : [Account -> AccountRow],
     keys : [Account -> Row], fresh : 0..MaxToken, notes : SUBSET Account]

(* PoolTypeOK, part by part. *)
KeysTyped == key \in [Account -> Row] /\ \A a \in Account : ~key[a].there => key[a] = NoKey
WordTyped == word \in [Account -> {"none", "on", "off"}]
JobTyped == job \in [Operator -> JobRecord]
RestTyped == failed \in BOOLEAN /\ restarts \in 0..MaxRestart
Typed ==
    /\ account \in [Account -> AccountRow] /\ ticket \subseteq Account
    /\ issued \in [Account -> 0..MaxToken] /\ served \in [Account -> Row]
    /\ KeysTyped /\ WordTyped /\ JobTyped /\ RestTyped

LEMMA TypedIsTypeOK == Typed => PoolTypeOK
  BY DEF PoolTypeOK, Typed, KeysTyped, WordTyped, JobTyped, RestTyped, JobRecord

LEMMA ZeroToken ==
    PoolAssumption => MaxToken \in Nat /\ MaxRestart \in Nat /\ 0 \in 0..MaxToken /\ 0 \in 0..MaxRestart
  BY DEF PoolAssumption

LEMMA Shapes ==
    ASSUME PoolAssumption
    PROVE  /\ NoKey \in Row /\ ~NoKey.there /\ ~NoKey.enabled /\ ~NoKey.held
           /\ NoAccount \in AccountRow /\ [NoAccount EXCEPT !.status = "deleted"] \in AccountRow
           /\ NoJob \in JobRecord /\ NoJob.at = "idle"
<1>0. 0 \in 0..MaxToken
  BY ZeroToken
<1>1. NoKey \in Row /\ ~NoKey.there /\ ~NoKey.enabled /\ ~NoKey.held
  BY <1>0 DEF NoKey, Row
<1>2. NoAccount \in AccountRow /\ [NoAccount EXCEPT !.status = "deleted"] \in AccountRow
  <2>1. NoAccount \in AccountRow
    BY <1>0 DEF NoAccount, AccountRow
  <2>2. QED
    BY <2>1 DEF AccountRow
<1>3. NoJob \in JobRecord /\ NoJob.at = "idle"
  BY <1>0, <1>1, <1>2 DEF NoJob, JobRecord
<1>4. QED
  BY <1>1, <1>2, <1>3

(* A step of the request p puts a record in the place of its job. *)
LEMMA JobPut ==
    ASSUME JobTyped, NEW p \in Operator, NEW r \in JobRecord, job' = [job EXCEPT ![p] = r]
    PROVE  JobTyped' /\ job'[p] = r /\ \A q \in Operator \ {p} : job'[q] = job[q]
  BY DEF JobTyped

(* A request that begins at a place, or that ends. *)
LEMMA Begins ==
    ASSUME PoolAssumption, JobTyped, NEW p \in Operator, NEW a \in Account,
           NEW place \in {"exchange", "read usage", "refresh"}, Start(p, place, a)
    PROVE  /\ JobTyped' /\ job'[p].at = place
           /\ \A q \in Operator \ {p} : job'[q] = job[q]
<1> DEFINE r == [NoJob EXCEPT !.at = place, !.of = {a}]
<1>1. r \in JobRecord /\ r.at = place
  BY Shapes DEF JobRecord
<1>2. job' = [job EXCEPT ![p] = r]
  BY DEF Start
<1> HIDE DEF r
<1>3. QED
  BY <1>1, <1>2, JobPut

LEMMA Quits ==
    ASSUME PoolAssumption, JobTyped, NEW p \in Operator, Quit(p)
    PROVE  /\ JobTyped' /\ job'[p].at = "idle"
           /\ \A q \in Operator \ {p} : job'[q] = job[q]
  BY Shapes, JobPut DEF Quit

(* What each step of a synchronisation makes of its record. *)
LEMMA GoesTo ==
    ASSUME JobTyped, NEW p \in Operator,
           NEW place \in {"write key", "refresh", "sync"}, Goto(p, place)
    PROVE  /\ JobTyped' /\ job'[p] = [job[p] EXCEPT !.at = place]
           /\ \A q \in Operator \ {p} : job'[q] = job[q]
<1> DEFINE r == [job[p] EXCEPT !.at = place]
<1>1. job[p] \in JobRecord
  BY DEF JobTyped
<1>2. r \in JobRecord
  BY <1>1 DEF JobRecord
<1>3. job' = [job EXCEPT ![p] = r]
  BY DEF Goto
<1> HIDE DEF r
<1>4. JobTyped' /\ job'[p] = r /\ \A q \in Operator \ {p} : job'[q] = job[q]
  BY <1>2, <1>3, JobPut
<1>5. QED
  BY <1>4 DEF r

-----------------------------------------------------------------------------
(* What each step does, to the rows and to the job of its request; the     *)
(* other jobs stay as they are.                                            *)
Others(p) == \A q \in Operator \ {p} : job'[q] = job[q]
SameWork(p) == job'[p].keys = job[p].keys /\ job'[p].seen = job[p].seen

LEMMA ExchangeDoes ==
    ASSUME PoolAssumption, Typed, NEW p \in Operator, Exchange(p)
    PROVE  /\ Typed' /\ Others(p) /\ job[p].at = "exchange" /\ job'[p].at = "idle"
           /\ UNCHANGED <<key, served, word, failed>>
           /\ \A a \in Account : (Exists(a)' /\ Exists(a)) \/ account'[a] = account[a]
<1>1. JobTyped' /\ Others(p) /\ job'[p].at = "idle" /\ job[p] \in JobRecord
  BY Quits DEF Typed, Exchange, Others, JobTyped
<1>2. PICK a \in job[p].of :
          \/ /\ issued[a] < MaxToken
             /\ issued' = [issued EXCEPT ![a] = @ + 1]
             /\ account' = IF Exists(a)
                           THEN [account EXCEPT ![a] =
                                    [status |-> "active", token |-> issued[a] + 1, due |-> FALSE]]
                           ELSE account
          \/ UNCHANGED <<account, issued>>
  BY DEF Exchange
<1>3. a \in Account
  BY <1>1 DEF JobRecord
<1>4. ASSUME issued[a] < MaxToken
      PROVE  issued[a] + 1 \in 0..MaxToken
             /\ [status |-> "active", token |-> issued[a] + 1, due |-> FALSE] \in AccountRow
  <2>1. issued[a] + 1 \in 0..MaxToken
    BY <1>3, <1>4 DEF Typed, PoolAssumption
  <2>2. QED
    BY <2>1 DEF AccountRow
<1>5. issued' \in [Account -> 0..MaxToken] /\ account' \in [Account -> AccountRow]
  <2>1. CASE UNCHANGED <<account, issued>>
    BY <2>1 DEF Typed
  <2>2. CASE issued[a] < MaxToken /\ issued' = [issued EXCEPT ![a] = @ + 1]
    <3>1. issued' \in [Account -> 0..MaxToken]
      BY <1>3, <1>4, <2>2 DEF Typed
    <3>2. account' \in [Account -> AccountRow]
      BY <1>2, <1>3, <1>4, <2>2 DEF Typed
    <3>3. QED
      BY <3>1, <3>2
  <2>3. QED
    BY <1>2, <2>1, <2>2
<1>6. \A b \in Account : (Exists(b)' /\ Exists(b)) \/ account'[b] = account[b]
  BY <1>2, <1>3 DEF Typed, Exists
<1>7. QED
  BY <1>1, <1>5, <1>6 DEF Exchange, Typed, KeysTyped, WordTyped, RestTyped

LEMMA SwitchedRow ==
    ASSUME key \in [Account -> Row], NEW a \in Account, NEW on \in BOOLEAN
    PROVE  [key EXCEPT ![a].enabled = on, ![a].held = ~on] \in [Account -> Row]
  BY DEF Row

LEMMA SwitchDoes ==
    ASSUME PoolAssumption, Typed, NEW p \in Operator, NEW a \in Account,
           NEW on \in BOOLEAN, SetChannelKeyEnabled(p, a, on)
    PROVE  /\ Typed' /\ Others(p) /\ job[p].at = "idle" /\ job'[p].at \in {"idle", "refresh"}
           /\ job'[p].at = "idle" => key' = key
           /\ key'[a].there /\ key'[a].enabled = on /\ key'[a].held = ~on
           /\ word'[a] = IF on THEN "on" ELSE "off"
           /\ \A b \in Account \ {a} : key'[b] = key[b] /\ word'[b] = word[b]
<1>1. /\ WordTyped' /\ word'[a] = IF on THEN "on" ELSE "off"
      /\ \A b \in Account \ {a} : word'[b] = word[b]
  BY DEF SetChannelKeyEnabled, Typed, WordTyped
<1>2. CASE key[a].enabled = on /\ key[a].held = ~on
  BY <1>1, <1>2 DEF SetChannelKeyEnabled, Typed, RestTyped, KeysTyped, JobTyped, Others
<1>3. CASE ~(key[a].enabled = on /\ key[a].held = ~on)
  <2>1. key' = [key EXCEPT ![a].enabled = on, ![a].held = ~on] /\ Start(p, "refresh", a)
    BY <1>3 DEF SetChannelKeyEnabled
  <2>2. /\ JobTyped' /\ job'[p].at = "refresh" /\ Others(p) /\ job[p].at = "idle"
    <3>1. Start(p, "refresh", a) => job[p].at = "idle"
      BY DEF Start
    <3>2. QED
      BY <2>1, <3>1, Begins DEF Typed, Others
  <2>3. key[a] \in Row /\ key[a].there
    BY DEF Typed, KeysTyped, SetChannelKeyEnabled
  <2>4. key' \in [Account -> Row]
    BY <2>1, SwitchedRow DEF Typed, KeysTyped
  <2>5. /\ key'[a].there /\ key'[a].enabled = on /\ key'[a].held = ~on
        /\ \A b \in Account \ {a} : key'[b] = key[b]
    BY <2>1, <2>3 DEF Typed, KeysTyped, Row
  <2>6. KeysTyped'
    BY <2>4, <2>5 DEF Typed, KeysTyped
  <2>7. QED
    BY <1>1, <2>2, <2>5, <2>6 DEF SetChannelKeyEnabled, Typed, RestTyped
<1>4. QED
  BY <1>2, <1>3

LEMMA SaveDoes ==
    ASSUME PoolAssumption, Typed, NEW p \in Operator, NEW a \in Account, SaveChannelKeys(p, a)
    PROVE  /\ Typed' /\ Others(p) /\ job[p].at = "idle" /\ job'[p].at = "refresh"
           /\ \/ /\ key'[a].there /\ key'[a].held = ~key'[a].enabled
                 /\ word'[a] = IF key'[a].enabled THEN "on" ELSE "off"
              \/ key'[a] = NoKey /\ word'[a] = "none"
           /\ \A b \in Account \ {a} : key'[b] = key[b] /\ word'[b] = word[b]
<1>1. /\ JobTyped' /\ job'[p].at = "refresh" /\ Others(p) /\ job[p].at = "idle"
  <2>1. Start(p, "refresh", a) => job[p].at = "idle"
    BY DEF Start
  <2>2. QED
    BY <2>1, Begins DEF SaveChannelKeys, Typed, Others
<1>2. key[a] \in Row /\ key[a].there
  BY DEF Typed, KeysTyped, SaveChannelKeys
<1>3. ASSUME NEW on \in BOOLEAN, key' = [key EXCEPT ![a].enabled = on, ![a].held = ~on],
             word' = [word EXCEPT ![a] = IF on THEN "on" ELSE "off"]
      PROVE  /\ KeysTyped' /\ WordTyped'
             /\ key'[a].there /\ key'[a].held = ~key'[a].enabled
             /\ word'[a] = IF key'[a].enabled THEN "on" ELSE "off"
             /\ \A b \in Account \ {a} : key'[b] = key[b] /\ word'[b] = word[b]
  <2>1. key' \in [Account -> Row]
    BY <1>3, SwitchedRow DEF Typed, KeysTyped
  <2>2. /\ key'[a].there /\ key'[a].enabled = on /\ key'[a].held = ~on
        /\ \A b \in Account \ {a} : key'[b] = key[b]
    BY <1>2, <1>3 DEF Typed, KeysTyped, Row
  <2>3. /\ WordTyped' /\ word'[a] = IF on THEN "on" ELSE "off"
        /\ \A b \in Account \ {a} : word'[b] = word[b]
    BY <1>3 DEF Typed, WordTyped
  <2>4. QED
    BY <2>1, <2>2, <2>3 DEF Typed, KeysTyped
<1>4. ASSUME key' = [key EXCEPT ![a] = NoKey], word' = [word EXCEPT ![a] = "none"]
      PROVE  /\ KeysTyped' /\ WordTyped' /\ key'[a] = NoKey /\ word'[a] = "none"
             /\ \A b \in Account \ {a} : key'[b] = key[b] /\ word'[b] = word[b]
  BY <1>4, Shapes DEF Typed, KeysTyped, WordTyped
<1>5. /\ KeysTyped' /\ WordTyped'
      /\ \/ /\ key'[a].there /\ key'[a].held = ~key'[a].enabled
            /\ word'[a] = IF key'[a].enabled THEN "on" ELSE "off"
         \/ key'[a] = NoKey /\ word'[a] = "none"
      /\ \A b \in Account \ {a} : key'[b] = key[b] /\ word'[b] = word[b]
  BY <1>3, <1>4 DEF SaveChannelKeys
<1>6. Typed'
  BY <1>1, <1>5 DEF SaveChannelKeys, Typed, RestTyped
<1>7. QED
  BY <1>1, <1>5, <1>6


LEMMA SyncNextDoes ==
    ASSUME PoolAssumption, Typed, NEW p \in Operator, NEW a \in Account, SyncNext(p, a)
    PROVE  /\ Typed' /\ Others(p) /\ SameWork(p) /\ job'[p].notes = job[p].notes
           /\ job[p].at = "sync" /\ a \in job[p].todo
           /\ \/ /\ job[p].seen[a].status # "active"
                 /\ job'[p].at = "sync" /\ job'[p].todo = job[p].todo \ {a}
                 /\ IF job[p].keys[a].there /\ job[p].keys[a].enabled /\ key[a].there
                    THEN key' = [key EXCEPT ![a].enabled = FALSE] ELSE key' = key
              \/ /\ job[p].seen[a].status = "active"
                 /\ job'[p].at \in {"refresh token", "write key"}
                 /\ job'[p].todo = job[p].todo /\ job'[p].of = {a} /\ key' = key
<1>1. /\ job[p] \in JobRecord /\ job[p].at = "sync" /\ a \in job[p].todo
      /\ job[p].todo \subseteq Account
  BY DEF Typed, JobTyped, JobRecord, SyncNext
<1>2. CASE job[p].seen[a].status # "active"
  <2> DEFINE r == [job[p] EXCEPT !.todo = @ \ {a}]
  <2>1. r \in JobRecord
    BY <1>1 DEF JobRecord
  <2>2. /\ r.at = "sync" /\ r.todo = job[p].todo \ {a} /\ r.notes = job[p].notes
        /\ r.keys = job[p].keys /\ r.seen = job[p].seen
    BY <1>1 DEF JobRecord
  <2>3. job' = [job EXCEPT ![p] = r]
    BY <1>2 DEF SyncNext
  <2> HIDE DEF r
  <2>4. JobTyped' /\ job'[p] = r /\ \A q \in Operator \ {p} : job'[q] = job[q]
    BY <2>1, <2>3, JobPut DEF Typed
  <2>5. IF job[p].keys[a].there /\ job[p].keys[a].enabled /\ key[a].there
        THEN key' = [key EXCEPT ![a].enabled = FALSE] ELSE key' = key
    BY <1>2 DEF SyncNext
  <2>6. KeysTyped'
    <3>1. CASE key' = key
      BY <3>1 DEF Typed, KeysTyped
    <3>2. CASE key[a].there /\ key' = [key EXCEPT ![a].enabled = FALSE]
      <4>1. key \in [Account -> Row] /\ key[a] \in Row
        BY DEF Typed, KeysTyped
      <4>2. key' \in [Account -> Row]
        BY <3>2, <4>1 DEF Row
      <4>3. key'[a].there /\ \A b \in Account \ {a} : key'[b] = key[b]
        BY <3>2, <4>1 DEF Row
      <4>4. QED
        BY <4>2, <4>3 DEF Typed, KeysTyped
    <3>3. QED
      BY <2>5, <3>1, <3>2
  <2>7. Typed'
    BY <2>4, <2>6 DEF SyncNext, Typed, WordTyped, RestTyped
  <2>8. QED
    BY <1>1, <1>2, <2>2, <2>4, <2>5, <2>7 DEF Others, SameWork
<1>3. CASE job[p].seen[a].status = "active"
  <2> DEFINE place == IF job[p].seen[a].due THEN "refresh token" ELSE "write key"
             r == [job[p] EXCEPT !.at = place, !.of = {a}]
  <2>1. r \in JobRecord
    <3>1. place \in {"refresh token", "write key"} /\ {a} \in SUBSET Account
      OBVIOUS
    <3> HIDE DEF place
    <3>2. QED
      BY <1>1, <3>1 DEF JobRecord
  <2>2. /\ r.at \in {"refresh token", "write key"} /\ r.of = {a} /\ r.todo = job[p].todo
        /\ r.notes = job[p].notes /\ r.keys = job[p].keys /\ r.seen = job[p].seen
    BY <1>1 DEF JobRecord
  <2>3. job' = [job EXCEPT ![p] = r] /\ key' = key
    BY <1>3 DEF SyncNext
  <2> HIDE DEF r
  <2>4. JobTyped' /\ job'[p] = r /\ \A q \in Operator \ {p} : job'[q] = job[q]
    BY <2>1, <2>3, JobPut DEF Typed
  <2>5. Typed'
    BY <2>3, <2>4 DEF SyncNext, Typed, KeysTyped, WordTyped, RestTyped
  <2>6. QED
    BY <1>1, <1>3, <2>2, <2>3, <2>4, <2>5 DEF Others, SameWork
<1>4. QED
  BY <1>2, <1>3

LEMMA RefreshTokenDoes ==
    ASSUME PoolAssumption, Typed, NEW p \in Operator, RefreshToken(p)
    PROVE  /\ Typed' /\ Others(p) /\ SameWork(p) /\ job'[p].notes = job[p].notes
           /\ job[p].at = "refresh token" /\ job'[p].at \in {"persist token", "write key"}
           /\ job'[p].todo = job[p].todo /\ job'[p].of = job[p].of
<1>1. job[p] \in JobRecord /\ job[p].at = "refresh token" /\ job[p].of \subseteq Account
  BY DEF Typed, JobTyped, JobRecord, RefreshToken
<1>2. PICK a \in job[p].of :
          \/ /\ issued[a] < MaxToken
             /\ issued' = [issued EXCEPT ![a] = @ + 1]
             /\ job' = [job EXCEPT ![p].at = "persist token", ![p].fresh = issued[a] + 1]
          \/ /\ job' = [job EXCEPT ![p].at = "write key"]
             /\ UNCHANGED issued
  BY DEF RefreshToken
<1>3. CASE issued[a] < MaxToken /\ issued' = [issued EXCEPT ![a] = @ + 1]
           /\ job' = [job EXCEPT ![p].at = "persist token", ![p].fresh = issued[a] + 1]
  <2> DEFINE r == [job[p] EXCEPT !.at = "persist token", !.fresh = issued[a] + 1]
  <2>1. issued[a] + 1 \in 0..MaxToken
    <3>1. issued[a] \in 0..MaxToken
      BY <1>1 DEF Typed
    <3>2. issued[a] < MaxToken
      BY <1>3
    <3>3. QED
      BY <3>1, <3>2, ZeroToken
  <2>2. r \in JobRecord
    BY <1>1, <2>1 DEF JobRecord
  <2>3. /\ r.at = "persist token" /\ r.todo = job[p].todo /\ r.of = job[p].of
        /\ r.notes = job[p].notes /\ r.keys = job[p].keys /\ r.seen = job[p].seen
    BY <1>1 DEF JobRecord
  <2>4. job' = [job EXCEPT ![p] = r]
    BY <1>3
  <2> HIDE DEF r
  <2>5. JobTyped' /\ job'[p] = r /\ \A q \in Operator \ {p} : job'[q] = job[q]
    BY <2>2, <2>4, JobPut DEF Typed
  <2>6. issued' \in [Account -> 0..MaxToken]
    BY <1>3, <2>1 DEF Typed
  <2>7. Typed'
    BY <2>5, <2>6 DEF RefreshToken, Typed, KeysTyped, WordTyped, RestTyped
  <2>8. QED
    BY <1>1, <2>3, <2>5, <2>7 DEF Others, SameWork
<1>4. CASE Goto(p, "write key") /\ issued' = issued
  <2>1. /\ JobTyped' /\ job'[p] = [job[p] EXCEPT !.at = "write key"]
        /\ \A q \in Operator \ {p} : job'[q] = job[q]
    BY <1>4, GoesTo DEF Typed
  <2>2. Typed'
    BY <1>4, <2>1 DEF RefreshToken, Typed, KeysTyped, WordTyped, RestTyped
  <2>3. QED
    BY <1>1, <2>1, <2>2 DEF Others, SameWork, JobRecord
<1>5. QED
  BY <1>2, <1>3, <1>4 DEF Goto

(* The row and what the synchronisation saw of it take the token together. *)
LEMMA PersistTokenDoes ==
    ASSUME PoolAssumption, Typed, NEW p \in Operator, PersistToken(p)
    PROVE  /\ Typed' /\ Others(p) /\ job[p].at = "persist token" /\ job'[p].at = "write key"
           /\ job'[p].todo = job[p].todo /\ job'[p].of = job[p].of
           /\ job'[p].keys = job[p].keys /\ job'[p].notes = job[p].notes
           /\ UNCHANGED <<key, served, word, failed>>
           /\ \E a \in job[p].of :
                 /\ \A b \in Account \ {a} :
                       account'[b] = account[b] /\ job'[p].seen[b] = job[p].seen[b]
                 /\ job'[p].seen[a].status = job[p].seen[a].status
                 /\ IF Exists(a)
                    THEN account'[a].status = "active" /\ account'[a].token = job'[p].seen[a].token
                    ELSE account'[a] = account[a]
<1>1. job[p] \in JobRecord /\ job[p].at = "persist token" /\ job[p].of \subseteq Account
  BY DEF Typed, JobTyped, JobRecord, PersistToken
<1>2. PICK a \in job[p].of :
          /\ account' = IF Exists(a)
                        THEN [account EXCEPT ![a] =
                                [status |-> "active", token |-> job[p].fresh, due |-> FALSE]]
                        ELSE account
          /\ job' = [job EXCEPT ![p].at = "write key", ![p].fresh = 0,
                                ![p].seen[a].token = TokenAfter(p, a)]
  BY DEF PersistToken
<1>3. /\ a \in Account /\ 0 \in 0..MaxToken
      /\ job[p].fresh \in 0..MaxToken /\ job[p].seen \in [Account -> AccountRow]
  BY <1>1, ZeroToken DEF JobRecord
<1> DEFINE seen == [job[p].seen EXCEPT ![a].token = TokenAfter(p, a)]
           r == [job[p] EXCEPT !.at = "write key", !.fresh = 0, !.seen = seen]
<1>4. /\ seen \in [Account -> AccountRow] /\ seen[a].token = TokenAfter(p, a)
      /\ seen[a].status = job[p].seen[a].status
      /\ \A b \in Account \ {a} : seen[b] = job[p].seen[b]
  <2>1. TokenAfter(p, a) \in 0..MaxToken
    BY <1>3 DEF TokenAfter, AccountRow
  <2>2. QED
    BY <1>3, <2>1 DEF AccountRow
<1>5. job' = [job EXCEPT ![p] = r]
  BY <1>2
<1> HIDE DEF seen
<1>6. r \in JobRecord
  BY <1>1, <1>3, <1>4 DEF JobRecord
<1>7. /\ r.at = "write key" /\ r.todo = job[p].todo /\ r.of = job[p].of
      /\ r.notes = job[p].notes /\ r.keys = job[p].keys /\ r.seen = seen
  BY <1>1 DEF JobRecord
<1> HIDE DEF r
<1>8. JobTyped' /\ job'[p] = r /\ \A q \in Operator \ {p} : job'[q] = job[q]
  BY <1>5, <1>6, JobPut DEF Typed
<1>9. /\ account' \in [Account -> AccountRow] /\ \A b \in Account \ {a} : account'[b] = account[b]
      /\ IF Exists(a) THEN account'[a].status = "active" /\ account'[a].token = TokenAfter(p, a)
         ELSE account'[a] = account[a]
  <2>1. [status |-> "active", token |-> job[p].fresh, due |-> FALSE] \in AccountRow
    BY <1>3 DEF AccountRow
  <2>2. QED
    BY <1>2, <1>3, <2>1 DEF Typed, TokenAfter
<1>10. Typed'
  BY <1>8, <1>9 DEF PersistToken, Typed, KeysTyped, WordTyped, RestTyped
<1>11. /\ \A b \in Account \ {a} : account'[b] = account[b] /\ job'[p].seen[b] = job[p].seen[b]
       /\ job'[p].seen[a].status = job[p].seen[a].status
       /\ IF Exists(a) THEN account'[a].status = "active" /\ account'[a].token = job'[p].seen[a].token
          ELSE account'[a] = account[a]
  BY <1>4, <1>7, <1>8, <1>9
<1>12. /\ Others(p) /\ job[p].at = "persist token" /\ job'[p].at = "write key"
       /\ job'[p].todo = job[p].todo /\ job'[p].of = job[p].of
       /\ job'[p].keys = job[p].keys /\ job'[p].notes = job[p].notes
       /\ UNCHANGED <<key, served, word, failed>>
  BY <1>1, <1>7, <1>8 DEF Others, PersistToken
<1>13. QED
  BY <1>2, <1>10, <1>11, <1>12

LEMMA PersistFailsDoes ==
    ASSUME PoolAssumption, Typed, NEW p \in Operator, PersistFails(p)
    PROVE  /\ Typed' /\ Others(p) /\ SameWork(p) /\ job'[p].notes = job[p].notes
           /\ job[p].at = "persist token" /\ job'[p].at = "write key"
           /\ job'[p].todo = job[p].todo /\ job'[p].of = job[p].of
<1> DEFINE r == [job[p] EXCEPT !.at = "write key", !.fresh = 0]
<1>1. job[p] \in JobRecord /\ job[p].at = "persist token" /\ 0 \in 0..MaxToken
  BY ZeroToken DEF Typed, JobTyped, PersistFails
<1>2. r \in JobRecord
  BY <1>1 DEF JobRecord
<1>3. /\ r.at = "write key" /\ r.todo = job[p].todo /\ r.of = job[p].of
      /\ r.notes = job[p].notes /\ r.keys = job[p].keys /\ r.seen = job[p].seen
  BY <1>1 DEF JobRecord
<1>4. job' = [job EXCEPT ![p] = r]
  BY DEF PersistFails
<1> HIDE DEF r
<1>5. JobTyped' /\ job'[p] = r /\ \A q \in Operator \ {p} : job'[q] = job[q]
  BY <1>2, <1>4, JobPut DEF Typed
<1>6. Typed'
  BY <1>5 DEF PersistFails, Typed, KeysTyped, WordTyped, RestTyped
<1>7. QED
  BY <1>1, <1>3, <1>5, <1>6 DEF Others, SameWork

LEMMA WriteKeyDoes ==
    ASSUME PoolAssumption, Typed, NEW p \in Operator, WriteKey(p)
    PROVE  /\ Typed' /\ Others(p) /\ SameWork(p) /\ job[p].at = "write key" /\ job'[p].at = "sync"
           /\ \E a \in job[p].of :
                 /\ job'[p].todo = job[p].todo \ {a}
                 /\ \A b \in Account \ {a} : key'[b] = key[b]
                 /\ \/ /\ job'[p].notes = job[p].notes
                       /\ IF ~job[p].keys[a].there /\ ~key[a].there
                          THEN /\ key'[a].there /\ key'[a].enabled /\ ~key'[a].held
                               /\ key'[a].token = job[p].seen[a].token
                          ELSE IF job[p].keys[a].there /\ key[a].there
                          THEN /\ key'[a].there /\ key'[a].held = key[a].held
                               /\ key'[a].enabled = (key[a].enabled \/ Opens(job[p].keys[a]))
                               /\ key'[a].token = job[p].seen[a].token
                          ELSE key'[a] = key[a]
                    \/ job'[p].notes = job[p].notes \cup {a} /\ key' = key
<1>1. /\ job[p] \in JobRecord /\ job[p].at = "write key" /\ job[p].of \subseteq Account
      /\ job[p].keys \in [Account -> Row] /\ job[p].seen \in [Account -> AccountRow]
      /\ job[p].todo \subseteq Account /\ job[p].notes \subseteq Account
  BY DEF Typed, JobTyped, JobRecord, WriteKey
<1>2. PICK a \in job[p].of :
       LET old == job[p].keys[a]
           new == [key[a] EXCEPT !.token = job[p].seen[a].token,
                                 !.enabled = @ \/ Opens(old)]
           made == [there |-> TRUE, enabled |-> TRUE, held |-> FALSE,
                    token |-> job[p].seen[a].token]
       IN \/ /\ key' = IF ~old.there /\ ~key[a].there THEN [key EXCEPT ![a] = made]
                       ELSE IF old.there /\ key[a].there THEN [key EXCEPT ![a] = new]
                       ELSE key
             /\ job' = [job EXCEPT ![p].at = "sync", ![p].of = {}, ![p].todo = @ \ {a}]
          \/ /\ job' = [job EXCEPT ![p].at = "sync", ![p].of = {}, ![p].todo = @ \ {a},
                                   ![p].notes = @ \cup {a}]
             /\ UNCHANGED key
  BY DEF WriteKey
<1> DEFINE old == job[p].keys[a]
           n == job[p].seen[a].token
           opens == key[a].enabled \/ Opens(old)
           new == [key[a] EXCEPT !.token = n, !.enabled = opens]
           made == [there |-> TRUE, enabled |-> TRUE, held |-> FALSE, token |-> n]
           r == [job[p] EXCEPT !.at = "sync", !.of = {}, !.todo = @ \ {a}]
           s == [job[p] EXCEPT !.at = "sync", !.of = {}, !.todo = @ \ {a}, !.notes = @ \cup {a}]
<1>3. a \in Account /\ n \in 0..MaxToken /\ key[a] \in Row /\ key \in [Account -> Row]
  BY <1>1 DEF AccountRow, Typed, KeysTyped
<1>4. r \in JobRecord /\ s \in JobRecord
  BY <1>1, <1>3 DEF JobRecord
<1>5. /\ r.at = "sync" /\ r.todo = job[p].todo \ {a} /\ r.notes = job[p].notes
      /\ r.keys = job[p].keys /\ r.seen = job[p].seen
      /\ s.at = "sync" /\ s.todo = job[p].todo \ {a} /\ s.notes = job[p].notes \cup {a}
      /\ s.keys = job[p].keys /\ s.seen = job[p].seen
  BY <1>1 DEF JobRecord
<1>6. made \in Row /\ made.there /\ made.enabled /\ ~made.held /\ made.token = n
  BY <1>3 DEF Row
<1>7. /\ new \in Row /\ new.there = key[a].there /\ new.held = key[a].held
      /\ new.enabled = opens /\ new.token = n
  <2>1. opens \in BOOLEAN
    BY <1>3 DEF Row
  <2> HIDE DEF opens
  <2>2. QED
    BY <1>3, <2>1 DEF Row
<1>8. \/ /\ key' = IF ~old.there /\ ~key[a].there THEN [key EXCEPT ![a] = made]
                   ELSE IF old.there /\ key[a].there THEN [key EXCEPT ![a] = new]
                   ELSE key
         /\ job' = [job EXCEPT ![p] = r]
      \/ key' = key /\ job' = [job EXCEPT ![p] = s]
  BY <1>2
<1> HIDE DEF new, made, r, s, n
<1>9. /\ key' \in [Account -> Row] /\ \A b \in Account \ {a} : key'[b] = key[b]
      /\ key'[a] = key[a] \/ key'[a].there
  BY <1>3, <1>6, <1>7, <1>8
<1>10. KeysTyped'
  BY <1>9 DEF Typed, KeysTyped
<1>11. /\ JobTyped' /\ Others(p)
       /\ IF key' = key /\ job'[p] = s THEN TRUE ELSE job'[p] = r
  BY <1>4, <1>8, JobPut DEF Typed, Others
<1>12. Typed'
  BY <1>10, <1>11 DEF WriteKey, Typed, WordTyped, RestTyped
<1>13. SameWork(p) /\ job'[p].at = "sync" /\ job'[p].todo = job[p].todo \ {a}
  BY <1>5, <1>11 DEF SameWork
<1>14. \/ /\ job'[p].notes = job[p].notes
          /\ IF ~old.there /\ ~key[a].there
             THEN key'[a].there /\ key'[a].enabled /\ ~key'[a].held /\ key'[a].token = n
             ELSE IF old.there /\ key[a].there
             THEN /\ key'[a].there /\ key'[a].held = key[a].held
                  /\ key'[a].enabled = (key[a].enabled \/ Opens(old)) /\ key'[a].token = n
             ELSE key'[a] = key[a]
       \/ job'[p].notes = job[p].notes \cup {a} /\ key' = key
  <2>1. CASE key' = key /\ job' = [job EXCEPT ![p] = s]
    <3>1. job'[p] = s
      BY <1>4, <2>1, JobPut DEF Typed
    <3>2. QED
      BY <1>5, <2>1, <3>1
  <2>2. CASE /\ key' = IF ~old.there /\ ~key[a].there THEN [key EXCEPT ![a] = made]
                       ELSE IF old.there /\ key[a].there THEN [key EXCEPT ![a] = new]
                       ELSE key
             /\ job' = [job EXCEPT ![p] = r]
    <3>1. job'[p] = r
      BY <1>4, <2>2, JobPut DEF Typed
    <3>2. IF ~old.there /\ ~key[a].there
          THEN key'[a].there /\ key'[a].enabled /\ ~key'[a].held /\ key'[a].token = n
          ELSE IF old.there /\ key[a].there
          THEN /\ key'[a].there /\ key'[a].held = key[a].held
               /\ key'[a].enabled = (key[a].enabled \/ Opens(old)) /\ key'[a].token = n
          ELSE key'[a] = key[a]
      BY <1>3, <1>6, <1>7, <2>2
    <3>3. QED
      BY <1>5, <3>1, <3>2
  <2>3. QED
    BY <1>8, <2>1, <2>2
<1>15. QED
  BY <1>1, <1>2, <1>9, <1>11, <1>12, <1>13, <1>14 DEF n

LEMMA SyncDoneDoes ==
    ASSUME PoolAssumption, Typed, NEW p \in Operator, SyncDone(p)
    PROVE  /\ Typed' /\ Others(p) /\ job[p].at = "sync" /\ job'[p].at = "refresh"
           /\ UNCHANGED <<account, key, served, word, failed>>
<1>1. job[p] \in JobRecord
  BY DEF Typed, JobTyped
<1>2. /\ JobTyped' /\ job'[p] = [job[p] EXCEPT !.at = "refresh"] /\ Others(p)
  BY GoesTo DEF SyncDone, Typed, Others
<1>3. Typed'
  BY <1>2 DEF SyncDone, Typed, KeysTyped, WordTyped, RestTyped
<1>4. QED
  BY <1>1, <1>2, <1>3 DEF SyncDone, JobRecord

LEMMA SyncBegins ==
    ASSUME PoolAssumption, Typed, NEW p \in Operator, OfficialPoolSync(p)
    PROVE  /\ Typed' /\ Others(p) /\ job[p].at = "idle" /\ job'[p].at = "sync"
           /\ job'[p].keys = key /\ job'[p].seen = account /\ job'[p].notes = {}
           /\ job'[p].todo = {a \in Account : Exists(a)}
<1> DEFINE todo == {a \in Account : Exists(a)}
           r == [NoJob EXCEPT !.at = "sync", !.seen = account, !.keys = key, !.todo = todo]
<1>1. todo \in SUBSET Account /\ account \in [Account -> AccountRow] /\ key \in [Account -> Row]
  BY DEF Typed, KeysTyped
<1>2. job' = [job EXCEPT ![p] = r]
  BY DEF OfficialPoolSync
<1> HIDE DEF todo
<1>3. r \in JobRecord
  BY <1>1, Shapes DEF JobRecord
<1>4. r.at = "sync" /\ r.keys = key /\ r.seen = account /\ r.todo = todo /\ r.notes = {}
  BY DEF NoJob
<1> HIDE DEF r
<1>5. JobTyped' /\ job'[p] = r /\ Others(p)
  BY <1>2, <1>3, JobPut DEF Typed, Others
<1>6. Typed'
  BY <1>5 DEF OfficialPoolSync, Typed, KeysTyped, WordTyped, RestTyped
<1>7. QED
  BY <1>4, <1>5, <1>6 DEF OfficialPoolSync, todo

LEMMA ReadRowsDoes ==
    ASSUME PoolAssumption, Typed, NEW p \in Operator, ReadRows(p)
    PROVE  /\ Typed' /\ Others(p) /\ job[p].at = "refresh"
           /\ job'[p].at = "install" /\ job'[p].keys = key
<1> DEFINE r == [job[p] EXCEPT !.at = "install", !.keys = key]
<1>1. job[p] \in JobRecord /\ key \in [Account -> Row]
  BY DEF Typed, JobTyped, KeysTyped
<1>2. r \in JobRecord
  BY <1>1 DEF JobRecord
<1>3. r.at = "install" /\ r.keys = key
  BY <1>1 DEF JobRecord
<1>4. job' = [job EXCEPT ![p] = r]
  BY DEF ReadRows
<1> HIDE DEF r
<1>5. JobTyped' /\ job'[p] = r /\ Others(p)
  BY <1>2, <1>4, JobPut DEF Typed, Others
<1>6. QED
  BY <1>3, <1>5 DEF ReadRows, Typed, KeysTyped, WordTyped, RestTyped

(* What the remaining steps of a request have in common: they neither begin *)
(* nor go on with a synchronisation.                                       *)
LEMMA OtherSteps ==
    ASSUME PoolAssumption, Typed, NEW p \in Operator,
           \/ \E a \in Account : OfficialAccountAuthorize(p, a) \/ OfficialAccountCallback(p, a)
                                 \/ OfficialAccountReadUsage(p, a) \/ OfficialAccountDelete(p, a)
           \/ UsageRead(p) \/ UsageFailed(p) \/ SyncFails(p) \/ Install(p)
    PROVE  /\ Typed' /\ Others(p) /\ ~Syncing(p)' /\ job'[p].at \notin {"refresh", "install"}
           /\ \A a \in Account :
                 \/ key'[a] = key[a] /\ word'[a] = word[a]
                 \/ key'[a] = NoKey /\ word'[a] = "none" /\ account'[a].status = "deleted"
<1>1. ASSUME NEW a \in Account, OfficialAccountAuthorize(p, a)
      PROVE  /\ Typed' /\ Others(p) /\ job'[p].at = "idle" /\ UNCHANGED <<key, word>>
  <2>1. account' \in [Account -> AccountRow]
    <3>1. account \in [Account -> AccountRow] /\ account' = [account EXCEPT ![a].status = "pending"]
      BY <1>1 DEF Typed, OfficialAccountAuthorize
    <3>2. QED
      BY <3>1 DEF AccountRow
  <2>2. QED
    BY <1>1, <2>1 DEF OfficialAccountAuthorize, Typed, KeysTyped, WordTyped, JobTyped, RestTyped, Others
<1>2. ASSUME NEW a \in Account, OfficialAccountCallback(p, a) \/ OfficialAccountReadUsage(p, a)
      PROVE  Typed' /\ Others(p) /\ job'[p].at \in {"exchange", "read usage"} /\ UNCHANGED <<key, word>>
  <2>1. PICK place \in {"exchange", "read usage"} : Start(p, place, a)
    BY <1>2 DEF OfficialAccountCallback, OfficialAccountReadUsage
  <2>2. JobTyped' /\ job'[p].at = place /\ Others(p)
    BY <2>1, Begins DEF Typed, Others
  <2>3. QED
    BY <1>2, <2>1, <2>2 DEF OfficialAccountCallback, OfficialAccountReadUsage, Typed, KeysTyped, WordTyped, RestTyped
<1>3. ASSUME NEW a \in Account, OfficialAccountDelete(p, a)
      PROVE  /\ Typed' /\ Others(p) /\ job'[p].at = "idle"
             /\ key'[a] = NoKey /\ word'[a] = "none" /\ account'[a].status = "deleted"
             /\ \A b \in Account \ {a} : key'[b] = key[b] /\ word'[b] = word[b]
  <2>1. /\ account' \in [Account -> AccountRow] /\ account'[a].status = "deleted"
    BY <1>3, Shapes DEF OfficialAccountDelete, Typed, NoAccount
  <2>2. KeysTyped' /\ key'[a] = NoKey /\ \A b \in Account \ {a} : key'[b] = key[b]
    BY <1>3, Shapes DEF OfficialAccountDelete, KeyDropped, Typed, KeysTyped
  <2>3. WordTyped' /\ word'[a] = "none" /\ \A b \in Account \ {a} : word'[b] = word[b]
    BY <1>3 DEF OfficialAccountDelete, Typed, WordTyped
  <2>4. QED
    BY <1>3, <2>1, <2>2, <2>3 DEF OfficialAccountDelete, Typed, JobTyped, RestTyped, Others
<1>4. ASSUME UsageRead(p) \/ UsageFailed(p) \/ SyncFails(p) \/ Install(p)
      PROVE  Typed' /\ Others(p) /\ job'[p].at = "idle" /\ UNCHANGED <<key, word>>
  <2>1. JobTyped' /\ job'[p].at = "idle" /\ Others(p)
    BY <1>4, Quits DEF UsageRead, UsageFailed, SyncFails, Install, Typed, Others
  <2>2. account' \in [Account -> AccountRow]
    <3>1. CASE UsageFailed(p)
      <4>1. account \in [Account -> AccountRow]
        BY DEF Typed
      <4>2. \A a \in Account : [account[a] EXCEPT !.status = "error"] \in AccountRow
        BY <4>1 DEF AccountRow
      <4>3. QED
        BY <3>1, <4>1, <4>2 DEF UsageFailed
    <3>2. CASE account' = account
      BY <3>2 DEF Typed
    <3>3. QED
      BY <1>4, <3>1, <3>2 DEF UsageRead, SyncFails, Install
  <2>3. served' \in [Account -> Row]
    <3>1. CASE Install(p)
      BY <3>1 DEF Install, Installed, Typed, JobTyped, JobRecord
    <3>2. CASE served' = served
      BY <3>2 DEF Typed
    <3>3. QED
      BY <1>4, <3>1, <3>2 DEF UsageRead, UsageFailed, SyncFails
  <2>4. QED
    BY <1>4, <2>1, <2>2, <2>3
       DEF UsageRead, UsageFailed, SyncFails, Install, Typed, KeysTyped, WordTyped, RestTyped
<1>5. QED
  BY <1>1, <1>2, <1>3, <1>4 DEF Syncing

(* What happens without a request. *)
LEMMA Surroundings ==
    ASSUME PoolAssumption, Typed,
           (\E a \in Account : ForgetState(a) \/ FallDue(a)) \/ UNCHANGED poolVars
    PROVE  /\ Typed' /\ UNCHANGED <<key, served, word, job, failed>>
           /\ \A a \in Account : account'[a].status = account[a].status /\ account'[a].token = account[a].token
<1>1. account' \in [Account -> AccountRow] /\ \A a \in Account :
          account'[a].status = account[a].status /\ account'[a].token = account[a].token
  <2>1. account \in [Account -> AccountRow]
    BY DEF Typed
  <2>2. ASSUME NEW a \in Account, account' = [account EXCEPT ![a].due = TRUE]
        PROVE  account' \in [Account -> AccountRow] /\ \A b \in Account :
                   account'[b].status = account[b].status /\ account'[b].token = account[b].token
    BY <2>1, <2>2 DEF AccountRow
  <2>3. CASE account' = account
    BY <2>1, <2>3
  <2>4. QED
    BY <2>2, <2>3 DEF ForgetState, FallDue, poolVars
<1>2. QED
  BY <1>1 DEF ForgetState, FallDue, poolVars, Typed, KeysTyped, WordTyped, JobTyped, RestTyped

LEMMA RestartDoes ==
    ASSUME PoolAssumption, Typed, RestartPool
    PROVE  /\ Typed' /\ UNCHANGED <<account, key, word>> /\ served' = key
           /\ \A p \in Operator : job'[p].at = "idle"
<1>1. JobTyped' /\ \A p \in Operator : job'[p].at = "idle"
  BY Shapes DEF RestartPool, JobTyped
<1>2. RestTyped'
  <2>1. restarts \in 0..MaxRestart /\ restarts < MaxRestart /\ restarts' = restarts + 1 /\ failed' = FALSE
    BY DEF RestartPool, Typed, RestTyped
  <2>2. restarts' \in 0..MaxRestart
    BY <2>1, ZeroToken
  <2>3. QED
    BY <2>1, <2>2 DEF RestTyped
<1>3. QED
  BY <1>1, <1>2 DEF RestartPool, Typed, KeysTyped, WordTyped

LEMMA TypedInit == PoolAssumption /\ PoolInit => Typed
<1> SUFFICES ASSUME PoolAssumption, PoolInit PROVE Typed
  OBVIOUS
<1>1. /\ account \in [Account -> AccountRow] /\ key \in [Account -> Row] /\ served \in [Account -> Row]
      /\ \A a \in Account : key[a] = NoKey
  BY Shapes DEF PoolInit
<1>2. JobTyped /\ issued \in [Account -> 0..MaxToken] /\ RestTyped
  <2>1. JobTyped
    BY Shapes DEF PoolInit, JobTyped
  <2>2. issued \in [Account -> 0..MaxToken]
    BY ZeroToken DEF PoolInit
  <2>3. QED
    BY <2>1, <2>2, ZeroToken DEF PoolInit, RestTyped
<1>3. QED
  BY <1>1, <1>2 DEF PoolInit, Typed, KeysTyped, WordTyped

LEMMA TypedStep ==
    ASSUME PoolAssumption, Typed, [PoolNext]_poolVars
    PROVE  Typed'
<1>1. ASSUME NEW p \in Operator, Request(p) PROVE Typed'
  BY <1>1, ExchangeDoes, SwitchDoes, SaveDoes, SyncNextDoes, RefreshTokenDoes, PersistTokenDoes,
     PersistFailsDoes, WriteKeyDoes, SyncDoneDoes, SyncBegins, ReadRowsDoes, OtherSteps DEF Request
<1>2. QED
  BY <1>1, Surroundings, RestartDoes DEF PoolNext

(* No request, failure or restart leaves a row, a cached credential or a   *)
(* step under way out of shape, and a credential that goes leaves nothing  *)
(* behind (official_pool.go, official_account.go).                         *)
THEOREM PoolTypes == PoolSpec => []PoolTypeOK
<1>1. PoolInit => Typed
  BY TypedInit, PoolAssumption
<1>2. Typed /\ [PoolNext]_poolVars => Typed'
  BY TypedStep, PoolAssumption
<1>3. Typed => PoolTypeOK
  BY TypedIsTypeOK
<1>4. QED
  BY <1>1, <1>2, <1>3, PTL DEF PoolSpec

-----------------------------------------------------------------------------
(* The operator's word.                                                    *)

(* What is switched off is held, every synchronisation knows it, and works *)
(* on accounts that it has still to do.                                    *)
HeldOff == \A a \in Account : word[a] = "off" =>
               key[a].there /\ key[a].held /\ ~key[a].enabled
SyncKnows == \A p \in Operator : Syncing(p) =>
                 \A a \in job[p].todo : word[a] = "off" => job[p].keys[a].held
OfIsToDo == \A p \in Operator : AtAccount(p) => job[p].of \subseteq job[p].todo
WordInv == Typed /\ HeldOff /\ SyncKnows /\ OfIsToDo

LEMMA WordInit == PoolAssumption /\ PoolInit => WordInv
<1> SUFFICES ASSUME PoolAssumption, PoolInit PROVE WordInv
  OBVIOUS
<1>1. Typed
  BY TypedInit
<1>2. \A p \in Operator : job[p].at = "idle"
  BY Shapes DEF PoolInit
<1>3. QED
  BY <1>1, <1>2 DEF PoolInit, WordInv, HeldOff, SyncKnows, OfIsToDo, Syncing, AtAccount

(* A step of p that leaves no synchronisation of p behind. *)
LEMMA WordElsewhere ==
    ASSUME WordInv, Typed', NEW p \in Operator, Others(p), ~Syncing(p)',
           \A a \in Account : word'[a] = "off" =>
               \/ word[a] = "off" /\ key'[a] = key[a]
               \/ /\ key'[a].there /\ key'[a].held /\ ~key'[a].enabled
                  /\ \A q \in Operator : ~Syncing(q)
    PROVE  WordInv'
<1>1. HeldOff'
  BY DEF WordInv, HeldOff
<1>2. ASSUME NEW q \in Operator, Syncing(q)'
      PROVE  q # p /\ job'[q] = job[q] /\ Syncing(q) /\ job[q].todo \subseteq Account
  <2>1. q # p /\ job'[q] = job[q]
    BY <1>2 DEF Others
  <2>2. job[q].todo \subseteq Account
    BY DEF WordInv, Typed, JobTyped, JobRecord
  <2>3. QED
    BY <1>2, <2>1, <2>2 DEF Syncing
<1>3. SyncKnows'
  BY <1>2 DEF WordInv, SyncKnows
<1>4. OfIsToDo'
  <2>1. \A q \in Operator : AtAccount(q)' => Syncing(q)'
    BY DEF AtAccount, Syncing
  <2>2. QED
    BY <1>2, <2>1 DEF WordInv, OfIsToDo, AtAccount
<1>5. QED
  BY <1>1, <1>3, <1>4 DEF WordInv

(* A step of the synchronisation p. *)
LEMMA WordOnward ==
    ASSUME WordInv, Typed', NEW p \in Operator, Others(p), SameWork(p), Syncing(p), word' = word,
           job'[p].todo \subseteq job[p].todo,
           AtAccount(p)' => job'[p].of \subseteq job'[p].todo,
           \A a \in Account : word[a] = "off" =>
               key'[a].there /\ key'[a].held /\ ~key'[a].enabled
    PROVE  WordInv'
<1>1. HeldOff'
  BY DEF HeldOff
<1>2. SyncKnows'
  BY DEF WordInv, SyncKnows, SameWork, Others, Syncing
<1>3. OfIsToDo'
  BY DEF WordInv, OfIsToDo, Others, AtAccount
<1>4. QED
  BY <1>1, <1>2, <1>3 DEF WordInv

LEMMA WordRequest ==
    ASSUME PoolAssumption, WordInv, SwitchesApartStep, NEW p \in Operator, Request(p)
    PROVE  WordInv'
<1>0. Typed /\ HeldOff
  BY DEF WordInv
<1>1. ASSUME NEW a \in Account, NEW on \in BOOLEAN, SetChannelKeyEnabled(p, a, on) PROVE WordInv'
  <2>1. \A q \in Operator : ~Syncing(q)
    BY <1>1 DEF SwitchesApartStep, Switches
  <2>2. ~Syncing(p)'
    BY <1>0, <1>1, SwitchDoes DEF Syncing
  <2>3. \A b \in Account : word'[b] = "off" =>
            \/ word[b] = "off" /\ key'[b] = key[b]
            \/ key'[b].there /\ key'[b].held /\ ~key'[b].enabled
    BY <1>0, <1>1, SwitchDoes
  <2>4. QED
    BY <1>0, <1>1, <2>1, <2>2, <2>3, SwitchDoes, WordElsewhere
<1>2. ASSUME NEW a \in Account, SaveChannelKeys(p, a) PROVE WordInv'
  <2>1. \A q \in Operator : ~Syncing(q)
    BY <1>2 DEF SwitchesApartStep, Switches
  <2>2. ~Syncing(p)'
    BY <1>0, <1>2, SaveDoes DEF Syncing
  <2>3. \A b \in Account : word'[b] = "off" =>
            \/ word[b] = "off" /\ key'[b] = key[b]
            \/ key'[b].there /\ key'[b].held /\ ~key'[b].enabled
    BY <1>0, <1>2, SaveDoes
  <2>4. QED
    BY <1>0, <1>2, <2>1, <2>2, <2>3, SaveDoes, WordElsewhere
<1>3. ASSUME \/ \E a \in Account : OfficialAccountAuthorize(p, a) \/ OfficialAccountCallback(p, a)
                                 \/ OfficialAccountReadUsage(p, a) \/ OfficialAccountDelete(p, a)
             \/ UsageRead(p) \/ UsageFailed(p) \/ SyncFails(p) \/ Install(p)
      PROVE  WordInv'
  <2>1. /\ Typed' /\ Others(p) /\ ~Syncing(p)'
        /\ \A a \in Account : word'[a] = "off" => word[a] = "off" /\ key'[a] = key[a]
    BY <1>0, <1>3, OtherSteps
  <2>2. QED
    BY <2>1, WordElsewhere
<1>4. CASE Exchange(p) \/ SyncDone(p) \/ ReadRows(p)
  <2>1. /\ Typed' /\ Others(p) /\ ~Syncing(p)'
        /\ \A a \in Account : word'[a] = "off" => word[a] = "off" /\ key'[a] = key[a]
    BY <1>0, <1>4, ExchangeDoes, SyncDoneDoes, ReadRowsDoes DEF Syncing, ReadRows
  <2>2. QED
    BY <2>1, WordElsewhere
<1>5. CASE OfficialPoolSync(p)
  <2>1. /\ Typed' /\ Others(p) /\ job'[p].at = "sync" /\ job'[p].keys = key
        /\ job'[p].todo \subseteq Account /\ UNCHANGED <<key, word>>
    BY <1>0, <1>5, SyncBegins DEF OfficialPoolSync
  <2>2. HeldOff'
    BY <1>0, <2>1 DEF HeldOff
  <2>3. SyncKnows'
    BY <1>0, <2>1 DEF WordInv, HeldOff, SyncKnows, Others, Syncing
  <2>4. OfIsToDo'
    BY <2>1 DEF WordInv, OfIsToDo, Others, AtAccount
  <2>5. QED
    BY <2>1, <2>2, <2>3, <2>4 DEF WordInv
<1>6. ASSUME NEW a \in Account, SyncNext(p, a) PROVE WordInv'
  <2>1. \A b \in Account : word[b] = "off" => key'[b].there /\ key'[b].held /\ ~key'[b].enabled
    <3>1. key \in [Account -> Row]
      BY <1>0 DEF Typed, KeysTyped
    <3>2. key' = key \/ key' = [key EXCEPT ![a].enabled = FALSE]
      BY <1>0, <1>6, SyncNextDoes
    <3>3. QED
      BY <1>0, <3>1, <3>2 DEF HeldOff, Row
  <2>2. word' = word
    BY <1>6 DEF SyncNext
  <2>3. /\ Typed' /\ Others(p) /\ SameWork(p) /\ job[p].at = "sync"
        /\ \/ job'[p].at = "sync" /\ job'[p].todo = job[p].todo \ {a}
           \/ job'[p].todo = job[p].todo /\ job'[p].of = {a} /\ a \in job[p].todo
    BY <1>0, <1>6, SyncNextDoes
  <2>4. /\ Syncing(p) /\ job'[p].todo \subseteq job[p].todo
        /\ AtAccount(p)' => job'[p].of \subseteq job'[p].todo
    BY <2>3 DEF Syncing, AtAccount
  <2>5. QED
    BY <2>1, <2>2, <2>3, <2>4, WordOnward
<1>7. CASE RefreshToken(p) \/ PersistFails(p)
  <2>1. /\ Typed' /\ Others(p) /\ SameWork(p) /\ AtAccount(p)
        /\ job'[p].todo = job[p].todo /\ job'[p].of = job[p].of /\ UNCHANGED <<key, word>>
    BY <1>0, <1>7, RefreshTokenDoes, PersistFailsDoes DEF RefreshToken, PersistFails, AtAccount
  <2>2. Syncing(p) /\ job[p].of \subseteq job[p].todo
    BY <2>1 DEF WordInv, OfIsToDo, AtAccount, Syncing
  <2>3. QED
    BY <1>0, <2>1, <2>2, WordOnward DEF HeldOff
<1>8. CASE PersistToken(p)
  <2>1. /\ Typed' /\ Others(p) /\ AtAccount(p) /\ job'[p].at = "write key" /\ job'[p].keys = job[p].keys
        /\ job'[p].todo = job[p].todo /\ job'[p].of = job[p].of /\ UNCHANGED <<key, word>>
    BY <1>0, <1>8, PersistTokenDoes DEF AtAccount
  <2>2. HeldOff'
    BY <1>0, <2>1 DEF HeldOff
  <2>3. SyncKnows'
    BY <2>1 DEF WordInv, SyncKnows, Others, Syncing, AtAccount
  <2>4. OfIsToDo'
    BY <2>1 DEF WordInv, OfIsToDo, Others, AtAccount
  <2>5. QED
    BY <2>1, <2>2, <2>3, <2>4 DEF WordInv
<1>9. CASE WriteKey(p)
  <2>1. /\ Typed' /\ Others(p) /\ SameWork(p) /\ job[p].at = "write key" /\ job'[p].at = "sync"
    BY <1>0, <1>9, WriteKeyDoes
  <2>2. PICK a \in job[p].of :
                 /\ job'[p].todo = job[p].todo \ {a}
                 /\ \A b \in Account \ {a} : key'[b] = key[b]
                 /\ \/ ~key[a].there
                    \/ key'[a] = key[a]
                    \/ /\ key'[a].there /\ key'[a].held = key[a].held
                       /\ key'[a].enabled = (key[a].enabled \/ Opens(job[p].keys[a]))
    BY <1>0, <1>9, WriteKeyDoes
  <2>3. a \in job[p].todo /\ a \in Account
    BY <1>0, <2>1 DEF WordInv, OfIsToDo, AtAccount, Typed, JobTyped, JobRecord
  <2>4. word[a] = "off" => key[a].there /\ key[a].held /\ ~key[a].enabled /\ job[p].keys[a].held
    BY <1>0, <2>1, <2>3 DEF HeldOff, WordInv, SyncKnows, Syncing
  <2>5. \A b \in Account : word[b] = "off" => key'[b].there /\ key'[b].held /\ ~key'[b].enabled
    BY <1>0, <2>2, <2>4 DEF HeldOff, Opens
  <2>6. word' = word
    BY <1>9 DEF WriteKey
  <2>7. QED
    BY <2>1, <2>2, <2>5, <2>6, WordOnward DEF Syncing, AtAccount
<1>10. QED
  BY <1>1, <1>2, <1>3, <1>4, <1>5, <1>6, <1>7, <1>8, <1>9 DEF Request

LEMMA WordStep ==
    ASSUME PoolAssumption, WordInv, [PoolNext]_poolVars, [SwitchesApartStep]_poolVars
    PROVE  WordInv'
<1>1. CASE RestartPool
  BY <1>1, RestartDoes DEF WordInv, HeldOff, SyncKnows, OfIsToDo, Syncing, AtAccount
<1>2. CASE (\E a \in Account : ForgetState(a) \/ FallDue(a)) \/ UNCHANGED poolVars
  BY <1>2, Surroundings DEF WordInv, HeldOff, SyncKnows, OfIsToDo, Syncing, AtAccount
<1>3. ASSUME NEW p \in Operator, Request(p), SwitchesApartStep PROVE WordInv'
  BY <1>3, WordRequest
<1>4. QED
  BY <1>1, <1>2, <1>3 DEF PoolNext

(* While the operator leaves the switches alone during a synchronisation,  *)
(* a credential that was switched off stays off, however many requests run *)
(* at once, whichever account is refreshed, fails, is removed or made      *)
(* again, and wherever the process ends.                                   *)
THEOREM OperatorsWordIsKept == PoolSpec /\ SwitchesApart => []OperatorsWordHolds
<1>1. PoolInit => WordInv
  BY WordInit, PoolAssumption
<1>2. WordInv /\ [PoolNext]_poolVars /\ [SwitchesApartStep]_poolVars => WordInv'
  BY WordStep, PoolAssumption
<1>3. WordInv => OperatorsWordHolds
  BY DEF WordInv, HeldOff, OperatorsWordHolds
<1>4. QED
  BY <1>1, <1>2, <1>3, PTL DEF PoolSpec, SwitchesApart

-----------------------------------------------------------------------------
(* The cache, when the panel's requests come one after the other.          *)

OneBusy == \A p, q \in Operator : p = q \/ job[p].at = "idle" \/ job[q].at = "idle"

(* It is behind the rows only while a request is about to reload it.       *)
Reloads(p) == Syncing(p) \/ job[p].at \in {"refresh", "install"}
CacheIsCurrent ==
    (~failed /\ \A p \in Operator : ~Reloads(p)) =>
        \A a \in Account : account[a].status # "deleted" => served[a] = key[a]
CopyIsCurrent == \A p \in Operator : job[p].at = "install" => job[p].keys = key
ServedInv == Typed /\ OneBusy /\ CacheIsCurrent /\ CopyIsCurrent

LEMMA ServedInit == PoolAssumption /\ PoolInit => ServedInv
<1> SUFFICES ASSUME PoolAssumption, PoolInit PROVE ServedInv
  OBVIOUS
<1>1. Typed
  BY TypedInit
<1>2. \A p \in Operator : job[p].at = "idle"
  BY Shapes DEF PoolInit
<1>3. QED
  BY <1>1, <1>2 DEF PoolInit, ServedInv, OneBusy, CacheIsCurrent, CopyIsCurrent

(* A step of the one request p: it goes on towards a reload, or leaves the *)
(* cache no worse than it was.                                             *)
LEMMA ServedBy ==
    ASSUME ServedInv, Typed', NEW p \in Operator, Others(p),
           \A q \in Operator \ {p} : job[q].at = "idle",
           job'[p].at = "install" => job'[p].keys = key',
           \/ Reloads(p)' \/ failed'
           \/ /\ ~Reloads(p) /\ failed' = failed
              /\ \A a \in Account : account'[a].status # "deleted" =>
                    account[a].status # "deleted" /\ key'[a] = key[a] /\ served'[a] = served[a]
           \/ served' = key'
    PROVE  ServedInv'
<1>1. \A q \in Operator \ {p} : job'[q].at = "idle"
  BY DEF Others
<1>2. OneBusy' /\ CopyIsCurrent'
  BY <1>1 DEF OneBusy, CopyIsCurrent
<1>3. \A q \in Operator \ {p} : ~Reloads(q)
  BY DEF Reloads, Syncing
<1>4. CacheIsCurrent'
  <2>1. CASE Reloads(p)' \/ failed' \/ served' = key'
    BY <2>1 DEF CacheIsCurrent
  <2>2. CASE /\ ~Reloads(p) /\ failed' = failed
             /\ \A a \in Account : account'[a].status # "deleted" =>
                    account[a].status # "deleted" /\ key'[a] = key[a] /\ served'[a] = served[a]
    BY <1>3, <2>2 DEF CacheIsCurrent, ServedInv
  <2>3. QED
    BY <2>1, <2>2
<1>5. QED
  BY <1>2, <1>4 DEF ServedInv

LEMMA ServedRequest ==
    ASSUME PoolAssumption, ServedInv, OneByOneStep, NEW p \in Operator, Request(p)
    PROVE  ServedInv'
<1>0. Typed /\ \A q \in Operator \ {p} : job[q].at = "idle"
  BY DEF ServedInv, OneByOneStep
<1>1. ASSUME NEW a \in Account, NEW on \in BOOLEAN, SetChannelKeyEnabled(p, a, on) PROVE ServedInv'
  <2>1. /\ Typed' /\ Others(p) /\ job[p].at = "idle" /\ job'[p].at \in {"idle", "refresh"}
        /\ job'[p].at = "idle" => key' = key
    BY <1>0, <1>1, SwitchDoes
  <2>2. UNCHANGED <<account, served, failed>>
    BY <1>1 DEF SetChannelKeyEnabled
  <2>3. QED
    BY <1>0, <2>1, <2>2, ServedBy DEF Reloads, Syncing
<1>2. ASSUME NEW a \in Account, SaveChannelKeys(p, a) PROVE ServedInv'
  <2>1. Typed' /\ Others(p) /\ job'[p].at = "refresh"
    BY <1>0, <1>2, SaveDoes
  <2>2. QED
    BY <1>0, <2>1, ServedBy DEF Reloads
<1>3. ASSUME NEW a \in Account, \/ OfficialAccountAuthorize(p, a) \/ OfficialAccountCallback(p, a)
                                \/ OfficialAccountReadUsage(p, a) \/ OfficialAccountDelete(p, a)
      PROVE  ServedInv'
  <2>1. Typed' /\ Others(p) /\ job'[p].at \notin {"refresh", "install"} /\ job[p].at = "idle"
    BY <1>0, <1>3, OtherSteps DEF OfficialAccountAuthorize, OfficialAccountCallback,
       OfficialAccountReadUsage, OfficialAccountDelete, Start
  <2>2. /\ UNCHANGED <<served, failed>>
        /\ \A b \in Account : account'[b].status # "deleted" =>
              account[b].status # "deleted" /\ key'[b] = key[b]
    <3>1. CASE OfficialAccountDelete(p, a)
      BY <1>0, <3>1 DEF OfficialAccountDelete, KeyDropped, Typed, KeysTyped, NoAccount
    <3>2. CASE OfficialAccountAuthorize(p, a)
      BY <1>0, <3>2 DEF OfficialAccountAuthorize, Typed
    <3>3. CASE OfficialAccountCallback(p, a) \/ OfficialAccountReadUsage(p, a)
      BY <3>3 DEF OfficialAccountCallback, OfficialAccountReadUsage
    <3>4. QED
      BY <1>3, <3>1, <3>2, <3>3
  <2>3. ~Reloads(p)
    BY <2>1 DEF Reloads, Syncing
  <2>4. QED
    BY <1>0, <2>1, <2>2, <2>3, ServedBy
<1>4. CASE UsageRead(p) \/ UsageFailed(p)
  <2>1. Typed' /\ Others(p) /\ job'[p].at \notin {"refresh", "install"} /\ job[p].at = "read usage"
    BY <1>0, <1>4, OtherSteps DEF UsageRead, UsageFailed
  <2>2. /\ UNCHANGED <<served, failed, key>>
        /\ \A b \in Account : account'[b].status # "deleted" => account[b].status # "deleted"
    <3>1. CASE UsageRead(p)
      BY <3>1 DEF UsageRead
    <3>2. CASE UsageFailed(p)
      BY <3>2, <1>0 DEF UsageFailed, Exists, Typed
    <3>3. QED
      BY <1>4, <3>1, <3>2
  <2>3. ~Reloads(p)
    BY <2>1 DEF Reloads, Syncing
  <2>4. QED
    BY <1>0, <2>1, <2>2, <2>3, ServedBy
<1>5. CASE Exchange(p)
  <2>1. /\ Typed' /\ Others(p) /\ job[p].at = "exchange" /\ job'[p].at = "idle"
        /\ UNCHANGED <<key, served, word, failed>>
        /\ \A a \in Account : (Exists(a)' /\ Exists(a)) \/ account'[a] = account[a]
    BY <1>0, <1>5, ExchangeDoes
  <2>2. \A a \in Account : account'[a].status # "deleted" => account[a].status # "deleted"
    BY <2>1 DEF Exists
  <2>3. QED
    BY <1>0, <2>1, <2>2, ServedBy DEF Reloads, Syncing
<1>6. CASE SyncFails(p)
  <2>1. Typed' /\ Others(p) /\ job'[p].at \notin {"refresh", "install"} /\ failed'
    BY <1>0, <1>6, OtherSteps DEF SyncFails
  <2>2. QED
    BY <1>0, <2>1, ServedBy
<1>7. CASE Install(p)
  <2>1. Typed' /\ Others(p) /\ job'[p].at \notin {"refresh", "install"}
    BY <1>0, <1>7, OtherSteps
  <2>2. served' = key'
    BY <1>7 DEF Install, Installed, ServedInv, CopyIsCurrent
  <2>3. QED
    BY <1>0, <2>1, <2>2, ServedBy
<1>8. CASE ReadRows(p)
  <2>1. Typed' /\ Others(p) /\ job'[p].at = "install" /\ job'[p].keys = key'
    BY <1>0, <1>8, ReadRowsDoes DEF ReadRows
  <2>2. QED
    BY <1>0, <2>1, ServedBy DEF Reloads
<1>9. ASSUME \/ SyncDone(p) \/ OfficialPoolSync(p) \/ RefreshToken(p) \/ PersistToken(p)
             \/ PersistFails(p) \/ WriteKey(p) \/ \E a \in Account : SyncNext(p, a)
      PROVE  ServedInv'
  <2>1. Typed' /\ Others(p) /\ job'[p].at \in {"sync", "refresh token", "persist token", "write key", "refresh"}
    BY ZenonT(60), <1>0, <1>9, SyncDoneDoes, SyncBegins, RefreshTokenDoes, PersistTokenDoes, PersistFailsDoes,
       WriteKeyDoes, SyncNextDoes
  <2>2. QED
    BY <1>0, <2>1, ServedBy DEF Reloads, Syncing
<1>10. QED
  BY <1>1, <1>2, <1>3, <1>4, <1>5, <1>6, <1>7, <1>8, <1>9 DEF Request

LEMMA ServedStep ==
    ASSUME PoolAssumption, ServedInv, [PoolNext]_poolVars, [OneByOneStep]_poolVars
    PROVE  ServedInv'
<1>1. CASE RestartPool
  BY <1>1, RestartDoes DEF ServedInv, OneBusy, CacheIsCurrent, CopyIsCurrent
<1>2. CASE (\E a \in Account : ForgetState(a) \/ FallDue(a)) \/ UNCHANGED poolVars
  <2>1. /\ Typed' /\ UNCHANGED <<key, served, word, job, failed>>
        /\ \A a \in Account : account'[a].status = account[a].status
    BY <1>2, Surroundings DEF ServedInv
  <2>2. QED
    BY <2>1 DEF ServedInv, OneBusy, CacheIsCurrent, CopyIsCurrent, Reloads, Syncing
<1>3. ASSUME NEW p \in Operator, Request(p), OneByOneStep PROVE ServedInv'
  BY <1>3, ServedRequest
<1>4. QED
  BY <1>1, <1>2, <1>3 DEF PoolNext

(* While the panel's requests come one after the other, the credentials    *)
(* requests are served with are the stored ones whenever nothing is under  *)
(* way: every path that changes a row leads to a reload, or is known to    *)
(* have failed.                                                            *)
THEOREM CredentialsServedAsStored == PoolSpec /\ OneByOne => []ServedAsStored
<1>1. PoolInit => ServedInv
  BY ServedInit, PoolAssumption
<1>2. ServedInv /\ [PoolNext]_poolVars /\ [OneByOneStep]_poolVars => ServedInv'
  BY ServedStep, PoolAssumption
<1>3. ServedInv => ServedAsStored
  BY DEF ServedInv, CacheIsCurrent, ServedAsStored, Reloads, Syncing
<1>4. QED
  BY <1>1, <1>2, <1>3, PTL DEF PoolSpec, OneByOne

-----------------------------------------------------------------------------
(* The end of a synchronisation, when the panel's requests come one after  *)
(* the other: what it has still to do is as it was read, what it is        *)
(* through with is as it should be.                                        *)
HeldIsOff == \A a \in Account : key[a].held => ~key[a].enabled
AsRead(p, a) ==
    /\ Exists(a)
    /\ job[p].keys[a] = key[a]
    /\ job[p].seen[a].status = account[a].status
    /\ job[p].seen[a].token = account[a].token
Settled(a) ==
    /\ account[a].status = "active" =>
           key[a].there /\ key[a].token = account[a].token /\ key[a].enabled = ~key[a].held
    /\ account[a].status \in {"pending", "error"} => ~key[a].enabled
ReadStands(p) == \A a \in job[p].todo : AsRead(p, a)
DoneIsSettled(p) == \A a \in Account \ (job[p].todo \cup job[p].notes) : Settled(a)
WorksOn(p) ==
    AtAccount(p) => \A a \in job[p].of : a \in job[p].todo /\ account[a].status = "active"
Progress(p) == ReadStands(p) /\ DoneIsSettled(p) /\ WorksOn(p)
ConvergeInv == Typed /\ OneBusy /\ HeldIsOff /\ \A p \in Operator : Syncing(p) => Progress(p)

LEMMA ConvergeInit == PoolAssumption /\ PoolInit => ConvergeInv
<1> SUFFICES ASSUME PoolAssumption, PoolInit PROVE ConvergeInv
  OBVIOUS
<1>1. Typed
  BY TypedInit
<1>2. \A p \in Operator : job[p].at = "idle"
  BY Shapes DEF PoolInit
<1>3. HeldIsOff
  BY Shapes DEF PoolInit, HeldIsOff
<1>4. QED
  BY <1>1, <1>2, <1>3 DEF ConvergeInv, OneBusy, Syncing

LEMMA ConvergeBy ==
    ASSUME ConvergeInv, Typed', NEW p \in Operator, Others(p),
           \A q \in Operator \ {p} : job[q].at = "idle",
           HeldIsOff', Syncing(p)' => Progress(p)'
    PROVE  ConvergeInv'
<1>1. \A q \in Operator \ {p} : job'[q].at = "idle"
  BY DEF Others
<1>2. OneBusy'
  BY <1>1 DEF OneBusy
<1>3. \A q \in Operator \ {p} : ~Syncing(q)'
  BY <1>1 DEF Syncing
<1>4. QED
  BY <1>2, <1>3 DEF ConvergeInv

(* A step of the synchronisation that leaves the rows as they are.         *)
LEMMA ConvergeOnward ==
    ASSUME ConvergeInv, Typed', NEW p \in Operator, Others(p), SameWork(p), AtAccount(p),
           \A q \in Operator \ {p} : job[q].at = "idle",
           job'[p].todo = job[p].todo, job'[p].of = job[p].of, job'[p].notes = job[p].notes,
           UNCHANGED <<account, key>>
    PROVE  ConvergeInv'
<1>1. Syncing(p) /\ HeldIsOff'
  BY DEF AtAccount, Syncing, ConvergeInv, HeldIsOff
<1>2. Progress(p)
  BY <1>1 DEF ConvergeInv
<1>3. Progress(p)'
  <2>1. ReadStands(p)'
    BY <1>2 DEF Progress, ReadStands, AsRead, Exists, SameWork
  <2>2. DoneIsSettled(p)'
    BY <1>2 DEF Progress, DoneIsSettled, Settled
  <2>3. WorksOn(p)'
    BY <1>2 DEF Progress, WorksOn
  <2>4. QED
    BY <2>1, <2>2, <2>3 DEF Progress
<1>4. QED
  BY <1>1, <1>3, ConvergeBy

LEMMA ConvergeNext ==
    ASSUME PoolAssumption, ConvergeInv, NEW p \in Operator, NEW a \in Account, SyncNext(p, a),
           \A q \in Operator \ {p} : job[q].at = "idle"
    PROVE  ConvergeInv'
<1>0. Typed /\ HeldIsOff /\ account' = account
  BY DEF ConvergeInv, SyncNext
<1>1. /\ Typed' /\ Others(p) /\ SameWork(p) /\ job'[p].notes = job[p].notes
      /\ job[p].at = "sync" /\ a \in job[p].todo
      /\ \/ /\ job[p].seen[a].status # "active"
            /\ job'[p].at = "sync" /\ job'[p].todo = job[p].todo \ {a}
            /\ IF job[p].keys[a].there /\ job[p].keys[a].enabled /\ key[a].there
               THEN key' = [key EXCEPT ![a].enabled = FALSE] ELSE key' = key
         \/ /\ job[p].seen[a].status = "active"
            /\ job'[p].at \in {"refresh token", "write key"}
            /\ job'[p].todo = job[p].todo /\ job'[p].of = {a} /\ key' = key
  BY <1>0, SyncNextDoes
<1>2. Progress(p) /\ AsRead(p, a) /\ job[p].todo \subseteq Account
  BY <1>0, <1>1 DEF ConvergeInv, Syncing, Progress, ReadStands, Typed, JobTyped, JobRecord
<1>3. CASE job[p].seen[a].status # "active" /\ job'[p].at = "sync" /\ job'[p].todo = job[p].todo \ {a}
  <2>1. /\ \A b \in Account \ {a} : key'[b] = key[b]
        /\ ~key'[a].enabled
    <3>1. key \in [Account -> Row] /\ (~key[a].there => ~key[a].enabled)
      BY <1>0, Shapes DEF Typed, KeysTyped
    <3>2. job[p].keys[a] = key[a]
      BY <1>2 DEF AsRead
    <3>3. CASE key[a].there /\ key[a].enabled
      <4>1. key' = [key EXCEPT ![a].enabled = FALSE]
        BY <1>1, <1>3, <3>2, <3>3
      <4>2. QED
        BY <3>1, <4>1 DEF Row
    <3>4. CASE ~(key[a].there /\ key[a].enabled)
      <4>1. key' = key
        BY <1>1, <1>3, <3>2, <3>4
      <4>2. QED
        BY <3>1, <3>4, <4>1
    <3>5. QED
      BY <3>3, <3>4
  <2>2. HeldIsOff'
    BY <1>0, <2>1 DEF HeldIsOff
  <2>3. ReadStands(p)'
    BY <1>0, <1>1, <1>2, <1>3, <2>1 DEF Progress, ReadStands, AsRead, Exists, SameWork
  <2>4. DoneIsSettled(p)'
    <3>1. Settled(a)'
      BY <1>0, <1>2, <1>3, <2>1 DEF AsRead, Settled
    <3>2. QED
      BY <1>0, <1>1, <1>2, <1>3, <2>1, <3>1 DEF Progress, DoneIsSettled, Settled
  <2>5. WorksOn(p)'
    BY <1>3 DEF WorksOn, AtAccount
  <2>6. QED
    BY <1>1, <2>2, <2>3, <2>4, <2>5, ConvergeBy DEF Progress
<1>4. CASE /\ job[p].seen[a].status = "active" /\ job'[p].todo = job[p].todo
           /\ job'[p].of = {a} /\ key' = key
  <2>1. HeldIsOff'
    BY <1>0, <1>4 DEF HeldIsOff
  <2>2. ReadStands(p)'
    <3>1. /\ job'[p].todo = job[p].todo /\ job'[p].keys = job[p].keys
          /\ job'[p].seen = job[p].seen /\ UNCHANGED <<account, key>>
      BY <1>0, <1>1, <1>4 DEF SameWork
    <3>2. ReadStands(p)
      BY <1>2 DEF Progress
    <3>3. QED
      BY <3>1, <3>2 DEF ReadStands, AsRead, Exists
  <2>3. DoneIsSettled(p)'
    BY <1>0, <1>1, <1>2, <1>4 DEF Progress, DoneIsSettled, Settled
  <2>4. WorksOn(p)'
    BY <1>0, <1>1, <1>2, <1>4 DEF WorksOn, AsRead
  <2>5. QED
    BY <1>1, <2>1, <2>2, <2>3, <2>4, ConvergeBy DEF Progress
<1>5. QED
  BY <1>1, <1>3, <1>4

LEMMA ConvergePersist ==
    ASSUME PoolAssumption, ConvergeInv, NEW p \in Operator, PersistToken(p),
           \A q \in Operator \ {p} : job[q].at = "idle"
    PROVE  ConvergeInv'
<1>0. Typed /\ HeldIsOff
  BY DEF ConvergeInv
<1>1. /\ Typed' /\ Others(p) /\ job[p].at = "persist token" /\ job'[p].at = "write key"
      /\ job'[p].todo = job[p].todo /\ job'[p].of = job[p].of
      /\ job'[p].keys = job[p].keys /\ job'[p].notes = job[p].notes /\ key' = key
  BY <1>0, PersistTokenDoes
<1>2. PICK a \in job[p].of :
          /\ \A b \in Account \ {a} :
                account'[b] = account[b] /\ job'[p].seen[b] = job[p].seen[b]
          /\ job'[p].seen[a].status = job[p].seen[a].status
          /\ IF Exists(a)
             THEN account'[a].status = "active" /\ account'[a].token = job'[p].seen[a].token
             ELSE account'[a] = account[a]
  BY <1>0, PersistTokenDoes
<1>3. Progress(p) /\ job[p].todo \subseteq Account /\ AtAccount(p)
  BY <1>0, <1>1 DEF ConvergeInv, Syncing, AtAccount, Typed, JobTyped, JobRecord
<1>4. a \in job[p].todo /\ a \in Account /\ account[a].status = "active" /\ AsRead(p, a)
  BY <1>3 DEF Progress, WorksOn, ReadStands
<1>5. account'[a].status = "active" /\ account'[a].token = job'[p].seen[a].token
  BY <1>2, <1>4 DEF Exists
<1>6. HeldIsOff'
  BY <1>0, <1>1 DEF HeldIsOff
<1>7. ReadStands(p)'
  <2>1. AsRead(p, a)'
    BY <1>1, <1>2, <1>4, <1>5 DEF AsRead, Exists
  <2>2. ASSUME NEW b \in job[p].todo, b # a PROVE AsRead(p, b)'
    <3>1. account'[b] = account[b] /\ job'[p].seen[b] = job[p].seen[b]
      BY <1>2, <1>3, <2>2
    <3>2. AsRead(p, b)
      BY <1>3 DEF Progress, ReadStands
    <3>3. QED
      BY <1>1, <3>1, <3>2 DEF AsRead, Exists
  <2>3. QED
    BY <1>1, <2>1, <2>2 DEF ReadStands
<1>8. DoneIsSettled(p)'
  <2>1. ASSUME NEW b \in Account, b \notin job[p].todo \cup job[p].notes PROVE Settled(b)'
    <3>1. Settled(b) /\ b # a
      BY <1>3, <1>4, <2>1 DEF Progress, DoneIsSettled
    <3>2. account'[b] = account[b] /\ key'[b] = key[b]
      BY <1>1, <1>2, <3>1
    <3>3. QED
      BY <3>1, <3>2 DEF Settled
  <2>2. QED
    BY <1>1, <2>1 DEF DoneIsSettled
<1>9. WorksOn(p)'
  BY <1>1, <1>2, <1>3, <1>4, <1>5, ZenonT(60) DEF Progress, WorksOn
<1>10. QED
  BY <1>1, <1>6, <1>7, <1>8, <1>9, ConvergeBy DEF Progress

LEMMA ConvergeWrite ==
    ASSUME PoolAssumption, ConvergeInv, NEW p \in Operator, WriteKey(p),
           \A q \in Operator \ {p} : job[q].at = "idle"
    PROVE  ConvergeInv'
<1>0. Typed /\ HeldIsOff /\ account' = account
  BY DEF ConvergeInv, WriteKey
<1>1. /\ Typed' /\ Others(p) /\ SameWork(p) /\ job[p].at = "write key" /\ job'[p].at = "sync"
  BY <1>0, WriteKeyDoes
<1>2. PICK a \in job[p].of :
          /\ job'[p].todo = job[p].todo \ {a}
          /\ \A b \in Account \ {a} : key'[b] = key[b]
          /\ \/ /\ job'[p].notes = job[p].notes
                /\ IF ~job[p].keys[a].there /\ ~key[a].there
                   THEN /\ key'[a].there /\ key'[a].enabled /\ ~key'[a].held
                        /\ key'[a].token = job[p].seen[a].token
                   ELSE IF job[p].keys[a].there /\ key[a].there
                   THEN /\ key'[a].there /\ key'[a].held = key[a].held
                        /\ key'[a].enabled = (key[a].enabled \/ Opens(job[p].keys[a]))
                        /\ key'[a].token = job[p].seen[a].token
                   ELSE key'[a] = key[a]
             \/ job'[p].notes = job[p].notes \cup {a} /\ key' = key
  BY <1>0, WriteKeyDoes
<1>3. Progress(p) /\ job[p].todo \subseteq Account /\ AtAccount(p)
  BY <1>0, <1>1 DEF ConvergeInv, Syncing, AtAccount, Typed, JobTyped, JobRecord
<1>4. /\ a \in job[p].todo /\ a \in Account /\ account[a].status = "active"
      /\ job[p].keys[a] = key[a] /\ job[p].seen[a].token = account[a].token
      /\ key[a].held => ~key[a].enabled
      /\ key[a].held \in BOOLEAN /\ key[a].enabled \in BOOLEAN
  <2>1. a \in job[p].todo /\ a \in Account /\ account[a].status = "active"
    BY <1>3 DEF Progress, WorksOn
  <2>2. AsRead(p, a)
    BY <1>3, <2>1 DEF Progress, ReadStands
  <2>3. QED
    BY <1>0, <2>1, <2>2 DEF AsRead, HeldIsOff, Typed, KeysTyped, Row
<1>5. \/ key' = key /\ job'[p].notes = job[p].notes \cup {a}
      \/ /\ job'[p].notes = job[p].notes /\ key'[a].there
         /\ key'[a].token = account[a].token /\ key'[a].enabled = ~key'[a].held
  BY <1>2, <1>4 DEF Opens
<1>6. HeldIsOff'
  BY <1>0, <1>2, <1>5 DEF HeldIsOff
<1>7. ReadStands(p)'
  BY <1>0, <1>1, <1>2, <1>3, ZenonT(60) DEF Progress, ReadStands, AsRead, Exists, SameWork
<1>8. DoneIsSettled(p)'
  <2>1. a \in job'[p].notes \/ Settled(a)'
    BY <1>0, <1>4, <1>5 DEF Settled
  <2>2. ASSUME NEW b \in Account \ {a}, Settled(b) PROVE Settled(b)'
    BY <1>0, <1>2, <2>2 DEF Settled
  <2>3. job[p].notes \subseteq job'[p].notes
    BY <1>5
  <2>4. QED
    BY <1>2, <1>3, <2>1, <2>2, <2>3 DEF Progress, DoneIsSettled
<1>9. WorksOn(p)'
  BY <1>1 DEF WorksOn, AtAccount
<1>10. QED
  BY <1>1, <1>6, <1>7, <1>8, <1>9, ConvergeBy DEF Progress

LEMMA ConvergeRequest ==
    ASSUME PoolAssumption, ConvergeInv, OneByOneStep, NEW p \in Operator, Request(p)
    PROVE  ConvergeInv'
<1>0. Typed /\ HeldIsOff /\ \A q \in Operator \ {p} : job[q].at = "idle"
  BY DEF ConvergeInv, OneByOneStep
<1>1. ASSUME NEW a \in Account, NEW on \in BOOLEAN, SetChannelKeyEnabled(p, a, on) PROVE ConvergeInv'
  <2>1. Typed' /\ Others(p) /\ ~Syncing(p)'
    BY <1>0, <1>1, SwitchDoes, ZenonT(60) DEF Syncing
  <2>2. HeldIsOff'
    BY <1>0, <1>1, SwitchDoes DEF HeldIsOff
  <2>3. QED
    BY <1>0, <2>1, <2>2, ConvergeBy
<1>2. ASSUME NEW a \in Account, SaveChannelKeys(p, a) PROVE ConvergeInv'
  <2>1. Typed' /\ Others(p) /\ ~Syncing(p)'
    BY <1>0, <1>2, SaveDoes DEF Syncing
  <2>2. HeldIsOff'
    <3>1. key'[a].held => ~key'[a].enabled
      BY <1>0, <1>2, SaveDoes, Shapes
    <3>2. \A b \in Account \ {a} : key'[b] = key[b]
      BY <1>0, <1>2, SaveDoes
    <3>3. QED
      BY <1>0, <3>1, <3>2 DEF HeldIsOff
  <2>3. QED
    BY <1>0, <2>1, <2>2, ConvergeBy
<1>3. CASE \/ \E a \in Account : OfficialAccountAuthorize(p, a) \/ OfficialAccountCallback(p, a)
                                 \/ OfficialAccountReadUsage(p, a) \/ OfficialAccountDelete(p, a)
           \/ UsageRead(p) \/ UsageFailed(p) \/ SyncFails(p) \/ Install(p)
  <2>1. /\ Typed' /\ Others(p) /\ ~Syncing(p)'
        /\ \A a \in Account : key'[a] = key[a] \/ key'[a] = NoKey
    BY <1>0, <1>3, OtherSteps
  <2>2. HeldIsOff'
    BY <1>0, <2>1, Shapes DEF HeldIsOff
  <2>3. QED
    BY <1>0, <2>1, <2>2, ConvergeBy
<1>4. CASE Exchange(p) \/ SyncDone(p) \/ ReadRows(p)
  <2>1. Typed' /\ Others(p) /\ ~Syncing(p)' /\ key' = key
    BY <1>0, <1>4, ExchangeDoes, SyncDoneDoes, ReadRowsDoes DEF Syncing, ReadRows
  <2>2. HeldIsOff'
    BY <1>0, <2>1 DEF HeldIsOff
  <2>3. QED
    BY <1>0, <2>1, <2>2, ConvergeBy
<1>5. CASE OfficialPoolSync(p)
  <2>1. /\ Typed' /\ Others(p) /\ job'[p].at = "sync" /\ UNCHANGED <<account, key>>
        /\ job'[p].keys = key /\ job'[p].seen = account
        /\ job'[p].todo = {a \in Account : Exists(a)}
    BY <1>0, <1>5, SyncBegins DEF OfficialPoolSync
  <2>2. HeldIsOff'
    BY <1>0, <2>1 DEF HeldIsOff
  <2>3. ReadStands(p)'
    BY <2>1 DEF ReadStands, AsRead, Exists
  <2>4. DoneIsSettled(p)'
    BY <2>1 DEF DoneIsSettled, Settled, Exists
  <2>5. WorksOn(p)'
    BY <2>1 DEF WorksOn, AtAccount
  <2>6. QED
    BY <1>0, <2>1, <2>2, <2>3, <2>4, <2>5, ConvergeBy DEF Progress
<1>6. CASE RefreshToken(p) \/ PersistFails(p)
  <2>1. /\ Typed' /\ Others(p) /\ SameWork(p) /\ job'[p].notes = job[p].notes /\ AtAccount(p)
        /\ job'[p].todo = job[p].todo /\ job'[p].of = job[p].of /\ UNCHANGED <<account, key>>
    BY <1>0, <1>6, RefreshTokenDoes, PersistFailsDoes DEF RefreshToken, PersistFails, AtAccount
  <2>2. QED
    BY <1>0, <2>1, ConvergeOnward
<1>7. QED
  BY <1>0, <1>1, <1>2, <1>3, <1>4, <1>5, <1>6, ConvergeNext, ConvergePersist, ConvergeWrite DEF Request

LEMMA ConvergeStep ==
    ASSUME PoolAssumption, ConvergeInv, [PoolNext]_poolVars, [OneByOneStep]_poolVars
    PROVE  ConvergeInv'
<1>1. CASE RestartPool
  BY <1>1, RestartDoes DEF ConvergeInv, OneBusy, HeldIsOff, Syncing
<1>2. CASE (\E a \in Account : ForgetState(a) \/ FallDue(a)) \/ UNCHANGED poolVars
  <2>1. /\ Typed' /\ UNCHANGED <<key, job>> /\ OneBusy' /\ HeldIsOff'
        /\ \A a \in Account : account'[a].status = account[a].status /\ account'[a].token = account[a].token
    BY <1>2, Surroundings DEF ConvergeInv, OneBusy, HeldIsOff
  <2>2. ASSUME NEW p \in Operator, Syncing(p)' PROVE Progress(p)'
    <3>1. Progress(p) /\ job[p].todo \subseteq Account /\ job[p].of \subseteq Account
      BY <2>1, <2>2 DEF ConvergeInv, Syncing, Typed, JobTyped, JobRecord
    <3>2. ReadStands(p)'
      BY <2>1, <3>1 DEF Progress, ReadStands, AsRead, Exists
    <3>3. DoneIsSettled(p)'
      BY <2>1, <3>1 DEF Progress, DoneIsSettled, Settled
    <3>4. WorksOn(p)'
      BY <2>1, <3>1 DEF Progress, WorksOn, AtAccount
    <3>5. QED
      BY <3>2, <3>3, <3>4 DEF Progress
  <2>3. QED
    BY <2>1, <2>2 DEF ConvergeInv
<1>3. ASSUME NEW p \in Operator, Request(p), OneByOneStep PROVE ConvergeInv'
  BY <1>3, ConvergeRequest
<1>4. QED
  BY <1>1, <1>2, <1>3 DEF PoolNext

(* While the panel's requests come one after the other, a synchronisation  *)
(* that comes to its end leaves every account it could read with its       *)
(* credential as it should be, whatever fell due, failed to refresh or was *)
(* cut short before (official_pool.go).                                    *)
THEOREM SynchronisationConverges == PoolSpec /\ OneByOne => SyncConverges
<1>1. PoolInit => ConvergeInv
  BY ConvergeInit, PoolAssumption
<1>2. ConvergeInv /\ [PoolNext]_poolVars /\ [OneByOneStep]_poolVars => ConvergeInv'
  BY ConvergeStep, PoolAssumption
<1> DEFINE Converged ==
        \A p \in Operator : SyncDone(p) =>
          \A a \in Account \ job[p].notes :
             /\ account[a].status = "active" =>
                    key[a].there /\ key[a].token = account[a].token /\ key[a].enabled = ~key[a].held
             /\ account[a].status \in {"pending", "error"} => ~key[a].enabled
<1>3. ConvergeInv => Converged
  BY DEF ConvergeInv, SyncDone, Syncing, Progress, DoneIsSettled, Settled
<1>4. ConvergeInv /\ [PoolNext]_poolVars => [Converged]_poolVars
  BY <1>3
<1>5. QED
  BY <1>1, <1>2, <1>4, PTL DEF PoolSpec, OneByOne, SyncConverges
=============================================================================
