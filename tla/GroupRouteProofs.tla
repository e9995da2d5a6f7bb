-------------------------- MODULE GroupRouteProofs --------------------------
(***************************************************************************)
(* Proofs about GroupRoute, for every set of members and requests, every   *)
(* member list, every outcome and with failing database statements, and at *)
(* the end about RelayForward, the forwarding loop that uses it.           *)
(*                                                                         *)
(* The four safety properties of GroupRoute need each other: the current   *)
(* member has no cooldown only because an affinity never outlives it, and  *)
(* the rows agree with memory only because the probed member's cooldown    *)
(* has expired when recordRouteSuccess drops it without a statement.       *)
(* IInv, their conjunction with the type invariant, is inductive.          *)
(***************************************************************************)
EXTENDS RelayForward, TLAPS

(* What IInv says of a route table entry at time t. *)
Sound(rt, t) ==
    /\ rt \in RouteRecord
    /\ rt.current # None => rt.cooldown[rt.current] = 0
    /\ rt.probe # None => rt.cooldown[rt.probe] <= t
    /\ rt.affinity # 0 => rt.current # None /\ ~rt.armed

(* A nil entry carries nothing. *)
Empty(rt) ==
    /\ rt.current = None /\ rt.probe = None
    /\ rt.affinity = 0 /\ ~rt.armed
    /\ \A i \in Member : rt.cooldown[i] = 0

(* The rows d and the deadlines c agree on the members outside of S. *)
Agree(c, d, S, t) ==
    \A i \in Member \ S : c[i] > t \/ d[i] > t => d[i] = c[i]

IInv ==
    /\ RouteTypeOK
    /\ CurrentNotCooling
    /\ ProbeSlotExpired
    /\ AffinityWellFounded
    /\ DurableCooldowns

(* The variables beside the route table and the rows. *)
PeersOK ==
    /\ now \in Nat
    /\ saved \in [Member -> Nat]
    /\ unsaved \subseteq Member
    /\ flight \in [Request -> Member \cup {None}]
    /\ probers \subseteq Request
    /\ sounding \subseteq Member

(* IInv, as facts about one record, one pair of tables and the rest. *)
LEMMA Unfolded ==
    IInv <=> /\ PeersOK
             /\ Sound(route, now)
             /\ ~route.exists => Empty(route)
             /\ Agree(route.cooldown, saved, unsaved, now)
<1>1. ASSUME PeersOK, route \in RouteRecord
      PROVE  DurableCooldowns <=> Agree(route.cooldown, saved, unsaved, now)
  BY <1>1 DEF DurableCooldowns, Agree, Longer, PeersOK, RouteRecord
<1>2. QED
  BY <1>1 DEF IInv, PeersOK, Sound, Empty, RouteTypeOK, CurrentNotCooling,
              ProbeSlotExpired, AffinityWellFounded

(* The same of the next state. *)
LEMMA UnfoldedPrime ==
    IInv' <=> /\ PeersOK'
              /\ Sound(route', now')
              /\ ~route'.exists => Empty(route')
              /\ Agree(route'.cooldown, saved', unsaved', now')
<1>1. ASSUME PeersOK', route' \in RouteRecord
      PROVE  DurableCooldowns' <=> Agree(route'.cooldown, saved', unsaved', now')
  BY <1>1 DEF DurableCooldowns, Agree, Longer, PeersOK, RouteRecord
<1>2. QED
  BY <1>1 DEF IInv, PeersOK, Sound, Empty, RouteTypeOK, CurrentNotCooling,
              ProbeSlotExpired, AffinityWellFounded

-----------------------------------------------------------------------------
(* The operators of the route table.                                       *)

(* groupRouteLocked: the entry that is left is sound, exists, and has the  *)
(* old cooldowns of the members of S and no other.                         *)
LEMMA PrunedSound ==
    ASSUME IInv, NEW S \in SUBSET Member
    PROVE  /\ Sound(Pruned(S), now)
           /\ Pruned(S).exists
           /\ \A i \in Member :
                Pruned(S).cooldown[i] = IF i \in S THEN route.cooldown[i] ELSE 0
<1> USE RouteAssumption
<1>1. Sound(route, now) /\ now \in Nat
  BY Unfolded DEF PeersOK
<1>2. Pruned(S) \in RouteRecord
  BY <1>1 DEF Pruned, Kept, RouteRecord, Sound
<1>3. /\ Pruned(S).exists
      /\ Pruned(S).current = Kept(S, route.current)
      /\ Pruned(S).probe = Kept(S, route.probe)
      /\ Pruned(S).affinity = IF CurrentStays(S) THEN route.affinity ELSE 0
      /\ Pruned(S).armed = (CurrentStays(S) /\ route.armed)
      /\ \A i \in Member :
           Pruned(S).cooldown[i] = IF i \in S THEN route.cooldown[i] ELSE 0
  BY DEF Pruned
<1>4. Pruned(S).current # None => Pruned(S).cooldown[Pruned(S).current] = 0
  BY <1>1, <1>3 DEF Kept, Sound, RouteRecord
<1>5. Pruned(S).probe # None => Pruned(S).cooldown[Pruned(S).probe] <= now
  BY <1>1, <1>3 DEF Kept, Sound, RouteRecord
<1>6. Pruned(S).affinity # 0 => Pruned(S).current # None /\ ~Pruned(S).armed
  BY <1>1, <1>3 DEF Kept, CurrentStays, Sound, RouteRecord
<1>7. QED
  BY <1>2, <1>3, <1>4, <1>5, <1>6 DEF Sound

(* Forgetting an expired affinity changes nothing else, and an affinity    *)
(* that is left belongs to a current member.                               *)
LEMMA PickRouteSound ==
    ASSUME IInv, NEW S \in SUBSET Member
    PROVE  /\ Sound(PickRoute(S), now)
           /\ PickRoute(S).exists
           /\ PickRoute(S).affinity # 0 => Sticky(PickRoute(S))
           /\ \A i \in Member :
                PickRoute(S).cooldown[i] = IF i \in S THEN route.cooldown[i] ELSE 0
<1> DEFINE rt == Pruned(S)
<1>1. now \in Nat /\ Sound(rt, now) /\ rt.exists
  BY PrunedSound, Unfolded DEF PeersOK
<1>2. CASE rt.affinity <= now
  <2>1. PickRoute(S) = [rt EXCEPT !.affinity = 0]
    BY <1>2 DEF PickRoute
  <2>2. PickRoute(S).affinity = 0
    BY <1>1, <2>1 DEF Sound, RouteRecord
  <2>3. Sound(PickRoute(S), now) /\ PickRoute(S).exists
        /\ PickRoute(S).cooldown = rt.cooldown
    BY <1>1, <2>1 DEF Sound, RouteRecord
  <2>4. QED
    BY <2>2, <2>3, PrunedSound
<1>3. CASE ~(rt.affinity <= now)
  <2>1. PickRoute(S) = rt
    BY <1>3 DEF PickRoute
  <2>2. rt.affinity > now /\ rt.current # None
    BY <1>1, <1>3 DEF Sound, RouteRecord
  <2>3. QED
    BY <1>1, <2>1, <2>2, PrunedSound DEF Sticky
<1>4. QED
  BY <1>2, <1>3

(* Switching to an eligible member keeps an entry without affinity sound.  *)
LEMMA SwitchSound ==
    ASSUME NEW rt, NEW t \in Nat, NEW i \in Member, Sound(rt, t),
           rt.affinity = 0,
           rt.cooldown[i] = 0 \/ rt.cooldown[i] <= t
    PROVE  /\ Sound(Switch(rt, i), t)
           /\ Switch(rt, i).exists = rt.exists
           /\ Switch(rt, i).cooldown = rt.cooldown
<1> USE RouteAssumption
<1>1. CASE rt.cooldown[i] = 0
  <2>1. Switch(rt, i) = [rt EXCEPT !.current = i]
    BY <1>1 DEF Switch
  <2>2. QED
    BY <1>1, <2>1 DEF Sound, RouteRecord
<1>2. CASE rt.cooldown[i] # 0
  <2>1. Switch(rt, i) = [rt EXCEPT !.probe = i]
    BY <1>2 DEF Switch
  <2>2. QED
    BY <1>2, <2>1 DEF Sound, RouteRecord
<1>3. QED
  BY <1>1, <1>2

(* The success of a probe drops only a cooldown that has expired.          *)
LEMMA RecoveredSound ==
    ASSUME IInv, NEW i \in Member
    PROVE  /\ Sound(Recovered(i), now)
           /\ Recovered(i).exists = route.exists
           /\ Empty(route) => Recovered(i) = route
           /\ \A j \in Member :
                \/ Recovered(i).cooldown[j] = route.cooldown[j]
                \/ Recovered(i).cooldown[j] = 0 /\ route.cooldown[j] <= now
<1> USE RouteAssumption
<1> DEFINE rt == Recovered(i)
<1>1. Sound(route, now) /\ now \in Nat
  BY Unfolded DEF PeersOK
<1>2. CASE route.probe # i
  BY <1>1, <1>2 DEF Recovered
<1>3. CASE route.probe = i
  <2>1. rt \in RouteRecord
    BY <1>1, <1>3 DEF Recovered, RouteRecord, Sound
  <2>2. /\ rt.exists = route.exists /\ rt.armed = route.armed /\ rt.probe = None
        /\ rt.current \in {route.current, i}
        /\ rt.cooldown = [route.cooldown EXCEPT ![i] = 0]
    BY <1>1, <1>3 DEF Recovered, RouteRecord, Sound
  <2>3. \A j \in Member : rt.cooldown[j] = IF j = i THEN 0 ELSE route.cooldown[j]
    BY <1>1, <2>2 DEF RouteRecord, Sound
  <2>4. rt.current # None => rt.cooldown[rt.current] = 0
    BY <1>1, <2>2, <2>3 DEF RouteRecord, Sound
  <2>5. rt.affinity # 0 => rt.current # None /\ ~rt.armed
    BY <1>1, <1>3, <2>2 DEF Recovered, RouteRecord, Sound
  <2>6. Sound(rt, now)
    BY <2>1, <2>2, <2>4, <2>5 DEF Sound
  <2>7. ~Empty(route)
    BY <1>3 DEF Empty
  <2>8. route.cooldown[i] <= now
    BY <1>1, <1>3 DEF Sound
  <2>9. QED
    BY <2>2, <2>3, <2>6, <2>7, <2>8
<1>4. QED
  BY <1>2, <1>3

(* Starting an affinity disarms it. *)
LEMMA SettledSound ==
    ASSUME NEW rt, NEW i \in Member, now \in Nat, Sound(rt, now)
    PROVE  /\ Sound(Settled(rt, i), now)
           /\ Settled(rt, i).exists = rt.exists
           /\ Settled(rt, i).cooldown = rt.cooldown
           /\ Empty(rt) => Settled(rt, i) = rt
<1> USE RouteAssumption
<1>1. CASE rt.current # i \/ ~rt.armed
  BY <1>1 DEF Settled
<1>2. CASE rt.current = i /\ rt.armed
  <2> DEFINE until == IF AffinityTime > 0 THEN now + AffinityTime ELSE rt.affinity
  <2>0. rt \in RouteRecord /\ until \in Nat
    BY DEF Sound, RouteRecord
  <2>1. Settled(rt, i) = [rt EXCEPT !.armed = FALSE, !.affinity = until]
    BY <1>2 DEF Settled
  <2> HIDE DEF until
  <2>2. Settled(rt, i) \in RouteRecord
    BY <2>0, <2>1 DEF RouteRecord
  <2>3. /\ Settled(rt, i).exists = rt.exists /\ Settled(rt, i).current = i
        /\ Settled(rt, i).probe = rt.probe /\ ~Settled(rt, i).armed
        /\ Settled(rt, i).cooldown = rt.cooldown
    BY <1>2, <2>1 DEF Sound, RouteRecord
  <2>4. ~Empty(rt)
    BY <1>2 DEF Empty
  <2>5. QED
    BY <1>2, <2>2, <2>3, <2>4 DEF Sound
<1>3. QED
  BY <1>1, <1>2

-----------------------------------------------------------------------------
(* Every action keeps IInv.                                                *)

(* The empty table is sound. *)
LEMMA InitIInv == RouteInit => IInv
BY RouteAssumption DEF RouteInit, IInv, RouteTypeOK, CurrentNotCooling, ProbeSlotExpired,
   AffinityWellFounded, DurableCooldowns, NoRoute, NoCooldown, Longer, RouteRecord

(* A member list names members. *)
LEMMA ListedMembers == ASSUME NEW items \in Views PROVE Listed(items) \in SUBSET Member
BY RouteAssumption DEF Listed

(* What a statement for each member of S does to the rows. *)
LEMMA WriteRows ==
    ASSUME PeersOK, NEW S \in SUBSET Member, NEW d \in Nat, NEW failed \in SUBSET S,
           Write(S, d, failed)
    PROVE  /\ saved' \in [Member -> Nat]
           /\ unsaved' \subseteq Member
           /\ \A i \in Member \ unsaved' :
                IF i \in S THEN saved'[i] = d ELSE i \notin unsaved /\ saved'[i] = saved[i]
BY DEF Write, PeersOK

(* pickGroupItem: the list is applied, then a member is chosen. *)
LEMMA PickIInv ==
    ASSUME NEW r \in Request, NEW items \in Views, NEW failed \in SUBSET Member,
           IInv, PickGroupItem(r, items, failed)
    PROVE  IInv'
<1> DEFINE S == Listed(items)
           rt == PickRoute(S)
<1> USE RouteAssumption
<1>1. S \in SUBSET Member /\ Dropped(S) \in SUBSET Member
  BY ListedMembers DEF Dropped
<1>2. /\ PeersOK /\ Sound(route, now)
      /\ Agree(route.cooldown, saved, unsaved, now)
  BY Unfolded
<1>3. /\ failed \in SUBSET Dropped(S)
      /\ Write(Dropped(S), 0, failed)
      /\ now' = now /\ sounding' = sounding
  BY DEF PickGroupItem
<1>4. /\ saved' \in [Member -> Nat]
      /\ unsaved' \subseteq Member
      /\ \A i \in Member \ unsaved' :
           IF i \in Dropped(S) THEN saved'[i] = 0
           ELSE i \notin unsaved /\ saved'[i] = saved[i]
  BY <1>1, <1>2, <1>3, WriteRows
<1>5. /\ Sound(rt, now) /\ rt.exists
      /\ rt.affinity # 0 => Sticky(rt)
      /\ \A i \in Member : rt.cooldown[i] = IF i \in S THEN route.cooldown[i] ELSE 0
  BY <1>1, PickRouteSound
<1>6. /\ Sound(route', now) /\ route'.exists
      /\ route'.cooldown = rt.cooldown
      /\ PeersOK'
  <2>1. CASE \E k \in DOMAIN items :
               /\ ~Sticky(rt) /\ Chosen(rt, items, k)
               /\ route' = Switch(rt, items[k])
               /\ flight' = [flight EXCEPT ![r] = items[k]]
               /\ probers' = IF rt.cooldown[items[k]] = 0 THEN probers ELSE probers \cup {r}
    <3>1. PICK k \in DOMAIN items :
               /\ ~Sticky(rt) /\ Chosen(rt, items, k)
               /\ route' = Switch(rt, items[k])
               /\ flight' = [flight EXCEPT ![r] = items[k]]
               /\ probers' = IF rt.cooldown[items[k]] = 0 THEN probers ELSE probers \cup {r}
      BY <2>1
    <3>2. items[k] \in Member
      BY <1>1, <3>1 DEF Listed
    <3>3. rt.affinity = 0
      BY <1>5, <3>1
    <3>4. rt.cooldown[items[k]] = 0 \/ rt.cooldown[items[k]] <= now
      BY <3>1 DEF Chosen, Eligible
    <3>5. Sound(route', now) /\ route'.exists /\ route'.cooldown = rt.cooldown
      BY <1>2, <1>5, <3>1, <3>2, <3>3, <3>4, SwitchSound DEF PeersOK
    <3>6. PeersOK'
      BY <1>2, <1>3, <1>4, <3>1, <3>2 DEF PeersOK
    <3>7. QED
      BY <3>5, <3>6
  <2>2. CASE /\ route' = rt
             /\ flight' = [flight EXCEPT ![r] = rt.current]
             /\ UNCHANGED probers
    <3>1. rt.current \in Member \cup {None}
      BY <1>5 DEF Sound, RouteRecord
    <3>2. PeersOK'
      BY <1>2, <1>3, <1>4, <2>2, <3>1 DEF PeersOK
    <3>3. QED
      BY <1>5, <2>2, <3>2
  <2>3. QED
    BY <2>1, <2>2 DEF PickGroupItem
<1>7. Agree(route'.cooldown, saved', unsaved', now')
  <2> SUFFICES ASSUME NEW i \in Member \ unsaved',
                      route'.cooldown[i] > now \/ saved'[i] > now
               PROVE  saved'[i] = route'.cooldown[i]
    BY <1>3 DEF Agree
  <2>1. /\ route'.cooldown[i] = IF i \in S THEN route.cooldown[i] ELSE 0
        /\ now \in Nat /\ route.cooldown[i] \in Nat /\ saved[i] \in Nat
    BY <1>2, <1>5, <1>6 DEF PeersOK, Sound, RouteRecord
  <2>2. CASE i \in Dropped(S)
    BY <1>4, <2>1, <2>2 DEF Dropped
  <2>3. CASE i \notin Dropped(S)
    <3>1. i \notin unsaved /\ saved'[i] = saved[i]
      BY <1>4, <2>3
    <3>2. route'.cooldown[i] = route.cooldown[i]
      BY <2>1, <2>3 DEF Dropped
    <3>3. QED
      BY <1>2, <3>1, <3>2 DEF Agree
  <2>4. QED
    BY <2>2, <2>3
<1>8. QED
  BY <1>3, <1>6, <1>7, UnfoldedPrime

(* An empty ranking only makes the entry. *)
LEMMA PickNobodyIInv ==
    ASSUME NEW r \in Request, NEW items \in Views, IInv, PickNobody(r, items)
    PROVE  IInv'
<1>1. PeersOK /\ Sound(route, now) /\ Agree(route.cooldown, saved, unsaved, now)
  BY Unfolded
<1>2. route' = [route EXCEPT !.exists = TRUE]
  BY DEF PickNobody
<1>3. Sound(route', now) /\ route'.exists /\ route'.cooldown = route.cooldown
  BY <1>1, <1>2 DEF Sound, RouteRecord
<1>4. UNCHANGED <<now, saved, unsaved, flight, probers, sounding>>
  BY DEF PickNobody
<1>5. PeersOK' /\ Agree(route'.cooldown, saved', unsaved', now')
  BY <1>1, <1>3, <1>4 DEF PeersOK, Agree
<1>6. QED
  BY <1>3, <1>4, <1>5, UnfoldedPrime

(* The end of a round changes nothing that IInv speaks of. *)
LEMMA LandPeers ==
    ASSUME PeersOK, NEW r \in Request, Land(r)
    PROVE  /\ flight[r] \in Member
           /\ flight' \in [Request -> Member \cup {None}]
           /\ probers' \subseteq Request
BY DEF PeersOK, Land

(* recordRouteSuccess keeps the rows although it deletes a cooldown. *)
LEMMA SuccessIInv ==
    ASSUME NEW r \in Request, IInv, RecordRouteSuccess(r)
    PROVE  IInv'
<1> DEFINE i == flight[r]
           rt == Recovered(i)
<1>1. /\ PeersOK /\ Sound(route, now) /\ (~route.exists => Empty(route))
      /\ Agree(route.cooldown, saved, unsaved, now)
  BY Unfolded
<1>2. /\ Land(r) /\ route' = Settled(rt, i)
      /\ UNCHANGED <<now, saved, unsaved, sounding>>
  BY DEF RecordRouteSuccess, NoWrite
<1>3. /\ i \in Member
      /\ PeersOK'
  BY <1>1, <1>2, LandPeers DEF PeersOK
<1>4. /\ Sound(rt, now) /\ rt.exists = route.exists
      /\ Empty(route) => rt = route
      /\ \A j \in Member : \/ rt.cooldown[j] = route.cooldown[j]
                           \/ rt.cooldown[j] = 0 /\ route.cooldown[j] <= now
  BY <1>3, RecoveredSound
<1>5. /\ Sound(route', now) /\ route'.exists = rt.exists
      /\ route'.cooldown = rt.cooldown
      /\ Empty(rt) => route' = rt
  BY <1>1, <1>2, <1>3, <1>4, SettledSound DEF PeersOK
<1>6. Agree(route'.cooldown, saved', unsaved', now')
  <2> SUFFICES ASSUME NEW j \in Member \ unsaved,
                      route'.cooldown[j] > now \/ saved[j] > now
               PROVE  saved[j] = route'.cooldown[j]
    BY <1>2 DEF Agree
  <2>1. now \in Nat /\ route.cooldown[j] \in Nat /\ saved[j] \in Nat
    BY <1>1 DEF PeersOK, Sound, RouteRecord
  <2>2. QED
    BY <1>1, <1>4, <1>5, <2>1 DEF Agree
<1>7. ~route'.exists => Empty(route')
  BY <1>1, <1>4, <1>5
<1>8. QED
  BY <1>2, <1>3, <1>5, <1>6, <1>7, UnfoldedPrime

(* releaseRouteProbe empties the probe slot or does nothing. *)
LEMMA ReleaseIInv ==
    ASSUME NEW r \in Request, IInv, ReleaseRouteProbe(r)
    PROVE  IInv'
<1> USE RouteAssumption
<1>1. /\ PeersOK /\ Sound(route, now) /\ (~route.exists => Empty(route))
      /\ Agree(route.cooldown, saved, unsaved, now)
  BY Unfolded
<1>2. /\ Land(r)
      /\ route' = [route EXCEPT !.probe = IF @ = flight[r] THEN None ELSE @]
      /\ UNCHANGED <<now, saved, unsaved, sounding>>
  BY DEF ReleaseRouteProbe, NoWrite
<1>3. PeersOK'
  BY <1>1, <1>2, LandPeers DEF PeersOK
<1>4. route' \in RouteRecord
  BY <1>1, <1>2 DEF Sound, RouteRecord
<1>5. /\ route'.exists = route.exists /\ route'.armed = route.armed
      /\ route'.current = route.current /\ route'.affinity = route.affinity
      /\ route'.cooldown = route.cooldown
      /\ route'.probe \in {None, route.probe}
  BY <1>1, <1>2 DEF Sound, RouteRecord
<1>6. Sound(route', now) /\ (~route'.exists => Empty(route'))
  BY <1>1, <1>4, <1>5 DEF Sound, Empty
<1>7. QED
  BY <1>1, <1>2, <1>3, <1>5, <1>6, UnfoldedPrime DEF Agree

(* A round that reports nothing leaves the table alone. *)
LEMMA AbandonIInv ==
    ASSUME NEW r \in Request, IInv, AbandonRound(r)
    PROVE  IInv'
<1>1. PeersOK
  BY Unfolded
<1>2. PeersOK' /\ UNCHANGED <<now, route, saved, unsaved>>
  BY <1>1, LandPeers DEF AbandonRound, PeersOK
<1>3. QED
  BY <1>2, Unfolded, UnfoldedPrime

(* recordRouteFailureHint: table and rows get the same deadline. *)
LEMMA FailureIInv ==
    ASSUME NEW r \in Request, NEW n \in 1..MaxAttempts, NEW hint \in Hint,
           NEW failed \in SUBSET Member,
           IInv, RecordRouteFailure(r, n, hint, failed)
    PROVE  IInv'
<1> DEFINE i == flight[r]
           deadline == now + Longer(CooldownTime, hint)
           leaves == route.current = i
<1> USE RouteAssumption
<1>1. /\ PeersOK /\ Sound(route, now) /\ (~route.exists => Empty(route))
      /\ Agree(route.cooldown, saved, unsaved, now)
  BY Unfolded
<1>2. Land(r) /\ UNCHANGED <<now, sounding>>
  BY DEF RecordRouteFailure
<1>3. /\ i \in Member
      /\ flight' \in [Request -> Member \cup {None}]
      /\ probers' \subseteq Request
  BY <1>1, <1>2, LandPeers
<1>4. deadline \in Nat
  BY <1>1 DEF Longer, PeersOK
<1>5. CASE CoolsDown(i, n)
  <2>1. /\ route' = [route EXCEPT
                        !.cooldown[i] = deadline,
                        !.probe = IF @ = i THEN None ELSE @,
                        !.current = IF leaves THEN None ELSE @,
                        !.affinity = IF leaves THEN 0 ELSE @,
                        !.armed = leaves \/ @]
        /\ failed \in SUBSET {i}
        /\ Write({i}, deadline, failed)
    BY <1>5 DEF RecordRouteFailure
  <2> HIDE DEF deadline
  <2>2. /\ saved' \in [Member -> Nat]
        /\ unsaved' \subseteq Member
        /\ \A j \in Member \ unsaved' :
             IF j = i THEN saved'[j] = deadline ELSE j \notin unsaved /\ saved'[j] = saved[j]
    <3>1. {i} \in SUBSET Member
      BY <1>3
    <3>2. QED
      BY <1>1, <1>4, <2>1, <3>1, WriteRows
  <2>3. PeersOK'
    BY <1>1, <1>2, <1>3, <2>2 DEF PeersOK
  <2>4. /\ route'.exists = route.exists
        /\ route'.current = IF leaves THEN None ELSE route.current
        /\ route'.probe = IF route.probe = i THEN None ELSE route.probe
        /\ route'.affinity = IF leaves THEN 0 ELSE route.affinity
        /\ route'.armed = (leaves \/ route.armed)
        /\ route'.cooldown = [route.cooldown EXCEPT ![i] = deadline]
    BY <1>1, <2>1 DEF Sound, RouteRecord
  <2>5. \A j \in Member :
          route'.cooldown[j] = IF j = i THEN deadline ELSE route.cooldown[j]
    BY <1>1, <2>4 DEF Sound, RouteRecord
  <2>6. route' \in RouteRecord
    BY <1>1, <1>3, <1>4, <2>1, ZenonT(60) DEF Sound, RouteRecord
  <2>7. route'.current # None => route'.cooldown[route'.current] = 0
    BY <1>1, <2>4, <2>5, <2>6 DEF Sound, RouteRecord
  <2>8. route'.probe # None => route'.cooldown[route'.probe] <= now
    BY <1>1, <2>4, <2>5, <2>6 DEF Sound, RouteRecord
  <2>9. route'.affinity # 0 => route'.current # None /\ ~route'.armed
    BY <1>1, <2>4 DEF Sound
  <2>10. route'.exists
    BY <1>5, <2>4 DEF CoolsDown
  <2>11. Agree(route'.cooldown, saved', unsaved', now)
    BY <1>1, <2>2, <2>5 DEF Agree
  <2>12. QED
    BY <1>2, <2>3, <2>6, <2>7, <2>8, <2>9, <2>10, <2>11, UnfoldedPrime DEF Sound
<1>6. CASE ~CoolsDown(i, n)
  <2>1. UNCHANGED <<route, saved, unsaved>>
    BY <1>6 DEF RecordRouteFailure, NoWrite
  <2>2. QED
    BY <1>1, <1>2, <1>3, <2>1, UnfoldedPrime DEF PeersOK
<1>7. QED
  BY <1>5, <1>6

(* The background probe starts without touching the table. *)
LEMMA StartSoundingIInv ==
    ASSUME NEW i \in Member, IInv, StartSounding(i)
    PROVE  IInv'
BY Unfolded, UnfoldedPrime DEF StartSounding, PeersOK

(* clearMemberCooldown deletes entry and row together. *)
LEMMA FinishSoundingIInv ==
    ASSUME NEW i \in Member, NEW good \in BOOLEAN, NEW failed \in SUBSET Member,
           IInv, FinishSounding(i, good, failed)
    PROVE  IInv'
<1>1. /\ PeersOK /\ Sound(route, now) /\ (~route.exists => Empty(route))
      /\ Agree(route.cooldown, saved, unsaved, now)
  BY Unfolded
<1>2. /\ sounding' \subseteq Member
      /\ UNCHANGED <<now, flight, probers>>
  BY <1>1 DEF FinishSounding, PeersOK
<1>3. CASE good /\ route.cooldown[i] # 0
  <2>1. /\ route' = [route EXCEPT !.cooldown[i] = 0]
        /\ failed \in SUBSET {i}
        /\ Write({i}, 0, failed)
    BY <1>3 DEF FinishSounding
  <2>2. /\ saved' \in [Member -> Nat]
        /\ unsaved' \subseteq Member
        /\ \A j \in Member \ unsaved' :
             IF j = i THEN saved'[j] = 0 ELSE j \notin unsaved /\ saved'[j] = saved[j]
    <3>1. {i} \in SUBSET Member
      OBVIOUS
    <3>2. QED
      BY <1>1, <2>1, <3>1, WriteRows
  <2>3. /\ route'.exists = route.exists /\ route'.current = route.current
        /\ route'.probe = route.probe /\ route'.affinity = route.affinity
        /\ route'.armed = route.armed
        /\ route' \in RouteRecord
        /\ \A j \in Member : route'.cooldown[j] = IF j = i THEN 0 ELSE route.cooldown[j]
    BY <1>1, <2>1 DEF Sound, RouteRecord
  <2>4. Sound(route', now)
    BY <1>1, <2>3 DEF Sound, RouteRecord, PeersOK
  <2>5. route'.exists
    BY <1>1, <1>3, <2>3 DEF Empty
  <2>6. Agree(route'.cooldown, saved', unsaved', now)
    BY <1>1, <2>2, <2>3 DEF Agree, PeersOK
  <2>7. QED
    BY <1>1, <1>2, <2>2, <2>4, <2>5, <2>6, UnfoldedPrime DEF PeersOK
<1>4. CASE ~(good /\ route.cooldown[i] # 0)
  <2>1. UNCHANGED <<route, saved, unsaved>>
    BY <1>4 DEF FinishSounding, NoWrite
  <2>2. QED
    BY <1>1, <1>2, <2>1, UnfoldedPrime DEF PeersOK
<1>5. QED
  BY <1>3, <1>4

(* ResetRouteState deletes the entry and the rows of the group. *)
LEMMA ResetIInv ==
    ASSUME NEW failed \in {{}, Member}, IInv, ResetRouteState(failed)
    PROVE  IInv'
<1> USE RouteAssumption
<1>1. PeersOK
  BY Unfolded
<1>2. /\ route' = NoRoute /\ Write(Member, 0, failed)
      /\ UNCHANGED <<now, flight, probers, sounding>>
  BY DEF ResetRouteState
<1>3. /\ saved' \in [Member -> Nat]
      /\ unsaved' \subseteq Member
      /\ \A i \in Member \ unsaved' : saved'[i] = 0
  <2>1. failed \in SUBSET Member /\ Member \in SUBSET Member
    OBVIOUS
  <2>2. QED
    BY <1>1, <1>2, <2>1, WriteRows
<1>4. Sound(route', now) /\ Empty(route')
  BY <1>1, <1>2 DEF Sound, Empty, NoRoute, NoCooldown, RouteRecord, PeersOK
<1>5. PeersOK' /\ Agree(route'.cooldown, saved', unsaved', now')
  BY <1>1, <1>2, <1>3, <1>4 DEF PeersOK, Agree, Empty
<1>6. QED
  BY <1>2, <1>4, <1>5, UnfoldedPrime

(* A restart rebuilds the entry from the rows. *)
LEMMA RestartIInv ==
    ASSUME NEW loaded \in BOOLEAN, NEW purged \in BOOLEAN, IInv, Restart(loaded, purged)
    PROVE  IInv'
<1> DEFINE alive == [i \in Member |-> IF i \in Restored THEN saved[i] ELSE 0]
<1> USE RouteAssumption
<1>1. PeersOK
  BY Unfolded
<1>2. /\ route' = IF loaded /\ Restored # {}
                  THEN [NoRoute EXCEPT !.exists = TRUE, !.cooldown = alive]
                  ELSE NoRoute
      /\ saved' = IF loaded /\ purged THEN alive ELSE saved
      /\ unsaved' = IF loaded THEN {} ELSE unsaved \cup Restored
      /\ flight' = [q \in Request |-> None]
      /\ probers' = {} /\ sounding' = {} /\ now' = now
  BY DEF Restart
<1>3. alive \in [Member -> Nat] /\ Restored \in SUBSET Member
  BY <1>1 DEF PeersOK, Restored
<1>4. PeersOK'
  BY <1>1, <1>2, <1>3 DEF PeersOK
<1>5. /\ route' \in RouteRecord /\ route'.current = None /\ route'.probe = None
      /\ route'.affinity = 0 /\ ~route'.armed
      /\ route'.exists = (loaded /\ Restored # {})
      /\ \A i \in Member : route'.cooldown[i] = IF loaded THEN alive[i] ELSE 0
  BY <1>2, <1>3 DEF NoRoute, NoCooldown, RouteRecord
<1>6. Sound(route', now') /\ (~route'.exists => Empty(route'))
  BY <1>3, <1>5 DEF Sound, Empty
<1>7. Agree(route'.cooldown, saved', unsaved', now')
  <2> SUFFICES ASSUME NEW i \in Member \ unsaved',
                      route'.cooldown[i] > now \/ saved'[i] > now
               PROVE  saved'[i] = route'.cooldown[i]
    BY <1>2 DEF Agree
  <2>1. now \in Nat /\ saved[i] \in Nat /\ (i \in Restored <=> saved[i] > now)
    BY <1>1 DEF PeersOK, Restored
  <2>2. QED
    BY <1>2, <1>5, <2>1
<1>8. QED
  BY <1>4, <1>6, <1>7, UnfoldedPrime

(* Time alone only lets cooldowns run out. *)
LEMMA TickIInv == IInv /\ Tick => IInv'
BY Unfolded, UnfoldedPrime DEF Tick, PeersOK, Sound, RouteRecord, Agree

-----------------------------------------------------------------------------
(* Every step of the table preserves the invariant. *)
LEMMA NextIInv == IInv /\ [RouteNext]_routeVars => IInv'
<1> SUFFICES ASSUME IInv, [RouteNext]_routeVars PROVE IInv'
  OBVIOUS
<1>1. ASSUME NEW r \in Request, RequestNext(r) PROVE IInv'
  BY <1>1, PickIInv, PickNobodyIInv, SuccessIInv, FailureIInv, ReleaseIInv, AbandonIInv
     DEF RequestNext
<1>2. ASSUME NEW i \in Member, StartSounding(i) PROVE IInv'
  BY <1>2, StartSoundingIInv
<1>3. ASSUME NEW i \in Member, NEW good \in BOOLEAN, NEW failed \in SUBSET Member,
             FinishSounding(i, good, failed)
      PROVE  IInv'
  BY <1>3, FinishSoundingIInv
<1>4. ASSUME NEW failed \in {{}, Member}, ResetRouteState(failed) PROVE IInv'
  BY <1>4, ResetIInv
<1>5. ASSUME NEW loaded \in BOOLEAN, NEW purged \in BOOLEAN, Restart(loaded, purged)
      PROVE  IInv'
  BY <1>5, RestartIInv
<1>6. CASE Tick
  BY <1>6, TickIInv
<1>7. CASE UNCHANGED routeVars
  BY <1>7, Unfolded, UnfoldedPrime DEF routeVars, PeersOK
<1>8. QED
  BY <1>1, <1>2, <1>3, <1>4, <1>5, <1>6, <1>7 DEF RouteNext

(* The invariant of the route table holds in every reachable state.        *)
THEOREM RouteInvariant == RouteSpec => []IInv
BY InitIInv, NextIInv, PTL DEF RouteSpec

(* Every variable of the route table keeps its shape.                      *)
THEOREM RouteTypeCorrect == RouteSpec => []RouteTypeOK
<1>1. IInv => RouteTypeOK
  BY DEF IInv
<1>2. QED
  BY <1>1, RouteInvariant, PTL

(* The member that carries the traffic of a group has no cooldown.         *)
THEOREM CurrentIsNotCooling == RouteSpec => []CurrentNotCooling
<1>1. IInv => CurrentNotCooling
  BY DEF IInv
<1>2. QED
  BY <1>1, RouteInvariant, PTL

(* The probe slot is never held for a member that serves its cooldown.     *)
THEOREM ProbesExpired == RouteSpec => []ProbeSlotExpired
<1>1. IInv => ProbeSlotExpired
  BY DEF IInv
<1>2. QED
  BY <1>1, RouteInvariant, PTL

(* An affinity has a member, and is not armed while it runs.               *)
THEOREM AffinityIsWellFounded == RouteSpec => []AffinityWellFounded
<1>1. IInv => AffinityWellFounded
  BY DEF IInv
<1>2. QED
  BY <1>1, RouteInvariant, PTL

(* Memory and rows agree on the running cooldowns, but for lost writes.    *)
THEOREM CooldownsAreDurable == RouteSpec => []DurableCooldowns
<1>1. IInv => DurableCooldowns
  BY DEF IInv
<1>2. QED
  BY <1>1, RouteInvariant, PTL

-----------------------------------------------------------------------------
(* Affinity.                                                               *)

Inheritance == route.affinity > now /\ route'.affinity > now' => route'.current = route.current

(* While an affinity runs, groupRouteLocked either keeps it together with  *)
(* its member, or clears it.                                               *)
LEMMA PickRouteAffinity ==
    ASSUME IInv, NEW S \in SUBSET Member, route.affinity > now
    PROVE  \/ Sticky(PickRoute(S)) /\ PickRoute(S).current = route.current
           \/ PickRoute(S).affinity = 0
<1> DEFINE rt == Pruned(S)
<1>1. /\ now \in Nat /\ route.affinity \in Nat /\ route.current # None
      /\ Sound(rt, now)
  BY Unfolded, PrunedSound DEF PeersOK, Sound, RouteRecord
<1>2. CASE rt.affinity <= now
  <2>1. PickRoute(S) = [rt EXCEPT !.affinity = 0]
    BY <1>2 DEF PickRoute
  <2>2. QED
    BY <1>1, <2>1 DEF Sound, RouteRecord
<1>3. CASE ~(rt.affinity <= now)
  <2>1. PickRoute(S) = rt
    BY <1>3 DEF PickRoute
  <2>2. rt.affinity # 0
    BY <1>1, <1>3
  <2>3. CurrentStays(S)
    BY <2>2 DEF Pruned
  <2>4. rt.current = route.current
    BY <1>1, <2>3 DEF Pruned, Kept, CurrentStays
  <2>5. rt.affinity > now
    BY <1>1, <1>3 DEF Sound, RouteRecord
  <2>6. QED
    BY <1>1, <2>1, <2>4, <2>5 DEF Sticky
<1>4. QED
  BY <1>2, <1>3

(* A pick changes the member only when no affinity is left. *)
LEMMA PickInheritance ==
    ASSUME NEW r \in Request, NEW items \in Views, NEW failed \in SUBSET Member,
           IInv, PickGroupItem(r, items, failed), route.affinity > now
    PROVE  route'.affinity > now' => route'.current = route.current
<1> DEFINE S == Listed(items)
           rt == PickRoute(S)
<1>1. S \in SUBSET Member
  BY ListedMembers
<1>2. now' = now /\ now \in Nat /\ rt \in RouteRecord
  BY <1>1, PickRouteSound, Unfolded DEF PickGroupItem, PeersOK, Sound
<1>3. CASE Sticky(rt) /\ rt.current = route.current
  <2>1. route' = rt
    BY <1>3 DEF PickGroupItem
  <2>2. QED
    BY <1>3, <2>1
<1>4. CASE rt.affinity = 0
  <2>1. \A k \in DOMAIN items : Switch(rt, items[k]).affinity = 0
    BY <1>2, <1>4 DEF Switch, RouteRecord
  <2>2. route' = rt \/ \E k \in DOMAIN items : route' = Switch(rt, items[k])
    BY DEF PickGroupItem
  <2>3. route'.affinity = 0
    BY <1>4, <2>1, <2>2
  <2>4. QED
    BY <1>2, <2>3
<1>5. QED
  BY <1>1, <1>3, <1>4, PickRouteAffinity

(* No step hands a running affinity over. *)
LEMMA NextInheritance == IInv /\ [RouteNext]_routeVars => Inheritance
<1> SUFFICES ASSUME IInv, [RouteNext]_routeVars, route.affinity > now, route'.affinity > now'
             PROVE  route'.current = route.current
  BY DEF Inheritance
<1>1. now \in Nat /\ Sound(route, now) /\ route.current # None
  BY Unfolded DEF PeersOK, Sound, RouteRecord
<1>2. ASSUME NEW r \in Request, RequestNext(r) PROVE route'.current = route.current
  <2>1. ASSUME NEW items \in Views, NEW failed \in SUBSET Member, PickGroupItem(r, items, failed)
        PROVE  route'.current = route.current
    BY <2>1, PickInheritance
  <2>2. ASSUME NEW items \in Views, PickNobody(r, items) PROVE route'.current = route.current
    BY <1>1, <2>2 DEF PickNobody, Sound, RouteRecord
  <2>3. CASE RecordRouteSuccess(r)
    <3>1. route' = Settled(Recovered(flight[r]), flight[r])
      BY <2>3 DEF RecordRouteSuccess
    <3>2. Recovered(flight[r]) \in RouteRecord
      BY <2>3, LandPeers, RecoveredSound, Unfolded DEF RecordRouteSuccess, Sound
    <3>3. Recovered(flight[r]).current = route.current
      BY <1>1 DEF Recovered, Sound, RouteRecord
    <3>4. QED
      BY <3>1, <3>2, <3>3 DEF Settled, RouteRecord
  <2>4. ASSUME NEW n \in 1..MaxAttempts, NEW hint \in Hint, NEW failed \in SUBSET Member,
               RecordRouteFailure(r, n, hint, failed)
        PROVE  route'.current = route.current
    <3>1. CASE CoolsDown(flight[r], n) /\ route.current = flight[r]
      <4>1. route'.affinity = 0 /\ now' = now
        BY <1>1, <2>4, <3>1 DEF RecordRouteFailure, Sound, RouteRecord
      <4>2. QED
        BY <1>1, <4>1
    <3>2. CASE CoolsDown(flight[r], n) /\ route.current # flight[r]
      BY <1>1, <2>4, <3>2 DEF RecordRouteFailure, Sound, RouteRecord
    <3>3. CASE ~CoolsDown(flight[r], n)
      BY <2>4, <3>3 DEF RecordRouteFailure
    <3>4. QED
      BY <3>1, <3>2, <3>3
  <2>5. CASE ReleaseRouteProbe(r)
    BY <1>1, <2>5 DEF ReleaseRouteProbe, Sound, RouteRecord
  <2>6. CASE AbandonRound(r)
    BY <2>6 DEF AbandonRound
  <2>7. QED
    BY <1>2, <2>1, <2>2, <2>3, <2>4, <2>5, <2>6 DEF RequestNext
<1>3. ASSUME NEW i \in Member, StartSounding(i) PROVE route'.current = route.current
  BY <1>3 DEF StartSounding
<1>4. ASSUME NEW i \in Member, NEW good \in BOOLEAN, NEW failed \in SUBSET Member,
             FinishSounding(i, good, failed)
      PROVE  route'.current = route.current
  BY <1>1, <1>4 DEF FinishSounding, Sound, RouteRecord
<1>5. ASSUME NEW failed \in {{}, Member}, ResetRouteState(failed)
      PROVE  route'.current = route.current
  BY <1>1, <1>5 DEF ResetRouteState, NoRoute
<1>6. ASSUME NEW loaded \in BOOLEAN, NEW purged \in BOOLEAN, Restart(loaded, purged)
      PROVE  route'.current = route.current
  <2>1. route'.affinity = 0 /\ now' = now
    BY <1>6 DEF Restart, NoRoute
  <2>2. QED
    BY <1>1, <2>1
<1>7. CASE Tick \/ UNCHANGED routeVars
  BY <1>7 DEF Tick, routeVars
<1>8. QED
  BY <1>2, <1>3, <1>4, <1>5, <1>6, <1>7 DEF RouteNext

(* A running affinity is never handed from one member to another.          *)
THEOREM AffinityStays == RouteSpec => AffinityNotInherited
<1>1. IInv /\ [RouteNext]_routeVars => Inheritance
  BY NextInheritance
<1>2. QED
  BY <1>1, RouteInvariant, PTL DEF RouteSpec, AffinityNotInherited, Inheritance

-----------------------------------------------------------------------------
(* GroupRoute implements CooldownGate when every database statement        *)
(* succeeds, for every set of members and requests.                        *)
(*                                                                         *)
(* Each step of the route table is a step of the gate or a stutter: a pick *)
(* starts a request and forgives the members that left the list, a report  *)
(* of failure is a penalty or a plain leave, and a restart forgives        *)
(* nothing because the rows agree with memory (IInv).                      *)

(* Without faults no statement is lost. *)
NothingLost == ~DbFaults => unsaved = {}

Until == [i \in Member |-> IF Cooling(i) THEN route.cooldown[i] ELSE 0]

(* No step of the table loses one, a restart included.                     *)
LEMMA NextNothingLost == NothingLost /\ [RouteNext]_routeVars => NothingLost'
<1> SUFFICES ASSUME unsaved = {}, ~DbFaults, [RouteNext]_routeVars PROVE unsaved' = {}
  BY DEF NothingLost
<1>1. ASSUME NEW S, NEW d, NEW failed, Write(S, d, failed) PROVE unsaved' = {}
  BY <1>1 DEF Write
<1>2. ASSUME NEW r \in Request, RequestNext(r) PROVE unsaved' = {}
  BY <1>1, <1>2 DEF RequestNext, PickGroupItem, PickNobody, RecordRouteSuccess,
     RecordRouteFailure, ReleaseRouteProbe, AbandonRound, NoWrite
<1>3. ASSUME NEW i \in Member, NEW good \in BOOLEAN, NEW failed \in SUBSET Member,
             FinishSounding(i, good, failed)
      PROVE  unsaved' = {}
  BY <1>1, <1>3 DEF FinishSounding, NoWrite
<1>4. ASSUME NEW failed \in {{}, Member}, ResetRouteState(failed) PROVE unsaved' = {}
  BY <1>1, <1>4 DEF ResetRouteState
<1>5. ASSUME NEW loaded \in BOOLEAN, NEW purged \in BOOLEAN, Restart(loaded, purged)
      PROVE  unsaved' = {}
  BY <1>5 DEF Restart
<1>6. ASSUME NEW i \in Member, StartSounding(i) PROVE unsaved' = {}
  BY <1>6 DEF StartSounding
<1>7. CASE Tick \/ UNCHANGED routeVars
  BY <1>7 DEF Tick, routeVars
<1>8. QED
  BY <1>2, <1>3, <1>4, <1>5, <1>6, <1>7 DEF RouteNext

-----------------------------------------------------------------------------
(* How steps show in the gate.                                             *)

(* The types the lemmas below need, and what the gate sees of a cooldown.  *)
LEMMA GateValues ==
    ASSUME IInv
    PROVE  /\ now \in Nat /\ route.cooldown \in [Member -> Nat]
           /\ flight \in [Request -> Member \cup {None}]
           /\ \A i \in Member : Until[i] = IF route.cooldown[i] > now
                                           THEN route.cooldown[i] ELSE 0
BY Unfolded DEF PeersOK, Sound, RouteRecord, Until, Cooling

(* Each action of the gate is a step of it: starting, *)
LEMMA StartIsGate ==
    ASSUME NEW r \in Request, NEW i \in Member, NEW S \in SUBSET Member, Gate!Start(r, i, S)
    PROVE  Gate!GateNext
BY DEF Gate!GateNext

(* ... forgiving, *)
LEMMA ForgiveIsGate ==
    ASSUME NEW S \in SUBSET Member, Gate!Forgive(S) PROVE Gate!GateNext
BY DEF Gate!GateNext

(* ... leaving without a penalty, *)
LEMMA LeaveIsGate ==
    ASSUME NEW r \in Request, Gate!Leave(r) PROVE Gate!GateNext
BY DEF Gate!GateNext

(* ... and a penalty of any length recordRouteFailureHint may impose. *)
LEMMA PenaliseIsGate ==
    ASSUME NEW r \in Request, NEW hint \in Hint,
           Gate!Penalise(r, Longer(CooldownTime, hint))
    PROVE  Gate!GateNext
BY DEF Gate!GateNext

(* The members that groupRouteLocked drops are forgiven, the others keep   *)
(* what they had, and the entry's current member is one of the list.       *)
LEMMA PickForgives ==
    ASSUME IInv, NEW items \in Views, now' = now,
           route'.cooldown = PickRoute(Listed(items)).cooldown
    PROVE  Until' = Gate!Forgiven(Dropped(Listed(items)))
<1> DEFINE S == Listed(items)
<1>1. S \in SUBSET Member
  BY ListedMembers
<1>2. \A i \in Member : route'.cooldown[i] = IF i \in S THEN route.cooldown[i] ELSE 0
  BY <1>1, PickRouteSound
<1>3. Gate!Forgiven(Dropped(S)) = [i \in Member |-> IF i \in Dropped(S) THEN 0 ELSE Until[i]]
  BY DEF Gate!Forgiven, Until
<1>4. ASSUME NEW i \in Member
      PROVE  (IF route'.cooldown[i] > now THEN route'.cooldown[i] ELSE 0)
               = IF i \in Dropped(S) THEN 0 ELSE Until[i]
  BY <1>2, <1>4, GateValues DEF Dropped
<1>5. Until' = [i \in Member |-> IF route'.cooldown[i] > now THEN route'.cooldown[i] ELSE 0]
  BY DEF Until, Cooling
<1>6. QED
  BY <1>3, <1>4, <1>5

(* PickRoute keeps a current member only when it is in the list. *)
LEMMA PickCurrentListed ==
    ASSUME IInv, NEW S \in SUBSET Member, PickRoute(S).current # None
    PROVE  PickRoute(S).current \in S
<1>1. Pruned(S) \in RouteRecord
  BY PrunedSound DEF Sound
<1>2. PickRoute(S).current = Pruned(S).current
  BY <1>1 DEF PickRoute, RouteRecord
<1>3. QED
  BY <1>2 DEF Pruned, Kept

(* Every exit of pickGroupItem starts a request on a member without a      *)
(* running cooldown, or starts none: the affinity shortcut and the         *)
(* fallback because the current member has no cooldown, the scan because   *)
(* of its test.                                                            *)
LEMMA PickGate ==
    ASSUME NEW r \in Request, NEW items \in Views, NEW failed \in SUBSET Member,
           IInv, PickGroupItem(r, items, failed)
    PROVE  Gate!GateNext
<1> DEFINE S == Listed(items)
           rt == PickRoute(S)
<1> USE RouteAssumption
<1>1. S \in SUBSET Member /\ Dropped(S) \in SUBSET Member /\ Dropped(S) \cap S = {}
  BY ListedMembers DEF Dropped
<1>2. flight[r] = None /\ now' = now
  BY DEF PickGroupItem
<1>3. /\ Sound(rt, now)
      /\ \A i \in Member : rt.cooldown[i] = IF i \in S THEN route.cooldown[i] ELSE 0
  BY <1>1, PickRouteSound
<1>4. ASSUME NEW i \in S, rt.cooldown[i] <= now,
             flight' = [flight EXCEPT ![r] = i], route'.cooldown = rt.cooldown
      PROVE  Gate!GateNext
  <2>1. Until[i] = 0
    BY <1>1, <1>3, <1>4, GateValues
  <2>2. Until' = Gate!Forgiven(Dropped(S))
    BY <1>2, <1>4, PickForgives
  <2>3. Gate!Start(r, i, Dropped(S))
    BY <1>1, <1>2, <1>4, <2>1, <2>2 DEF Gate!Start, Until
  <2>4. PICK D \in SUBSET Member : D = Dropped(S)
    BY <1>1
  <2>5. Gate!Start(r, i, D)
    BY <2>3, <2>4 DEF Gate!Start, Gate!Forgiven
  <2>6. QED
    BY <1>1, <1>4, <2>5, StartIsGate
<1>5. ASSUME NEW k \in DOMAIN items, Chosen(rt, items, k), route' = Switch(rt, items[k]),
             flight' = [flight EXCEPT ![r] = items[k]]
      PROVE  Gate!GateNext
  <2>1. items[k] \in S
    BY <1>5 DEF Listed
  <2>2. rt.cooldown[items[k]] <= now
    BY <1>1, <1>5, <2>1, GateValues DEF Chosen, Eligible
  <2>3. route'.cooldown = rt.cooldown
    BY <1>3, <1>5 DEF Switch, Sound, RouteRecord
  <2>4. QED
    BY <1>4, <1>5, <2>1, <2>2, <2>3
<1>6. CASE route' = rt /\ flight' = [flight EXCEPT ![r] = rt.current] /\ rt.current # None
  <2>1. rt.current \in S /\ rt.cooldown[rt.current] <= now
    BY <1>1, <1>3, <1>6, PickCurrentListed, GateValues DEF Sound
  <2>2. QED
    BY <1>4, <1>6, <2>1
<1>7. CASE route' = rt /\ flight' = [flight EXCEPT ![r] = rt.current] /\ rt.current = None
  <2>1. flight' = flight
    BY <1>2, <1>7, GateValues
  <2>2. Until' = Gate!Forgiven(Dropped(S))
    BY <1>2, <1>7, PickForgives
  <2>3. Gate!Forgive(Dropped(S))
    BY <1>2, <2>1, <2>2 DEF Gate!Forgive, Until
  <2>4. PICK D \in SUBSET Member : D = Dropped(S)
    BY <1>1
  <2>5. Gate!Forgive(D)
    BY <2>3, <2>4 DEF Gate!Forgive, Gate!Forgiven
  <2>6. QED
    BY <2>5, ForgiveIsGate
<1>8. QED
  BY <1>5, <1>6, <1>7 DEF PickGroupItem

(* A round that ends and changes no running cooldown is a leave. *)
LEMMA LeaveGate ==
    ASSUME NEW r \in Request, IInv, Land(r), now' = now, Until' = Until
    PROVE  Gate!GateNext
<1>1. Gate!Leave(r)
  BY DEF Gate!Leave, Land, Until
<1>2. QED
  BY <1>1, LeaveIsGate

(* recordRouteSuccess deletes only a cooldown that has run out. *)
LEMMA SuccessGate ==
    ASSUME NEW r \in Request, IInv, RecordRouteSuccess(r)
    PROVE  Gate!GateNext
<1> DEFINE i == flight[r]
           rt == Recovered(i)
<1>1. /\ Land(r) /\ route' = Settled(rt, i) /\ now' = now /\ now \in Nat
      /\ i \in Member
  BY Unfolded, LandPeers DEF RecordRouteSuccess, PeersOK
<1>2. /\ Sound(rt, now)
      /\ \A j \in Member : \/ rt.cooldown[j] = route.cooldown[j]
                           \/ rt.cooldown[j] = 0 /\ route.cooldown[j] <= now
  BY <1>1, RecoveredSound
<1>3. route'.cooldown = rt.cooldown
  BY <1>1, <1>2, SettledSound
<1>4. route.cooldown \in [Member -> Nat]
  BY GateValues
<1>5. ASSUME NEW j \in Member
      PROVE  (IF Cooling(j) THEN route.cooldown[j] ELSE 0)'
               = IF Cooling(j) THEN route.cooldown[j] ELSE 0
  BY <1>1, <1>2, <1>3, <1>4, <1>5 DEF Cooling
<1>6. Until' = Until
  BY <1>5 DEF Until
<1>7. QED
  BY <1>1, <1>6, LeaveGate

(* recordRouteFailureHint is a penalty, or a leave below the threshold. *)
LEMMA FailureGate ==
    ASSUME NEW r \in Request, NEW n \in 1..MaxAttempts, NEW hint \in Hint,
           NEW failed \in SUBSET Member,
           IInv, RecordRouteFailure(r, n, hint, failed)
    PROVE  Gate!GateNext
<1> DEFINE i == flight[r]
           deadline == now + Longer(CooldownTime, hint)
<1> USE RouteAssumption
<1>1. Land(r) /\ now' = now /\ i \in Member /\ now \in Nat
  BY Unfolded, LandPeers DEF RecordRouteFailure, PeersOK
<1>2. CASE CoolsDown(i, n)
  <2>1. deadline \in Nat /\ deadline > now
    BY <1>1 DEF Longer
  <2>2. route'.cooldown = [route.cooldown EXCEPT ![i] = deadline]
    BY <1>2, Unfolded DEF RecordRouteFailure, Sound, RouteRecord
  <2> HIDE DEF deadline
  <2>3. \A j \in Member :
          (IF Cooling(j) THEN route.cooldown[j] ELSE 0)' = IF j = i THEN deadline ELSE Until[j]
    BY <1>1, <2>1, <2>2, GateValues DEF Cooling
  <2>4. Until' = [Until EXCEPT ![i] = deadline]
    BY <1>1, <2>3 DEF Until
  <2>5. Gate!Penalise(r, Longer(CooldownTime, hint))
    BY <1>1, <2>4 DEF Gate!Penalise, Until, Land, deadline
  <2>6. QED
    BY <2>5, PenaliseIsGate
<1>3. CASE ~CoolsDown(i, n)
  <2>1. route' = route
    BY <1>3 DEF RecordRouteFailure
  <2>2. Until' = Until
    BY <1>1, <2>1 DEF Until, Cooling
  <2>3. QED
    BY <1>1, <2>2, LeaveGate
<1>4. QED
  BY <1>2, <1>3

(* What a request does is a step of the gate or invisible to it. *)
LEMMA RequestGate ==
    ASSUME NEW r \in Request, IInv, RequestNext(r)
    PROVE  Gate!GateNext \/ UNCHANGED <<now, Until, flight>>
<1>1. ASSUME NEW items \in Views, PickNobody(r, items)
      PROVE  UNCHANGED <<now, Until, flight>>
  <2>1. route'.cooldown = route.cooldown /\ UNCHANGED <<now, flight>>
    BY <1>1, Unfolded DEF PickNobody, Sound, RouteRecord
  <2>2. QED
    BY <2>1 DEF Until, Cooling
<1>2. CASE ReleaseRouteProbe(r)
  <2>1. Land(r) /\ now' = now /\ route'.cooldown = route.cooldown
    BY <1>2, Unfolded DEF ReleaseRouteProbe, Sound, RouteRecord
  <2>2. Until' = Until
    BY <2>1 DEF Until, Cooling
  <2>3. QED
    BY <2>1, <2>2, LeaveGate
<1>3. CASE AbandonRound(r)
  <2>1. Land(r) /\ now' = now /\ route' = route
    BY <1>3 DEF AbandonRound
  <2>2. Until' = Until
    BY <2>1 DEF Until, Cooling
  <2>3. QED
    BY <2>1, <2>2, LeaveGate
<1>4. QED
  BY <1>1, <1>2, <1>3, PickGate, SuccessGate, FailureGate DEF RequestNext

-----------------------------------------------------------------------------
(* The background probe, administration and the process.                   *)

(* A good answer to the background probe forgives the member. *)
LEMMA SoundingGate ==
    ASSUME NEW i \in Member, NEW good \in BOOLEAN, NEW failed \in SUBSET Member,
           IInv, FinishSounding(i, good, failed)
    PROVE  Gate!GateNext \/ UNCHANGED <<now, Until, flight>>
<1>1. CASE good /\ route.cooldown[i] # 0
  <2>1. now' = now /\ flight' = flight /\ route'.cooldown = [route.cooldown EXCEPT ![i] = 0]
    BY <1>1, Unfolded DEF FinishSounding, Sound, RouteRecord
  <2>2. ASSUME NEW j \in Member
        PROVE  (IF Cooling(j) THEN route.cooldown[j] ELSE 0)' = IF j \in {i} THEN 0 ELSE Until[j]
    BY <2>1, <2>2, GateValues DEF Cooling
  <2>3. Until' = Gate!Forgiven({i})
    BY <2>2 DEF Gate!Forgiven, Until
  <2>4. Gate!Forgive({i})
    BY <2>1, <2>3 DEF Gate!Forgive, Until
  <2>5. QED
    BY <2>4, ForgiveIsGate
<1>2. CASE ~(good /\ route.cooldown[i] # 0)
  <2>1. now' = now /\ flight' = flight /\ route' = route
    BY <1>2 DEF FinishSounding
  <2>2. QED
    BY <2>1 DEF Until, Cooling
<1>3. QED
  BY <1>1, <1>2

(* ResetRouteState forgives everybody. *)
LEMMA ResetGate ==
    ASSUME NEW failed \in {{}, Member}, IInv, ResetRouteState(failed)
    PROVE  Gate!GateNext
<1>1. now' = now /\ flight' = flight /\ route'.cooldown = [i \in Member |-> 0]
  BY DEF ResetRouteState, NoRoute, NoCooldown
<1>2. ASSUME NEW i \in Member
      PROVE  (IF Cooling(i) THEN route.cooldown[i] ELSE 0)' = 0
  BY <1>1, <1>2 DEF Cooling
<1>3. Until' = Gate!Forgiven(Member)
  BY <1>2 DEF Gate!Forgiven, Until
<1>4. Gate!Forgive(Member)
  BY <1>1, <1>3 DEF Gate!Forgive, Until
<1>5. QED
  BY <1>4, ForgiveIsGate

(* Only here the rows matter: what RestoreRouteCooldowns reads back is     *)
(* exactly what was running.                                               *)
LEMMA RestartGate ==
    ASSUME NEW loaded \in BOOLEAN, NEW purged \in BOOLEAN,
           IInv, NothingLost, ~DbFaults, Restart(loaded, purged)
    PROVE  Gate!GateNext
<1>1. now' = now /\ flight' = [r \in Request |-> None] /\ loaded
  BY DEF Restart
<1>2. ASSUME NEW i \in Member
      PROVE  route'.cooldown[i] = IF saved[i] > now THEN saved[i] ELSE 0
  BY <1>1, <1>2 DEF Restart, NoRoute, NoCooldown, Restored
<1>3. ASSUME NEW i \in Member
      PROVE  (IF Cooling(i) THEN route.cooldown[i] ELSE 0)'
               = IF Cooling(i) THEN route.cooldown[i] ELSE 0
  <2>1. saved[i] \in Nat /\ route.cooldown[i] \in Nat /\ now \in Nat
    BY <1>3, Unfolded, GateValues DEF PeersOK
  <2>2. route.cooldown[i] > now \/ saved[i] > now => saved[i] = route.cooldown[i]
    BY <1>3, Unfolded DEF Agree, NothingLost
  <2>3. QED
    BY <1>1, <1>2, <1>3, <2>1, <2>2 DEF Cooling
<1>4. Until' = Until
  BY <1>3 DEF Until
<1>5. Gate!Outage
  BY <1>1, <1>4 DEF Gate!Outage, Until
<1>6. QED
  BY <1>5 DEF Gate!GateNext

(* The clock ends cooldowns in both. *)
LEMMA TickGate ==
    ASSUME IInv, Tick PROVE Gate!GateNext
<1>1. now < MaxTime /\ now' = now + 1 /\ route' = route /\ flight' = flight
  BY DEF Tick
<1>2. ASSUME NEW i \in Member
      PROVE  (IF Cooling(i) THEN route.cooldown[i] ELSE 0)'
               = IF Until[i] > now + 1 THEN Until[i] ELSE 0
  BY <1>1, <1>2, GateValues DEF Cooling
<1>3. Until' = [i \in Member |-> IF Until[i] > now' THEN Until[i] ELSE 0]
  BY <1>1, <1>2 DEF Until
<1>4. Gate!Advance
  BY <1>1, <1>3 DEF Gate!Advance, Until
<1>5. QED
  BY <1>4 DEF Gate!GateNext

(* Every step of the table is a step of the gate or a stutter. *)
LEMMA NextIsGate ==
    ASSUME IInv, NothingLost, ~DbFaults, [RouteNext]_routeVars
    PROVE  Gate!GateNext \/ UNCHANGED <<now, Until, flight>>
<1>1. ASSUME NEW i \in Member, StartSounding(i) PROVE UNCHANGED <<now, Until, flight>>
  BY <1>1 DEF StartSounding, Until, Cooling
<1>2. CASE UNCHANGED routeVars
  BY <1>2 DEF routeVars, Until, Cooling
<1>3. QED
  BY <1>1, <1>2, RequestGate, SoundingGate, ResetGate, RestartGate, TickGate
     DEF RouteNext

(* The empty table is the open gate. *)
LEMMA InitIsGate == RouteInit => Gate!GateInit
<1> SUFFICES ASSUME RouteInit PROVE Gate!GateInit
  OBVIOUS
<1>1. Until = [i \in Member |-> 0]
  BY DEF RouteInit, NoRoute, NoCooldown, Until, Cooling
<1>2. QED
  BY <1>1 DEF RouteInit, Gate!GateInit, Until

(* Without database faults the route table keeps the promise of            *)
(* CooldownGate: no pick of pickGroupItem starts a request on a member     *)
(* whose cooldown runs, a cooldown ends early only by being forgiven, and  *)
(* a restart with RestoreRouteCooldowns forgives nobody.                   *)
THEOREM TableImplementsGate ==
    ASSUME ~DbFaults PROVE RouteSpec => CooldownsRespected
<1>1. RouteInit => NothingLost
  BY DEF RouteInit, NothingLost
<1>2. RouteInit => IInv
  BY InitIInv
<1>3. IInv /\ [RouteNext]_routeVars => IInv'
  BY NextIInv
<1>4. NothingLost /\ [RouteNext]_routeVars => NothingLost'
  BY NextNothingLost
<1>5. IInv /\ NothingLost /\ [RouteNext]_routeVars => [Gate!GateNext]_(Gate!gateVars)
  BY NextIsGate DEF Gate!gateVars, Until
<1>6. RouteInit => Gate!GateInit
  BY InitIsGate
<1>7. QED
  BY <1>1, <1>2, <1>3, <1>4, <1>5, <1>6, PTL DEF RouteSpec, CooldownsRespected, Gate!GateSpec

-----------------------------------------------------------------------------
(* The forwarding loop over the routing state: every step of a request is  *)
(* a step of the table or leaves it alone, so that all of the above holds  *)
(* of the system with its real client, and what a request remembers of the *)
(* members that rejected it decides where it goes next.                    *)

Labels == {"new", "read", "pick", "picked", "sending", "responding", "done"}
LoopRecord ==
    [pc : Labels, members : SUBSET Member, waits : Nat, attempts : Nat,
     failedItem : Member \cup {None}, failures : 0..MaxAttempts, rejected : SUBSET Member]

LoopShape ==
    /\ loop \in [Request -> LoopRecord]
    /\ available \subseteq Member /\ toggles \in Nat

(* A request is with a member it has read, and with one that rejected it   *)
(* only if all it has read did.                                            *)
Backed(l, item) ==
    item \in l.members /\ (item \in l.rejected => l.members \subseteq l.rejected)
Founded(l, item) == item # None => l.pc \in {"picked", "sending"} /\ Backed(l, item)

(* What is left of a request that has not given up, while no member leaves *)
(* the group: somebody it can still be sent to.                            *)
Hopeful(l) ==
    /\ l.pc \in {"pick", "picked", "sending"} => l.members = Member
    /\ Member # {} => l.rejected # Member
Steady ==
    MaxToggles = 0 => available = Member /\ \A r \in Request : Hopeful(loop[r])

LoopInv == LoopShape /\ Steady /\ \A r \in Request : Founded(loop[r], flight[r])

LEMMA OrderedIs ==
    ASSUME NEW S \in SUBSET Member, ForwardAssumption
    PROVE  Ordered[S] \in Views /\ Listed(Ordered[S]) = S
<1> DEFINE list == [T \in SUBSET Member |-> CHOOSE items \in Views : InOrder(items, T)]
<1>1. \A T \in SUBSET Member : \E items \in Views : InOrder(items, T)
  BY DEF ForwardAssumption
<1>2. \A T \in SUBSET Member : list[T] \in Views /\ InOrder(list[T], T)
  BY <1>1
<1> HIDE DEF list
<1>3. \E f \in [SUBSET Member -> Views] : \A T \in SUBSET Member : InOrder(f[T], T)
  <2>1. list \in [SUBSET Member -> Views]
    BY <1>2 DEF list
  <2>2. QED
    BY <1>2, <2>1
<1>4. Ordered \in [SUBSET Member -> Views] /\ InOrder(Ordered[S], S)
  BY <1>3 DEF Ordered
<1>5. QED
  BY <1>4 DEF InOrder, Listed, ToSet

(* The list a request picks from: members it has read, without those that  *)
(* rejected it unless they all did.                                        *)
LEMMA CandidatesAre ==
    ASSUME LoopShape, NEW r \in Request, ForwardAssumption
    PROVE  /\ Candidates(r) \in Views
           /\ \A i \in Listed(Candidates(r)) : Backed(loop[r], i)
<1> DEFINE kept == loop[r].members \ loop[r].rejected
           offered == IF kept = {} THEN loop[r].members ELSE kept
<1>1. loop[r] \in LoopRecord
  BY DEF LoopShape
<1>2. offered \in SUBSET Member
  BY <1>1 DEF LoopRecord
<1>3. Candidates(r) = Ordered[offered]
  BY DEF Candidates
<1>4. \A i \in offered : Backed(loop[r], i)
  BY DEF Backed
<1> HIDE DEF offered, kept
<1>5. Ordered[offered] \in Views /\ Listed(Ordered[offered]) = offered
  BY <1>2, OrderedIs
<1>6. QED
  BY <1>3, <1>4, <1>5

(* Whoever is picked is on the list. *)
LEMMA PickedIsListed ==
    ASSUME flight \in [Request -> Member \cup {None}], NEW r \in Request, NEW items \in Views,
           NEW failed, PickGroupItem(r, items, failed)
    PROVE  \E i \in Listed(items) \cup {None} : flight' = [flight EXCEPT ![r] = i]
<1> DEFINE S == Listed(items)
           rt == PickRoute(S)
<1>1. rt.current \in S \cup {None}
  BY DEF PickRoute, Pruned, Kept
<1> HIDE DEF rt
<1>2. \/ \E k \in DOMAIN items : flight' = [flight EXCEPT ![r] = items[k]]
      \/ flight' = [flight EXCEPT ![r] = rt.current]
  BY DEF PickGroupItem, rt
<1>3. \A k \in DOMAIN items : items[k] \in S
  BY DEF Listed
<1> HIDE DEF S
<1>4. QED
  BY <1>1, <1>2, <1>3 DEF S

(* One request moves on. *)
LEMMA OneMoves ==
    ASSUME LoopInv, flight \in [Request -> Member \cup {None}], NEW r \in Request,
           NEW l \in LoopRecord, loop' = [loop EXCEPT ![r] = l],
           NEW i, flight' = [flight EXCEPT ![r] = i], Founded(l, i),
           MaxToggles = 0 => Hopeful(l), UNCHANGED <<available, toggles>>
    PROVE  LoopInv'
<1>1. loop \in [Request -> LoopRecord]
  BY DEF LoopInv, LoopShape
<1>2. /\ loop' \in [Request -> LoopRecord] /\ loop'[r] = l /\ flight'[r] = i
      /\ \A q \in Request \ {r} : loop'[q] = loop[q] /\ flight'[q] = flight[q]
  BY <1>1
<1>3. LoopShape'
  BY <1>2 DEF LoopInv, LoopShape
<1>4. Steady'
  <2>1. MaxToggles = 0 => available = Member /\ \A q \in Request : Hopeful(loop[q])
    BY DEF LoopInv, Steady
  <2>2. MaxToggles = 0 => \A q \in Request : Hopeful(loop'[q])
    BY <1>2, <2>1
  <2>3. QED
    BY <2>1, <2>2 DEF Steady
<1>5. \A q \in Request : Founded(loop'[q], flight'[q])
  BY <1>2 DEF LoopInv
<1>6. QED
  BY <1>3, <1>4, <1>5 DEF LoopInv

(* A request that stays where it is or ends carries nothing that matters. *)
LEMMA LocalsAre ==
    ASSUME NEW label \in Labels \ {"pick", "picked", "sending"}, RouteAssumption
    PROVE  Locals(label) \in LoopRecord /\ Hopeful(Locals(label))
<1>1. /\ Locals(label).pc = label /\ Locals(label).rejected = {}
      /\ Locals(label) \in LoopRecord
  BY DEF Locals, LoopRecord, RouteAssumption
<1>2. QED
  BY <1>1 DEF Hopeful

LEMMA LandIs ==
    ASSUME NEW r, Land(r)
    PROVE  flight' = [flight EXCEPT ![r] = None]
  BY DEF Land

(* A round that ends lets go of its member: what the request does next     *)
(* need only not be to ask again without having read the group.            *)
LEMMA RoundEnds ==
    ASSUME LoopInv, flight \in [Request -> Member \cup {None}], NEW r \in Request, Land(r),
           UNCHANGED adminVars,
           NEW label \in {"read", "responding"},
           Goto(r, label) \/ Finish(r)
    PROVE  LoopInv'
<1> USE DEF Labels
<1>1. loop \in [Request -> LoopRecord] /\ loop[r] \in LoopRecord
  BY DEF LoopInv, LoopShape
<1>2. flight' = [flight EXCEPT ![r] = None] /\ \A l : Founded(l, None)
  BY LandIs DEF Founded
<1>3. UNCHANGED <<available, toggles>>
  BY DEF adminVars
<1>4. CASE Goto(r, label)
  <2> DEFINE l == [loop[r] EXCEPT !.pc = label]
  <2>1. loop' = [loop EXCEPT ![r] = l]
    BY <1>4 DEF Goto
  <2>2. l \in LoopRecord /\ l.pc = label /\ l.members = loop[r].members
        /\ l.rejected = loop[r].rejected
    BY <1>1 DEF LoopRecord
  <2> HIDE DEF l
  <2>3. MaxToggles = 0 => Hopeful(l)
    BY <2>2 DEF LoopInv, Steady, Hopeful
  <2>4. QED
    BY <1>2, <1>3, <2>1, <2>2, <2>3, OneMoves
<1>5. CASE Finish(r)
  BY <1>2, <1>3, <1>5, LocalsAre, OneMoves, RouteAssumption DEF Finish
<1>6. QED
  BY <1>4, <1>5

LEMMA FlightTyped == ASSUME IInv PROVE flight \in [Request -> Member \cup {None}]
  BY DEF IInv, RouteTypeOK

LEMMA EntryStep ==
    ASSUME IInv, LoopInv, NEW r \in Request,
           \/ Arrive(r) \/ ReadGroup(r) \/ LeaveIdle(r) \/ Responded(r)
    PROVE  [RouteNext]_routeVars /\ LoopInv'
<1> USE DEF Labels
<1>1. loop \in [Request -> LoopRecord] /\ loop[r] \in LoopRecord /\ available \subseteq Member
  BY DEF LoopInv, LoopShape
<1>2. flight \in [Request -> Member \cup {None}] /\ flight' = [flight EXCEPT ![r] = flight[r]]
  BY FlightTyped DEF Arrive, ReadGroup, LeaveIdle, Responded, routeVars
<1>3. UNCHANGED routeVars /\ UNCHANGED <<available, toggles>>
  BY DEF Arrive, ReadGroup, LeaveIdle, Responded, adminVars
<1>4. Founded(loop[r], flight[r]) /\ (MaxToggles = 0 => available = Member /\ Hopeful(loop[r]))
  BY DEF LoopInv, Steady
<1>5. CASE Arrive(r)
  <2> DEFINE l == [loop[r] EXCEPT !.pc = "read"]
  <2>1. loop' = [loop EXCEPT ![r] = l]
    BY <1>5 DEF Arrive, Goto
  <2>2. l \in LoopRecord /\ l.pc = "read" /\ l.members = loop[r].members
        /\ l.rejected = loop[r].rejected
    BY <1>1 DEF LoopRecord
  <2> HIDE DEF l
  <2>3. flight[r] = None
    BY <1>4, <1>5 DEF Founded, Arrive, At
  <2>4. Founded(l, flight[r]) /\ (MaxToggles = 0 => Hopeful(l))
    BY <1>4, <2>2, <2>3 DEF Founded, Hopeful
  <2>5. LoopInv'
    BY <1>2, <1>3, <2>1, <2>2, <2>4, OneMoves
  <2>6. QED
    BY <1>3, <2>5
<1>6. CASE ReadGroup(r)
  <2> DEFINE l == [loop[r] EXCEPT !.members = available, !.pc = "pick"]
  <2>1. loop' = [loop EXCEPT ![r] = l]
    BY <1>6 DEF ReadGroup
  <2>2. l \in LoopRecord /\ l.pc = "pick" /\ l.members = available
        /\ l.rejected = loop[r].rejected
    BY <1>1 DEF LoopRecord
  <2> HIDE DEF l
  <2>3. MaxToggles = 0 => Hopeful(l)
    BY <1>4, <2>2 DEF Hopeful
  <2>4. flight[r] = None
    BY <1>4, <1>6 DEF Founded, ReadGroup, At
  <2>5. Founded(l, flight[r])
    BY <2>4 DEF Founded
  <2>6. LoopInv'
    BY <1>2, <1>3, <2>1, <2>2, <2>3, <2>5, OneMoves
  <2>7. QED
    BY <1>3, <2>6
<1>7. CASE LeaveIdle(r) \/ Responded(r)
  <2>1. loop' = [loop EXCEPT ![r] = Locals("done")]
    BY <1>7 DEF LeaveIdle, Responded, Finish
  <2>2. flight[r] = None
    BY <1>4, <1>7 DEF Founded, LeaveIdle, Responded, At
  <2>3. QED
    BY <1>2, <1>3, <2>1, <2>2, LocalsAre, OneMoves, RouteAssumption DEF Founded
<1>8. QED
  BY <1>5, <1>6, <1>7

LEMMA PickStep ==
    ASSUME IInv, LoopInv, NEW r \in Request, Pick(r)
    PROVE  [RouteNext]_routeVars /\ LoopInv'
<1> USE DEF Labels
<1>1. loop \in [Request -> LoopRecord] /\ loop[r] \in LoopRecord /\ LoopShape
  BY DEF LoopInv, LoopShape
<1>2. PICK failed \in SUBSET Member : PickGroupItem(r, Candidates(r), failed)
  BY DEF Pick
<1>3. /\ Candidates(r) \in Views
      /\ \A i \in Listed(Candidates(r)) : Backed(loop[r], i)
  BY <1>1, CandidatesAre, ForwardAssumption
<1>4. RouteNext
  BY <1>2, <1>3 DEF RouteNext, RequestNext
<1>5. flight \in [Request -> Member \cup {None}]
  BY FlightTyped
<1>6. PICK i \in Listed(Candidates(r)) \cup {None} : flight' = [flight EXCEPT ![r] = i]
  BY <1>2, <1>3, <1>5, PickedIsListed
<1>7. flight'[r] = i
  BY <1>5, <1>6
<1>8. MaxToggles = 0 => Hopeful(loop[r])
  BY DEF LoopInv, Steady
<1>9. UNCHANGED <<available, toggles>>
  BY DEF Pick, adminVars
<1>10. CASE i # None
  <2> DEFINE l == [loop[r] EXCEPT !.pc = "picked", !.waits = 0]
  <2>1. loop' = [loop EXCEPT ![r] = l]
    BY <1>7, <1>10 DEF Pick
  <2>2. l \in LoopRecord /\ l.pc = "picked" /\ l.members = loop[r].members
        /\ l.rejected = loop[r].rejected
    BY <1>1 DEF LoopRecord
  <2> HIDE DEF l
  <2>3. loop[r].pc = "pick"
    BY DEF Pick, At
  <2>4. MaxToggles = 0 => Hopeful(l)
    BY <1>8, <2>2, <2>3 DEF Hopeful
  <2>5. Backed(loop[r], i)
    BY <1>3, <1>10
  <2>6. Founded(l, i)
    BY <2>2, <2>5 DEF Founded, Backed
  <2>7. QED
    BY <1>4, <1>5, <1>6, <1>9, <2>1, <2>2, <2>4, <2>6, OneMoves
<1>11. CASE i = None
  <2>1. CASE WaitedEnough(r)
    <3>1. loop' = [loop EXCEPT ![r] = Locals("done")]
      BY <1>7, <1>11, <2>1 DEF Pick, Finish
    <3>2. QED
      BY <1>4, <1>5, <1>6, <1>9, <1>11, <3>1, LocalsAre, OneMoves, RouteAssumption DEF Founded
  <2>2. CASE ~WaitedEnough(r)
    <3> DEFINE w == Min2(loop[r].waits + 1, WaitCap)
               l == [loop[r] EXCEPT !.pc = "read", !.waits = w]
    <3>1. loop' = [loop EXCEPT ![r] = l]
      BY <1>7, <1>11, <2>2 DEF Pick
    <3>2. w \in Nat
      BY <1>1, ForwardAssumption DEF LoopRecord, ForwardAssumption, Min2
    <3> HIDE DEF w
    <3>3. l \in LoopRecord /\ l.pc = "read" /\ l.members = loop[r].members
          /\ l.rejected = loop[r].rejected
      BY <1>1, <3>2 DEF LoopRecord
    <3> HIDE DEF l
    <3>4. MaxToggles = 0 => Hopeful(l)
      BY <1>8, <3>3 DEF Hopeful
    <3>5. QED
      BY <1>4, <1>5, <1>6, <1>9, <1>11, <3>1, <3>3, <3>4, OneMoves DEF Founded
  <2>3. QED
    BY <2>1, <2>2
<1>12. QED
  BY <1>10, <1>11

LEMMA PrepareStep ==
    ASSUME IInv, LoopInv, NEW r \in Request, Prepare(r)
    PROVE  [RouteNext]_routeVars /\ LoopInv'
<1> USE DEF Labels
<1>1. loop \in [Request -> LoopRecord] /\ loop[r] \in LoopRecord
  BY DEF LoopInv, LoopShape
<1>2. flight \in [Request -> Member \cup {None}]
  BY FlightTyped
<1>3. CASE AbandonRound(r) /\ Goto(r, "read")
  <2>1. AbandonRound(r) /\ Goto(r, "read") /\ UNCHANGED adminVars
    BY <1>3 DEF Prepare
  <2>2. RouteNext /\ Land(r)
    BY <2>1 DEF RouteNext, RequestNext, AbandonRound
  <2>3. QED
    BY <1>2, <2>1, <2>2, RoundEnds
<1>4. CASE UNCHANGED routeVars /\ Goto(r, "sending")
  <2> DEFINE l == [loop[r] EXCEPT !.pc = "sending"]
  <2>1. UNCHANGED routeVars /\ loop' = [loop EXCEPT ![r] = l] /\ UNCHANGED <<available, toggles>>
    BY <1>4 DEF Prepare, Goto, adminVars
  <2>2. flight' = [flight EXCEPT ![r] = flight[r]]
    BY <1>2, <2>1 DEF routeVars
  <2>3. l \in LoopRecord /\ l.pc = "sending" /\ l.members = loop[r].members
        /\ l.rejected = loop[r].rejected
    BY <1>1 DEF LoopRecord
  <2> HIDE DEF l
  <2>4. loop[r].pc = "picked"
    BY DEF Prepare, At
  <2>5. MaxToggles = 0 => Hopeful(l)
    BY <2>3, <2>4 DEF LoopInv, Steady, Hopeful
  <2>6. Founded(loop[r], flight[r])
    BY DEF LoopInv
  <2>7. Founded(l, flight[r])
    BY <2>3, <2>6 DEF Founded, Backed
  <2>8. LoopInv'
    BY <1>2, <2>1, <2>2, <2>3, <2>5, <2>7, OneMoves
  <2>9. QED
    BY <2>1, <2>8
<1>5. QED
  BY <1>3, <1>4 DEF Prepare

LEMMA QuietEndStep ==
    ASSUME IInv, LoopInv, NEW r \in Request,
           Answered(r) \/ LeaveRound(r) \/ Exhausted(r)
    PROVE  [RouteNext]_routeVars /\ LoopInv'
<1>1. flight \in [Request -> Member \cup {None}]
  BY FlightTyped
<1>2. RouteNext /\ Land(r)
  BY DEF Answered, LeaveRound, Exhausted, RouteNext, RequestNext, RecordRouteSuccess,
     ReleaseRouteProbe, AbandonRound
<1>3. UNCHANGED adminVars /\ (Goto(r, "responding") \/ Finish(r))
  BY DEF Answered, LeaveRound, Exhausted
<1>4. QED
  BY <1>1, <1>2, <1>3, RoundEnds

LEMMA InterruptedStep ==
    ASSUME IInv, LoopInv, NEW r \in Request, Interrupted(r)
    PROVE  [RouteNext]_routeVars /\ LoopInv'
<1> USE DEF Labels
<1>1. loop \in [Request -> LoopRecord] /\ loop[r] \in LoopRecord
  BY DEF LoopInv, LoopShape
<1>2. flight \in [Request -> Member \cup {None}]
  BY FlightTyped
<1>3. RouteNext /\ Land(r)
  BY DEF Interrupted, RouteNext, RequestNext, ReleaseRouteProbe
<1>4. flight' = [flight EXCEPT ![r] = None] /\ \A l : Founded(l, None)
  BY <1>3, LandIs DEF Founded
<1> DEFINE l == [loop[r] EXCEPT !.pc = "read"]
<1>5. loop' = [loop EXCEPT ![r] = l] /\ UNCHANGED <<available, toggles>>
  BY DEF Interrupted, Goto
<1>6. l \in LoopRecord /\ l.pc = "read" /\ l.rejected = loop[r].rejected
  BY <1>1 DEF LoopRecord
<1> HIDE DEF l
<1>7. MaxToggles = 0 => Hopeful(l)
  BY <1>6 DEF LoopInv, Steady, Hopeful
<1>8. QED
  BY <1>2, <1>3, <1>4, <1>5, <1>6, <1>7, OneMoves

LEMMA RefusedStep ==
    ASSUME IInv, LoopInv, NEW r \in Request, Refused(r)
    PROVE  [RouteNext]_routeVars /\ LoopInv'
<1> USE DEF Labels
<1> DEFINE refusals == loop[r].rejected \cup {flight[r]}
<1>1. loop \in [Request -> LoopRecord] /\ loop[r] \in LoopRecord
  BY DEF LoopInv, LoopShape
<1>2. flight \in [Request -> Member \cup {None}]
  BY FlightTyped
<1>3. RouteNext /\ Land(r) /\ UNCHANGED adminVars
  BY DEF Refused, RouteNext, RequestNext, AbandonRound
<1>4. CASE FailFast \/ loop[r].members \subseteq refusals
  <2>1. Finish(r)
    BY <1>4 DEF Refused
  <2>2. QED
    BY <1>2, <1>3, <2>1, RoundEnds
<1>5. CASE ~(FailFast \/ loop[r].members \subseteq refusals)
  <2> DEFINE count == loop[r].attempts + 1
             l == [loop[r] EXCEPT !.pc = "read", !.attempts = count, !.rejected = refusals]
  <2>1. loop' = [loop EXCEPT ![r] = l]
    BY <1>5 DEF Refused
  <2>2. flight[r] \in Member
    BY <1>2, <1>3 DEF Land
  <2>3. refusals \in SUBSET Member
    BY <1>1, <2>2 DEF LoopRecord
  <2>4. loop[r].members # refusals
    BY <1>5
  <2>5. count \in Nat
    BY <1>1 DEF LoopRecord
  <2> HIDE DEF refusals, count
  <2>6. l \in LoopRecord /\ l.pc = "read" /\ l.rejected = refusals
    BY <1>1, <2>3, <2>5 DEF LoopRecord
  <2> HIDE DEF l
  <2>7. loop[r].pc = "sending"
    BY DEF Refused, At
  <2>8. MaxToggles = 0 => loop[r].members = Member
    BY <2>7 DEF LoopInv, Steady, Hopeful
  <2>9. MaxToggles = 0 => Hopeful(l)
    BY <2>4, <2>6, <2>8 DEF Hopeful
  <2>10. flight' = [flight EXCEPT ![r] = None] /\ Founded(l, None)
    BY <1>3, LandIs DEF Founded
  <2>11. UNCHANGED <<available, toggles>>
    BY <1>3 DEF adminVars
  <2>12. QED
    BY <1>2, <1>3, <2>1, <2>6, <2>9, <2>10, <2>11, OneMoves
<1>6. QED
  BY <1>4, <1>5

LEMMA FailedStep ==
    ASSUME IInv, LoopInv, NEW r \in Request, NEW hint \in Hint, NEW fatal \in BOOLEAN,
           FailedRound(r, hint, fatal)
    PROVE  [RouteNext]_routeVars /\ LoopInv'
<1> USE DEF Labels
<1> DEFINE run == IF loop[r].failedItem = flight[r]
                  THEN Min2(loop[r].failures + 1, MaxAttempts) ELSE 1
           n == IF fatal \/ hint > 0 THEN MaxAttempts ELSE run
           count == loop[r].attempts + 1
           l == [loop[r] EXCEPT !.pc = "read", !.attempts = count,
                                !.failedItem = flight[r], !.failures = n]
<1>1. loop \in [Request -> LoopRecord] /\ loop[r] \in LoopRecord
  BY DEF LoopInv, LoopShape
<1>2. flight \in [Request -> Member \cup {None}]
  BY FlightTyped
<1>3. MaxAttempts \in Nat \ {0} /\ loop[r].failures \in 0..MaxAttempts
  BY <1>1, RouteAssumption DEF LoopRecord, RouteAssumption
<1>4. n \in 1..MaxAttempts
  BY <1>3 DEF Min2
<1>5. \E failed \in SUBSET Member : RecordRouteFailure(r, n, hint, failed)
  BY DEF FailedRound
<1>6. loop' = [loop EXCEPT ![r] = l] /\ UNCHANGED <<available, toggles>>
  BY DEF FailedRound, adminVars
<1> HIDE DEF n
<1>7. RouteNext
  BY <1>4, <1>5 DEF RouteNext, RequestNext
<1>8. Land(r)
  BY <1>5 DEF RecordRouteFailure
<1>9. n \in 0..MaxAttempts /\ count \in Nat
  BY <1>1, <1>3, <1>4 DEF LoopRecord
<1> HIDE DEF count
<1>10. l \in LoopRecord /\ l.pc = "read" /\ l.rejected = loop[r].rejected
  BY <1>1, <1>2, <1>9 DEF LoopRecord
<1> HIDE DEF l
<1>11. MaxToggles = 0 => Hopeful(l)
  BY <1>10 DEF LoopInv, Steady, Hopeful
<1>12. flight' = [flight EXCEPT ![r] = None] /\ Founded(l, None)
  BY <1>8, LandIs DEF Founded
<1>13. QED
  BY <1>2, <1>6, <1>7, <1>10, <1>11, <1>12, OneMoves

(* What others do leaves the requests where they are, or ends them. *)
LEMMA SurroundingsStep ==
    ASSUME IInv, LoopInv,
           \/ \E i \in Member : ToggleMember(i)
           \/ DeleteGroup \/ ResetDeleted \/ BackgroundProbe \/ Clock
           \/ UNCHANGED forwardVars
    PROVE  [RouteNext]_routeVars /\ LoopInv'
<1>1. UNCHANGED <<loop, flight>>
  BY DEF ToggleMember, DeleteGroup, ResetDeleted, BackgroundProbe, Clock, forwardVars, routeVars,
     adminVars, ResetRouteState, StartSounding, FinishSounding, Tick
<1>2. [RouteNext]_routeVars
  <2>1. CASE ResetDeleted
    BY <2>1 DEF ResetDeleted, RouteNext
  <2>2. CASE BackgroundProbe
    <3>1. ASSUME NEW i \in available, StartSounding(i) PROVE RouteNext
      <4>1. i \in Member
        BY DEF LoopInv, LoopShape
      <4>2. QED
        BY <3>1, <4>1 DEF RouteNext
    <3>2. ASSUME NEW i \in Member, NEW good \in BOOLEAN, NEW failed \in SUBSET Member,
                 FinishSounding(i, good, failed)
          PROVE  RouteNext
      BY <3>2 DEF RouteNext
    <3>3. QED
      BY <2>2, <3>1, <3>2 DEF BackgroundProbe
  <2>3. CASE Clock
    BY <2>3 DEF Clock, RouteNext
  <2>4. CASE UNCHANGED forwardVars
    BY <2>4 DEF forwardVars
  <2>5. CASE DeleteGroup \/ \E i \in Member : ToggleMember(i)
    BY <2>5 DEF DeleteGroup, ToggleMember
  <2>6. QED
    BY <2>1, <2>2, <2>3, <2>4, <2>5
<1>3. /\ available' \subseteq Member /\ toggles' \in Nat
      /\ MaxToggles = 0 => available' = available
  BY DEF LoopInv, LoopShape, ToggleMember, DeleteGroup, ResetDeleted, BackgroundProbe, Clock,
     forwardVars, adminVars
<1>4. LoopShape'
  BY <1>1, <1>3 DEF LoopInv, LoopShape
<1>5. Steady'
  BY <1>1, <1>3 DEF LoopInv, Steady
<1>6. \A r \in Request : Founded(loop'[r], flight'[r])
  BY <1>1 DEF LoopInv
<1>7. QED
  BY <1>2, <1>4, <1>5, <1>6 DEF LoopInv

LEMMA CrashStep ==
    ASSUME IInv, LoopInv, Crash
    PROVE  [RouteNext]_routeVars /\ LoopInv'
<1> USE DEF Labels
<1>1. PICK loaded \in BOOLEAN, purged \in BOOLEAN : Restart(loaded, purged)
  BY DEF Crash
<1>2. RouteNext
  BY <1>1 DEF RouteNext
<1>3. /\ loop' = [r \in Request |-> IF At(r, "new") THEN loop[r] ELSE Locals("done")]
      /\ UNCHANGED <<available, toggles>>
  BY DEF Crash, adminVars
<1>4. flight' = [r \in Request |-> None]
  BY <1>1 DEF Restart
<1>5. loop \in [Request -> LoopRecord] /\ Locals("done") \in LoopRecord
  BY LocalsAre, RouteAssumption DEF LoopInv, LoopShape
<1>6. LoopShape'
  BY <1>3, <1>5 DEF LoopInv, LoopShape
<1>7. Hopeful(Locals("done"))
  BY LocalsAre, RouteAssumption
<1>8. Steady'
  BY <1>3, <1>7 DEF LoopInv, Steady
<1>9. \A r \in Request : Founded(loop'[r], flight'[r])
  BY <1>4 DEF Founded
<1>10. QED
  BY <1>2, <1>6, <1>8, <1>9 DEF LoopInv

LEMMA ForwardStep ==
    ASSUME IInv, LoopInv, [ForwardNext]_forwardVars
    PROVE  [RouteNext]_routeVars /\ LoopInv'
<1>1. ASSUME NEW r \in Request,
             Proceed(r) \/ Arrive(r) \/ LeaveIdle(r) \/ LeaveRound(r) \/ Interrupted(r)
      PROVE  [RouteNext]_routeVars /\ LoopInv'
  BY <1>1, EntryStep, PickStep, PrepareStep, QuietEndStep, InterruptedStep, RefusedStep,
     FailedStep DEF Proceed
<1>2. QED
  BY <1>1, SurroundingsStep, CrashStep DEF ForwardNext

LEMMA ForwardStarts ==
    ASSUME ForwardInit
    PROVE  RouteInit /\ IInv /\ LoopInv
<1> USE DEF Labels
<1>1. RouteInit /\ IInv
  BY InitIInv DEF ForwardInit
<1>2. Locals("new") \in LoopRecord /\ Hopeful(Locals("new"))
  BY LocalsAre, RouteAssumption
<1>3. LoopShape
  BY <1>2 DEF LoopShape, ForwardInit
<1>4. Steady
  BY <1>2 DEF Steady, ForwardInit
<1>5. \A r \in Request : Founded(loop[r], flight[r])
  BY <1>1 DEF Founded, RouteInit
<1>6. QED
  BY <1>1, <1>3, <1>4, <1>5 DEF LoopInv

(* The forwarding loop, its administrators and the background probe use    *)
(* the routing state as route.go allows: everything that is proved of      *)
(* GroupRoute holds of the system.                                         *)
THEOREM LoopUsesTheTable == ForwardSpec => RouteSpec
<1>1. ForwardInit => RouteInit /\ IInv /\ LoopInv
  BY ForwardStarts
<1>2. IInv /\ LoopInv /\ [ForwardNext]_forwardVars =>
         [RouteNext]_routeVars /\ IInv' /\ LoopInv'
  BY ForwardStep, NextIInv
<1>3. QED
  BY <1>1, <1>2, PTL DEF ForwardSpec, RouteSpec

(* A request of Forward (handler.go) is with a member of the list that it   *)
(* read, with one that rejected it only when all of that list did, and     *)
(* while the group does not change somebody is left to try.                *)
THEOREM LoopInvariant == ForwardSpec => []LoopInv
<1>1. ForwardInit => RouteInit /\ IInv /\ LoopInv
  BY ForwardStarts
<1>2. IInv /\ LoopInv /\ [ForwardNext]_forwardVars => IInv' /\ LoopInv'
  BY ForwardStep, NextIInv
<1>3. QED
  BY <1>1, <1>2, PTL DEF ForwardSpec

(* No request is started on a member that is cooling, with the clients,    *)
(* administrators and crashes the program really has, as long as no        *)
(* database statement fails.                                               *)
THEOREM ClientsRespectCooldowns ==
    ASSUME ~DbFaults PROVE ForwardSpec => CooldownsRespected
  BY TableImplementsGate, LoopUsesTheTable, PTL

(* Routing state that other requests left behind never widens what a       *)
(* request may be sent to: its member is one that it has read.             *)
THEOREM ServedByWhatWasRead == ForwardSpec => []ServedFromView
<1>1. LoopInv => ServedFromView
  BY DEF LoopInv, Founded, Backed, ServedFromView
<1>2. QED
  BY <1>1, LoopInvariant, PTL

(* While no member of the group becomes available or unavailable, a member *)
(* that called a request invalid does not get it again (dropRejectedMembers, *)
(* handler.go), however often the group is deleted, interrupted or started *)
(* again.                                                                  *)
THEOREM RejectersAreLeftAlone ==
    ASSUME MaxToggles = 0 PROVE ForwardSpec => []NeverResentToRejecter
<1>1. ASSUME LoopInv, NEW r \in Request, flight[r] # None
      PROVE  flight[r] \notin loop[r].rejected
  <2>1. loop[r] \in LoopRecord /\ Hopeful(loop[r]) /\ Founded(loop[r], flight[r])
    BY <1>1 DEF LoopInv, LoopShape, Steady
  <2>2. loop[r].members = Member /\ flight[r] \in Member
    BY <1>1, <2>1 DEF Founded, Hopeful, Backed
  <2>3. loop[r].rejected \in SUBSET Member /\ loop[r].rejected # Member
    BY <2>1, <2>2 DEF Hopeful, LoopRecord
  <2>4. QED
    BY <1>1, <2>1, <2>2, <2>3 DEF Founded, Backed
<1>2. LoopInv => NeverResentToRejecter
  BY <1>1 DEF NeverResentToRejecter
<1>3. QED
  BY <1>2, LoopInvariant, PTL
=============================================================================
