---------------------------- MODULE RequestProofs ----------------------------
(***************************************************************************)
(* Proofs about the life of a request: the registry of requests, for any   *)
(* number of requests, rounds, pages and administrators and every limit,   *)
(* and the race of one of its rounds, for any members, settings and orders *)
(* of candidates.                                                          *)
(*                                                                         *)
(* RegistryInv ties what is published of a request to where Forward is     *)
(* with it: the terminal states are those of a request that has returned,  *)
(* and it is sending exactly while it waits for its upstream.              *)
(*                                                                         *)
(* The collector of a race only counts outcomes.  RaceInv relates its      *)
(* counter to the calls themselves: what it has received are the outcomes  *)
(* of different calls, all of them calls it counts on, so that a full      *)
(* count means that every one of them is in.                               *)
(***************************************************************************)
EXTENDS RequestRegistry, HedgeRace, FiniteSetTheorems, WellFoundedInduction, TLAPS

Places == {"new", "idle", "waiting", "left", "answered", "ready", "writing", "written", "returned"}

Typed ==
    /\ state \in [Request -> RequestState]
    /\ row \in [Request -> RequestState]
    /\ fault \in [Request -> BOOLEAN]
    /\ place \in [Request -> Places]
    /\ registered \subseteq Request

(* Where a request is, and what is published of it. *)
InPlace(r) ==
    /\ place[r] = "new" <=> state[r].status = "none"
    /\ place[r] = "returned" <=> Done(state[r])
    /\ state[r].sending <=> place[r] = "waiting"
    /\ Live(state[r]) => r \in registered

RowIsFinal(r) ==
    IF Done(state[r]) THEN row[r] = state[r] /\ row[r].stop # "" ELSE row[r] = Unborn

(* A chain that holds the newest of so many rounds. *)
Holds(s, rounds) ==
    /\ Len(s.chain) = IF rounds > DetailMax THEN DetailMax ELSE rounds
    /\ \A k \in 1..Len(s.chain) : s.chain[k].round = rounds - Len(s.chain) + k
    /\ s.truncated <=> rounds > DetailMax
Rounds(s) == IF Live(s) /\ s.round > 0 THEN s.round - 1 ELSE s.round

RegistryInv ==
    /\ Typed
    /\ \A r \in Request : InPlace(r) /\ RowIsFinal(r) /\ Holds(state[r], Rounds(state[r]))

-----------------------------------------------------------------------------
LEMMA UnbornState ==
    /\ Unborn \in RequestState /\ Rounds(Unborn) = 0
    /\ RegistryAssumption => Holds(Unborn, 0)
<1>1. Unborn \in RequestState
  BY DEF Unborn, RequestState
<1>2. Rounds(Unborn) = 0
  BY DEF Unborn, Rounds, Live
<1>3. ASSUME RegistryAssumption PROVE Holds(Unborn, 0)
  <2>1. Unborn.chain = <<>> /\ Unborn.truncated = FALSE /\ DetailMax \in Nat \ {0}
    BY <1>3 DEF Unborn, RegistryAssumption
  <2>2. QED
    BY <2>1 DEF Holds
<1>4. QED
  BY <1>1, <1>2, <1>3

(* The number of an entry, counted from the chain before and after a shift. *)
LEMMA Shifted ==
    ASSUME NEW a \in Int, NEW b \in Int, NEW k \in Int
    PROVE  a - 1 - b + (k + 1) = a - b + k
  OBVIOUS

(* archiveRoundLocked adds the round that is over, and nothing else. *)
LEMMA ArchivedFacts ==
    ASSUME RegistryAssumption, NEW s \in RequestState, NEW f \in BOOLEAN,
           Holds(s, IF s.round > 0 THEN s.round - 1 ELSE s.round)
    PROVE  /\ Archived(s, f) \in RequestState
           /\ Holds(Archived(s, f), s.round)
           /\ Archived(s, f).round = s.round /\ Archived(s, f).status = s.status
           /\ Archived(s, f).stop = s.stop
<1> DEFINE entry == [round |-> s.round, fault |-> f]
           chain == Append(s.chain, entry)
           over == Len(chain) > DetailMax
           next == IF over THEN Tail(chain) ELSE chain
           t == [s EXCEPT !.chain = next, !.truncated = @ \/ over]
           Entries == [round : Nat, fault : BOOLEAN]
<1>0. /\ DetailMax \in Nat \ {0} /\ s.round \in Nat /\ s.chain \in Seq(Entries)
      /\ Len(s.chain) \in Nat /\ s.truncated \in BOOLEAN
  <2>1. DetailMax \in Nat \ {0}
    BY DEF RegistryAssumption
  <2>2. s.round \in Nat /\ s.chain \in Seq(Entries) /\ s.truncated \in BOOLEAN
    BY DEF RequestState
  <2>3. QED
    BY <2>1, <2>2
<1>1. s.round \in Int /\ Len(s.chain) \in Int
  BY <1>0
<1>2. CASE s.round = 0
  BY <1>0, <1>2 DEF Archived
<1>3. CASE s.round # 0
  <2>1. /\ entry \in Entries /\ chain \in Seq(Entries) /\ Len(chain) = Len(s.chain) + 1
        /\ \A k \in 1..Len(s.chain) : chain[k] = s.chain[k]
        /\ chain[Len(s.chain) + 1].round = s.round
    BY <1>0
  <2>2. /\ Len(s.chain) = IF s.round - 1 > DetailMax THEN DetailMax ELSE s.round - 1
        /\ \A k \in 1..Len(s.chain) : s.chain[k].round = s.round - 1 - Len(s.chain) + k
        /\ s.truncated <=> s.round - 1 > DetailMax
    BY <1>0, <1>3 DEF Holds
  <2> HIDE DEF entry, chain
  <2>3. over <=> s.round > DetailMax
    BY <1>0, <1>3, <2>1, <2>2, SMTT(60)
  <2>4. /\ next \in Seq(Entries)
        /\ Len(next) = IF s.round > DetailMax THEN DetailMax ELSE s.round
        /\ \A k \in 1..Len(next) : next[k].round = s.round - Len(next) + k
    <3>1. CASE over
      <4>1. /\ next \in Seq(Entries) /\ Len(next) = Len(chain) - 1
            /\ \A k \in 1..Len(next) : next[k] = chain[k + 1]
        <5>1. next = Tail(chain) /\ chain \in Seq(Entries) /\ chain # <<>>
          BY <1>0, <2>1, <3>1
        <5> HIDE DEF next
        <5>2. QED
          BY <1>0, <2>1, <5>1
      <4>2. Len(next) = DetailMax /\ Len(s.chain) = DetailMax /\ s.round > DetailMax
        BY <1>0, <1>3, <2>1, <2>2, <2>3, <3>1, <4>1, SMTT(60)
      <4> HIDE DEF next, over
      <4>3. ASSUME NEW k \in 1..Len(next) PROVE next[k].round = s.round - Len(next) + k
        <5>1. CASE k = Len(next)
          BY <1>0, <2>1, <4>1, <4>2, <5>1, SMTT(60)
        <5>2. CASE k # Len(next)
          <6>1. k + 1 \in 1..Len(s.chain) /\ k \in Nat
            BY <1>0, <2>1, <4>1, <4>2, <5>2
          <6>2. next[k] = s.chain[k + 1]
            BY <2>1, <4>1, <6>1
          <6>3. s.chain[k + 1].round = s.round - 1 - Len(s.chain) + (k + 1)
            BY <2>2, <6>1
          <6>4. s.round - 1 - Len(s.chain) + (k + 1) = s.round - Len(next) + k
            <7>1. Len(next) = Len(s.chain) /\ k \in Int
              BY <4>2, <6>1
            <7>2. s.round - 1 - Len(s.chain) + (k + 1) = s.round - Len(s.chain) + k
              BY <1>1, <7>1, Shifted, ZenonT(60)
            <7>3. QED
              BY <7>1, <7>2, ZenonT(60)
          <6>5. QED
            BY <6>2, <6>3, <6>4
        <5>3. QED
          BY <5>1, <5>2
      <4>4. QED
        BY <4>1, <4>2, <4>3
    <3>2. CASE ~over
      <4>1. next = chain /\ Len(s.chain) = s.round - 1
        BY <1>0, <1>3, <2>1, <2>2, <2>3, <3>2, SMTT(60)
      <4> HIDE DEF next, over
      <4>2. ASSUME NEW k \in 1..Len(next) PROVE next[k].round = s.round - Len(next) + k
        <5>1. CASE k = Len(s.chain) + 1
          BY <1>0, <2>1, <4>1, <5>1
        <5>2. CASE k \in 1..Len(s.chain)
          <6>1. next[k] = s.chain[k] /\ s.chain[k].round = s.round - 1 - Len(s.chain) + k
            BY <2>1, <2>2, <4>1, <5>2
          <6>2. Len(next) = Len(s.chain) + 1
            BY <2>1, <4>1
          <6>3. k \in Nat
            BY <5>2
          <6>4. QED
            BY <1>0, <6>1, <6>2, <6>3
        <5>3. k \in 1..(Len(s.chain) + 1)
          BY <2>1, <4>1
        <5>4. QED
          BY <1>1, <5>1, <5>2, <5>3
      <4>3. QED
        BY <1>0, <2>1, <2>3, <3>2, <4>1, <4>2, SMTT(60)
    <3>3. QED
      BY <3>1, <3>2
  <2> HIDE DEF next, over
  <2>5. (s.truncated \/ over) <=> s.round > DetailMax
    BY <1>0, <2>2, <2>3
  <2>6. /\ t \in RequestState /\ t.chain = next /\ t.truncated = (s.truncated \/ over)
        /\ t.round = s.round /\ t.status = s.status /\ t.stop = s.stop
    BY <2>4 DEF RequestState
  <2>7. Holds(t, s.round)
    BY <2>4, <2>5, <2>6 DEF Holds
  <2>8. Archived(s, f) = t
    BY <1>3 DEF Archived, t, next, over, chain, entry
  <2>9. QED
    BY <2>6, <2>7, <2>8
<1>4. QED
  BY <1>2, <1>3

-----------------------------------------------------------------------------
(* Nobody but the requests changes what is published of them.              *)
LEMMA SameRequests ==
    ASSUME RegistryInv, UNCHANGED <<state, place, fault, row>>,
           registered' \subseteq registered,
           \A r \in registered \ registered' : ~Live(state[r])
    PROVE  RegistryInv'
<1>1. Typed'
  BY DEF RegistryInv, Typed
<1>2. ASSUME NEW r \in Request PROVE InPlace(r)' /\ RowIsFinal(r)' /\ Holds(state[r], Rounds(state[r]))'
  BY DEF RegistryInv, InPlace, RowIsFinal, Live, Done, Holds, Rounds
<1>3. QED
  BY <1>1, <1>2 DEF RegistryInv

(* A step of a request that goes on afterwards. *)
LEMMA GoesOn ==
    ASSUME RegistryInv, NEW r \in Request, NEW s \in RequestState, NEW p \in Places,
           state' = [state EXCEPT ![r] = s], place' = [place EXCEPT ![r] = p],
           fault' \in [Request -> BOOLEAN], row' = row,
           registered \subseteq registered', registered' \subseteq Request, r \in registered',
           ~Done(state[r]), Live(s), p \notin {"new", "returned"},
           s.sending <=> p = "waiting", Holds(s, Rounds(s))
    PROVE  RegistryInv'
<1>0. Typed
  BY DEF RegistryInv
<1>1. Typed'
  BY <1>0 DEF Typed
<1>2. /\ state'[r] = s /\ place'[r] = p /\ row'[r] = row[r]
      /\ \A q \in Request \ {r} : state'[q] = state[q] /\ place'[q] = place[q] /\ row'[q] = row[q]
  BY <1>0 DEF Typed
<1>3. Live(s) /\ ~Done(s) /\ s.status # "none"
  BY DEF Live, Done
<1>4. InPlace(r)' /\ RowIsFinal(r)' /\ Holds(state[r], Rounds(state[r]))'
  <2>1. row[r] = Unborn
    BY DEF RegistryInv, RowIsFinal
  <2>2. InPlace(r)'
    BY <1>2, <1>3 DEF InPlace, Live, Done
  <2>3. RowIsFinal(r)'
    BY <1>2, <1>3, <2>1 DEF RowIsFinal, Done, Unborn
  <2>4. Holds(state[r], Rounds(state[r]))'
    BY <1>2 DEF Holds, Rounds, Live
  <2>5. QED
    BY <2>2, <2>3, <2>4
<1>5. ASSUME NEW q \in Request \ {r}
      PROVE  InPlace(q)' /\ RowIsFinal(q)' /\ Holds(state[q], Rounds(state[q]))'
  <2>1. InPlace(q) /\ RowIsFinal(q) /\ Holds(state[q], Rounds(state[q]))
    BY DEF RegistryInv
  <2>2. InPlace(q)'
    BY <1>2, <2>1 DEF InPlace, Live, Done
  <2>3. RowIsFinal(q)' /\ Holds(state[q], Rounds(state[q]))'
    <3>1. state'[q] = state[q] /\ row'[q] = row[q]
      BY <1>2
    <3>2. RowIsFinal(q)'
      BY <2>1, <3>1 DEF RowIsFinal, Done, Unborn
    <3>3. Holds(state[q], Rounds(state[q]))'
      BY <2>1, <3>1 DEF Holds, Rounds, Live
    <3>4. QED
      BY <3>2, <3>3
  <2>4. QED
    BY <2>2, <2>3
<1>6. QED
  BY <1>1, <1>4, <1>5 DEF RegistryInv

(* The rounds of a request are not touched. *)
LEMMA SameRounds ==
    ASSUME NEW s, NEW t, t.round = s.round, t.chain = s.chain, t.truncated = s.truncated,
           Live(s), Live(t), Holds(s, Rounds(s))
    PROVE  Holds(t, Rounds(t))
  BY DEF Holds, Rounds

(* finishLocked. *)
LEMMA Finishes ==
    ASSUME RegistryAssumption, RegistryInv, NEW r \in Request, NEW s \in RequestState, Live(state[r]),
           Done(s), s.stop # "", s.round = state[r].round, s.chain = state[r].chain,
           s.truncated = state[r].truncated, FinishLocked(r, s)
    PROVE  RegistryInv'
<1> DEFINE archived == Archived(s, fault[r])
           final == [archived EXCEPT !.sending = FALSE]
           finished == {q \in registered : q = r \/ Done(state[q])}
<1>0. Typed
  BY DEF RegistryInv
<1>1. Holds(s, IF s.round > 0 THEN s.round - 1 ELSE s.round)
  <2> DEFINE before == IF s.round > 0 THEN s.round - 1 ELSE s.round
  <2>1. before = Rounds(state[r]) /\ Holds(state[r], Rounds(state[r]))
    BY DEF RegistryInv, Rounds
  <2> HIDE DEF before
  <2>2. Holds(s, before)
    BY <2>1 DEF Holds
  <2>3. QED
    BY <2>2 DEF before
<1>2. /\ archived \in RequestState /\ Holds(archived, s.round) /\ archived.round = s.round
      /\ archived.status = s.status /\ archived.stop = s.stop
  BY <1>0, <1>1, ArchivedFacts, ZenonT(60) DEF Typed
<1> HIDE DEF archived
<1>3. /\ final \in RequestState /\ final.round = s.round /\ final.status = s.status
      /\ final.stop = s.stop /\ final.sending = FALSE
      /\ final.chain = archived.chain /\ final.truncated = archived.truncated
  BY <1>2 DEF RequestState
<1>4. /\ state' = [state EXCEPT ![r] = final] /\ row' = [row EXCEPT ![r] = final]
      /\ registered' = registered \ Evicted(finished)
      /\ place' = [place EXCEPT ![r] = "returned"] /\ fault' = fault
  BY DEF FinishLocked, Publish, Saved, archived
<1> HIDE DEF final
<1>5. Done(final) /\ ~Live(final) /\ final.status # "none" /\ Holds(final, Rounds(final))
  <2>1. Done(final) /\ ~Live(final) /\ final.status # "none"
    BY <1>3 DEF Done, Live
  <2>2. Holds(final, s.round) /\ Rounds(final) = s.round
    BY <1>2, <1>3, <2>1 DEF Holds, Rounds
  <2>3. QED
    BY <2>1, <2>2
<1>6. Typed'
  BY <1>0, <1>3, <1>4 DEF Typed, Places
<1>7. /\ state'[r] = final /\ place'[r] = "returned" /\ row'[r] = final
      /\ \A q \in Request \ {r} : state'[q] = state[q] /\ place'[q] = place[q] /\ row'[q] = row[q]
  BY <1>0, <1>4 DEF Typed
<1>8. InPlace(r)' /\ RowIsFinal(r)' /\ Holds(state[r], Rounds(state[r]))'
  <2>1. InPlace(r)'
    BY <1>3, <1>5, <1>7 DEF InPlace, Live, Done
  <2>2. RowIsFinal(r)'
    BY <1>3, <1>5, <1>7 DEF RowIsFinal, Done
  <2>3. Holds(state[r], Rounds(state[r]))'
    BY <1>5, <1>7 DEF Holds, Rounds, Live
  <2>4. QED
    BY <2>1, <2>2, <2>3
<1>9. ASSUME NEW q \in Request \ {r}
      PROVE  InPlace(q)' /\ RowIsFinal(q)' /\ Holds(state[q], Rounds(state[q]))'
  <2>1. InPlace(q) /\ RowIsFinal(q) /\ Holds(state[q], Rounds(state[q]))
    BY DEF RegistryInv
  <2>2. Live(state[q]) /\ q \in registered => q \in registered'
    BY <1>4 DEF Evicted, Live, Done
  <2>3. InPlace(q)'
    BY <1>7, <2>1, <2>2 DEF InPlace, Live, Done
  <2>4. RowIsFinal(q)' /\ Holds(state[q], Rounds(state[q]))'
    BY <1>7, <2>1, ZenonT(60) DEF RowIsFinal, Holds, Rounds, Live, Done, Unborn
  <2>5. QED
    BY <2>3, <2>4
<1>10. QED
  BY <1>6, <1>8, <1>9 DEF RegistryInv

-----------------------------------------------------------------------------
LEMMA ForwardStep ==
    ASSUME RegistryAssumption, RegistryInv, NEW r \in Request, Forward(r)
    PROVE  RegistryInv'
<1> DEFINE s == state[r]
<1>0. /\ Typed /\ InPlace(r) /\ Holds(s, Rounds(s)) /\ RowIsFinal(r)
      /\ s \in RequestState /\ fault[r] \in BOOLEAN
  BY DEF RegistryInv, Typed
<1>1. place[r] \notin {"new", "returned"} => Live(s) /\ ~Done(s) /\ r \in registered
  BY <1>0 DEF InPlace, Live, Done, RequestState
(* A step that publishes t of a request with the same rounds. *)
<1>2. ASSUME NEW t \in RequestState, NEW p \in Places \ {"new", "returned"},
             place[r] \notin {"new", "returned"},
             t.round = s.round, t.chain = s.chain, t.truncated = s.truncated, Live(t),
             t.sending <=> p = "waiting",
             state' = [state EXCEPT ![r] = t], place' = [place EXCEPT ![r] = p],
             fault' \in [Request -> BOOLEAN], UNCHANGED <<registered, row>>
      PROVE  RegistryInv'
  <2>1. Holds(t, Rounds(t))
    BY <1>0, <1>1, <1>2, SameRounds
  <2>2. registered' \subseteq Request /\ registered \subseteq registered' /\ r \in registered'
    BY <1>0, <1>1, <1>2 DEF Typed
  <2>3. row' = row /\ p \in Places /\ p \notin {"new", "returned"} /\ ~Done(state[r])
    BY <1>1, <1>2
  <2>4. QED
    BY <1>2, <2>1, <2>2, <2>3, GoesOn
<1>3. CASE NewRequestState(r)
  <2> DEFINE t == [Unborn EXCEPT !.status = "running"]
  <2>1. /\ t \in RequestState /\ t.status = "running" /\ t.sending = FALSE
        /\ t.round = 0 /\ t.chain = <<>> /\ t.truncated = FALSE
    <3>1. /\ Unborn.sending = FALSE /\ Unborn.round = 0 /\ Unborn.chain = <<>>
          /\ Unborn.truncated = FALSE /\ Unborn \in RequestState
      BY UnbornState DEF Unborn
    <3>2. /\ t \in RequestState /\ t.status = "running" /\ t.sending = Unborn.sending
          /\ t.round = Unborn.round /\ t.chain = Unborn.chain /\ t.truncated = Unborn.truncated
      BY <3>1 DEF RequestState
    <3>3. QED
      BY <3>1, <3>2
  <2>2. /\ state' = [state EXCEPT ![r] = t] /\ place' = [place EXCEPT ![r] = "idle"]
        /\ place[r] = "new" /\ registered' = registered \cup {r} /\ row' = row /\ fault' = fault
    BY <1>3 DEF NewRequestState, Publish
  <2> HIDE DEF t
  <2>3. Live(t) /\ Rounds(t) = 0 /\ Holds(t, 0) /\ ~Done(s)
    <3>1. Live(t) /\ Rounds(t) = 0 /\ ~Done(s)
      BY <1>0, <2>1, <2>2 DEF Live, Done, Rounds, InPlace
    <3>2. DetailMax \in Nat \ {0}
      BY DEF RegistryAssumption
    <3>3. Holds(t, 0)
      BY <2>1, <3>2 DEF Holds
    <3>4. QED
      BY <3>1, <3>3
  <2>4. "idle" \in Places /\ fault' \in [Request -> BOOLEAN] /\ registered' \subseteq Request
    BY <1>0, <2>2 DEF Places, Typed
  <2>5. QED
    BY <2>1, <2>2, <2>3, <2>4, GoesOn
<1>4. CASE StartRound(r)
  <2> DEFINE archived == Archived(s, fault[r])
             next == archived.round + 1
             t == [archived EXCEPT !.round = next, !.sending = TRUE, !.error = FALSE]
  <2>1. /\ state' = [state EXCEPT ![r] = t] /\ place' = [place EXCEPT ![r] = "waiting"]
        /\ place[r] = "idle" /\ registered' = registered /\ row' = row
        /\ fault' = [fault EXCEPT ![r] = FALSE]
    BY <1>4 DEF StartRound, Publish
  <2>2. /\ archived \in RequestState /\ Holds(archived, s.round)
        /\ archived.round = s.round /\ archived.status = s.status
    <3> DEFINE before == IF s.round > 0 THEN s.round - 1 ELSE s.round
    <3>1. before = Rounds(s)
      BY <1>1, <2>1 DEF Rounds
    <3>2. Holds(s, before)
      BY <1>0, <3>1
    <3>3. QED
      BY <1>0, <3>2, ArchivedFacts
  <2> HIDE DEF archived
  <2>3. /\ t \in RequestState /\ t.round = s.round + 1 /\ t.sending = TRUE
        /\ t.status = archived.status /\ t.chain = archived.chain
        /\ t.truncated = archived.truncated
    <3>0. archived.round = s.round /\ s.round \in Nat
      BY <1>0, <2>2 DEF RequestState
    <3>1. next = s.round + 1 /\ next \in Nat
      BY <3>0
    <3> HIDE DEF next
    <3>2. /\ t \in RequestState /\ t.round = next /\ t.sending = TRUE
          /\ t.status = archived.status /\ t.chain = archived.chain
          /\ t.truncated = archived.truncated
      BY <2>2, <3>1 DEF RequestState
    <3>3. QED
      BY <3>1, <3>2
  <2> HIDE DEF t
  <2>4. Live(t) /\ Rounds(t) = s.round /\ Holds(t, s.round)
    <3>1. s.round \in Nat
      BY <1>0 DEF RequestState
    <3>2. Live(t) /\ Rounds(t) = s.round
      BY <1>1, <2>1, <2>2, <2>3, <3>1 DEF Live, Rounds
    <3>3. Holds(t, s.round)
      BY <2>2, <2>3 DEF Holds
    <3>4. QED
      BY <3>2, <3>3
  <2>5. /\ "waiting" \in Places /\ fault' \in [Request -> BOOLEAN] /\ registered \subseteq Request
        /\ ~Done(s) /\ r \in registered
    BY <1>0, <1>1, <2>1 DEF Places, Typed
  <2>6. QED
    BY <2>1, <2>3, <2>4, <2>5, GoesOn
<1>5. ASSUME NEW left \in BOOLEAN, NEW aborted \in BOOLEAN, RoundFailed(r, left, aborted)
      PROVE  RegistryInv'
  <2> DEFINE t == Ended(s, TRUE, aborted)
             p == IF left THEN "left" ELSE "idle"
  <2>1. /\ state' = [state EXCEPT ![r] = t] /\ place' = [place EXCEPT ![r] = p]
        /\ place[r] = "waiting" /\ registered' = registered /\ row' = row
        /\ fault' = [fault EXCEPT ![r] = ~aborted]
    BY <1>5 DEF RoundFailed, Publish
  <2>2. /\ t \in RequestState /\ t.sending = FALSE /\ t.round = s.round /\ t.chain = s.chain
        /\ t.truncated = s.truncated /\ t.status = s.status
    BY <1>0 DEF Ended, RequestState
  <2> HIDE DEF t
  <2>3. /\ p \in Places \ {"new", "returned"} /\ p # "waiting" /\ Live(t)
        /\ fault' \in [Request -> BOOLEAN]
    BY <1>0, <1>1, <2>1, <2>2 DEF Places, Live, Typed
  <2> HIDE DEF p
  <2>4. QED
    BY <1>2, <2>1, <2>2, <2>3
<1>6. CASE RoundAnswered(r)
  <2> DEFINE t == Ended(s, FALSE, FALSE)
  <2>1. /\ state' = [state EXCEPT ![r] = t] /\ place' = [place EXCEPT ![r] = "answered"]
        /\ place[r] = "waiting" /\ registered' = registered /\ row' = row
        /\ fault' = [fault EXCEPT ![r] = FALSE]
    BY <1>6 DEF RoundAnswered, Publish
  <2>2. /\ t \in RequestState /\ t.sending = FALSE /\ t.round = s.round /\ t.chain = s.chain
        /\ t.truncated = s.truncated /\ t.status = s.status
    BY <1>0 DEF Ended, RequestState
  <2> HIDE DEF t
  <2>3. "answered" \in Places \ {"new", "returned"} /\ Live(t) /\ fault' \in [Request -> BOOLEAN]
    BY <1>0, <1>1, <2>1, <2>2 DEF Places, Live, Typed
  <2>4. QED
    BY <1>2, <2>1, <2>2, <2>3
<1>7. CASE RecordReportedModel(r)
  <2> DEFINE t == [s EXCEPT !.reported = TRUE]
  <2>1. /\ state' = [state EXCEPT ![r] = t] /\ registered' = registered /\ row' = row /\ fault' = fault
        /\ place[r] \in {"answered", "writing"}
        /\ place' = [place EXCEPT ![r] = "written"] \/ place' = [place EXCEPT ![r] = "ready"]
    BY <1>7 DEF RecordReportedModel, Publish
  <2>2. /\ t \in RequestState /\ t.sending = s.sending /\ t.round = s.round /\ t.chain = s.chain
        /\ t.truncated = s.truncated /\ t.status = s.status
    BY <1>0 DEF RequestState
  <2> HIDE DEF t
  <2>3. /\ {"written", "ready"} \subseteq Places \ {"new", "returned"} /\ Live(t) /\ ~t.sending
        /\ fault' \in [Request -> BOOLEAN]
    BY <1>0, <1>1, <2>1, <2>2 DEF Places, Live, Typed, InPlace
  <2>4. PICK p \in {"written", "ready"} : place' = [place EXCEPT ![r] = p]
    BY <2>1
  <2>5. QED
    BY <1>2, <2>1, <2>2, <2>3, <2>4
<1>8. CASE MarkCommitted(r)
  <2> DEFINE t == [s EXCEPT !.status = "committed"]
  <2>1. /\ state' = [state EXCEPT ![r] = t] /\ registered' = registered /\ row' = row /\ fault' = fault
        /\ place[r] \in {"answered", "ready"} /\ place' = [place EXCEPT ![r] = "writing"]
    BY <1>8 DEF MarkCommitted, Publish
  <2>2. /\ t \in RequestState /\ t.sending = s.sending /\ t.round = s.round /\ t.chain = s.chain
        /\ t.truncated = s.truncated /\ t.status = "committed"
    BY <1>0 DEF RequestState
  <2> HIDE DEF t
  <2>3. /\ "writing" \in Places \ {"new", "returned"} /\ Live(t) /\ ~t.sending
        /\ fault' \in [Request -> BOOLEAN]
    BY <1>0, <1>1, <2>1, <2>2 DEF Places, Live, Typed, InPlace
  <2>4. QED
    BY <1>2, <2>1, <2>2, <2>3
<1>9. ASSUME NEW t \in RequestState, place[r] \notin {"new", "returned"}, Done(t), t.stop # "",
             t.round = s.round, t.chain = s.chain, t.truncated = s.truncated, FinishLocked(r, t)
      PROVE  RegistryInv'
  BY <1>1, <1>9, Finishes
<1>10. CASE MarkSucceeded(r)
  <2> DEFINE t == [s EXCEPT !.status = "success", !.error = FALSE, !.stop = "completed"]
  <2>1. place[r] \in {"written", "writing"} /\ FinishLocked(r, t)
    BY <1>10 DEF MarkSucceeded, Delivered
  <2>2. /\ t \in RequestState /\ t.status = "success" /\ t.stop = "completed"
        /\ t.round = s.round /\ t.chain = s.chain /\ t.truncated = s.truncated
    BY <1>0 DEF RequestState
  <2> HIDE DEF t
  <2>3. QED
    BY <1>9, <2>1, <2>2 DEF Done
<1>11. CASE MarkFailed(r)
  <2> DEFINE stop == IF r \in Streaming /\ Delivered(r) THEN "unrecorded" ELSE "rule"
             t == [s EXCEPT !.status = "failed", !.error = TRUE, !.stop = stop]
  <2>1. place[r] \in {"idle", "written", "writing"} /\ FinishLocked(r, t)
    BY <1>11 DEF MarkFailed, Delivered
  <2>2. stop \in {"unrecorded", "rule"}
    OBVIOUS
  <2> HIDE DEF stop
  <2>3. /\ t \in RequestState /\ t.status = "failed" /\ t.stop = stop
        /\ t.round = s.round /\ t.chain = s.chain /\ t.truncated = s.truncated
    BY <1>0, <2>2 DEF RequestState
  <2> HIDE DEF t
  <2>4. QED
    BY <1>9, <2>1, <2>2, <2>3 DEF Done
<1>12. CASE MarkCanceled(r)
  <2> DEFINE t == [s EXCEPT !.status = "canceled", !.error = TRUE, !.stop = "client"]
  <2>1. place[r] \in {"idle", "left", "written", "writing"} /\ FinishLocked(r, t)
    BY <1>12 DEF MarkCanceled, Delivered
  <2>2. /\ t \in RequestState /\ t.status = "canceled" /\ t.stop = "client"
        /\ t.round = s.round /\ t.chain = s.chain /\ t.truncated = s.truncated
    BY <1>0 DEF RequestState
  <2> HIDE DEF t
  <2>3. QED
    BY <1>9, <2>1, <2>2 DEF Done
<1>13. QED
  BY <1>3, <1>4, <1>5, <1>6, <1>7, <1>8, <1>10, <1>11, <1>12 DEF Forward

LEMMA RegistryStart ==
    ASSUME RegistryAssumption, RegistryInit
    PROVE  RegistryInv
<1>1. Typed
  BY UnbornState DEF RegistryInit, Typed, Places
<1>2. ASSUME NEW r \in Request PROVE InPlace(r) /\ RowIsFinal(r) /\ Holds(state[r], Rounds(state[r]))
  <2>1. state[r] = Unborn /\ row[r] = Unborn /\ place[r] = "new"
    BY DEF RegistryInit
  <2>2. Unborn.status = "none" /\ Unborn.sending = FALSE
    BY DEF Unborn
  <2>3. InPlace(r) /\ RowIsFinal(r)
    BY <2>1, <2>2 DEF InPlace, RowIsFinal, Live, Done
  <2>4. QED
    BY <2>1, <2>3, UnbornState
<1>3. QED
  BY <1>1, <1>2 DEF RegistryInv

LEMMA RegistryStep ==
    ASSUME RegistryAssumption, RegistryInv, [RegistryNext]_registryVars
    PROVE  RegistryInv'
<1>1. CASE Clear
  BY <1>1, SameRequests DEF Clear
<1>2. CASE UNCHANGED <<state, place, fault, row, registered>>
  BY <1>2, SameRequests
<1>3. QED
  BY <1>1, <1>2, ForwardStep
  DEF RegistryNext, registryVars, Interrupt, CancelRound, OpenRequestStream, CloseRequestStream, Receive

(* The argument's invariant. *)
THEOREM RegistryInvariant == RegistrySpec => []RegistryInv
<1>1. RegistryInit => RegistryInv
  BY RegistryStart, RegistryAssumption
<1>2. RegistryInv /\ [RegistryNext]_registryVars => RegistryInv'
  BY RegistryStep, RegistryAssumption
<1>3. QED
  BY <1>1, <1>2, PTL DEF RegistrySpec

(* archiveRoundLocked and finishLocked (internal/relay/state.go) keep      *)
(* every round of a request on its chain exactly once, the newest ones     *)
(* past the limit, for any limit and any number of rounds.                 *)
THEOREM ChainsAreComplete == RegistrySpec => []EveryAttemptOnChain
<1>1. RegistryInv => EveryAttemptOnChain
  <2> SUFFICES ASSUME RegistryInv, NEW r \in Request
               PROVE  LET s == state[r]
                          ended == IF Live(s) /\ s.round > 0 THEN s.round - 1 ELSE s.round
                          n == Len(s.chain)
                      IN /\ n = IF ended > DetailMax THEN DetailMax ELSE ended
                         /\ \A k \in 1..n : s.chain[k].round = ended - n + k
                         /\ s.truncated <=> ended > DetailMax
    BY DEF EveryAttemptOnChain
  <2>1. Holds(state[r], Rounds(state[r]))
    BY DEF RegistryInv
  <2>2. QED
    BY <2>1 DEF Holds, Rounds
<1>2. QED
  BY <1>1, RegistryInvariant, PTL

(* What the rankings read as in flight (activityByKeyModel) is what waits  *)
(* for an upstream, however requests end and are interrupted and whatever  *)
(* the history drops.                                                      *)
THEOREM BusyCountsAreExact == RegistrySpec => []BusyIsExact
<1>1. RegistryInv => BusyIsExact
  <2> SUFFICES ASSUME RegistryInv, NEW r \in Request
               PROVE  (r \in registered /\ state[r].sending) <=> place[r] = "waiting"
    BY DEF BusyIsExact, RegistryInv, Typed
  <2>1. InPlace(r) /\ state[r] \in RequestState
    BY DEF RegistryInv, Typed
  <2>2. QED
    BY <2>1 DEF InPlace, Live, Done, RequestState
<1>2. QED
  BY <1>1, RegistryInvariant, PTL

(* The row finishLocked saves of a request is what is published of it from *)
(* then on, with a reason; nobody writes to it again.                      *)
THEOREM RowsStayFinal == RegistrySpec => []RowsAreFinal
<1>1. RegistryInv => RowsAreFinal
  BY DEF RegistryInv, RowIsFinal, RowsAreFinal
<1>2. QED
  BY <1>1, RegistryInvariant, PTL
-----------------------------------------------------------------------------
(* The log pages.                                                          *)

PageRecord ==
    [open : BOOLEAN, shown : [Request -> RequestState], queue : Seq(Request \X RequestState)]
PagesTyped ==
    /\ page \in [Page -> PageRecord]
    /\ \A w \in Page : /\ Len(page[w].queue) <= StreamBuffer
                       /\ ~page[w].open => page[w].queue = <<>>

(* What the connection p leads to for r is s. *)
Latest(p, r, s) ==
    \/ p.shown[r] = s /\ \A k \in 1..Len(p.queue) : p.queue[k][1] # r
    \/ \E k \in 1..Len(p.queue) :
          p.queue[k] = <<r, s>> /\ \A j \in 1..Len(p.queue) : p.queue[j][1] = r => j <= k
PagesInv ==
    PagesTyped /\ \A w \in Page, r \in registered : page[w].open => Latest(page[w], r, state[r])

LEMMA OfflineFacts ==
    Offline \in PageRecord /\ ~Offline.open /\ Offline.queue = <<>>
<1>1. Unborn \in RequestState
  BY UnbornState
<1>2. QED
  BY <1>1 DEF Offline, PageRecord

(* An update that is offered is the newest of its request, and says        *)
(* nothing of another one.                                                 *)
LEMMA OfferedFacts ==
    ASSUME RegistryAssumption, NEW p \in PageRecord, Len(p.queue) <= StreamBuffer, p.open,
           NEW r \in Request, NEW s \in RequestState
    PROVE  /\ Offered(p, r, s) \in PageRecord
           /\ Len(Offered(p, r, s).queue) <= StreamBuffer
           /\ ~Offered(p, r, s).open => Offered(p, r, s).queue = <<>>
           /\ Offered(p, r, s).open => Latest(Offered(p, r, s), r, s)
           /\ \A q \in Request \ {r}, t \in RequestState :
                 Offered(p, r, s).open /\ Latest(p, q, t) => Latest(Offered(p, r, s), q, t)
<1> DEFINE n == Len(p.queue)
           queue == Append(p.queue, <<r, s>>)
           o == [p EXCEPT !.queue = queue]
<1>0. StreamBuffer \in Nat \ {0}
  BY DEF RegistryAssumption
<1>1. CASE ~(Len(p.queue) < StreamBuffer)
  <2>1. Offered(p, r, s) = Offline
    BY <1>1 DEF Offered
  <2>2. Len(Offline.queue) <= StreamBuffer
    BY <1>0, OfflineFacts
  <2>3. QED
    BY <2>1, <2>2, OfflineFacts
<1>2. CASE Len(p.queue) < StreamBuffer
  <2>1. /\ n \in Nat /\ queue \in Seq(Request \X RequestState) /\ Len(queue) = n + 1
        /\ queue[n + 1] = <<r, s>> /\ \A k \in 1..n : queue[k] = p.queue[k]
    BY DEF PageRecord
  <2>2. o = Offered(p, r, s)
    BY <1>2 DEF Offered
  <2> HIDE DEF queue
  <2>3. o \in PageRecord /\ o.queue = queue /\ o.open = p.open /\ o.shown = p.shown
    BY <2>1 DEF PageRecord
  <2> HIDE DEF o
  <2>4. Len(o.queue) <= StreamBuffer
    BY <1>0, <1>2, <2>1, <2>3
  <2>5. Latest(o, r, s)
    BY <2>1, <2>3, SMTT(60) DEF Latest
  <2>6. ASSUME NEW q \in Request \ {r}, NEW t \in RequestState, Latest(p, q, t)
        PROVE  Latest(o, q, t)
    <3>1. queue[n + 1][1] # q
      BY <2>1
    <3>2. CASE p.shown[q] = t /\ \A k \in 1..n : p.queue[k][1] # q
      <4>1. ASSUME NEW k \in 1..(n + 1) PROVE queue[k][1] # q
        <5>1. k = n + 1 \/ k \in 1..n
          BY <2>1, SMTT(60)
        <5>2. QED
          BY <2>1, <3>1, <3>2, <5>1
      <4>2. QED
        BY <2>1, <2>3, <3>2, <4>1 DEF Latest
    <3>3. CASE \E k \in 1..n :
                  p.queue[k] = <<q, t>> /\ \A j \in 1..n : p.queue[j][1] = q => j <= k
      <4>1. PICK k \in 1..n :
                  p.queue[k] = <<q, t>> /\ \A j \in 1..n : p.queue[j][1] = q => j <= k
        BY <3>3
      <4>2. /\ k \in 1..(n + 1) /\ queue[k] = <<q, t>>
            /\ \A j \in 1..(n + 1) : queue[j][1] = q => j <= k
        <5>1. k \in 1..(n + 1) /\ queue[k] = <<q, t>>
          BY <2>1, <4>1, SMTT(60)
        <5>2. ASSUME NEW j \in 1..(n + 1), queue[j][1] = q PROVE j <= k
          <6>1. j # n + 1
            BY <3>1, <5>2
          <6>2. j \in 1..n
            BY <2>1, <6>1, SMTT(60)
          <6>3. p.queue[j][1] = q
            BY <2>1, <5>2, <6>2
          <6>4. QED
            BY <4>1, <6>2, <6>3
        <5>3. QED
          BY <5>1, <5>2
      <4>3. QED
        BY <2>1, <2>3, <4>2 DEF Latest
    <3>4. QED
      BY <2>6, <3>2, <3>3 DEF Latest
  <2>7. QED
    BY <2>2, <2>3, <2>4, <2>5, <2>6
<1>3. QED
  BY <1>1, <1>2

(* An update that is sent is shown from then on. *)
LEMMA ReceivedFacts ==
    ASSUME NEW p \in PageRecord, p.queue # <<>>,
           NEW o, o = [p EXCEPT !.shown[Head(p.queue)[1]] = Head(p.queue)[2], !.queue = Tail(@)]
    PROVE  /\ o \in PageRecord /\ o.open = p.open /\ Len(o.queue) = Len(p.queue) - 1
           /\ \A q \in Request, t \in RequestState : Latest(p, q, t) => Latest(o, q, t)
<1> DEFINE r == Head(p.queue)[1]
           s == Head(p.queue)[2]
           n == Len(p.queue)
           queue == Tail(p.queue)
           shown == [p.shown EXCEPT ![r] = s]
<1>1. /\ p.queue \in Seq(Request \X RequestState) /\ n \in Nat /\ n > 0
      /\ p.shown \in [Request -> RequestState]
  BY DEF PageRecord
<1>2. /\ queue \in Seq(Request \X RequestState) /\ Len(queue) = n - 1
      /\ \A k \in 1..(n - 1) : queue[k] = p.queue[k + 1]
      /\ p.queue[1] \in Request \X RequestState
      /\ r = p.queue[1][1] /\ s = p.queue[1][2]
  BY <1>1
<1>3. r \in Request /\ s \in RequestState /\ p.queue[1] = <<r, s>>
  BY <1>2
<1> HIDE DEF r, s, queue
<1>4. /\ shown \in [Request -> RequestState] /\ shown[r] = s
      /\ \A q \in Request \ {r} : shown[q] = p.shown[q]
  BY <1>1, <1>3
<1>5. o = [p EXCEPT !.shown = shown, !.queue = queue]
  BY DEF PageRecord, r, s, queue
<1> HIDE DEF shown
<1>6. o \in PageRecord /\ o.open = p.open /\ o.shown = shown /\ o.queue = queue
  BY <1>2, <1>4, <1>5 DEF PageRecord
<1>7. ASSUME NEW q \in Request, NEW t \in RequestState, Latest(p, q, t)
      PROVE  Latest(o, q, t)
  <2>1. CASE p.shown[q] = t /\ \A k \in 1..n : p.queue[k][1] # q
    <3>1. q # r /\ shown[q] = t
      BY <1>1, <1>2, <1>4, <2>1
    <3>2. ASSUME NEW k \in 1..(n - 1) PROVE queue[k][1] # q
      <4>1. k + 1 \in 1..n /\ queue[k] = p.queue[k + 1]
        BY <1>1, <1>2
      <4>2. QED
        BY <2>1, <4>1
    <3>3. QED
      BY <1>2, <1>6, <3>1, <3>2 DEF Latest
  <2>2. CASE \E k \in 1..n :
                p.queue[k] = <<q, t>> /\ \A j \in 1..n : p.queue[j][1] = q => j <= k
    <3>1. PICK k \in 1..n :
                p.queue[k] = <<q, t>> /\ \A j \in 1..n : p.queue[j][1] = q => j <= k
      BY <2>2
    <3>2. CASE k = 1
      <4>1. q = r /\ t = s
        BY <1>3, <3>1, <3>2
      <4>2. ASSUME NEW j \in 1..(n - 1) PROVE queue[j][1] # q
        <5>1. j + 1 \in 1..n /\ queue[j] = p.queue[j + 1] /\ ~(j + 1 <= k)
          BY <1>1, <1>2, <3>2
        <5>2. QED
          BY <3>1, <5>1
      <4>3. QED
        BY <1>2, <1>4, <1>6, <4>1, <4>2 DEF Latest
    <3>3. CASE k # 1
      <4>1. k - 1 \in 1..(n - 1) /\ queue[k - 1] = <<q, t>>
        BY <1>1, <1>2, <3>1, <3>3, SMTT(60)
      <4>2. ASSUME NEW j \in 1..(n - 1), queue[j][1] = q PROVE j <= k - 1
        <5>1. j + 1 \in 1..n /\ queue[j] = p.queue[j + 1]
          BY <1>1, <1>2
        <5>2. j + 1 <= k
          BY <3>1, <4>2, <5>1
        <5>3. QED
          BY <3>1, <5>1, <5>2
      <4>3. QED
        BY <1>2, <1>6, <4>1, <4>2 DEF Latest
    <3>4. QED
      BY <3>2, <3>3
  <2>3. QED
    BY <1>7, <2>1, <2>2 DEF Latest
<1>8. QED
  BY <1>2, <1>6, <1>7

(* A step that publishes s of r, and registers no other request. *)
LEMMA PagesFollow ==
    ASSUME RegistryAssumption, PagesInv, state \in [Request -> RequestState],
           registered \subseteq Request,
           NEW r \in Request, NEW s \in RequestState, Publish(r, s),
           registered' \subseteq registered \cup {r}
    PROVE  PagesInv'
<1>1. \A w \in Page : page[w] \in PageRecord /\ Len(page[w].queue) <= StreamBuffer
                      /\ (~page[w].open => page[w].queue = <<>>)
  BY DEF PagesInv, PagesTyped
<1>2. /\ \A w \in Page : page'[w] = IF page[w].open THEN Offered(page[w], r, s) ELSE page[w]
      /\ page' = [w \in Page |-> page'[w]]
      /\ state' = [state EXCEPT ![r] = s]
  BY DEF Publish
<1>3. ASSUME NEW w \in Page
      PROVE  /\ page'[w] \in PageRecord /\ Len(page'[w].queue) <= StreamBuffer
             /\ ~page'[w].open => page'[w].queue = <<>>
             /\ \A q \in registered' : page'[w].open => Latest(page'[w], q, state'[q])
  <2>1. CASE ~page[w].open
    BY <1>1, <1>2, <2>1
  <2>2. CASE page[w].open
    <3>1. page'[w] = Offered(page[w], r, s)
      BY <1>2, <2>2
    <3>2. /\ page'[w] \in PageRecord /\ Len(page'[w].queue) <= StreamBuffer
          /\ ~page'[w].open => page'[w].queue = <<>>
          /\ page'[w].open => Latest(page'[w], r, s)
          /\ \A q \in Request \ {r}, t \in RequestState :
                page'[w].open /\ Latest(page[w], q, t) => Latest(page'[w], q, t)
      BY <1>1, <2>2, <3>1, OfferedFacts, SMTT(60)
    <3>3. ASSUME NEW q \in registered', page'[w].open PROVE Latest(page'[w], q, state'[q])
      <4>1. CASE q = r
        BY <1>2, <3>2, <3>3, <4>1
      <4>2. CASE q # r
        <5>1. q \in registered /\ q \in Request \ {r} /\ state'[q] = state[q] /\ state[q] \in RequestState
          BY <1>2, <4>2
        <5>2. Latest(page[w], q, state[q])
          BY <2>2, <5>1 DEF PagesInv
        <5>3. QED
          BY <3>2, <3>3, <5>1, <5>2
      <4>3. QED
        BY <4>1, <4>2
    <3>4. QED
      BY <3>2, <3>3
  <2>3. QED
    BY <2>1, <2>2
<1>4. page' \in [Page -> PageRecord]
  BY <1>2, <1>3
<1>5. QED
  BY <1>3, <1>4 DEF PagesInv, PagesTyped

(* Forward publishes whatever it changes of its request. *)
LEMMA ForwardPublishes ==
    ASSUME RegistryAssumption, RegistryInv, NEW r \in Request, Forward(r)
    PROVE  \E s \in RequestState : Publish(r, s) /\ registered' \subseteq registered \cup {r}
<1>1. \E s : Publish(r, s)
  BY DEF Forward, NewRequestState, StartRound, RoundFailed, RoundAnswered, RecordReportedModel,
         MarkCommitted, MarkSucceeded, MarkFailed, MarkCanceled, FinishLocked
<1>2. PICK s : Publish(r, s)
  BY <1>1
<1>3. state' = [state EXCEPT ![r] = s] /\ state \in [Request -> RequestState]
  BY <1>2 DEF Publish, RegistryInv, Typed
<1>4. state' \in [Request -> RequestState]
  BY ForwardStep DEF RegistryInv, Typed
<1>5. s \in RequestState
  BY <1>3, <1>4
<1>6. registered' \subseteq registered \cup {r}
  BY DEF Forward, NewRequestState, StartRound, RoundFailed, RoundAnswered, RecordReportedModel,
         MarkCommitted, MarkSucceeded, MarkFailed, MarkCanceled, FinishLocked
<1>7. QED
  BY <1>2, <1>5, <1>6

LEMMA PagesStep ==
    ASSUME RegistryAssumption, RegistryInv, PagesInv, [RegistryNext]_registryVars
    PROVE  PagesInv'
<1>0. /\ state \in [Request -> RequestState] /\ registered \subseteq Request
      /\ page \in [Page -> PageRecord]
  BY DEF RegistryInv, Typed, PagesInv, PagesTyped
<1>1. ASSUME NEW r \in Request, Forward(r) PROVE PagesInv'
  BY <1>0, <1>1, ForwardPublishes, PagesFollow
<1>2. CASE /\ UNCHANGED <<state, page>> /\ registered' \subseteq registered
  BY <1>2 DEF PagesInv, PagesTyped
(* One connection changes. *)
<1>3. ASSUME NEW w \in Page, NEW o \in PageRecord, page' = [page EXCEPT ![w] = o],
             Len(o.queue) <= StreamBuffer, ~o.open => o.queue = <<>>,
             \A r \in registered : o.open => Latest(o, r, state[r]),
             UNCHANGED <<state, registered>>
      PROVE  PagesInv'
  <2>1. page' \in [Page -> PageRecord]
    BY <1>0, <1>3
  <2>2. page'[w] = o /\ \A v \in Page \ {w} : page'[v] = page[v]
    BY <1>0, <1>3
  <2>3. QED
    BY <1>3, <2>1, <2>2 DEF PagesInv, PagesTyped
<1>4. ASSUME NEW w \in Page, OpenRequestStream(w) PROVE PagesInv'
  <2> DEFINE shown == [r \in Request |-> IF r \in registered THEN state[r] ELSE Unborn]
             o == [open |-> TRUE, shown |-> shown, queue |-> <<>>]
  <2>1. shown \in [Request -> RequestState] /\ \A r \in registered : shown[r] = state[r]
    BY <1>0, UnbornState
  <2>2. page' = [page EXCEPT ![w] = o] /\ UNCHANGED <<state, registered>>
    BY <1>4 DEF OpenRequestStream
  <2> HIDE DEF shown
  <2>3. o \in PageRecord /\ o.queue = <<>> /\ o.shown = shown
    BY <2>1 DEF PageRecord
  <2> HIDE DEF o
  <2>4. Len(o.queue) = 0 /\ Len(o.queue) <= StreamBuffer
    BY <2>3 DEF RegistryAssumption
  <2>5. \A r \in registered : Latest(o, r, state[r])
    BY <2>1, <2>3, <2>4 DEF Latest
  <2>6. QED
    BY <1>3, <2>2, <2>3, <2>4, <2>5
<1>5. ASSUME NEW w \in Page, CloseRequestStream(w) PROVE PagesInv'
  <2>1. page' = [page EXCEPT ![w] = Offline] /\ UNCHANGED <<state, registered>>
    BY <1>5 DEF CloseRequestStream
  <2>2. Len(Offline.queue) <= StreamBuffer
    BY OfflineFacts DEF RegistryAssumption
  <2>3. QED
    BY <1>3, <2>1, <2>2, OfflineFacts
<1>6. ASSUME NEW w \in Page, Receive(w) PROVE PagesInv'
  <2> DEFINE p == page[w]
             o == [p EXCEPT !.shown[Head(p.queue)[1]] = Head(p.queue)[2], !.queue = Tail(@)]
  <2>1. /\ p \in PageRecord /\ p.queue # <<>> /\ Len(p.queue) <= StreamBuffer /\ p.open
        /\ \A r \in registered : Latest(p, r, state[r])
    BY <1>0, <1>6 DEF Receive, PagesInv, PagesTyped
  <2>2. page' = [page EXCEPT ![w] = o] /\ UNCHANGED <<state, registered>>
    BY <1>6 DEF Receive
  <2>3. /\ o \in PageRecord /\ o.open = p.open /\ Len(o.queue) = Len(p.queue) - 1
        /\ \A q \in Request, t \in RequestState : Latest(p, q, t) => Latest(o, q, t)
    BY <2>1, ReceivedFacts
  <2> HIDE DEF o
  <2>4. Len(o.queue) <= StreamBuffer
    <3>1. StreamBuffer \in Nat /\ Len(p.queue) \in Nat
      BY <2>1 DEF RegistryAssumption, PageRecord
    <3>2. QED
      BY <2>1, <2>3, <3>1
  <2>5. \A r \in registered : Latest(o, r, state[r])
    BY <1>0, <2>1, <2>3
  <2>6. QED
    BY <1>3, <2>1, <2>2, <2>3, <2>4, <2>5
<1>7. QED
  BY <1>1, <1>2, <1>4, <1>5, <1>6
  DEF RegistryNext, registryVars, Interrupt, CancelRound, Clear

LEMMA PagesInvariant == RegistrySpec => []PagesInv
<1>1. RegistryInit => PagesInv
  <2> SUFFICES ASSUME RegistryInit PROVE PagesInv
    OBVIOUS
  <2>1. page = [w \in Page |-> Offline] /\ registered = {}
    BY DEF RegistryInit
  <2>2. Len(Offline.queue) <= StreamBuffer
    BY OfflineFacts, RegistryAssumption DEF RegistryAssumption
  <2>3. QED
    BY <2>1, <2>2, OfflineFacts DEF PagesInv, PagesTyped
<1>2. RegistryInv /\ PagesInv /\ [RegistryNext]_registryVars => PagesInv'
  BY PagesStep, RegistryAssumption
<1>3. QED
  BY <1>1, <1>2, RegistryInvariant, PTL DEF RegistrySpec

(* A log page that is connected shows of every registered request what is  *)
(* published of it, or has that waiting: whatever the request does, however *)
(* slowly the page reads and whatever the history drops (publishRequestLocked *)
(* and streamOverview, internal/relay/state.go).                           *)
THEOREM PagesAreComplete == RegistrySpec => []PagesMissNothing
<1>1. PagesInv => PagesMissNothing
  <2> SUFFICES ASSUME PagesInv, NEW w \in Page, NEW r \in registered, page[w].open
               PROVE  IF Updates(w, r) = {} THEN page[w].shown[r] = state[r]
                      ELSE \E k \in Updates(w, r) :
                              page[w].queue[k][2] = state[r] /\ \A j \in Updates(w, r) : j <= k
    BY DEF PagesMissNothing
  <2>1. page[w].queue \in Seq(Request \X RequestState) /\ Latest(page[w], r, state[r])
    BY DEF PagesInv, PagesTyped, PageRecord
  <2>2. DOMAIN page[w].queue = 1..Len(page[w].queue)
    BY <2>1
  <2> DEFINE n == Len(page[w].queue)
  <2>3. CASE page[w].shown[r] = state[r] /\ \A k \in 1..n : page[w].queue[k][1] # r
    <3>1. Updates(w, r) = {}
      BY <2>2, <2>3 DEF Updates
    <3>2. QED
      BY <2>3, <3>1
  <2>4. CASE \E k \in 1..n : page[w].queue[k] = <<r, state[r]>>
                            /\ \A j \in 1..n : page[w].queue[j][1] = r => j <= k
    <3>1. PICK k \in 1..n : page[w].queue[k] = <<r, state[r]>>
                            /\ \A j \in 1..n : page[w].queue[j][1] = r => j <= k
      BY <2>4
    <3>2. k \in Updates(w, r) /\ page[w].queue[k][2] = state[r]
      BY <2>2, <3>1 DEF Updates
    <3>3. \A j \in Updates(w, r) : j <= k
      BY <2>2, <3>1 DEF Updates
    <3>4. QED
      BY <3>2, <3>3
  <2>5. QED
    BY <2>1, <2>3, <2>4 DEF Latest
<1>2. QED
  BY <1>1, PagesInvariant, PTL

-----------------------------------------------------------------------------
(* The bounded history.                                                    *)

LEMMA Least ==
    ASSUME NEW T, T \subseteq Nat, T # {}
    PROVE  \E m \in T : \A n \in T : m <= n
<1> DEFINE R == OpToRel(<, Nat)
<1>1. IsWellFoundedOn(R, Nat)
  BY NatLessThanWellFounded
<1>2. \A m, n \in Nat : n < m => <<n, m>> \in R
  BY DEF OpToRel
<1> HIDE DEF R
<1>3. \E m \in T : \A n \in T : ~ (<<n, m>> \in R)
  BY <1>1, WFMin
<1>4. PICK m \in T : \A n \in T : ~ (<<n, m>> \in R)
  BY <1>3
<1>5. ASSUME NEW n \in T PROVE m <= n
  <2>1. m \in Nat /\ n \in Nat /\ ~ (<<n, m>> \in R)
    BY <1>4
  <2>2. ~(n < m)
    BY <1>2, <2>1
  <2>3. QED
    BY <2>1, <2>2
<1>6. QED
  BY <1>5

(* One too many, and the oldest one goes. *)
LEMMA EvictedLeaves ==
    ASSUME RegistryAssumption, NEW F, F \subseteq Request, Cardinality(F) <= MaxFinished + 1
    PROVE  Cardinality(F \ Evicted(F)) <= MaxFinished
<1>1. IsFiniteSet(F) /\ Cardinality(F) \in Nat /\ MaxFinished \in Nat \ {0} /\ F \subseteq Nat
  BY FS_Subset, FS_CardinalityType DEF RegistryAssumption
<1>2. CASE Cardinality(F) <= MaxFinished
  <2>1. Evicted(F) = {}
    BY <1>1, <1>2 DEF Evicted
  <2>2. F \ Evicted(F) = F
    BY <2>1
  <2>3. QED
    BY <1>2, <2>2
<1>3. CASE Cardinality(F) > MaxFinished
  <2>1. F # {}
    BY <1>1, <1>3, FS_EmptySet
  <2>2. PICK m \in F : \A q \in F : m <= q
    BY <1>1, <2>1, Least
  <2>3. Evicted(F) = {m}
    <3>1. m \in Evicted(F)
      BY <1>3, <2>2 DEF Evicted
    <3>2. ASSUME NEW q \in Evicted(F) PROVE q = m
      <4>1. q \in F /\ q <= m /\ m <= q /\ q \in Nat /\ m \in Nat
        BY <1>1, <2>2 DEF Evicted
      <4>2. QED
        BY <4>1
    <3>3. QED
      BY <3>1, <3>2
  <2>4. Cardinality(F \ {m}) = Cardinality(F) - 1
    BY <1>1, FS_RemoveElement
  <2>5. QED
    BY <1>1, <2>3, <2>4
<1>4. QED
  BY <1>1, <1>2, <1>3

Finished == {r \in registered : Done(state[r])}
HistoryInv == Cardinality(Finished) <= MaxFinished

(* The steps that end no request leave the history as it is. *)
LEMMA NotFinished ==
    ASSUME RegistryInv, RegistryInv', NEW r \in Request, place'[r] # "returned",
           \A q \in Request \ {r} : state'[q] = state[q], place[r] # "returned",
           registered \subseteq registered', registered' \subseteq registered \cup {r}
    PROVE  Finished' = Finished
<1>1. InPlace(r) /\ InPlace(r)' /\ registered \subseteq Request
  BY DEF RegistryInv, Typed
<1>2. ~Done(state[r]) /\ ~Done(state'[r])
  BY <1>1 DEF InPlace
<1>3. \A q \in Request \ {r} : Done(state'[q]) <=> Done(state[q])
  OBVIOUS
<1>4. QED
  BY <1>1, <1>2, <1>3 DEF Finished

LEMMA HistoryStep ==
    ASSUME RegistryAssumption, RegistryInv, HistoryInv, [RegistryNext]_registryVars
    PROVE  HistoryInv'
<1>0. /\ RegistryInv' /\ registered \subseteq Request /\ Finished \subseteq Request
      /\ place \in [Request -> Places] /\ state \in [Request -> RequestState]
      /\ IsFiniteSet(Finished) /\ Cardinality(Finished) \in Nat /\ MaxFinished \in Nat \ {0}
  <2>1. registered \subseteq Request /\ Finished \subseteq Request /\ IsFiniteSet(Request)
    BY DEF RegistryInv, Typed, Finished, RegistryAssumption
  <2>2. QED
    BY <2>1, RegistryStep, FS_Subset, FS_CardinalityType DEF RegistryAssumption, RegistryInv, Typed
<1>1. ASSUME NEW r \in Request, NEW t, FinishLocked(r, t), place[r] \notin {"new", "returned"}
      PROVE  HistoryInv'
  <2> DEFINE F == {q \in registered : q = r \/ Done(state[q])}
             final == [Archived(t, fault[r]) EXCEPT !.sending = FALSE]
  <2>1. /\ state' = [state EXCEPT ![r] = final] /\ registered' = registered \ Evicted(F)
        /\ F \subseteq Request
    BY <1>0, <1>1 DEF FinishLocked, Publish
  <2> HIDE DEF final
  <2>2. F \subseteq Finished \cup {r} /\ Cardinality(Finished \cup {r}) <= Cardinality(Finished) + 1
        /\ IsFiniteSet(Finished \cup {r})
    <3>1. F \subseteq Finished \cup {r}
      BY DEF Finished
    <3>2. /\ IsFiniteSet(Finished \cup {r})
          /\ Cardinality(Finished \cup {r}) =
                IF r \in Finished THEN Cardinality(Finished) ELSE Cardinality(Finished) + 1
      BY <1>0, FS_AddElement
    <3> HIDE DEF F
    <3>3. QED
      BY <1>0, <3>1, <3>2
  <2>3. Cardinality(F) <= MaxFinished + 1
    <3>1. Cardinality(F) <= Cardinality(Finished \cup {r}) /\ IsFiniteSet(F)
      BY <2>2, FS_Subset
    <3>2. Cardinality(F) \in Nat /\ Cardinality(Finished \cup {r}) \in Nat
      BY <2>2, <3>1, FS_CardinalityType
    <3>3. Cardinality(Finished) <= MaxFinished
      BY DEF HistoryInv
    <3> HIDE DEF F
    <3>4. QED
      BY <1>0, <2>2, <3>1, <3>2, <3>3
  <2>4. Finished' \subseteq F \ Evicted(F)
    BY <1>0, <2>1 DEF Finished
  <2>5. Cardinality(F \ Evicted(F)) <= MaxFinished /\ IsFiniteSet(F \ Evicted(F))
    <3>1. IsFiniteSet(F)
      BY <2>2, FS_Subset
    <3> HIDE DEF F
    <3>2. QED
      BY <2>1, <2>3, <3>1, EvictedLeaves, FS_Subset
  <2> HIDE DEF F
  <2>6. /\ Cardinality(Finished') <= Cardinality(F \ Evicted(F))
        /\ Cardinality(Finished') \in Nat /\ Cardinality(F \ Evicted(F)) \in Nat
    BY <2>4, <2>5, FS_Subset, FS_CardinalityType
  <2>7. QED
    BY <1>0, <2>5, <2>6 DEF HistoryInv
<1>2. ASSUME NEW r \in Request, Forward(r) PROVE HistoryInv'
  <2>1. CASE MarkSucceeded(r) \/ MarkFailed(r) \/ MarkCanceled(r)
    <3>1. place[r] \notin {"new", "returned"}
      BY <2>1 DEF MarkSucceeded, MarkFailed, MarkCanceled, Delivered
    <3>2. \E t : FinishLocked(r, t)
      BY <2>1 DEF MarkSucceeded, MarkFailed, MarkCanceled
    <3>3. QED
      BY <1>1, <3>1, <3>2
  <2>2. CASE \/ NewRequestState(r) \/ StartRound(r)
             \/ \E left, aborted \in BOOLEAN : RoundFailed(r, left, aborted)
             \/ RoundAnswered(r) \/ RecordReportedModel(r) \/ MarkCommitted(r)
    <3>1. place[r] # "returned" /\ place'[r] # "returned"
      BY <1>0, <2>2 DEF NewRequestState, StartRound, RoundFailed, RoundAnswered, RecordReportedModel,
         MarkCommitted
    <3>2. /\ registered \subseteq registered' /\ registered' \subseteq registered \cup {r}
      BY <2>2 DEF NewRequestState, StartRound, RoundFailed, RoundAnswered, RecordReportedModel,
         MarkCommitted
    <3>3. \A q \in Request \ {r} : state'[q] = state[q]
      BY <1>0, <1>2, ForwardPublishes DEF Publish
    <3>4. Finished' = Finished
      BY <1>0, <3>1, <3>2, <3>3, NotFinished
    <3>5. QED
      BY <3>4 DEF HistoryInv
  <2>3. QED
    BY <1>2, <2>1, <2>2 DEF Forward
<1>3. CASE UNCHANGED <<state, registered>>
  <2>1. Finished' = Finished
    BY <1>3 DEF Finished
  <2>2. QED
    BY <2>1 DEF HistoryInv
<1>4. CASE Clear
  <2>1. Finished' = {}
    BY <1>4 DEF Clear, Finished, Live, Done
  <2>2. QED
    BY <1>0, <2>1, FS_EmptySet DEF HistoryInv
<1>5. QED
  BY <1>2, <1>3, <1>4
  DEF RegistryNext, registryVars, Interrupt, CancelRound, OpenRequestStream, CloseRequestStream, Receive

(* finishLocked keeps the history within maxFinished, for any limit, and   *)
(* neither it nor Clear drops a request that still runs.                   *)
THEOREM HistoryIsBounded == RegistrySpec => []LiveIsListed
<1>1. RegistryInit => HistoryInv
  <2> SUFFICES ASSUME RegistryInit PROVE HistoryInv
    OBVIOUS
  <2>1. Finished = {}
    BY DEF RegistryInit, Finished
  <2>2. QED
    BY <2>1, FS_EmptySet, RegistryAssumption DEF HistoryInv, RegistryAssumption
<1>2. RegistryInv /\ HistoryInv /\ [RegistryNext]_registryVars => HistoryInv'
  BY HistoryStep, RegistryAssumption
<1>3. RegistryInv /\ HistoryInv => LiveIsListed
  BY DEF RegistryInv, HistoryInv, InPlace, LiveIsListed, Finished
<1>4. QED
  BY <1>1, <1>2, <1>3, RegistryInvariant, PTL DEF RegistrySpec

-----------------------------------------------------------------------------
(* Types.                                                                  *)

RestTyped ==
    /\ cancel \in [Request -> BOOLEAN]
    /\ calling \in [Admin -> Request \X Nat \cup {NoCall}]
    /\ killed \subseteq Request

LEMMA RestStep ==
    ASSUME RegistryInv, RestTyped, [RegistryNext]_registryVars
    PROVE  RestTyped'
<1>0. state \in [Request -> RequestState]
  BY DEF RegistryInv, Typed
<1>1. ASSUME NEW r \in Request, Forward(r) PROVE RestTyped'
  BY <1>1 DEF Forward, NewRequestState, StartRound, RoundFailed, RoundAnswered, RecordReportedModel,
     MarkCommitted, MarkSucceeded, MarkFailed, MarkCanceled, FinishLocked, RestTyped
<1>2. ASSUME NEW a \in Admin, NEW r \in Request, Interrupt(a, r) PROVE RestTyped'
  <2>1. Round(r) \in Request \X Nat
    BY <1>0 DEF Round, RequestState
  <2>2. QED
    BY <1>2, <2>1 DEF Interrupt, RestTyped
<1>3. ASSUME NEW a \in Admin, CancelRound(a) PROVE RestTyped'
  BY <1>3 DEF CancelRound, RestTyped
<1>4. CASE UNCHANGED <<cancel, calling, killed>>
  BY <1>4 DEF RestTyped
<1>5. QED
  BY <1>1, <1>2, <1>3, <1>4
  DEF RegistryNext, registryVars, Clear, OpenRequestStream, CloseRequestStream, Receive

(* Whatever requests, pages and administrators do, every part of the       *)
(* registry keeps its shape, and no chain and no page's buffer outgrows    *)
(* its limit.                                                              *)
THEOREM RegistryTypes == RegistrySpec => []RegistryTypeOK
<1>1. RegistryInit => RestTyped
  BY DEF RegistryInit, RestTyped
<1>2. RegistryInv /\ RestTyped /\ [RegistryNext]_registryVars => RestTyped'
  BY RestStep
<1>3. RegistryInv /\ PagesInv /\ RestTyped => RegistryTypeOK
  <2> SUFFICES ASSUME RegistryInv, PagesInv, RestTyped PROVE RegistryTypeOK
    OBVIOUS
  <2>1. \A r \in Request : Len(state[r].chain) <= DetailMax
    <3> SUFFICES ASSUME NEW r \in Request PROVE Len(state[r].chain) <= DetailMax
      OBVIOUS
    <3>1. DetailMax \in Nat
      BY RegistryAssumption DEF RegistryAssumption
    <3>2. /\ Holds(state[r], Rounds(state[r])) /\ state[r].round \in Nat
      BY DEF RegistryInv, Typed, RequestState
    <3>3. Rounds(state[r]) \in Nat
      BY <3>2 DEF Rounds
    <3>4. QED
      BY <3>1, <3>2, <3>3 DEF Holds
  <2>2. \A w \in Page : /\ page[w].open \in BOOLEAN
                        /\ page[w].shown \in [Request -> RequestState]
                        /\ Len(page[w].queue) <= StreamBuffer
    BY DEF PagesInv, PagesTyped, PageRecord
  <2>3. QED
    BY <2>1, <2>2 DEF RegistryTypeOK, RegistryInv, Typed, RestTyped, Places
<1>4. QED
  BY <1>1, <1>2, <1>3, RegistryInvariant, PagesInvariant, PTL DEF RegistrySpec

-----------------------------------------------------------------------------
(* The race of a round.                                                    *)

CollectorPlaces == {"collecting", "draining", "returned"}
Outcomes == {"none", "ok", "failed", "timeout", "canceled"}
Errors == {"none", "failed", "timeout", "canceled", "all failed"}
CollectorRecord == [at : CollectorPlaces, received : Nat, answer : Member \cup {None}, error : Errors]
PlanRecord == [primary : Member, rivals : SUBSET Member, start : {"at once", "delayed", "never"}]

(* The calls the collector counts on, and those it has the outcome of. *)
Counted == IF plan.start = "never" THEN {plan.primary} ELSE Racing
Waiting == {results[i] : i \in DOMAIN results}
Collected == {m \in Member : call[m] = "ended"} \ Waiting

Shape ==
    /\ plan \in PlanRecord /\ plan.primary \notin plan.rivals
    /\ call \in [Member -> {"idle", "running", "back", "ended"}]
    /\ outcome \in [Member -> Outcomes]
    /\ results \in Seq(Member)
    /\ delay \in {"armed", "starting", "over"}
    /\ collector \in CollectorRecord
    /\ round \in BOOLEAN /\ race \in BOOLEAN

(* A call brings its outcome once, and only calls that are counted run. *)
Calls ==
    /\ \A m \in Member : call[m] \in {"idle", "running"} <=> outcome[m] = "none"
    /\ \A m \in Member : call[m] # "idle" => m \in Counted
    /\ \A m \in Waiting : call[m] = "ended"
    /\ \A i, j \in DOMAIN results : results[i] = results[j] => i = j
    /\ delay # "over" => plan.start = "delayed" /\ \A m \in plan.rivals : call[m] = "idle"

(* Nothing is canceled while the race is on, and no answer ends without    *)
(* ending the race.                                                        *)
Contexts ==
    /\ \A m \in Member : outcome[m] = "canceled" => ~race
    /\ collector.at # "collecting" => ~race
    /\ collector.at = "collecting" /\ round => race

Count ==
    collector.at = "collecting" =>
        /\ collector.received = Cardinality(Collected)
        /\ \A m \in Collected : outcome[m] # "ok"
        /\ collector.error = IF plan.primary \in Collected THEN outcome[plan.primary] ELSE "none"

Verdict ==
    /\ collector.at = "draining" => collector.answer \in Member
    /\ collector.at = "returned" /\ collector.answer = None /\ round =>
           /\ collector.error = outcome[plan.primary]
           /\ \A m \in Counted : call[m] = "ended" /\ outcome[m] \in {"failed", "timeout"}

RaceInv == Shape /\ Calls /\ Contexts /\ Count /\ Verdict

-----------------------------------------------------------------------------
LEMMA CountedFacts ==
    ASSUME HedgeAssumption, Shape
    PROVE  /\ Counted \in SUBSET Member /\ IsFiniteSet(Counted) /\ plan.primary \in Counted
           /\ Started = Cardinality(Counted)
<1>1. Counted \in SUBSET Member /\ plan.primary \in Counted
  BY DEF Shape, PlanRecord, Counted, Racing
<1>2. IsFiniteSet(Counted)
  BY <1>1, FS_Subset DEF HedgeAssumption
<1>3. Started = Cardinality(Counted)
  <2>1. Cardinality({plan.primary}) = 1
    BY FS_Singleton
  <2>2. QED
    BY <2>1 DEF Started, Counted
<1>4. QED
  BY <1>1, <1>2, <1>3

LEMMA CollectedFacts ==
    ASSUME HedgeAssumption, Shape, Calls
    PROVE  /\ Collected \in SUBSET Counted /\ IsFiniteSet(Collected)
           /\ Cardinality(Collected) \in Nat
<1>1. Collected \in SUBSET Counted
  BY DEF Calls, Collected
<1>2. QED
  BY <1>1, CountedFacts, FS_Subset, FS_CardinalityType

LEMMA RaceInit ==
    ASSUME HedgeAssumption, HedgeInit
    PROVE  RaceInv
<1>1. PICK primary \in Member, ranking \in Rankings, usable \in SUBSET Member, load \in Loads :
          plan = [primary |-> primary, rivals |-> Rivals(config, primary, ranking, usable),
                  start |-> Start(config, load)]
  BY DEF HedgeInit
<1>2. Rivals(config, primary, ranking, usable) \subseteq Member \ {primary}
  BY DEF Rivals
<1>3. Start(config, load) \in {"at once", "delayed", "never"}
  BY DEF Start
<1>4. Shape
  <2>1. plan \in PlanRecord /\ plan.primary \notin plan.rivals
    BY <1>1, <1>2, <1>3 DEF PlanRecord
  <2>2. collector \in CollectorRecord
    BY DEF HedgeInit, CollectorRecord, CollectorPlaces, Errors
  <2>3. call \in [Member -> {"idle", "running", "back", "ended"}]
    BY DEF HedgeInit
  <2>4. outcome \in [Member -> Outcomes]
    BY DEF HedgeInit, Outcomes
  <2>5. /\ results = <<>> /\ delay \in {"armed", "starting", "over"}
        /\ round \in BOOLEAN /\ race \in BOOLEAN
    BY DEF HedgeInit
  <2>6. QED
    BY <2>1, <2>2, <2>3, <2>4, <2>5 DEF Shape
<1>5. Waiting = {} /\ Collected = {}
  <2>1. results = <<>>
    BY DEF HedgeInit
  <2>2. \A m \in Member : call[m] # "ended"
    BY DEF HedgeInit
  <2>3. QED
    BY <2>1, <2>2 DEF Waiting, Collected
<1>6. Calls
  <2>1. \A m \in Member : call[m] \in {"idle", "running"} /\ outcome[m] = "none"
    BY DEF HedgeInit
  <2>2. \A m \in Member : call[m] # "idle" => m \in Counted
    BY DEF HedgeInit, Counted, Racing
  <2>3. delay # "over" => plan.start = "delayed" /\ \A m \in plan.rivals : call[m] = "idle"
    BY <1>4, ZenonT(60) DEF HedgeInit, Shape, PlanRecord
  <2>4. results = <<>>
    BY DEF HedgeInit
  <2>5. QED
    BY <1>5, <2>1, <2>2, <2>3, <2>4 DEF Calls
<1>7. Contexts /\ Verdict
  BY DEF HedgeInit, Contexts, Verdict
<1>8. Count
  BY <1>5, FS_EmptySet DEF HedgeInit, Count
<1>9. QED
  BY <1>4, <1>6, <1>7, <1>8 DEF RaceInv

-----------------------------------------------------------------------------
(* The calls.                                                              *)

(* A step of a call that is not counted yet. *)
LEMMA CallStep ==
    ASSUME HedgeAssumption, RaceInv, NEW m \in Member, Call(m)
    PROVE  RaceInv'
<1>0. Shape /\ Calls /\ Contexts /\ Count /\ Verdict
  BY DEF RaceInv
<1>1. ASSUME call[m] \in {"running", "back"}, NEW kind \in Outcomes \ {"none"},
             outcome' = [outcome EXCEPT ![m] = kind], call' = [call EXCEPT ![m] = "back"],
             kind = "canceled" => ~race,
             UNCHANGED <<config, plan, streaming, results, delay, collector, round, race, stream>>
      PROVE  RaceInv'
  <2>1. Shape'
    BY <1>0, <1>1 DEF Shape
  <2>2. Waiting' = Waiting /\ Counted' = Counted /\ m \notin Waiting /\ m \in Counted
    BY <1>0, <1>1 DEF Waiting, Counted, Racing, Calls
  <2>3. Calls'
    <3>1. m \notin plan.rivals \/ delay = "over"
      BY <1>0, <1>1 DEF Calls
    <3>2. \A k \in Member \ {m} : call'[k] = call[k] /\ outcome'[k] = outcome[k]
      BY <1>0, <1>1 DEF Shape
    <3>3. call'[m] = "back" /\ outcome'[m] = kind
      BY <1>0, <1>1 DEF Shape
    <3>4. plan.rivals \subseteq Member /\ UNCHANGED <<plan, results, delay>>
      BY <1>0, <1>1 DEF Shape, PlanRecord
    <3>5. \A k \in Waiting : k \in Member
      BY <1>0 DEF Waiting, Shape
    <3>6. QED
      BY <1>0, <2>2, <3>1, <3>2, <3>3, <3>4, <3>5 DEF Calls
  <2>4. Collected' = Collected /\ m \notin Collected
    BY <1>0, <1>1, <2>2 DEF Collected, Shape
  <2>5. Contexts' /\ Count'
    BY <1>0, <1>1, <2>4 DEF Contexts, Count, Shape, Collected
  <2>6. Verdict'
    BY <1>0, <1>1, <2>2, CountedFacts DEF Verdict, Shape
  <2>7. QED
    BY <2>1, <2>3, <2>5, <2>6 DEF RaceInv
<1>2. CASE Respond(m)
  BY <1>1, <1>2 DEF Respond, Outcomes
<1>3. CASE Abort(m)
  <2> DEFINE kind == IF race THEN "timeout" ELSE "canceled"
  <2>1. /\ call[m] = "running" /\ outcome' = [outcome EXCEPT ![m] = kind]
        /\ call' = [call EXCEPT ![m] = "back"]
        /\ UNCHANGED <<config, plan, streaming, results, delay, collector, round, race, stream>>
    BY <1>3 DEF Abort, CtxAlive
  <2>2. kind \in Outcomes \ {"none"} /\ (kind = "canceled" => ~race)
    BY DEF Outcomes
  <2> HIDE DEF kind
  <2>3. QED
    BY <1>1, <2>1, <2>2
<1>4. CASE LateTimeout(m)
  <2>1. call' = [call EXCEPT ![m] = "back"]
    BY <1>0, <1>4 DEF LateTimeout, Shape
  <2>2. QED
    BY <1>1, <1>4, <2>1 DEF LateTimeout, Outcomes
<1>5. CASE Deliver(m)
  <2>1. /\ call[m] = "back" /\ results' = Append(results, m) /\ call' = [call EXCEPT ![m] = "ended"]
        /\ UNCHANGED <<config, plan, streaming, outcome, delay, collector, round, race, stream>>
    BY <1>5 DEF Deliver
  <2>2. Shape'
    BY <1>0, <2>1 DEF Shape
  <2>3. /\ m \notin Waiting /\ Waiting' = Waiting \cup {m}
        /\ \A i, j \in DOMAIN results' : results'[i] = results'[j] => i = j
    <3>1. m \notin Waiting
      BY <1>0, <2>1 DEF Calls
    <3>2. /\ DOMAIN results = 1..Len(results) /\ DOMAIN results' = 1..(Len(results) + 1)
          /\ Len(results) \in Nat
          /\ \A i \in DOMAIN results : results'[i] = results[i]
          /\ results'[Len(results) + 1] = m
      BY <1>0, <2>1 DEF Shape
    <3>3. Waiting' = Waiting \cup {m}
      BY <3>2 DEF Waiting
    <3>4. \A i, j \in DOMAIN results' : results'[i] = results'[j] => i = j
      BY <1>0, <3>1, <3>2 DEF Waiting, Calls
    <3>5. QED
      BY <3>1, <3>3, <3>4
  <2>4. /\ \A k \in Member \ {m} : call'[k] = call[k]
        /\ call'[m] = "ended" /\ Counted' = Counted
    BY <1>0, <2>1 DEF Shape, Counted, Racing
  <2>5. Collected' = Collected
    BY <2>1, <2>3, <2>4 DEF Collected
  <2>6. Calls'
    <3>1. plan.rivals \subseteq Member /\ UNCHANGED <<plan, outcome, delay>>
      BY <1>0, <2>1 DEF Shape, PlanRecord
    <3>2. \A k \in Waiting : k \in Member
      BY <1>0 DEF Waiting, Shape
    <3>3. QED
      BY <1>0, <2>1, <2>3, <2>4, <3>1, <3>2 DEF Calls
  <2>7. Contexts' /\ Count'
    BY <1>0, <2>1, <2>5 DEF Contexts, Count
  <2>8. Verdict'
    BY <1>0, <2>1, <2>4, CountedFacts DEF Verdict
  <2>9. QED
    BY <2>2, <2>6, <2>7, <2>8 DEF RaceInv
<1>6. QED
  BY <1>2, <1>3, <1>4, <1>5 DEF Call

LEMMA DelayStep ==
    ASSUME HedgeAssumption, RaceInv, Delay
    PROVE  RaceInv'
<1>0. Shape /\ Calls /\ Contexts /\ Count /\ Verdict
  BY DEF RaceInv
<1>1. CASE DelayOver
  <2>1. /\ delay' \in {"starting", "over"} /\ delay # "over"
        /\ UNCHANGED <<config, plan, streaming, call, outcome, results, collector, round, race, stream>>
    BY <1>1 DEF DelayOver
  <2>2. Waiting' = Waiting /\ Counted' = Counted /\ Collected' = Collected
    BY <2>1 DEF Waiting, Counted, Racing, Collected
  <2>3. QED
    BY <1>0, <2>1, <2>2 DEF RaceInv, Shape, Calls, Contexts, Count, Verdict
<1>2. CASE StartRivals
  <2>1. /\ delay = "starting" /\ delay' = "over" /\ plan.start = "delayed"
        /\ \A m \in plan.rivals : call[m] = "idle"
        /\ call' = [m \in Member |-> IF m \in plan.rivals THEN "running" ELSE call[m]]
        /\ UNCHANGED <<config, plan, streaming, outcome, results, collector, round, race, stream>>
    BY <1>0, <1>2 DEF StartRivals, Calls
  <2>2. Shape' /\ plan.rivals \subseteq Counted /\ Counted' = Counted /\ Waiting' = Waiting
    BY <1>0, <2>1 DEF Shape, Counted, Racing, Waiting
  <2>3. Collected' = Collected
    BY <1>0, <2>1, <2>2 DEF Collected, Shape
  <2>4. Calls'
    <3>1. \A k \in Waiting : k \in Member
      BY <1>0 DEF Waiting, Shape
    <3>2. QED
      BY <1>0, <2>1, <2>2, <3>1 DEF Calls
  <2>5. Contexts' /\ Count'
    BY <1>0, <2>1, <2>3 DEF Contexts, Count
  <2>6. Verdict'
    BY <1>0, <2>1, <2>2, CountedFacts DEF Verdict
  <2>7. QED
    BY <2>2, <2>4, <2>5, <2>6 DEF RaceInv
<1>3. QED
  BY <1>1, <1>2 DEF Delay

-----------------------------------------------------------------------------
(* The collector.                                                          *)

(* The deferred calls of a return: the calls are left alone. *)
LEMMA ReturnFacts ==
    ASSUME Shape, NEW answer \in Member \cup {None}, NEW error \in Errors, Return(answer, error)
    PROVE  /\ collector' \in CollectorRecord
           /\ collector'.at = "returned" /\ collector'.answer = answer /\ collector'.error = error
           /\ race' = FALSE
           /\ delay' \in {"armed", "starting", "over"} /\ (delay' # "over" => delay' = delay)
<1>1. collector' = [at |-> "returned", received |-> collector.received,
                    answer |-> answer, error |-> error]
  BY DEF Return, Shape, CollectorRecord, CollectorPlaces, Errors
<1>2. QED
  BY <1>1 DEF Return, Shape, CollectorRecord, CollectorPlaces

(* The first outcome leaves the channel. *)
LEMMA TailFacts ==
    ASSUME Shape, Calls, results # <<>>, results' = Tail(results), UNCHANGED <<plan, call>>
    PROVE  /\ Head(results) \in Waiting /\ Head(results) \in Member
           /\ results' \in Seq(Member)
           /\ Waiting' = Waiting \ {Head(results)}
           /\ Collected' = Collected \cup {Head(results)} /\ Head(results) \notin Collected
           /\ \A i, j \in DOMAIN results' : results'[i] = results'[j] => i = j
<1>1. /\ Len(results) \in Nat \ {0} /\ DOMAIN results = 1..Len(results)
      /\ DOMAIN results' = 1..(Len(results) - 1)
      /\ \A i \in DOMAIN results' : results'[i] = results[i + 1]
      /\ Head(results) = results[1] /\ results' \in Seq(Member) /\ results[1] \in Member
  BY DEF Shape
<1>2. Head(results) \in Waiting
  BY <1>1 DEF Waiting
<1>3. \A i, j \in DOMAIN results' : results'[i] = results'[j] => i = j
  BY <1>1 DEF Calls
<1>4. Waiting' = Waiting \ {Head(results)}
  <2>1. ASSUME NEW m \in Waiting' PROVE m \in Waiting \ {Head(results)}
    BY <1>1 DEF Waiting, Calls
  <2>2. ASSUME NEW m \in Waiting, m # Head(results) PROVE m \in Waiting'
    <3>1. PICK i \in DOMAIN results : results[i] = m
      BY DEF Waiting
    <3>2. i # 1 /\ i - 1 \in DOMAIN results' /\ results'[i - 1] = m
      BY <1>1, <2>2, <3>1
    <3>3. QED
      BY <3>2 DEF Waiting
  <2>3. QED
    BY <2>1, <2>2
<1>5. Collected' = Collected \cup {Head(results)} /\ Head(results) \notin Collected
  BY <1>1, <1>2, <1>4 DEF Collected, Calls
<1>6. QED
  BY <1>1, <1>2, <1>3, <1>4, <1>5

(* A step of the collector that ends or has ended the race. *)
LEMMA OverStep ==
    ASSUME HedgeAssumption, RaceInv, UNCHANGED <<plan, call, outcome, round>>,
           results' = results \/ (results # <<>> /\ results' = Tail(results)),
           collector' \in CollectorRecord, collector'.at # "collecting", race' = FALSE,
           delay' \in {"armed", "starting", "over"}, delay' # "over" => delay' = delay,
           Verdict'
    PROVE  RaceInv'
<1>0. Shape /\ Calls
  BY DEF RaceInv
<1>1. /\ results' \in Seq(Member) /\ Waiting' \subseteq Waiting
      /\ \A i, j \in DOMAIN results' : results'[i] = results'[j] => i = j
  <2>1. CASE results' = results
    BY <1>0, <2>1 DEF Shape, Calls, Waiting
  <2>2. CASE results # <<>> /\ results' = Tail(results)
    BY <1>0, <2>2, TailFacts
  <2>3. QED
    BY <2>1, <2>2
<1>2. Shape'
  BY <1>0, <1>1 DEF Shape
<1>3. Counted' = Counted
  BY DEF Counted, Racing
<1>4. Calls'
  BY <1>0, <1>1, <1>3 DEF Calls
<1>5. Contexts' /\ Count'
  BY DEF Contexts, Count
<1>6. QED
  BY <1>2, <1>4, <1>5 DEF RaceInv

LEMMA CollectStep ==
    ASSUME HedgeAssumption, RaceInv, Collect
    PROVE  RaceInv'
<1>0. /\ Shape /\ Calls /\ Contexts /\ Count /\ Verdict
      /\ None \notin Member /\ collector \in CollectorRecord
  BY DEF RaceInv, HedgeAssumption, Shape
<1>1. CASE ClientLeft
  <2>1. /\ UNCHANGED <<plan, call, outcome, round>> /\ results' = results /\ ~round
        /\ Return(None, "canceled")
    BY <1>1 DEF ClientLeft
  <2>2. "canceled" \in Errors
    BY DEF Errors
  <2>3. /\ collector' \in CollectorRecord /\ collector'.at = "returned" /\ race' = FALSE
        /\ delay' \in {"armed", "starting", "over"} /\ (delay' # "over" => delay' = delay)
    BY <1>0, <2>1, <2>2, ReturnFacts
  <2>4. Verdict'
    BY <2>1, <2>3 DEF Verdict
  <2>5. QED
    BY <2>1, <2>3, <2>4, OverStep
<1>2. CASE CollectWin
  <2>1. /\ UNCHANGED <<plan, call, outcome, delay, round>> /\ race' = FALSE
        /\ results # <<>> /\ results' = Tail(results)
    BY <1>2 DEF CollectWin
  <2>2. Head(results) \in Member
    BY <1>0, <2>1, TailFacts
  <2>3. collector' = [at |-> "draining", received |-> collector.received + 1,
                      answer |-> Head(results), error |-> collector.error]
    BY <1>0, <1>2 DEF CollectWin, CollectorRecord
  <2>4. collector' \in CollectorRecord
    BY <1>0, <2>2, <2>3 DEF CollectorRecord, CollectorPlaces
  <2>5. Verdict'
    BY <2>2, <2>3 DEF Verdict
  <2>6. QED
    BY <1>0, <2>1, <2>3, <2>4, <2>5, OverStep DEF Shape
<1>3. CASE CollectLoss
  <2> DEFINE m == Head(results)
             error == IF m = plan.primary THEN outcome[m] ELSE collector.error
  <2>1. /\ UNCHANGED <<plan, call, outcome, round>> /\ collector.at = "collecting"
        /\ results # <<>> /\ results' = Tail(results) /\ outcome[m] # "ok"
        /\ IF collector.received + 1 < Started
           THEN /\ collector' = [collector EXCEPT !.received = @ + 1, !.error = error]
                /\ UNCHANGED <<race, delay, stream>>
           ELSE Return(None, IF error = "none" THEN "all failed" ELSE error)
    BY <1>3 DEF CollectLoss
  <2>2. /\ m \in Waiting /\ m \in Member
        /\ Waiting' = Waiting \ {m} /\ results' \in Seq(Member)
        /\ Collected' = Collected \cup {m} /\ m \notin Collected
        /\ \A i, j \in DOMAIN results' : results'[i] = results'[j] => i = j
    BY <1>0, <2>1, TailFacts
  <2> HIDE DEF m
  <2>3. call[m] = "ended" /\ outcome[m] \in {"failed", "timeout", "canceled"} /\ m \in Counted
    BY <1>0, <2>1, <2>2 DEF Calls, Shape, Outcomes
  <2>4. /\ Cardinality(Collected') = collector.received + 1
        /\ Collected' \subseteq Counted
        /\ \A k \in Collected' : outcome[k] # "ok" /\ call[k] = "ended" /\ k \in Member
    <3>1. Cardinality(Collected \cup {m}) = Cardinality(Collected) + 1
      BY <1>0, <2>2, CollectedFacts, FS_AddElement
    <3>2. Collected \subseteq Counted
      BY <1>0, CollectedFacts
    <3>3. QED
      BY <1>0, <2>1, <2>2, <2>3, <3>1, <3>2 DEF Count, Collected
  <2>5. /\ error = IF plan.primary \in Collected' THEN outcome[plan.primary] ELSE "none"
        /\ error \in Errors
    BY <1>0, <2>1, <2>2, <2>3 DEF Count, Errors, CollectorRecord
  <2> HIDE DEF error
  <2>6. Counted' = Counted
    BY <2>1 DEF Counted, Racing
  <2>7. CASE collector.received + 1 < Started
    <3>1. collector' = [at |-> "collecting", received |-> collector.received + 1,
                        answer |-> collector.answer, error |-> error]
      BY <1>0, <2>1, <2>5, <2>7 DEF CollectorRecord
    <3>2. UNCHANGED <<race, delay, round>>
      BY <2>1, <2>7
    <3>3. Shape'
      <4>1. collector' \in CollectorRecord
        BY <1>0, <2>5, <3>1 DEF CollectorRecord, CollectorPlaces
      <4>2. QED
        BY <1>0, <2>1, <2>2, <3>2, <4>1 DEF Shape
    <3>4. Calls'
      BY <1>0, <2>1, <2>2, <2>6, <3>2 DEF Calls
    <3>5. Contexts' /\ Verdict'
      <4>1. collector'.at = "collecting"
        BY <3>1
      <4>2. outcome' = outcome /\ race' = race /\ round' = round
        BY <2>1, <3>2
      <4>3. Contexts'
        <5>1. /\ \A k \in Member : outcome[k] = "canceled" => ~race
              /\ round => race
          BY <1>0, <2>1 DEF Contexts
        <5>2. \A k \in Member : outcome'[k] = "canceled" => ~race'
          BY <4>2, <5>1
        <5>3. round' => race'
          BY <4>2, <5>1
        <5>4. QED
          BY <4>1, <5>2, <5>3 DEF Contexts
      <4>4. Verdict'
        BY <4>1 DEF Verdict
      <4>5. QED
        BY <4>3, <4>4
    <3>6. Count'
      BY <2>1, <2>4, <2>5, <3>1 DEF Count
    <3>7. QED
      BY <3>3, <3>4, <3>5, <3>6 DEF RaceInv
  <2>8. CASE ~(collector.received + 1 < Started)
    <3> DEFINE verdict == IF error = "none" THEN "all failed" ELSE error
    <3>1. Return(None, verdict) /\ verdict \in Errors
      BY <2>1, <2>5, <2>8 DEF Errors
    <3> HIDE DEF verdict
    <3>2. /\ collector' \in CollectorRecord /\ collector'.at = "returned" /\ race' = FALSE
          /\ collector'.error = verdict
          /\ delay' \in {"armed", "starting", "over"} /\ (delay' # "over" => delay' = delay)
      BY <1>0, <3>1, ReturnFacts
    <3>3. Collected' = Counted
      <4>1. /\ IsFiniteSet(Counted) /\ Started = Cardinality(Counted)
            /\ Cardinality(Counted) \in Nat /\ Cardinality(Collected') \in Nat
        BY <1>0, <2>4, CountedFacts, FS_Subset, FS_CardinalityType
      <4>2. Cardinality(Collected') >= Cardinality(Counted)
        BY <2>4, <2>8, <4>1
      <4>3. Collected' # Counted => Cardinality(Collected') < Cardinality(Counted)
        BY <2>4, <4>1, FS_Subset
      <4>4. QED
        BY <4>1, <4>2, <4>3
    <3>4. \A k \in Counted : outcome[k] \in {"failed", "timeout", "canceled"}
      BY <1>0, <2>4, <3>3 DEF Calls, Shape, Outcomes
    <3>5. round => \A k \in Counted : outcome[k] \in {"failed", "timeout"}
      BY <1>0, <2>1, <2>4, <3>3, <3>4 DEF Contexts
    <3>6. verdict = outcome[plan.primary]
      BY <1>0, <2>5, <3>3, <3>4, CountedFacts DEF verdict
    <3>7. Verdict'
      BY <2>1, <2>4, <2>6, <3>2, <3>3, <3>5, <3>6 DEF Verdict
    <3>8. QED
      BY <2>1, <3>2, <3>7, OverStep
  <2>9. QED
    BY <2>7, <2>8
<1>4. CASE Drain
  <2>1. /\ UNCHANGED <<plan, call, outcome, delay, round, race>> /\ collector.at = "draining"
        /\ results # <<>> /\ results' = Tail(results)
    BY <1>4 DEF Drain
  <2>2. collector' = [at |-> "draining", received |-> collector.received + 1,
                      answer |-> collector.answer, error |-> collector.error]
    BY <1>0, <1>4 DEF Drain, CollectorRecord
  <2>3. collector' \in CollectorRecord
    BY <1>0, <2>2 DEF CollectorRecord, CollectorPlaces
  <2>4. race' = FALSE /\ Verdict'
    BY <1>0, <2>1, <2>2 DEF Contexts, Verdict, Shape
  <2>5. QED
    BY <1>0, <2>1, <2>2, <2>3, <2>4, OverStep DEF Shape
<1>5. CASE EndDrain
  <2>1. /\ UNCHANGED <<plan, call, outcome, round>> /\ results' = results /\ collector.at = "draining"
        /\ Return(collector.answer, collector.error)
    BY <1>5 DEF EndDrain
  <2>2. collector.answer \in Member /\ collector.error \in Errors
    BY <1>0, <2>1 DEF Verdict, CollectorRecord
  <2>3. /\ collector' \in CollectorRecord /\ collector'.at = "returned" /\ race' = FALSE
        /\ collector'.answer = collector.answer
        /\ delay' \in {"armed", "starting", "over"} /\ (delay' # "over" => delay' = delay)
    BY <1>0, <2>1, <2>2, ReturnFacts
  <2>4. Verdict'
    BY <1>0, <2>2, <2>3 DEF Verdict
  <2>5. QED
    BY <2>1, <2>3, <2>4, OverStep
<1>6. QED
  BY <1>1, <1>2, <1>3, <1>4, <1>5 DEF Collect

LEMMA RaceNext ==
    ASSUME HedgeAssumption, RaceInv, [HedgeNext]_hedgeVars
    PROVE  RaceInv'
<1>0. Shape /\ Calls /\ Contexts /\ Count /\ Verdict
  BY DEF RaceInv
<1>1. CASE EndRound
  <2>1. /\ UNCHANGED <<plan, call, outcome, results, delay, collector>>
        /\ round' = FALSE /\ race' = FALSE
    BY <1>1 DEF EndRound
  <2>2. Waiting' = Waiting /\ Counted' = Counted /\ Collected' = Collected
    BY <2>1 DEF Waiting, Counted, Racing, Collected
  <2>3. QED
    BY <1>0, <2>1, <2>2 DEF RaceInv, Shape, Calls, Contexts, Count, Verdict
<1>2. CASE ForwardStream \/ UNCHANGED hedgeVars
  <2>1. UNCHANGED <<plan, call, outcome, results, delay, collector, round, race>>
    BY <1>2 DEF ForwardStream, hedgeVars
  <2>2. Waiting' = Waiting /\ Counted' = Counted /\ Collected' = Collected
    BY <2>1 DEF Waiting, Counted, Racing, Collected
  <2>3. QED
    BY <1>0, <2>1, <2>2 DEF RaceInv, Shape, Calls, Contexts, Count, Verdict
<1>3. QED
  BY <1>1, <1>2, CallStep, CollectStep, DelayStep DEF HedgeNext

(* The argument's invariant. *)
THEOREM RaceInvariant == FairHedgeSpec => []RaceInv
<1>1. HedgeInit => RaceInv
  BY RaceInit, HedgeAssumption
<1>2. RaceInv /\ [HedgeNext]_hedgeVars => RaceInv'
  BY RaceNext, HedgeAssumption
<1>3. QED
  BY <1>1, <1>2, PTL DEF FairHedgeSpec

(* runRoundWithHedge (internal/relay/hedge.go) gives a round up only when  *)
(* every call it counted on has failed, rivals that a timer was still to   *)
(* start included, and with the error of the primary, for any number of    *)
(* members and whatever the settings are.                                  *)
THEOREM LostRoundsFailedEverywhere == FairHedgeSpec => []LostOnlyWhenAllFailed
<1>1. RaceInv => LostOnlyWhenAllFailed
  BY HedgeAssumption DEF RaceInv, Verdict, LostOnlyWhenAllFailed, Counted, Racing
<1>2. QED
  BY <1>1, RaceInvariant, PTL

(* The winner ends the context of all the others (cancelRace in            *)
(* internal/relay/hedge.go), and no call is started in a race that is      *)
(* over with a context that is alive.                                      *)
THEOREM WinnerCancelsLosers == FairHedgeSpec => []LosersAreCanceled
<1>1. RaceInv => LosersAreCanceled
  BY DEF RaceInv, Contexts, LosersAreCanceled, CtxAlive
<1>2. QED
  BY <1>1, RaceInvariant, PTL
=============================================================================
