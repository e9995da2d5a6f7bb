--------------------------- MODULE ProxyCoreProofs ---------------------------
(***************************************************************************)
(* Proofs about the proxy core, for every pool of nodes and ports, every   *)
(* number of cores, restarts and deaths of a core.                         *)
(***************************************************************************)
EXTENDS ProxyCore, FiniteSetTheorems, TLAPS

CoreRecord == [alive : BOOLEAN, open : SUBSET Pool, config : [Node -> Pool \cup {0}]]
CallRecord == [at : {"idle", "allocate", "spawn", "wait"}, todo : SUBSET Node,
               seen : [Node -> NodeRow], used : SUBSET Pool]

CoreTyped == CoreTypeOK /\ Cardinality(Cores) \in Nat

(* Whoever starts a core holds the lock, and there is no core then.        *)
LockHeld ==
    \A o \in Operator :
        /\ call[o].at \in {"spawn", "wait"} => mutex = o
        /\ mutex = o => call[o].at # "idle"
        /\ mutex = o /\ call[o].at # "wait" => handle = 0

OneInv == CoreTyped /\ LockHeld /\ NoCoreLost

(* What a request in allocatePorts has read of the rows: every port in the *)
(* rows is known to be used, and a node it still has to look at has a port *)
(* nobody else has.                                                        *)
Held(n) == Stored(n) /\ row[n].port # 0
ReadingOK(o) ==
    call[o].at = "allocate" =>
        /\ \A m \in Node : Held(m) => row[m].port \in call[o].used
        /\ \A n \in call[o].todo : call[o].seen[n].port # 0 =>
               /\ call[o].seen[n].port \in call[o].used
               /\ \A m \in Node \ {n} : Held(m) => row[m].port # call[o].seen[n].port
               /\ \A m \in call[o].todo \ {n} : call[o].seen[m].port # call[o].seen[n].port

(* A core of this run that listens on a node's port sends it nowhere else, *)
(* disabled nodes included: they can be enabled again.                     *)
OwnExit ==
    \A c \in Cores, n, m \in Node :
        Held(n) /\ c >= since /\ row[n].port \in core[c].open /\ core[c].config[m] = row[n].port
            => m = n

ExitInv == CoreTyped /\ PortsDiffer /\ OwnExit /\ \A o \in Operator : ReadingOK(o)

-----------------------------------------------------------------------------
LEMMA Records ==
    /\ NewRow \in NodeRow
    /\ Dead \in CoreRecord
    /\ NoCall \in CallRecord
<1>1. NewRow \in NodeRow
  BY DEF NewRow, NodeRow
<1>2. QED
  BY <1>1 DEF Dead, CoreRecord, NoCall, CallRecord

LEMMA EndedType ==
    ASSUME CoreTyped, NEW c \in Cores
    PROVE  /\ DOMAIN Ended(c) = Cores
           /\ \A d \in Cores \ {c} : Ended(c)[d] = core[d]
           /\ Ended(c)[c] = Dead
  BY DEF Cores, Ended

LEMMA KilledType ==
    ASSUME CoreTyped
    PROVE  /\ DOMAIN Killed = Cores
           /\ \A c \in Cores : Killed[c] = IF c = handle THEN Dead ELSE core[c]
<1>1. CASE handle = 0
  BY <1>1 DEF CoreTyped, CoreTypeOK, Killed, Cores
<1>2. CASE handle # 0
  BY <1>2, EndedType DEF CoreTyped, CoreTypeOK, Killed
<1>3. QED
  BY <1>1, <1>2

(* A stop, which ends the core or gives up on it. *)
LEMMA StopType ==
    ASSUME CoreTyped, StopLocked
    PROVE  /\ Cores' = Cores /\ handle' = 0 /\ abandoned' \subseteq Cores
           /\ \A c \in Cores : core'[c] = core[c] \/ core'[c] = Dead
           /\ abandoned \subseteq abandoned'
           /\ \A c \in Cores : core'[c].alive => core[c].alive /\ (c = handle => c \in abandoned')
<1>1. handle \in Cores \cup {0} /\ abandoned \subseteq Cores
  BY DEF CoreTyped, CoreTypeOK
<1>2. CASE core' = Killed /\ UNCHANGED abandoned
  <2>1. \A c \in Cores : core'[c] = IF c = handle THEN Dead ELSE core[c]
    BY <1>2, KilledType
  <2>2. Cores' = Cores
    BY <1>2, KilledType DEF Cores
  <2>3. handle' = 0 /\ abandoned' \subseteq Cores /\ abandoned \subseteq abandoned'
    BY <1>1, <1>2 DEF StopLocked
  <2>4. ASSUME NEW c \in Cores
        PROVE  /\ core'[c] = core[c] \/ core'[c] = Dead
               /\ core'[c].alive => core[c].alive /\ c # handle
    <3>1. ~Dead.alive
      BY DEF Dead
    <3>2. CASE c = handle
      BY <2>1, <3>1, <3>2
    <3>3. CASE c # handle
      BY <2>1, <3>3
    <3>4. QED
      BY <3>2, <3>3
  <2>5. QED
    BY <2>2, <2>3, <2>4
<1>3. CASE handle # 0 /\ abandoned' = abandoned \cup {handle} /\ UNCHANGED core
  BY <1>1, <1>3 DEF StopLocked, Cores
<1>4. QED
  BY <1>2, <1>3 DEF StopLocked

(* The ports in the hands of a request: others is what Allocate may not    *)
(* take.                                                                   *)
Others(o, n) ==
    IF call[o].seen[n].port = 0 THEN call[o].used ELSE call[o].used \ {call[o].seen[n].port}
Keeps(o, n) ==
    \/ ~call[o].seen[n].enabled
    \/ call[o].seen[n].port \in Pool /\ FreePort(call[o].seen[n].port)

(* What Allocate finds: the node's own port, or one nobody has. *)
LEMMA AllocateType ==
    ASSUME CoreTyped, NEW o \in Operator, NEW n \in Node, Allocate(o, n)
    PROVE  /\ row' \in [Node -> NodeRow] /\ call' \in [Operator -> CallRecord]
           /\ call'[o].at = "allocate" /\ \A p \in Operator \ {o} : call'[p] = call[p]
           /\ \E found \in Pool \cup {0} :
              /\ IF Keeps(o, n) THEN found = call[o].seen[n].port ELSE found \in PickFreePort(Others(o, n))
              /\ IF ~Keeps(o, n) /\ Stored(n)
                 THEN row'[n] = [row[n] EXCEPT !.port = found]
                 ELSE row'[n] = row[n]
              /\ \A m \in Node \ {n} : row'[m] = row[m]
              /\ call'[o] = [at |-> "allocate", todo |-> call[o].todo \ {n},
                             seen |-> [call[o].seen EXCEPT ![n] = NewRow],
                             used |-> IF Keeps(o, n) THEN call[o].used ELSE Others(o, n) \cup {found}]
<1> DEFINE first == {p \in PickFreePort(Others(o, n)) : \A q \in PickFreePort(Others(o, n)) : p <= q}
           next(found) == [at |-> "allocate", todo |-> call[o].todo \ {n},
                           seen |-> [call[o].seen EXCEPT ![n] = NewRow],
                           used |-> IF Keeps(o, n) THEN call[o].used ELSE Others(o, n) \cup {found}]
<1>0. row \in [Node -> NodeRow] /\ call \in [Operator -> CallRecord]
  BY DEF CoreTyped, CoreTypeOK, CallRecord
<1>1. /\ call[o].seen[n].port \in Pool \cup {0} /\ Others(o, n) \in SUBSET Pool
      /\ first \subseteq PickFreePort(Others(o, n)) /\ PickFreePort(Others(o, n)) \subseteq Pool
  BY <1>0 DEF CallRecord, PickFreePort, Others, NodeRow
<1>2. PICK found \in IF Keeps(o, n) THEN {call[o].seen[n].port} ELSE first :
          /\ row' = IF ~Keeps(o, n) /\ Stored(n) THEN [row EXCEPT ![n].port = found] ELSE row
          /\ call' = [call EXCEPT ![o] = next(found)]
  BY DEF Allocate, Keeps, Others
<1>3. found \in Pool \cup {0} /\ (~Keeps(o, n) => found \in Pool)
  BY <1>1, <1>2
<1>4. next(found) \in CallRecord
  <2>1. /\ (call[o].todo \ {n}) \in SUBSET Node
        /\ [call[o].seen EXCEPT ![n] = NewRow] \in [Node -> NodeRow]
        /\ (IF Keeps(o, n) THEN call[o].used ELSE Others(o, n) \cup {found}) \in SUBSET Pool
    BY <1>0, <1>1, <1>3, Records DEF CallRecord
  <2>2. QED
    BY <2>1 DEF CallRecord
<1>5. row' \in [Node -> NodeRow]
  BY <1>0, <1>2, <1>3 DEF NodeRow
<1>6. call' \in [Operator -> CallRecord]
  <2> HIDE DEF next
  <2>1. QED
    BY <1>0, <1>2, <1>4
<1>7. call'[o] = next(found) /\ \A p \in Operator \ {o} : call'[p] = call[p]
  <2> HIDE DEF next
  <2>1. QED
    BY <1>0, <1>2
<1>8. /\ IF ~Keeps(o, n) /\ Stored(n)
         THEN row'[n] = [row[n] EXCEPT !.port = found]
         ELSE row'[n] = row[n]
      /\ \A m \in Node \ {n} : row'[m] = row[m]
  BY <1>0, <1>2
<1>9. IF Keeps(o, n) THEN found = call[o].seen[n].port ELSE found \in PickFreePort(Others(o, n))
  BY <1>2
<1>10. call'[o].at = "allocate"
  BY <1>7
<1>11. QED
  <2> HIDE DEF first
  <2>1. QED
    BY <1>3, <1>5, <1>6, <1>7, <1>8, <1>9, <1>10

LEMMA SpawnType ==
    ASSUME CoreAssumption, CoreTyped, NEW o \in Operator, Spawn(o)
    PROVE  /\ Cores' = Cores \cup {handle'} /\ handle' = Cardinality(Cores) + 1
           /\ handle' \notin Cores
           /\ \A c \in Cores : core'[c] = core[c]
           /\ core'[handle'].open \subseteq {row[n].port : n \in {k \in Node : InUse(k)}}
           /\ core'[handle'].config =
                 [n \in Node |-> IF InUse(n) THEN row[n].port ELSE 0]
           /\ call' \in [Operator -> CallRecord] /\ call'[o].at = "wait"
           /\ \A p \in Operator \ {o} : call'[p] = call[p]
           /\ CoreTyped'
<1> DEFINE served == {n \in Node : InUse(n)}
           ports == {row[n].port : n \in served}
           c == Cardinality(Cores) + 1
           new == [alive |-> TRUE, open |-> {p \in ports : Free(p)},
                   config |-> [n \in Node |-> IF n \in served THEN row[n].port ELSE 0]]
<1>0. row \in [Node -> NodeRow] /\ call \in [Operator -> CallRecord]
  BY DEF CoreTyped, CoreTypeOK, CallRecord
<1>1. c \in Nat /\ c \notin Cores /\ Cores \cup {c} = 1..c /\ handle' = c /\ c <= MaxCore
  BY DEF CoreTyped, CoreTypeOK, Spawn
<1>2. /\ Cores' = Cores \cup {c}
      /\ \A d \in Cores : core'[d] = core[d]
      /\ core'[c] = new
  <2>1. core' = [i \in Cores \cup {c} |-> IF i \in Cores THEN core[i] ELSE new]
    BY DEF Spawn
  <2> HIDE DEF c, new
  <2>2. QED
    BY <1>1, <2>1 DEF Cores
<1>3. Cores' = 1..c /\ Cardinality(Cores') = c
  <2> HIDE DEF c
  <2>1. Cores' = 1..c /\ c >= 1
    BY <1>1, <1>2
  <2>2. Cardinality(1..c) = c
    BY <1>1, <2>1, FS_Interval
  <2>3. QED
    BY <2>1, <2>2
<1>4. /\ ports \subseteq Pool
      /\ [n \in Node |-> IF n \in served THEN row[n].port ELSE 0] \in [Node -> Pool \cup {0}]
  BY <1>0 DEF NodeRow, InUse
<1>5. new \in CoreRecord
  BY <1>4 DEF CoreRecord
<1>6. /\ call' \in [Operator -> CallRecord] /\ call'[o].at = "wait"
      /\ \A p \in Operator \ {o} : call'[p] = call[p]
  BY <1>0, ZenonT(120) DEF Spawn, Goto, CallRecord
<1>7. CoreTyped'
  <2> HIDE DEF c, new
  <2>1. Cores' = 1..c /\ Cardinality(Cores') = c /\ c \in Nat /\ c <= MaxCore
    BY <1>1, <1>2, <1>3
  <2>2. Cores' = 1..Cardinality(Cores') /\ Cardinality(Cores') \in Nat /\ Cardinality(Cores') <= MaxCore
    BY <2>1
  <2>3. \A d \in Cores' : core'[d] \in CoreRecord
    BY <1>2, <1>5 DEF CoreTyped, CoreTypeOK, CoreRecord
  <2>4. handle' \in Cores'
    BY <1>1, <1>2
  <2>5. abandoned' \subseteq Cores'
    BY <1>2 DEF CoreTyped, CoreTypeOK, Spawn
  <2>6. UNCHANGED <<row, since, mutex, occupied, restarts>>
    BY DEF Spawn
  <2>7. CoreTypeOK'
    BY <1>6, <2>2, <2>3, <2>4, <2>5, <2>6 DEF CoreTyped, CoreTypeOK, CoreRecord, CallRecord
  <2>8. QED
    BY <2>2, <2>7 DEF CoreTyped
<1>8. /\ new.open \subseteq {row[n].port : n \in {k \in Node : InUse(k)}}
      /\ new.config = [n \in Node |-> IF InUse(n) THEN row[n].port ELSE 0]
  OBVIOUS
<1>9. QED
  <2> HIDE DEF new
  <2>1. QED
    BY <1>1, <1>2, <1>6, <1>7, <1>8
-----------------------------------------------------------------------------
(* Types.                                                                  *)

LEMMA TypeInit ==
    ASSUME CoreAssumption, CoreInit
    PROVE  CoreTyped
<1>1. Cores = {} /\ Cardinality(Cores) = 0 /\ Cores = 1..0
  BY FS_EmptySet DEF CoreInit, Cores
<1>2. /\ MaxCore \in Nat /\ MaxRestarts \in Nat
      /\ row \in [Node -> NodeRow] /\ call \in [Operator -> CallRecord]
  BY Records DEF CoreAssumption, CoreInit
<1>3. QED
  BY <1>1, <1>2 DEF CoreInit, CoreTyped, CoreTypeOK, CallRecord

(* A step that leaves the cores that exist, each with its type. *)
LEMMA TypeStep ==
    ASSUME CoreTyped, Cores' = Cores, \A c \in Cores : core'[c] \in CoreRecord,
           row' \in [Node -> NodeRow], call' \in [Operator -> CallRecord],
           since' = since, restarts' = restarts, occupied' \subseteq Pool,
           handle' \in {handle, 0}, mutex' \in Operator \cup {0}, abandoned' \subseteq Cores
    PROVE  CoreTyped'
  BY DEF CoreTyped, CoreTypeOK, CoreRecord, CallRecord

LEMMA TypeNext ==
    ASSUME CoreAssumption, CoreTyped, [CoreNext]_coreVars
    PROVE  CoreTyped'
<1>0. /\ row \in [Node -> NodeRow] /\ call \in [Operator -> CallRecord]
      /\ \A c \in Cores : core[c] \in CoreRecord
      /\ mutex \in Operator \cup {0} /\ occupied \subseteq Pool /\ abandoned \subseteq Cores
  BY DEF CoreTyped, CoreTypeOK, CallRecord, CoreRecord
<1>1. /\ \A c \in Cores : Ended(c)[c] \in CoreRecord
      /\ StopLocked => \A c \in Cores : core'[c] \in CoreRecord
  BY <1>0, StopType, EndedType, Records
<1>2. \A o \in Operator : Reading(o) => call' \in [Operator -> CallRecord]
  <2> SUFFICES ASSUME NEW o \in Operator, Reading(o) PROVE call' \in [Operator -> CallRecord]
    OBVIOUS
  <2> DEFINE todo == {n \in Node : Stored(n)}
             used == {row[n].port : n \in {m \in Node : Stored(m) /\ row[m].port # 0}}
             read == [at |-> "allocate", seen |-> row, todo |-> todo, used |-> used]
  <2>1. used \in SUBSET Pool /\ todo \in SUBSET Node
    BY <1>0 DEF NodeRow
  <2>2. read \in CallRecord
    <3> HIDE DEF todo, used
    <3>1. QED
      BY <1>0, <2>1 DEF CallRecord
  <2>3. call' = [call EXCEPT ![o] = read]
    BY DEF Reading
  <2> HIDE DEF read
  <2>4. QED
    BY <1>0, <2>2, <2>3
<1>3. \A o \in Operator : Return(o) => call' \in [Operator -> CallRecord]
  BY <1>0, Records DEF Return
<1>4. CASE UNCHANGED coreVars
  BY <1>0, <1>4, TypeStep DEF coreVars, Cores
<1>5. ASSUME UNCHANGED <<core, since, handle, abandoned, mutex, call, restarts>>,
             row' \in [Node -> NodeRow], occupied' \subseteq Pool
      PROVE  CoreTyped'
  BY <1>0, <1>5, TypeStep DEF Cores
<1>6. ASSUME NEW n \in Node, NEW on \in BOOLEAN,
             ProxyNodeCreate(n, on) \/ ProxyNodeUpdate(n) \/ ProxyNodeDelete(n)
      PROVE  CoreTyped'
  <2>1. CASE ProxyNodeCreate(n, on)
    <3>1. [life |-> "stored", enabled |-> on, port |-> 0] \in NodeRow
      BY DEF NodeRow
    <3>2. row' \in [Node -> NodeRow]
      BY <1>0, <2>1, <3>1 DEF ProxyNodeCreate
    <3>3. QED
      BY <1>0, <1>5, <2>1, <3>2 DEF ProxyNodeCreate
  <2>2. CASE ProxyNodeUpdate(n)
    <3>1. row' \in [Node -> NodeRow]
      BY <1>0, <2>2, ZenonT(60) DEF ProxyNodeUpdate, NodeRow
    <3>2. QED
      BY <1>0, <1>5, <2>2, <3>1 DEF ProxyNodeUpdate
  <2>3. CASE ProxyNodeDelete(n)
    <3>1. [NewRow EXCEPT !.life = "deleted"] \in NodeRow
      BY DEF NewRow, NodeRow
    <3>2. row' \in [Node -> NodeRow]
      BY <1>0, <2>3, <3>1 DEF ProxyNodeDelete
    <3>3. QED
      BY <1>0, <1>5, <2>3, <3>2 DEF ProxyNodeDelete
  <2>4. QED
    BY <1>6, <2>1, <2>2, <2>3
<1>7. ASSUME NEW S \in SUBSET Node, ProxySubscriptionDelete(S) PROVE CoreTyped'
  <2>1. [NewRow EXCEPT !.life = "deleted"] \in NodeRow
    BY DEF NewRow, NodeRow
  <2>2. row' \in [Node -> NodeRow]
    BY <1>0, <1>7, <2>1 DEF ProxySubscriptionDelete
  <2>3. QED
    BY <1>0, <1>5, <1>7, <2>2 DEF ProxySubscriptionDelete
<1>8. ASSUME NEW o \in Operator, Proceed(o) PROVE CoreTyped'
  <2>1. ASSUME NEW n \in Node, Allocate(o, n) PROVE CoreTyped'
    <3>1. row' \in [Node -> NodeRow] /\ call' \in [Operator -> CallRecord]
      BY <2>1, AllocateType
    <3>2. UNCHANGED <<core, since, handle, abandoned, mutex, occupied, restarts>>
      BY <2>1 DEF Allocate
    <3>3. QED
      BY <1>0, <3>1, <3>2, TypeStep DEF Cores
  <2>2. CASE AllocateFails(o)
    BY <1>0, <1>3, <2>2, TypeStep DEF AllocateFails, Unlock, Cores
  <2>3. CASE ReleaseDisabledPorts(o)
    <3>1. [NoCall EXCEPT !.at = IF mutex = o THEN "spawn" ELSE "idle"] \in CallRecord
      BY Records DEF CallRecord
    <3>2. call' \in [Operator -> CallRecord]
      BY <1>0, <2>3, <3>1 DEF ReleaseDisabledPorts
    <3>3. row' \in [Node -> NodeRow]
      BY <1>0, <2>3 DEF ReleaseDisabledPorts, Released, NodeRow
    <3>4. QED
      BY <1>0, <2>3, <3>2, <3>3, TypeStep DEF ReleaseDisabledPorts, Cores
  <2>4. CASE Spawn(o)
    BY <2>4, SpawnType
  <2>5. CASE SpawnFails(o) \/ Ready(o)
    BY <1>0, <1>3, <2>5, TypeStep DEF SpawnFails, Ready, Unlock, Cores
  <2>6. CASE NotReady(o)
    BY <1>0, <1>1, <1>3, <2>6, StopType, TypeStep DEF NotReady, Unlock
  <2>7. QED
    BY <1>8, <2>1, <2>2, <2>3, <2>4, <2>5, <2>6 DEF Proceed
<1>9. ASSUME NEW o \in Operator, Start(o) \/ ProxyCorePorts(o) PROVE CoreTyped'
  <2>1. CASE Start(o)
    BY <1>0, <1>1, <1>2, <2>1, StopType, TypeStep DEF Start
  <2>2. CASE ProxyCorePorts(o)
    BY <1>0, <1>2, <2>2, TypeStep DEF ProxyCorePorts, Cores
  <2>3. QED
    BY <1>9, <2>1, <2>2
<1>10. CASE Stop
  BY <1>0, <1>1, <1>10, StopType, TypeStep DEF Stop
<1>11. ASSUME NEW c \in Cores, Guard(c) \/ CoreDies(c) PROVE CoreTyped'
  <2>1. CASE Guard(c)
    BY <1>0, <2>1, TypeStep DEF Guard, Cores
  <2>2. CASE CoreDies(c)
    BY <1>0, <1>1, <2>2, EndedType, TypeStep DEF CoreDies, Cores
  <2>3. QED
    BY <1>11, <2>1, <2>2
<1>12. ASSUME NEW p \in Pool, Occupy(p) \/ Vacate(p) PROVE CoreTyped'
  BY <1>0, <1>5, <1>12 DEF Occupy, Vacate
<1>13. CASE RestartProgram
  <2>1. /\ UNCHANGED <<row, core, occupied>> /\ handle' = 0 /\ mutex' = 0 /\ abandoned' = {}
        /\ since' = Cardinality(Cores) + 1 /\ restarts' = restarts + 1 /\ restarts < MaxRestarts
    BY <1>13 DEF RestartProgram
  <2>2. call' \in [Operator -> CallRecord]
    BY <1>13, Records DEF RestartProgram
  <2>3. since' \in 1..(MaxCore + 1) /\ restarts' \in 0..MaxRestarts
    BY <2>1 DEF CoreTyped, CoreTypeOK, CoreAssumption
  <2>4. QED
    BY <2>1, <2>2, <2>3 DEF CoreTyped, CoreTypeOK, CallRecord, Cores
<1>14. QED
  BY <1>4, <1>6, <1>7, <1>8, <1>9, <1>10, <1>11, <1>12, <1>13 DEF CoreNext

-----------------------------------------------------------------------------
(* No core is lost.                                                        *)

LEMMA OneInit ==
    ASSUME CoreAssumption, CoreInit
    PROVE  OneInv
<1>1. Cores = {}
  BY DEF CoreInit, Cores
<1>2. LockHeld
  BY DEF CoreAssumption, CoreInit, LockHeld, NoCall
<1>3. QED
  BY <1>1, <1>2, TypeInit DEF OneInv, NoCoreLost

LEMMA OneNext ==
    ASSUME CoreAssumption, OneInv, [CoreNext]_coreVars
    PROVE  OneInv'
<1>0. /\ CoreTyped /\ LockHeld /\ NoCoreLost /\ 0 \notin Operator
      /\ DOMAIN call = Operator /\ handle \in Cores \cup {0}
      /\ \A c \in Cores : c # 0
  BY DEF OneInv, CoreAssumption, CoreTyped, CoreTypeOK
<1>1. CoreTyped'
  BY <1>0, TypeNext
<1>2. ASSUME StopLocked, since' = since PROVE NoCoreLost'
  BY <1>0, <1>2, StopType DEF NoCoreLost
<1>3. ASSUME UNCHANGED <<core, since, handle, abandoned, mutex>>,
             \A o \in Operator : call'[o].at = call[o].at
      PROVE  LockHeld' /\ NoCoreLost'
  BY <1>0, <1>3 DEF LockHeld, NoCoreLost, Cores
<1>4. ASSUME NEW o \in Operator, Proceed(o) PROVE LockHeld' /\ NoCoreLost'
  <2>1. ASSUME NEW n \in Node, Allocate(o, n) PROVE LockHeld' /\ NoCoreLost'
    <3>1. call[o].at = "allocate" /\ UNCHANGED <<core, since, handle, abandoned, mutex>>
      BY <2>1 DEF Allocate
    <3>2. call'[o].at = "allocate" /\ \A p \in Operator \ {o} : call'[p] = call[p]
      BY <1>0, <2>1, AllocateType
    <3>3. QED
      BY <1>3, <3>1, <3>2
  <2>2. CASE AllocateFails(o) \/ SpawnFails(o) \/ Ready(o)
    <3>1. UNCHANGED <<core, since, handle, abandoned>> /\ mutex' = IF mutex = o THEN 0 ELSE mutex
      BY <1>0, <2>2 DEF AllocateFails, SpawnFails, Ready, Unlock, LockHeld
    <3>2. call'[o].at = "idle" /\ \A p \in Operator \ {o} : call'[p] = call[p]
      BY <1>0, <2>2 DEF AllocateFails, SpawnFails, Ready, Return, NoCall
    <3>3. QED
      BY <1>0, <3>1, <3>2 DEF LockHeld, NoCoreLost, Cores
  <2>3. CASE ReleaseDisabledPorts(o)
    <3>1. UNCHANGED <<core, since, handle, abandoned, mutex>> /\ call[o].at = "allocate"
      BY <2>3 DEF ReleaseDisabledPorts
    <3>2. /\ call'[o].at = IF mutex = o THEN "spawn" ELSE "idle"
          /\ \A p \in Operator \ {o} : call'[p] = call[p]
      BY <1>0, <2>3 DEF ReleaseDisabledPorts, NoCall
    <3>3. QED
      BY <1>0, <3>1, <3>2 DEF LockHeld, NoCoreLost, Cores
  <2>4. CASE Spawn(o)
    <3>1. UNCHANGED <<since, abandoned, mutex>> /\ call[o].at = "spawn"
      BY <2>4 DEF Spawn
    <3>2. mutex = o /\ handle = 0
      BY <1>0, <3>1 DEF LockHeld
    <3>3. LockHeld'
      BY <1>0, <2>4, <3>1, <3>2, SpawnType DEF LockHeld
    <3>4. /\ Cores' = Cores \cup {handle'}
          /\ \A c \in Cores : core'[c] = core[c]
      BY <1>0, <2>4, SpawnType
    <3>5. \A c \in Cores : core[c].alive /\ c >= since => c \in abandoned
      BY <1>0, <3>2 DEF NoCoreLost
    <3>6. NoCoreLost'
      BY <3>1, <3>4, <3>5 DEF NoCoreLost
    <3>7. QED
      BY <3>3, <3>6
  <2>5. CASE NotReady(o)
    <3>1. /\ StopLocked /\ handle' = 0 /\ mutex' = 0 /\ since' = since
          /\ call[o].at = "wait" /\ mutex = o
      BY <1>0, <2>5 DEF NotReady, StopLocked, Unlock, LockHeld
    <3>2. call'[o].at = "idle" /\ \A p \in Operator \ {o} : call'[p] = call[p]
      BY <1>0, <2>5 DEF NotReady, Return, NoCall
    <3>3. LockHeld'
      BY <1>0, <3>1, <3>2 DEF LockHeld
    <3>4. NoCoreLost'
      BY <1>2, <3>1
    <3>5. QED
      BY <3>3, <3>4
  <2>6. QED
    BY <1>4, <2>1, <2>2, <2>3, <2>4, <2>5 DEF Proceed
<1>5. ASSUME NEW o \in Operator, Start(o) \/ ProxyCorePorts(o) PROVE LockHeld' /\ NoCoreLost'
  <2>1. call[o].at = "idle" /\ since' = since /\ Reading(o)
    BY <1>5 DEF Start, ProxyCorePorts
  <2>2. call'[o].at = "allocate" /\ \A p \in Operator \ {o} : call'[p] = call[p]
    BY <1>0, <2>1 DEF Reading
  <2>3. CASE Start(o)
    <3>1. StopLocked /\ handle' = 0 /\ mutex = 0 /\ mutex' = o
      BY <2>3 DEF Start, StopLocked
    <3>2. LockHeld'
      BY <1>0, <2>1, <2>2, <3>1 DEF LockHeld
    <3>3. QED
      BY <1>2, <2>1, <3>1, <3>2
  <2>4. CASE ProxyCorePorts(o)
    BY <1>0, <2>1, <2>2, <2>4 DEF ProxyCorePorts, LockHeld, NoCoreLost, Cores
  <2>5. QED
    BY <1>5, <2>3, <2>4
<1>6. ASSUME Stop PROVE LockHeld' /\ NoCoreLost'
  <2>1. StopLocked /\ handle' = 0 /\ mutex = 0 /\ UNCHANGED <<since, mutex, call>>
    BY <1>6 DEF Stop, StopLocked
  <2>2. LockHeld'
    BY <1>0, <2>1 DEF LockHeld
  <2>3. NoCoreLost'
    BY <1>2, <2>1
  <2>4. QED
    BY <2>2, <2>3
<1>7. ASSUME NEW c \in Cores, Guard(c) \/ CoreDies(c) PROVE LockHeld' /\ NoCoreLost'
  <2>1. CASE Guard(c)
    BY <1>0, <2>1 DEF Guard, OwnHandle, LockHeld, NoCoreLost, Cores
  <2>2. CASE CoreDies(c)
    <3>1. /\ core' = Ended(c) /\ UNCHANGED <<since, handle, mutex, call>> /\ abandoned' = abandoned \ {c}
          /\ \A d \in Cores : Ended(c)[d].alive => core[d].alive /\ d # c
          /\ DOMAIN Ended(c) = Cores
      BY <1>0, <2>2, EndedType DEF CoreDies, Dead
    <3>2. QED
      BY <1>0, <3>1 DEF LockHeld, NoCoreLost, Cores
  <2>3. QED
    BY <1>7, <2>1, <2>2
<1>8. ASSUME RestartProgram PROVE LockHeld' /\ NoCoreLost'
  <2>1. /\ core' = core /\ since' = Cardinality(Cores) + 1 /\ handle' = 0 /\ mutex' = 0
        /\ \A o \in Operator : call'[o].at = "idle"
    BY <1>8 DEF RestartProgram, NoCall
  <2>2. \A c \in Cores : ~(c >= since')
    BY <1>0, <2>1 DEF CoreTyped, CoreTypeOK
  <2>3. LockHeld'
    BY <1>0, <2>1 DEF LockHeld
  <2>4. NoCoreLost'
    BY <2>1, <2>2 DEF NoCoreLost, Cores
  <2>5. QED
    BY <2>3, <2>4
<1>9. ASSUME UNCHANGED <<core, since, handle, abandoned, mutex, call>> PROVE LockHeld' /\ NoCoreLost'
  <2>1. UNCHANGED <<core, since, handle, abandoned, mutex>> /\ call' = call
    BY <1>9
  <2>2. QED
    BY <1>3, <2>1
<1>10. LockHeld' /\ NoCoreLost'
  BY <1>4, <1>5, <1>6, <1>7, <1>8, <1>9
  DEF CoreNext, coreVars, ProxyNodeCreate, ProxyNodeUpdate, ProxyNodeDelete,
      ProxySubscriptionDelete, Occupy, Vacate
<1>11. QED
  BY <1>1, <1>10 DEF OneInv

(* Every row, core and request keeps its shape, and no more cores are      *)
(* started than the bound allows: what the other arguments stand on.       *)
THEOREM CoreTypes == CoreSpec => []CoreTypeOK
<1>1. CoreInit => CoreTyped
  BY TypeInit, CoreAssumption
<1>2. CoreTyped /\ [CoreNext]_coreVars => CoreTyped'
  BY TypeNext, CoreAssumption
<1>3. CoreTyped => CoreTypeOK
  BY DEF CoreTyped
<1>4. QED
  BY <1>1, <1>2, <1>3, PTL DEF CoreSpec

(* However the requests of any number of panels, the deaths of a core and  *)
(* restarts of the program interleave, the manager                         *)
(* (internal/proxycore/manager.go) loses no core of this run that is       *)
(* alive, but for those a stop has waited for in vain; without them it     *)
(* never runs two.                                                         *)
THEOREM CoresAreInHand == CoreSpec => []NoCoreLost
<1>1. CoreInit => OneInv
  BY OneInit, CoreAssumption
<1>2. OneInv /\ [CoreNext]_coreVars => OneInv'
  BY OneNext, CoreAssumption
<1>3. OneInv => NoCoreLost
  BY DEF OneInv
<1>4. QED
  BY <1>1, <1>2, <1>3, PTL DEF CoreSpec

-----------------------------------------------------------------------------
(* No exit but a node's own, with one request of the panel at a time.      *)

LEMMA ExitInit ==
    ASSUME CoreAssumption, CoreInit
    PROVE  ExitInv
  BY TypeInit DEF CoreInit, ExitInv, PortsDiffer, OwnExit, ReadingOK, Held, Stored, NewRow, NoCall, Cores

(* A step after which a row has a port only if it had it before, and a     *)
(* core listens on a port only if it did.                                  *)
LosesPorts == \A n \in Node : Held(n)' => Held(n) /\ row'[n].port = row[n].port
LosesListeners ==
    \A c \in Cores' : c >= since' =>
        /\ c \in Cores /\ c >= since
        /\ core'[c].open = {} \/ core'[c] = core[c]

LEMMA RowsStep ==
    ASSUME ExitInv, LosesPorts
    PROVE  PortsDiffer'
<1> SUFFICES ASSUME NEW n \in Node, NEW m \in Node, Held(n)', Held(m)', row'[n].port = row'[m].port
             PROVE  n = m
  BY DEF PortsDiffer, Held
<1>1. Held(n) /\ Held(m) /\ row[n].port = row[m].port
  BY DEF LosesPorts
<1>2. QED
  BY <1>1 DEF ExitInv, PortsDiffer, Held

LEMMA ExitsStep ==
    ASSUME ExitInv, LosesPorts, LosesListeners
    PROVE  OwnExit'
<1> SUFFICES ASSUME NEW c \in Cores', NEW n \in Node, NEW m \in Node,
                    Held(n)', c >= since', row'[n].port \in core'[c].open,
                    core'[c].config[m] = row'[n].port
             PROVE  m = n
  BY DEF OwnExit
<1>1. c \in Cores /\ c >= since /\ core'[c] = core[c]
  BY DEF LosesListeners
<1>2. Held(n) /\ row'[n].port = row[n].port
  BY DEF LosesPorts
<1>3. QED
  BY <1>1, <1>2 DEF ExitInv, OwnExit

LEMMA ReadingStep ==
    ASSUME ExitInv, LosesPorts, NEW o \in Operator,
           call'[o].at = "allocate" => call'[o] = call[o]
    PROVE  ReadingOK(o)'
<1> SUFFICES ASSUME call'[o] = call[o], call[o].at = "allocate"
             PROVE  ReadingOK(o)'
  BY DEF ReadingOK
<1>1. ReadingOK(o)
  BY DEF ExitInv
<1>2. QED
  BY <1>1 DEF ReadingOK, LosesPorts

(* What a request reads is what the rows are. *)
LEMMA ReadStep ==
    ASSUME ExitInv, row' = row, NEW o \in Operator, Reading(o)
    PROVE  ReadingOK(o)'
<1> DEFINE todo == {n \in Node : Stored(n)}
           used == {row[n].port : n \in {m \in Node : Stored(m) /\ row[m].port # 0}}
           read == [at |-> "allocate", seen |-> row, todo |-> todo, used |-> used]
<1>1. call' = [call EXCEPT ![o] = read] /\ DOMAIN call = Operator
  BY DEF Reading, ExitInv, CoreTyped, CoreTypeOK
<1>2. call'[o].at = "allocate" /\ call'[o].seen = row /\ call'[o].todo = todo /\ call'[o].used = used
  BY <1>1
<1>3. \A m \in Node : Held(m) => row[m].port \in used
  BY DEF Held
<1>4. \A n \in todo : row[n].port # 0 =>
          /\ row[n].port \in used
          /\ \A m \in Node \ {n} : Held(m) => row[m].port # row[n].port
          /\ \A m \in todo \ {n} : row[m].port # row[n].port
  BY DEF Held, ExitInv, PortsDiffer
<1>5. \A m \in Node : Held(m)' = Held(m)
  BY DEF Held, Stored
<1> HIDE DEF todo, used, read
<1>6. QED
  BY <1>2, <1>3, <1>4, <1>5 DEF ReadingOK

LEMMA AllocateExit ==
    ASSUME CoreAssumption, ExitInv, \A o, p \in Operator : o = p,
           NEW o \in Operator, NEW n \in Node, Allocate(o, n)
    PROVE  PortsDiffer' /\ OwnExit' /\ ReadingOK(o)'
<1> DEFINE seen == call[o].seen
<1>0. /\ CoreTyped /\ PortsDiffer /\ OwnExit /\ ReadingOK(o)
      /\ row \in [Node -> NodeRow] /\ call \in [Operator -> CallRecord]
      /\ call[o].at = "allocate" /\ n \in call[o].todo
      /\ UNCHANGED <<core, since>>
  BY DEF ExitInv, CoreTyped, CoreTypeOK, CallRecord, Allocate
<1>1. PICK found \in Pool \cup {0} :
          /\ IF Keeps(o, n) THEN found = seen[n].port ELSE found \in PickFreePort(Others(o, n))
          /\ IF ~Keeps(o, n) /\ Stored(n)
             THEN row'[n] = [row[n] EXCEPT !.port = found]
             ELSE row'[n] = row[n]
          /\ \A m \in Node \ {n} : row'[m] = row[m]
          /\ call'[o] = [at |-> "allocate", todo |-> call[o].todo \ {n},
                         seen |-> [seen EXCEPT ![n] = NewRow],
                         used |-> IF Keeps(o, n) THEN call[o].used ELSE Others(o, n) \cup {found}]
  BY <1>0, AllocateType
<1>2. /\ call'[o].todo = call[o].todo \ {n}
      /\ \A m \in call'[o].todo : m \in Node /\ call'[o].seen[m] = seen[m]
      /\ call'[o].used = IF Keeps(o, n) THEN call[o].used ELSE Others(o, n) \cup {found}
  BY <1>0, <1>1 DEF CallRecord
<1>3. CASE Keeps(o, n)
  <2>1. \A m \in Node : row'[m] = row[m] /\ Held(m)' = Held(m)
    BY <1>1, <1>3 DEF Held, Stored
  <2>2. LosesPorts /\ LosesListeners
    BY <1>0, <2>1 DEF LosesPorts, LosesListeners, Cores
  <2>3. PortsDiffer' /\ OwnExit'
    BY <2>2, RowsStep, ExitsStep
  <2>4. ReadingOK(o)'
    BY <1>0, <1>2, <1>3, <2>1 DEF ReadingOK
  <2>5. QED
    BY <2>3, <2>4
<1>4. CASE ~Keeps(o, n)
  <2>1. /\ found \in Pool /\ found # 0 /\ found \notin Others(o, n) /\ Free(found)
        /\ call'[o].used = Others(o, n) \cup {found}
    BY <1>1, <1>2, <1>4 DEF PickFreePort, FreePort, CoreAssumption
  <2>2. /\ \A m \in Node \ {n} : Held(m)' = Held(m) /\ row'[m].port = row[m].port
        /\ Held(n)' => row'[n].port = found
    <3>1. \A m \in Node \ {n} : Held(m)' = Held(m) /\ row'[m].port = row[m].port
      BY <1>1 DEF Held, Stored
    <3>2. CASE Stored(n)
      BY <1>0, <1>1, <1>4, <3>1, <3>2 DEF NodeRow
    <3>3. CASE ~Stored(n)
      BY <1>1, <3>1, <3>3 DEF Held, Stored
    <3>4. QED
      BY <3>2, <3>3
  <2>3. \A m \in Node \ {n} : Held(m) => row[m].port \in Others(o, n)
    BY <1>0 DEF ReadingOK, Others
  <2>4. PortsDiffer'
    <3> SUFFICES ASSUME NEW a \in Node, NEW b \in Node, Held(a)', Held(b)',
                        row'[a].port = row'[b].port, a # b
                 PROVE  FALSE
      BY DEF PortsDiffer, Held
    <3>1. CASE a = n
      BY <2>1, <2>2, <2>3, <3>1
    <3>2. CASE b = n
      BY <2>1, <2>2, <2>3, <3>2
    <3>3. CASE a # n /\ b # n
      BY <1>0, <2>2, <3>3 DEF PortsDiffer, Held
    <3>4. QED
      BY <3>1, <3>2, <3>3
  <2>5. OwnExit'
    <3> SUFFICES ASSUME NEW c \in Cores', NEW a \in Node, NEW m \in Node,
                        Held(a)', c >= since', row'[a].port \in core'[c].open,
                        core'[c].config[m] = row'[a].port
                 PROVE  m = a
      BY DEF OwnExit
    <3>1. c \in Cores /\ core'[c] = core[c] /\ c >= since
      BY <1>0 DEF Cores
    <3>2. a # n
      BY <2>1, <2>2, <3>1 DEF Free
    <3>3. QED
      BY <1>0, <2>2, <3>1, <3>2 DEF OwnExit
  <2>6. ReadingOK(o)'
    <3>1. \A m \in Node : Held(m)' => row'[m].port \in call'[o].used
      BY <2>1, <2>2, <2>3
    <3>2. ASSUME NEW k \in call'[o].todo, seen[k].port # 0
          PROVE  /\ seen[k].port \in Others(o, n)
                 /\ \A m \in Node \ {k} : Held(m)' => row'[m].port # seen[k].port
                 /\ \A m \in call'[o].todo \ {k} : seen[m].port # seen[k].port
      <4>1. k \in call[o].todo \ {n} /\ k \in Node
        BY <1>2, <3>2
      <4>2. seen[k].port \in Others(o, n)
        BY <1>0, <3>2, <4>1 DEF ReadingOK, Others
      <4>3. \A m \in Node \ {k} : Held(m)' => row'[m].port # seen[k].port
        BY <1>0, <2>1, <2>2, <3>2, <4>1, <4>2 DEF ReadingOK
      <4>4. \A m \in call'[o].todo \ {k} : seen[m].port # seen[k].port
        BY <1>0, <1>2, <3>2, <4>1 DEF ReadingOK
      <4>5. QED
        BY <4>2, <4>3, <4>4
    <3>3. QED
      BY <1>2, <2>1, <3>1, <3>2 DEF ReadingOK
  <2>7. QED
    BY <2>4, <2>5, <2>6
<1>5. QED
  BY <1>3, <1>4

LEMMA SpawnExit ==
    ASSUME CoreAssumption, ExitInv, NEW o \in Operator, Spawn(o)
    PROVE  OwnExit'
<1> SUFFICES ASSUME NEW c \in Cores', NEW n \in Node, NEW m \in Node,
                    Held(n)', c >= since', row'[n].port \in core'[c].open,
                    core'[c].config[m] = row'[n].port
             PROVE  m = n
  BY DEF OwnExit
<1>0. CoreTyped /\ PortsDiffer /\ OwnExit /\ UNCHANGED <<row, since>>
  BY DEF ExitInv, Spawn
<1>1. Held(n)
  BY <1>0 DEF Held, Stored
<1>2. /\ Cores' = Cores \cup {handle'}
      /\ \A d \in Cores : core'[d] = core[d]
      /\ core'[handle'].config = [k \in Node |-> IF InUse(k) THEN row[k].port ELSE 0]
  BY <1>0, SpawnType
<1>3. CASE c \in Cores
  BY <1>0, <1>1, <1>2, <1>3 DEF OwnExit
<1>4. CASE c = handle'
  <2>1. (IF InUse(m) THEN row[m].port ELSE 0) = row[n].port
    BY <1>0, <1>2, <1>4
  <2>2. QED
    BY <1>0, <1>1, <2>1 DEF Held, InUse, PortsDiffer
<1>5. QED
  BY <1>2, <1>3, <1>4

LEMMA ExitNext ==
    ASSUME CoreAssumption, ExitInv, [CoreNext]_coreVars, \A o, p \in Operator : o = p
    PROVE  ExitInv'
<1>0. CoreTyped /\ row \in [Node -> NodeRow] /\ DOMAIN call = Operator /\ Cardinality(Cores) \in Nat
  BY DEF ExitInv, CoreTyped, CoreTypeOK
<1>1. CoreTyped'
  BY <1>0, TypeNext
<1>2. (row' = row => LosesPorts) /\ (UNCHANGED <<core, since>> => LosesListeners)
  BY DEF LosesPorts, LosesListeners, Held, Stored, Cores
<1>3. StopLocked /\ since' = since => LosesListeners
  BY <1>0, StopType DEF LosesListeners, Dead
<1>4. ASSUME LosesPorts, LosesListeners,
             \A o \in Operator : ReadingOK(o)'
      PROVE  ExitInv'
  BY <1>1, <1>4, RowsStep, ExitsStep DEF ExitInv
<1>5. ASSUME LosesPorts, LosesListeners,
             \A o \in Operator : call'[o].at = "allocate" => call'[o] = call[o]
      PROVE  ExitInv'
  BY <1>4, <1>5, ReadingStep
<1>6. ASSUME UNCHANGED <<core, since, call>>, LosesPorts
      PROVE  ExitInv'
  BY <1>2, <1>5, <1>6
<1>7. ASSUME NEW n \in Node, NEW on \in BOOLEAN,
             ProxyNodeCreate(n, on) \/ ProxyNodeUpdate(n) \/ ProxyNodeDelete(n)
      PROVE  ExitInv'
  <2>1. LosesPorts
    <3> SUFFICES ASSUME NEW m \in Node, Held(m)' PROVE Held(m) /\ row'[m].port = row[m].port
      BY DEF LosesPorts
    <3>1. CASE ProxyNodeCreate(n, on)
      BY <1>0, <3>1 DEF ProxyNodeCreate, Held, Stored
    <3>2. CASE ProxyNodeUpdate(n)
      BY <1>0, <3>2 DEF ProxyNodeUpdate, Held, Stored, NodeRow
    <3>3. CASE ProxyNodeDelete(n)
      BY <1>0, <3>3 DEF ProxyNodeDelete, Held, Stored, NewRow
    <3>4. QED
      BY <1>7, <3>1, <3>2, <3>3
  <2>2. UNCHANGED <<core, since, call>>
    BY <1>7 DEF ProxyNodeCreate, ProxyNodeUpdate, ProxyNodeDelete
  <2>3. QED
    BY <1>6, <2>1, <2>2
<1>8. ASSUME NEW S \in SUBSET Node, ProxySubscriptionDelete(S) PROVE ExitInv'
  <2>1. LosesPorts /\ UNCHANGED <<core, since, call>>
    BY <1>0, <1>8 DEF ProxySubscriptionDelete, LosesPorts, Held, Stored, NewRow
  <2>2. QED
    BY <1>6, <2>1
<1>9. ASSUME NEW o \in Operator, Proceed(o) PROVE ExitInv'
  <2>0. \A p \in Operator : p = o
    OBVIOUS
  <2>1. ASSUME NEW n \in Node, Allocate(o, n) PROVE ExitInv'
    BY <1>1, <2>0, <2>1, AllocateExit DEF ExitInv
  <2>2. CASE AllocateFails(o) \/ SpawnFails(o) \/ Ready(o)
    <3>1. UNCHANGED <<row, core, since>> /\ call'[o].at = "idle"
      BY <1>0, <2>2 DEF AllocateFails, SpawnFails, Ready, Return, NoCall
    <3>2. QED
      BY <1>2, <1>5, <2>0, <3>1
  <2>3. CASE ReleaseDisabledPorts(o)
    <3>1. UNCHANGED <<core, since>> /\ call'[o].at \in {"spawn", "idle"}
      BY <1>0, <2>3 DEF ReleaseDisabledPorts, NoCall
    <3>2. LosesPorts
      BY <1>0, <2>3 DEF ReleaseDisabledPorts, Released, LosesPorts, Held, Stored, NodeRow
    <3>3. QED
      BY <1>2, <1>5, <2>0, <3>1, <3>2
  <2>4. CASE Spawn(o)
    <3>1. row' = row /\ call'[o].at = "wait"
      BY <1>0, <2>4, SpawnType DEF Spawn
    <3>2. PortsDiffer' /\ ReadingOK(o)'
      BY <1>2, <3>1, RowsStep DEF ReadingOK
    <3>3. QED
      BY <1>1, <2>0, <2>4, <3>2, SpawnExit DEF ExitInv
  <2>5. CASE NotReady(o)
    <3>1. row' = row /\ StopLocked /\ since' = since /\ call'[o].at = "idle"
      BY <1>0, <2>5 DEF NotReady, Return, NoCall
    <3>2. QED
      BY <1>2, <1>3, <1>5, <2>0, <3>1
  <2>6. QED
    BY <1>9, <2>1, <2>2, <2>3, <2>4, <2>5 DEF Proceed
<1>10. ASSUME NEW o \in Operator, Start(o) \/ ProxyCorePorts(o) PROVE ExitInv'
  <2>1. /\ row' = row /\ Reading(o)
        /\ (StopLocked /\ since' = since) \/ UNCHANGED <<core, since>>
    BY <1>10 DEF Start, ProxyCorePorts
  <2>2. \A p \in Operator : ReadingOK(p)'
    BY <2>1, ReadStep
  <2>3. QED
    BY <1>2, <1>3, <1>4, <2>1, <2>2
<1>11. CASE Stop
  BY <1>2, <1>3, <1>5, <1>11 DEF Stop
<1>12. ASSUME NEW c \in Cores, Guard(c) \/ CoreDies(c) PROVE ExitInv'
  <2>1. UNCHANGED <<row, since, call>>
    BY <1>12 DEF Guard, CoreDies
  <2>2. LosesListeners
    <3>1. CASE Guard(c)
      BY <1>2, <2>1, <3>1 DEF Guard
    <3>2. CASE CoreDies(c)
      BY <1>0, <2>1, <3>2, EndedType DEF CoreDies, LosesListeners, Dead, Cores
    <3>3. QED
      BY <1>12, <3>1, <3>2
  <2>3. QED
    BY <1>2, <1>5, <2>1, <2>2
<1>13. CASE RestartProgram
  <2>1. /\ UNCHANGED <<row, core>> /\ since' = Cardinality(Cores) + 1
        /\ \A o \in Operator : call'[o].at = "idle"
    BY <1>13 DEF RestartProgram, NoCall
  <2>2. LosesListeners
    BY <1>0, <2>1 DEF CoreTyped, CoreTypeOK, LosesListeners, Cores
  <2>3. QED
    BY <1>2, <1>5, <2>1, <2>2
<1>14. CASE (\E p \in Pool : Occupy(p) \/ Vacate(p)) \/ UNCHANGED coreVars
  BY <1>2, <1>6, <1>14 DEF Occupy, Vacate, coreVars
<1>15. QED
  BY <1>7, <1>8, <1>9, <1>10, <1>11, <1>12, <1>13, <1>14 DEF CoreNext

(* With one request of the panel at a time, whatever it does to nodes and  *)
(* ports while the core runs with an older configuration, what is sent to  *)
(* the port in a node's row (internal/op/proxy_node.go) leaves through     *)
(* that node or not at all.  With two requests under way it does not hold: *)
(* both read the rows before either has written a port.                    *)
THEOREM EveryNodeItsOwnExit ==
    ASSUME \A o, p \in Operator : o = p
    PROVE  CoreSpec => []NeverAnotherExit
<1>1. CoreInit => ExitInv
  BY ExitInit, CoreAssumption
<1>2. ExitInv /\ [CoreNext]_coreVars => ExitInv'
  BY ExitNext, CoreAssumption
<1>3. ExitInv => NeverAnotherExit
  BY DEF ExitInv, OwnExit, NeverAnotherExit, Held, InUse
<1>4. QED
  BY <1>1, <1>2, <1>3, PTL DEF CoreSpec
=============================================================================
