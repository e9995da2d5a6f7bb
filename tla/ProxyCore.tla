------------------------------- MODULE ProxyCore -------------------------------
(***************************************************************************)
(* The proxy core (internal/proxycore) and the pool of nodes it serves     *)
(* (internal/op/proxy_node.go).  Every enabled node of the pool gets a     *)
(* local port; the core is one process that listens on these ports and     *)
(* sends what arrives at a port out through the port's node.  An account   *)
(* bound to a node uses the port in the node's row.                        *)
(*                                                                         *)
(* Requests of the panel run step by step; besides them the core dies,     *)
(* other programs take ports, the process is restarted and leaves its core *)
(* behind.  Ports and nodes are numbers: both are taken in order.          *)
(***************************************************************************)
EXTENDS Naturals, FiniteSets, FiniteSetsExt

CONSTANTS
    Node,         \* nodes that are ever created, by id
    Pool,         \* ports of the configured range
    Bound,        \* nodes a channel or an account is bound to
    Operator,     \* requests of the panel that may be under way at once
    MaxCore,      \* bound on the cores started
    MaxOccupied,  \* bound on the ports taken by other programs
    MaxRestarts   \* bound on restarts

ASSUME CoreAssumption ==
    /\ Node \subseteq Nat \ {0} /\ Pool \subseteq Nat \ {0} /\ Bound \subseteq Node
    /\ IsFiniteSet(Node) /\ IsFiniteSet(Pool) /\ 0 \notin Operator
    /\ {MaxCore, MaxOccupied, MaxRestarts} \subseteq Nat

VARIABLES
    row,          \* rows of proxy_nodes
    core,         \* the cores started so far, each a process with its listeners
    since,        \* the first core of this run of the program
    handle,       \* manager.cmd, 0 for nil
    abandoned,    \* history: live cores of this run a stop has given up on
    mutex,        \* manager.mu: who holds it, 0 for nobody
    occupied,     \* ports other programs listen on
    call,         \* what each request of the panel is doing
    restarts

coreVars == <<row, core, since, handle, abandoned, mutex, occupied, call, restarts>>

Cores == DOMAIN core
NewRow == [life |-> "absent", enabled |-> FALSE, port |-> 0]
NoCall == [at |-> "idle", todo |-> {}, seen |-> [n \in Node |-> NewRow], used |-> {}]

Stored(n) == row[n].life = "stored"
InUse(n) == Stored(n) /\ row[n].enabled /\ row[n].port # 0
Free(p) == p \notin occupied /\ \A c \in Cores : p \notin core[c].open

Goto(o, place) == call' = [call EXCEPT ![o].at = place]
Return(o) == call' = [call EXCEPT ![o] = NoCall]
Unlock == mutex' = 0

(* A process that ends leaves its ports.                                *)
Dead == [alive |-> FALSE, open |-> {}, config |-> [n \in Node |-> 0]]
Ended(c) == [core EXCEPT ![c] = Dead]

(* stopLocked: the core ends within five seconds or is given up; what the  *)
(* command that kills it answers is not looked at (platform_other.go,      *)
(* platform_windows.go).                                                   *)
Killed == IF handle = 0 THEN core ELSE Ended(handle)
StopLocked ==
    /\ handle' = 0
    /\ \/ core' = Killed /\ UNCHANGED abandoned
       \/ /\ handle # 0 /\ core[handle].alive
          /\ abandoned' = abandoned \cup {handle}
          /\ UNCHANGED core

-----------------------------------------------------------------------------
(* The pool of nodes.                                                      *)

(* Also a new name in ProxyNodeImportYAML.  A new node has no port. *)
ProxyNodeCreate(n, on) ==
    /\ row[n].life = "absent"
    /\ row' = [row EXCEPT ![n] = [life |-> "stored", enabled |-> on, port |-> 0]]
    /\ UNCHANGED <<core, since, handle, abandoned, mutex, occupied, call, restarts>>

(* The row keeps its port, whatever happens to the node. *)
ProxyNodeUpdate(n) ==
    /\ Stored(n)
    /\ row' = [row EXCEPT ![n].enabled = ~@]
    /\ UNCHANGED <<core, since, handle, abandoned, mutex, occupied, call, restarts>>

ProxyNodeDelete(n) ==
    /\ Stored(n) /\ n \notin Bound
    /\ row' = [row EXCEPT ![n] = [NewRow EXCEPT !.life = "deleted"]]
    /\ UNCHANGED <<core, since, handle, abandoned, mutex, occupied, call, restarts>>

(* The nodes of a subscription go with it, or none of them. *)
ProxySubscriptionDelete(S) ==
    /\ \A n \in S : Stored(n) /\ n \notin Bound
    /\ row' = [n \in Node |-> IF n \in S THEN [NewRow EXCEPT !.life = "deleted"] ELSE row[n]]
    /\ UNCHANGED <<core, since, handle, abandoned, mutex, occupied, call, restarts>>

-----------------------------------------------------------------------------
(* allocatePorts: the rows are read, then a port is found for every        *)
(* enabled node in turn; a node whose port is still free keeps it.         *)

Reading(o) ==
    call' = [call EXCEPT ![o] =
        [at |-> "allocate", seen |-> row,
         todo |-> {n \in Node : Stored(n)},
         used |-> {row[n].port : n \in {m \in Node : Stored(m) /\ row[m].port # 0}}]]

FreeButListened(p) == p \notin occupied         \* mutant: the core's own ports count as free
FreePort(p) == Free(p)
PickAnyPort(used) == {p \in Pool : FreePort(p)}   \* mutant: the rows are not looked at
PickPastTheEnd(used) ==                          \* mutant: one port too many
    {p \in Pool \cup {Max(Pool) + 1} : p \notin used /\ FreePort(p)}
PickFreePort(used) == {p \in Pool : p \notin used /\ FreePort(p)}

Allocate(o, n) ==
    LET mine == call[o].seen[n]
        others == IF mine.port = 0 THEN call[o].used ELSE call[o].used \ {mine.port}
        free == PickFreePort(others)
        keeps == ~mine.enabled \/ (mine.port \in Pool /\ FreePort(mine.port))
        first == {p \in free : \A q \in free : p <= q}
    IN
    /\ call[o].at = "allocate"
    /\ n \in call[o].todo /\ \A m \in call[o].todo : n <= m
    /\ \E found \in IF keeps THEN {mine.port} ELSE first :
          /\ row' = IF ~keeps /\ Stored(n) THEN [row EXCEPT ![n].port = found] ELSE row
          /\ call' = [call EXCEPT ![o] =
                 [at |-> "allocate", todo |-> call[o].todo \ {n},
                  seen |-> [call[o].seen EXCEPT ![n] = NewRow],
                  used |-> IF keeps THEN call[o].used ELSE others \cup {found}]]
    /\ UNCHANGED <<core, since, handle, abandoned, mutex, occupied, restarts>>

(* No port is left, or a row cannot be written. *)
AllocateFails(o) ==
    /\ call[o].at = "allocate" /\ call[o].todo # {}
    /\ Return(o)
    /\ IF mutex = o THEN Unlock ELSE UNCHANGED mutex
    /\ UNCHANGED <<row, core, since, handle, abandoned, occupied, restarts>>

(* ReleaseDisabledPorts, after the ports were allocated. *)
Released == [n \in Node |-> IF Stored(n) /\ ~row[n].enabled THEN [row[n] EXCEPT !.port = 0] ELSE row[n]]

ReleaseDisabledPorts(o) ==
    /\ call[o].at = "allocate" /\ call[o].todo = {}
    /\ row' = Released
    /\ call' = [call EXCEPT ![o] = [NoCall EXCEPT !.at = IF mutex = o THEN "spawn" ELSE "idle"]]
    /\ UNCHANGED <<core, since, handle, abandoned, mutex, occupied, restarts>>

-----------------------------------------------------------------------------
(* The manager.                                                            *)

(* Start: the core is stopped before anything else is done. *)
Start(o) ==
    /\ call[o].at = "idle" /\ mutex = 0
    /\ mutex' = o
    /\ StopLocked
    /\ Reading(o)
    /\ UNCHANGED <<row, since, occupied, restarts>>

(* Stop, and Sync when no node is enabled. *)
Stop ==
    /\ mutex = 0
    /\ StopLocked
    /\ UNCHANGED <<row, since, mutex, occupied, call, restarts>>

(* BuildConfig and the new process, which tries its ports once, at its     *)
(* start, and runs on without those it cannot get.                         *)
Spawn(o) ==
    LET served == {n \in Node : InUse(n)}
        ports == {row[n].port : n \in served}
        c == Cardinality(Cores) + 1
    IN
    /\ call[o].at = "spawn"
    /\ served # {} /\ c <= MaxCore
    /\ core' = [i \in Cores \cup {c} |->
                  IF i \in Cores THEN core[i]
                  ELSE [alive |-> TRUE, open |-> {p \in ports : Free(p)},
                        config |-> [n \in Node |-> IF n \in served THEN row[n].port ELSE 0]]]
    /\ handle' = c
    /\ Goto(o, "wait")
    /\ UNCHANGED <<row, since, abandoned, mutex, occupied, restarts>>

(* No node, a node that cannot be decrypted, a core that does not start. *)
SpawnFails(o) ==
    /\ call[o].at = "spawn"
    /\ Return(o) /\ Unlock
    /\ UNCHANGED <<row, core, since, handle, abandoned, occupied, restarts>>

Config(c) == {core[c].config[n] : n \in Node} \ {0}

(* waitListeners: somebody listens on every port, or the core is stopped. *)
Ready(o) ==
    /\ call[o].at = "wait"
    /\ \A p \in Config(handle) : ~Free(p)
    /\ Return(o) /\ Unlock
    /\ UNCHANGED <<row, core, since, handle, abandoned, occupied, restarts>>

NotReady(o) ==
    /\ call[o].at = "wait"
    /\ StopLocked
    /\ Return(o) /\ Unlock
    /\ UNCHANGED <<row, since, occupied, restarts>>

(* The goroutine that waits for a core clears the handle if it is still    *)
(* this core's.                                                            *)
OwnHandleUnchecked(c) == TRUE                    \* mutant: whoever ends clears the handle
OwnHandle(c) == handle = c

Guard(c) ==
    /\ ~core[c].alive /\ c >= since /\ mutex = 0
    /\ handle' = IF OwnHandle(c) THEN 0 ELSE handle
    /\ UNCHANGED <<row, core, since, abandoned, mutex, occupied, call, restarts>>

(* The panel's button that only allocates ports: the lock is not taken. *)
ProxyCorePorts(o) ==
    /\ call[o].at = "idle"
    /\ Reading(o)
    /\ UNCHANGED <<row, core, since, handle, abandoned, mutex, occupied, restarts>>

-----------------------------------------------------------------------------
(* Around the manager.                                                     *)

CoreDies(c) ==
    /\ core[c].alive
    /\ core' = Ended(c)
    /\ abandoned' = abandoned \ {c}
    /\ UNCHANGED <<row, since, handle, mutex, occupied, call, restarts>>

Occupy(p) ==
    /\ Free(p) /\ Cardinality(occupied) < MaxOccupied
    /\ occupied' = occupied \cup {p}
    /\ UNCHANGED <<row, core, since, handle, abandoned, mutex, call, restarts>>

Vacate(p) ==
    /\ p \in occupied
    /\ occupied' = occupied \ {p}
    /\ UNCHANGED <<row, core, since, handle, abandoned, mutex, call, restarts>>

(* The program ends without stopping its core. *)
RestartProgram ==
    /\ restarts < MaxRestarts
    /\ restarts' = restarts + 1
    /\ since' = Cardinality(Cores) + 1
    /\ handle' = 0 /\ abandoned' = {}
    /\ mutex' = 0
    /\ call' = [o \in Operator |-> NoCall]
    /\ UNCHANGED <<row, core, occupied>>

-----------------------------------------------------------------------------
CoreInit ==
    /\ row = [n \in Node |-> NewRow]
    /\ core = [c \in {} |-> 0]
    /\ since = 1
    /\ handle = 0 /\ abandoned = {}
    /\ mutex = 0
    /\ occupied = {}
    /\ call = [o \in Operator |-> NoCall]
    /\ restarts = 0

(* What a request does once it is in allocatePorts or Start. *)
Proceed(o) ==
    \/ \E n \in Node : Allocate(o, n)
    \/ AllocateFails(o) \/ ReleaseDisabledPorts(o)
    \/ Spawn(o) \/ SpawnFails(o) \/ Ready(o) \/ NotReady(o)

CoreNext ==
    \/ \E n \in Node : (\E on \in BOOLEAN : ProxyNodeCreate(n, on))
                       \/ ProxyNodeUpdate(n) \/ ProxyNodeDelete(n)
    \/ \E S \in SUBSET Node : ProxySubscriptionDelete(S)
    \/ \E o \in Operator : Proceed(o) \/ Start(o) \/ ProxyCorePorts(o)
    \/ Stop
    \/ \E c \in Cores : Guard(c) \/ CoreDies(c)
    \/ \E p \in Pool : Occupy(p) \/ Vacate(p)
    \/ RestartProgram

CoreSpec == CoreInit /\ [][CoreNext]_coreVars

-----------------------------------------------------------------------------
(* Properties.                                                             *)

NodeRow == [life : {"absent", "stored", "deleted"}, enabled : BOOLEAN, port : Pool \cup {0}]

(* Every variable has its shape.                                           *)
CoreTypeOK ==
    /\ row \in [Node -> NodeRow]
    /\ Cores = 1..Cardinality(Cores) /\ Cardinality(Cores) <= MaxCore
    /\ \A c \in Cores : core[c] \in [alive : BOOLEAN, open : SUBSET Pool,
                                     config : [Node -> Pool \cup {0}]]
    /\ since \in 1..(MaxCore + 1)
    /\ handle \in Cores \cup {0} /\ abandoned \subseteq Cores /\ mutex \in Operator \cup {0}
    /\ occupied \subseteq Pool
    /\ call \in [Operator -> [at : {"idle", "allocate", "spawn", "wait"},
                              todo : SUBSET Node, seen : [Node -> NodeRow], used : SUBSET Pool]]
    /\ restarts \in 0..MaxRestarts

(* What is sent to the port of a node never leaves through another node:   *)
(* whatever the panel did to nodes and ports while the core runs with an   *)
(* older configuration, an account keeps to the exit it is bound to.       *)
NeverAnotherExit ==
    \A c \in Cores, n, m \in Node :
        InUse(n) /\ c >= since /\ row[n].port \in core[c].open /\ core[c].config[m] = row[n].port
            => m = n

(* Two nodes never have the same port. *)
PortsDiffer ==
    \A n, m \in Node : Stored(n) /\ Stored(m) /\ row[n].port = row[m].port /\ row[n].port # 0 => n = m

(* The manager loses no core: one of this run that is alive is the one in  *)
(* the handle, which it can stop, or one it has tried to stop in vain -    *)
(* although the goroutine that waits for a core outlives it, and a new     *)
(* core may be in the handle when the goroutine gets the lock.             *)
NoCoreLost == \A c \in Cores : core[c].alive /\ c >= since => handle = c \/ c \in abandoned

(* internal/proxycore/manager.go:69: one set of ports, one process.        *)
OneCore == \A c, d \in Cores : core[c].alive /\ core[d].alive /\ c >= since /\ d >= since => c = d

(* A port that a running core serves stays its node's as long as the node  *)
(* is enabled and the core is not restarted.                               *)
ExitsKeepWorking ==
    [][\A n \in Node : InUse(n) /\ handle # 0 /\ handle' = handle /\ row[n].port \in core[handle].open
          /\ row'[n].life = "stored" /\ row'[n].enabled => row'[n].port = row[n].port]_coreVars
=============================================================================
