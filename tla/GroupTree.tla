------------------------------ MODULE GroupTree ------------------------------
(***************************************************************************)
(* Groups whose members are grants of channels or other groups             *)
(* (internal/op/group.go, group_prune.go): requests of the panel check and *)
(* write the rows, then replace the cached copy; requests of clients       *)
(* flatten the cached tree into the members they may be forwarded to.      *)
(*                                                                         *)
(* A group stands for its id and its name.  An item is known by its group  *)
(* and what it refers to, the key syncGroupItems matches by.  Each write   *)
(* is one transaction; between it and the cache anything may happen.       *)
(***************************************************************************)
EXTENDS Naturals, FiniteSets, SequencesExt, Graphs

CONSTANTS
    Group,      \* groups, by id; ids are never given twice
    Channel,    \* channels
    Grant,      \* grants of the channels' models
    ChannelOf,  \* the channel of each grant
    AutoGroup,  \* the group named after the channel and the model of each grant
    ItemLists,  \* the lists of items that the panel submits
    MaxDepth,   \* GroupItemMaxDepth (8 in the code)
    Operator    \* requests of the panel that may be under way at once

ASSUME TreeAssumption ==
    /\ IsFiniteSet(Group) /\ IsFiniteSet(Grant) /\ Group \cap Grant = {}
    /\ ChannelOf \in [Grant -> Channel] /\ AutoGroup \in [Grant -> Group]
    /\ \A s \in ItemLists : s \in Seq(Group \cup Grant) /\ IsInjective(s)
    /\ MaxDepth \in Nat

VARIABLES
    rows,       \* the groups in the database and their items, in order
    retired,    \* ids of groups that are gone
    granted,    \* the grants there are
    enabled,    \* the channels that are switched on
    cache,      \* groupCache
    edit,       \* what each request of the panel is doing
    failed      \* a reload has failed since the groups were last loaded

treeVars == <<rows, retired, granted, enabled, cache, edit, failed>>

NoEdit == [at |-> "idle", group |-> {}, items |-> <<>>, copy |-> [g \in {} |-> <<>>]]
Ref == Group \cup Grant

Goto(o, place) == edit' = [edit EXCEPT ![o].at = place]
Done(o) == edit' = [edit EXCEPT ![o] = NoEdit]
Put(t, g, items) == [h \in DOMAIN t \cup {g} |-> IF h = g THEN items ELSE t[h]]

(* The items that are not in S. *)
Without(items, S) ==
    LET kept[i \in 0..Len(items)] ==
            IF i = 0 THEN <<>>
            ELSE IF items[i] \in S THEN kept[i - 1] ELSE Append(kept[i - 1], items[i])
    IN kept[Len(items)]

-----------------------------------------------------------------------------
(* The tree of a table t (the rows, or the cache).                         *)

Children(items) == ToSet(items) \cap Group
Nesting(t) == [node |-> Group, edge |-> {e \in Group \X Group :
                                            e[1] \in DOMAIN t /\ e[2] \in Children(t[e[1]])}]

(* The groups n steps below the groups S. *)
Below(t, S, n) ==
    LET nesting == Nesting(t)
        level[i \in 0..n] == IF i = 0 THEN S ELSE AllSuccessors(nesting, level[i - 1])
    IN level[n]

(* validateChildGroupRefs: the children exist and no chain from them comes *)
(* back to g or goes too deep.                                             *)
NamesNotItself(t, g, items) ==                   \* mutant: only the group itself is refused
    Children(items) \subseteq DOMAIN t \ {g}
ValidChildren(t, g, items) ==
    /\ Children(items) \subseteq DOMAIN t \ {g}
    /\ \A n \in 0..(MaxDepth - 1) : g \notin Below(t, Children(items), n)
    /\ Below(t, Children(items), MaxDepth) = {}

(* flattenIntoWithTier, without its set of seen items: the grants below a  *)
(* list of items of g, in order, each with the group it is an item of.     *)
TooDeep(depth) == depth > MaxDepth

(* One item of a list of h, with the walks from the next depth. *)
Step(item, h, path, deeper) ==
    IF item \in Grant THEN << <<h, item>> >>
    ELSE IF item \in DOMAIN cache \ path
         THEN deeper[<<cache[item], item, path \cup {item}>>]
         ELSE <<>>

Walk(g, items) ==
    LET walk[depth \in 0..(MaxDepth + 1)] ==
            [from \in Seq(Ref) \X Group \X SUBSET Group |->
                IF TooDeep(depth) THEN <<>>
                ELSE FlattenSeq([i \in 1..Len(from[1]) |->
                                    Step(from[1][i], from[2], from[3], walk[depth + 1])])]
    IN walk[0][<<items, g, {g}>>]

(* An item that was seen is not taken again. *)
SeenForgotten(s) == s                            \* mutant: shared subgroups are merged twice
FirstOnly(s) ==
    LET out[i \in 0..Len(s)] ==
            IF i = 0 THEN <<>>
            ELSE LET seen == out[i - 1]
                 IN IF s[i] \in ToSet(seen) THEN seen ELSE Append(seen, s[i])
    IN out[Len(s)]

FlattenGroupItems(g, items) == FirstOnly(Walk(g, items))

(* groupSnapshot: a grant is available if its channel is on, a subgroup if *)
(* something it flattens to is.                                            *)
Usable(item) == item[2] \in granted /\ ChannelOf[item[2]] \in enabled
UsableDirectly(c) ==                             \* mutant: only its own grants count
    \E l \in ToSet(cache[c]) \cap Grant : Usable(<<c, l>>)
UsableBelow(c) == \E item \in ToSet(FlattenGroupItems(c, cache[c])) : Usable(item)
Available(g, ref) ==
    IF ref \in Grant THEN Usable(<<g, ref>>) ELSE ref \in DOMAIN cache /\ UsableBelow(ref)

(* GroupGetByName leaves the others out; a request is forwarded to what    *)
(* the rest flattens to.                                                   *)
GroupGetByName(g) == Without(cache[g], {ref \in Ref : ~Available(g, ref)})
Offered(g) == FlattenGroupItems(g, GroupGetByName(g))

-----------------------------------------------------------------------------
(* Requests about groups.                                                  *)

(* GroupCreate checks in one transaction and writes in another. *)
GroupCreate(o, g, items) ==
    /\ edit[o].at = "idle" /\ g \notin DOMAIN rows \cup retired
    /\ ValidChildren(rows, g, items)
    /\ edit' = [edit EXCEPT ![o] = [NoEdit EXCEPT !.at = "create", !.group = {g}, !.items = items]]
    /\ UNCHANGED <<rows, retired, granted, enabled, cache, failed>>

(* A name that is taken by then is refused.  One that was taken and given  *)
(* up would come with another id: that is left out.                        *)
CreateRow(o) ==
    /\ edit[o].at = "create"
    /\ \E g \in edit[o].group :
          IF g \in DOMAIN rows \cup retired THEN Done(o) /\ UNCHANGED rows
          ELSE Goto(o, "cache") /\ rows' = Put(rows, g, edit[o].items)
    /\ UNCHANGED <<retired, granted, enabled, cache, failed>>

(* GroupUpdate, with syncGroupItems. *)
GroupUpdate(o, g, items) ==
    /\ edit[o].at = "idle" /\ g \in DOMAIN cache \cap DOMAIN rows
    /\ ValidChildren(rows, g, items)
    /\ rows' = Put(rows, g, items)
    /\ edit' = [edit EXCEPT ![o] = [NoEdit EXCEPT !.at = "cache", !.group = {g}, !.items = items]]
    /\ UNCHANGED <<retired, granted, enabled, cache, failed>>

CacheGroup(o) ==
    /\ edit[o].at = "cache"
    /\ \E g \in edit[o].group : cache' = Put(cache, g, edit[o].items)
    /\ Done(o)
    /\ UNCHANGED <<rows, retired, granted, enabled, failed>>

(* GroupDel: the items of other groups that refer to it go too. *)
RefsDropped(g) == [h \in DOMAIN rows \ {g} |-> Without(rows[h], {g})]

GroupDel(o, g) ==
    /\ edit[o].at = "idle" /\ g \in DOMAIN cache \cap DOMAIN rows
    /\ rows' = RefsDropped(g)
    /\ retired' = retired \cup {g}
    /\ edit' = [edit EXCEPT ![o] = [NoEdit EXCEPT !.at = "uncache", !.group = {g}]]
    /\ UNCHANGED <<granted, enabled, cache, failed>>

ReloadSkipped == "idle"                          \* mutant: the other groups are not reloaded
AfterDelete == "reload"

UncacheGroup(o) ==
    /\ edit[o].at = "uncache"
    /\ cache' = [h \in DOMAIN cache \ edit[o].group |-> cache[h]]
    /\ edit' = [edit EXCEPT ![o] = [NoEdit EXCEPT !.at = AfterDelete]]
    /\ UNCHANGED <<rows, retired, granted, enabled, failed>>

-----------------------------------------------------------------------------
(* groupRefreshCache.                                                      *)

ReadGroups(o) ==
    /\ edit[o].at = "reload"
    /\ edit' = [edit EXCEPT ![o] = [NoEdit EXCEPT !.at = "clear", !.copy = rows]]
    /\ UNCHANGED <<rows, retired, granted, enabled, cache, failed>>

ReadFails(o) ==
    /\ edit[o].at = "reload"
    /\ failed' = TRUE
    /\ Done(o)
    /\ UNCHANGED <<rows, retired, granted, enabled, cache>>

ClearCache(o) ==
    /\ edit[o].at = "clear"
    /\ cache' = NoEdit.copy
    /\ Goto(o, "fill")
    /\ UNCHANGED <<rows, retired, granted, enabled, failed>>

(* One group after the other, in any order. *)
FillCache(o, g) ==
    /\ edit[o].at = "fill" /\ g \in DOMAIN edit[o].copy \ DOMAIN cache
    /\ cache' = Put(cache, g, edit[o].copy[g])
    /\ UNCHANGED <<rows, retired, granted, enabled, edit, failed>>

FillDone(o) ==
    /\ edit[o].at = "fill" /\ DOMAIN edit[o].copy \subseteq DOMAIN cache
    /\ failed' = FALSE
    /\ Done(o)
    /\ UNCHANGED <<rows, retired, granted, enabled, cache>>

-----------------------------------------------------------------------------
(* The channels.                                                           *)

(* ensureAutoGroupsLocked: every grant is in the group of its model, which *)
(* is made if it is missing.  pruneStaleAutoGroups: as grants take their   *)
(* items with them, what is left to delete are groups of that name without *)
(* an item, as long as another one has items.                              *)
WithAutoGroupsTwice(t, S) ==                     \* mutant: what is there is added again
    [g \in DOMAIN t \cup {AutoGroup[l] : l \in S} |->
        (IF g \in DOMAIN t THEN t[g] ELSE <<>>) \o SetToSeq({l \in S : AutoGroup[l] = g})]
WithAutoGroups(t, S) ==
    [g \in DOMAIN t \cup {AutoGroup[l] : l \in S} |->
        LET own == {l \in S : AutoGroup[l] = g}
            old == IF g \in DOMAIN t THEN t[g] ELSE <<>>
        IN old \o SetToSeq(own \ ToSet(old))]

Pruned(t, owned) ==
    LET named == DOMAIN t \cap {AutoGroup[l] : l \in owned}
        empty == {g \in named : t[g] = <<>>}
    IN IF empty = named THEN t ELSE [g \in DOMAIN t \ empty |-> t[g]]

(* ChannelUpdate with the grants S; ChannelDel when there are none left.   *)
ChannelUpdate(o, channel, S) ==
    LET owned == {l \in Grant : ChannelOf[l] = channel}
        lost == owned \ S
        kept == [g \in DOMAIN rows |-> Without(rows[g], lost)]
        next == IF S = {} THEN kept ELSE Pruned(WithAutoGroups(kept, S), owned)
    IN
    /\ edit[o].at = "idle"
    /\ S \subseteq owned /\ {AutoGroup[l] : l \in S} \cap retired = {}
    /\ granted' = (granted \ lost) \cup S
    /\ rows' = next
    /\ retired' = retired \cup (DOMAIN kept \ DOMAIN next)
    /\ edit' = [edit EXCEPT ![o] = [NoEdit EXCEPT !.at = "reload"]]
    /\ UNCHANGED <<enabled, cache, failed>>

ChannelEnabled(channel) ==
    /\ enabled' = IF channel \in enabled THEN enabled \ {channel} ELSE enabled \cup {channel}
    /\ UNCHANGED <<rows, retired, granted, cache, edit, failed>>

(* The process starts again and loads the groups. *)
RestartGroups ==
    /\ cache' = rows
    /\ edit' = [o \in Operator |-> NoEdit]
    /\ failed' = FALSE
    /\ UNCHANGED <<rows, retired, granted, enabled>>

-----------------------------------------------------------------------------
TreeInit ==
    /\ rows = [g \in {} |-> <<>>]
    /\ retired = {}
    /\ granted = {}
    /\ enabled = Channel
    /\ cache = rows
    /\ edit = [o \in Operator |-> NoEdit]
    /\ failed = FALSE

Panel(o) ==
    \/ \E g \in Group, items \in ItemLists :
          /\ ToSet(items) \cap Grant \subseteq granted
          /\ GroupCreate(o, g, items) \/ GroupUpdate(o, g, items)
    \/ \E g \in Group : GroupDel(o, g) \/ FillCache(o, g)
    \/ CreateRow(o) \/ CacheGroup(o) \/ UncacheGroup(o)
    \/ ReadGroups(o) \/ ReadFails(o) \/ ClearCache(o) \/ FillDone(o)
    \/ \E channel \in Channel, S \in SUBSET Grant : ChannelUpdate(o, channel, S)

TreeNext ==
    \/ \E o \in Operator : Panel(o)
    \/ \E channel \in Channel : ChannelEnabled(channel)
    \/ RestartGroups

TreeSpec == TreeInit /\ [][TreeNext]_treeVars

-----------------------------------------------------------------------------
(* Properties.                                                             *)

(* Every variable has its shape.                                           *)
TreeTypeOK ==
    /\ DOMAIN rows \subseteq Group /\ DOMAIN cache \subseteq Group
    /\ \A g \in DOMAIN rows : rows[g] \in Seq(Ref) /\ IsInjective(rows[g])
    /\ \A g \in DOMAIN cache : cache[g] \in Seq(Ref) /\ IsInjective(cache[g])
    /\ retired \subseteq Group \ DOMAIN rows
    /\ granted \subseteq Grant
    /\ enabled \subseteq Channel /\ failed \in BOOLEAN
    /\ \A o \in Operator :
          /\ edit[o].at \in {"idle", "create", "cache", "uncache", "reload", "clear", "fill"}
          /\ edit[o].group \subseteq Group /\ edit[o].items \in Seq(Ref)
          /\ DOMAIN edit[o].copy \subseteq Group

(* No group is ever below itself in the database.                          *)
NoCycle == \A g \in Group, n \in 1..Cardinality(Group) : g \notin Below(rows, {g}, n)

(* A cached tree, torn by an edit or whole, flattens to every grant within *)
(* the depth, each item once: what the depth-first walk with its path and  *)
(* its seen set yields is what a search level by level finds.              *)
FlattenIsTheTree ==
    \A g \in DOMAIN cache :
        LET flat == FlattenGroupItems(g, cache[g])
            reached == (UNION {Below(cache, {g}, n) : n \in 0..MaxDepth}) \cap DOMAIN cache
        IN /\ IsInjective(flat)
           /\ ToSet(flat) = {item \in reached \X Grant : item[2] \in ToSet(cache[item[1]])}

(* Leaving unavailable references out costs a request no member that could *)
(* serve it.                                                               *)
UsableMembersAreOffered ==
    \A g \in DOMAIN cache, item \in Group \X Grant :
        item \in ToSet(FlattenGroupItems(g, cache[g])) /\ Usable(item) => item \in ToSet(Offered(g))

(* When no request of the panel is under way and no reload has failed,     *)
(* clients are served with the groups as they are stored.                  *)
CacheFollowsRows ==
    (~failed /\ \A o \in Operator : edit[o].at = "idle") => cache = rows

(* A member whose channel is switched off takes no part in the choice.     *)
DisabledIsNotOffered ==
    \A g \in DOMAIN cache : \A item \in ToSet(Offered(g)) : ChannelOf[item[2]] \in enabled
=============================================================================
