---------------------------- MODULE MCRoutePicks ----------------------------
(* Instances of RoutePicks for TLC.                                        *)
EXTENDS RoutePicks

InOrder == [i \in Item |-> i]
List == SetToSortSeq(Item, LAMBDA i, j : i < j)
Ignorant == [d \in Dim |-> [i \in Item |-> Unknown]]
Plain == [items |-> List, tops |-> <<1, 1, 1>>, nested |-> {}, off |-> {}, cooling |-> {},
          tier |-> [i \in Item |-> "auto"], obs |-> Ignorant]

Values == {1, 3, Unknown}

(* The dimensions a mode of one key reads. *)
Read(m) ==
    CASE m = "lowest_cost"    -> {"cost"}
      [] m = "quality_first"  -> {"quality"}
      [] m = "lowest_latency" -> {"latency"}
      [] m = "least_busy"     -> {"busy"}
      [] m = "lowest_tpm_rpm" -> {"load", "requests"}

(* Whoever is nested: neighbours are in one nested group.                  *)
TopsOf(nested) ==
    CASE nested = {1, 2} -> <<2, 1>>
      [] nested = {2, 3} -> <<1, 2>>
      [] nested = Item   -> <<3>>
      [] OTHER           -> <<1, 1, 1>>
Layout(nested) == [Plain EXCEPT !.nested = nested, !.tops = TopsOf(nested)]

(* Every set of members nested and cooling, slow or not. *)
States == {[Layout(nested) EXCEPT !.cooling = cooling, !.obs["latency"] = late] :
              nested \in SUBSET Item, cooling \in SUBSET Item,
              late \in [Item -> {1, 3, Unknown}]}
Unmeasured == {v \in States : v.obs["latency"] = Ignorant["latency"]}

RECURSIVE Vary(_, _)
Vary(views, dims) ==
    IF dims = {} THEN views
    ELSE LET d == CHOOSE d \in dims : TRUE
         IN Vary({[v EXCEPT !.obs[d] = x] : v \in views, x \in [Item -> Values]}, dims \ {d})

(* A small key beside a large one that runs dry or reaches its limit of tokens. *)
OneAndSeven == [Plain EXCEPT !.nested = {3}, !.obs["load"] = [i \in Item |-> 0],
                             !.obs["monthly"] = [i \in Item |-> IF i = 1 THEN 1 ELSE 7]]

ViewsOf(m) ==
    CASE m = "failover" -> States
      [] m = "smart"    -> {[v EXCEPT !.tier = t] : v \in Unmeasured,
                               t \in [Item -> {"auto", "decision", "execution"}]}
      [] m = "allocate" -> {OneAndSeven}
      [] m = "weighted" -> Vary({Plain}, {"cost", "quality"}) \cup Vary(Unmeasured, {"monthly"})
      [] OTHER -> Vary({Plain}, Read(m)) \cup Vary(Unmeasured, {"latency"})

(* A nested group of two members, the first of them switched off. *)
SwitchedOff(m) ==
    IF m \in {"failover", "smart"}
    THEN {[Layout({1, 2}) EXCEPT !.off = {1}, !.cooling = cooling] : cooling \in SUBSET Item}
    ELSE {}

Weights == [d \in WeightDim |-> IF d = "cost" THEN 3 ELSE IF d = "busy" THEN 0 ELSE 1]
Learnt(i, d) ==
    CASE d = "monthly"  /\ i = 2 -> {0, 7}
      [] d = "load"     /\ i = 2 -> {0, 2}
      [] OTHER -> {}
=============================================================================
