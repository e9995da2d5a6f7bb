--------------------------- MODULE GroupTreeProofs ---------------------------
(***************************************************************************)
(* Proofs about GroupTree, for every set of groups, grants and channels,   *)
(* any lists of items and any number of requests of the panel at once.     *)
(*                                                                         *)
(* A walk through the groups that comes back is a set of groups of which   *)
(* each has a subgroup in the set.  Grounded says that there is no such    *)
(* set, which is easier to keep than a word about walks: rows that go away *)
(* keep it, a group that nobody refers to keeps it, and a list of items    *)
(* that validateChildGroupRefs let through keeps it because what is below  *)
(* it is closed and does not contain the group.                            *)
(*                                                                         *)
(* What a request is offered is proved for a cached table of any shape,    *)
(* because edits and reloads may leave it torn.  The walk is sound one     *)
(* depth after the other, from the deepest up, and complete one step of    *)
(* distance after the other.                                               *)
(***************************************************************************)
EXTENDS GroupTree, FiniteSetTheorems, WellFoundedInduction, TLAPS

Lists == Seq(Ref)
Table == UNION {[D -> Lists] : D \in SUBSET Group}
Place == {"idle", "create", "cache", "uncache", "reload", "clear", "fill"}
EditRecord == [at : Place, group : SUBSET Group, items : Lists, copy : Table]

TreeShape ==
    /\ rows \in Table /\ cache \in Table
    /\ retired \subseteq Group \ DOMAIN rows
    /\ edit \in [Operator -> EditRecord] /\ failed \in BOOLEAN

Kids(t, g) == IF g \in DOMAIN t THEN Children(t[g]) ELSE {}
Grounded(t) == \A S \in SUBSET Group : S # {} => \E g \in S : Kids(t, g) \cap S = {}

(* What is referred to is there or was there, so that a new group is one   *)
(* that nothing refers to.                                                 *)
Known == DOMAIN rows \cup retired
NoStrays == \A g \in Group : Kids(rows, g) \subseteq Known
NewStandsApart ==
    \A o \in Operator : edit[o].at = "create" =>
        \A g \in edit[o].group : Children(edit[o].items) \subseteq Known \ {g}

TreeInv == TreeShape /\ Grounded(rows) /\ NoStrays /\ NewStandsApart

-----------------------------------------------------------------------------
(* Grounded tables.                                                        *)

LEMMA ChildrenInGroup == ASSUME NEW t, NEW g PROVE Kids(t, g) \subseteq Group
  BY DEF Kids, Children

(* Rows that lose references stay grounded. *)
LEMMA GroundedLess ==
    ASSUME NEW t, NEW u, Grounded(t), \A g \in Group : Kids(u, g) \subseteq Kids(t, g)
    PROVE  Grounded(u)
<1> SUFFICES ASSUME NEW S \in SUBSET Group, S # {}
             PROVE  \E g \in S : Kids(u, g) \cap S = {}
  BY DEF Grounded
<1>1. PICK g \in S : Kids(t, g) \cap S = {}
  BY DEF Grounded
<1>2. Kids(u, g) \subseteq Kids(t, g)
  OBVIOUS
<1>3. QED
  BY <1>1, <1>2

(* A group that nothing refers to closes no circle. *)
LEMMA GroundedNew ==
    ASSUME NEW t, NEW u, NEW g \in Group, Grounded(t),
           \A h \in Group \ {g} : Kids(u, h) = Kids(t, h) /\ g \notin Kids(u, h),
           g \notin Kids(u, g)
    PROVE  Grounded(u)
<1> SUFFICES ASSUME NEW S \in SUBSET Group, S # {}, \A h \in S : Kids(u, h) \cap S # {}
             PROVE  FALSE
  BY DEF Grounded
<1> DEFINE T == S \ {g}
<1>1. T # {} /\ T \in SUBSET Group
  OBVIOUS
<1>2. PICK h \in T : Kids(t, h) \cap T = {}
  BY <1>1 DEF Grounded
<1>3. Kids(u, h) = Kids(t, h) /\ g \notin Kids(u, h) /\ Kids(u, h) \cap S # {}
  BY <1>1, <1>2
<1>4. QED
  BY <1>2, <1>3

(* A new list of items closes no circle if there is a set around it that   *)
(* is closed and does not have the group.                                  *)
LEMMA GroundedEdit ==
    ASSUME NEW t, NEW u, NEW g \in Group, Grounded(t), NEW R \in SUBSET Group,
           g \notin R, \A h \in R : Kids(t, h) \subseteq R,
           Kids(u, g) \subseteq R, \A h \in Group \ {g} : Kids(u, h) = Kids(t, h)
    PROVE  Grounded(u)
<1> SUFFICES ASSUME NEW S \in SUBSET Group, S # {}, \A h \in S : Kids(u, h) \cap S # {}
             PROVE  FALSE
  BY DEF Grounded
<1>1. CASE g \notin S
  <2>1. PICK h \in S : Kids(t, h) \cap S = {}
    BY DEF Grounded
  <2>2. Kids(u, h) = Kids(t, h)
    BY <1>1
  <2>3. QED
    BY <2>1, <2>2
<1>2. CASE g \in S
  <2> DEFINE T == S \cap R
  <2>1. T # {} /\ T \in SUBSET Group
    BY <1>2
  <2>2. PICK h \in T : Kids(t, h) \cap T = {}
    BY <2>1 DEF Grounded
  <2>3. Kids(u, h) = Kids(t, h) /\ Kids(t, h) \subseteq R /\ Kids(u, h) \cap S # {}
    BY <2>2
  <2>4. QED
    BY <2>2, <2>3
<1>3. QED
  BY <1>1, <1>2

-----------------------------------------------------------------------------
(* What is so many steps below: the levels that Below counts.              *)

LEMMA Least ==
    ASSUME NEW T, T \subseteq Nat, T # {}
    PROVE  \E m \in T : \A n \in T : m <= n
<1> DEFINE R == OpToRel(<, Nat)
<1>1. IsWellFoundedOn(R, Nat)
  BY Zenon, NatLessThanWellFounded
<1>2. \A x, y \in Nat : y < x => <<y, x>> \in R
  BY Zenon DEF OpToRel
<1> HIDE DEF R
<1>3. PICK m \in T : \A n \in T : ~ (<<n, m>> \in R)
  BY <1>1, WFMin
<1>4. ASSUME NEW n \in T PROVE m <= n
  <2>1. m \in Nat /\ n \in Nat /\ ~ (<<n, m>> \in R)
    BY <1>3
  <2>2. ~(n < m)
    BY <1>2, <2>1
  <2>3. QED
    BY <2>1, <2>2
<1>5. QED
  BY <1>4

Succ(t, S) == AllSuccessors(Nesting(t), S)
LEMMA SuccIs ==
    ASSUME NEW t, NEW S, S \subseteq Group
    PROVE  /\ Succ(t, S) = {c \in Group : \E g \in S : c \in Kids(t, g)}
           /\ Succ(t, S) \subseteq Group
  BY ZenonT(60) DEF Succ, AllSuccessors, Successors, Nesting, Kids, Children

Levels(l, t, S, n) == l = [i \in 0..n |-> IF i = 0 THEN S ELSE Succ(t, l[i - 1])]

LEMMA BelowUnfolded ==
    ASSUME NEW t, NEW S, NEW n
    PROVE  Below(t, S, n) = (CHOOSE l : Levels(l, t, S, n))[n]
  BY Zenon DEF Below, Levels, Succ

LEMMA LevelsEach ==
    ASSUME NEW l, NEW t, NEW S, NEW n \in Nat, Levels(l, t, S, n)
    PROVE  l[0] = S /\ \A i \in 0..n : i # 0 => l[i] = Succ(t, l[i - 1])
<1> DEFINE k == [i \in 0..n |-> IF i = 0 THEN S ELSE Succ(t, l[i - 1])]
<1>1. l = k
  BY DEF Levels
<1>2. \A i \in 0..n : k[i] = IF i = 0 THEN S ELSE Succ(t, l[i - 1])
  OBVIOUS
<1>3. 0 \in 0..n
  OBVIOUS
<1> HIDE DEF k
<1>4. QED
  BY <1>1, <1>2, <1>3

LEMMA LevelsAgree ==
    ASSUME NEW t, NEW S, NEW n \in Nat, NEW m \in Nat, m <= n,
           NEW l, Levels(l, t, S, n), NEW k, Levels(k, t, S, m)
    PROVE  \A i \in 0..m : l[i] = k[i]
<1> DEFINE T == {i \in 0..m : l[i] # k[i]}
<1>1. SUFFICES ASSUME T # {} PROVE FALSE
  OBVIOUS
<1>2. PICK i \in T : \A j \in T : i <= j
  <2>1. T \subseteq Nat
    OBVIOUS
  <2> HIDE DEF T
  <2>2. QED
    BY <1>1, <2>1, Least
<1>3. i \in 0..m /\ l[i] # k[i]
  BY <1>2
<1>4. i # 0
  BY <1>3, LevelsEach
<1>5. i - 1 \in 0..m /\ i - 1 < i /\ i \in 0..n /\ i \in Nat
  BY <1>3, <1>4
<1>6. i - 1 \notin T
  <2> HIDE DEF T
  <2>1. QED
    BY <1>2, <1>5
<1>7. l[i - 1] = k[i - 1]
  BY <1>5, <1>6
<1>8. l[i] = Succ(t, l[i - 1]) /\ k[i] = Succ(t, k[i - 1])
  BY <1>3, <1>4, <1>5, LevelsEach
<1>9. QED
  BY <1>3, <1>7, <1>8

LEMMA LevelsExist ==
    ASSUME NEW t, NEW S, NEW n \in Nat
    PROVE  Levels(CHOOSE l : Levels(l, t, S, n), t, S, n)
<1> DEFINE T == {m \in Nat : ~ \E l : Levels(l, t, S, m)}
<1>1. SUFFICES ASSUME T # {} PROVE FALSE
  OBVIOUS
<1>2. PICK m \in T : \A j \in T : m <= j
  <2>1. T \subseteq Nat
    OBVIOUS
  <2> HIDE DEF T
  <2>2. QED
    BY <1>1, <2>1, Least
<1>3. m \in Nat /\ ~ \E l : Levels(l, t, S, m)
  BY <1>2
<1>4. CASE m = 0
  <2> DEFINE k == [i \in 0..0 |-> S]
  <2>1. k = [i \in 0..0 |-> IF i = 0 THEN S ELSE Succ(t, k[i - 1])]
    OBVIOUS
  <2> HIDE DEF k
  <2>2. Levels(k, t, S, 0)
    BY <2>1 DEF Levels
  <2>3. QED
    BY <1>3, <1>4, <2>2
<1>5. CASE m # 0
  <2>1. m - 1 \in Nat /\ m - 1 < m
    BY <1>3, <1>5
  <2>2. m - 1 \notin T
    <3> HIDE DEF T
    <3>1. QED
      BY <1>2, <1>3, <2>1
  <2>3. PICK l : Levels(l, t, S, m - 1)
    BY <2>1, <2>2
  <2>4. l[0] = S /\ \A i \in 0..(m - 1) : i # 0 => l[i] = Succ(t, l[i - 1])
    BY <2>1, <2>3, LevelsEach
  <2> DEFINE k == [i \in 0..m |-> IF i = m THEN Succ(t, l[m - 1]) ELSE l[i]]
  <2>5. /\ k[0] = S
        /\ \A i \in 0..m : i # 0 => k[i] = Succ(t, k[i - 1])
    <3>1. k[0] = S
      BY <1>3, <1>5, <2>4
    <3>2. ASSUME NEW i \in 0..m, i # 0 PROVE k[i] = Succ(t, k[i - 1])
      <4>1. i - 1 \in 0..m /\ i - 1 # m
        BY <1>3, <3>2
      <4>2. k[i - 1] = l[i - 1]
        BY <4>1
      <4>3. CASE i = m
        BY <4>2, <4>3
      <4>4. CASE i # m
        <5>1. i \in 0..(m - 1)
          BY <1>3, <4>4
        <5>2. k[i] = l[i]
          BY <4>4
        <5>3. QED
          BY <2>4, <3>2, <4>2, <5>1, <5>2
      <4>5. QED
        BY <4>3, <4>4
    <3>3. QED
      BY <3>1, <3>2
  <2>6. k = [i \in 0..m |-> k[i]]
    OBVIOUS
  <2> HIDE DEF k
  <2>7. [i \in 0..m |-> k[i]] = [i \in 0..m |-> IF i = 0 THEN S ELSE Succ(t, k[i - 1])]
    BY <2>5
  <2>8. Levels(k, t, S, m)
    BY <2>6, <2>7 DEF Levels
  <2>9. QED
    BY <1>3, <2>8
<1>6. QED
  BY <1>4, <1>5

LEMMA BelowEach ==
    ASSUME NEW t, NEW S, S \subseteq Group, NEW n \in Nat
    PROVE  Below(t, S, 0) = S /\ Below(t, S, n + 1) = Succ(t, Below(t, S, n))
<1> DEFINE The(m) == CHOOSE l : Levels(l, t, S, m)
<1>1. \A m \in Nat : Levels(The(m), t, S, m)
  BY LevelsExist
<1>2. \A m : Below(t, S, m) = The(m)[m]
  BY BelowUnfolded
<1> HIDE DEF The
<1>3. The(0)[0] = S
  BY <1>1, LevelsEach
<1>4. n + 1 \in Nat /\ n + 1 \in 0..(n + 1) /\ n + 1 # 0 /\ (n + 1) - 1 = n /\ n \in 0..n
      /\ n <= n + 1
  OBVIOUS
<1>5. The(n + 1)[n + 1] = Succ(t, The(n + 1)[n])
  BY <1>1, <1>4, LevelsEach
<1>6. The(n + 1)[n] = The(n)[n]
  BY <1>1, <1>4, LevelsAgree
<1>7. QED
  BY <1>2, <1>3, <1>5, <1>6

LEMMA BelowInGroup ==
    ASSUME NEW t, NEW S, S \subseteq Group, NEW n \in Nat
    PROVE  Below(t, S, n) \subseteq Group
<1>1. CASE n = 0
  BY <1>1, BelowEach
<1>2. CASE n # 0
  <2>1. PICK m \in Nat : n = m + 1
    <3>1. n - 1 \in Nat /\ n = (n - 1) + 1
      BY <1>2
    <3>2. QED
      BY <3>1
  <2>2. Below(t, S, n) = Succ(t, Below(t, S, m))
    BY <2>1, BelowEach
  <2>3. QED
    BY <2>2 DEF Succ, AllSuccessors, Successors, Nesting
<1>3. QED
  BY <1>1, <1>2

(* validateChildGroupRefs finds a closed set around the new items.         *)
LEMMA ValidIsClosed ==
    ASSUME NEW t, NEW g \in Group, NEW items, ValidChildren(t, g, items), MaxDepth \in Nat
    PROVE  \E R \in SUBSET Group :
              /\ g \notin R
              /\ \A h \in R : Kids(t, h) \subseteq R
              /\ Children(items) \subseteq R
<1> DEFINE C == Children(items)
           R == {c \in Group : \E n \in 0..MaxDepth : c \in Below(t, C, n)}
<1>1. C \subseteq Group /\ \A n \in 0..(MaxDepth - 1) : g \notin Below(t, C, n)
  BY DEF ValidChildren, Children
<1>2. Below(t, C, MaxDepth) = {}
  BY DEF ValidChildren
<1> HIDE DEF C
<1>3. g \notin R
  BY <1>1, <1>2
<1>4. ASSUME NEW h \in R, NEW c \in Kids(t, h) PROVE c \in R
  <2>1. PICK n \in 0..MaxDepth : h \in Below(t, C, n)
    OBVIOUS
  <2>2. n # MaxDepth
    BY <1>2, <2>1
  <2>3. n \in Nat /\ n + 1 \in 0..MaxDepth
    BY <2>2
  <2>4. Below(t, C, n + 1) = Succ(t, Below(t, C, n)) /\ Below(t, C, n) \subseteq Group
    BY <1>1, <2>3, BelowEach, BelowInGroup
  <2>5. c \in Group
    BY <1>4, ChildrenInGroup
  <2>6. c \in Succ(t, Below(t, C, n))
    BY <1>4, <2>1, <2>4, <2>5, SuccIs
  <2>7. QED
    BY <2>3, <2>4, <2>5, <2>6
<1>5. C \subseteq R
  <2>1. Below(t, C, 0) = C /\ 0 \in 0..MaxDepth
    BY <1>1, BelowEach
  <2>2. QED
    BY <1>1, <2>1
<1> HIDE DEF R
<1>6. R \in SUBSET Group
  BY DEF R
<1>7. QED
  BY <1>3, <1>4, <1>5, <1>6 DEF C

(* What is below S can be followed back: the groups on the way have each a *)
(* subgroup on the way, and one of them is in S.                           *)
Way(t, S, x, P) ==
    /\ P \in SUBSET Group
    /\ \A h \in P : Kids(t, h) \cap (P \cup {x}) # {}
    /\ S \cap (P \cup {x}) # {}

LEMMA WayBack ==
    ASSUME NEW t, NEW S, S \subseteq Group, NEW n \in Nat, NEW x \in Below(t, S, n)
    PROVE  \E P : Way(t, S, x, P)
<1> DEFINE T == {m \in Nat : \E y \in Below(t, S, m) : \A P : ~Way(t, S, y, P)}
<1>1. SUFFICES ASSUME T # {} PROVE FALSE
  OBVIOUS
<1>2. PICK m \in T : \A j \in T : m <= j
  <2>1. T \subseteq Nat
    OBVIOUS
  <2> HIDE DEF T
  <2>2. QED
    BY <1>1, <2>1, Least
<1>3. PICK y \in Below(t, S, m) : \A P : ~Way(t, S, y, P)
  BY <1>2
<1>4. m \in Nat
  BY <1>2
<1>5. CASE m = 0
  <2>1. y \in S
    BY <1>3, <1>5, BelowEach
  <2>2. Way(t, S, y, {})
    BY <2>1 DEF Way
  <2>3. QED
    BY <1>3, <2>2
<1>6. CASE m # 0
  <2>1. m - 1 \in Nat /\ (m - 1) + 1 = m /\ m - 1 < m
    BY <1>4, <1>6
  <2>2. Below(t, S, m) = Succ(t, Below(t, S, m - 1)) /\ Below(t, S, m - 1) \subseteq Group
    BY <2>1, BelowEach, BelowInGroup
  <2>3. PICK z \in Below(t, S, m - 1) : y \in Kids(t, z)
    BY <1>3, <2>2, SuccIs
  <2>4. m - 1 \notin T
    <3> HIDE DEF T
    <3>1. QED
      BY <1>2, <1>4, <2>1
  <2>5. PICK P : Way(t, S, z, P)
    BY <2>1, <2>3, <2>4
  <2>6. Way(t, S, y, P \cup {z})
    BY <2>2, <2>3, <2>5 DEF Way
  <2>7. QED
    BY <1>3, <2>6
<1>7. QED
  BY <1>5, <1>6

(* In a grounded table no group is below itself. *)
LEMMA GroundedHasNoCycle ==
    ASSUME NEW t, Grounded(t), NEW g \in Group, NEW n \in Nat, n # 0
    PROVE  g \notin Below(t, {g}, n)
<1> SUFFICES ASSUME g \in Below(t, {g}, n) PROVE FALSE
  OBVIOUS
<1>1. PICK m \in Nat : n = m + 1
  <2>1. n - 1 \in Nat /\ n = (n - 1) + 1
    OBVIOUS
  <2>2. QED
    BY <2>1
<1>2. {g} \subseteq Group
  OBVIOUS
<1>3. Below(t, {g}, n) = Succ(t, Below(t, {g}, m)) /\ Below(t, {g}, m) \subseteq Group
  BY <1>1, <1>2, BelowEach, BelowInGroup
<1>4. PICK z \in Below(t, {g}, m) : g \in Kids(t, z)
  <2> DEFINE B == Below(t, {g}, m)
  <2>1. B \subseteq Group /\ g \in Succ(t, B)
    BY <1>1, <1>3
  <2> HIDE DEF B
  <2>2. \E z \in B : g \in Kids(t, z)
    BY <2>1, SuccIs
  <2>3. QED
    BY <2>2 DEF B
<1>5. PICK P : Way(t, {g}, z, P)
  BY <1>1, <1>2, <1>4, WayBack
<1> DEFINE Q == P \cup {z}
<1>6. Q \in SUBSET Group /\ g \in Q /\ \A h \in P : Kids(t, h) \cap Q # {}
  BY <1>3, <1>4, <1>5 DEF Way
<1>7. \A h \in Q : Kids(t, h) \cap Q # {}
  BY <1>4, <1>6
<1> HIDE DEF Q
<1>8. QED
  BY <1>6, <1>7 DEF Grounded

-----------------------------------------------------------------------------
(* Lists of items that lose some, and lists made of a set.                 *)

Kept(k, items, S, n) ==
    k = [i \in 0..n |-> IF i = 0 THEN <<>>
                        ELSE IF items[i] \in S THEN k[i - 1] ELSE Append(k[i - 1], items[i])]

Add(list, item, S) == IF item \in S THEN list ELSE Append(list, item)

LEMMA KeptEach ==
    ASSUME NEW k, NEW items, NEW S, NEW n \in Nat, Kept(k, items, S, n)
    PROVE  k[0] = <<>> /\ \A i \in 0..n : i # 0 => k[i] = Add(k[i - 1], items[i], S)
<1> DEFINE f == [i \in 0..n |-> IF i = 0 THEN <<>>
                                ELSE IF items[i] \in S THEN k[i - 1] ELSE Append(k[i - 1], items[i])]
<1>1. k = f
  BY DEF Kept
<1>2. \A i \in 0..n : f[i] = IF i = 0 THEN <<>> ELSE Add(k[i - 1], items[i], S)
  BY DEF Add
<1>3. 0 \in 0..n
  OBVIOUS
<1> HIDE DEF f
<1>4. QED
  BY <1>1, <1>2, <1>3

LEMMA KeptFrom ==
    ASSUME NEW k, NEW items, NEW S, NEW n \in Nat, k = [i \in 0..n |-> k[i]],
           k[0] = <<>>, \A i \in 0..n : i # 0 => k[i] = Add(k[i - 1], items[i], S)
    PROVE  Kept(k, items, S, n)
<1>1. \A i \in 0..n : k[i] = IF i = 0 THEN <<>>
                             ELSE IF items[i] \in S THEN k[i - 1] ELSE Append(k[i - 1], items[i])
  BY DEF Add
<1>2. QED
  BY <1>1 DEF Kept

LEMMA KeptExists ==
    ASSUME NEW items, NEW S, NEW n \in Nat
    PROVE  Kept(CHOOSE k : Kept(k, items, S, n), items, S, n)
<1> DEFINE T == {m \in Nat : ~ \E k : Kept(k, items, S, m)}
<1>1. SUFFICES ASSUME T # {} PROVE FALSE
  OBVIOUS
<1>2. PICK m \in T : \A j \in T : m <= j
  <2>1. T \subseteq Nat
    OBVIOUS
  <2> HIDE DEF T
  <2>2. QED
    BY <1>1, <2>1, Least
<1>3. m \in Nat /\ ~ \E k : Kept(k, items, S, m)
  BY <1>2
<1>4. CASE m = 0
  <2> DEFINE k == [i \in 0..0 |-> <<>>]
  <2>1. k = [i \in 0..0 |-> k[i]] /\ k[0] = <<>> /\ \A i \in 0..0 : i = 0
    OBVIOUS
  <2> HIDE DEF k
  <2>2. Kept(k, items, S, 0)
    BY <2>1, KeptFrom
  <2>3. QED
    BY <1>3, <1>4, <2>2
<1>5. CASE m # 0
  <2>1. m - 1 \in Nat /\ m - 1 < m
    BY <1>3, <1>5
  <2>2. m - 1 \notin T
    <3> HIDE DEF T
    <3>1. QED
      BY <1>2, <1>3, <2>1
  <2>3. PICK l : Kept(l, items, S, m - 1)
    BY <2>1, <2>2
  <2>4. l[0] = <<>> /\ \A i \in 0..(m - 1) : i # 0 => l[i] = Add(l[i - 1], items[i], S)
    BY <2>1, <2>3, KeptEach
  <2> DEFINE k == [i \in 0..m |-> IF i = m THEN Add(l[m - 1], items[m], S) ELSE l[i]]
  <2>5. k[0] = <<>>
    BY <1>3, <1>5, <2>4
  <2>6. ASSUME NEW i \in 0..m, i # 0 PROVE k[i] = Add(k[i - 1], items[i], S)
    <3>1. i - 1 \in 0..m /\ i - 1 # m
      BY <1>3, <2>6
    <3>2. k[i - 1] = l[i - 1]
      BY <3>1
    <3>3. CASE i = m
      BY <3>2, <3>3
    <3>4. CASE i # m
      <4>1. i \in 0..(m - 1)
        BY <1>3, <3>4
      <4>2. k[i] = l[i]
        BY <3>4
      <4>3. QED
        BY <2>4, <2>6, <3>2, <4>1, <4>2
    <3>5. QED
      BY <3>3, <3>4
  <2>7. k = [i \in 0..m |-> k[i]]
    OBVIOUS
  <2> HIDE DEF k
  <2>8. Kept(k, items, S, m)
    BY <1>3, <2>5, <2>6, <2>7, KeptFrom
  <2>9. QED
    BY <1>3, <2>8
<1>6. QED
  BY <1>4, <1>5

LEMMA WithoutUnfolded ==
    ASSUME NEW items, NEW S
    PROVE  Without(items, S) = (CHOOSE k : Kept(k, items, S, Len(items)))[Len(items)]
  BY Zenon DEF Without, Kept

(* What is left is a list of some of the items. *)
PartOf(list, items) == list \in Lists /\ ToSet(list) \subseteq ToSet(items)

LEMMA EmptyIsPart ==
    ASSUME NEW items PROVE PartOf(<<>>, items)
  BY DEF PartOf, Lists, ToSet

LEMMA AddIsPart ==
    ASSUME NEW items \in Lists, NEW list, PartOf(list, items), NEW S, NEW i \in 1..Len(items)
    PROVE  PartOf(Add(list, items[i], S), items)
<1>1. items[i] \in Ref /\ items[i] \in ToSet(items) /\ list \in Seq(Ref)
  BY DEF Lists, ToSet, PartOf
<1>2. ASSUME NEW x \in ToSet(Append(list, items[i])) PROVE x \in ToSet(items)
  <2>1. PICK j \in DOMAIN Append(list, items[i]) : x = Append(list, items[i])[j]
    BY DEF ToSet
  <2>2. CASE j = Len(list) + 1
    BY <1>1, <2>1, <2>2
  <2>3. CASE j # Len(list) + 1
    <3>1. j \in DOMAIN list /\ x = list[j]
      BY <1>1, <2>1, <2>3
    <3>2. x \in ToSet(list)
      BY <3>1 DEF ToSet
    <3>3. QED
      BY <3>2 DEF PartOf
  <2>4. QED
    BY <2>2, <2>3
<1>3. Append(list, items[i]) \in Seq(Ref)
  BY <1>1
<1>4. QED
  BY <1>2, <1>3 DEF Add, PartOf, Lists

LEMMA WithoutIsPart ==
    ASSUME NEW items \in Lists, NEW S
    PROVE  PartOf(Without(items, S), items)
<1> DEFINE n == Len(items)
           k == CHOOSE f : Kept(f, items, S, n)
           T == {m \in 0..n : ~PartOf(k[m], items)}
<1>1. n \in Nat
  BY DEF Lists
<1>2. Without(items, S) = k[n]
  BY WithoutUnfolded
<1>3. Kept(k, items, S, n)
  <2> HIDE DEF n
  <2>1. QED
    BY <1>1, KeptExists
<1>4. \A i \in 1..n : i \in 1..Len(items)
  OBVIOUS
<1> HIDE DEF n, k
<1>5. k[0] = <<>> /\ \A i \in 0..n : i # 0 => k[i] = Add(k[i - 1], items[i], S)
  BY <1>1, <1>3, KeptEach
<1>6. T = {}
  <2>1. SUFFICES ASSUME T # {} PROVE FALSE
    OBVIOUS
  <2>2. PICK m \in T : \A j \in T : m <= j
    <3>1. T \subseteq Nat
      BY <1>1
    <3> HIDE DEF T
    <3>2. QED
      BY <2>1, <3>1, Least
  <2>3. m \in 0..n /\ ~PartOf(k[m], items)
    BY <2>2
  <2>4. m # 0
    BY <1>5, <2>3, EmptyIsPart
  <2>5. m - 1 \in 0..n /\ m - 1 < m /\ m \in 1..n
    BY <1>1, <2>3, <2>4
  <2>6. m - 1 \notin T
    <3> HIDE DEF T
    <3>1. QED
      BY <1>1, <2>2, <2>3, <2>5
  <2>7. PartOf(k[m - 1], items)
    BY <2>5, <2>6
  <2>8. PartOf(Add(k[m - 1], items[m], S), items)
    BY <1>4, <2>5, <2>7, AddIsPart
  <2>9. QED
    BY <1>5, <2>3, <2>4, <2>8
<1>7. n \in 0..n
  BY <1>1
<1>8. QED
  BY <1>2, <1>6, <1>7

LEMMA SetToSeqIsPart ==
    ASSUME NEW X, IsFiniteSet(X), X \subseteq Grant
    PROVE  SetToSeq(X) \in Seq(Grant)
<1> DEFINE n == Cardinality(X)
<1>1. n \in Nat /\ ExistsBijection(1..n, X)
  BY FS_CardinalityType
<1>2. \E f \in [1..n -> X] : IsInjective(f)
  BY <1>1 DEF ExistsBijection, Bijection, Injection, IsInjective
<1>3. SetToSeq(X) \in [1..n -> X]
  BY <1>2 DEF SetToSeq
<1> HIDE DEF n
<1>4. QED
  BY <1>1, <1>3

-----------------------------------------------------------------------------
(* Tables and what the operations make of them.                            *)

LEMMA TableParts ==
    ASSUME NEW t \in Table
    PROVE  /\ DOMAIN t \subseteq Group /\ t = [g \in DOMAIN t |-> t[g]]
           /\ \A g \in DOMAIN t : t[g] \in Lists
  BY DEF Table

LEMMA TableFrom ==
    ASSUME NEW t, NEW D, t = [g \in D |-> t[g]], D \subseteq Group, \A g \in D : t[g] \in Lists
    PROVE  t \in Table
<1>1. t \in [D -> Lists]
  OBVIOUS
<1>2. QED
  BY <1>1 DEF Table

LEMMA PutTable ==
    ASSUME NEW t \in Table, NEW g \in Group, NEW items \in Lists
    PROVE  /\ Put(t, g, items) \in Table
           /\ DOMAIN Put(t, g, items) = DOMAIN t \cup {g}
           /\ Kids(Put(t, g, items), g) = Children(items)
           /\ \A h \in Group \ {g} : Kids(Put(t, g, items), h) = Kids(t, h)
<1> DEFINE u == Put(t, g, items)
<1>1. u = [h \in DOMAIN t \cup {g} |-> IF h = g THEN items ELSE t[h]]
  BY DEF Put
<1>2. DOMAIN t \subseteq Group /\ \A h \in DOMAIN t : t[h] \in Lists
  BY TableParts
<1> HIDE DEF u
<1>3. DOMAIN u = DOMAIN t \cup {g} /\ u[g] = items /\ \A h \in DOMAIN t \ {g} : u[h] = t[h]
  BY <1>1
<1>4. u = [h \in DOMAIN u |-> u[h]]
  BY <1>1
<1>5. u \in Table
  BY <1>2, <1>3, <1>4, TableFrom
<1>6. Kids(u, g) = Children(items) /\ \A h \in Group \ {g} : Kids(u, h) = Kids(t, h)
  BY <1>3 DEF Kids
<1>7. QED
  BY <1>3, <1>5, <1>6 DEF u

(* Rows whose items are some of those there were. *)
LEMMA LessTable ==
    ASSUME NEW t \in Table, NEW u, NEW D, D \subseteq DOMAIN t, NEW S,
           u = [g \in D |-> Without(t[g], S)]
    PROVE  u \in Table /\ DOMAIN u = D /\ \A g \in Group : Kids(u, g) \subseteq Kids(t, g)
<1>1. \A g \in D : g \in Group /\ t[g] \in Lists
  BY TableParts
<1>2. \A g \in D : u[g] \in Lists /\ ToSet(u[g]) \subseteq ToSet(t[g])
  BY <1>1, WithoutIsPart DEF PartOf
<1>3. u \in Table
  BY <1>1, <1>2, TableFrom
<1>4. \A g \in Group : Kids(u, g) \subseteq Kids(t, g)
  BY <1>2 DEF Kids, Children
<1>5. QED
  BY <1>3, <1>4

LEMMA GrantsHaveNoChildren ==
    ASSUME NEW list \in Lists, NEW more \in Seq(Grant)
    PROVE  list \o more \in Lists /\ Children(list \o more) = Children(list)
<1>1. list \in Seq(Ref) /\ more \in Seq(Ref) /\ Grant \subseteq Ref
  BY DEF Lists, Ref
<1>2. list \o more \in Lists
  BY <1>1 DEF Lists
<1>3. ASSUME NEW x \in Children(list \o more) PROVE x \in Children(list)
  <2>1. PICK j \in DOMAIN (list \o more) : x = (list \o more)[j]
    BY DEF Children, ToSet
  <2>2. x \in Group
    BY DEF Children
  <2>3. CASE j \in DOMAIN list
    <3>1. x = list[j]
      BY <1>1, <2>1, <2>3
    <3>2. QED
      BY <2>2, <2>3, <3>1 DEF Children, ToSet
  <2>4. CASE j \notin DOMAIN list
    <3>1. j - Len(list) \in 1..Len(more) /\ x = more[j - Len(list)]
      BY <1>1, <2>1, <2>4
    <3>2. x \in Grant
      BY <3>1
    <3>3. QED
      BY <2>2, <3>2, TreeAssumption
  <2>5. QED
    BY <2>3, <2>4
<1>4. ASSUME NEW x \in Children(list) PROVE x \in Children(list \o more)
  <2>1. PICK j \in DOMAIN list : x = list[j]
    BY DEF Children, ToSet
  <2>2. j \in DOMAIN (list \o more) /\ x = (list \o more)[j]
    BY <1>1, <2>1
  <2>3. QED
    BY <2>2 DEF Children, ToSet
<1>5. QED
  BY <1>2, <1>3, <1>4

LEMMA AutoTable ==
    ASSUME NEW t \in Table, NEW S, S \subseteq Grant
    PROVE  /\ WithAutoGroups(t, S) \in Table
           /\ DOMAIN WithAutoGroups(t, S) = DOMAIN t \cup {AutoGroup[l] : l \in S}
           /\ \A g \in Group : Kids(WithAutoGroups(t, S), g) = Kids(t, g)
<1> DEFINE D == DOMAIN t \cup {AutoGroup[l] : l \in S}
           Old(g) == IF g \in DOMAIN t THEN t[g] ELSE <<>>
           More(g) == {l \in S : AutoGroup[l] = g} \ ToSet(Old(g))
           u == WithAutoGroups(t, S)
<1>1. u = [g \in D |-> Old(g) \o SetToSeq(More(g))]
  BY DEF WithAutoGroups
<1>2. \A g : More(g) \subseteq Grant
  OBVIOUS
<1>3. \A g : SetToSeq(More(g)) \in Seq(Grant)
  <2> HIDE DEF More
  <2>1. ASSUME NEW g PROVE IsFiniteSet(More(g))
    <3>1. IsFiniteSet(Grant)
      BY TreeAssumption
    <3>2. QED
      BY <1>2, <3>1, FS_Subset
  <2>2. QED
    BY <1>2, <2>1, SetToSeqIsPart
<1>4. D \subseteq Group
  BY TableParts, TreeAssumption
<1>5. \A g : Old(g) \in Lists
  BY TableParts DEF Lists
<1>6. \A g : (g \in DOMAIN t => Old(g) = t[g]) /\ (g \notin DOMAIN t => Old(g) = <<>>)
  OBVIOUS
<1>7. DOMAIN t \subseteq D
  OBVIOUS
<1> HIDE DEF D, Old, More, u
<1>8. DOMAIN u = D /\ u = [g \in D |-> u[g]] /\ \A g \in D : u[g] = Old(g) \o SetToSeq(More(g))
  BY <1>1
<1>9. ASSUME NEW g \in D PROVE u[g] \in Lists /\ Children(u[g]) = Children(Old(g))
  <2> DEFINE list == Old(g)
             more == SetToSeq(More(g))
  <2>1. list \in Lists /\ more \in Seq(Grant) /\ u[g] = list \o more
    BY <1>3, <1>5, <1>8
  <2> HIDE DEF list, more
  <2>2. u[g] \in Lists /\ Children(u[g]) = Children(list)
    BY <2>1, GrantsHaveNoChildren
  <2>3. QED
    BY <2>2 DEF list
<1>10. Children(<<>>) = {}
  BY DEF Children, ToSet
<1>11. ASSUME NEW g \in Group PROVE Kids(u, g) = Kids(t, g)
  BY <1>6, <1>7, <1>8, <1>9, <1>10 DEF Kids
<1>12. u \in Table
  BY <1>4, <1>8, <1>9, TableFrom
<1>13. QED
  BY <1>8, <1>11, <1>12 DEF u, D

LEMMA PrunedTable ==
    ASSUME NEW t \in Table, NEW owned
    PROVE  /\ Pruned(t, owned) \in Table
           /\ DOMAIN Pruned(t, owned) \subseteq DOMAIN t
           /\ \A g \in Group : Kids(Pruned(t, owned), g) \subseteq Kids(t, g)
<1> DEFINE named == DOMAIN t \cap {AutoGroup[l] : l \in owned}
           empty == {g \in named : t[g] = <<>>}
           D == DOMAIN t \ empty
<1>1. CASE empty = named
  <2>1. Pruned(t, owned) = t
    BY <1>1 DEF Pruned
  <2>2. QED
    BY <2>1
<1>2. CASE empty # named
  <2>1. Pruned(t, owned) = [g \in D |-> t[g]]
    BY <1>2 DEF Pruned
  <2>2. D \subseteq DOMAIN t
    OBVIOUS
  <2> DEFINE u == Pruned(t, owned)
  <2> HIDE DEF D, u
  <2>3. DOMAIN u = D /\ u = [g \in D |-> u[g]] /\ \A g \in D : u[g] = t[g]
    BY <2>1 DEF u
  <2>4. D \subseteq Group /\ \A g \in D : u[g] \in Lists
    BY <2>2, <2>3, TableParts
  <2>5. u \in Table
    BY <2>3, <2>4, TableFrom
  <2>6. \A g \in Group : Kids(u, g) \subseteq Kids(t, g)
    BY <2>2, <2>3 DEF Kids
  <2>7. QED
    BY <2>2, <2>3, <2>5, <2>6 DEF u
<1>3. QED
  BY <1>1, <1>2

-----------------------------------------------------------------------------
(* What a request of the panel is doing.                                   *)

LEMMA EmptyTable == [g \in {} |-> <<>>] \in Table
<1>1. [g \in {} |-> <<>>] \in [{} -> Lists]
  OBVIOUS
<1>2. {} \in SUBSET Group
  OBVIOUS
<1>3. QED
  BY <1>1, <1>2 DEF Table

LEMMA EditRecords ==
    /\ NoEdit \in EditRecord /\ NoEdit.at = "idle"
    /\ \A place \in Place :
          /\ [NoEdit EXCEPT !.at = place] \in EditRecord
          /\ [NoEdit EXCEPT !.at = place].at = place
<1>1. <<>> \in Lists
  BY DEF Lists
<1>2. QED
  BY <1>1, EmptyTable DEF NoEdit, EditRecord, Place

Of(place, g, items) == [NoEdit EXCEPT !.at = place, !.group = {g}, !.items = items]
LEMMA EditOf ==
    ASSUME NEW place \in Place, NEW g \in Group, NEW items \in Lists
    PROVE  /\ Of(place, g, items) \in EditRecord /\ Of(place, g, items).at = place
           /\ Of(place, g, items).group = {g} /\ Of(place, g, items).items = items
  BY EmptyTable DEF Of, NoEdit, EditRecord

LEMMA EditSet ==
    ASSUME edit \in [Operator -> EditRecord], NEW o \in Operator, NEW e \in EditRecord,
           edit' = [edit EXCEPT ![o] = e]
    PROVE  /\ edit' \in [Operator -> EditRecord] /\ edit'[o] = e
           /\ \A p \in Operator \ {o} : edit'[p] = edit[p]
  OBVIOUS

LEMMA EditGoes ==
    ASSUME edit \in [Operator -> EditRecord], NEW o \in Operator, NEW place \in Place,
           Goto(o, place)
    PROVE  /\ edit' \in [Operator -> EditRecord]
           /\ edit'[o] = [edit[o] EXCEPT !.at = place] /\ edit'[o].at = place
           /\ edit'[o].copy = edit[o].copy
           /\ edit'[o].group = edit[o].group /\ edit'[o].items = edit[o].items
           /\ \A p \in Operator \ {o} : edit'[p] = edit[p]
<1>1. edit[o] \in EditRecord
  OBVIOUS
<1>2. [edit[o] EXCEPT !.at = place] \in EditRecord
  BY <1>1 DEF EditRecord
<1>3. edit' = [edit EXCEPT ![o] = [edit[o] EXCEPT !.at = place]]
  BY DEF Goto
<1>4. /\ [edit[o] EXCEPT !.at = place].at = place
      /\ [edit[o] EXCEPT !.at = place].copy = edit[o].copy
      /\ [edit[o] EXCEPT !.at = place].group = edit[o].group
      /\ [edit[o] EXCEPT !.at = place].items = edit[o].items
  BY <1>1 DEF EditRecord
<1>5. QED
  BY <1>2, <1>3, <1>4, EditSet

(* A step that leaves the rows alone and begins no new group, by a request *)
(* that ends or goes on, keeps the invariant.                              *)
LEMMA RowsAlone ==
    ASSUME TreeInv, UNCHANGED <<rows, retired>>, cache' \in Table, failed' \in BOOLEAN,
           edit' \in [Operator -> EditRecord],
           \A o \in Operator : edit'[o].at = "create" => edit'[o] = edit[o]
    PROVE  TreeInv'
<1>1. TreeShape'
  BY DEF TreeInv, TreeShape
<1>2. Grounded(rows')
  BY DEF TreeInv
<1>3. NoStrays'
  BY DEF TreeInv, NoStrays, Known
<1>4. NewStandsApart'
  BY DEF TreeInv, NewStandsApart, Known
<1>5. QED
  BY <1>1, <1>2, <1>3, <1>4 DEF TreeInv

(* So does one that changes the rows so that they stay grounded and refer  *)
(* to groups that are there or were.                                       *)
LEMMA RowsGrounded ==
    ASSUME TreeInv, rows' \in Table, retired' \subseteq Group \ DOMAIN rows',
           UNCHANGED <<cache, failed>>, Known \subseteq Known', Grounded(rows'),
           \A g \in Group : Kids(rows', g) \subseteq Known',
           edit' \in [Operator -> EditRecord],
           \A o \in Operator : edit'[o].at = "create" => edit'[o] = edit[o]
    PROVE  TreeInv'
<1>1. TreeShape'
  BY DEF TreeInv, TreeShape
<1>2. NoStrays'
  BY DEF NoStrays
<1>3. NewStandsApart'
  BY DEF TreeInv, NewStandsApart
<1>4. QED
  BY <1>1, <1>2, <1>3 DEF TreeInv

-----------------------------------------------------------------------------
(* No group below itself.                                                  *)

LEMMA TreeStarts == ASSUME TreeInit PROVE TreeInv
<1>1. rows \in Table /\ cache \in Table /\ DOMAIN rows = {}
  BY EmptyTable DEF TreeInit
<1>2. \A o \in Operator : edit[o] = NoEdit
  BY DEF TreeInit
<1>3. edit \in [Operator -> EditRecord]
  BY EditRecords DEF TreeInit
<1>4. TreeShape
  BY <1>1, <1>3 DEF TreeInit, TreeShape
<1>5. \A g \in Group : Kids(rows, g) = {}
  BY <1>1 DEF Kids
<1>6. Grounded(rows) /\ NoStrays
  BY <1>5 DEF Grounded, NoStrays
<1>7. NewStandsApart
  BY <1>2, EditRecords DEF NewStandsApart
<1>8. QED
  BY <1>4, <1>6, <1>7 DEF TreeInv

LEMMA CreateKeeps ==
    ASSUME TreeInv, NEW o \in Operator, NEW g \in Group, NEW items \in Lists,
           GroupCreate(o, g, items)
    PROVE  TreeInv'
<1> USE DEF Place
<1>1. edit \in [Operator -> EditRecord] /\ edit' = [edit EXCEPT ![o] = Of("create", g, items)]
  BY DEF TreeInv, TreeShape, GroupCreate, Of
<1>2. /\ edit' \in [Operator -> EditRecord] /\ edit'[o] = Of("create", g, items)
      /\ \A p \in Operator \ {o} : edit'[p] = edit[p]
  BY <1>1, EditOf, EditSet
<1>3. edit'[o].group = {g} /\ edit'[o].items = items
  BY <1>2, EditOf
<1>4. g \notin Known /\ Children(items) \subseteq DOMAIN rows \ {g}
  BY DEF GroupCreate, ValidChildren, Known
<1>5. UNCHANGED <<rows, retired, cache, failed>>
  BY DEF GroupCreate
<1>6. TreeShape'
  BY <1>2, <1>5 DEF TreeInv, TreeShape
<1>7. Grounded(rows') /\ NoStrays'
  BY <1>5 DEF TreeInv, NoStrays, Known
<1>8. NewStandsApart'
  BY <1>2, <1>3, <1>4, <1>5 DEF TreeInv, NewStandsApart, Known
<1>9. QED
  BY <1>6, <1>7, <1>8 DEF TreeInv

LEMMA RowKeeps ==
    ASSUME TreeInv, NEW o \in Operator, CreateRow(o)
    PROVE  TreeInv'
<1> USE DEF Place
<1>1. edit \in [Operator -> EditRecord] /\ edit[o] \in EditRecord /\ edit[o].at = "create"
  BY DEF TreeInv, TreeShape, CreateRow
<1>2. PICK g \in edit[o].group :
         IF g \in DOMAIN rows \cup retired THEN Done(o) /\ UNCHANGED rows
         ELSE Goto(o, "cache") /\ rows' = Put(rows, g, edit[o].items)
  BY DEF CreateRow
<1>3. g \in Group /\ edit[o].items \in Lists
  BY <1>1 DEF EditRecord
<1>4. UNCHANGED <<retired, cache, failed>>
  BY DEF CreateRow
<1>5. CASE g \in Known
  <2>1. edit' = [edit EXCEPT ![o] = NoEdit] /\ UNCHANGED rows
    BY <1>2, <1>5 DEF Known, Done
  <2>2. /\ edit' \in [Operator -> EditRecord] /\ edit'[o].at = "idle"
        /\ \A p \in Operator \ {o} : edit'[p] = edit[p]
    BY <1>1, <2>1, EditRecords, EditSet
  <2>3. QED
    BY <1>4, <2>1, <2>2, RowsAlone DEF TreeInv, TreeShape
<1>6. CASE g \notin Known
  <2> DEFINE items == edit[o].items
             next == Put(rows, g, items)
  <2>1. Goto(o, "cache") /\ rows' = next
    BY <1>2, <1>6 DEF Known
  <2>2. /\ edit' \in [Operator -> EditRecord] /\ edit'[o].at = "cache"
        /\ \A p \in Operator \ {o} : edit'[p] = edit[p]
    BY <1>1, <2>1, EditGoes
  <2>3. Children(items) \subseteq Known \ {g} /\ NoStrays /\ Grounded(rows)
    BY <1>1 DEF TreeInv, NewStandsApart
  <2>4. rows \in Table /\ retired \subseteq Group \ DOMAIN rows
    BY DEF TreeInv, TreeShape
  <2> HIDE DEF items
  <2>5. items \in Lists
    BY <1>3 DEF items
  <2>6. /\ next \in Table /\ DOMAIN next = DOMAIN rows \cup {g}
        /\ Kids(next, g) = Children(items)
        /\ \A h \in Group \ {g} : Kids(next, h) = Kids(rows, h)
    BY <1>3, <2>4, <2>5, PutTable
  <2> HIDE DEF next
  <2>7. \A h \in Group : Kids(rows, h) \subseteq Known
    BY <2>3 DEF NoStrays
  <2>8. \A h \in Group \ {g} : Kids(next, h) = Kids(rows, h) /\ g \notin Kids(next, h)
    BY <1>6, <2>6, <2>7
  <2>9. g \notin Kids(next, g)
    BY <2>3, <2>6
  <2>10. Grounded(next)
    BY <1>3, <2>3, <2>8, <2>9, GroundedNew
  <2>11. Known' = Known \cup {g}
    BY <1>4, <2>1, <2>6 DEF Known
  <2>12. \A h \in Group : Kids(next, h) \subseteq Known'
    BY <2>3, <2>6, <2>7, <2>11
  <2>13. retired' \subseteq Group \ DOMAIN rows'
    BY <1>4, <1>6, <2>1, <2>4, <2>6 DEF Known
  <2>14. \A p \in Operator : edit'[p].at = "create" => edit'[p] = edit[p]
    BY <2>2
  <2>15. QED
    BY <1>4, <2>1, <2>2, <2>6, <2>10, <2>11, <2>12, <2>13, <2>14, RowsGrounded
<1>7. QED
  BY <1>5, <1>6

LEMMA UpdateKeeps ==
    ASSUME TreeInv, NEW o \in Operator, NEW g \in Group, NEW items \in Lists,
           GroupUpdate(o, g, items)
    PROVE  TreeInv'
<1> USE DEF Place
<1> DEFINE next == Put(rows, g, items)
<1>1. edit \in [Operator -> EditRecord] /\ edit' = [edit EXCEPT ![o] = Of("cache", g, items)]
  BY DEF TreeInv, TreeShape, GroupUpdate, Of
<1>2. /\ edit' \in [Operator -> EditRecord] /\ edit'[o].at = "cache"
      /\ \A p \in Operator \ {o} : edit'[p] = edit[p]
  BY <1>1, EditOf, EditSet
<1>3. /\ rows' = next /\ g \in DOMAIN rows /\ ValidChildren(rows, g, items)
      /\ UNCHANGED <<retired, cache, failed>>
  BY DEF GroupUpdate
<1>4. /\ rows \in Table /\ retired \subseteq Group \ DOMAIN rows
      /\ Grounded(rows) /\ \A h \in Group : Kids(rows, h) \subseteq Known
  BY DEF TreeInv, TreeShape, NoStrays
<1>5. /\ next \in Table /\ DOMAIN next = DOMAIN rows \cup {g}
      /\ Kids(next, g) = Children(items)
      /\ \A h \in Group \ {g} : Kids(next, h) = Kids(rows, h)
  BY <1>4, PutTable
<1> HIDE DEF next
<1>6. MaxDepth \in Nat
  BY TreeAssumption
<1>7. PICK R \in SUBSET Group :
         /\ g \notin R
         /\ \A h \in R : Kids(rows, h) \subseteq R
         /\ Children(items) \subseteq R
  BY <1>3, <1>6, ValidIsClosed
<1>8. Grounded(next)
  BY <1>4, <1>5, <1>7, GroundedEdit
<1>9. DOMAIN next = DOMAIN rows /\ Known' = Known
  BY <1>3, <1>5 DEF Known
<1>10. Children(items) \subseteq Known
  BY <1>3 DEF ValidChildren, Known
<1>11. \A h \in Group : Kids(next, h) \subseteq Known'
  BY <1>4, <1>5, <1>9, <1>10
<1>12. retired' \subseteq Group \ DOMAIN rows'
  BY <1>3, <1>4, <1>9
<1>13. \A p \in Operator : edit'[p].at = "create" => edit'[p] = edit[p]
  BY <1>2
<1>14. QED
  BY <1>2, <1>3, <1>5, <1>8, <1>9, <1>11, <1>12, <1>13, RowsGrounded

LEMMA DeleteKeeps ==
    ASSUME TreeInv, NEW o \in Operator, NEW g \in Group, GroupDel(o, g)
    PROVE  TreeInv'
<1> USE DEF Place
<1> DEFINE next == RefsDropped(g)
           D == DOMAIN rows \ {g}
           e == [NoEdit EXCEPT !.at = "uncache", !.group = {g}]
<1>1. e \in EditRecord /\ e.at = "uncache"
  <2>1. <<>> \in Lists
    BY DEF Lists
  <2>2. QED
    BY <2>1, EmptyTable DEF NoEdit, EditRecord
<1>2. /\ edit \in [Operator -> EditRecord] /\ edit' = [edit EXCEPT ![o] = e] /\ rows' = next
      /\ retired' = retired \cup {g} /\ g \in DOMAIN rows /\ UNCHANGED <<cache, failed>>
  BY DEF TreeInv, TreeShape, GroupDel
<1> HIDE DEF e
<1>3. /\ edit' \in [Operator -> EditRecord] /\ edit'[o].at = "uncache"
      /\ \A p \in Operator \ {o} : edit'[p] = edit[p]
  BY <1>1, <1>2, EditSet
<1>4. /\ rows \in Table /\ retired \subseteq Group \ DOMAIN rows
      /\ Grounded(rows) /\ \A h \in Group : Kids(rows, h) \subseteq Known
  BY DEF TreeInv, TreeShape, NoStrays
<1>5. next = [h \in D |-> Without(rows[h], {g})] /\ D \subseteq DOMAIN rows
  BY DEF RefsDropped
<1>6. D = DOMAIN rows \ {g}
  OBVIOUS
<1> HIDE DEF next, D
<1>7. next \in Table /\ DOMAIN next = D /\ \A h \in Group : Kids(next, h) \subseteq Kids(rows, h)
  <2> DEFINE t == rows
             S == {g}
  <2>1. t \in Table /\ next = [h \in D |-> Without(t[h], S)] /\ D \subseteq DOMAIN t
    BY <1>4, <1>5
  <2> HIDE DEF t, S
  <2>2. next \in Table /\ DOMAIN next = D /\ \A h \in Group : Kids(next, h) \subseteq Kids(t, h)
    BY <2>1, LessTable
  <2>3. QED
    BY <2>2 DEF t
<1>8. Grounded(next)
  BY <1>4, <1>7, GroundedLess
<1>9. Known' = Known
  BY <1>2, <1>6, <1>7 DEF Known
<1>10. \A h \in Group : Kids(next, h) \subseteq Known'
  BY <1>4, <1>7, <1>9
<1>11. retired' \subseteq Group \ DOMAIN rows'
  BY <1>2, <1>4, <1>6, <1>7
<1>12. \A p \in Operator : edit'[p].at = "create" => edit'[p] = edit[p]
  BY <1>3
<1>13. QED
  BY <1>2, <1>3, <1>7, <1>8, <1>9, <1>10, <1>11, <1>12, RowsGrounded

LEMMA ChannelKeeps ==
    ASSUME TreeInv, NEW o \in Operator, NEW channel, NEW S, S \subseteq Grant,
           ChannelUpdate(o, channel, S)
    PROVE  TreeInv'
<1> USE DEF Place
<1> DEFINE owned == {l \in Grant : ChannelOf[l] = channel}
           lost == owned \ S
           kept == [g \in DOMAIN rows |-> Without(rows[g], lost)]
           auto == WithAutoGroups(kept, S)
           next == IF S = {} THEN kept ELSE Pruned(auto, owned)
           named == {AutoGroup[l] : l \in S}
           e == [NoEdit EXCEPT !.at = "reload"]
<1>1. /\ edit \in [Operator -> EditRecord] /\ edit' = [edit EXCEPT ![o] = e]
      /\ UNCHANGED <<cache, failed>>
  BY DEF TreeInv, TreeShape, ChannelUpdate
<1>2. rows' = next /\ retired' = retired \cup (DOMAIN kept \ DOMAIN next)
      /\ named \cap retired = {}
  BY DEF ChannelUpdate
<1>3. e \in EditRecord /\ e.at = "reload"
  BY EditRecords
<1> HIDE DEF e
<1>4. /\ edit' \in [Operator -> EditRecord] /\ edit'[o].at = "reload"
      /\ \A p \in Operator \ {o} : edit'[p] = edit[p]
  BY <1>1, <1>3, EditSet
<1>5. /\ rows \in Table /\ retired \subseteq Group \ DOMAIN rows
      /\ Grounded(rows) /\ \A h \in Group : Kids(rows, h) \subseteq Known
  BY DEF TreeInv, TreeShape, NoStrays
<1>6. /\ kept \in Table /\ DOMAIN kept = DOMAIN rows
      /\ \A h \in Group : Kids(kept, h) \subseteq Kids(rows, h)
  <2> DEFINE t == rows
             D == DOMAIN t
  <2>1. t \in Table /\ kept = [g \in D |-> Without(t[g], lost)] /\ D \subseteq DOMAIN t
    BY <1>5
  <2> HIDE DEF t, D, lost, kept
  <2>2. /\ kept \in Table /\ DOMAIN kept = D
        /\ \A h \in Group : Kids(kept, h) \subseteq Kids(t, h)
    BY <2>1, LessTable
  <2>3. QED
    BY <2>2 DEF t, D
<1> HIDE DEF kept, owned
<1>7. /\ auto \in Table /\ DOMAIN auto = DOMAIN kept \cup named
      /\ \A h \in Group : Kids(auto, h) = Kids(kept, h)
  BY <1>6, AutoTable
<1> HIDE DEF auto, named
<1>8. /\ next \in Table /\ DOMAIN next \subseteq DOMAIN rows \cup named
      /\ \A h \in Group : Kids(next, h) \subseteq Kids(rows, h)
  <2>1. CASE S = {}
    BY <1>6, <2>1
  <2>2. CASE S # {}
    <3> DEFINE u == Pruned(auto, owned)
    <3>1. next = u
      BY <2>2
    <3>2. /\ u \in Table /\ DOMAIN u \subseteq DOMAIN auto
          /\ \A h \in Group : Kids(u, h) \subseteq Kids(auto, h)
      BY <1>7, PrunedTable
    <3> HIDE DEF u, next
    <3>3. QED
      BY <1>6, <1>7, <3>1, <3>2
  <2>3. QED
    BY <2>1, <2>2
<1> HIDE DEF next
<1>9. Grounded(next)
  BY <1>5, <1>8, GroundedLess
<1>10. Known \subseteq Known'
  BY <1>2, <1>6 DEF Known
<1>11. \A h \in Group : Kids(next, h) \subseteq Known'
  BY <1>5, <1>8, <1>10
<1>12. retired' \subseteq Group \ DOMAIN rows'
  <2>1. DOMAIN rows \subseteq Group
    BY <1>5, TableParts
  <2>2. QED
    BY <1>2, <1>5, <1>6, <1>8, <2>1
<1>13. \A p \in Operator : edit'[p].at = "create" => edit'[p] = edit[p]
  BY <1>4
<1>14. QED
  BY <1>1, <1>2, <1>4, <1>8, <1>9, <1>10, <1>11, <1>12, <1>13, RowsGrounded

(* The steps that leave the rows alone. *)
Reloading(o) ==
    \/ CacheGroup(o) \/ UncacheGroup(o) \/ ReadGroups(o) \/ ReadFails(o)
    \/ ClearCache(o) \/ FillDone(o) \/ \E g \in Group : FillCache(o, g)

LEMMA DomainLess ==
    ASSUME NEW t \in Table, NEW S
    PROVE  [h \in DOMAIN t \ S |-> t[h]] \in Table
<1> DEFINE D == DOMAIN t \ S
           u == [h \in D |-> t[h]]
<1>1. D \subseteq Group /\ \A h \in D : u[h] \in Lists
  BY TableParts
<1>2. u = [h \in D |-> u[h]]
  OBVIOUS
<1> HIDE DEF D, u
<1>3. u \in Table
  BY <1>1, <1>2, TableFrom
<1>4. QED
  BY <1>3 DEF u, D

LEMMA ReloadKeeps ==
    ASSUME TreeInv, NEW o \in Operator, Reloading(o)
    PROVE  TreeInv'
<1> USE DEF Place
<1>1. /\ edit \in [Operator -> EditRecord] /\ edit[o] \in EditRecord
      /\ rows \in Table /\ cache \in Table /\ failed \in BOOLEAN
  BY DEF TreeInv, TreeShape
<1>2. ASSUME Done(o)
      PROVE  /\ edit' \in [Operator -> EditRecord]
             /\ \A p \in Operator : edit'[p].at = "create" => edit'[p] = edit[p]
  <2>1. /\ edit' \in [Operator -> EditRecord] /\ edit'[o].at = "idle"
        /\ \A p \in Operator \ {o} : edit'[p] = edit[p]
    BY <1>1, <1>2, EditRecords, EditSet DEF Done
  <2>2. QED
    BY <2>1
<1>3. ASSUME NEW place \in Place \ {"create"}, NEW e \in EditRecord, e.at = place,
             edit' = [edit EXCEPT ![o] = e]
      PROVE  /\ edit' \in [Operator -> EditRecord]
             /\ \A p \in Operator : edit'[p].at = "create" => edit'[p] = edit[p]
  <2>1. /\ edit' \in [Operator -> EditRecord] /\ edit'[o].at = place
        /\ \A p \in Operator \ {o} : edit'[p] = edit[p]
    BY <1>1, <1>3, EditSet
  <2>2. QED
    BY <2>1
<1>4. CASE CacheGroup(o)
  <2>1. PICK g \in edit[o].group : cache' = Put(cache, g, edit[o].items)
    BY <1>4 DEF CacheGroup
  <2>2. g \in Group /\ edit[o].items \in Lists
    BY <1>1 DEF EditRecord
  <2>3. cache' \in Table
    BY <1>1, <2>1, <2>2, PutTable
  <2>4. QED
    BY <1>1, <1>2, <1>4, <2>3, RowsAlone DEF CacheGroup
<1>5. CASE UncacheGroup(o)
  <2>1. cache' \in Table
    BY <1>1, <1>5, DomainLess DEF UncacheGroup
  <2>2. /\ edit' \in [Operator -> EditRecord]
        /\ \A p \in Operator : edit'[p].at = "create" => edit'[p] = edit[p]
    BY <1>3, <1>5, EditRecords DEF UncacheGroup, AfterDelete
  <2>3. QED
    BY <1>1, <1>5, <2>1, <2>2, RowsAlone DEF UncacheGroup
<1>6. CASE ReadGroups(o)
  <2> DEFINE e == [NoEdit EXCEPT !.at = "clear", !.copy = rows]
  <2>1. <<>> \in Lists
    BY DEF Lists
  <2>2. e \in EditRecord /\ e.at = "clear" /\ edit' = [edit EXCEPT ![o] = e]
    BY <1>1, <1>6, <2>1 DEF NoEdit, EditRecord, ReadGroups
  <2> HIDE DEF e
  <2>3. /\ edit' \in [Operator -> EditRecord]
        /\ \A p \in Operator : edit'[p].at = "create" => edit'[p] = edit[p]
    BY <1>3, <2>2
  <2>4. QED
    BY <1>1, <1>6, <2>3, RowsAlone DEF ReadGroups
<1>7. CASE ReadFails(o)
  BY <1>1, <1>2, <1>7, RowsAlone DEF ReadFails
<1>8. CASE ClearCache(o)
  <2>1. cache' \in Table
    BY <1>8, EditRecords DEF ClearCache, EditRecord
  <2>2. /\ edit' \in [Operator -> EditRecord] /\ edit'[o].at = "fill"
        /\ \A p \in Operator \ {o} : edit'[p] = edit[p]
    BY <1>1, <1>8, EditGoes DEF ClearCache
  <2>3. \A p \in Operator : edit'[p].at = "create" => edit'[p] = edit[p]
    BY <2>2
  <2>4. QED
    BY <1>1, <1>8, <2>1, <2>2, <2>3, RowsAlone DEF ClearCache
<1>9. CASE FillDone(o)
  BY <1>1, <1>2, <1>9, RowsAlone DEF FillDone
<1>10. CASE \E g \in Group : FillCache(o, g)
  <2>1. PICK g \in Group : FillCache(o, g)
    BY <1>10
  <2>2. edit[o].copy \in Table /\ g \in DOMAIN edit[o].copy
    BY <1>1, <2>1 DEF FillCache, EditRecord
  <2>3. edit[o].copy[g] \in Lists
    BY <2>2, TableParts
  <2>4. cache' \in Table
    BY <1>1, <2>1, <2>3, PutTable DEF FillCache
  <2>5. QED
    BY <1>1, <2>1, <2>4, RowsAlone DEF FillCache
<1>11. QED
  BY <1>4, <1>5, <1>6, <1>7, <1>8, <1>9, <1>10 DEF Reloading

LEMMA TreeSteps ==
    ASSUME TreeInv, [TreeNext]_treeVars
    PROVE  TreeInv'
<1>1. CASE UNCHANGED treeVars
  BY <1>1, RowsAlone DEF treeVars, TreeInv, TreeShape
<1>2. ASSUME NEW o \in Operator, Panel(o) PROVE TreeInv'
  <2>1. \A items \in ItemLists : items \in Lists
    BY TreeAssumption DEF Lists, Ref
  <2>2. ASSUME NEW g \in Group, NEW items \in ItemLists,
               GroupCreate(o, g, items) \/ GroupUpdate(o, g, items)
        PROVE  TreeInv'
    BY <2>1, <2>2, CreateKeeps, UpdateKeeps
  <2>3. ASSUME NEW g \in Group, GroupDel(o, g) PROVE TreeInv'
    BY <2>3, DeleteKeeps
  <2>4. ASSUME CreateRow(o) PROVE TreeInv'
    BY <2>4, RowKeeps
  <2>5. ASSUME NEW channel \in Channel, NEW S \in SUBSET Grant, ChannelUpdate(o, channel, S)
        PROVE  TreeInv'
    BY <2>5, ChannelKeeps
  <2>6. ASSUME Reloading(o) PROVE TreeInv'
    BY <2>6, ReloadKeeps
  <2>7. QED
    BY <1>2, <2>2, <2>3, <2>4, <2>5, <2>6 DEF Panel, Reloading
<1>3. ASSUME NEW channel, ChannelEnabled(channel) PROVE TreeInv'
  BY <1>3, RowsAlone DEF ChannelEnabled, TreeInv, TreeShape
<1>4. CASE RestartGroups
  <2>1. edit' \in [Operator -> EditRecord] /\ \A o \in Operator : edit'[o].at = "idle"
    BY <1>4, EditRecords DEF RestartGroups
  <2>2. QED
    BY <1>4, <2>1, RowsAlone DEF RestartGroups, TreeInv, TreeShape
<1>5. QED
  BY <1>1, <1>2, <1>3, <1>4 DEF TreeNext

(* No group is ever below itself in the database, however many requests    *)
(* create, change and delete groups and channels at once: what is checked  *)
(* in the transaction of an update holds when it is written, and a group   *)
(* whose creation was checked before is one that nothing refers to.        *)
THEOREM NoGroupBelowItself == TreeSpec => []NoCycle
<1>1. TreeInv => NoCycle
  <2> SUFFICES ASSUME TreeInv, NEW g \in Group, NEW n \in 1..Cardinality(Group)
               PROVE  g \notin Below(rows, {g}, n)
    BY DEF NoCycle
  <2>1. Cardinality(Group) \in Nat
    BY TreeAssumption, FS_CardinalityType
  <2>2. n \in Nat /\ n # 0
    BY <2>1
  <2>3. QED
    BY <2>2, GroundedHasNoCycle DEF TreeInv
<1>2. TreeInit => TreeInv
  BY TreeStarts
<1>3. TreeInv /\ [TreeNext]_treeVars => TreeInv'
  BY TreeSteps
<1>4. QED
  BY <1>1, <1>2, <1>3, PTL DEF TreeSpec

-----------------------------------------------------------------------------
(* The cache, when requests of the panel come one at a time.               *)

(* How the cache stands to the rows at each place of a request: equal      *)
(* before it writes, one group behind once it has written, and a part of   *)
(* them while it is filled again.                                          *)
Abreast(o) ==
    /\ edit[o].at \in {"create", "cache"} => \E g \in Group : edit[o].group = {g}
    /\ edit[o].at \in {"idle", "create"} /\ ~failed => cache = rows
    /\ edit[o].at = "cache" /\ ~failed =>
          \A g \in edit[o].group : rows = Put(cache, g, edit[o].items)
    /\ edit[o].at \in {"clear", "fill"} => edit[o].copy = rows
    /\ edit[o].at = "fill" => \A g \in DOMAIN cache : g \in DOMAIN rows /\ cache[g] = rows[g]

CacheInv(o) == TreeShape /\ Abreast(o)

LEMMA TablesEqual ==
    ASSUME NEW t \in Table, NEW u \in Table, DOMAIN t = DOMAIN u, \A g \in DOMAIN t : t[g] = u[g]
    PROVE  t = u
<1>1. t = [g \in DOMAIN t |-> t[g]] /\ u = [g \in DOMAIN u |-> u[g]]
  BY TableParts
<1>2. QED
  BY <1>1

LEMMA PanelKeepsAbreast ==
    ASSUME NEW o, Operator = {o}, CacheInv(o), TreeShape', Panel(o)
    PROVE  Abreast(o)'
<1> USE DEF Place
<1>1. /\ edit \in [Operator -> EditRecord] /\ edit[o] \in EditRecord /\ o \in Operator
      /\ rows \in Table /\ cache \in Table /\ failed \in BOOLEAN /\ Abreast(o)
  BY DEF CacheInv, TreeShape
<1>2. ASSUME NEW g \in Group, NEW items \in ItemLists, GroupCreate(o, g, items)
      PROVE  Abreast(o)'
  <2>1. items \in Lists
    BY TreeAssumption DEF Lists, Ref
  <2>2. edit'[o] = Of("create", g, items)
    BY <1>1, <1>2, <2>1, EditOf, EditSet DEF GroupCreate, Of
  <2>3. edit'[o].at = "create" /\ edit'[o].group = {g}
    BY <2>1, <2>2, EditOf
  <2>4. UNCHANGED <<rows, cache, failed>> /\ edit[o].at = "idle"
    BY <1>2 DEF GroupCreate
  <2>5. QED
    BY <1>1, <2>3, <2>4 DEF Abreast
<1>3. ASSUME NEW g \in Group, NEW items \in ItemLists, GroupUpdate(o, g, items)
      PROVE  Abreast(o)'
  <2>1. items \in Lists
    BY TreeAssumption DEF Lists, Ref
  <2>2. edit'[o] = Of("cache", g, items)
    BY <1>1, <1>3, <2>1, EditOf, EditSet DEF GroupUpdate, Of
  <2>3. edit'[o].at = "cache" /\ edit'[o].group = {g} /\ edit'[o].items = items
    BY <2>1, <2>2, EditOf
  <2>4. rows' = Put(rows, g, items) /\ UNCHANGED <<cache, failed>> /\ edit[o].at = "idle"
    BY <1>3 DEF GroupUpdate
  <2>5. ~failed => rows' = Put(cache', g, items)
    BY <1>1, <2>4 DEF Abreast
  <2>6. QED
    BY <2>3, <2>4, <2>5 DEF Abreast
<1>4. ASSUME NEW g \in Group, GroupDel(o, g) PROVE Abreast(o)'
  <2>1. edit'[o].at = "uncache"
    BY <1>1, <1>4 DEF GroupDel, NoEdit
  <2>2. QED
    BY <2>1 DEF Abreast
<1>5. ASSUME CreateRow(o) PROVE Abreast(o)'
  <2>1. PICK g \in edit[o].group :
           IF g \in DOMAIN rows \cup retired THEN Done(o) /\ UNCHANGED rows
           ELSE Goto(o, "cache") /\ rows' = Put(rows, g, edit[o].items)
    BY <1>5 DEF CreateRow
  <2>2. UNCHANGED <<cache, failed>> /\ edit[o].at = "create" /\ (~failed => cache = rows)
    BY <1>1, <1>5 DEF CreateRow, Abreast
  <2>3. CASE g \in DOMAIN rows \cup retired
    <3>1. edit'[o] = NoEdit /\ UNCHANGED rows
      BY <1>1, <2>1, <2>3 DEF Done
    <3>2. edit'[o].at = "idle"
      BY <3>1, EditRecords
    <3>3. QED
      BY <2>2, <3>1, <3>2 DEF Abreast
  <2>4. CASE g \notin DOMAIN rows \cup retired
    <3>1. Goto(o, "cache") /\ rows' = Put(rows, g, edit[o].items)
      BY <2>1, <2>4
    <3>2. /\ edit'[o].at = "cache" /\ edit'[o].group = edit[o].group
          /\ edit'[o].items = edit[o].items
      BY <1>1, <3>1, EditGoes
    <3>3. edit[o].group = {g} /\ \E h \in Group : edit[o].group = {h}
      BY <1>1, <2>1, <2>2 DEF Abreast
    <3>4. ~failed' => rows' = Put(cache', g, edit'[o].items)
      BY <2>2, <3>1, <3>2
    <3>5. QED
      BY <3>2, <3>3, <3>4 DEF Abreast
  <2>5. QED
    BY <2>3, <2>4
<1>6. ASSUME Done(o), UNCHANGED rows, ~failed' => cache' = rows' PROVE Abreast(o)'
  <2>1. edit'[o].at = "idle"
    BY <1>1, <1>6, EditRecords DEF Done
  <2>2. QED
    BY <1>6, <2>1 DEF Abreast
<1>7. ASSUME CacheGroup(o) PROVE Abreast(o)'
  <2>1. PICK g \in edit[o].group : cache' = Put(cache, g, edit[o].items)
    BY <1>7 DEF CacheGroup
  <2>2. ~failed => rows = Put(cache, g, edit[o].items)
    BY <1>1, <1>7, <2>1 DEF CacheGroup, Abreast
  <2>3. QED
    BY <1>6, <1>7, <2>1, <2>2 DEF CacheGroup
<1>8. ASSUME UncacheGroup(o) PROVE Abreast(o)'
  <2>1. edit'[o].at = "reload"
    BY <1>1, <1>8, EditRecords DEF UncacheGroup, AfterDelete
  <2>2. QED
    BY <2>1 DEF Abreast
<1>9. ASSUME ReadGroups(o) PROVE Abreast(o)'
  <2>1. edit'[o].at = "clear" /\ edit'[o].copy = rows /\ UNCHANGED rows
    BY <1>1, <1>9 DEF ReadGroups, NoEdit
  <2>2. QED
    BY <2>1 DEF Abreast
<1>10. ASSUME ReadFails(o) PROVE Abreast(o)'
  BY <1>6, <1>10 DEF ReadFails
<1>11. ASSUME ClearCache(o) PROVE Abreast(o)'
  <2>1. edit'[o].at = "fill" /\ edit'[o].copy = edit[o].copy
    BY <1>1, <1>11, EditGoes DEF ClearCache
  <2>2. edit[o].copy = rows /\ UNCHANGED rows
    BY <1>1, <1>11 DEF ClearCache, Abreast
  <2>3. DOMAIN cache' = {}
    BY <1>11 DEF ClearCache, NoEdit
  <2>4. QED
    BY <2>1, <2>2, <2>3 DEF Abreast
<1>12. ASSUME NEW g \in Group, FillCache(o, g) PROVE Abreast(o)'
  <2>1. /\ edit[o].at = "fill" /\ edit[o].copy = rows /\ g \in DOMAIN rows
        /\ cache' = Put(cache, g, rows[g]) /\ UNCHANGED <<rows, edit, failed>>
        /\ \A h \in DOMAIN cache : h \in DOMAIN rows /\ cache[h] = rows[h]
    BY <1>1, <1>12 DEF FillCache, Abreast
  <2>2. \A h \in DOMAIN cache' : h \in DOMAIN rows /\ cache'[h] = rows[h]
    BY <2>1 DEF Put
  <2>3. QED
    BY <2>1, <2>2 DEF Abreast
<1>13. ASSUME FillDone(o) PROVE Abreast(o)'
  <2>1. /\ edit[o].copy = rows /\ DOMAIN rows \subseteq DOMAIN cache
        /\ \A h \in DOMAIN cache : h \in DOMAIN rows /\ cache[h] = rows[h]
    BY <1>1, <1>13 DEF FillDone, Abreast
  <2>2. cache = rows
    BY <1>1, <2>1, TablesEqual
  <2>3. QED
    BY <1>6, <1>13, <2>2 DEF FillDone
<1>14. ASSUME NEW channel \in Channel, NEW S \in SUBSET Grant, ChannelUpdate(o, channel, S)
       PROVE  Abreast(o)'
  <2>1. edit'[o].at = "reload"
    BY <1>1, <1>14, EditRecords DEF ChannelUpdate
  <2>2. QED
    BY <2>1 DEF Abreast
<1>15. QED
  BY <1>2, <1>3, <1>4, <1>5, <1>7, <1>8, <1>9, <1>10, <1>11, <1>12, <1>13, <1>14 DEF Panel

(* When requests of the panel come one at a time, clients are served with  *)
(* the groups as they are stored whenever none is under way and no reload  *)
(* has failed.                                                             *)
THEOREM ClientsSeeTheRows ==
    ASSUME NEW o, Operator = {o}
    PROVE  TreeSpec => []CacheFollowsRows
<1>1. TreeInit => TreeInv /\ Abreast(o)
  <2> SUFFICES ASSUME TreeInit PROVE TreeInv /\ Abreast(o)
    OBVIOUS
  <2>1. edit[o] = NoEdit /\ cache = rows
    BY DEF TreeInit
  <2>2. edit[o].at = "idle"
    BY <2>1, EditRecords
  <2>3. QED
    BY <2>1, <2>2, TreeStarts DEF Abreast
<1>2. TreeInv /\ Abreast(o) /\ [TreeNext]_treeVars => TreeInv' /\ Abreast(o)'
  <2> SUFFICES ASSUME TreeInv, Abreast(o), [TreeNext]_treeVars PROVE TreeInv' /\ Abreast(o)'
    OBVIOUS
  <2>1. TreeInv'
    BY TreeSteps
  <2>2. TreeShape' /\ CacheInv(o)
    BY <2>1 DEF TreeInv, CacheInv
  <2>3. CASE UNCHANGED treeVars
    <3>1. UNCHANGED <<rows, cache, edit, failed>>
      BY <2>3 DEF treeVars
    <3>2. QED
      BY <2>1, <3>1 DEF Abreast
  <2>4. CASE Panel(o)
    BY <2>1, <2>2, <2>4, PanelKeepsAbreast
  <2>5. ASSUME NEW channel, ChannelEnabled(channel) PROVE Abreast(o)'
    BY <2>5 DEF ChannelEnabled, Abreast
  <2>6. CASE RestartGroups
    <3>1. edit'[o] = NoEdit /\ cache' = rows'
      BY <2>6 DEF RestartGroups
    <3>2. edit'[o].at = "idle"
      BY <3>1, EditRecords
    <3>3. QED
      BY <2>1, <3>1, <3>2 DEF Abreast
  <2>7. Abreast(o)'
    BY <2>3, <2>4, <2>5, <2>6 DEF TreeNext
  <2>8. QED
    BY <2>1, <2>7
<1>3. Abreast(o) => CacheFollowsRows
  BY DEF Abreast, CacheFollowsRows
<1>4. QED
  BY <1>1, <1>2, <1>3, PTL DEF TreeSpec

-----------------------------------------------------------------------------
(* Recursion along numbers.                                                *)

(* What holds at the start and goes on holds throughout. *)
Onward(G, n) == 0 \in G /\ \A m \in 0..n : m \in G /\ m < n => m + 1 \in G

LEMMA Along ==
    ASSUME NEW n \in Nat, NEW G, Onward(G, n)
    PROVE  \A m \in 0..n : m \in G
<1> DEFINE T == {m \in 0..n : m \notin G}
<1>1. SUFFICES ASSUME T # {} PROVE FALSE
  OBVIOUS
<1>2. PICK m \in T : \A j \in T : m <= j
  <2>1. T \subseteq Nat
    OBVIOUS
  <2> HIDE DEF T
  <2>2. QED
    BY <1>1, <2>1, Least
<1>3. m \in 0..n /\ m \notin G /\ m # 0
  BY <1>2 DEF Onward
<1>4. PICK j \in 0..n : m = j + 1
  <2>1. m - 1 \in 0..n /\ m = (m - 1) + 1
    BY <1>3
  <2>2. QED
    BY <2>1
<1>5. j < m /\ j < n
  BY <1>3, <1>4
<1>6. j \in G
  BY <1>2, <1>3, <1>5
<1>7. QED
  BY <1>3, <1>4, <1>5, <1>6 DEF Onward

(* A function by recursion from base along step. *)
Recurs(f, n, V, base, step) ==
    /\ f \in [0..n -> V]
    /\ f[0] = base
    /\ \A m \in 1..n : f[m] = step[<<f[m - 1], m>>]

LEMMA Recursion ==
    ASSUME NEW n \in Nat, NEW V, NEW base \in V, NEW step \in [V \X (1..n) -> V]
    PROVE  \E f : Recurs(f, n, V, base, step)
<1> DEFINE G == {m \in 0..n : \E f \in [0..m -> V] :
                     /\ f[0] = base
                     /\ \A j \in 1..m : f[j] = step[<<f[j - 1], j>>]}
<1>1. 0 \in G
  <2> DEFINE f == [j \in 0..0 |-> base]
  <2>1. f \in [0..0 -> V] /\ f[0] = base
    OBVIOUS
  <2>2. \A j \in 1..0 : f[j] = step[<<f[j - 1], j>>]
    OBVIOUS
  <2> HIDE DEF f
  <2>3. QED
    BY <2>1, <2>2
<1>2. ASSUME NEW m \in 0..n, m \in G, m < n PROVE m + 1 \in G
  <2>1. PICK g \in [0..m -> V] : /\ g[0] = base
                                 /\ \A j \in 1..m : g[j] = step[<<g[j - 1], j>>]
    BY <1>2
  <2> DEFINE x == step[<<g[m], m + 1>>]
             f == [j \in 0..(m + 1) |-> IF j = m + 1 THEN x ELSE g[j]]
  <2>2. x \in V
    <3>1. g[m] \in V /\ m + 1 \in 1..n
      BY <1>2, <2>1
    <3>2. <<g[m], m + 1>> \in V \X (1..n)
      BY <3>1
    <3>3. QED
      BY <3>2
  <2>3. \A j \in 0..m : f[j] = g[j]
    OBVIOUS
  <2>4. f[m + 1] = x
    OBVIOUS
  <2> HIDE DEF x
  <2>5. f \in [0..(m + 1) -> V]
    BY <2>1, <2>2
  <2> HIDE DEF f
  <2>6. ASSUME NEW j \in 1..(m + 1) PROVE f[j] = step[<<f[j - 1], j>>]
    <3>1. CASE j = m + 1
      <4>1. j - 1 = m /\ m \in 0..m
        BY <3>1
      <4>2. f[j - 1] = g[m]
        BY <2>3, <4>1
      <4>3. QED
        BY <2>4, <3>1, <4>2 DEF x
    <3>2. CASE j # m + 1
      <4>1. j \in 1..m /\ j \in 0..m /\ j - 1 \in 0..m
        BY <3>2
      <4>2. f[j] = g[j] /\ f[j - 1] = g[j - 1]
        BY <2>3, <4>1
      <4>3. QED
        BY <2>1, <4>1, <4>2
    <3>3. QED
      BY <3>1, <3>2
  <2>7. f[0] = base
    BY <2>1, <2>3
  <2>8. m + 1 \in 0..n
    BY <1>2
  <2>9. QED
    BY <2>5, <2>6, <2>7, <2>8
<1> HIDE DEF G
<1>3. n \in G
  BY <1>1, <1>2, Along DEF Onward
<1>4. QED
  BY <1>3 DEF G, Recurs

-----------------------------------------------------------------------------
(* FlattenSeq and FirstOnly.                                               *)

LEMMA ConcatHas ==
    ASSUME NEW V, NEW s \in Seq(V), NEW u \in Seq(V)
    PROVE  s \o u \in Seq(V) /\ ToSet(s \o u) = ToSet(s) \cup ToSet(u)
<1>1. /\ s \o u \in Seq(V) /\ Len(s \o u) = Len(s) + Len(u)
      /\ DOMAIN s = 1..Len(s) /\ DOMAIN u = 1..Len(u)
      /\ DOMAIN (s \o u) = 1..(Len(s) + Len(u)) /\ Len(s) \in Nat /\ Len(u) \in Nat
  OBVIOUS
<1>2. \A j \in 1..Len(s) : (s \o u)[j] = s[j] /\ j \in DOMAIN (s \o u)
  BY <1>1
<1>3. \A j \in 1..Len(u) : (s \o u)[Len(s) + j] = u[j] /\ Len(s) + j \in DOMAIN (s \o u)
  BY <1>1
<1>4. ASSUME NEW x \in ToSet(s) PROVE x \in ToSet(s \o u)
  <2>1. PICK j \in DOMAIN s : x = s[j]
    BY DEF ToSet
  <2>2. QED
    BY <1>1, <1>2, <2>1 DEF ToSet
<1>5. ASSUME NEW x \in ToSet(u) PROVE x \in ToSet(s \o u)
  <2>1. PICK j \in DOMAIN u : x = u[j]
    BY DEF ToSet
  <2>2. QED
    BY <1>1, <1>3, <2>1 DEF ToSet
<1>6. ASSUME NEW x \in ToSet(s \o u) PROVE x \in ToSet(s) \cup ToSet(u)
  <2>1. PICK j \in DOMAIN (s \o u) : x = (s \o u)[j]
    BY DEF ToSet
  <2>2. CASE j <= Len(s)
    <3>1. j \in DOMAIN s /\ x = s[j]
      BY <1>1, <2>1, <2>2
    <3>2. QED
      BY <3>1 DEF ToSet
  <2>3. CASE ~(j <= Len(s))
    <3>1. j - Len(s) \in DOMAIN u /\ x = u[j - Len(s)]
      BY <1>1, <2>1, <2>3
    <3>2. QED
      BY <3>1 DEF ToSet
  <2>4. QED
    BY <2>2, <2>3
<1>7. QED
  BY <1>1, <1>4, <1>5, <1>6

LEMMA AppendHas ==
    ASSUME NEW V, NEW s \in Seq(V), NEW e \in V
    PROVE  Append(s, e) \in Seq(V) /\ ToSet(Append(s, e)) = ToSet(s) \cup {e}
<1>1. PICK u \in Seq(V) : u = <<e>>
  <2>1. <<e>> \in Seq(V)
    OBVIOUS
  <2>2. QED
    BY <2>1
<1>2. ToSet(u) = {e}
  BY <1>1 DEF ToSet
<1>3. Append(s, e) = s \o u
  BY <1>1
<1>4. s \o u \in Seq(V) /\ ToSet(s \o u) = ToSet(s) \cup ToSet(u)
  BY ConcatHas
<1>5. QED
  BY <1>2, <1>3, <1>4

(* What a list of lists flattens to. *)
Joined(ss, m) == UNION {ToSet(ss[i]) : i \in 1..m}
Flattens(f, ss, n) == f = [i \in 1..n |-> IF i = 1 THEN ss[i] ELSE f[i - 1] \o ss[i]]

LEMMA JoinedMore ==
    ASSUME NEW ss, NEW m \in Nat
    PROVE  Joined(ss, m + 1) = Joined(ss, m) \cup ToSet(ss[m + 1])
<1>1. \A j, x : x \in Joined(ss, j) <=> \E i \in 1..j : x \in ToSet(ss[i])
  BY DEF Joined
<1>2. \A i : i \in 1..(m + 1) <=> i \in 1..m \/ i = m + 1
  OBVIOUS
<1>3. ASSUME NEW x
      PROVE  x \in Joined(ss, m + 1) <=> x \in Joined(ss, m) \/ x \in ToSet(ss[m + 1])
  BY <1>1, <1>2, Zenon
<1>4. QED
  BY <1>3

LEMMA FlattensEach ==
    ASSUME NEW f, NEW ss, NEW n \in Nat, Flattens(f, ss, n)
    PROVE  \A i \in 1..n : f[i] = IF i = 1 THEN ss[i] ELSE f[i - 1] \o ss[i]
<1>1. PICK k : k = [i \in 1..n |-> IF i = 1 THEN ss[i] ELSE f[i - 1] \o ss[i]]
  OBVIOUS
<1>2. f = k
  BY <1>1 DEF Flattens
<1>3. \A i \in 1..n : k[i] = IF i = 1 THEN ss[i] ELSE f[i - 1] \o ss[i]
  BY <1>1
<1>4. QED
  BY <1>2, <1>3

LEMMA FlattensExists ==
    ASSUME NEW V, NEW n \in Nat, NEW ss \in [1..n -> Seq(V)]
    PROVE  \E f : Flattens(f, ss, n)
<1> DEFINE step == [p \in Seq(V) \X (1..n) |-> p[1] \o ss[p[2]]]
<1>1. \A p \in Seq(V) \X (1..n) : p[1] \o ss[p[2]] \in Seq(V)
  <2> SUFFICES ASSUME NEW p \in Seq(V) \X (1..n) PROVE p[1] \o ss[p[2]] \in Seq(V)
    OBVIOUS
  <2>1. p[1] \in Seq(V) /\ ss[p[2]] \in Seq(V)
    OBVIOUS
  <2>2. QED
    BY <2>1
<1>2. step \in [Seq(V) \X (1..n) -> Seq(V)]
  BY <1>1
<1>3. \A s \in Seq(V), i \in 1..n : step[<<s, i>>] = s \o ss[i]
  OBVIOUS
<1> HIDE DEF step
<1>4. PICK W : W = Seq(V)
  OBVIOUS
<1>5. <<>> \in W
  BY <1>4
<1>6. PICK g : Recurs(g, n, W, <<>>, step)
  BY <1>2, <1>4, <1>5, Recursion
<1>7. /\ g[0] = <<>> /\ \A i \in 0..n : g[i] \in Seq(V)
      /\ \A i \in 1..n : g[i] = step[<<g[i - 1], i>>]
  BY <1>4, <1>6 DEF Recurs
<1>8. PICK f : f = [i \in 1..n |-> g[i]]
  OBVIOUS
<1>9. ASSUME NEW i \in 1..n PROVE f[i] = IF i = 1 THEN ss[i] ELSE f[i - 1] \o ss[i]
  <2>1. i - 1 \in 0..n /\ ss[i] \in Seq(V)
    OBVIOUS
  <2>2. f[i] = g[i - 1] \o ss[i]
    BY <1>3, <1>7, <1>8, <2>1
  <2>3. CASE i = 1
    <3>1. g[i - 1] = <<>>
      BY <1>7, <2>3
    <3>2. <<>> \o ss[i] = ss[i]
      BY <2>1
    <3>3. QED
      BY <2>2, <2>3, <3>1, <3>2
  <2>4. CASE i # 1
    <3>1. i - 1 \in 1..n
      BY <2>4
    <3>2. f[i - 1] = g[i - 1]
      BY <1>8, <3>1
    <3>3. QED
      BY <2>2, <2>4, <3>2
  <2>5. QED
    BY <2>3, <2>4
<1>10. f = [i \in 1..n |-> IF i = 1 THEN ss[i] ELSE f[i - 1] \o ss[i]]
  BY <1>8, <1>9
<1>11. QED
  BY <1>10 DEF Flattens

LEMMA FlattenUnfolded ==
    ASSUME NEW ss, Len(ss) # 0
    PROVE  FlattenSeq(ss) = (CHOOSE f : Flattens(f, ss, Len(ss)))[Len(ss)]
  BY Zenon DEF FlattenSeq, Flattens

LEMMA FlattenHas ==
    ASSUME NEW V, NEW n \in Nat, NEW ss \in [1..n -> Seq(V)]
    PROVE  FlattenSeq(ss) \in Seq(V) /\ ToSet(FlattenSeq(ss)) = Joined(ss, n)
<1>1. ss \in Seq(Seq(V)) /\ Len(ss) = n
  OBVIOUS
<1>2. CASE n = 0
  <2>1. ss = <<>> /\ FlattenSeq(ss) = ss
    BY <1>1, <1>2 DEF FlattenSeq
  <2>2. ToSet(<<>>) = {} /\ Joined(ss, n) = {}
    BY <1>2 DEF ToSet, Joined
  <2>3. <<>> \in Seq(V)
    OBVIOUS
  <2>4. QED
    BY <2>1, <2>2, <2>3, Zenon
<1>3. CASE n # 0
  <2>1. PICK f : f = CHOOSE k : Flattens(k, ss, n)
    OBVIOUS
  <2>2. Flattens(f, ss, n)
    BY <2>1, FlattensExists
  <2>3. \A i \in 1..n : f[i] = IF i = 1 THEN ss[i] ELSE f[i - 1] \o ss[i]
    BY <2>2, FlattensEach
  <2>4. FlattenSeq(ss) = f[n]
    BY <1>1, <1>3, <2>1, FlattenUnfolded
  <2>5. PICK k \in Nat : n = k + 1
    <3>1. n - 1 \in Nat /\ n = (n - 1) + 1
      BY <1>3
    <3>2. QED
      BY <3>1
  <2> DEFINE G == {m \in 0..k : f[m + 1] \in Seq(V) /\ ToSet(f[m + 1]) = Joined(ss, m + 1)}
  <2>6. 0 \in G
    <3>1. 0 \in 0..k /\ 0 + 1 = 1 /\ 1 \in 1..n
      BY <2>5
    <3>2. f[1] = ss[1] /\ ss[1] \in Seq(V)
      BY <2>3, <3>1
    <3>3. Joined(ss, 1) = ToSet(ss[1])
      <4>1. 1..1 = {1}
        OBVIOUS
      <4>2. QED
        BY <4>1 DEF Joined
    <3>4. QED
      BY <3>1, <3>2, <3>3
  <2>7. ASSUME NEW m \in 0..k, m \in G, m < k PROVE m + 1 \in G
    <3>1. PICK j \in Nat : j = m + 1
      OBVIOUS
    <3>2. j \in 0..k /\ j + 1 \in 1..n /\ j + 1 # 1 /\ (j + 1) - 1 = j /\ j \in Nat
      BY <2>5, <2>7, <3>1
    <3>3. f[j] \in Seq(V) /\ ToSet(f[j]) = Joined(ss, j)
      BY <2>7, <3>1
    <3>4. f[j + 1] = f[j] \o ss[j + 1] /\ ss[j + 1] \in Seq(V)
      BY <2>3, <3>2
    <3>5. f[j + 1] \in Seq(V) /\ ToSet(f[j + 1]) = ToSet(f[j]) \cup ToSet(ss[j + 1])
      BY <3>3, <3>4, ConcatHas
    <3>6. ToSet(f[j + 1]) = Joined(ss, j + 1)
      BY <3>2, <3>3, <3>5, JoinedMore
    <3>7. j \in G
      BY <3>2, <3>5, <3>6
    <3>8. QED
      BY <3>1, <3>7
  <2> HIDE DEF G
  <2>8. k \in G
    <3>1. k \in 0..k
      OBVIOUS
    <3>2. QED
      BY <2>6, <2>7, <3>1, Along DEF Onward
  <2>9. QED
    BY <2>4, <2>5, <2>8 DEF G
<1>4. QED
  BY <1>2, <1>3

(* FirstOnly. *)
Taken(seen, x) == IF x \in ToSet(seen) THEN seen ELSE Append(seen, x)
Firsts(f, s, n) == f = [i \in 0..n |-> IF i = 0 THEN <<>> ELSE Taken(f[i - 1], s[i])]

LEMMA FirstOnlyUnfolded ==
    ASSUME NEW s
    PROVE  FirstOnly(s) = (CHOOSE f : Firsts(f, s, Len(s)))[Len(s)]
  BY Zenon DEF FirstOnly, Firsts, Taken

LEMMA FirstsEach ==
    ASSUME NEW f, NEW s, NEW n \in Nat, Firsts(f, s, n)
    PROVE  f[0] = <<>> /\ \A i \in 1..n : f[i] = Taken(f[i - 1], s[i])
<1>1. PICK k : k = [i \in 0..n |-> IF i = 0 THEN <<>> ELSE Taken(f[i - 1], s[i])]
  OBVIOUS
<1>2. f = k
  BY <1>1 DEF Firsts
<1>3. k[0] = <<>> /\ \A i \in 1..n : k[i] = Taken(f[i - 1], s[i])
  BY <1>1
<1>4. QED
  BY <1>2, <1>3

LEMMA TakenHas ==
    ASSUME NEW V, NEW seen \in Seq(V), IsInjective(seen), NEW x \in V
    PROVE  /\ Taken(seen, x) \in Seq(V) /\ IsInjective(Taken(seen, x))
           /\ ToSet(Taken(seen, x)) = ToSet(seen) \cup {x}
<1>1. CASE x \in ToSet(seen)
  BY <1>1 DEF Taken
<1>2. CASE x \notin ToSet(seen)
  <2>1. Taken(seen, x) = Append(seen, x)
    BY <1>2 DEF Taken
  <2>2. /\ Append(seen, x) \in Seq(V)
        /\ ToSet(Append(seen, x)) = ToSet(seen) \cup {x}
    BY AppendHas
  <2>3. PICK r : r = Append(seen, x)
    OBVIOUS
  <2>4. /\ Len(seen) \in Nat /\ DOMAIN seen = 1..Len(seen)
        /\ DOMAIN r = 1..(Len(seen) + 1)
        /\ r[Len(seen) + 1] = x /\ \A j \in 1..Len(seen) : r[j] = seen[j]
    BY <2>3
  <2>5. \A j \in 1..Len(seen) : seen[j] # x
    BY <1>2, <2>4 DEF ToSet
  <2>6. \A i, j \in 1..Len(seen) : seen[i] = seen[j] => i = j
    BY <2>4 DEF IsInjective
  <2>7. ASSUME NEW i \in DOMAIN r, NEW j \in DOMAIN r, r[i] = r[j] PROVE i = j
    <3>1. i \in 1..(Len(seen) + 1) /\ j \in 1..(Len(seen) + 1)
      BY <2>4, <2>7
    <3>2. CASE i = Len(seen) + 1 /\ j = Len(seen) + 1
      BY <3>2
    <3>3. CASE i # Len(seen) + 1 /\ j = Len(seen) + 1
      BY <2>4, <2>5, <2>7, <3>1, <3>3
    <3>4. CASE i = Len(seen) + 1 /\ j # Len(seen) + 1
      BY <2>4, <2>5, <2>7, <3>1, <3>4
    <3>5. CASE i # Len(seen) + 1 /\ j # Len(seen) + 1
      <4>1. i \in 1..Len(seen) /\ j \in 1..Len(seen)
        BY <2>4, <3>1, <3>5
      <4>2. seen[i] = seen[j]
        BY <2>4, <2>7, <4>1
      <4>3. QED
        BY <2>6, <4>1, <4>2
    <3>6. QED
      BY <3>2, <3>3, <3>4, <3>5
  <2>8. IsInjective(r)
    BY <2>7 DEF IsInjective
  <2>9. QED
    BY <2>1, <2>2, <2>3, <2>8
<1>3. QED
  BY <1>1, <1>2

LEMMA FirstsExist ==
    ASSUME NEW V, NEW n \in Nat, NEW s \in [1..n -> V]
    PROVE  \E f : Firsts(f, s, n)
<1> DEFINE step == [p \in Seq(V) \X (1..n) |-> Taken(p[1], s[p[2]])]
<1>1. ASSUME NEW t \in Seq(V), NEW i \in 1..n PROVE Taken(t, s[i]) \in Seq(V)
  <2>1. s[i] \in V
    OBVIOUS
  <2>2. Append(t, s[i]) \in Seq(V)
    BY <2>1, AppendHas
  <2>3. QED
    BY <2>2 DEF Taken
<1>2. step \in [Seq(V) \X (1..n) -> Seq(V)]
  BY <1>1
<1>3. \A t \in Seq(V), i \in 1..n : step[<<t, i>>] = Taken(t, s[i])
  OBVIOUS
<1> HIDE DEF step
<1>4. PICK W : W = Seq(V)
  OBVIOUS
<1>5. <<>> \in W
  BY <1>4
<1>6. PICK g : Recurs(g, n, W, <<>>, step)
  BY <1>2, <1>4, <1>5, Recursion
<1>7. /\ g \in [0..n -> Seq(V)] /\ g[0] = <<>>
      /\ \A i \in 1..n : g[i] = step[<<g[i - 1], i>>]
  BY <1>4, <1>6 DEF Recurs
<1>8. ASSUME NEW i \in 1..n PROVE g[i] = Taken(g[i - 1], s[i])
  <2>1. g[i - 1] \in Seq(V)
    BY <1>7
  <2>2. QED
    BY <1>3, <1>7, <2>1
<1>9. \A i \in 0..n : g[i] = IF i = 0 THEN <<>> ELSE Taken(g[i - 1], s[i])
  BY <1>7, <1>8
<1>10. g = [i \in 0..n |-> IF i = 0 THEN <<>> ELSE Taken(g[i - 1], s[i])]
  BY <1>7, <1>9
<1>11. QED
  BY <1>10 DEF Firsts

(* The items of a list up to place m. *)
UpTo(s, m) == {s[i] : i \in 1..m}

LEMMA UpToMore ==
    ASSUME NEW s, NEW m \in Nat
    PROVE  UpTo(s, m + 1) = UpTo(s, m) \cup {s[m + 1]}
<1>1. 1..(m + 1) = (1..m) \cup {m + 1}
  OBVIOUS
<1>2. PICK M : M = 1..m
  OBVIOUS
<1>3. PICK k : k = m + 1
  OBVIOUS
<1>4. {s[i] : i \in M \cup {k}} = {s[i] : i \in M} \cup {s[k]}
  OBVIOUS
<1>5. QED
  BY <1>1, <1>2, <1>3, <1>4 DEF UpTo

LEMMA FirstOnlyHas ==
    ASSUME NEW V, NEW s \in Seq(V)
    PROVE  IsInjective(FirstOnly(s)) /\ ToSet(FirstOnly(s)) = ToSet(s)
<1>1. PICK n \in Nat : n = Len(s)
  OBVIOUS
<1>2. s \in [1..n -> V] /\ DOMAIN s = 1..n
  BY <1>1
<1>3. PICK f : f = CHOOSE k : Firsts(k, s, n)
  OBVIOUS
<1>4. Firsts(f, s, n)
  BY <1>2, <1>3, FirstsExist
<1>5. f[0] = <<>> /\ \A i \in 1..n : f[i] = Taken(f[i - 1], s[i])
  BY <1>4, FirstsEach
<1>6. FirstOnly(s) = f[n]
  BY <1>1, <1>3, FirstOnlyUnfolded
<1> DEFINE G == {m \in 0..n : /\ f[m] \in Seq(V) /\ IsInjective(f[m])
                              /\ ToSet(f[m]) = UpTo(s, m)}
<1>7. 0 \in G
  <2>1. <<>> \in Seq(V) /\ IsInjective(<<>>)
    BY DEF IsInjective
  <2>2. ToSet(<<>>) = {} /\ UpTo(s, 0) = {}
    BY DEF ToSet, UpTo
  <2>3. f[0] \in Seq(V) /\ IsInjective(f[0]) /\ ToSet(f[0]) = UpTo(s, 0)
    BY <1>5, <2>1, <2>2, Zenon
  <2>4. 0 \in 0..n
    OBVIOUS
  <2>5. QED
    BY <2>3, <2>4
<1>8. ASSUME NEW m \in 0..n, m \in G, m < n PROVE m + 1 \in G
  <2>1. PICK j \in Nat : j = m + 1
    OBVIOUS
  <2>2. j \in 1..n /\ j \in 0..n /\ j - 1 = m /\ m \in Nat
    BY <1>8, <2>1
  <2>3. f[m] \in Seq(V) /\ IsInjective(f[m]) /\ ToSet(f[m]) = UpTo(s, m)
    BY <1>8
  <2>4. f[j] = Taken(f[m], s[j]) /\ s[j] \in V
    BY <1>2, <1>5, <2>2
  <2>5. /\ f[j] \in Seq(V) /\ IsInjective(f[j])
        /\ ToSet(f[j]) = ToSet(f[m]) \cup {s[j]}
    <3>1. PICK seen \in Seq(V) : seen = f[m]
      BY <2>3
    <3>2. PICK x \in V : x = s[j]
      BY <2>4
    <3>3. IsInjective(seen)
      BY <2>3, <3>1
    <3>4. /\ Taken(seen, x) \in Seq(V) /\ IsInjective(Taken(seen, x))
          /\ ToSet(Taken(seen, x)) = ToSet(seen) \cup {x}
      BY <3>3, TakenHas
    <3>5. QED
      BY <2>4, <3>1, <3>2, <3>4, Zenon
  <2>6. ToSet(f[j]) = UpTo(s, j)
    BY <2>1, <2>2, <2>3, <2>5, UpToMore
  <2>7. j \in G
    BY <2>2, <2>5, <2>6
  <2>8. QED
    BY <2>1, <2>7
<1> HIDE DEF G
<1>9. n \in G
  <2>1. n \in 0..n
    OBVIOUS
  <2>2. QED
    BY <1>7, <1>8, <2>1, Along DEF Onward
<1>10. IsInjective(f[n]) /\ ToSet(f[n]) = UpTo(s, n)
  BY <1>9 DEF G
<1>11. UpTo(s, n) = ToSet(s)
  BY <1>2 DEF UpTo, ToSet
<1>12. QED
  BY <1>6, <1>10, <1>11

(* Without leaves nothing else out. *)
LEMMA WithoutHas ==
    ASSUME NEW items \in Lists, NEW S
    PROVE  Without(items, S) \in Lists /\ ToSet(items) \ S \subseteq ToSet(Without(items, S))
<1>1. PICK n \in Nat : n = Len(items)
  BY DEF Lists
<1>2. items \in [1..n -> Ref] /\ DOMAIN items = 1..n
  BY <1>1 DEF Lists
<1>3. PICK f : f = CHOOSE k : Kept(k, items, S, n)
  OBVIOUS
<1>4. Kept(f, items, S, n)
  BY <1>3, KeptExists
<1>5. f[0] = <<>> /\ \A i \in 0..n : i # 0 => f[i] = Add(f[i - 1], items[i], S)
  BY <1>4, KeptEach
<1>6. Without(items, S) = f[n]
  BY <1>1, <1>3, WithoutUnfolded
<1> DEFINE G == {m \in 0..n : f[m] \in Lists /\ UpTo(items, m) \ S \subseteq ToSet(f[m])}
<1>7. 0 \in G
  <2>1. <<>> \in Lists /\ UpTo(items, 0) = {}
    BY DEF Lists, UpTo
  <2>2. QED
    BY <1>5, <2>1
<1>8. ASSUME NEW m \in 0..n, m \in G, m < n PROVE m + 1 \in G
  <2>1. PICK j \in Nat : j = m + 1
    OBVIOUS
  <2>2. j \in 1..n /\ j \in 0..n /\ j # 0 /\ j - 1 = m /\ m \in Nat
    BY <1>8, <2>1
  <2>3. f[m] \in Lists /\ UpTo(items, m) \ S \subseteq ToSet(f[m])
    BY <1>8
  <2>4. f[j] = Add(f[m], items[j], S) /\ items[j] \in Ref
    BY <1>2, <1>5, <2>2
  <2>5. UpTo(items, j) = UpTo(items, m) \cup {items[j]}
    BY <2>1, <2>2, UpToMore
  <2>6. CASE items[j] \in S
    <3>1. f[j] = f[m]
      BY <2>4, <2>6 DEF Add
    <3>2. j \in G
      BY <2>2, <2>3, <2>5, <2>6, <3>1
    <3>3. QED
      BY <2>1, <3>2
  <2>7. CASE items[j] \notin S
    <3>1. f[j] = Append(f[m], items[j])
      BY <2>4, <2>7 DEF Add
    <3>2. f[j] \in Seq(Ref) /\ ToSet(f[j]) = ToSet(f[m]) \cup {items[j]}
      BY <2>3, <2>4, <3>1, AppendHas DEF Lists
    <3>3. f[j] \in Lists /\ UpTo(items, j) \ S \subseteq ToSet(f[j])
      BY <2>3, <2>5, <3>2 DEF Lists
    <3>4. j \in G
      BY <2>2, <3>3
    <3>5. QED
      BY <2>1, <3>4
  <2>8. QED
    BY <2>6, <2>7
<1> HIDE DEF G
<1>9. n \in G
  <2>1. n \in 0..n
    OBVIOUS
  <2>2. QED
    BY <1>7, <1>8, <2>1, Along DEF Onward
<1>10. f[n] \in Lists /\ UpTo(items, n) \ S \subseteq ToSet(f[n])
  BY <1>9 DEF G
<1>11. UpTo(items, n) = ToSet(items)
  BY <1>2 DEF UpTo, ToSet
<1>12. QED
  BY <1>6, <1>10, <1>11

-----------------------------------------------------------------------------
(* The walk, for a cached table of any shape, a cyclic one included.       *)

Pair == Group \X Grant
From == Seq(Ref) \X Group \X SUBSET Group

(* One layer of the walk over the next. *)
Branches(list, h, path, deeper) == [i \in 1..Len(list) |-> Step(list[i], h, path, deeper)]
Layer(deeper) == [from \in From |-> FlattenSeq(Branches(from[1], from[2], from[3], deeper))]
Walks(w) ==
    w = [depth \in 0..(MaxDepth + 1) |->
            [from \in From |->
                IF TooDeep(depth) THEN <<>>
                ELSE FlattenSeq(Branches(from[1], from[2], from[3], w[depth + 1]))]]

LEMMA WalkUnfolded ==
    ASSUME NEW g, NEW items
    PROVE  Walk(g, items) = (CHOOSE w : Walks(w))[0][<<items, g, {g}>>]
  BY Zenon DEF Walk, Walks, Branches, From

LEMMA StepIn ==
    ASSUME cache \in Table, NEW deeper \in [From -> Seq(Pair)],
           NEW item \in Ref, NEW h \in Group, NEW path \in SUBSET Group
    PROVE  Step(item, h, path, deeper) \in Seq(Pair)
<1>1. CASE item \in Grant
  <2>1. << <<h, item>> >> \in Seq(Pair)
    BY <1>1 DEF Pair
  <2>2. QED
    BY <1>1, <2>1 DEF Step
<1>2. CASE item \notin Grant /\ item \in DOMAIN cache \ path
  <2>1. cache[item] \in Seq(Ref) /\ item \in Group /\ path \cup {item} \in SUBSET Group
    BY <1>2, TableParts DEF Lists
  <2>2. <<cache[item], item, path \cup {item}>> \in From
    BY <2>1 DEF From
  <2>3. deeper[<<cache[item], item, path \cup {item}>>] \in Seq(Pair)
    BY <2>2
  <2>4. QED
    BY <1>2, <2>3 DEF Step
<1>3. CASE item \notin Grant /\ item \notin DOMAIN cache \ path
  <2>1. Step(item, h, path, deeper) = <<>>
    BY <1>3 DEF Step
  <2>2. QED
    BY <2>1
<1>4. QED
  BY <1>1, <1>2, <1>3

LEMMA BranchesIn ==
    ASSUME cache \in Table, NEW deeper \in [From -> Seq(Pair)],
           NEW list \in Lists, NEW h \in Group, NEW path \in SUBSET Group
    PROVE  /\ FlattenSeq(Branches(list, h, path, deeper)) \in Seq(Pair)
           /\ \A item : item \in ToSet(FlattenSeq(Branches(list, h, path, deeper))) <=>
                  \E r \in ToSet(list) : item \in ToSet(Step(r, h, path, deeper))
<1>1. PICK n \in Nat : n = Len(list)
  BY DEF Lists
<1>2. list \in [1..n -> Ref] /\ DOMAIN list = 1..n
  BY <1>1 DEF Lists
<1>3. PICK ss : ss = Branches(list, h, path, deeper)
  OBVIOUS
<1>4. \A i \in 1..n : Step(list[i], h, path, deeper) \in Seq(Pair)
  BY <1>2, StepIn
<1>5. ss = [i \in 1..n |-> Step(list[i], h, path, deeper)]
  BY <1>1, <1>3 DEF Branches
<1>6. ss \in [1..n -> Seq(Pair)] /\ \A i \in 1..n : ss[i] = Step(list[i], h, path, deeper)
  BY <1>4, <1>5
<1>7. FlattenSeq(ss) \in Seq(Pair) /\ ToSet(FlattenSeq(ss)) = Joined(ss, n)
  BY <1>6, FlattenHas
<1>8. ASSUME NEW item
      PROVE  item \in Joined(ss, n) <=>
                 \E r \in ToSet(list) : item \in ToSet(Step(r, h, path, deeper))
  <2>1. item \in Joined(ss, n) <=> \E i \in 1..n : item \in ToSet(ss[i])
    BY DEF Joined
  <2>2. (\E i \in 1..n : item \in ToSet(ss[i])) <=>
        \E i \in 1..n : item \in ToSet(Step(list[i], h, path, deeper))
    BY <1>6
  <2>3. ToSet(list) = {list[i] : i \in 1..n}
    BY <1>2 DEF ToSet
  <2>4. QED
    BY <2>1, <2>2, <2>3
<1>9. QED
  BY <1>3, <1>7, <1>8

LEMMA LayerIn ==
    ASSUME cache \in Table, NEW deeper \in [From -> Seq(Pair)]
    PROVE  Layer(deeper) \in [From -> Seq(Pair)]
<1>1. ASSUME NEW from \in From
      PROVE  FlattenSeq(Branches(from[1], from[2], from[3], deeper)) \in Seq(Pair)
  <2>1. from[1] \in Lists /\ from[2] \in Group /\ from[3] \in SUBSET Group
    BY DEF From, Lists
  <2>2. QED
    BY <2>1, BranchesIn
<1>2. QED
  BY <1>1 DEF Layer

LEMMA WalksExist ==
    ASSUME cache \in Table
    PROVE  \E w : Walks(w)
<1>1. PICK n \in Nat : n = MaxDepth + 1 /\ MaxDepth \in Nat
  BY TreeAssumption
<1>2. PICK V : V = [From -> Seq(Pair)]
  OBVIOUS
<1>3. PICK base : base = [from \in From |-> <<>>]
  OBVIOUS
<1>4. base \in V
  <2>1. <<>> \in Seq(Pair)
    OBVIOUS
  <2>2. QED
    BY <1>2, <1>3, <2>1
<1> DEFINE step == [p \in V \X (1..n) |-> Layer(p[1])]
<1>5. \A d \in V : Layer(d) \in V
  BY <1>2, LayerIn
<1>6. step \in [V \X (1..n) -> V]
  BY <1>5
<1>7. \A d \in V, i \in 1..n : step[<<d, i>>] = Layer(d)
  OBVIOUS
<1> HIDE DEF step
<1>8. PICK f : Recurs(f, n, V, base, step)
  BY <1>4, <1>6, Recursion
<1>9. /\ f[0] = base /\ \A i \in 0..n : f[i] \in V
      /\ \A i \in 1..n : f[i] = step[<<f[i - 1], i>>]
  BY <1>8 DEF Recurs
<1>10. PICK w : w = [depth \in 0..n |-> f[n - depth]]
  OBVIOUS
<1>11. ASSUME NEW depth \in 0..n
       PROVE  w[depth] =
                 [from \in From |->
                     IF TooDeep(depth) THEN <<>>
                     ELSE FlattenSeq(Branches(from[1], from[2], from[3], w[depth + 1]))]
  <2>1. CASE depth = n
    <3>1. w[depth] = f[0] /\ TooDeep(depth)
      BY <1>1, <1>10, <2>1 DEF TooDeep
    <3>2. QED
      BY <1>3, <1>9, <3>1
  <2>2. CASE depth # n
    <3>1. PICK i \in 1..n : i = n - depth
      BY <2>2
    <3>2. depth + 1 \in 0..n /\ n - (depth + 1) = i - 1 /\ i - 1 \in 0..n
      BY <2>2, <3>1
    <3>3. w[depth] = f[i] /\ w[depth + 1] = f[i - 1]
      BY <1>10, <3>1, <3>2
    <3>4. f[i] = Layer(f[i - 1])
      BY <1>7, <1>9, <3>2
    <3>5. ~TooDeep(depth)
      BY <1>1, <2>2 DEF TooDeep
    <3>6. PICK next : next = w[depth + 1]
      OBVIOUS
    <3>7. w[depth] = [from \in From |-> FlattenSeq(Branches(from[1], from[2], from[3], next))]
      BY <3>3, <3>4, <3>6 DEF Layer
    <3>8. QED
      BY <3>5, <3>6, <3>7
  <2>3. QED
    BY <2>1, <2>2
<1>12. w = [depth \in 0..n |->
               [from \in From |->
                   IF TooDeep(depth) THEN <<>>
                   ELSE FlattenSeq(Branches(from[1], from[2], from[3], w[depth + 1]))]]
  BY <1>10, <1>11
<1>13. QED
  BY <1>1, <1>12 DEF Walks

(* What a walk yields from a list, and that it yields leaves. *)
Found(w, depth, list, h, path) == ToSet(w[depth][<<list, h, path>>])

LEMMA WalksEach ==
    ASSUME NEW w, Walks(w), NEW depth \in 0..(MaxDepth + 1),
           NEW list \in Lists, NEW h \in Group, NEW path \in SUBSET Group
    PROVE  w[depth][<<list, h, path>>] =
               IF TooDeep(depth) THEN <<>> ELSE FlattenSeq(Branches(list, h, path, w[depth + 1]))
<1>1. PICK k : k = [d \in 0..(MaxDepth + 1) |->
                      [from \in From |->
                          IF TooDeep(d) THEN <<>>
                          ELSE FlattenSeq(Branches(from[1], from[2], from[3], w[d + 1]))]]
  OBVIOUS
<1>2. w = k
  BY <1>1 DEF Walks
<1>3. PICK next : next = w[depth + 1]
  OBVIOUS
<1>4. k[depth] = [from \in From |->
                     IF TooDeep(depth) THEN <<>>
                     ELSE FlattenSeq(Branches(from[1], from[2], from[3], next))]
  BY <1>1, <1>3
<1>5. PICK from : from = <<list, h, path>>
  OBVIOUS
<1>6. from \in From /\ from[1] = list /\ from[2] = h /\ from[3] = path
  BY <1>5 DEF From, Lists
<1>7. k[depth][from] = IF TooDeep(depth) THEN <<>>
                       ELSE FlattenSeq(Branches(from[1], from[2], from[3], next))
  BY <1>4, <1>6
<1>8. QED
  BY <1>2, <1>3, <1>5, <1>6, <1>7

LEMMA WalksShape ==
    ASSUME NEW w, Walks(w), NEW depth \in 0..(MaxDepth + 1)
    PROVE  w[depth] = [from \in From |-> w[depth][from]]
<1>1. PICK k : k = [d \in 0..(MaxDepth + 1) |->
                      [from \in From |->
                          IF TooDeep(d) THEN <<>>
                          ELSE FlattenSeq(Branches(from[1], from[2], from[3], w[d + 1]))]]
  OBVIOUS
<1>2. w = k
  BY <1>1 DEF Walks
<1>3. k[depth] = [from \in From |->
                     IF TooDeep(depth) THEN <<>>
                     ELSE FlattenSeq(Branches(from[1], from[2], from[3], w[depth + 1]))]
  BY <1>1
<1>4. k[depth] = [from \in From |-> k[depth][from]]
  BY <1>3
<1>5. QED
  BY <1>2, <1>4

LEMMA WalksIn ==
    ASSUME cache \in Table, NEW w, Walks(w)
    PROVE  \A depth \in 0..(MaxDepth + 1) : w[depth] \in [From -> Seq(Pair)]
<1>1. PICK n \in Nat : n = MaxDepth + 1 /\ MaxDepth \in Nat
  BY TreeAssumption
<1> DEFINE G == {m \in 0..n : w[n - m] \in [From -> Seq(Pair)]}
<1>2. ASSUME NEW depth \in 0..n, depth < n => w[depth + 1] \in [From -> Seq(Pair)]
      PROVE  w[depth] \in [From -> Seq(Pair)]
  <2>1. ASSUME NEW from \in From PROVE w[depth][from] \in Seq(Pair)
    <3>1. /\ from = <<from[1], from[2], from[3]>>
          /\ from[1] \in Lists /\ from[2] \in Group /\ from[3] \in SUBSET Group
      BY DEF From, Lists
    <3>2. PICK s : s = FlattenSeq(Branches(from[1], from[2], from[3], w[depth + 1]))
      OBVIOUS
    <3>3. w[depth][from] = IF TooDeep(depth) THEN <<>> ELSE s
      BY <1>1, <3>1, <3>2, WalksEach
    <3>4. CASE TooDeep(depth)
      <4>1. <<>> \in Seq(Pair)
        OBVIOUS
      <4>2. QED
        BY <3>3, <3>4, <4>1
    <3>5. CASE ~TooDeep(depth)
      <4>1. w[depth + 1] \in [From -> Seq(Pair)]
        BY <1>1, <1>2, <3>5 DEF TooDeep
      <4>2. s \in Seq(Pair)
        BY <3>1, <3>2, <4>1, BranchesIn
      <4>3. QED
        BY <3>3, <3>5, <4>2
    <3>6. QED
      BY <3>4, <3>5
  <2>2. w[depth] = [from \in From |-> w[depth][from]]
    BY <1>1, WalksShape
  <2>3. QED
    BY <2>1, <2>2
<1>3. 0 \in G
  <2>1. n \in 0..n /\ n - 0 = n
    OBVIOUS
  <2>2. w[n] \in [From -> Seq(Pair)]
    BY <1>2, <2>1
  <2>3. QED
    BY <2>1, <2>2
<1>4. ASSUME NEW m \in 0..n, m \in G, m < n PROVE m + 1 \in G
  <2>1. PICK d \in 0..n : d = n - (m + 1)
    BY <1>4
  <2>2. d + 1 = n - m /\ m + 1 \in 0..n
    BY <1>4, <2>1
  <2>3. w[d + 1] \in [From -> Seq(Pair)]
    BY <1>4, <2>2
  <2>4. w[d] \in [From -> Seq(Pair)]
    BY <1>2, <2>3
  <2>5. QED
    BY <2>1, <2>2, <2>4
<1>5. \A m \in 0..n : m \in G
  <2> HIDE DEF G
  <2>1. QED
    BY <1>3, <1>4, Along DEF Onward
<1>6. ASSUME NEW depth \in 0..n PROVE w[depth] \in [From -> Seq(Pair)]
  <2>1. n - depth \in 0..n /\ n - (n - depth) = depth
    OBVIOUS
  <2>2. QED
    BY <1>5, <2>1
<1>7. QED
  BY <1>1, <1>6

(* Where a leaf that is found comes from. *)
LEMMA FoundBy ==
    ASSUME cache \in Table, NEW w, Walks(w), NEW depth \in 0..MaxDepth,
           NEW list \in Lists, NEW h \in Group, NEW path \in SUBSET Group, NEW item
    PROVE  item \in Found(w, depth, list, h, path) <=>
               \E r \in ToSet(list) : item \in ToSet(Step(r, h, path, w[depth + 1]))
<1>1. depth \in 0..(MaxDepth + 1) /\ depth + 1 \in 0..(MaxDepth + 1) /\ ~TooDeep(depth)
  BY TreeAssumption DEF TooDeep
<1>2. PICK next : next = w[depth + 1]
  OBVIOUS
<1>3. next \in [From -> Seq(Pair)]
  BY <1>1, <1>2, WalksIn
<1>4. w[depth][<<list, h, path>>] = FlattenSeq(Branches(list, h, path, next))
  BY <1>1, <1>2, WalksEach
<1>5. item \in ToSet(FlattenSeq(Branches(list, h, path, next))) <=>
          \E r \in ToSet(list) : item \in ToSet(Step(r, h, path, next))
  BY <1>3, BranchesIn
<1>6. QED
  BY <1>2, <1>4, <1>5 DEF Found

LEMMA FoundTooDeep ==
    ASSUME NEW w, Walks(w),
           NEW list \in Lists, NEW h \in Group, NEW path \in SUBSET Group
    PROVE  Found(w, MaxDepth + 1, list, h, path) = {}
<1>1. MaxDepth + 1 \in 0..(MaxDepth + 1) /\ TooDeep(MaxDepth + 1)
  BY TreeAssumption DEF TooDeep
<1>2. w[MaxDepth + 1][<<list, h, path>>] = <<>>
  BY <1>1, WalksEach
<1>3. QED
  BY <1>2 DEF Found, ToSet

(* The leaf of a grant, and those of a subgroup. *)
LEMMA StepHas ==
    ASSUME cache \in Table, NEW deeper, NEW r \in Ref, NEW h, NEW path, NEW item
    PROVE  item \in ToSet(Step(r, h, path, deeper)) <=>
               \/ r \in Grant /\ item = <<h, r>>
               \/ /\ r \in DOMAIN cache \ path
                  /\ item \in ToSet(deeper[<<cache[r], r, path \cup {r}>>])
<1>1. Group \cap Grant = {} /\ DOMAIN cache \subseteq Group
  BY TableParts, TreeAssumption
<1>2. CASE r \in Grant
  <2>1. Step(r, h, path, deeper) = << <<h, r>> >> /\ r \notin DOMAIN cache
    BY <1>1, <1>2 DEF Step
  <2>2. ToSet(<< <<h, r>> >>) = {<<h, r>>}
    BY DEF ToSet
  <2>3. QED
    BY <1>2, <2>1, <2>2
<1>3. CASE r \notin Grant /\ r \in DOMAIN cache \ path
  BY <1>3 DEF Step
<1>4. CASE r \notin Grant /\ r \notin DOMAIN cache \ path
  <2>1. Step(r, h, path, deeper) = <<>>
    BY <1>4 DEF Step
  <2>2. ToSet(<<>>) = {}
    BY DEF ToSet
  <2>3. QED
    BY <1>4, <2>1, <2>2
<1>5. QED
  BY <1>2, <1>3, <1>4

-----------------------------------------------------------------------------
(* What the walk finds is in the tree, and what is in the tree it finds.   *)

(* A group is so many steps below x if it is one less below a child of x.  *)
LEMMA BelowFront ==
    ASSUME NEW t, NEW x \in Group, NEW h, NEW n \in Nat
    PROVE  h \in Below(t, {x}, n + 1) <=> \E c \in Kids(t, x) : h \in Below(t, {c}, n)
<1> DEFINE G == {m \in 0..n : \A y : y \in Below(t, {x}, m + 1) <=>
                                         \E c \in Kids(t, x) : y \in Below(t, {c}, m)}
<1>1. {x} \subseteq Group /\ \A c \in Kids(t, x) : c \in Group /\ {c} \subseteq Group
  BY ChildrenInGroup
<1>2. 0 \in G
  <2>1. Below(t, {x}, 0) = {x} /\ Below(t, {x}, 0 + 1) = Succ(t, Below(t, {x}, 0))
    BY <1>1, BelowEach
  <2>2. \A y : y \in Succ(t, {x}) <=> y \in Kids(t, x)
    BY <1>1, SuccIs
  <2>3. \A c \in Kids(t, x) : Below(t, {c}, 0) = {c}
    BY <1>1, BelowEach
  <2>4. 0 \in 0..n
    OBVIOUS
  <2>5. Below(t, {x}, 0 + 1) = Succ(t, {x})
    BY <2>1
  <2>6. ASSUME NEW y
        PROVE  y \in Below(t, {x}, 0 + 1) <=> \E c \in Kids(t, x) : y \in Below(t, {c}, 0)
    <3>1. y \in Succ(t, {x}) <=> y \in Kids(t, x)
      BY <2>2
    <3>2. (\E c \in Kids(t, x) : y \in Below(t, {c}, 0)) <=> \E c \in Kids(t, x) : y \in {c}
      BY <2>3, Zenon
    <3>3. (\E c \in Kids(t, x) : y \in {c}) <=> y \in Kids(t, x)
      OBVIOUS
    <3>4. QED
      BY <2>5, <3>1, <3>2, <3>3, Zenon
  <2>7. QED
    BY <2>4, <2>6
<1>3. ASSUME NEW m \in 0..n, m \in G, m < n PROVE m + 1 \in G
  <2>1. PICK k \in Nat : k = m + 1 /\ m \in Nat /\ k \in 0..n
    BY <1>3
  <2>2. \A z : z \in Below(t, {x}, k) <=> \E c \in Kids(t, x) : z \in Below(t, {c}, m)
    BY <1>3, <2>1
  <2>3. PICK X : X = Below(t, {x}, k)
    OBVIOUS
  <2>4. Below(t, {x}, k + 1) = Succ(t, X) /\ X \subseteq Group
    BY <1>1, <2>1, <2>3, BelowEach, BelowInGroup
  <2>5. \A y : y \in Succ(t, X) <=> y \in Group /\ \E z \in X : y \in Kids(t, z)
    BY <2>4, SuccIs
  <2>6. ASSUME NEW c \in Kids(t, x), NEW y
        PROVE  y \in Below(t, {c}, k) <=>
                   y \in Group /\ \E z \in Below(t, {c}, m) : y \in Kids(t, z)
    <3>1. PICK Y : Y = Below(t, {c}, m)
      OBVIOUS
    <3>2. Below(t, {c}, k) = Succ(t, Y) /\ Y \subseteq Group
      BY <1>1, <2>1, <3>1, BelowEach, BelowInGroup, ZenonT(60)
    <3>3. QED
      BY <3>1, <3>2, SuccIs
  <2>7. ASSUME NEW y
        PROVE  y \in Below(t, {x}, k + 1) <=> \E c \in Kids(t, x) : y \in Below(t, {c}, k)
    <3>1. y \in Below(t, {x}, k + 1) <=>
              y \in Group /\ \E z : z \in Below(t, {x}, k) /\ y \in Kids(t, z)
      BY <2>3, <2>4, <2>5
    <3>2. (\E z : z \in Below(t, {x}, k) /\ y \in Kids(t, z)) <=>
          \E c \in Kids(t, x) : \E z \in Below(t, {c}, m) : y \in Kids(t, z)
      BY <2>2
    <3>3. QED
      BY <2>6, <3>1, <3>2
  <2>8. k \in G
    BY <2>1, <2>7
  <2>9. QED
    BY <2>1, <2>8
<1> HIDE DEF G
<1>4. n \in G
  <2>1. n \in 0..n
    OBVIOUS
  <2>2. QED
    BY <1>2, <1>3, <2>1, Along DEF Onward
<1>5. QED
  BY <1>4 DEF G

(* A leaf of a group that is at most m steps below x. *)
InTree(item, x, m) ==
    /\ item \in Pair /\ item[1] \in DOMAIN cache
    /\ item[2] \in ToSet(cache[item[1]])
    /\ \E n \in 0..m : item[1] \in Below(cache, {x}, n)

Sound(w, depth) ==
    \A x \in DOMAIN cache, path \in SUBSET Group :
        \A item \in Found(w, depth, cache[x], x, path) : InTree(item, x, MaxDepth - depth)

LEMMA SoundStep ==
    ASSUME cache \in Table, NEW w, Walks(w), NEW depth \in 0..MaxDepth,
           Sound(w, depth + 1)
    PROVE  Sound(w, depth)
<1> SUFFICES ASSUME NEW x \in DOMAIN cache, NEW path \in SUBSET Group,
                    NEW item \in Found(w, depth, cache[x], x, path)
             PROVE  InTree(item, x, MaxDepth - depth)
  BY DEF Sound
<1>1. x \in Group /\ {x} \subseteq Group /\ cache[x] \in Lists /\ MaxDepth \in Nat
  BY TableParts, TreeAssumption
<1>2. depth \in Nat /\ depth + 1 \in Nat
  BY <1>1
<1>3. PICK r \in ToSet(cache[x]) : item \in ToSet(Step(r, x, path, w[depth + 1]))
  BY <1>1, FoundBy
<1>4. r \in Ref
  BY <1>1 DEF Lists, ToSet
<1>5. CASE r \in Grant /\ item = <<x, r>>
  <2>1. item \in Pair /\ item[1] = x /\ item[2] = r
    BY <1>1, <1>5 DEF Pair
  <2>2. x \in Below(cache, {x}, 0)
    BY <1>1, BelowEach
  <2>3. 0 \in 0..(MaxDepth - depth)
    BY <1>1
  <2>4. QED
    BY <1>3, <2>1, <2>2, <2>3 DEF InTree
<1>6. CASE r \in DOMAIN cache \ path /\ item \in Found(w, depth + 1, cache[r], r, path \cup {r})
  <2>1. r \in Group /\ path \cup {r} \in SUBSET Group
    BY <1>6, TableParts
  <2>2. InTree(item, r, MaxDepth - (depth + 1))
    BY <1>6, <2>1 DEF Sound
  <2>3. PICK n \in 0..(MaxDepth - (depth + 1)) : item[1] \in Below(cache, {r}, n)
    BY <2>2 DEF InTree
  <2>4. n \in Nat /\ n + 1 \in 0..(MaxDepth - depth)
    BY <1>1, <2>3
  <2>5. r \in Kids(cache, x)
    BY <1>3, <2>1 DEF Kids, Children
  <2>6. item[1] \in Below(cache, {x}, n + 1)
    BY <1>1, <2>3, <2>4, <2>5, BelowFront
  <2>7. QED
    BY <2>2, <2>4, <2>6 DEF InTree
<1>7. \/ r \in Grant /\ item = <<x, r>>
      \/ /\ r \in DOMAIN cache \ path
         /\ item \in ToSet(w[depth + 1][<<cache[r], r, path \cup {r}>>])
  <2>1. PICK deeper : deeper = w[depth + 1]
    OBVIOUS
  <2>2. QED
    BY <1>3, <1>4, <2>1, StepHas
<1>8. QED
  BY <1>5, <1>6, <1>7 DEF Found

LEMMA WalkIsSound ==
    ASSUME cache \in Table, NEW w, Walks(w)
    PROVE  \A depth \in 0..(MaxDepth + 1) : Sound(w, depth)
<1>1. PICK n \in Nat : n = MaxDepth + 1 /\ MaxDepth \in Nat
  BY TreeAssumption
<1> DEFINE G == {m \in 0..n : Sound(w, n - m)}
<1>2. 0 \in G
  <2>1. ASSUME NEW x \in DOMAIN cache, NEW path \in SUBSET Group
        PROVE  Found(w, n, cache[x], x, path) = {}
    <3>1. x \in Group /\ cache[x] \in Lists
      BY TableParts
    <3>2. QED
      BY <1>1, <3>1, FoundTooDeep
  <2>2. Sound(w, n)
    BY <2>1 DEF Sound
  <2>3. n - 0 = n /\ 0 \in 0..n
    OBVIOUS
  <2>4. QED
    BY <2>2, <2>3
<1>3. ASSUME NEW m \in 0..n, m \in G, m < n PROVE m + 1 \in G
  <2>1. PICK d \in 0..MaxDepth : d = n - (m + 1)
    BY <1>1, <1>3
  <2>2. d + 1 = n - m /\ m + 1 \in 0..n
    BY <1>3, <2>1
  <2>3. Sound(w, d + 1)
    BY <1>3, <2>2
  <2>4. Sound(w, d)
    BY <2>3, SoundStep
  <2>5. QED
    BY <2>1, <2>2, <2>4
<1>4. \A m \in 0..n : m \in G
  <2> HIDE DEF G
  <2>1. QED
    BY <1>2, <1>3, Along DEF Onward
<1>5. ASSUME NEW depth \in 0..n PROVE Sound(w, depth)
  <2>1. n - depth \in 0..n /\ n - (n - depth) = depth
    OBVIOUS
  <2>2. QED
    BY <1>4, <2>1
<1>6. QED
  BY <1>1, <1>5

(* h is m steps below x, no fewer, and more below every other group of the *)
(* path: the walk that follows the shortest way is never turned back.      *)
Nearest(h, m, x, path) ==
    /\ h \in Below(cache, {x}, m)
    /\ \A k \in Nat : k < m => h \notin Below(cache, {x}, k)
    /\ \A y \in path \ {x} : \A k \in Nat : k <= m => h \notin Below(cache, {y}, k)

LEMMA NearestNext ==
    ASSUME cache \in Table, NEW x \in Group, NEW path \in SUBSET Group, NEW h,
           NEW m \in Nat, Nearest(h, m + 1, x, path)
    PROVE  \E c \in Kids(cache, x) : c \notin path \cup {x} /\ Nearest(h, m, c, path \cup {c})
<1>1. PICK c \in Kids(cache, x) : h \in Below(cache, {c}, m)
  BY BelowFront DEF Nearest
<1>2. m <= m + 1 /\ m < m + 1 /\ \A k \in Nat : k < m => k + 1 < m + 1 /\ k + 1 \in Nat
  OBVIOUS
<1>3. \A k \in Nat : k <= m => k < m + 1 /\ k <= m + 1
  OBVIOUS
<1>4. c # x
  BY <1>1, <1>2 DEF Nearest
<1>5. c \notin path
  BY <1>1, <1>2, <1>4 DEF Nearest
<1>6. ASSUME NEW k \in Nat, k < m PROVE h \notin Below(cache, {c}, k)
  <2>1. h \notin Below(cache, {x}, k + 1)
    BY <1>2, <1>6 DEF Nearest
  <2>2. QED
    BY <1>1, <2>1, BelowFront
<1>7. ASSUME NEW y \in (path \cup {c}) \ {c}, NEW k \in Nat, k <= m
      PROVE  h \notin Below(cache, {y}, k)
  <2>1. CASE y = x
    BY <1>3, <1>7, <2>1 DEF Nearest
  <2>2. CASE y # x
    BY <1>3, <1>7, <2>2 DEF Nearest
  <2>3. QED
    BY <2>1, <2>2
<1>8. QED
  BY <1>1, <1>4, <1>5, <1>6, <1>7 DEF Nearest

Complete(w, h, l, m) ==
    \A x \in DOMAIN cache, path \in SUBSET Group, depth \in 0..MaxDepth :
        depth + m <= MaxDepth /\ Nearest(h, m, x, path) =>
            <<h, l>> \in Found(w, depth, cache[x], x, path)

LEMMA CompleteHere ==
    ASSUME cache \in Table, NEW w, Walks(w),
           NEW h \in DOMAIN cache, NEW l \in Grant, l \in ToSet(cache[h])
    PROVE  Complete(w, h, l, 0)
<1> SUFFICES ASSUME NEW x \in DOMAIN cache, NEW path \in SUBSET Group,
                    NEW depth \in 0..MaxDepth, Nearest(h, 0, x, path)
             PROVE  <<h, l>> \in Found(w, depth, cache[x], x, path)
  BY DEF Complete
<1>1. x \in Group /\ {x} \subseteq Group /\ cache[x] \in Lists
  BY TableParts
<1>2. h = x
  BY <1>1, BelowEach DEF Nearest
<1>3. l \in Ref
  BY DEF Ref
<1>4. <<h, l>> \in ToSet(Step(l, x, path, w[depth + 1]))
  <2>1. PICK deeper : deeper = w[depth + 1]
    OBVIOUS
  <2>2. QED
    BY <1>2, <1>3, <2>1, StepHas
<1>5. QED
  BY <1>1, <1>2, <1>4, FoundBy

LEMMA CompleteStep ==
    ASSUME cache \in Table, NEW w, Walks(w),
           NEW h \in DOMAIN cache, NEW l \in Grant, l \in ToSet(cache[h]),
           NEW m \in Nat, Complete(w, h, l, m)
    PROVE  Complete(w, h, l, m + 1)
<1> SUFFICES ASSUME NEW x \in DOMAIN cache, NEW path \in SUBSET Group,
                    NEW depth \in 0..MaxDepth, depth + (m + 1) <= MaxDepth,
                    Nearest(h, m + 1, x, path)
             PROVE  <<h, l>> \in Found(w, depth, cache[x], x, path)
  BY DEF Complete
<1>1. x \in Group /\ cache[x] \in Lists /\ MaxDepth \in Nat
  BY TableParts, TreeAssumption
<1>2. PICK c \in Kids(cache, x) : c \notin path \cup {x} /\ Nearest(h, m, c, path \cup {c})
  BY <1>1, NearestNext
<1>3. c \in Group /\ {c} \subseteq Group /\ c \in ToSet(cache[x])
  BY <1>2, ChildrenInGroup DEF Kids, Children
<1>4. c \in DOMAIN cache
  <2>1. CASE m = 0
    <3>1. h = c
      BY <1>2, <1>3, <2>1, BelowEach DEF Nearest
    <3>2. QED
      BY <3>1
  <2>2. CASE m # 0
    <3>1. PICK k \in Nat : m = k + 1
      <4>1. m - 1 \in Nat /\ m = (m - 1) + 1
        BY <2>2
      <4>2. QED
        BY <4>1
    <3>2. h \in Below(cache, {c}, k + 1)
      BY <1>2, <3>1 DEF Nearest
    <3>3. Kids(cache, c) # {}
      BY <1>3, <3>2, BelowFront
    <3>4. QED
      BY <3>3 DEF Kids
  <2>3. QED
    BY <2>1, <2>2
<1>5. path \cup {c} \in SUBSET Group /\ depth + 1 \in 0..MaxDepth /\ (depth + 1) + m <= MaxDepth
  BY <1>1, <1>3
<1>6. <<h, l>> \in Found(w, depth + 1, cache[c], c, path \cup {c})
  BY <1>2, <1>4, <1>5 DEF Complete
<1>7. c \in Ref /\ c \in DOMAIN cache \ path
  BY <1>2, <1>3, <1>4 DEF Ref
<1>8. <<h, l>> \in ToSet(Step(c, x, path, w[depth + 1]))
  <2>1. PICK deeper : deeper = w[depth + 1]
    OBVIOUS
  <2>2. <<h, l>> \in ToSet(deeper[<<cache[c], c, path \cup {c}>>])
    BY <1>6, <2>1 DEF Found
  <2>3. QED
    BY <1>7, <2>1, <2>2, StepHas
<1>9. QED
  BY <1>1, <1>3, <1>8, FoundBy

LEMMA WalkIsComplete ==
    ASSUME cache \in Table, NEW w, Walks(w),
           NEW h \in DOMAIN cache, NEW l \in Grant, l \in ToSet(cache[h]), NEW m \in Nat
    PROVE  Complete(w, h, l, m)
<1> DEFINE G == {k \in 0..m : Complete(w, h, l, k)}
<1>1. 0 \in G
  <2>1. Complete(w, h, l, 0) /\ 0 \in 0..m
    BY CompleteHere
  <2>2. QED
    BY <2>1
<1>2. ASSUME NEW k \in 0..m, k \in G, k < m PROVE k + 1 \in G
  <2>1. k \in Nat /\ k + 1 \in 0..m
    BY <1>2
  <2>2. Complete(w, h, l, k)
    BY <1>2
  <2>3. Complete(w, h, l, k + 1)
    BY <2>1, <2>2, CompleteStep
  <2>4. QED
    BY <2>1, <2>3
<1> HIDE DEF G
<1>3. m \in G
  <2>1. m \in 0..m
    OBVIOUS
  <2>2. QED
    BY <1>1, <1>2, <2>1, Along DEF Onward
<1>4. QED
  BY <1>3 DEF G

-----------------------------------------------------------------------------
(* What requests are offered.                                              *)

TheWalk == CHOOSE w : Walks(w)

LEMMA FlattenFinds ==
    ASSUME cache \in Table, NEW g \in Group, NEW items \in Lists
    PROVE  /\ Walks(TheWalk)
           /\ IsInjective(FlattenGroupItems(g, items))
           /\ ToSet(FlattenGroupItems(g, items)) = Found(TheWalk, 0, items, g, {g})
<1>1. Walks(TheWalk)
  BY WalksExist DEF TheWalk
<1>2. PICK w : w = TheWalk
  OBVIOUS
<1>3. Walk(g, items) = w[0][<<items, g, {g}>>]
  BY <1>2, WalkUnfolded DEF TheWalk
<1>4. <<items, g, {g}>> \in From
  BY DEF From, Lists
<1>5. w[0] \in [From -> Seq(Pair)]
  <2>1. 0 \in 0..(MaxDepth + 1)
    BY TreeAssumption
  <2>2. QED
    BY <1>1, <1>2, <2>1, WalksIn
<1>6. Walk(g, items) \in Seq(Pair)
  BY <1>3, <1>4, <1>5
<1>7. QED
  BY <1>1, <1>2, <1>3, <1>6, FirstOnlyHas DEF FlattenGroupItems, Found

LEMMA FlattenIs ==
    ASSUME cache \in Table, NEW g \in DOMAIN cache, NEW item
    PROVE  item \in ToSet(FlattenGroupItems(g, cache[g])) <=> InTree(item, g, MaxDepth)
<1>1. g \in Group /\ cache[g] \in Lists /\ MaxDepth \in Nat
  BY TableParts, TreeAssumption
<1>2. PICK w : w = TheWalk
  OBVIOUS
<1>3. Walks(w) /\ ToSet(FlattenGroupItems(g, cache[g])) = Found(w, 0, cache[g], g, {g})
  BY <1>1, <1>2, FlattenFinds
<1>4. ASSUME item \in Found(w, 0, cache[g], g, {g}) PROVE InTree(item, g, MaxDepth)
  <2>1. Sound(w, 0)
    <3>1. 0 \in 0..(MaxDepth + 1)
      BY <1>1
    <3>2. QED
      BY <1>3, <3>1, WalkIsSound
  <2>2. MaxDepth - 0 = MaxDepth /\ {g} \in SUBSET Group
    BY <1>1
  <2>3. InTree(item, g, MaxDepth - 0)
    BY <1>4, <2>1, <2>2 DEF Sound
  <2>4. QED
    BY <2>2, <2>3
<1>5. ASSUME InTree(item, g, MaxDepth) PROVE item \in Found(w, 0, cache[g], g, {g})
  <2>1. PICK h \in Group, l \in Grant : item = <<h, l>>
    BY <1>5 DEF InTree, Pair
  <2>2. item[1] = h /\ item[2] = l
    BY <2>1
  <2>3. h \in DOMAIN cache /\ l \in ToSet(cache[h])
    BY <1>5, <2>2 DEF InTree
  <2> DEFINE T == {n \in Nat : h \in Below(cache, {g}, n)}
  <2>4. PICK n \in 0..MaxDepth : h \in Below(cache, {g}, n)
    BY <1>5, <2>2 DEF InTree
  <2>5. n \in T
    BY <1>1, <2>4
  <2>6. PICK m \in T : \A k \in T : m <= k
    <3>1. T \subseteq Nat /\ T # {}
      BY <2>5
    <3> HIDE DEF T
    <3>2. QED
      BY <3>1, Least
  <2>7. m \in Nat /\ m <= n /\ h \in Below(cache, {g}, m)
    BY <2>5, <2>6
  <2>8. ASSUME NEW k \in Nat, k < m PROVE h \notin Below(cache, {g}, k)
    <3>1. k \notin T
      <4>1. ~(m <= k)
        BY <2>7, <2>8
      <4> HIDE DEF T
      <4>2. QED
        BY <2>6, <4>1
    <3>2. QED
      BY <3>1
  <2> HIDE DEF T
  <2>9. Nearest(h, m, g, {g})
    BY <2>7, <2>8 DEF Nearest
  <2>10. 0 \in 0..MaxDepth /\ 0 + m <= MaxDepth /\ {g} \in SUBSET Group
    BY <1>1, <2>4, <2>7
  <2>11. Complete(w, h, l, m)
    BY <1>3, <2>3, <2>7, WalkIsComplete
  <2>12. <<h, l>> \in Found(w, 0, cache[g], g, {g})
    BY <2>9, <2>10, <2>11 DEF Complete
  <2>13. QED
    BY <2>1, <2>12
<1>6. QED
  BY <1>3, <1>4, <1>5

(* The cached groups within the depth. *)
Reached(g) == (UNION {Below(cache, {g}, n) : n \in 0..MaxDepth}) \cap DOMAIN cache
Within(g) == {item \in Reached(g) \X Grant : item[2] \in ToSet(cache[item[1]])}

LEMMA ReachedIs ==
    ASSUME NEW g, NEW h
    PROVE  h \in Reached(g) <=>
               h \in DOMAIN cache /\ \E n \in 0..MaxDepth : h \in Below(cache, {g}, n)
  BY Zenon DEF Reached

LEMMA FlattensAsTree ==
    ASSUME cache \in Table PROVE FlattenIsTheTree
<1> SUFFICES ASSUME NEW g \in DOMAIN cache
             PROVE  /\ IsInjective(FlattenGroupItems(g, cache[g]))
                    /\ ToSet(FlattenGroupItems(g, cache[g])) = Within(g)
  BY Zenon DEF FlattenIsTheTree, Within, Reached
<1>1. g \in Group /\ cache[g] \in Lists /\ DOMAIN cache \subseteq Group
  BY TableParts
<1>2. PICK flat : flat = FlattenGroupItems(g, cache[g])
  OBVIOUS
<1>3. IsInjective(flat)
  BY <1>1, <1>2, FlattenFinds
<1>4. \A item : item \in ToSet(flat) <=> InTree(item, g, MaxDepth)
  BY <1>2, FlattenIs
<1>5. ASSUME NEW item PROVE InTree(item, g, MaxDepth) <=> item \in Within(g)
  <2>1. PICK R : R = Reached(g)
    OBVIOUS
  <2>2. InTree(item, g, MaxDepth) <=>
            /\ item \in Group \X Grant /\ item[1] \in R /\ item[2] \in ToSet(cache[item[1]])
    BY <2>1, ReachedIs DEF InTree, Pair
  <2>3. R \subseteq Group
    BY <1>1, <2>1, ReachedIs
  <2>4. item \in Group \X Grant /\ item[1] \in R <=> item \in R \X Grant
    BY <2>3
  <2>5. item \in Within(g) <=> item \in R \X Grant /\ item[2] \in ToSet(cache[item[1]])
    BY <2>1 DEF Within
  <2>6. QED
    BY <2>2, <2>4, <2>5
<1>6. ToSet(flat) = Within(g)
  BY <1>4, <1>5
<1>7. QED
  BY <1>2, <1>3, <1>6

LEMMA UsableAreOffered ==
    ASSUME cache \in Table PROVE UsableMembersAreOffered
<1> SUFFICES ASSUME NEW g \in DOMAIN cache, NEW item \in Group \X Grant,
                    item \in ToSet(FlattenGroupItems(g, cache[g])), Usable(item)
             PROVE  item \in ToSet(Offered(g))
  BY DEF UsableMembersAreOffered
<1>1. g \in Group /\ cache[g] \in Lists /\ DOMAIN cache \subseteq Group /\ MaxDepth \in Nat
  BY TableParts, TreeAssumption
<1>2. PICK w : w = TheWalk
  OBVIOUS
<1>3. Walks(w) /\ ToSet(FlattenGroupItems(g, cache[g])) = Found(w, 0, cache[g], g, {g})
  BY <1>1, <1>2, FlattenFinds
<1>4. 0 \in 0..MaxDepth /\ {g} \in SUBSET Group /\ 0 + 1 = 1 /\ 1 \in 0..(MaxDepth + 1)
  BY <1>1
<1>5. PICK r \in ToSet(cache[g]) : item \in ToSet(Step(r, g, {g}, w[1]))
  BY <1>1, <1>3, <1>4, FoundBy
<1>6. r \in Ref
  BY <1>1 DEF Lists, ToSet
<1>7. Available(g, r)
  <2>1. CASE r \in Grant /\ item = <<g, r>>
    BY <2>1 DEF Available
  <2>2. CASE r \in DOMAIN cache \ {g} /\ item \in Found(w, 1, cache[r], r, {g} \cup {r})
    <3>1. r \in Group /\ {g} \cup {r} \in SUBSET Group /\ r \notin Grant
      BY <1>1, <2>2, TreeAssumption
    <3>2. Sound(w, 1)
      BY <1>3, <1>4, WalkIsSound
    <3>3. InTree(item, r, MaxDepth - 1)
      BY <2>2, <3>1, <3>2 DEF Sound
    <3>4. InTree(item, r, MaxDepth)
      <4>1. \A n \in 0..(MaxDepth - 1) : n \in 0..MaxDepth
        BY <1>1
      <4>2. QED
        BY <3>3, <4>1 DEF InTree
    <3>5. item \in ToSet(FlattenGroupItems(r, cache[r]))
      BY <2>2, <3>4, FlattenIs
    <3>6. QED
      BY <2>2, <3>1, <3>5 DEF Available, UsableBelow
  <2>3. \/ r \in Grant /\ item = <<g, r>>
        \/ /\ r \in DOMAIN cache \ {g}
           /\ item \in ToSet(w[1][<<cache[r], r, {g} \cup {r}>>])
    <3>1. PICK deeper : deeper = w[1]
      OBVIOUS
    <3>2. QED
      BY <1>5, <1>6, <3>1, StepHas
  <2>4. QED
    BY <2>1, <2>2, <2>3 DEF Found
<1>8. PICK S : S = {ref \in Ref : ~Available(g, ref)}
  OBVIOUS
<1>9. PICK list : list = Without(cache[g], S)
  OBVIOUS
<1>10. list \in Lists /\ r \in ToSet(list)
  <2>1. r \notin S
    BY <1>7, <1>8
  <2>2. QED
    BY <1>1, <1>5, <1>9, <2>1, WithoutHas
<1>11. item \in Found(w, 0, list, g, {g})
  BY <1>1, <1>3, <1>4, <1>5, <1>10, FoundBy
<1>12. ToSet(FlattenGroupItems(g, list)) = Found(w, 0, list, g, {g})
  BY <1>1, <1>2, <1>10, FlattenFinds
<1>13. Offered(g) = FlattenGroupItems(g, list)
  BY <1>8, <1>9 DEF Offered, GroupGetByName
<1>14. QED
  BY <1>11, <1>12, <1>13

LEMMA TreeInvariant == TreeSpec => []TreeInv
<1>1. TreeInit => TreeInv
  BY TreeStarts
<1>2. TreeInv /\ [TreeNext]_treeVars => TreeInv'
  BY TreeSteps
<1>3. QED
  BY <1>1, <1>2, PTL DEF TreeSpec

(* group.go, flattenIntoWithTier: whatever the groups are and however an   *)
(* edit or a reload has torn the cached copy, a cycle included, the walk   *)
(* that stops at groups it is inside of and takes no item twice yields     *)
(* what is within the depth, all of it and each item once: the first group *)
(* of a shortest way is never one the walk is already inside of.           *)
THEOREM FlattenedIsWhole == TreeSpec => []FlattenIsTheTree
<1>1. TreeInv => FlattenIsTheTree
  BY FlattensAsTree DEF TreeInv, TreeShape
<1>2. QED
  BY <1>1, TreeInvariant, PTL

(* group.go, groupSnapshot and GroupGetByName: an item is left out only if *)
(* nothing that it leads to is usable, so the list that a request works    *)
(* down has every usable member of the group, in whatever state the cache  *)
(* is: what is found below a subgroup on the way from the group is also    *)
(* found from the subgroup, where the walk may go deeper and has come      *)
(* through nothing.                                                        *)
THEOREM UsableStayOffered == TreeSpec => []UsableMembersAreOffered
<1>1. TreeInv => UsableMembersAreOffered
  BY UsableAreOffered DEF TreeInv, TreeShape
<1>2. QED
  BY <1>1, TreeInvariant, PTL
=============================================================================
