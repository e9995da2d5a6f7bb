--------------------------- MODULE KeyUsageProofs ---------------------------
(***************************************************************************)
(* Proofs about KeyUsage, for every set of clients and targets, all limits *)
(* and lengths of the window and of the stall, any number of hours,        *)
(* flushes, requests, failing statements and restarts.                     *)
(*                                                                         *)
(* What is on its way to the table is counted in the buckets, in the table *)
(* and in the hands of the flushes, of which there may be any number: a    *)
(* sum over a finite set, as is what a window counts.  Sums need how       *)
(* MapThenSumSet takes a set apart, and that it does not matter in which   *)
(* order (Smallest is the induction).  UsageInv says what a flush has in   *)
(* hand at each step; RateInv and TokenInv what a window still knows of    *)
(* the stamps, and what the clients that are inside may still charge.      *)
(***************************************************************************)
EXTENDS KeyUsage, FiniteSetTheorems, WellFoundedInduction, TLAPS

-----------------------------------------------------------------------------
(* Sums over finite sets.  A property of sums that fails for some          *)
(* set fails for a smallest one, which gives the inductions below.         *)

LEMMA Smallest ==
    ASSUME NEW S, IsFiniteSet(S), NEW C, C \subseteq SUBSET S, C # {}
    PROVE  \E T \in C : \A U \in C : U \subseteq T => U = T
<1> DEFINE R == StrictSubsetOrdering(S)
<1>1. IsWellFoundedOn(R, SUBSET S)
  BY FS_StrictSubsetOrderingWellFounded, FS_FiniteSubsetsOfFinite
<1>2. \A T, U \in C : U \subseteq T /\ U # T => <<U, T>> \in R
  BY DEF StrictSubsetOrdering
<1> HIDE DEF R
<1>3. \E T \in C : \A U \in C : ~ (<<U, T>> \in R)
  BY <1>1, WFMin
<1>4. QED
  BY <1>2, <1>3

(* How MapThenSumSet takes a set apart. *)
Pick(s) == CHOOSE x \in s : TRUE
Sums(g, f, S) ==
    g = [s \in SUBSET S |-> IF s = {} THEN 0 ELSE f[Pick(s)] + g[s \ {Pick(s)}]]

LEMMA SumOverUnfolded ==
    ASSUME NEW f, NEW S
    PROVE  SumOver(f, S) = (CHOOSE g : Sums(g, f, S))[S]
  BY Zenon DEF SumOver, MapThenSumSet, MapThenFoldSet, Sums, Pick

LEMMA PickIn == ASSUME NEW s, s # {} PROVE Pick(s) \in s
  BY DEF Pick

LEMMA SumsEach ==
    ASSUME NEW g, NEW f, NEW S, Sums(g, f, S)
    PROVE  /\ g[{}] = 0
           /\ \A s \in SUBSET S : s # {} => g[s] = f[Pick(s)] + g[s \ {Pick(s)}]
<1> DEFINE h == [s \in SUBSET S |-> IF s = {} THEN 0 ELSE f[Pick(s)] + g[s \ {Pick(s)}]]
<1>1. g = h
  BY DEF Sums
<1>2. \A s \in SUBSET S : h[s] = IF s = {} THEN 0 ELSE f[Pick(s)] + g[s \ {Pick(s)}]
  OBVIOUS
<1>3. {} \in SUBSET S
  OBVIOUS
<1> HIDE DEF h
<1>4. QED
  BY <1>1, <1>2, <1>3

(* Two ways of summing agree where both apply. *)
LEMMA SumsAgree ==
    ASSUME NEW f, NEW S, NEW T, IsFiniteSet(S), T \subseteq S,
           NEW g, Sums(g, f, S), NEW h, Sums(h, f, T)
    PROVE  \A s \in SUBSET T : g[s] = h[s]
<1> DEFINE C == {s \in SUBSET T : g[s] # h[s]}
<1>1. SUFFICES ASSUME C # {} PROVE FALSE
  OBVIOUS
<1>2. IsFiniteSet(T) /\ C \subseteq SUBSET T
  BY FS_Subset
<1>3. PICK s \in C : \A u \in C : u \subseteq s => u = s
  <2> HIDE DEF C
  <2>1. QED
    BY <1>1, <1>2, Smallest
<1>4. s # {}
  BY <1>3, SumsEach
<1> DEFINE u == s \ {Pick(s)}
<1>5. Pick(s) \in s /\ s \in SUBSET T /\ s \in SUBSET S
  BY <1>3, <1>4, PickIn
<1>6. g[s] = f[Pick(s)] + g[u] /\ h[s] = f[Pick(s)] + h[u]
  BY <1>4, <1>5, SumsEach
<1>7. u \in SUBSET T /\ u \subseteq s /\ u # s
  BY <1>5
<1>8. g[u] = h[u]
  BY <1>3, <1>7
<1>9. QED
  BY <1>3, <1>6, <1>8

LEMMA SumsExist ==
    ASSUME NEW f, NEW S, IsFiniteSet(S)
    PROVE  Sums(CHOOSE g : Sums(g, f, S), f, S)
<1> DEFINE The(T) == CHOOSE g : Sums(g, f, T)
           C == {T \in SUBSET S : ~ Sums(The(T), f, T)}
<1>1. SUFFICES ASSUME C # {} PROVE FALSE
  <2>1. S \in SUBSET S
    OBVIOUS
  <2>2. QED
    BY <1>1, <2>1
<1>2. PICK T \in C : \A U \in C : U \subseteq T => U = T
  <2>1. C \subseteq SUBSET S
    OBVIOUS
  <2> HIDE DEF C
  <2>2. QED
    BY <1>1, <2>1, Smallest
<1>3. T \subseteq S /\ ~ Sums(The(T), f, T)
  BY <1>2
<1>4. ASSUME NEW U, U \subseteq T, U # T PROVE Sums(The(U), f, U)
  BY <1>2, <1>3, <1>4
<1> DEFINE h == [s \in SUBSET T |->
               IF s = {} THEN 0 ELSE f[Pick(s)] + The(s \ {Pick(s)})[s \ {Pick(s)}]]
<1> HIDE DEF C, The
<1>5. ASSUME NEW s \in SUBSET T, s # T PROVE The(s)[s] = h[s]
  <2>1. CASE s = {}
    <3>1. The(s)[s] = 0
      BY <1>4, <1>5, <2>1, SumsEach
    <3>2. QED
      BY <2>1, <3>1
  <2>2. CASE s # {}
    <3> DEFINE u == s \ {Pick(s)}
    <3>1. Pick(s) \in s
      BY <2>2, PickIn
    <3>2. Sums(The(s), f, s) /\ Sums(The(u), f, u) /\ u \subseteq s
      BY <1>4, <1>5, <3>1
    <3>3. IsFiniteSet(s)
      BY <1>3, FS_Subset
    <3>4. The(s)[s] = f[Pick(s)] + The(s)[u]
      BY <2>2, <3>2, SumsEach
    <3>5. u \in SUBSET u
      OBVIOUS
    <3>6. The(s)[u] = The(u)[u]
      BY <3>2, <3>3, <3>5, SumsAgree
    <3>7. h[s] = f[Pick(s)] + The(u)[u]
      BY <2>2
    <3>8. QED
      BY <3>4, <3>6, <3>7
  <2>3. QED
    BY <2>1, <2>2
<1>6. ASSUME NEW s \in SUBSET T, s # {} PROVE h[s] = f[Pick(s)] + h[s \ {Pick(s)}]
  <2> DEFINE u == s \ {Pick(s)}
  <2>1. Pick(s) \in s
    BY <1>6, PickIn
  <2>2. u \in SUBSET T /\ u # T
    BY <2>1
  <2>3. h[s] = f[Pick(s)] + The(u)[u]
    BY <1>6
  <2>4. QED
    BY <1>5, <2>2, <2>3
<1>7. h[{}] = 0 /\ h = [s \in SUBSET T |-> h[s]]
  OBVIOUS
<1> HIDE DEF h
<1>8. [s \in SUBSET T |-> h[s]]
      = [s \in SUBSET T |-> IF s = {} THEN 0 ELSE f[Pick(s)] + h[s \ {Pick(s)}]]
  BY <1>6, <1>7
<1>9. Sums(h, f, T)
  BY <1>7, <1>8 DEF Sums
<1>10. QED
  BY <1>3, <1>9 DEF The

(* One function sums every part of a set. *)
LEMMA OneSum ==
    ASSUME NEW f, NEW S, IsFiniteSet(S)
    PROVE  \E g : /\ Sums(g, f, S)
                  /\ \A T \in SUBSET S : SumOver(f, T) = g[T]
<1> DEFINE The(T) == CHOOSE g : Sums(g, f, T)
<1>1. Sums(The(S), f, S)
  BY SumsExist
<1>2. ASSUME NEW T \in SUBSET S PROVE SumOver(f, T) = The(S)[T]
  <2>1. IsFiniteSet(T)
    BY FS_Subset
  <2>2. Sums(The(T), f, T)
    BY <2>1, SumsExist
  <2> HIDE DEF The
  <2>3. T \in SUBSET T
    OBVIOUS
  <2>4. The(S)[T] = The(T)[T]
    BY <1>1, <2>2, <2>3, SumsAgree
  <2>5. SumOver(f, T) = The(T)[T]
    BY SumOverUnfolded DEF The
  <2>6. QED
    BY <2>4, <2>5
<1>3. QED
  BY <1>1, <1>2

LEMMA MinuteEmpty == ASSUME NEW f PROVE SumOver(f, {}) = 0
<1>1. IsFiniteSet({})
  BY FS_EmptySet
<1>2. PICK g : Sums(g, f, {}) /\ \A T \in SUBSET {} : SumOver(f, T) = g[T]
  BY <1>1, OneSum
<1>3. g[{}] = 0 /\ {} \in SUBSET {}
  BY <1>2, SumsEach
<1>4. QED
  BY <1>2, <1>3

(* The sum by the element that is picked. *)
LEMMA MinutePick ==
    ASSUME NEW f, NEW S, IsFiniteSet(S), S # {}
    PROVE  SumOver(f, S) = f[Pick(S)] + SumOver(f, S \ {Pick(S)})
<1>1. PICK g : Sums(g, f, S) /\ \A T \in SUBSET S : SumOver(f, T) = g[T]
  BY OneSum
<1> DEFINE U == S \ {Pick(S)}
<1>2. S \in SUBSET S /\ U \in SUBSET S
  OBVIOUS
<1>3. g[S] = f[Pick(S)] + g[U]
  <2>0. Sums(g, f, S)
    BY <1>1
  <2>1. \A s \in SUBSET S : s # {} => g[s] = f[Pick(s)] + g[s \ {Pick(s)}]
    BY <2>0, SumsEach
  <2>2. QED
    BY <1>2, <2>1
<1> HIDE DEF U
<1>4. SumOver(f, S) = f[Pick(S)] + SumOver(f, U)
  BY <1>1, <1>2, <1>3
<1>5. QED
  BY <1>4 DEF U

LEMMA MinuteNat ==
    ASSUME NEW f, NEW S, IsFiniteSet(S), \A x \in S : f[x] \in Nat
    PROVE  SumOver(f, S) \in Nat
<1> DEFINE C == {T \in SUBSET S : SumOver(f, T) \notin Nat}
<1>1. SUFFICES ASSUME C # {} PROVE FALSE
  <2>1. S \in SUBSET S
    OBVIOUS
  <2>2. QED
    BY <1>1, <2>1
<1>2. PICK T \in C : \A U \in C : U \subseteq T => U = T
  <2>1. C \subseteq SUBSET S
    OBVIOUS
  <2> HIDE DEF C
  <2>2. QED
    BY <1>1, <2>1, Smallest
<1>3. SumOver(f, T) \notin Nat
  BY <1>2
<1>4. T # {}
  <2>1. 0 \in Nat
    OBVIOUS
  <2>2. QED
    BY <1>3, <2>1, MinuteEmpty
<1> DEFINE U == T \ {Pick(T)}
<1>5. Pick(T) \in T /\ T \subseteq S /\ IsFiniteSet(T)
  BY <1>2, <1>4, PickIn, FS_Subset
<1>6. U \in SUBSET S /\ U \subseteq T /\ U # T
  BY <1>5
<1>7. U \notin C
  <2> HIDE DEF C
  <2>1. QED
    BY <1>2, <1>6
<1>8. SumOver(f, U) \in Nat
  BY <1>6, <1>7
<1>9. SumOver(f, T) = f[Pick(T)] + SumOver(f, U)
  BY <1>4, <1>5, MinutePick
<1>10. f[Pick(T)] \in Nat
  BY <1>5
<1>11. QED
  BY <1>3, <1>8, <1>9, <1>10

(* The sum by any element: by the element that is picked it is so, and     *)
(* both orders of taking two elements away leave the same.                 *)
LEMMA MinuteElement ==
    ASSUME NEW f, NEW S, IsFiniteSet(S), \A x \in S : f[x] \in Nat, NEW x \in S
    PROVE  SumOver(f, S) = f[x] + SumOver(f, S \ {x})
<1> DEFINE Odd(T) == {y \in T : SumOver(f, T) # f[y] + SumOver(f, T \ {y})}
           C == {T \in SUBSET S : Odd(T) # {}}
<1>1. SUFFICES ASSUME C # {} PROVE FALSE
  <2>1. S \in SUBSET S
    OBVIOUS
  <2>2. QED
    BY <1>1, <2>1
<1>2. PICK T \in C : \A U \in C : U \subseteq T => U = T
  <2>1. C \subseteq SUBSET S
    OBVIOUS
  <2> HIDE DEF C
  <2>2. QED
    BY <1>1, <2>1, Smallest
<1>3. PICK y \in T : SumOver(f, T) # f[y] + SumOver(f, T \ {y})
  BY <1>2
<1>4. T \subseteq S
  BY <1>2
<1> DEFINE p == Pick(T)
           q == T \ {p}
           r == T \ {y}
<1>5. p \in T /\ IsFiniteSet(T) /\ SumOver(f, T) = f[p] + SumOver(f, q)
  BY <1>3, <1>4, PickIn, FS_Subset, MinutePick
<1> HIDE DEF p
<1>6. p # y
  BY <1>3, <1>5
<1>7. ASSUME NEW U, U \subseteq T, U # T PROVE U \notin C
  <2> HIDE DEF C
  <2>1. QED
    BY <1>2, <1>7
<1>8. SumOver(f, q) = f[y] + SumOver(f, q \ {y})
  <2>1. q \subseteq T /\ q # T /\ y \in q /\ q \in SUBSET S
    BY <1>4, <1>5, <1>6
  <2>2. q \notin C
    BY <1>7, <2>1
  <2> HIDE DEF q
  <2>3. QED
    BY <2>1, <2>2
<1>9. SumOver(f, r) = f[p] + SumOver(f, r \ {p})
  <2>1. r \subseteq T /\ r # T /\ p \in r /\ r \in SUBSET S
    BY <1>3, <1>4, <1>5, <1>6
  <2>2. r \notin C
    BY <1>7, <2>1
  <2> HIDE DEF r
  <2>3. QED
    BY <2>1, <2>2
<1>10. q \ {y} = r \ {p} /\ q \ {y} \subseteq S
  BY <1>4
<1>11. SumOver(f, q \ {y}) \in Nat
  BY <1>10, FS_Subset, MinuteNat
<1>12. f[p] \in Nat /\ f[y] \in Nat
  BY <1>3, <1>4, <1>5
<1>13. SumOver(f, T) # f[y] + SumOver(f, r)
  BY <1>3
<1> HIDE DEF q, r, C
<1>14. QED
  BY <1>13, <1>5, <1>8, <1>9, <1>10, <1>11, <1>12

LEMMA MinuteSame ==
    ASSUME NEW f, NEW h, NEW S, IsFiniteSet(S), \A x \in S : f[x] = h[x]
    PROVE  SumOver(f, S) = SumOver(h, S)
<1> DEFINE C == {T \in SUBSET S : SumOver(f, T) # SumOver(h, T)}
<1>1. SUFFICES ASSUME C # {} PROVE FALSE
  <2>1. S \in SUBSET S
    OBVIOUS
  <2>2. QED
    BY <1>1, <2>1
<1>2. PICK T \in C : \A U \in C : U \subseteq T => U = T
  <2>1. C \subseteq SUBSET S
    OBVIOUS
  <2> HIDE DEF C
  <2>2. QED
    BY <1>1, <2>1, Smallest
<1>3. T \subseteq S /\ SumOver(f, T) # SumOver(h, T)
  BY <1>2
<1>4. T # {}
  BY <1>3, MinuteEmpty
<1> DEFINE U == T \ {Pick(T)}
<1>5. Pick(T) \in T /\ IsFiniteSet(T) /\ U \in SUBSET S /\ U \subseteq T /\ U # T
  BY <1>3, <1>4, PickIn, FS_Subset
<1>6. U \notin C
  <2> HIDE DEF C
  <2>1. QED
    BY <1>2, <1>5
<1>7. SumOver(f, U) = SumOver(h, U)
  BY <1>5, <1>6
<1>8. SumOver(f, T) = f[Pick(T)] + SumOver(f, U) /\ SumOver(h, T) = h[Pick(T)] + SumOver(h, U)
  BY <1>4, <1>5, MinutePick
<1>9. f[Pick(T)] = h[Pick(T)]
  BY <1>3, <1>5
<1>10. QED
  BY <1>3, <1>7, <1>8, <1>9

(* A part of the ages has a part of the stamps. *)
LEMMA MinutePart ==
    ASSUME NEW f, NEW S, IsFiniteSet(S), \A x \in S : f[x] \in Nat, NEW T, T \subseteq S
    PROVE  SumOver(f, T) <= SumOver(f, S)
<1> DEFINE C == {U \in SUBSET S : T \subseteq U /\ ~ (SumOver(f, T) <= SumOver(f, U))}
<1>1. SUFFICES ASSUME C # {} PROVE FALSE
  <2>1. S \in SUBSET S
    OBVIOUS
  <2>2. QED
    BY <1>1, <2>1
<1>2. PICK U \in C : \A V \in C : V \subseteq U => V = U
  <2>1. C \subseteq SUBSET S
    OBVIOUS
  <2> HIDE DEF C
  <2>2. QED
    BY <1>1, <2>1, Smallest
<1>3. U \subseteq S /\ T \subseteq U /\ ~ (SumOver(f, T) <= SumOver(f, U))
  BY <1>2
<1>4. SumOver(f, T) \in Nat
  BY FS_Subset, MinuteNat
<1>5. U # T
  BY <1>3, <1>4
<1>6. PICK x \in U : x \notin T
  BY <1>3, <1>5
<1> DEFINE V == U \ {x}
<1>7. V \subseteq U /\ V # U /\ T \subseteq V /\ V \subseteq S
  BY <1>3, <1>6
<1>8. V \notin C
  <2> HIDE DEF C, V
  <2>1. QED
    BY <1>2, <1>7
<1>9. SumOver(f, T) <= SumOver(f, V)
  BY <1>7, <1>8
<1>10. SumOver(f, U) = f[x] + SumOver(f, V)
  BY <1>3, <1>6, FS_Subset, MinuteElement
<1>11. SumOver(f, V) \in Nat /\ f[x] \in Nat
  BY <1>3, <1>6, <1>7, FS_Subset, MinuteNat
<1> HIDE DEF V, C
<1>12. QED
  BY <1>3, <1>4, <1>9, <1>10, <1>11

(* A stamp adds to the minutes it is in. *)
LEMMA MinuteStamp ==
    ASSUME NEW f, NEW h, NEW S, IsFiniteSet(S), \A x \in S : f[x] \in Nat /\ h[x] \in Nat,
           NEW y \in S, \A x \in S \ {y} : h[x] = f[x]
    PROVE  SumOver(h, S) + f[y] = SumOver(f, S) + h[y]
<1> DEFINE T == S \ {y}
<1>1. IsFiniteSet(T)
  BY FS_Subset
<1>2. SumOver(f, T) = SumOver(h, T)
  BY <1>1, MinuteSame
<1>3. SumOver(f, S) = f[y] + SumOver(f, T)
  BY MinuteElement
<1>4. SumOver(h, S) = h[y] + SumOver(h, T)
  BY MinuteElement
<1>5. SumOver(f, T) \in Nat /\ f[y] \in Nat /\ h[y] \in Nat
  BY <1>1, MinuteNat
<1> HIDE DEF T
<1>6. QED
  BY <1>2, <1>3, <1>4, <1>5

(* A tick later the same stamps are a tick older. *)
Aged(f, h, S) == S \subseteq Nat /\ \A x \in S : f[x] \in Nat /\ h[x + 1] = f[x]
Later(S) == {x + 1 : x \in S}
LEMMA MinuteOlder ==
    ASSUME NEW f, NEW h, NEW S, IsFiniteSet(S), Aged(f, h, S),
           IsFiniteSet(Later(S))
    PROVE  SumOver(h, Later(S)) = SumOver(f, S)
<1> DEFINE C == {T \in SUBSET S : SumOver(h, Later(T)) # SumOver(f, T)}
<1>1. SUFFICES ASSUME C # {} PROVE FALSE
  <2>1. S \in SUBSET S
    OBVIOUS
  <2>2. QED
    BY <1>1, <2>1
<1>2. PICK T \in C : \A U \in C : U \subseteq T => U = T
  <2>1. C \subseteq SUBSET S
    OBVIOUS
  <2> HIDE DEF C
  <2>2. QED
    BY <1>1, <2>1, Smallest
<1>3. T \subseteq S /\ SumOver(h, Later(T)) # SumOver(f, T)
  BY <1>2
<1>4. T # {}
  <2>1. Later({}) = {}
    BY DEF Later
  <2> HIDE DEF C
  <2>2. QED
    BY <1>3, <2>1, MinuteEmpty
<1>5. PICK x \in T : TRUE
  BY <1>4
<1> DEFINE U == T \ {x}
<1>6. U \in SUBSET S /\ U \subseteq T /\ U # T /\ IsFiniteSet(T) /\ T \subseteq Nat
  BY <1>3, FS_Subset DEF Aged
<1>7. U \notin C
  <2> HIDE DEF C
  <2>1. QED
    BY <1>2, <1>6
<1>8. SumOver(h, Later(U)) = SumOver(f, U)
  BY <1>6, <1>7
<1>9. SumOver(f, T) = f[x] + SumOver(f, U)
  <2>1. \A z \in T : f[z] \in Nat
    BY <1>3 DEF Aged
  <2>2. x \in T /\ IsFiniteSet(T)
    BY <1>6
  <2> HIDE DEF C
  <2>3. QED
    BY <2>1, <2>2, MinuteElement
<1>10. Later(T) \ {x + 1} = Later(U) /\ x + 1 \in Later(T)
  BY <1>6 DEF Later
<1>11. IsFiniteSet(Later(T))
  <2>1. Later(T) \subseteq Later(S)
    BY <1>3 DEF Later
  <2>2. QED
    BY <2>1, FS_Subset
<1>12. \A y \in Later(T) : h[y] \in Nat
  BY <1>3 DEF Aged, Later
<1>13. h[x + 1] = f[x]
  BY <1>3 DEF Aged
<1> HIDE DEF C, U
<1>14. SumOver(h, Later(T)) = h[x + 1] + SumOver(h, Later(U))
  BY <1>10, <1>11, <1>12, MinuteElement
<1>15. QED
  BY <1>3, <1>8, <1>9, <1>13, <1>14

LEMMA MinuteZero ==
    ASSUME NEW f, NEW S, IsFiniteSet(S), \A x \in S : f[x] = 0
    PROVE  SumOver(f, S) = 0
<1> DEFINE C == {T \in SUBSET S : SumOver(f, T) # 0}
<1>1. SUFFICES ASSUME C # {} PROVE FALSE
  <2>1. S \in SUBSET S
    OBVIOUS
  <2>2. QED
    BY <1>1, <2>1
<1>2. PICK T \in C : \A U \in C : U \subseteq T => U = T
  <2>1. C \subseteq SUBSET S
    OBVIOUS
  <2> HIDE DEF C
  <2>2. QED
    BY <1>1, <2>1, Smallest
<1>3. T \subseteq S /\ SumOver(f, T) # 0
  BY <1>2
<1>4. T # {}
  BY <1>3, MinuteEmpty
<1> DEFINE U == T \ {Pick(T)}
<1>5. Pick(T) \in T /\ IsFiniteSet(T) /\ U \in SUBSET S /\ U \subseteq T /\ U # T
  BY <1>3, <1>4, PickIn, FS_Subset
<1>6. U \notin C
  <2> HIDE DEF C
  <2>1. QED
    BY <1>2, <1>5
<1>7. SumOver(f, U) = 0
  BY <1>5, <1>6
<1>8. SumOver(f, T) = f[Pick(T)] + SumOver(f, U)
  BY <1>4, <1>5, MinutePick
<1>9. f[Pick(T)] = 0
  BY <1>3, <1>5
<1>10. QED
  BY <1>3, <1>7, <1>8, <1>9

-----------------------------------------------------------------------------
(* The usage.  UsageInv adds to UsageKept that a flush which has stored or *)
(* failed has nothing in hand, and that a row which was merged contains    *)
(* the stored one, unless another flush has written it since.              *)

Counts == [Key -> Nat]
Run == [step : {"idle", "taken", "cleaning"}, rows : Counts, read : SUBSET Key]

UsageShape ==
    /\ hour \in 0..MaxHour
    /\ buckets \in Counts /\ rows \in Counts /\ logged \in Counts
    /\ flush \in [Flush -> Run]
    /\ faults \in Nat

EmptyHanded(r) == r.step # "taken" => r.rows = NoUsage /\ r.read = {}
ReadRows(r) == \A k \in r.read : r.rows[k] > 0

(* The rows UsageKept is about. *)
Sound(k) == k \in Key /\ k \notin raced /\ Kept(k)
Contained(k) == \A f \in Flush : k \in flush[f].read => flush[f].rows[k] >= rows[k]

UsageInv ==
    /\ UsageShape
    /\ \A f \in Flush : EmptyHanded(flush[f]) /\ ReadRows(flush[f])
    /\ \A k : Sound(k) => Contained(k)
    /\ UsageKept

LEMMA NoUsageShape == NoUsage \in Counts /\ \A k \in Key : NoUsage[k] = 0
  BY DEF NoUsage, Counts

LEMMA IdleShape ==
    /\ Idle \in Run /\ EmptyHanded(Idle) /\ ReadRows(Idle)
    /\ Idle.read = {} /\ \A k \in Key : Idle.rows[k] = 0
  BY NoUsageShape DEF Idle, Run, EmptyHanded, ReadRows

(* At the start, and when the process starts again. *)
LEMMA FreshOnTheWay ==
    ASSUME rows \in Counts, buckets = NoUsage, flush = [f \in Flush |-> Idle], NEW k \in Key
    PROVE  OnTheWay(k) = rows[k]
<1> DEFINE h == [f \in Flush |-> InHand(f, k)]
<1>1. IsFiniteSet(Flush)
  BY KeyUsageAssumption DEF KeyUsageAssumption
<1>2. \A f \in Flush : h[f] = 0
  BY IdleShape DEF InHand
<1> HIDE DEF h
<1>3. SumOver(h, Flush) = 0
  BY <1>1, <1>2, MinuteZero
<1>4. rows[k] \in Nat /\ buckets[k] = 0
  BY NoUsageShape DEF Counts
<1>5. OnTheWay(k) = buckets[k] + rows[k] + SumOver(h, Flush)
  BY DEF OnTheWay, h
<1>6. QED
  BY <1>3, <1>4, <1>5

LEMMA FreshInv ==
    ASSUME hour \in 0..MaxHour, rows \in Counts, logged = rows, faults \in Nat,
           buckets = NoUsage, flush = [f \in Flush |-> Idle]
    PROVE  UsageInv
<1>1. \A f \in Flush : flush[f] = Idle
  OBVIOUS
<1>2. UsageShape
  BY <1>1, NoUsageShape, IdleShape DEF UsageShape
<1>3. \A f \in Flush : EmptyHanded(flush[f]) /\ ReadRows(flush[f])
  BY <1>1, IdleShape
<1>4. \A k : Sound(k) => Contained(k)
  BY <1>1, IdleShape DEF Contained
<1>5. UsageKept
  <2>1. ASSUME NEW k \in Key PROVE OnTheWay(k) >= logged[k] /\ OnTheWay(k) = logged[k]
    <3>1. OnTheWay(k) = rows[k]
      BY FreshOnTheWay
    <3>2. rows[k] \in Nat
      BY DEF Counts
    <3>3. QED
      BY <3>1, <3>2
  <2>2. QED
    BY <2>1 DEF UsageKept
<1>6. QED
  BY <1>2, <1>3, <1>4, <1>5 DEF UsageInv

LEMMA InitInv ==
    ASSUME KeyInit
    PROVE  UsageInv
  BY KeyUsageAssumption, NoUsageShape, FreshInv DEF KeyInit, KeyUsageAssumption

LEMMA RestartInv ==
    ASSUME UsageInv, Restart
    PROVE  UsageInv'
<1>1. /\ hour' \in 0..MaxHour /\ rows' \in Counts /\ logged' = rows' /\ faults' \in Nat
      /\ buckets' = NoUsage /\ flush' = [f \in Flush |-> Idle]
  BY DEF UsageInv, UsageShape, Restart
<1>2. /\ (hour \in 0..MaxHour)' /\ (rows \in Counts)' /\ (logged = rows)' /\ (faults \in Nat)'
      /\ (buckets = NoUsage)' /\ (flush = [f \in Flush |-> Idle])'
  BY <1>1
<1>3. QED
  BY <1>2, FreshInv, PTL

(* Everything about limits and windows leaves the usage alone. *)
LEMMA SameUsage ==
    ASSUME UsageInv, UNCHANGED usageVars
    PROVE  UsageInv'
  BY DEF UsageInv, UsageShape, UsageKept, OnTheWay, InHand, Kept, Sound, Contained, usageVars

-----------------------------------------------------------------------------
(* What is on the way, by the hands it is in. *)

LEMMA Hands ==
    ASSUME UsageInv, NEW k, Sound(k)
    PROVE  /\ \A f \in Flush : InHand(f, k) \in Nat
           /\ OnTheWay(k) \in Nat
           /\ buckets[k] \in Nat /\ rows[k] \in Nat /\ logged[k] \in Nat
<1> DEFINE h == [f \in Flush |-> InHand(f, k)]
<1>1. k \in Key /\ Contained(k) /\ UsageShape
  BY DEF UsageInv, Sound
<1>2. buckets[k] \in Nat /\ rows[k] \in Nat /\ logged[k] \in Nat
  BY <1>1 DEF UsageShape, Counts
<1>3. ASSUME NEW f \in Flush PROVE InHand(f, k) \in Nat
  <2>1. flush[f].rows[k] \in Nat
    BY <1>1 DEF UsageShape, Run, Counts
  <2>2. CASE k \in flush[f].read
    <3>1. flush[f].rows[k] >= rows[k]
      BY <1>1, <2>2 DEF Contained
    <3>2. InHand(f, k) = flush[f].rows[k] - rows[k]
      BY <2>2 DEF InHand
    <3>3. QED
      BY <1>2, <2>1, <3>1, <3>2
  <2>3. CASE k \notin flush[f].read
    <3>1. InHand(f, k) = flush[f].rows[k] - 0
      BY <2>3 DEF InHand
    <3>2. QED
      BY <2>1, <3>1
  <2>4. QED
    BY <2>2, <2>3
<1>4. \A f \in Flush : h[f] \in Nat
  BY <1>3
<1>5. IsFiniteSet(Flush)
  BY KeyUsageAssumption DEF KeyUsageAssumption
<1> HIDE DEF h
<1>6. SumOver(h, Flush) \in Nat
  BY <1>4, <1>5, MinuteNat
<1>7. OnTheWay(k) = buckets[k] + rows[k] + SumOver(h, Flush)
  BY DEF OnTheWay, h
<1>8. QED
  BY <1>2, <1>3, <1>6, <1>7

(* A step of one flush: what is on the way changes by what it has in hand. *)
LEMMA HandsMove ==
    ASSUME NEW k, NEW f \in Flush,
           \A g \in Flush : InHand(g, k) \in Nat /\ InHand(g, k)' \in Nat,
           \A g \in Flush \ {f} : InHand(g, k)' = InHand(g, k),
           buckets[k] \in Nat, rows[k] \in Nat, buckets'[k] \in Nat, rows'[k] \in Nat
    PROVE  /\ OnTheWay(k) \in Nat /\ OnTheWay(k)' \in Nat
           /\ OnTheWay(k)' + (buckets[k] + rows[k] + InHand(f, k))
              = OnTheWay(k) + (buckets'[k] + rows'[k] + InHand(f, k)')
<1> DEFINE h == [g \in Flush |-> InHand(g, k)]
           i == [g \in Flush |-> InHand(g, k)']
<1>1. IsFiniteSet(Flush)
  BY KeyUsageAssumption DEF KeyUsageAssumption
<1>2. /\ \A g \in Flush : h[g] \in Nat /\ i[g] \in Nat
      /\ \A g \in Flush \ {f} : i[g] = h[g]
      /\ h[f] = InHand(f, k) /\ i[f] = InHand(f, k)'
  OBVIOUS
<1>3. /\ OnTheWay(k) = buckets[k] + rows[k] + SumOver(h, Flush)
      /\ OnTheWay(k)' = buckets'[k] + rows'[k] + SumOver(i, Flush)
  BY DEF OnTheWay
<1> HIDE DEF h, i
<1>4. SumOver(i, Flush) + h[f] = SumOver(h, Flush) + i[f]
  BY <1>1, <1>2, MinuteStamp
<1>5. SumOver(h, Flush) \in Nat /\ SumOver(i, Flush) \in Nat
  BY <1>1, <1>2, MinuteNat
<1>6. h[f] \in Nat /\ i[f] \in Nat
  BY <1>2
<1>7. QED
  BY <1>2, <1>3, <1>4, <1>5, <1>6

(* The argument for one row: a step after which it is kept and sound only  *)
(* if it was, which leaves on the way what was there, and whatever was     *)
(* logged on top, or more in case of a fault.                              *)
LEMMA KeptByStep ==
    ASSUME UsageInv, faults' = 0 => faults = 0,
           \A k : Sound(k)' =>
               /\ Sound(k) /\ logged'[k] \in Nat /\ OnTheWay(k)' \in Nat
               /\ OnTheWay(k)' + logged[k] >= OnTheWay(k) + logged'[k]
               /\ faults' = 0 => OnTheWay(k)' + logged[k] = OnTheWay(k) + logged'[k]
    PROVE  UsageKept'
<1> SUFFICES ASSUME NEW k \in Key \ raced', Kept(k)'
             PROVE  /\ OnTheWay(k)' >= logged'[k]
                    /\ faults' = 0 => OnTheWay(k)' = logged'[k]
  BY DEF UsageKept
<1>1. Sound(k)' /\ Sound(k)
  BY DEF Sound
<1>2. OnTheWay(k) \in Nat /\ OnTheWay(k)' \in Nat /\ logged[k] \in Nat /\ logged'[k] \in Nat
  BY <1>1, Hands
<1>3. OnTheWay(k) >= logged[k] /\ (faults = 0 => OnTheWay(k) = logged[k])
  BY <1>1 DEF UsageInv, UsageKept, Sound
<1>4. /\ OnTheWay(k)' + logged[k] >= OnTheWay(k) + logged'[k]
      /\ faults' = 0 => OnTheWay(k)' + logged[k] = OnTheWay(k) + logged'[k]
  BY <1>1
<1>5. QED
  BY <1>2, <1>3, <1>4

(* What is held of row k in r, which has merged it with what is stored. *)
Held(r, k, at_) == r.rows[k] - IF k \in r.read THEN at_ ELSE 0

(* Run f has come to hold r: what it has merged contains what is stored,   *)
(* the others have their rows as they read them, and nothing has got lost. *)
Moves(f, r, k) ==
    /\ k \in r.read => r.rows[k] >= rows'[k]
    /\ \A g \in Flush \ {f} : k \in flush[g].read => rows'[k] = rows[k]
    /\ LET before == buckets[k] + rows[k] + Held(flush[f], k, rows[k])
           after == buckets'[k] + rows'[k] + Held(r, k, rows'[k])
       IN  after >= before /\ (faults' = 0 => after = before)

LEMMA FlushStep ==
    ASSUME UsageInv, NEW f \in Flush, NEW r \in Run, flush' = [flush EXCEPT ![f] = r],
           EmptyHanded(r), ReadRows(r),
           UNCHANGED <<hour, logged>>, raced \subseteq raced',
           buckets' \in Counts, rows' \in Counts, faults' \in Nat, faults' = 0 => faults = 0,
           \A k : Sound(k)' => Moves(f, r, k)
    PROVE  UsageInv'
<1>1. UsageShape /\ flush'[f] = r /\ \A g \in Flush \ {f} : flush'[g] = flush[g]
  BY DEF UsageInv, UsageShape
<1>2. UsageShape'
  BY <1>1 DEF UsageShape
<1>3. \A g \in Flush : EmptyHanded(flush'[g]) /\ ReadRows(flush'[g])
  BY <1>1 DEF UsageInv
<1>4. ASSUME NEW k, Sound(k)' PROVE Sound(k) /\ Contained(k)'
  <2>1. Sound(k)
    BY <1>4 DEF Sound, Kept
  <2>2. Contained(k)
    BY <2>1 DEF UsageInv
  <2>3. ASSUME NEW g \in Flush, k \in flush'[g].read PROVE flush'[g].rows[k] >= rows'[k]
    <3>1. CASE g = f
      <4>1. Moves(f, r, k) /\ k \in r.read
        BY <1>1, <1>4, <2>3, <3>1
      <4>2. QED
        BY <1>1, <3>1, <4>1 DEF Moves
    <3>2. CASE g # f
      <4>1. flush'[g] = flush[g] /\ g \in Flush \ {f}
        BY <1>1, <3>2
      <4>2. rows'[k] = rows[k]
        BY <1>4, <2>3, <4>1 DEF Moves
      <4>3. QED
        BY <2>2, <2>3, <4>1, <4>2 DEF Contained
    <3>3. QED
      BY <3>1, <3>2
  <2>4. QED
    BY <2>1, <2>3 DEF Contained
<1>5. ASSUME NEW k, Sound(k)'
      PROVE  /\ Sound(k) /\ logged'[k] \in Nat /\ OnTheWay(k)' \in Nat
             /\ OnTheWay(k)' + logged[k] >= OnTheWay(k) + logged'[k]
             /\ faults' = 0 => OnTheWay(k)' + logged[k] = OnTheWay(k) + logged'[k]
  <2>1. Sound(k) /\ k \in Key
    BY <1>4, <1>5 DEF Sound
  <2>2. /\ \A g \in Flush : InHand(g, k) \in Nat
        /\ buckets[k] \in Nat /\ rows[k] \in Nat /\ logged[k] \in Nat /\ OnTheWay(k) \in Nat
    BY <2>1, Hands
  <2>3. buckets'[k] \in Nat /\ rows'[k] \in Nat
    BY <2>1 DEF Counts
  <2>4. InHand(f, k) = Held(flush[f], k, rows[k]) /\ InHand(f, k)' = Held(r, k, rows'[k])
    BY <1>1 DEF InHand, Held
  <2>5. \A g \in Flush \ {f} : InHand(g, k)' = InHand(g, k)
    <3> SUFFICES ASSUME NEW g \in Flush \ {f} PROVE InHand(g, k)' = InHand(g, k)
      OBVIOUS
    <3>1. flush'[g] = flush[g]
      BY <1>1
    <3>2. CASE k \in flush[g].read
      <4>1. rows'[k] = rows[k]
        BY <1>5, <3>2 DEF Moves
      <4>2. QED
        BY <3>1, <4>1 DEF InHand
    <3>3. CASE k \notin flush[g].read
      BY <3>1, <3>3 DEF InHand
    <3>4. QED
      BY <3>2, <3>3
  <2>6. InHand(f, k)' \in Nat
    <3>1. r.rows[k] \in Nat
      BY <2>1 DEF Run, Counts
    <3>2. CASE k \in r.read
      <4>1. r.rows[k] >= rows'[k]
        BY <1>5, <3>2 DEF Moves
      <4>2. InHand(f, k)' = r.rows[k] - rows'[k]
        BY <2>4, <3>2 DEF Held
      <4>3. QED
        BY <2>3, <3>1, <4>1, <4>2
    <3>3. CASE k \notin r.read
      <4>1. InHand(f, k)' = r.rows[k] - 0
        BY <2>4, <3>3 DEF Held
      <4>2. QED
        BY <3>1, <4>1
    <3>4. QED
      BY <3>2, <3>3
  <2>7. \A g \in Flush : InHand(g, k)' \in Nat
    BY <2>2, <2>5, <2>6
  <2>8. /\ OnTheWay(k)' \in Nat
        /\ OnTheWay(k)' + (buckets[k] + rows[k] + InHand(f, k))
           = OnTheWay(k) + (buckets'[k] + rows'[k] + InHand(f, k)')
    BY <2>2, <2>3, <2>5, <2>7, HandsMove
  <2> DEFINE before == buckets[k] + rows[k] + InHand(f, k)
             after == buckets'[k] + rows'[k] + InHand(f, k)'
  <2>9. after >= before /\ (faults' = 0 => after = before)
    BY <1>5, <2>4 DEF Moves
  <2>10. before \in Nat /\ after \in Nat
    BY <2>2, <2>3, <2>6
  <2>11. OnTheWay(k)' + before = OnTheWay(k) + after
    BY <2>8
  <2> HIDE DEF before, after
  <2>12. OnTheWay(k)' >= OnTheWay(k) /\ (faults' = 0 => OnTheWay(k)' = OnTheWay(k))
    BY <2>2, <2>8, <2>9, <2>10, <2>11
  <2>13. logged'[k] = logged[k]
    OBVIOUS
  <2>14. QED
    BY <2>1, <2>2, <2>8, <2>12, <2>13
<1>6. UsageKept'
  BY <1>5, KeptByStep
<1>7. QED
  BY <1>2, <1>3, <1>4, <1>6 DEF UsageInv

-----------------------------------------------------------------------------
(* The steps of the flush.                                                 *)

LEMMA TakeInv ==
    ASSUME UsageInv, NEW f \in Flush, UsageTake(f)
    PROVE  UsageInv'
<1> DEFINE r == [step |-> IF buckets = NoUsage THEN "cleaning" ELSE "taken", rows |-> buckets, read |-> {}]
<1>1. UsageShape /\ EmptyHanded(flush[f])
  BY DEF UsageInv
<1>2. r = [step |-> IF buckets = NoUsage THEN "cleaning" ELSE "taken", rows |-> buckets, read |-> {}]
  OBVIOUS
<1>3. flush' = [flush EXCEPT ![f] = r]
  BY DEF UsageTake
<1> HIDE DEF r
<1>4. r \in Run /\ EmptyHanded(r) /\ ReadRows(r)
  BY <1>1, <1>2 DEF Run, EmptyHanded, ReadRows, UsageShape
<1>5. flush[f].rows = NoUsage /\ flush[f].read = {}
  BY <1>1 DEF EmptyHanded, UsageTake
<1>6. buckets' = NoUsage /\ UNCHANGED <<hour, rows, logged, faults, raced>>
  BY DEF UsageTake
<1>7. ASSUME NEW k \in Key
      PROVE  /\ buckets[k] \in Nat /\ rows[k] \in Nat /\ buckets'[k] = 0
             /\ Held(flush[f], k, rows[k]) = 0 /\ Held(r, k, rows'[k]) = buckets[k]
  BY <1>1, <1>2, <1>5, <1>6, NoUsageShape DEF UsageShape, Counts, Held
<1>8. ASSUME NEW k, Sound(k)' PROVE Moves(f, r, k)
  <2>1. k \in Key
    BY <1>8 DEF Sound
  <2>2. buckets'[k] + rows'[k] + Held(r, k, rows'[k]) = buckets[k] + rows[k] + Held(flush[f], k, rows[k])
    BY <1>6, <1>7, <2>1
  <2>3. buckets[k] + rows[k] + Held(flush[f], k, rows[k]) \in Nat
    BY <1>7, <2>1
  <2>4. QED
    BY <1>2, <1>6, <2>2, <2>3 DEF Moves
<1>9. buckets' \in Counts /\ rows' \in Counts /\ faults' \in Nat
  BY <1>1, <1>6, NoUsageShape DEF UsageShape
<1>10. QED
  BY <1>3, <1>4, <1>6, <1>8, <1>9, FlushStep

LEMMA MergeInv ==
    ASSUME UsageInv, NEW f \in Flush, NEW k \in Key, MergeUsageRow(f, k)
    PROVE  UsageInv'
<1> DEFINE w == [flush[f].rows EXCEPT ![k] = Merged(f, k)]
           r == [step |-> "taken", rows |-> w, read |-> flush[f].read \cup {k}]
<1>1. UsageShape /\ EmptyHanded(flush[f]) /\ ReadRows(flush[f]) /\ flush[f] \in Run
  BY DEF UsageInv, UsageShape
<1>2. /\ flush[f].step = "taken" /\ flush[f].rows[k] > 0 /\ k \notin flush[f].read
      /\ UNCHANGED <<hour, buckets, rows, logged, faults, raced>>
  BY DEF MergeUsageRow, Unread
<1>3. flush' = [flush EXCEPT ![f] = r]
  BY DEF MergeUsageRow
<1>4. flush[f].rows \in Counts /\ flush[f].read \subseteq Key /\ flush[f].rows[k] \in Nat /\ rows[k] \in Nat
  BY <1>1 DEF UsageShape, Run, Counts
<1>5. Merged(f, k) = flush[f].rows[k] + rows[k] /\ Merged(f, k) \in Nat /\ Merged(f, k) > 0
  BY <1>2, <1>4 DEF Merged
<1>6. r = [step |-> "taken", rows |-> w, read |-> flush[f].read \cup {k}]
  OBVIOUS
<1>7. /\ w \in Counts /\ w[k] = flush[f].rows[k] + rows[k]
      /\ \A l \in Key \ {k} : w[l] = flush[f].rows[l]
  BY <1>4, <1>5 DEF Counts
<1> HIDE DEF r, w
<1>8. r \in Run /\ EmptyHanded(r) /\ ReadRows(r)
  <2>1. r \in Run /\ EmptyHanded(r)
    BY <1>4, <1>6, <1>7 DEF Run, EmptyHanded
  <2>2. ASSUME NEW l \in r.read PROVE r.rows[l] > 0
    <3>1. CASE l = k
      BY <1>2, <1>4, <1>6, <1>7, <3>1
    <3>2. CASE l # k
      <4>1. l \in flush[f].read /\ l \in Key \ {k}
        BY <1>4, <1>6, <3>2
      <4>2. QED
        BY <1>1, <1>6, <1>7, <4>1 DEF ReadRows
    <3>3. QED
      BY <3>1, <3>2
  <2>3. QED
    BY <2>1, <2>2 DEF ReadRows
<1>9. ASSUME NEW l, Sound(l)'
      PROVE  /\ l \in r.read => r.rows[l] >= rows'[l]
             /\ Held(r, l, rows'[l]) = Held(flush[f], l, rows[l])
             /\ buckets[l] + rows[l] + Held(flush[f], l, rows[l]) \in Nat
  <2>1. Sound(l) /\ l \in Key /\ Contained(l)
    BY <1>2, <1>9 DEF Sound, Kept, UsageInv
  <2>2. InHand(f, l) \in Nat /\ buckets[l] \in Nat /\ rows[l] \in Nat
    BY <2>1, Hands
  <2>3. InHand(f, l) = Held(flush[f], l, rows[l])
    BY DEF InHand, Held
  <2>4. CASE l = k
    <3>1. Held(r, l, rows'[l]) = (flush[f].rows[k] + rows[k]) - rows[k]
      BY <1>2, <1>6, <1>7, <2>4 DEF Held
    <3>2. Held(flush[f], l, rows[l]) = flush[f].rows[k] - 0
      BY <1>2, <2>4 DEF Held
    <3>3. QED
      BY <1>2, <1>4, <1>6, <1>7, <2>2, <2>3, <2>4, <3>1, <3>2
  <2>5. CASE l # k
    <3>1. r.rows[l] = flush[f].rows[l] /\ (l \in r.read <=> l \in flush[f].read) /\ rows'[l] = rows[l]
      BY <1>2, <1>6, <1>7, <2>1, <2>5
    <3>2. l \in flush[f].read => flush[f].rows[l] >= rows[l]
      BY <2>1 DEF Contained
    <3>3. QED
      BY <2>2, <2>3, <3>1, <3>2 DEF Held
  <2>6. QED
    BY <2>4, <2>5
<1>10. buckets' \in Counts /\ rows' \in Counts /\ faults' \in Nat
  BY <1>1, <1>2 DEF UsageShape
<1>11. ASSUME NEW l, Sound(l)' PROVE Moves(f, r, l)
  <2>1. buckets'[l] + rows'[l] + Held(r, l, rows'[l]) = buckets[l] + rows[l] + Held(flush[f], l, rows[l])
    BY <1>2, <1>9, <1>11
  <2>2. QED
    BY <1>2, <1>9, <1>11, <2>1 DEF Moves
<1>12. QED
  BY <1>2, <1>3, <1>8, <1>10, <1>11, FlushStep

LEMMA StoreInv ==
    ASSUME UsageInv, NEW f \in Flush, UsageStore(f)
    PROVE  UsageInv'
<1> DEFINE r == [Idle EXCEPT !.step = "cleaning"]
<1>1. UsageShape /\ EmptyHanded(flush[f]) /\ ReadRows(flush[f]) /\ flush[f] \in Run
  BY DEF UsageInv, UsageShape
<1>2. flush' = [flush EXCEPT ![f] = r] /\ UNCHANGED <<hour, buckets, logged, faults>>
  BY DEF UsageStore
<1>3. r = [step |-> "cleaning", rows |-> NoUsage, read |-> {}]
  BY DEF Idle
<1> HIDE DEF r
<1>4. r \in Run /\ EmptyHanded(r) /\ ReadRows(r)
  BY <1>3, NoUsageShape DEF Run, EmptyHanded, ReadRows
<1>5. /\ \A k \in Key : flush[f].rows[k] \in Nat /\ rows[k] \in Nat
      /\ buckets' \in Counts /\ faults' \in Nat
  BY <1>1, <1>2 DEF UsageShape, Run, Counts
<1>6. /\ rows' \in Counts
      /\ \A k \in Key : rows'[k] = IF flush[f].rows[k] > 0 THEN flush[f].rows[k] ELSE rows[k]
  BY <1>5 DEF UsageStore, Counts
<1>7. \A k \in Key : flush[f].rows[k] > 0 <=> k \in flush[f].read
  BY <1>1 DEF UsageStore, Unread, ReadRows
<1>8. raced' = raced \cup {k \in flush[f].read : \E g \in Flush \ {f} : k \in flush[g].read}
  BY DEF UsageStore
<1>9. ASSUME NEW k, Sound(k)'
      PROVE  /\ \A g \in Flush \ {f} : k \in flush[g].read => rows'[k] = rows[k]
             /\ buckets'[k] + rows'[k] + Held(r, k, rows'[k])
                = buckets[k] + rows[k] + Held(flush[f], k, rows[k])
             /\ buckets[k] + rows[k] + Held(flush[f], k, rows[k]) \in Nat
  <2>1. Sound(k) /\ k \in Key /\ k \notin raced'
    BY <1>2, <1>8, <1>9 DEF Sound, Kept
  <2>2. InHand(f, k) \in Nat /\ buckets[k] \in Nat /\ rows[k] \in Nat
    BY <2>1, Hands
  <2>3. InHand(f, k) = Held(flush[f], k, rows[k])
    BY DEF InHand, Held
  <2>4. r.rows[k] = 0 /\ r.read = {}
    BY <1>3, <2>1, NoUsageShape
  <2>5. Held(r, k, rows'[k]) = 0
    BY <2>4 DEF Held
  <2>6. CASE k \in flush[f].read
    <3>1. \A g \in Flush \ {f} : k \notin flush[g].read
      BY <1>8, <2>1, <2>6
    <3>2. rows'[k] = flush[f].rows[k] /\ Held(flush[f], k, rows[k]) = flush[f].rows[k] - rows[k]
      BY <1>6, <1>7, <2>1, <2>6 DEF Held
    <3>3. flush[f].rows[k] \in Nat
      BY <1>5, <2>1
    <3>4. QED
      BY <1>2, <2>2, <2>3, <2>5, <3>1, <3>2, <3>3
  <2>7. CASE k \notin flush[f].read
    <3>1. flush[f].rows[k] = 0 /\ rows'[k] = rows[k]
      BY <1>5, <1>6, <1>7, <2>1, <2>7
    <3>2. Held(flush[f], k, rows[k]) = 0
      BY <2>7, <3>1 DEF Held
    <3>3. QED
      BY <1>2, <2>2, <2>5, <3>1, <3>2
  <2>8. QED
    BY <2>6, <2>7
<1>10. r.read = {} /\ raced \subseteq raced'
  BY <1>3, <1>8
<1>11. ASSUME NEW k, Sound(k)' PROVE Moves(f, r, k)
  BY <1>9, <1>10, <1>11 DEF Moves
<1>12. QED
  BY <1>2, <1>4, <1>5, <1>6, <1>10, <1>11, FlushStep

LEMMA FailInv ==
    ASSUME UsageInv, NEW f \in Flush, UsageFails(f)
    PROVE  UsageInv'
<1>1. UsageShape /\ flush[f] \in Run
  BY DEF UsageInv, UsageShape
<1>2. /\ flush' = [flush EXCEPT ![f] = Idle] /\ UNCHANGED <<hour, rows, logged, raced>>
      /\ faults' \in Nat /\ faults' # 0
  BY <1>1 DEF UsageFails, Fault, UsageShape
<1>3. \A k \in Key : flush[f].rows[k] \in Nat /\ rows[k] \in Nat /\ buckets[k] \in Nat
  BY <1>1 DEF UsageShape, Run, Counts
<1>4. /\ buckets' \in Counts
      /\ \A k \in Key : buckets'[k] = buckets[k] + flush[f].rows[k]
  BY <1>3 DEF UsageFails, Restored, Plus, Counts
<1>5. ASSUME NEW k, Sound(k)'
      PROVE  buckets'[k] + rows'[k] + Held(Idle, k, rows'[k])
             >= buckets[k] + rows[k] + Held(flush[f], k, rows[k])
  <2>1. Sound(k) /\ k \in Key /\ rows'[k] = rows[k]
    BY <1>2, <1>5 DEF Sound, Kept
  <2>2. Held(Idle, k, rows'[k]) = 0
    BY <2>1, IdleShape DEF Held
  <2>3. Held(flush[f], k, rows[k]) \in Int /\ Held(flush[f], k, rows[k]) <= flush[f].rows[k]
    <3>1. flush[f].rows[k] \in Nat /\ rows[k] \in Nat
      BY <1>3, <2>1
    <3>2. QED
      BY <3>1 DEF Held
  <2>4. QED
    BY <1>3, <1>4, <2>1, <2>2, <2>3
<1>6. rows' \in Counts /\ Idle.read = {} /\ raced \subseteq raced'
  BY <1>1, <1>2, IdleShape DEF UsageShape
<1>7. ASSUME NEW k, Sound(k)' PROVE Moves(f, Idle, k)
  BY <1>2, <1>5, <1>6, <1>7 DEF Moves
<1>8. QED
  BY <1>2, <1>4, <1>6, <1>7, IdleShape, FlushStep

LEMMA CleanupInv ==
    ASSUME UsageInv, NEW f \in Flush, Cleanup(f)
    PROVE  UsageInv'
<1>1. UsageShape /\ EmptyHanded(flush[f])
  BY DEF UsageInv
<1>2. flush' = [flush EXCEPT ![f] = Idle] /\ UNCHANGED <<hour, buckets, logged, raced>>
  BY DEF Cleanup
<1>3. rows' \in Counts /\ \A k \in Key : Kept(k) => rows'[k] = rows[k]
  BY <1>1 DEF Cleanup, Counts, UsageShape
<1>4. faults' \in Nat /\ (faults' = 0 => faults = 0)
  BY <1>1 DEF Cleanup, Fault, UsageShape
<1>5. flush[f].rows = NoUsage /\ flush[f].read = {}
  BY <1>1 DEF EmptyHanded, Cleanup
<1>6. ASSUME NEW k, Sound(k)'
      PROVE  /\ rows'[k] = rows[k]
             /\ Held(flush[f], k, rows[k]) = 0 /\ Held(Idle, k, rows'[k]) = 0
             /\ buckets[k] + rows[k] \in Nat
  <2>1. k \in Key /\ Kept(k)
    BY <1>2, <1>6 DEF Sound, Kept
  <2>2. QED
    BY <1>1, <1>3, <1>5, <2>1, IdleShape, NoUsageShape DEF Held, UsageShape, Counts
<1>7. ASSUME NEW k, Sound(k)'
      PROVE  /\ buckets'[k] + rows'[k] + Held(Idle, k, rows'[k])
                = buckets[k] + rows[k] + Held(flush[f], k, rows[k])
             /\ buckets[k] + rows[k] + Held(flush[f], k, rows[k]) \in Nat
  BY <1>2, <1>6, <1>7
<1>8. buckets' \in Counts /\ raced \subseteq raced' /\ Idle.read = {}
  BY <1>1, <1>2, IdleShape DEF UsageShape
<1>9. ASSUME NEW k, Sound(k)' PROVE Moves(f, Idle, k)
  <2>1. buckets'[k] + rows'[k] + Held(Idle, k, rows'[k]) = buckets[k] + rows[k] + Held(flush[f], k, rows[k])
    BY <1>7, <1>9
  <2>2. QED
    BY <1>6, <1>7, <1>8, <1>9, <2>1 DEF Moves
<1>10. QED
  BY <1>2, <1>3, <1>4, <1>8, <1>9, IdleShape, FlushStep

LEMMA FlushInv ==
    ASSUME UsageInv, NEW f \in Flush, UsageSaveDB(f)
    PROVE  UsageInv'
  BY TakeInv, MergeInv, StoreInv, FailInv, CleanupInv DEF UsageSaveDB

-----------------------------------------------------------------------------
(* A request is logged, and an hour begins: no flush takes part.           *)

LEMMA LoggedInv ==
    ASSUME UsageInv, UNCHANGED <<hour, rows, flush, faults, raced>>,
           NEW target \in Target, LogUsageHourly(target)
    PROVE  UsageInv'
<1> DEFINE b == Bucket(target)
<1>1. UsageShape /\ b \in Key
  BY DEF UsageInv, UsageShape, Bucket, Key
<1>2. /\ buckets' = [buckets EXCEPT ![b] = buckets[b] + 1]
      /\ logged' = [logged EXCEPT ![b] = logged[b] + 1]
  BY DEF LogUsageHourly
<1> HIDE DEF b
<1>3. /\ buckets' \in Counts /\ logged' \in Counts
      /\ \A k \in Key \ {b} : buckets'[k] = buckets[k] /\ logged'[k] = logged[k]
      /\ buckets'[b] = buckets[b] + 1 /\ logged'[b] = logged[b] + 1
  BY <1>1, <1>2 DEF UsageShape, Counts
<1>4. UsageShape' /\ \A f \in Flush : EmptyHanded(flush'[f]) /\ ReadRows(flush'[f])
  BY <1>1, <1>3 DEF UsageInv, UsageShape
<1>5. \A k : (Sound(k)' <=> Sound(k)) /\ (Contained(k)' <=> Contained(k))
  BY DEF Sound, Kept, Contained
<1>6. ASSUME NEW k, Sound(k)'
      PROVE  /\ Sound(k) /\ logged'[k] \in Nat /\ OnTheWay(k)' \in Nat
             /\ OnTheWay(k)' + logged[k] = OnTheWay(k) + logged'[k]
             /\ OnTheWay(k) + logged'[k] \in Nat
  <2> DEFINE s == SumOver([f \in Flush |-> InHand(f, k)], Flush)
  <2>1. Sound(k) /\ k \in Key
    BY <1>5, <1>6 DEF Sound
  <2>2. OnTheWay(k) \in Nat /\ buckets[k] \in Nat /\ rows[k] \in Nat /\ logged[k] \in Nat
    BY <2>1, Hands
  <2>3. \A f \in Flush : InHand(f, k)' = InHand(f, k)
    BY DEF InHand
  <2>4. [f \in Flush |-> InHand(f, k)]' = [f \in Flush |-> InHand(f, k)]
    BY <2>3
  <2>5. OnTheWay(k) = buckets[k] + rows[k] + s /\ OnTheWay(k)' = buckets'[k] + rows[k] + s
    BY <2>4 DEF OnTheWay
  <2>6. s \in Nat
    <3>1. IsFiniteSet(Flush)
      BY KeyUsageAssumption DEF KeyUsageAssumption
    <3> DEFINE h == [f \in Flush |-> InHand(f, k)]
    <3>2. \A f \in Flush : h[f] \in Nat
      BY <2>1, Hands
    <3> HIDE DEF h
    <3>3. SumOver(h, Flush) \in Nat
      BY <3>1, <3>2, MinuteNat
    <3>4. QED
      BY <3>3 DEF h
  <2> HIDE DEF s
  <2>7. CASE k = b
    BY <1>3, <2>1, <2>2, <2>5, <2>6, <2>7
  <2>8. CASE k # b
    <3>1. buckets'[k] = buckets[k] /\ logged'[k] = logged[k]
      BY <1>3, <2>1, <2>8
    <3>2. QED
      BY <2>1, <2>2, <2>5, <2>6, <3>1
  <2>9. QED
    BY <2>7, <2>8
<1>7. UsageKept'
  <2>1. faults' = faults
    OBVIOUS
  <2>2. \A k : Sound(k)' => OnTheWay(k)' + logged[k] >= OnTheWay(k) + logged'[k]
    BY <1>6
  <2>3. QED
    BY <1>6, <2>1, <2>2, KeptByStep
<1>8. QED
  BY <1>4, <1>5, <1>7 DEF UsageInv

LEMMA NextHourInv ==
    ASSUME UsageInv, NextHour
    PROVE  UsageInv'
<1>1. UsageShape /\ UsageShape'
  BY KeyUsageAssumption DEF UsageInv, UsageShape, NextHour, KeyUsageAssumption
<1>2. UNCHANGED <<buckets, rows, logged, flush, faults, raced>> /\ hour' = hour + 1
  BY DEF NextHour
<1>3. ASSUME NEW k, Sound(k)' PROVE Sound(k)
  <2>1. k \in Key /\ k \notin raced /\ Kept(k)'
    BY <1>2, <1>3 DEF Sound
  <2>2. k[1] \in Int /\ hour \in Int /\ Retention \in Int
    BY <1>1, <2>1, KeyUsageAssumption DEF Key, UsageShape, KeyUsageAssumption
  <2>3. Kept(k)
    BY <1>2, <2>1, <2>2 DEF Kept
  <2>4. QED
    BY <2>1, <2>3 DEF Sound
<1>4. \A k : (OnTheWay(k)' = OnTheWay(k)) /\ (Contained(k)' <=> Contained(k))
  BY <1>2 DEF OnTheWay, InHand, Contained
<1>5. \A k : Sound(k) => OnTheWay(k) \in Nat /\ logged[k] \in Nat
  BY Hands
<1>6. UsageKept'
  <2>1. \A k : Sound(k)' => /\ logged'[k] \in Nat /\ OnTheWay(k)' \in Nat
                            /\ OnTheWay(k)' + logged[k] = OnTheWay(k) + logged'[k]
                            /\ OnTheWay(k)' + logged[k] >= OnTheWay(k) + logged'[k]
    BY <1>2, <1>3, <1>4, <1>5
  <2>2. QED
    BY <1>2, <1>3, <2>1, KeptByStep
<1>7. \A f \in Flush : EmptyHanded(flush'[f]) /\ ReadRows(flush'[f])
  BY <1>2 DEF UsageInv
<1>8. \A k : Sound(k)' => Contained(k)'
  BY <1>3, <1>4 DEF UsageInv
<1>9. QED
  BY <1>1, <1>6, <1>7, <1>8 DEF UsageInv

LEMMA NextInv ==
    ASSUME UsageInv, [KeyNext]_keyVars
    PROVE  UsageInv'
<1>1. ASSUME NEW c \in Client, Proceed(c) PROVE UsageInv'
  <2>1. CASE AllowKeyRPM(c) \/ AllowKeyTPM(c) \/ NoLimit(c) \/ Leave(c)
    BY <2>1, SameUsage DEF AllowKeyRPM, AllowKeyTPM, NoLimit, Leave
  <2>2. CASE Finish(c)
    <3>1. CASE UNCHANGED <<buckets, logged>>
      BY <2>2, <3>1, SameUsage DEF Finish, usageVars
    <3>2. CASE \E target \in Target : LogUsageHourly(target)
      BY <2>2, <3>2, LoggedInv DEF Finish
    <3>3. QED
      BY <2>2, <3>1, <3>2 DEF Finish
  <2>3. QED
    BY <1>1, <2>1, <2>2 DEF Proceed
<1>2. CASE Tick \/ UNCHANGED keyVars
  BY <1>2, SameUsage DEF Tick, keyVars
<1>3. QED
  BY <1>1, <1>2, NextHourInv, RestartInv, FlushInv DEF KeyNext

(* The argument's invariant. *)
THEOREM UsageInvariant == KeySpec => []UsageInv
<1>1. KeyInit => UsageInv
  BY InitInv
<1>2. UsageInv /\ [KeyNext]_keyVars => UsageInv'
  BY NextInv
<1>3. QED
  BY <1>1, <1>2, PTL DEF KeySpec

(* As long as the process runs no request is lost between LogUsageHourly   *)
(* and the usage_hourly table (UsageSaveDB in internal/op/usage.go),       *)
(* whichever statement fails and however many flushes are under way, and   *)
(* none is counted twice as long as none fails - but for the rows that two *)
(* flushes have read before either wrote them, where nothing is promised.  *)
THEOREM UsageIsKept == KeySpec => []UsageKept
<1>1. UsageInv => UsageKept
  BY DEF UsageInv
<1>2. QED
  BY <1>1, UsageInvariant, PTL

-----------------------------------------------------------------------------
(* The limits by the minute.  A window forgets stamps by the reading of    *)
(* whoever comes, but only those that are a minute old for every reading:  *)
(* up to that age it has what has passed, or was charged.                  *)

Stamps == [Age -> Nat]
SameUpToAMinute(w, v) == \A a \in Age : a < Span => w[a] = v[a]
Minute(from) == from..(from + Span - MaxStall - 1)

RateInv ==
    /\ limit \in [rpm : Nat, tpm : Nat]
    /\ requests \in Stamps /\ passed \in Stamps /\ SameUpToAMinute(requests, passed)
    /\ limit.rpm > 0 => \A from \in 0..(2 * MaxStall) : SumOver(passed, Minute(from)) <= limit.rpm

(* The tokens of a minute are counted with what those who are inside may   *)
(* still charge to it, as long as a reading may be late enough to do so.   *)
Inside == {c \in Client : at[c] \in {"inside", "finished"}}
Largest == Max(Tokens \cup {1})
Outstanding(from) == IF from <= MaxStall THEN Cardinality(Inside) * Largest ELSE 0

TokenInv ==
    /\ limit \in [rpm : Nat, tpm : Nat]
    /\ at \in [Client -> {"out", "counted", "inside", "finished", "charged"}]
    /\ tokens \in Stamps /\ charged \in Stamps /\ SameUpToAMinute(tokens, charged)
    /\ limit.tpm > 0 => \A from \in 0..(2 * MaxStall) :
          SumOver(charged, Minute(from)) + Outstanding(from)
              < limit.tpm + Cardinality(Client) * Largest

LEMMA WindowSets ==
    /\ IsFiniteSet(Age) /\ Age \subseteq Nat
    /\ \A from \in 0..(2 * MaxStall) :
          Minute(from) \subseteq Age /\ IsFiniteSet(Minute(from))
    /\ \A from \in 0..MaxStall : \A a \in Minute(from) : a < Span
    /\ 0..MaxStall \subseteq Age
    /\ \A from \in 0..(2 * MaxStall) : from > MaxStall => Minute(from) \cap 0..MaxStall = {}
<1>1. Span \in Nat \ {0} /\ MaxStall \in Nat /\ MaxStall < Span
  BY KeyUsageAssumption DEF KeyUsageAssumption
<1>2. IsFiniteSet(Age)
  BY <1>1, FS_Interval DEF Age
<1>3. \A from \in 0..(2 * MaxStall) : Minute(from) \subseteq Age
  BY <1>1 DEF Minute, Age
<1>4. \A from \in 0..(2 * MaxStall) : IsFiniteSet(Minute(from))
  BY <1>2, <1>3, FS_Subset
<1>5. QED
  BY <1>1, <1>2, <1>3, <1>4 DEF Minute, Age

LEMMA StampsOf ==
    ASSUME NEW w \in Stamps, NEW from \in 0..(2 * MaxStall)
    PROVE  SumOver(w, Minute(from)) \in Nat
<1>1. IsFiniteSet(Minute(from)) /\ \A a \in Minute(from) : w[a] \in Nat
  BY WindowSets DEF Stamps
<1>2. QED
  BY <1>1, MinuteNat

(* A tick: a minute has what the one before it had, the minute that begins *)
(* has less than the one that began a tick ago.                            *)
LEMMA OlderMinutes ==
    ASSUME NEW w \in Stamps, NEW from \in 0..(2 * MaxStall)
    PROVE  /\ from > 0 => SumOver(Older(w), Minute(from)) = SumOver(w, Minute(from - 1))
           /\ SumOver(Older(w), Minute(0)) <= SumOver(w, Minute(0))
<1>1. Span \in Nat \ {0} /\ MaxStall \in Nat /\ MaxStall < Span
  BY KeyUsageAssumption DEF KeyUsageAssumption
<1>2. Age \subseteq Nat /\ \A a \in Age : a + 1 \in Age => w[a] \in Nat /\ Older(w)[a + 1] = w[a]
  BY <1>1 DEF Stamps, Older, Age
<1>3. ASSUME NEW i \in Nat, NEW j \in Int, i..j \subseteq Age, (i + 1)..(j + 1) \subseteq Age
      PROVE  SumOver(Older(w), (i + 1)..(j + 1)) = SumOver(w, i..j)
  <2>1. IsFiniteSet(i..j) /\ IsFiniteSet((i + 1)..(j + 1))
    <3>1. i \in Int /\ i + 1 \in Int /\ j \in Int /\ j + 1 \in Int
      OBVIOUS
    <3>2. QED
      BY <3>1, FS_Interval
  <2>2. Later(i..j) = (i + 1)..(j + 1)
    <3>1. \A y \in (i + 1)..(j + 1) : y - 1 \in i..j /\ y = (y - 1) + 1
      BY <1>3
    <3>2. \A x \in i..j : x + 1 \in (i + 1)..(j + 1)
      BY <1>3
    <3>3. QED
      BY <3>1, <3>2 DEF Later
  <2>3. Aged(w, Older(w), i..j)
    <3>1. \A x \in i..j : x \in Age /\ x + 1 \in Age /\ x \in Nat
      BY <1>3
    <3>2. QED
      BY <1>2, <3>1 DEF Aged
  <2>4. QED
    BY <2>1, <2>2, <2>3, MinuteOlder
<1>4. ASSUME from > 0 PROVE SumOver(Older(w), Minute(from)) = SumOver(w, Minute(from - 1))
  <2> DEFINE i == from - 1
             j == from + Span - MaxStall - 2
  <2>1. i \in Nat /\ j \in Int /\ i \in 0..(2 * MaxStall)
    BY <1>1, <1>4
  <2>2. Minute(i) = i..j /\ Minute(from) = (i + 1)..(j + 1)
    BY <1>1, <1>4 DEF Minute
  <2>3. i..j \subseteq Age /\ (i + 1)..(j + 1) \subseteq Age
    BY <2>1, <2>2, WindowSets
  <2>4. SumOver(Older(w), (i + 1)..(j + 1)) = SumOver(w, i..j)
    BY <1>3, <2>1, <2>3
  <2>5. SumOver(Older(w), Minute(from)) = SumOver(w, Minute(i))
    <3> HIDE DEF i, j
    <3>1. QED
      BY <2>2, <2>4
  <2>6. QED
    BY <1>1, <2>5
<1>5. SumOver(Older(w), Minute(0)) <= SumOver(w, Minute(0))
  <2> DEFINE j == Span - MaxStall - 2
  <2>1. j \in Int /\ 0 \in 0..(2 * MaxStall) /\ 0 \in Minute(0)
    BY <1>1 DEF Minute
  <2>2. Minute(0) \ {0} = (0 + 1)..(j + 1) /\ 0..j \subseteq Minute(0)
    BY <1>1 DEF Minute
  <2>3. /\ IsFiniteSet(Minute(0)) /\ Minute(0) \subseteq Age
        /\ 0..j \subseteq Age /\ (0 + 1)..(j + 1) \subseteq Age
    <3>1. IsFiniteSet(Minute(0)) /\ Minute(0) \subseteq Age
      BY <2>1, WindowSets
    <3> HIDE DEF j
    <3>2. QED
      BY <2>2, <3>1
  <2> HIDE DEF j
  <2>4. SumOver(Older(w), (0 + 1)..(j + 1)) = SumOver(w, 0..j)
    BY <1>3, <2>1, <2>3
  <2>5. Older(w)[0] = 0 /\ \A a \in Minute(0) : Older(w)[a] \in Nat /\ w[a] \in Nat
    BY <1>1, <2>3 DEF Older, Stamps, Age
  <2>6. SumOver(Older(w), Minute(0)) = Older(w)[0] + SumOver(Older(w), Minute(0) \ {0})
    BY <2>1, <2>3, <2>5, MinuteElement
  <2>7. SumOver(w, 0..j) <= SumOver(w, Minute(0))
    BY <2>2, <2>3, <2>5, MinutePart
  <2>8. SumOver(w, 0..j) \in Nat
    <3>1. IsFiniteSet(0..j) /\ \A a \in 0..j : w[a] \in Nat
      BY <2>2, <2>3, <2>5, FS_Subset
    <3>2. QED
      BY <3>1, MinuteNat
  <2>9. SumOver(Older(w), Minute(0) \ {0}) = SumOver(w, 0..j)
    BY <2>2, <2>4
  <2>10. QED
    BY <2>5, <2>6, <2>7, <2>8, <2>9
<1>6. QED
  BY <1>4, <1>5

LEMMA OlderStamps ==
    ASSUME NEW w \in Stamps, NEW v \in Stamps, SameUpToAMinute(w, v)
    PROVE  /\ Older(w) \in Stamps /\ Older(v) \in Stamps
           /\ SameUpToAMinute(Older(w), Older(v))
<1>1. Span \in Nat \ {0} /\ MaxStall \in Nat /\ MaxStall < Span
  BY KeyUsageAssumption DEF KeyUsageAssumption
<1>2. \A a \in Age : a = 0 \/ a - 1 \in Age
  BY <1>1 DEF Age
<1>3. Older(w) \in Stamps /\ Older(v) \in Stamps
  BY <1>2 DEF Older, Stamps
<1>4. ASSUME NEW a \in Age, a < Span PROVE Older(w)[a] = Older(v)[a]
  <2>1. a \in Nat
    BY <1>1 DEF Age
  <2>2. a = 0 \/ (a - 1 \in Age /\ a - 1 < Span)
    BY <1>1, <1>2, <1>4, <2>1
  <2>3. QED
    BY <2>2 DEF Older, SameUpToAMinute
<1>5. QED
  BY <1>3, <1>4 DEF SameUpToAMinute

(* A reading and a stamp leave a window right up to a minute. *)
LEMMA RecentStamps ==
    ASSUME NEW w \in Stamps, NEW v \in Stamps, SameUpToAMinute(w, v), NEW late \in 0..MaxStall
    PROVE  /\ Recent(w, late) \in Stamps
           /\ SameUpToAMinute(Recent(w, late), v)
<1>1. Span \in Nat \ {0} /\ MaxStall \in Nat /\ late \in Nat /\ \A a \in Age : a \in Nat
  BY KeyUsageAssumption, WindowSets DEF KeyUsageAssumption
<1>2. Recent(w, late) \in Stamps
  BY DEF Recent, Stamps
<1>3. \A a \in Age : a < Span => Recent(w, late)[a] = w[a]
  BY <1>1 DEF Recent
<1>4. QED
  BY <1>2, <1>3 DEF SameUpToAMinute

LEMMA StampedStamps ==
    ASSUME NEW w \in Stamps, NEW v \in Stamps, SameUpToAMinute(w, v), NEW late \in 0..MaxStall,
           NEW n \in Nat
    PROVE  /\ Stamped(w, late, n) \in Stamps /\ [v EXCEPT ![late] = @ + n] \in Stamps
           /\ SameUpToAMinute(Stamped(w, late, n), [v EXCEPT ![late] = @ + n])
<1> DEFINE u == Recent(w, late)
<1>1. u \in Stamps /\ SameUpToAMinute(u, v) /\ late \in Age
  BY RecentStamps, WindowSets
<1>2. Stamped(w, late, n) = [u EXCEPT ![late] = @ + n]
  BY DEF Stamped
<1> HIDE DEF u
<1>3. /\ [u EXCEPT ![late] = @ + n] \in Stamps /\ [v EXCEPT ![late] = @ + n] \in Stamps
      /\ [u EXCEPT ![late] = @ + n][late] = u[late] + n
      /\ [v EXCEPT ![late] = @ + n][late] = v[late] + n
      /\ \A a \in Age \ {late} : /\ [u EXCEPT ![late] = @ + n][a] = u[a]
                                 /\ [v EXCEPT ![late] = @ + n][a] = v[a]
  BY <1>1 DEF Stamps
<1>4. QED
  BY <1>1, <1>2, <1>3 DEF SameUpToAMinute

(* What a stamp does to a minute. *)
LEMMA StampedMinute ==
    ASSUME NEW v \in Stamps, NEW late \in 0..MaxStall, NEW n \in Nat, NEW from \in 0..(2 * MaxStall)
    PROVE  LET u == [v EXCEPT ![late] = @ + n] IN
           /\ SumOver(u, Minute(from)) <= SumOver(v, Minute(from)) + n
           /\ from > MaxStall => SumOver(u, Minute(from)) = SumOver(v, Minute(from))
<1> DEFINE u == [v EXCEPT ![late] = @ + n]
<1>1. late \in Age /\ IsFiniteSet(Minute(from)) /\ Minute(from) \subseteq Age
  BY WindowSets
<1>2. u[late] = v[late] + n /\ \A a \in Age \ {late} : u[a] = v[a]
  BY <1>1 DEF Stamps
<1> HIDE DEF u
<1>3. SumOver(v, Minute(from)) \in Nat /\ \A a \in Minute(from) : v[a] \in Nat
  BY <1>1, StampsOf DEF Stamps
<1>4. CASE late \in Minute(from)
  <2>1. SumOver(u, Minute(from)) + v[late] = SumOver(v, Minute(from)) + u[late]
    <3>1. \A a \in Minute(from) \ {late} : u[a] = v[a]
      BY <1>1, <1>2
    <3>2. \A a \in Minute(from) : v[a] \in Nat /\ u[a] \in Nat
      BY <1>2, <1>3, <3>1
    <3> DEFINE S == Minute(from)
               y == late
    <3>3. /\ IsFiniteSet(S) /\ \A x \in S : v[x] \in Nat /\ u[x] \in Nat
          /\ y \in S /\ \A x \in S \ {y} : u[x] = v[x]
      BY <1>1, <1>4, <3>1, <3>2
    <3> HIDE DEF u, S, y
    <3>4. SumOver(u, S) + v[y] = SumOver(v, S) + u[y]
      BY <3>3, MinuteStamp
    <3>5. QED
      BY <3>4 DEF S, y
  <2>2. ~ (from > MaxStall)
    BY <1>4, WindowSets
  <2>3. IsFiniteSet(Minute(from)) /\ \A a \in Minute(from) : u[a] \in Nat
    <3>1. \A a \in Minute(from) \ {late} : u[a] = v[a]
      BY <1>1, <1>2
    <3>2. QED
      BY <1>1, <1>2, <1>3, <3>1
  <2>4. SumOver(u, Minute(from)) \in Nat
    BY <2>3, MinuteNat
  <2>5. QED
    BY <1>2, <1>3, <1>4, <2>1, <2>2, <2>4 DEF u
<1>5. CASE late \notin Minute(from)
  <2>1. \A a \in Minute(from) : u[a] = v[a]
    BY <1>1, <1>2, <1>5
  <2>2. SumOver(u, Minute(from)) = SumOver(v, Minute(from))
    BY <1>1, <2>1, MinuteSame
  <2>3. QED
    BY <1>3, <2>2 DEF u
<1>6. QED
  BY <1>4, <1>5

(* What a reading finds covers every minute that it can be stamped in. *)
LEMMA ReadingCovers ==
    ASSUME NEW w \in Stamps, NEW v \in Stamps, SameUpToAMinute(w, v), NEW late \in 0..MaxStall,
           NEW from \in 0..MaxStall
    PROVE  /\ SumOver(v, Minute(from)) <= Sum(Recent(w, late))
           /\ Sum(Recent(w, late)) \in Nat
<1> DEFINE u == Recent(w, late)
<1>0. from \in 0..(2 * MaxStall)
  BY KeyUsageAssumption DEF KeyUsageAssumption
<1>1. u \in Stamps /\ SameUpToAMinute(u, v)
  BY RecentStamps
<1>2. /\ IsFiniteSet(Age) /\ IsFiniteSet(Minute(from)) /\ Minute(from) \subseteq Age
      /\ \A a \in Minute(from) : a < Span
  BY <1>0, WindowSets
<1> HIDE DEF u
<1>3. \A a \in Minute(from) : u[a] = v[a]
  BY <1>1, <1>2 DEF SameUpToAMinute
<1>4. SumOver(u, Minute(from)) = SumOver(v, Minute(from))
  BY <1>2, <1>3, MinuteSame
<1>5. \A a \in Age : u[a] \in Nat
  BY <1>1 DEF Stamps
<1>6. SumOver(u, Minute(from)) <= SumOver(u, Age) /\ SumOver(u, Age) \in Nat
  BY <1>2, <1>5, MinutePart, MinuteNat
<1>7. Sum(u) = SumOver(u, Age)
  BY DEF Sum
<1>8. QED
  BY <1>4, <1>6, <1>7 DEF u

LEMMA EmptyStamps ==
    /\ Empty \in Stamps /\ SameUpToAMinute(Empty, Empty)
    /\ \A from \in 0..(2 * MaxStall) : SumOver(Empty, Minute(from)) = 0
<1>1. Empty \in Stamps /\ SameUpToAMinute(Empty, Empty)
  BY DEF Empty, Stamps, SameUpToAMinute
<1>2. ASSUME NEW from \in 0..(2 * MaxStall) PROVE SumOver(Empty, Minute(from)) = 0
  <2>1. IsFiniteSet(Minute(from)) /\ \A a \in Minute(from) : Empty[a] = 0
    BY WindowSets DEF Empty
  <2>2. QED
    BY <2>1, MinuteZero
<1>3. QED
  BY <1>1, <1>2

LEMMA RateInit == KeyInit => RateInv
<1>1. KeyInit => limit \in [rpm : Nat, tpm : Nat] /\ requests = Empty /\ passed = Empty
  BY KeyUsageAssumption DEF KeyInit, KeyUsageAssumption
<1>2. QED
  BY <1>1, EmptyStamps DEF RateInv

LEMMA RateStep ==
    ASSUME RateInv, [KeyNext]_keyVars
    PROVE  RateInv'
<1>0. MaxStall \in Nat
  BY KeyUsageAssumption DEF KeyUsageAssumption
<1>1. CASE UNCHANGED <<limit, requests, passed>>
  BY <1>1 DEF RateInv
<1>2. ASSUME NEW c \in Client, AllowKeyRPM(c) PROVE RateInv'
  <2>1. PICK late \in 0..MaxStall :
          IF Within(requests, late)
          THEN requests' = Stamped(requests, late, 1) /\ passed' = [passed EXCEPT ![late] = @ + 1]
          ELSE requests' = Refused(requests, late) /\ UNCHANGED passed
    BY <1>2 DEF AllowKeyRPM
  <2>2. limit' = limit /\ limit.rpm \in Nat
    BY <1>2 DEF AllowKeyRPM, RateInv
  <2>3. CASE Within(requests, late)
    <3>1. Sum(Recent(requests, late)) + 1 <= limit.rpm
      BY <2>3 DEF Within
    <3>2. requests' \in Stamps /\ passed' \in Stamps /\ SameUpToAMinute(requests', passed')
      BY <2>1, <2>3, StampedStamps DEF RateInv
    <3>3. ASSUME NEW from \in 0..(2 * MaxStall), limit.rpm > 0
          PROVE  SumOver(passed', Minute(from)) <= limit.rpm
      <4>1. SumOver(passed, Minute(from)) <= limit.rpm /\ SumOver(passed, Minute(from)) \in Nat
        BY <3>3, StampsOf DEF RateInv
      <4>2. /\ SumOver(passed', Minute(from)) <= SumOver(passed, Minute(from)) + 1
            /\ from > MaxStall => SumOver(passed', Minute(from)) = SumOver(passed, Minute(from))
        BY <2>1, <2>3, StampedMinute DEF RateInv
      <4>3. SumOver(passed', Minute(from)) \in Nat
        BY <3>2, StampsOf
      <4>4. CASE from > MaxStall
        BY <4>1, <4>2, <4>4
      <4>5. CASE from \in 0..MaxStall
        <5>1. /\ SumOver(passed, Minute(from)) <= Sum(Recent(requests, late))
              /\ Sum(Recent(requests, late)) \in Nat
          BY <4>5, ReadingCovers DEF RateInv
        <5>2. QED
          BY <2>2, <3>1, <4>1, <4>2, <4>3, <5>1
      <4>6. QED
        BY <1>0, <4>4, <4>5
    <3>4. QED
      BY <2>2, <3>2, <3>3 DEF RateInv
  <2>4. CASE ~ Within(requests, late)
    <3>1. requests' \in Stamps /\ SameUpToAMinute(requests', passed) /\ passed' = passed
      BY <2>1, <2>4, RecentStamps DEF RateInv, Refused
    <3>2. QED
      BY <2>2, <3>1 DEF RateInv
  <2>5. QED
    BY <2>3, <2>4
<1>3. CASE Tick
  <2>1. requests' = Older(requests) /\ passed' = Older(passed) /\ limit' = limit /\ limit.rpm \in Nat
    BY <1>3 DEF Tick, RateInv
  <2>2. requests' \in Stamps /\ passed' \in Stamps /\ SameUpToAMinute(requests', passed')
    BY <2>1, OlderStamps DEF RateInv
  <2>3. ASSUME NEW from \in 0..(2 * MaxStall), limit.rpm > 0
        PROVE  SumOver(passed', Minute(from)) <= limit.rpm
    <3>1. SumOver(passed', Minute(from)) \in Nat
      BY <2>2, StampsOf
    <3>2. CASE from = 0
      <4>1. SumOver(passed', Minute(0)) <= SumOver(passed, Minute(0))
        BY <2>1, <3>2, OlderMinutes DEF RateInv
      <4>2. SumOver(passed, Minute(0)) <= limit.rpm /\ SumOver(passed, Minute(0)) \in Nat
        BY <2>3, <3>2, StampsOf DEF RateInv
      <4>3. QED
        BY <2>1, <3>1, <3>2, <4>1, <4>2
    <3>3. CASE from > 0
      <4>1. from - 1 \in 0..(2 * MaxStall)
        BY <1>0, <3>3
      <4>2. SumOver(passed', Minute(from)) = SumOver(passed, Minute(from - 1))
        BY <2>1, <3>3, OlderMinutes DEF RateInv
      <4>3. QED
        BY <2>3, <4>1, <4>2 DEF RateInv
    <3>4. QED
      BY <1>0, <3>2, <3>3
  <2>4. QED
    BY <2>1, <2>2, <2>3 DEF RateInv
<1>4. QED
  <2>1. ASSUME NEW c \in Client, Proceed(c) PROVE RateInv'
    BY <1>1, <1>2, <2>1 DEF Proceed, AllowKeyTPM, NoLimit, Finish, Leave, limitVars
  <2>2. CASE NextHour \/ (\E f \in Flush : UsageSaveDB(f)) \/ UNCHANGED keyVars
    BY <1>1, <2>2 DEF NextHour, UsageSaveDB, UsageTake, MergeUsageRow, UsageStore, UsageFails,
       Cleanup, limitVars, keyVars
  <2>3. CASE Restart
    <3>1. limit' = limit /\ requests' = Empty /\ passed' = Empty /\ limit.rpm \in Nat
      BY <2>3 DEF Restart, RateInv
    <3>2. QED
      BY <3>1, EmptyStamps DEF RateInv
  <2>4. QED
    BY <1>3, <2>1, <2>2, <2>3 DEF KeyNext

LEMMA MinutesByStart == Minutes = {Minute(from) : from \in 0..(2 * MaxStall)}
  BY DEF Minutes, Minute

(* No minute, less the stall, passes more requests of a key than its limit *)
(* (AllowKeyRPM and allowRate in internal/op/ratelimit.go), however many   *)
(* clients it has and in whatever order their readings of the clock arrive *)
(* at the lock.                                                            *)
THEOREM RateIsKept == KeySpec => []RateKept
<1>1. RateInv => RateKept
  BY MinutesByStart DEF RateInv, RateKept
<1>2. QED
  BY <1>1, RateInit, RateStep, PTL DEF KeySpec

-----------------------------------------------------------------------------
(* The largest number of a finite set of numbers. *)
LEMMA LargestIs ==
    /\ Largest \in Nat /\ 1 <= Largest
    /\ \A n \in Tokens : n <= Largest
<1> DEFINE S == Tokens \cup {1}
           HasMax(T) == \E m \in T : \A y \in T : m >= y
           C == {T \in SUBSET S : T # {} /\ ~ HasMax(T)}
<1>1. IsFiniteSet(S) /\ S \subseteq Nat /\ S # {}
  BY KeyUsageAssumption, FS_AddElement DEF KeyUsageAssumption
<1> HIDE DEF S
<1>2. HasMax(S)
  <2>1. SUFFICES ASSUME C # {} PROVE FALSE
    <3>1. S \in SUBSET S
      OBVIOUS
    <3> HIDE DEF HasMax
    <3>2. QED
      BY <1>1, <2>1, <3>1
  <2>2. PICK T \in C : \A U \in C : U \subseteq T => U = T
    <3>1. C \subseteq SUBSET S
      OBVIOUS
    <3>2. IsFiniteSet(S)
      BY <1>1
    <3> HIDE DEF C
    <3>3. QED
      BY <2>1, <3>1, <3>2, Smallest
  <2>3. T \subseteq S /\ T # {} /\ ~ HasMax(T)
    BY <2>2
  <2>4. PICK x \in T : TRUE
    BY <2>3
  <2> DEFINE U == T \ {x}
  <2>5. U \in SUBSET S /\ U \subseteq T /\ U # T
    BY <2>3
  <2>6. U \notin C
    <3> HIDE DEF C
    <3>1. QED
      BY <2>2, <2>5
  <2>7. U = {} \/ HasMax(U)
    <3> HIDE DEF HasMax, U
    <3>1. QED
      BY <2>5, <2>6
  <2>8. T \subseteq Nat
    BY <1>1, <2>3
  <2>9. CASE U = {}
    <3>1. \A y \in T : x >= y
      BY <2>8, <2>9
    <3>2. QED
      BY <2>3, <3>1
  <2>10. CASE HasMax(U)
    <3>1. PICK m \in U : \A y \in U : m >= y
      BY <2>10
    <3>2. m \in Nat /\ x \in Nat
      BY <2>8
    <3>3. CASE m >= x
      <4>1. \A y \in T : m >= y
        BY <3>1, <3>3
      <4>2. QED
        BY <2>3, <4>1
    <3>4. CASE x >= m
      <4>1. \A y \in T : x >= y
        BY <2>8, <3>1, <3>2, <3>4
      <4>2. QED
        BY <2>3, <4>1
    <3>5. QED
      BY <3>2, <3>3, <3>4
  <2>11. QED
    BY <2>7, <2>9, <2>10
<1>3. Largest \in S /\ \A y \in S : Largest >= y
  <2>1. Largest = CHOOSE m \in S : \A y \in S : m >= y
    BY DEF Largest, Max, S
  <2>2. QED
    BY <1>2, <2>1
<1>4. 1 \in S /\ Tokens \subseteq S
  BY DEF S
<1>5. QED
  BY <1>1, <1>3, <1>4

LEMMA InsideCount ==
    /\ IsFiniteSet(Inside) /\ Cardinality(Inside) \in Nat /\ Cardinality(Client) \in Nat
    /\ Cardinality(Inside) <= Cardinality(Client)
<1>1. IsFiniteSet(Client) /\ Inside \in SUBSET Client
  BY KeyUsageAssumption DEF KeyUsageAssumption, Inside
<1>2. QED
  BY <1>1, FS_Subset, FS_CardinalityType

(* Who goes in, comes out, or moves on. *)
LEMMA InsideMoves ==
    ASSUME NEW c \in Client, NEW place, NEW P, at \in [Client -> P], at' = [at EXCEPT ![c] = place]
    PROVE  Inside' = IF place \in {"inside", "finished"} THEN Inside \cup {c} ELSE Inside \ {c}
<1>1. at'[c] = place /\ \A d \in Client \ {c} : at'[d] = at[d]
  OBVIOUS
<1>2. QED
  BY <1>1 DEF Inside

(* What may still be charged changes by one request's at most. *)
LEMMA OutstandingMoves ==
    ASSUME NEW c \in Client, NEW place, NEW P, at \in [Client -> P], at' = [at EXCEPT ![c] = place]
    PROVE  LET K == Cardinality(Inside) IN
           /\ Cardinality(Inside)' \in Nat
           /\ place \in {"inside", "finished"} =>
                 Cardinality(Inside)' = IF c \in Inside THEN K ELSE K + 1
           /\ place \notin {"inside", "finished"} =>
                 Cardinality(Inside)' = IF c \in Inside THEN K - 1 ELSE K
<1>1. IsFiniteSet(Inside)
  BY InsideCount
<1>2. Cardinality(Inside)' = Cardinality(Inside')
  OBVIOUS
<1>3. CASE place \in {"inside", "finished"}
  <2>1. Inside' = Inside \cup {c}
    BY <1>3, InsideMoves
  <2>2. Cardinality(Inside \cup {c})
        = IF c \in Inside THEN Cardinality(Inside) ELSE Cardinality(Inside) + 1
    BY <1>1, FS_AddElement
  <2>3. QED
    BY <1>2, <1>3, <2>1, <2>2, InsideCount
<1>4. CASE place \notin {"inside", "finished"}
  <2>1. Inside' = Inside \ {c}
    BY <1>4, InsideMoves
  <2>2. Cardinality(Inside \ {c})
        = IF c \in Inside THEN Cardinality(Inside) - 1 ELSE Cardinality(Inside)
    BY <1>1, FS_RemoveElement
  <2>3. IsFiniteSet(Inside \ {c})
    BY <1>1, FS_RemoveElement
  <2>4. Cardinality(Inside \ {c}) \in Nat
    BY <2>3, FS_CardinalityType
  <2>5. QED
    BY <1>2, <1>4, <2>1, <2>2, <2>4
<1>5. QED
  BY <1>3, <1>4

LEMMA TokenInit == KeyInit => TokenInv
<1> SUFFICES ASSUME KeyInit PROVE TokenInv
  OBVIOUS
<1>1. limit \in [rpm : Nat, tpm : Nat] /\ tokens = Empty /\ charged = Empty
  BY KeyUsageAssumption DEF KeyInit, KeyUsageAssumption
<1>2. at = [c \in Client |-> "out"] /\ Inside = {}
  BY DEF KeyInit, Inside
<1>3. Cardinality(Inside) = 0
  BY <1>2, FS_EmptySet
<1>4. Cardinality(Client) * Largest \in Nat /\ 0 * Largest = 0
  BY InsideCount, LargestIs
<1>5. \A from \in 0..(2 * MaxStall) : Outstanding(from) = 0
  BY <1>3, <1>4 DEF Outstanding
<1>6. QED
  BY <1>1, <1>2, <1>4, <1>5, EmptyStamps DEF TokenInv

(* The argument for one step: what is charged to a minute, with what is    *)
(* outstanding for it, does not grow, or the step is an admission that     *)
(* found the minute below the limit.                                       *)
LEMMA BoundKept ==
    ASSUME TokenInv, limit' = limit, tokens' \in Stamps, charged' \in Stamps,
           SameUpToAMinute(tokens', charged'),
           at' \in [Client -> {"out", "counted", "inside", "finished", "charged"}],
           limit.tpm > 0 => \A from \in 0..(2 * MaxStall) :
              SumOver(charged', Minute(from)) + Outstanding(from)'
                  <= SumOver(charged, Minute(from)) + Outstanding(from)
    PROVE  TokenInv'
<1>1. ASSUME NEW from \in 0..(2 * MaxStall), limit.tpm > 0
      PROVE  SumOver(charged', Minute(from)) + Outstanding(from)'
                 < limit.tpm + Cardinality(Client) * Largest
  <2>1. SumOver(charged, Minute(from)) \in Nat /\ SumOver(charged', Minute(from)) \in Nat
    BY StampsOf DEF TokenInv
  <2>2. Outstanding(from) \in Nat /\ Cardinality(Client) * Largest \in Nat
    BY InsideCount, LargestIs DEF Outstanding
  <2>3. Outstanding(from)' \in Nat
    <3>1. Cardinality(Inside)' \in Nat
      <4>1. IsFiniteSet(Client) /\ Inside' \in SUBSET Client
        BY KeyUsageAssumption DEF KeyUsageAssumption, Inside
      <4>2. QED
        BY <4>1, FS_Subset, FS_CardinalityType
    <3>2. QED
      BY <3>1, LargestIs DEF Outstanding
  <2>4. limit.tpm \in Nat
    BY DEF TokenInv
  <2>5. SumOver(charged, Minute(from)) + Outstanding(from)
            < limit.tpm + Cardinality(Client) * Largest
    BY <1>1 DEF TokenInv
  <2>6. SumOver(charged', Minute(from)) + Outstanding(from)'
            <= SumOver(charged, Minute(from)) + Outstanding(from)
    BY <1>1
  <2> DEFINE a == SumOver(charged, Minute(from))
             b == SumOver(charged', Minute(from))
             o == Outstanding(from)
             p == Outstanding(from)'
             m == Cardinality(Client) * Largest
  <2>7. a \in Nat /\ b \in Nat /\ o \in Nat /\ p \in Nat /\ m \in Nat
        /\ a + o < limit.tpm + m /\ b + p <= a + o
    BY <2>1, <2>2, <2>3, <2>5, <2>6
  <2> HIDE DEF a, b, o, p, m
  <2>8. b + p < limit.tpm + m
    BY <2>4, <2>7
  <2>9. QED
    BY <2>8 DEF a, b, o, p, m
<1>2. QED
  BY <1>1 DEF TokenInv

(* Nobody goes in or out, or moves about inside. *)
LEMMA SameInside ==
    ASSUME NEW P, at \in [Client -> P], NEW c \in Client, NEW place, at' = [at EXCEPT ![c] = place],
           place \in {"inside", "finished"} <=> at[c] \in {"inside", "finished"}
    PROVE  \A from \in 0..(2 * MaxStall) : Outstanding(from)' = Outstanding(from)
<1>1. at'[c] = place /\ \A d \in Client \ {c} : at'[d] = at[d]
  OBVIOUS
<1>2. Inside' = Inside
  BY <1>1 DEF Inside
<1>3. QED
  BY <1>2 DEF Outstanding

(* A charge: a client goes out and takes at least what it is charged along. *)
LEMMA ChargeStep ==
    ASSUME TokenInv, NEW c \in Inside, NEW place \in {"out", "charged"},
           at' = [at EXCEPT ![c] = place], limit' = limit,
           NEW n \in Tokens \cup {0}, Charge(n)
    PROVE  TokenInv'
<1>0. /\ MaxStall \in Nat /\ c \in Client
      /\ at \in [Client -> {"out", "counted", "inside", "finished", "charged"}]
  BY KeyUsageAssumption DEF KeyUsageAssumption, Inside, TokenInv
<1>1. at' \in [Client -> {"out", "counted", "inside", "finished", "charged"}]
  BY <1>0
<1>2. /\ Cardinality(Inside)' = Cardinality(Inside) - 1
      /\ Cardinality(Inside) \in Nat /\ Cardinality(Inside)' \in Nat
  BY <1>0, OutstandingMoves, InsideCount
<1>3. /\ Largest \in Nat
      /\ Cardinality(Inside)' * Largest + Largest = Cardinality(Inside) * Largest
  BY <1>2, LargestIs
<1>4. CASE limit.tpm = 0
  <2>1. UNCHANGED <<tokens, charged>>
    BY <1>4 DEF Charge
  <2>2. QED
    BY <1>1, <1>4, <2>1, BoundKept DEF TokenInv
<1>5. CASE limit.tpm # 0
  <2> DEFINE amount == IF n = 0 THEN 1 ELSE n
  <2>1. PICK late \in 0..MaxStall :
          tokens' = Stamped(tokens, late, amount) /\ charged' = [charged EXCEPT ![late] = @ + amount]
    BY <1>5 DEF Charge
  <2>2. amount \in Nat /\ amount <= Largest
    BY LargestIs, KeyUsageAssumption DEF KeyUsageAssumption
  <2> HIDE DEF amount
  <2>3. tokens' \in Stamps /\ charged' \in Stamps /\ SameUpToAMinute(tokens', charged')
    BY <2>1, <2>2, StampedStamps DEF TokenInv
  <2>4. ASSUME NEW from \in 0..(2 * MaxStall)
        PROVE  SumOver(charged', Minute(from)) + Outstanding(from)'
                   <= SumOver(charged, Minute(from)) + Outstanding(from)
    <3>1. SumOver(charged, Minute(from)) \in Nat /\ SumOver(charged', Minute(from)) \in Nat
      BY <2>3, StampsOf DEF TokenInv
    <3>2. /\ SumOver(charged', Minute(from)) <= SumOver(charged, Minute(from)) + amount
          /\ from > MaxStall => SumOver(charged', Minute(from)) = SumOver(charged, Minute(from))
      BY <2>1, <2>2, StampedMinute, ZenonT(60) DEF TokenInv
    <3>3. CASE from > MaxStall
      <4>1. Outstanding(from) = 0 /\ Outstanding(from)' = 0
        BY <1>0, <3>3 DEF Outstanding
      <4>2. QED
        BY <3>1, <3>2, <3>3, <4>1
    <3>4. CASE from <= MaxStall
      <4>1. /\ Outstanding(from) = Cardinality(Inside) * Largest
            /\ Outstanding(from)' = Cardinality(Inside)' * Largest
        BY <3>4 DEF Outstanding
      <4>2. Cardinality(Inside)' * Largest \in Nat
        BY <1>2, <1>3
      <4> DEFINE p == Cardinality(Inside)' * Largest
                 o == Cardinality(Inside) * Largest
      <4>3. p \in Nat /\ p + Largest = o /\ Outstanding(from) = o /\ Outstanding(from)' = p
        BY <1>3, <4>1, <4>2
      <4> HIDE DEF p, o
      <4>4. QED
        BY <1>3, <2>2, <3>1, <3>2, <4>3
    <3>5. QED
      BY <1>0, <3>3, <3>4
  <2>5. QED
    BY <1>1, <2>3, <2>4, BoundKept
<1>6. QED
  BY <1>4, <1>5

(* An admission finds every minute that it may be charged to below the     *)
(* limit, and there are only so many clients to be inside.                 *)
LEMMA AdmissionStep ==
    ASSUME TokenInv, NEW c \in Client, AllowKeyTPM(c)
    PROVE  TokenInv'
<1>0. /\ MaxStall \in Nat /\ limit' = limit /\ limit.tpm \in Nat
      /\ at \in [Client -> {"out", "counted", "inside", "finished", "charged"}]
      /\ at[c] = "counted" /\ charged' = charged
  BY KeyUsageAssumption DEF KeyUsageAssumption, TokenInv, AllowKeyTPM
<1>1. PICK late \in 0..MaxStall :
        /\ tokens' = Recent(tokens, late)
        /\ Goto(c, IF Unspent(tokens, late) THEN "inside" ELSE "out")
  BY DEF AllowKeyTPM
<1>2. tokens' \in Stamps /\ charged' \in Stamps /\ SameUpToAMinute(tokens', charged')
  BY <1>0, <1>1, RecentStamps DEF TokenInv
<1>3. CASE ~ Unspent(tokens, late)
  <2>1. at' = [at EXCEPT ![c] = "out"]
    BY <1>1, <1>3 DEF Goto
  <2>2. at' \in [Client -> {"out", "counted", "inside", "finished", "charged"}]
    BY <1>0, <2>1
  <2>3. \A from \in 0..(2 * MaxStall) : Outstanding(from)' = Outstanding(from)
    BY <1>0, <2>1, SameInside
  <2>4. ASSUME NEW from \in 0..(2 * MaxStall)
        PROVE  SumOver(charged', Minute(from)) + Outstanding(from)'
                   <= SumOver(charged, Minute(from)) + Outstanding(from)
    <3>1. SumOver(charged, Minute(from)) \in Nat
      BY StampsOf DEF TokenInv
    <3>2. Outstanding(from) \in Nat
      BY InsideCount, LargestIs DEF Outstanding
    <3>3. QED
      BY <1>0, <2>3, <3>1, <3>2
  <2>5. QED
    BY <1>0, <1>2, <2>2, <2>4, BoundKept
<1>4. CASE Unspent(tokens, late)
  <2>1. at' = [at EXCEPT ![c] = "inside"]
    BY <1>1, <1>4 DEF Goto
  <2>2. at' \in [Client -> {"out", "counted", "inside", "finished", "charged"}]
    BY <1>0, <2>1
  <2>3. Cardinality(Inside)' \in Nat /\ Cardinality(Inside)' <= Cardinality(Client)
    <3>1. IsFiniteSet(Client) /\ Inside' \in SUBSET Client
      BY KeyUsageAssumption DEF KeyUsageAssumption, Inside
    <3>2. QED
      BY <3>1, FS_Subset, FS_CardinalityType
  <2>4. /\ Cardinality(Inside)' * Largest <= Cardinality(Client) * Largest
        /\ Cardinality(Inside)' * Largest \in Nat /\ Cardinality(Client) * Largest \in Nat
    BY <2>3, InsideCount, LargestIs
  <2> DEFINE m == Cardinality(Client) * Largest
             o == Cardinality(Inside)' * Largest
  <2>5. ASSUME NEW from \in 0..(2 * MaxStall), limit.tpm > 0
        PROVE  SumOver(charged, Minute(from)) + Outstanding(from)' < limit.tpm + m
    <3>1. SumOver(charged, Minute(from)) \in Nat
      BY StampsOf DEF TokenInv
    <3>2. CASE from > MaxStall
      <4>1. Outstanding(from) = 0 /\ Outstanding(from)' = 0
        BY <1>0, <3>2 DEF Outstanding
      <4>2. QED
        BY <2>5, <4>1 DEF TokenInv
    <3>3. CASE from \in 0..MaxStall
      <4>1. /\ SumOver(charged, Minute(from)) <= Sum(Recent(tokens, late))
            /\ Sum(Recent(tokens, late)) \in Nat
        BY <3>3, ReadingCovers DEF TokenInv
      <4>2. Sum(Recent(tokens, late)) < limit.tpm
        BY <1>4 DEF Unspent
      <4>3. Outstanding(from)' = o
        BY <1>0, <3>3 DEF Outstanding
      <4>4. o <= m /\ o \in Nat /\ m \in Nat
        BY <2>4
      <4> HIDE DEF o, m
      <4>5. QED
        BY <1>0, <3>1, <4>1, <4>2, <4>3, <4>4
    <3>4. QED
      BY <1>0, <3>2, <3>3
  <2>6. QED
    BY <1>0, <1>2, <2>2, <2>5 DEF TokenInv
<1>5. QED
  BY <1>3, <1>4

LEMMA TokenTick ==
    ASSUME TokenInv, Tick
    PROVE  TokenInv'
<1>0. MaxStall \in Nat
  BY KeyUsageAssumption DEF KeyUsageAssumption
<1>1. /\ tokens' = Older(tokens) /\ charged' = Older(charged)
      /\ limit' = limit /\ at' = at /\ limit.tpm \in Nat
  BY DEF Tick, TokenInv
<1>2. tokens' \in Stamps /\ charged' \in Stamps /\ SameUpToAMinute(tokens', charged')
  BY <1>1, OlderStamps DEF TokenInv
<1>3. \A from \in 0..(2 * MaxStall) : Outstanding(from)' = Outstanding(from)
  BY <1>1 DEF Outstanding, Inside
<1> DEFINE m == limit.tpm + Cardinality(Client) * Largest
<1>4. m \in Nat
  BY <1>1, InsideCount, LargestIs
<1>5. ASSUME NEW from \in 0..(2 * MaxStall), limit.tpm > 0
      PROVE  SumOver(charged', Minute(from)) + Outstanding(from)' < m
  <2>1. SumOver(charged', Minute(from)) \in Nat
    BY <1>2, StampsOf
  <2>2. \A f \in 0..(2 * MaxStall) :
          /\ SumOver(charged, Minute(f)) \in Nat /\ Outstanding(f) \in Nat
          /\ SumOver(charged, Minute(f)) + Outstanding(f) < m
    BY <1>5, StampsOf, InsideCount, LargestIs DEF TokenInv, Outstanding
  <2> HIDE DEF m
  <2>3. CASE from = 0
    <3>1. SumOver(charged', Minute(0)) <= SumOver(charged, Minute(0))
      BY <1>1, <2>3, OlderMinutes DEF TokenInv
    <3>2. QED
      BY <1>3, <1>4, <2>1, <2>2, <2>3, <3>1
  <2>4. CASE from > 0
    <3>1. from - 1 \in 0..(2 * MaxStall) /\ from - 1 < from
      BY <1>0, <2>4
    <3>2. SumOver(charged', Minute(from)) = SumOver(charged, Minute(from - 1))
      BY <1>1, <2>4, OlderMinutes DEF TokenInv
    <3>3. Outstanding(from) <= Outstanding(from - 1)
      <4>1. Cardinality(Inside) * Largest \in Nat
        BY InsideCount, LargestIs
      <4>2. QED
        BY <1>0, <3>1, <4>1 DEF Outstanding
    <3>4. SumOver(charged, Minute(from - 1)) + Outstanding(from - 1) < m
          /\ SumOver(charged, Minute(from - 1)) \in Nat /\ Outstanding(from - 1) \in Nat
      BY <2>2, <3>1
    <3>5. Outstanding(from)' = Outstanding(from) /\ Outstanding(from) \in Nat
      BY <1>3, <2>2
    <3>6. QED
      BY <1>4, <3>2, <3>3, <3>4, <3>5
  <2>5. QED
    BY <1>0, <2>3, <2>4
<1>6. QED
  BY <1>1, <1>2, <1>5 DEF TokenInv

LEMMA TokenStep ==
    ASSUME TokenInv, [KeyNext]_keyVars
    PROVE  TokenInv'
<1>0. at \in [Client -> {"out", "counted", "inside", "finished", "charged"}]
  BY DEF TokenInv
<1>1. CASE UNCHANGED <<limit, at, tokens, charged>>
  BY <1>1 DEF TokenInv, Outstanding, Inside
<1>2. ASSUME NEW c \in Client, NEW place \in {"out", "counted", "inside", "finished", "charged"},
             at' = [at EXCEPT ![c] = place],
             limit.tpm = 0 \/ (place \in {"inside", "finished"} <=> at[c] \in {"inside", "finished"}),
             UNCHANGED <<limit, tokens, charged>>
      PROVE  TokenInv'
  <2>1. at' \in [Client -> {"out", "counted", "inside", "finished", "charged"}]
    BY <1>0, <1>2
  <2>2. CASE limit.tpm = 0
    BY <1>2, <2>1, <2>2 DEF TokenInv
  <2>3. CASE place \in {"inside", "finished"} <=> at[c] \in {"inside", "finished"}
    <3>1. \A from \in 0..(2 * MaxStall) : Outstanding(from)' = Outstanding(from)
      BY <1>0, <1>2, <2>3, SameInside
    <3>2. QED
      BY <1>2, <2>1, <3>1 DEF TokenInv
  <2>4. QED
    BY <1>2, <2>2, <2>3
<1>3. ASSUME NEW c \in Client, AllowKeyRPM(c) \/ NoLimit(c) PROVE TokenInv'
  <2>1. CASE UNCHANGED at
    BY <1>1, <1>3, <2>1 DEF AllowKeyRPM, NoLimit, Goto, limitVars
  <2>2. CASE at[c] = "out" /\ Goto(c, "counted") /\ UNCHANGED <<limit, tokens, charged>>
    BY <1>2, <2>2 DEF Goto
  <2>3. CASE limit.tpm = 0 /\ Goto(c, "inside") /\ UNCHANGED <<limit, tokens, charged>>
    BY <1>2, <2>3 DEF Goto
  <2>4. QED
    BY <1>3, <2>1, <2>2, <2>3 DEF AllowKeyRPM, NoLimit, limitVars
<1>4. ASSUME NEW c \in Client, Finish(c) PROVE TokenInv'
  <2>1. CASE \E n \in Tokens : Charge(n) /\ Goto(c, "charged")
    <3>1. c \in Inside /\ limit' = limit
      BY <1>4 DEF Finish, Inside
    <3>2. QED
      BY <2>1, <3>1, ChargeStep DEF Goto
  <2>2. CASE Goto(c, "finished") /\ UNCHANGED <<tokens, charged>>
    BY <1>2, <1>4, <2>2 DEF Goto, Finish
  <2>3. QED
    BY <1>4, <2>1, <2>2 DEF Finish
<1>5. ASSUME NEW c \in Client, Leave(c) PROVE TokenInv'
  <2>1. CASE at[c] = "charged"
    BY <1>2, <1>5, <2>1 DEF Leave, Goto
  <2>2. CASE at[c] # "charged"
    <3>1. c \in Inside /\ limit' = limit /\ Charge(0) /\ at' = [at EXCEPT ![c] = "out"]
      BY <1>5, <2>2 DEF Leave, Inside, Goto
    <3>2. QED
      BY <3>1, ChargeStep
  <2>3. QED
    BY <2>1, <2>2
<1>6. CASE NextHour \/ (\E f \in Flush : UsageSaveDB(f)) \/ UNCHANGED keyVars
  BY <1>1, <1>6 DEF NextHour, UsageSaveDB, UsageTake, MergeUsageRow, UsageStore, UsageFails,
     Cleanup, limitVars, keyVars
<1>7. CASE Restart
  <2>1. limit' = limit /\ tokens' = Empty /\ charged' = Empty /\ at' = [c \in Client |-> "out"]
    BY <1>7 DEF Restart
  <2>2. Inside' = {}
    BY <2>1 DEF Inside
  <2>3. Cardinality(Inside)' = 0 /\ 0 * Largest = 0
    BY <2>2, FS_EmptySet, LargestIs
  <2>4. ASSUME NEW from \in 0..(2 * MaxStall)
        PROVE  SumOver(charged', Minute(from)) + Outstanding(from)'
                   <= SumOver(charged, Minute(from)) + Outstanding(from)
    <3>1. SumOver(charged', Minute(from)) = 0
      BY <2>1, EmptyStamps
    <3>2. Outstanding(from)' = 0
      BY <2>3 DEF Outstanding
    <3>3. SumOver(charged, Minute(from)) \in Nat
      BY StampsOf DEF TokenInv
    <3>4. Cardinality(Inside) * Largest \in Nat
      BY InsideCount, LargestIs
    <3>5. Outstanding(from) \in Nat
      BY <3>4 DEF Outstanding
    <3>6. QED
      BY <3>1, <3>2, <3>3, <3>5
  <2>5. QED
    BY <2>1, <2>4, EmptyStamps, BoundKept
<1>8. QED
  BY <1>3, <1>4, <1>5, <1>6, <1>7, AdmissionStep, TokenTick DEF KeyNext, Proceed

(* No minute, less the stall, is charged more tokens than the limit and    *)
(* one request of every client (AllowKeyTPM in internal/op/ratelimit.go):  *)
(* whoever is let in after the limit is reached would have had to find a   *)
(* window in which it was not.                                             *)
THEOREM OverrunIsBounded == KeySpec => []OverrunBounded
<1>1. TokenInv => OverrunBounded
  <2> SUFFICES ASSUME TokenInv, limit.tpm > 0, NEW from \in 0..(2 * MaxStall)
               PROVE  SumOver(charged, Minute(from)) < limit.tpm + Cardinality(Client) * Largest
    BY MinutesByStart DEF OverrunBounded, Largest
  <2>1. SumOver(charged, Minute(from)) + Outstanding(from)
            < limit.tpm + Cardinality(Client) * Largest
    BY DEF TokenInv
  <2>2. SumOver(charged, Minute(from)) \in Nat /\ limit.tpm \in Nat
    BY StampsOf DEF TokenInv
  <2>3. Outstanding(from) \in Nat /\ Cardinality(Client) * Largest \in Nat
    BY InsideCount, LargestIs DEF Outstanding
  <2> DEFINE m == Cardinality(Client) * Largest
  <2>4. m \in Nat /\ SumOver(charged, Minute(from)) + Outstanding(from) < limit.tpm + m
    BY <2>1, <2>3
  <2> HIDE DEF m
  <2>5. SumOver(charged, Minute(from)) < limit.tpm + m
    BY <2>2, <2>3, <2>4
  <2>6. QED
    BY <2>5 DEF m
<1>2. QED
  BY <1>1, TokenInit, TokenStep, PTL DEF KeySpec
=============================================================================
