---------------------------- MODULE RoutePicksProofs ----------------------------
(***************************************************************************)
(* Proofs about RoutePicks and the rankings of CandidateRanking, for any   *)
(* number of members, any weights and whatever is known of the members.    *)
(*                                                                         *)
(* The accumulators of the allocate mode are bounded one set of members at *)
(* a time: the sum over any k of them stays within what Cap allows k, and  *)
(* the bound of a single one is that for k = 1 (PicksInv).  The other      *)
(* statements are about one view at a time; the invariant gives that the   *)
(* view is one a request can see (StandingThroughout).  A ranking is       *)
(* followed as an arrangement: a list that names every member of a set     *)
(* once, taken apart by Only, sorted by a key, put in front of its tails.  *)
(***************************************************************************)
EXTENDS RoutePicks, FiniteSetTheorems, WellFoundedInduction, TLAPS

-----------------------------------------------------------------------------
(* Sums over finite sets.  A property of sums that fails for some set      *)
(* fails for a smallest one, which gives the inductions below.             *)

LEMMA Smallest ==
    ASSUME NEW S, IsFiniteSet(S), NEW C, C \subseteq SUBSET S, C # {}
    PROVE  \E T \in C : \A U \in C : U \subseteq T => U = T
<1> DEFINE R == StrictSubsetOrdering(S)
<1>1. IsWellFoundedOn(R, SUBSET S)
  BY FS_StrictSubsetOrderingWellFounded, FS_FiniteSubsetsOfFinite
<1>2. \A T, U \in C : U \subseteq T /\ U # T => <<U, T>> \in R
  BY DEF StrictSubsetOrdering
<1> HIDE DEF R
<1>3. \E T \in C : \A U \in C : ~ (<<U, T>> \in R)
  BY <1>1, WFMin
<1>4. QED
  BY <1>2, <1>3

(* How MapThenSumSet takes a set apart. *)
Pick(s) == CHOOSE x \in s : TRUE
Sums(g, f, S) ==
    g = [s \in SUBSET S |-> IF s = {} THEN 0 ELSE f[Pick(s)] + g[s \ {Pick(s)}]]

LEMMA SumUnfolded ==
    ASSUME NEW f, NEW S
    PROVE  SumOver(f, S) = (CHOOSE g : Sums(g, f, S))[S]
  BY Zenon DEF SumOver, MapThenSumSet, MapThenFoldSet, Sums, Pick

LEMMA PickIn == ASSUME NEW s, s # {} PROVE Pick(s) \in s
  BY DEF Pick

LEMMA SumsEach ==
    ASSUME NEW g, NEW f, NEW S, Sums(g, f, S)
    PROVE  /\ g[{}] = 0
           /\ \A s \in SUBSET S : s # {} => g[s] = f[Pick(s)] + g[s \ {Pick(s)}]
<1> DEFINE h == [s \in SUBSET S |-> IF s = {} THEN 0 ELSE f[Pick(s)] + g[s \ {Pick(s)}]]
<1>1. g = h
  BY DEF Sums
<1>2. \A s \in SUBSET S : h[s] = IF s = {} THEN 0 ELSE f[Pick(s)] + g[s \ {Pick(s)}]
  OBVIOUS
<1>3. {} \in SUBSET S
  OBVIOUS
<1> HIDE DEF h
<1>4. QED
  BY <1>1, <1>2, <1>3

(* Two ways of summing agree where both apply. *)
LEMMA SumsAgree ==
    ASSUME NEW f, NEW S, NEW T, IsFiniteSet(S), T \subseteq S,
           NEW g, Sums(g, f, S), NEW h, Sums(h, f, T)
    PROVE  \A s \in SUBSET T : g[s] = h[s]
<1> DEFINE C == {s \in SUBSET T : g[s] # h[s]}
<1>1. SUFFICES ASSUME C # {} PROVE FALSE
  OBVIOUS
<1>2. IsFiniteSet(T) /\ C \subseteq SUBSET T
  BY FS_Subset
<1>3. PICK s \in C : \A u \in C : u \subseteq s => u = s
  <2> HIDE DEF C
  <2>1. QED
    BY <1>1, <1>2, Smallest
<1>4. s # {}
  BY <1>3, SumsEach
<1> DEFINE u == s \ {Pick(s)}
<1>5. Pick(s) \in s /\ s \in SUBSET T /\ s \in SUBSET S
  BY <1>3, <1>4, PickIn
<1>6. g[s] = f[Pick(s)] + g[u] /\ h[s] = f[Pick(s)] + h[u]
  BY <1>4, <1>5, SumsEach
<1>7. u \in SUBSET T /\ u \subseteq s /\ u # s
  BY <1>5
<1>8. g[u] = h[u]
  BY <1>3, <1>7
<1>9. QED
  BY <1>3, <1>6, <1>8

LEMMA SumsExist ==
    ASSUME NEW f, NEW S, IsFiniteSet(S)
    PROVE  Sums(CHOOSE g : Sums(g, f, S), f, S)
<1> DEFINE The(T) == CHOOSE g : Sums(g, f, T)
           C == {T \in SUBSET S : ~ Sums(The(T), f, T)}
<1>1. SUFFICES ASSUME C # {} PROVE FALSE
  <2>1. S \in SUBSET S
    OBVIOUS
  <2>2. QED
    BY <1>1, <2>1
<1>2. PICK T \in C : \A U \in C : U \subseteq T => U = T
  <2>1. C \subseteq SUBSET S
    OBVIOUS
  <2> HIDE DEF C
  <2>2. QED
    BY <1>1, <2>1, Smallest
<1>3. T \subseteq S /\ ~ Sums(The(T), f, T)
  BY <1>2
<1>4. ASSUME NEW U, U \subseteq T, U # T PROVE Sums(The(U), f, U)
  BY <1>2, <1>3, <1>4
<1> DEFINE h == [s \in SUBSET T |->
               IF s = {} THEN 0 ELSE f[Pick(s)] + The(s \ {Pick(s)})[s \ {Pick(s)}]]
<1> HIDE DEF C, The
<1>5. ASSUME NEW s \in SUBSET T, s # T PROVE The(s)[s] = h[s]
  <2>1. CASE s = {}
    <3>1. The(s)[s] = 0
      BY <1>4, <1>5, <2>1, SumsEach
    <3>2. QED
      BY <2>1, <3>1
  <2>2. CASE s # {}
    <3> DEFINE u == s \ {Pick(s)}
    <3>1. Pick(s) \in s
      BY <2>2, PickIn
    <3>2. Sums(The(s), f, s) /\ Sums(The(u), f, u) /\ u \subseteq s
      BY <1>4, <1>5, <3>1
    <3>3. IsFiniteSet(s)
      BY <1>3, FS_Subset
    <3>4. The(s)[s] = f[Pick(s)] + The(s)[u]
      BY <2>2, <3>2, SumsEach
    <3>5. u \in SUBSET u
      OBVIOUS
    <3>6. The(s)[u] = The(u)[u]
      BY <3>2, <3>3, <3>5, SumsAgree
    <3>7. h[s] = f[Pick(s)] + The(u)[u]
      BY <2>2
    <3>8. QED
      BY <3>4, <3>6, <3>7
  <2>3. QED
    BY <2>1, <2>2
<1>6. ASSUME NEW s \in SUBSET T, s # {} PROVE h[s] = f[Pick(s)] + h[s \ {Pick(s)}]
  <2> DEFINE u == s \ {Pick(s)}
  <2>1. Pick(s) \in s
    BY <1>6, PickIn
  <2>2. u \in SUBSET T /\ u # T
    BY <2>1
  <2>3. h[s] = f[Pick(s)] + The(u)[u]
    BY <1>6
  <2>4. QED
    BY <1>5, <2>2, <2>3
<1>7. h[{}] = 0 /\ h = [s \in SUBSET T |-> h[s]]
  OBVIOUS
<1> HIDE DEF h
<1>8. [s \in SUBSET T |-> h[s]]
      = [s \in SUBSET T |-> IF s = {} THEN 0 ELSE f[Pick(s)] + h[s \ {Pick(s)}]]
  BY <1>6, <1>7
<1>9. Sums(h, f, T)
  BY <1>7, <1>8 DEF Sums
<1>10. QED
  BY <1>3, <1>9 DEF The

(* One function sums every part of a set. *)
LEMMA OneSum ==
    ASSUME NEW f, NEW S, IsFiniteSet(S)
    PROVE  \E g : /\ Sums(g, f, S)
                  /\ \A T \in SUBSET S : SumOver(f, T) = g[T]
<1> DEFINE The(T) == CHOOSE g : Sums(g, f, T)
<1>1. Sums(The(S), f, S)
  BY SumsExist
<1>2. ASSUME NEW T \in SUBSET S PROVE SumOver(f, T) = The(S)[T]
  <2>1. IsFiniteSet(T)
    BY FS_Subset
  <2>2. Sums(The(T), f, T)
    BY <2>1, SumsExist
  <2> HIDE DEF The
  <2>3. T \in SUBSET T
    OBVIOUS
  <2>4. The(S)[T] = The(T)[T]
    BY <1>1, <2>2, <2>3, SumsAgree
  <2>5. SumOver(f, T) = The(T)[T]
    BY SumUnfolded DEF The
  <2>6. QED
    BY <2>4, <2>5
<1>3. QED
  BY <1>1, <1>2

LEMMA SumEmpty == ASSUME NEW f PROVE SumOver(f, {}) = 0
<1>1. IsFiniteSet({})
  BY FS_EmptySet
<1>2. PICK g : Sums(g, f, {}) /\ \A T \in SUBSET {} : SumOver(f, T) = g[T]
  BY <1>1, OneSum
<1>3. g[{}] = 0 /\ {} \in SUBSET {}
  BY <1>2, SumsEach
<1>4. QED
  BY <1>2, <1>3

(* The sum by the element that is picked. *)
LEMMA SumPick ==
    ASSUME NEW f, NEW S, IsFiniteSet(S), S # {}
    PROVE  SumOver(f, S) = f[Pick(S)] + SumOver(f, S \ {Pick(S)})
<1>1. PICK g : Sums(g, f, S) /\ \A T \in SUBSET S : SumOver(f, T) = g[T]
  BY OneSum
<1> DEFINE U == S \ {Pick(S)}
<1>2. S \in SUBSET S /\ U \in SUBSET S
  OBVIOUS
<1>3. g[S] = f[Pick(S)] + g[U]
  <2>1. \A s \in SUBSET S : s # {} => g[s] = f[Pick(s)] + g[s \ {Pick(s)}]
    BY <1>1, SumsEach, ZenonT(60)
  <2>2. ASSUME NEW s \in SUBSET S, s # {} PROVE g[s] = f[Pick(s)] + g[s \ {Pick(s)}]
    BY <2>1, <2>2
  <2>3. QED
    BY <1>2, <2>2
<1> HIDE DEF U
<1>4. SumOver(f, S) = f[Pick(S)] + SumOver(f, U)
  BY <1>1, <1>2, <1>3
<1>5. QED
  BY <1>4 DEF U

LEMMA SumInt ==
    ASSUME NEW f, NEW S, IsFiniteSet(S), \A x \in S : f[x] \in Int
    PROVE  SumOver(f, S) \in Int
<1> DEFINE C == {T \in SUBSET S : SumOver(f, T) \notin Int}
<1>1. SUFFICES ASSUME C # {} PROVE FALSE
  <2>1. S \in SUBSET S
    OBVIOUS
  <2>2. QED
    BY <1>1, <2>1
<1>2. PICK T \in C : \A U \in C : U \subseteq T => U = T
  <2>1. C \subseteq SUBSET S
    OBVIOUS
  <2> HIDE DEF C
  <2>2. QED
    BY <1>1, <2>1, Smallest
<1>3. SumOver(f, T) \notin Int
  BY <1>2
<1>4. T # {}
  <2>1. 0 \in Int
    OBVIOUS
  <2>2. QED
    BY <1>3, <2>1, SumEmpty
<1> DEFINE U == T \ {Pick(T)}
<1>5. Pick(T) \in T /\ T \subseteq S /\ IsFiniteSet(T)
  BY <1>2, <1>4, PickIn, FS_Subset
<1>6. U \in SUBSET S /\ U \subseteq T /\ U # T
  BY <1>5
<1>7. U \notin C
  <2> HIDE DEF C
  <2>1. QED
    BY <1>2, <1>6
<1>8. SumOver(f, U) \in Int
  BY <1>6, <1>7
<1>9. SumOver(f, T) = f[Pick(T)] + SumOver(f, U)
  BY <1>4, <1>5, SumPick
<1>10. f[Pick(T)] \in Int
  BY <1>5
<1>11. QED
  BY <1>3, <1>8, <1>9, <1>10

(* The sum by any element: by the element that is picked it is so, and     *)
(* both orders of taking two elements away leave the same.                 *)
LEMMA SumElement ==
    ASSUME NEW f, NEW S, IsFiniteSet(S), \A x \in S : f[x] \in Int, NEW x \in S
    PROVE  SumOver(f, S) = f[x] + SumOver(f, S \ {x})
<1> DEFINE Odd(T) == {y \in T : SumOver(f, T) # f[y] + SumOver(f, T \ {y})}
           C == {T \in SUBSET S : Odd(T) # {}}
<1>1. SUFFICES ASSUME C # {} PROVE FALSE
  <2>1. S \in SUBSET S
    OBVIOUS
  <2>2. QED
    BY <1>1, <2>1
<1>2. PICK T \in C : \A U \in C : U \subseteq T => U = T
  <2>1. C \subseteq SUBSET S
    OBVIOUS
  <2> HIDE DEF C
  <2>2. QED
    BY <1>1, <2>1, Smallest
<1>3. PICK y \in T : SumOver(f, T) # f[y] + SumOver(f, T \ {y})
  BY <1>2
<1>4. T \subseteq S
  BY <1>2
<1> DEFINE p == Pick(T)
           q == T \ {p}
           r == T \ {y}
<1>5. p \in T /\ IsFiniteSet(T) /\ SumOver(f, T) = f[p] + SumOver(f, q)
  BY <1>3, <1>4, PickIn, FS_Subset, SumPick
<1> HIDE DEF p
<1>6. p # y
  BY <1>3, <1>5
<1>7. ASSUME NEW U, U \subseteq T, U # T PROVE U \notin C
  <2> HIDE DEF C
  <2>1. QED
    BY <1>2, <1>7
<1>8. SumOver(f, q) = f[y] + SumOver(f, q \ {y})
  <2>1. q \subseteq T /\ q # T /\ y \in q /\ q \in SUBSET S
    BY <1>4, <1>5, <1>6
  <2>2. q \notin C
    BY <1>7, <2>1
  <2> HIDE DEF q
  <2>3. QED
    BY <2>1, <2>2
<1>9. SumOver(f, r) = f[p] + SumOver(f, r \ {p})
  <2>1. r \subseteq T /\ r # T /\ p \in r /\ r \in SUBSET S
    BY <1>3, <1>4, <1>5, <1>6
  <2>2. r \notin C
    BY <1>7, <2>1
  <2> HIDE DEF r
  <2>3. QED
    BY <2>1, <2>2
<1>10. q \ {y} = r \ {p} /\ q \ {y} \subseteq S
  BY <1>4
<1>11. SumOver(f, q \ {y}) \in Int
  BY <1>10, FS_Subset, SumInt
<1>12. f[p] \in Int /\ f[y] \in Int
  BY <1>3, <1>4, <1>5
<1>13. SumOver(f, T) # f[y] + SumOver(f, r)
  BY <1>3
<1> DEFINE w == SumOver(f, q \ {y})
<1>14. w \in Int /\ SumOver(f, q) = f[y] + w /\ SumOver(f, r) = f[p] + w
  BY <1>8, <1>9, <1>10, <1>11
<1> HIDE DEF q, r, C, w
<1>15. SumOver(f, T) = f[p] + (f[y] + w)
  BY <1>5, <1>14
<1>16. f[y] + SumOver(f, r) = f[y] + (f[p] + w)
  BY <1>14
<1>17. f[p] + (f[y] + w) = f[y] + (f[p] + w)
  BY <1>12, <1>14
<1>18. QED
  BY <1>13, <1>15, <1>16, <1>17

LEMMA SumSame ==
    ASSUME NEW f, NEW h, NEW S, IsFiniteSet(S), \A x \in S : f[x] = h[x]
    PROVE  SumOver(f, S) = SumOver(h, S)
<1> DEFINE C == {T \in SUBSET S : SumOver(f, T) # SumOver(h, T)}
<1>1. SUFFICES ASSUME C # {} PROVE FALSE
  <2>1. S \in SUBSET S
    OBVIOUS
  <2>2. QED
    BY <1>1, <2>1
<1>2. PICK T \in C : \A U \in C : U \subseteq T => U = T
  <2>1. C \subseteq SUBSET S
    OBVIOUS
  <2> HIDE DEF C
  <2>2. QED
    BY <1>1, <2>1, Smallest
<1>3. T \subseteq S /\ SumOver(f, T) # SumOver(h, T)
  BY <1>2
<1>4. T # {}
  BY <1>3, SumEmpty
<1> DEFINE U == T \ {Pick(T)}
<1>5. Pick(T) \in T /\ IsFiniteSet(T) /\ U \in SUBSET S /\ U \subseteq T /\ U # T
  BY <1>3, <1>4, PickIn, FS_Subset
<1>6. U \notin C
  <2> HIDE DEF C
  <2>1. QED
    BY <1>2, <1>5
<1>7. SumOver(f, U) = SumOver(h, U)
  BY <1>5, <1>6
<1>8. SumOver(f, T) = f[Pick(T)] + SumOver(f, U) /\ SumOver(h, T) = h[Pick(T)] + SumOver(h, U)
  BY <1>4, <1>5, SumPick
<1>9. f[Pick(T)] = h[Pick(T)]
  BY <1>3, <1>5
<1>10. QED
  BY <1>3, <1>7, <1>8, <1>9

(* How sums over sets that have nothing in common add up. *)
LEMMA SumUnion ==
    ASSUME NEW f, NEW S, IsFiniteSet(S), \A x \in S : f[x] \in Int,
           NEW A, NEW B, A \subseteq S, B \subseteq S, A \cap B = {}
    PROVE  SumOver(f, A \cup B) = SumOver(f, A) + SumOver(f, B)
<1> DEFINE C == {T \in SUBSET B : SumOver(f, A \cup T) # SumOver(f, A) + SumOver(f, T)}
<1>1. SUFFICES ASSUME C # {} PROVE FALSE
  <2>1. B \in SUBSET B
    OBVIOUS
  <2>2. QED
    BY <1>1, <2>1
<1>2. IsFiniteSet(A) /\ IsFiniteSet(B)
  BY FS_Subset
<1>3. PICK T \in C : \A U \in C : U \subseteq T => U = T
  <2>1. C \subseteq SUBSET B
    OBVIOUS
  <2> HIDE DEF C
  <2>2. QED
    BY <1>1, <1>2, <2>1, Smallest
<1>4. T \subseteq B /\ SumOver(f, A \cup T) # SumOver(f, A) + SumOver(f, T)
  BY <1>3
<1>5. SumOver(f, A) \in Int
  BY <1>2, SumInt
<1>6. T # {}
  <2>1. SUFFICES ASSUME T = {} PROVE FALSE
    OBVIOUS
  <2>2. A \cup T = A
    BY <2>1
  <2>3. SumOver(f, T) = 0
    BY <2>1, SumEmpty
  <2>4. SumOver(f, A) + 0 = SumOver(f, A)
    BY <1>5
  <2>5. SumOver(f, A) # SumOver(f, A) + 0
    BY <1>4, <2>2, <2>3, Zenon
  <2>6. QED
    BY <2>4, <2>5
<1>7. PICK x \in T : TRUE
  BY <1>6
<1> DEFINE U == T \ {x}
<1>8. U \in SUBSET B /\ U \subseteq T /\ U # T /\ x \in S
  BY <1>4, <1>7
<1>9. U \notin C
  <2> HIDE DEF C
  <2>1. QED
    BY <1>3, <1>8
<1>10. SumOver(f, A \cup U) = SumOver(f, A) + SumOver(f, U)
  BY <1>8, <1>9
<1>11. SumOver(f, T) = f[x] + SumOver(f, U)
  <2>1. IsFiniteSet(T) /\ \A y \in T : f[y] \in Int
    BY <1>2, <1>4, FS_Subset
  <2>2. QED
    BY <1>7, <2>1, SumElement
<1>12. SumOver(f, A \cup T) = f[x] + SumOver(f, A \cup U)
  <2>1. (A \cup T) \ {x} = A \cup U
    BY <1>4, <1>7
  <2>2. IsFiniteSet(A \cup T) /\ (\A y \in A \cup T : f[y] \in Int) /\ x \in A \cup T
    BY <1>4, <1>7, FS_Subset
  <2>3. SumOver(f, A \cup T) = f[x] + SumOver(f, (A \cup T) \ {x})
    BY <2>2, SumElement
  <2>4. QED
    BY <2>1, <2>3
<1>13. SumOver(f, U) \in Int /\ f[x] \in Int
  <2>1. IsFiniteSet(U) /\ \A y \in U : f[y] \in Int
    BY <1>2, <1>8, FS_Subset
  <2>2. QED
    BY <1>8, <2>1, SumInt
<1> HIDE DEF U, C
<1>14. QED
  BY <1>4, <1>5, <1>10, <1>11, <1>12, <1>13

(* A sum of sums. *)
LEMMA SumPlus ==
    ASSUME NEW f, NEW g, NEW h, NEW S, IsFiniteSet(S),
           \A x \in S : f[x] \in Int /\ g[x] \in Int /\ h[x] = f[x] + g[x]
    PROVE  SumOver(h, S) = SumOver(f, S) + SumOver(g, S)
<1> DEFINE C == {T \in SUBSET S : SumOver(h, T) # SumOver(f, T) + SumOver(g, T)}
<1>1. SUFFICES ASSUME C # {} PROVE FALSE
  <2>1. S \in SUBSET S
    OBVIOUS
  <2>2. QED
    BY <1>1, <2>1
<1>2. PICK T \in C : \A U \in C : U \subseteq T => U = T
  <2>1. C \subseteq SUBSET S
    OBVIOUS
  <2> HIDE DEF C
  <2>2. QED
    BY <1>1, <2>1, Smallest
<1>3. T \subseteq S /\ SumOver(h, T) # SumOver(f, T) + SumOver(g, T)
  BY <1>2
<1>4. T # {}
  <2>1. SUFFICES ASSUME T = {} PROVE FALSE
    OBVIOUS
  <2>2. SumOver(f, T) = 0 /\ SumOver(g, T) = 0 /\ SumOver(h, T) = 0
    BY <2>1, SumEmpty
  <2>3. QED
    BY <1>3, <2>2
<1>5. PICK x \in T : TRUE
  BY <1>4
<1> DEFINE U == T \ {x}
<1>6. U \in SUBSET S /\ U \subseteq T /\ U # T /\ x \in S
  BY <1>3, <1>5
<1>7. U \notin C
  <2> HIDE DEF C
  <2>1. QED
    BY <1>2, <1>6
<1>8. SumOver(h, U) = SumOver(f, U) + SumOver(g, U)
  BY <1>6, <1>7
<1>9. IsFiniteSet(T) /\ IsFiniteSet(U) /\ h[x] \in Int
      /\ \A y \in T : f[y] \in Int /\ g[y] \in Int /\ h[y] \in Int
  BY <1>3, <1>6, FS_Subset
<1>10. SumOver(h, T) = h[x] + SumOver(h, U)
  BY <1>5, <1>9, SumElement
<1>11. SumOver(f, T) = f[x] + SumOver(f, U)
  BY <1>5, <1>9, SumElement
<1>12. SumOver(g, T) = g[x] + SumOver(g, U)
  BY <1>5, <1>9, SumElement
<1>13. SumOver(f, U) \in Int /\ SumOver(g, U) \in Int
  BY <1>6, <1>9, SumInt
<1>14. h[x] = f[x] + g[x] /\ f[x] \in Int /\ g[x] \in Int
  BY <1>6
<1> HIDE DEF U, C
<1>15. QED
  BY <1>3, <1>8, <1>10, <1>11, <1>12, <1>13, <1>14

(* What is nothing everywhere sums up to nothing.                          *)
LEMMA SumZero ==
    ASSUME NEW f, NEW S, IsFiniteSet(S), \A x \in S : f[x] = 0
    PROVE  SumOver(f, S) = 0
<1> DEFINE C == {T \in SUBSET S : SumOver(f, T) # 0}
<1>1. SUFFICES ASSUME C # {} PROVE FALSE
  <2>1. S \in SUBSET S
    OBVIOUS
  <2>2. QED
    BY <1>1, <2>1
<1>2. PICK T \in C : \A U \in C : U \subseteq T => U = T
  <2>1. C \subseteq SUBSET S
    OBVIOUS
  <2> HIDE DEF C
  <2>2. QED
    BY <1>1, <2>1, Smallest
<1>3. T \subseteq S /\ SumOver(f, T) # 0
  BY <1>2
<1>4. T # {}
  BY <1>3, SumEmpty
<1>5. PICK x \in T : TRUE
  BY <1>4
<1> DEFINE U == T \ {x}
<1>6. U \in SUBSET S /\ U \subseteq T /\ U # T /\ x \in S
  BY <1>3, <1>5
<1>7. SumOver(f, U) = 0
  <2>1. U \notin C
    <3> HIDE DEF C
    <3>1. QED
      BY <1>2, <1>6
  <2>2. QED
    BY <1>6, <2>1
<1>8. IsFiniteSet(T) /\ f[x] = 0 /\ \A y \in T : f[y] \in Int
  <2>1. IsFiniteSet(T)
    BY <1>3, FS_Subset
  <2>2. QED
    BY <1>3, <1>6, <2>1
<1>9. SumOver(f, T) = f[x] + SumOver(f, U)
  BY <1>5, <1>8, SumElement
<1>10. SumOver(f, T) = 0 + 0
  BY <1>7, <1>8, <1>9
<1> HIDE DEF U, C
<1>11. QED
  BY <1>3, <1>10

(* What is at most c everywhere sums up to at most c times the elements. *)
LEMMA SumAtMost ==
    ASSUME NEW f, NEW S, IsFiniteSet(S), NEW c \in Int,
           \A x \in S : f[x] \in Int /\ f[x] <= c
    PROVE  SumOver(f, S) <= Cardinality(S) * c
<1> DEFINE C == {T \in SUBSET S : ~(SumOver(f, T) <= Cardinality(T) * c)}
<1>1. SUFFICES ASSUME C # {} PROVE FALSE
  <2>1. S \in SUBSET S
    OBVIOUS
  <2>2. QED
    BY <1>1, <2>1
<1>2. PICK T \in C : \A U \in C : U \subseteq T => U = T
  <2>1. C \subseteq SUBSET S
    OBVIOUS
  <2> HIDE DEF C
  <2>2. QED
    BY <1>1, <2>1, Smallest
<1>3. T \subseteq S /\ ~(SumOver(f, T) <= Cardinality(T) * c)
  BY <1>2
<1>4. T # {}
  <2>1. SUFFICES ASSUME T = {} PROVE FALSE
    OBVIOUS
  <2>2. SumOver(f, T) = 0 /\ Cardinality(T) = 0
    BY <2>1, SumEmpty, FS_EmptySet
  <2>3. QED
    BY <1>3, <2>2
<1>5. PICK x \in T : TRUE
  BY <1>4
<1> DEFINE U == T \ {x}
<1>6. U \in SUBSET S /\ U \subseteq T /\ U # T /\ x \in S
  BY <1>3, <1>5
<1>7. U \notin C
  <2> HIDE DEF C
  <2>1. QED
    BY <1>2, <1>6
<1>8. SumOver(f, U) <= Cardinality(U) * c
  BY <1>6, <1>7
<1>9. IsFiniteSet(T) /\ IsFiniteSet(U) /\ \A y \in T : f[y] \in Int
  BY <1>3, <1>6, FS_Subset
<1>10. SumOver(f, T) = f[x] + SumOver(f, U)
  BY <1>5, <1>9, SumElement
<1>11. SumOver(f, U) \in Int
  BY <1>6, <1>9, SumInt
<1> DEFINE n == Cardinality(U)
<1>12. Cardinality(T) = n + 1 /\ n \in Nat
  <2>1. Cardinality(U) = Cardinality(T) - 1 /\ Cardinality(U) \in Nat /\ Cardinality(T) \in Nat
    BY <1>5, <1>9, FS_RemoveElement, FS_CardinalityType
  <2>2. QED
    BY <2>1
<1>13. f[x] \in Int /\ f[x] <= c
  BY <1>6
<1>14. ~(f[x] + SumOver(f, U) <= (n + 1) * c)
  BY <1>3, <1>10, <1>12
<1>15. (n + 1) * c = n * c + c /\ n * c \in Int
  BY <1>12
<1>16. SumOver(f, U) <= n * c
  BY <1>8
<1> HIDE DEF U, C, n
<1>17. QED
  BY <1>11, <1>13, <1>14, <1>15, <1>16

(* Nothing negative sums up to nothing negative, and to nothing only if it *)
(* is nothing.                                                             *)
LEMMA SumNonNegative ==
    ASSUME NEW f, NEW S, IsFiniteSet(S), \A x \in S : f[x] \in Nat
    PROVE  /\ SumOver(f, S) \in Nat
           /\ \A x \in S : f[x] <= SumOver(f, S)
<1> DEFINE C == {T \in SUBSET S : SumOver(f, T) \notin Nat}
<1>1. ASSUME NEW T \in SUBSET S PROVE SumOver(f, T) \in Nat
  <2>1. SUFFICES ASSUME C # {} PROVE FALSE
    BY <1>1
  <2>2. PICK V \in C : \A U \in C : U \subseteq V => U = V
    <3>1. C \subseteq SUBSET S
      OBVIOUS
    <3> HIDE DEF C
    <3>2. QED
      BY <2>1, <3>1, Smallest
  <2>3. V \subseteq S /\ SumOver(f, V) \notin Nat
    BY <2>2
  <2>4. V # {}
    BY <2>3, SumEmpty
  <2>5. PICK x \in V : TRUE
    BY <2>4
  <2> DEFINE U == V \ {x}
  <2>6. U \in SUBSET S /\ U \subseteq V /\ U # V /\ x \in S
    BY <2>3, <2>5
  <2>7. U \notin C
    <3> HIDE DEF C
    <3>1. QED
      BY <2>2, <2>6
  <2>8. SumOver(f, U) \in Nat /\ f[x] \in Nat
    BY <2>6, <2>7
  <2>9. IsFiniteSet(V) /\ \A y \in V : f[y] \in Int
    BY <2>3, FS_Subset
  <2>10. SumOver(f, V) = f[x] + SumOver(f, U)
    BY <2>5, <2>9, SumElement
  <2> HIDE DEF U
  <2>11. QED
    BY <2>3, <2>8, <2>10
<1> HIDE DEF C
<1>2. ASSUME NEW x \in S PROVE f[x] <= SumOver(f, S)
  <2> DEFINE U == S \ {x}
  <2>1. SumOver(f, S) = f[x] + SumOver(f, U)
    BY SumElement
  <2>2. SumOver(f, U) \in Nat
    BY <1>1
  <2> HIDE DEF U
  <2>3. QED
    BY <2>1, <2>2
<1>3. S \in SUBSET S
  OBVIOUS
<1>4. QED
  BY <1>1, <1>2, <1>3

-----------------------------------------------------------------------------
(* Choices from finite sets.                                               *)

(* Where of any two one comes before the other, one comes before all.      *)
Orders(R, S) ==
    /\ \A i, j \in S : i # j => <<i, j>> \in R \/ <<j, i>> \in R
    /\ \A i, j, k \in S : <<i, j>> \in R /\ <<j, k>> \in R => <<i, k>> \in R

LEMMA OneIsFirst ==
    ASSUME NEW S, IsFiniteSet(S), S # {}, NEW R, Orders(R, S)
    PROVE  \E i \in S : \A j \in S \ {i} : <<i, j>> \in R
<1> DEFINE Led(T) == \E i \in T : \A j \in T \ {i} : <<i, j>> \in R
           C == {T \in SUBSET S : T # {} /\ ~Led(T)}
<1>1. SUFFICES ASSUME C # {} PROVE FALSE
  <2>1. S \in SUBSET S
    OBVIOUS
  <2>2. QED
    BY <1>1, <2>1
<1>2. PICK T \in C : \A U \in C : U \subseteq T => U = T
  <2>1. C \subseteq SUBSET S
    OBVIOUS
  <2> HIDE DEF C
  <2>2. QED
    BY <1>1, <2>1, Smallest
<1>3. T \subseteq S /\ T # {} /\ ~Led(T)
  BY <1>2
<1>4. PICK x \in T : TRUE
  BY <1>3
<1> DEFINE U == T \ {x}
<1>5. U \in SUBSET S /\ U \subseteq T /\ U # T /\ x \in S
  BY <1>3, <1>4
<1>6. U \notin C
  <2> HIDE DEF C
  <2>1. QED
    BY <1>2, <1>5
<1>7. U # {}
  <2>1. SUFFICES ASSUME U = {} PROVE FALSE
    OBVIOUS
  <2>2. T \ {x} = {}
    BY <2>1
  <2>3. QED
    BY <1>3, <1>4, <2>2
<1>8. Led(U)
  BY <1>5, <1>6, <1>7
<1>9. PICK b \in U : \A j \in U \ {b} : <<b, j>> \in R
  BY <1>8
<1>10. b \in S /\ b \in T /\ b # x
  BY <1>5, <1>9
<1>11. CASE <<b, x>> \in R
  <2>1. \A j \in T \ {b} : <<b, j>> \in R
    BY <1>9, <1>11
  <2>2. QED
    BY <1>3, <1>10, <2>1
<1>12. CASE <<x, b>> \in R
  <2>1. \A j \in T \ {x} : <<x, j>> \in R
    BY <1>3, <1>5, <1>9, <1>10, <1>12 DEF Orders
  <2>2. QED
    BY <1>3, <1>4, <2>1
<1>13. QED
  BY <1>5, <1>10, <1>11, <1>12 DEF Orders

LEMMA ImageFinite ==
    ASSUME NEW S, IsFiniteSet(S), NEW f
    PROVE  IsFiniteSet({f[x] : x \in S})
<1> DEFINE T == {f[x] : x \in S}
           g == [x \in S |-> f[x]]
<1>1. g \in Surjection(S, T)
  BY DEF Surjection
<1> HIDE DEF g, T
<1>2. IsFiniteSet(T)
  BY <1>1, FS_Surjection
<1>3. QED
  BY <1>2 DEF T

LEMMA MinOf ==
    ASSUME NEW S, IsFiniteSet(S), S # {}, S \subseteq Int
    PROVE  Min(S) \in S /\ \A y \in S : Min(S) <= y
<1> DEFINE R == {p \in S \X S : p[1] <= p[2]}
<1>1. \A i, j \in S : <<i, j>> \in R <=> i <= j
  OBVIOUS
<1> HIDE DEF R
<1>2. \A i, j \in S : i # j => <<i, j>> \in R \/ <<j, i>> \in R
  BY <1>1
<1>3. \A i, j, k \in S : <<i, j>> \in R /\ <<j, k>> \in R => <<i, k>> \in R
  BY <1>1
<1>4. PICK i \in S : \A j \in S \ {i} : <<i, j>> \in R
  <2>1. Orders(R, S)
    BY <1>2, <1>3, Zenon DEF Orders
  <2>2. QED
    BY <2>1, OneIsFirst
<1>5. ASSUME NEW y \in S PROVE i <= y
  <2>1. CASE y = i
    BY <2>1
  <2>2. CASE y # i
    <3>1. <<i, y>> \in R
      BY <1>4, <2>2, Zenon
    <3>2. QED
      BY <1>1, <3>1, Zenon
  <2>3. QED
    BY <2>1, <2>2
<1>6. QED
  BY <1>5 DEF Min

LEMMA MaxOf ==
    ASSUME NEW S, IsFiniteSet(S), S # {}, S \subseteq Int
    PROVE  Max(S) \in S /\ \A y \in S : Max(S) >= y
<1> DEFINE R == {p \in S \X S : p[1] >= p[2]}
<1>1. \A i, j \in S : <<i, j>> \in R <=> i >= j
  OBVIOUS
<1> HIDE DEF R
<1>2. \A i, j \in S : i # j => <<i, j>> \in R \/ <<j, i>> \in R
  BY <1>1
<1>3. \A i, j, k \in S : <<i, j>> \in R /\ <<j, k>> \in R => <<i, k>> \in R
  BY <1>1
<1>4. PICK i \in S : \A j \in S \ {i} : <<i, j>> \in R
  <2>1. Orders(R, S)
    BY <1>2, <1>3, Zenon DEF Orders
  <2>2. QED
    BY <2>1, OneIsFirst
<1>5. ASSUME NEW y \in S PROVE i >= y
  <2>1. CASE y = i
    BY <2>1
  <2>2. CASE y # i
    <3>1. <<i, y>> \in R
      BY <1>4, <2>2, Zenon
    <3>2. QED
      BY <1>1, <3>1, Zenon
  <2>3. QED
    BY <2>1, <2>2
<1>6. QED
  BY <1>5 DEF Max

LEMMA Pairs ==
    ASSUME NEW a \in Int, NEW b \in Int
    PROVE  /\ Min({a, b}) \in {a, b} /\ Min({a, b}) <= a /\ Min({a, b}) <= b
           /\ Max({a, b}) \in {a, b} /\ Max({a, b}) >= a /\ Max({a, b}) >= b
<1>1. IsFiniteSet({a, b})
  <2>1. IsFiniteSet({a}) /\ IsFiniteSet({b}) /\ {a, b} = {a} \cup {b}
    BY FS_Singleton
  <2>2. QED
    BY <2>1, FS_Union
<1>2. QED
  BY <1>1, MinOf, MaxOf

-----------------------------------------------------------------------------
(* The weights of the allocate mode.                                       *)

LEMMA MostWeighs == MaxWeight \in Nat \ {0}
  BY RankingAssumption

LEMMA Clamped == \A x \in Int : clampAllocateWeight(x) \in 1..MaxWeight
<1> SUFFICES ASSUME NEW x \in Int PROVE clampAllocateWeight(x) \in 1..MaxWeight
  OBVIOUS
<1> DEFINE y == Max({x, 1})
<1>1. y \in Int /\ y >= 1
  BY Pairs, SMTT(60)
<1> HIDE DEF y
<1>2. Min({y, MaxWeight}) \in {y, MaxWeight} /\ Min({y, MaxWeight}) <= MaxWeight
  BY <1>1, Pairs, MostWeighs
<1>3. Min({y, MaxWeight}) \in 1..MaxWeight
  BY <1>1, <1>2, MostWeighs
<1>4. QED
  BY <1>3 DEF clampAllocateWeight, y

LEMMA RoundedInt == \A a \in Int, b \in Nat \ {0} : Rounded(a, b) \in Int
<1> SUFFICES ASSUME NEW a \in Int, NEW b \in Nat \ {0} PROVE Rounded(a, b) \in Int
  OBVIOUS
<1> DEFINE x == 2 * a + b
           y == 2 * b
<1>1. x \in Int /\ y \in Int /\ y > 0
  OBVIOUS
<1> HIDE DEF x, y
<1>2. x \div y \in Int
  BY <1>1
<1>3. QED
  BY <1>2 DEF Rounded, x, y

LEMMA Observed ==
    ASSUME NEW v \in ViewRecord, NEW d \in Dim, NEW i \in Item
    PROVE  v.obs[d][i] \in Nat \cup {Unknown}
  BY DEF ViewRecord

LEMMA Dims == {"latency", "quality", "throttled", "speed", "monthly", "balance", "perCall",
               "cost", "multiplier", "requests", "load", "busy"} \subseteq Dim
  BY DEF Dim, WeightDim, LowerBetter, HigherBetter

LEMMA RemainingKnown ==
    ASSUME NEW v \in ViewRecord, NEW i \in Item
    PROVE  estimateRemainingRequests(v, i) \in Nat \cup {Unknown}
<1> DEFINE Positive(d) == v.obs[d][i] \notin {Unknown, 0}
           price == IF Positive("perCall") THEN v.obs["perCall"][i]
                    ELSE IF ~Positive("cost") THEN Unknown
                    ELSE v.obs["cost"][i] * (IF Positive("multiplier") THEN v.obs["multiplier"][i] ELSE 1)
<1>1. \A d \in {"perCall", "cost", "multiplier", "monthly", "balance"} :
          v.obs[d][i] \in Nat \cup {Unknown}
  BY Observed, Dims
<1>2. price \in (Nat \ {0}) \cup {Unknown}
  <2>1. CASE Positive("perCall")
    BY <1>1, <2>1
  <2>2. CASE ~Positive("perCall") /\ ~Positive("cost")
    BY <2>2
  <2>3. CASE ~Positive("perCall") /\ Positive("cost")
    <3> DEFINE c == v.obs["cost"][i]
               m == IF Positive("multiplier") THEN v.obs["multiplier"][i] ELSE 1
    <3>1. c \in Nat \ {0} /\ m \in Nat \ {0} /\ price = c * m
      BY <1>1, <2>3
    <3> HIDE DEF c, m, price
    <3>2. c * m \in Nat \ {0}
      BY <3>1
    <3>3. QED
      BY <3>1, <3>2
  <2>4. QED
    BY <2>1, <2>2, <2>3
<1> DEFINE left == v.obs["balance"][i] \div price
<1>3. CASE v.obs["monthly"][i] # Unknown
  BY <1>1, <1>3 DEF estimateRemainingRequests
<1>4. CASE v.obs["monthly"][i] = Unknown /\ v.obs["balance"][i] \in {Unknown, 0}
  BY <1>1, <1>4 DEF estimateRemainingRequests
<1>5. CASE /\ v.obs["monthly"][i] = Unknown /\ v.obs["balance"][i] \notin {Unknown, 0}
           /\ price = Unknown
  BY <1>1, <1>5 DEF estimateRemainingRequests
<1>6. CASE /\ v.obs["monthly"][i] = Unknown /\ v.obs["balance"][i] \notin {Unknown, 0}
           /\ price # Unknown
  <2>1. estimateRemainingRequests(v, i) = left
    BY <1>6 DEF estimateRemainingRequests
  <2>2. v.obs["balance"][i] \in Nat
    BY <1>1, <1>6
  <2> HIDE DEF price
  <2>3. price \in Nat /\ price > 0
    BY <1>2, <1>6
  <2>4. left \in Nat
    BY <2>2, <2>3
  <2>5. QED
    BY <2>1, <2>4
<1> HIDE DEF price
<1>7. QED
  BY <1>3, <1>4, <1>5, <1>6

LEMMA FactorInt == ASSUME NEW v \in ViewRecord, NEW i \in Item PROVE Factor(v, i) \in Int
<1> DEFINE late == OrElse(v.obs["latency"][i], 0)
           over == IF LateMs = 0 \/ late <= LateMs THEN 0
                   ELSE Min({100, ((late - LateMs) * 100) \div LateMs})
           failing == FullRate - OrElse(v.obs["quality"][i], FullRate)
           penalty == IF v.obs["throttled"][i] # Unknown THEN 100 ELSE Max({over, failing})
           speed == OrElse(v.obs["speed"][i], 100)
<1>1. late \in Int /\ failing \in Int /\ speed \in Int
  BY Observed, Dims DEF OrElse, FullRate
<1> HIDE DEF late, failing, speed
<1>2. over \in Int
  <2> DEFINE x == (late - LateMs) * 100
  <2>1. x \in Int /\ LateMs \in Nat
    BY <1>1, RankingAssumption
  <2> HIDE DEF x
  <2>2. CASE LateMs # 0
    <3>1. x \div LateMs \in Int
      BY <2>1, <2>2
    <3> DEFINE y == x \div LateMs
    <3>2. y \in Int
      BY <3>1
    <3> HIDE DEF y
    <3>3. Min({100, y}) \in {100, y}
      BY <3>2, Pairs
    <3>4. Min({100, y}) \in Int
      BY <3>2, <3>3
    <3>5. QED
      BY <3>4 DEF x, y, over
  <2>3. QED
    BY <2>2
<1> HIDE DEF over
<1>3. penalty \in Int
  BY <1>1, <1>2, Pairs
<1> HIDE DEF penalty
<1> DEFINE y == HealthWeight * penalty
<1>4. y \in Int
  BY <1>3, RankingAssumption
<1> HIDE DEF y
<1>5. y \div 100 \in Int
  BY <1>4
<1>6. 100 - (y \div 100) \in Int
  BY <1>5
<1>7. memberHealthFactor(v, i) = 100 - (y \div 100)
  BY DEF memberHealthFactor, y, penalty, over, failing, late
<1>8. Min({memberHealthFactor(v, i), speed}) \in Int
  BY <1>1, <1>6, <1>7, Pairs
<1>9. QED
  BY <1>8 DEF Factor, speed

(* The weights are at least one and at most MaxWeight, for whatever is     *)
(* known of the members.                                                   *)
LEMMA WeightsInRange ==
    ASSUME NEW v \in ViewRecord, NEW S, S \subseteq Item
    PROVE  allocateWeights(v, S) \in [S -> 1..MaxWeight]
<1> DEFINE left(i) == estimateRemainingRequests(v, i)
           known == {i \in S : left(i) # Unknown}
           most == IF known = {} THEN 0 ELSE Max({left(i) : i \in known})
           scaled(i) == IF most = 0 THEN 1
                        ELSE clampAllocateWeight(Rounded(left(i) * MaxWeight, most))
           upTo(x) == {i \in known : scaled(i) <= x}
           median == IF known = {} THEN 1
                     ELSE Min({x \in {scaled(i) : i \in known} :
                                  2 * Cardinality(upTo(x)) > Cardinality(known)})
           weight(i) == IF i \in known THEN scaled(i) ELSE median
<1>1. IsFiniteSet(S) /\ IsFiniteSet(known)
  BY FS_Subset, RankingAssumption
<1>2. \A i \in known : left(i) \in Nat
  BY RemainingKnown, RankingAssumption
<1> HIDE DEF left
<1>3. most \in Nat
  <2> DEFINE f == [i \in known |-> left(i)]
             L == {f[i] : i \in known}
  <2>1. CASE known = {}
    BY <2>1
  <2>2. CASE known # {}
    <3>1. L # {} /\ L \subseteq Nat /\ L = {left(i) : i \in known}
      BY <1>2, <2>2
    <3>2. IsFiniteSet(L)
      <4> HIDE DEF known, f
      <4>1. QED
        BY <1>1, ImageFinite
    <3>3. most = Max(L)
      BY <2>2, <3>1
    <3> HIDE DEF L, most
    <3>4. Max(L) \in L
      <4>1. L \subseteq Int
        BY <3>1
      <4>2. QED
        BY <3>1, <3>2, <4>1, MaxOf
    <3>5. QED
      BY <3>1, <3>3, <3>4
  <2>3. QED
    BY <2>1, <2>2
<1> HIDE DEF most
<1>4. \A i \in known : scaled(i) \in 1..MaxWeight
  <2> SUFFICES ASSUME NEW i \in known PROVE scaled(i) \in 1..MaxWeight
    OBVIOUS
  <2>1. CASE most = 0
    BY <2>1, RankingAssumption
  <2>2. CASE most # 0
    <3> DEFINE x == left(i) * MaxWeight
    <3>1. x \in Int
      BY <1>2, RankingAssumption
    <3> HIDE DEF x
    <3>2. Rounded(x, most) \in Int
      BY <1>3, <2>2, <3>1, RoundedInt
    <3>3. clampAllocateWeight(Rounded(x, most)) \in 1..MaxWeight
      BY <3>2, Clamped
    <3>4. scaled(i) = clampAllocateWeight(Rounded(x, most))
      BY <2>2 DEF x
    <3>5. QED
      BY <3>3, <3>4
  <2>3. QED
    BY <2>1, <2>2
<1> HIDE DEF scaled
<1>5. median \in Int
  <2> DEFINE f == [i \in known |-> scaled(i)]
             V == {f[i] : i \in known}
             M == {x \in V : 2 * Cardinality(upTo(x)) > Cardinality(known)}
  <2>1. CASE known = {}
    BY <2>1
  <2>2. CASE known # {}
    <3>1. V # {} /\ V \subseteq 1..MaxWeight /\ V = {scaled(i) : i \in known}
      BY <1>4, <2>2
    <3>2. median = Min(M)
      BY <2>2, <3>1
    <3>3. IsFiniteSet(V)
      <4> HIDE DEF known, f
      <4>1. QED
        BY <1>1, ImageFinite
    <3>4. V \subseteq Int
      BY <3>1, MostWeighs
    <3>5. \A i \in known : scaled(i) \in V
      BY <3>1
    <3> HIDE DEF V, median
    <3>6. Max(V) \in V /\ \A y \in V : Max(V) >= y
      BY <3>1, <3>3, <3>4, MaxOf
    <3>7. upTo(Max(V)) = known
      BY <3>4, <3>5, <3>6
    <3>8. Cardinality(known) \in Nat \ {0}
      <4> HIDE DEF known
      <4>1. QED
        BY <1>1, <2>2, FS_CardinalityType, FS_EmptySet
    <3> HIDE DEF known, upTo
    <3>9. 2 * Cardinality(upTo(Max(V))) > Cardinality(known)
      BY <3>7, <3>8
    <3>10. Max(V) \in M
      BY <3>6, <3>9
    <3>11. M \subseteq V
      OBVIOUS
    <3> HIDE DEF M
    <3>12. IsFiniteSet(M) /\ M # {} /\ M \subseteq Int
      BY <3>3, <3>4, <3>10, <3>11, FS_Subset
    <3>13. Min(M) \in M
      BY <3>12, MinOf
    <3>14. QED
      BY <3>2, <3>12, <3>13
  <2>3. QED
    BY <2>1, <2>2
<1> HIDE DEF median
<1>6. ASSUME NEW i \in S
      PROVE  clampAllocateWeight(Rounded(weight(i) * Factor(v, i), 100)) \in 1..MaxWeight
  <2>1. weight(i) \in Int
    BY <1>4, <1>5, RankingAssumption
  <2>2. Factor(v, i) \in Int
    BY FactorInt
  <2> HIDE DEF weight
  <2> DEFINE x == weight(i) * Factor(v, i)
  <2>3. x \in Int
    BY <2>1, <2>2
  <2> HIDE DEF x
  <2>4. Rounded(x, 100) \in Int
    BY <2>3, RoundedInt
  <2>5. clampAllocateWeight(Rounded(x, 100)) \in 1..MaxWeight
    BY <2>4, Clamped
  <2>6. QED
    BY <2>5 DEF x
<1> HIDE DEF weight
<1>7. allocateWeights(v, S) = [i \in S |-> clampAllocateWeight(Rounded(weight(i) * Factor(v, i), 100))]
  BY DEF allocateWeights, weight, median, upTo, scaled, most, known, left
<1>8. QED
  BY <1>6, <1>7

-----------------------------------------------------------------------------
(* The sum of the accumulators of any k members is at most Cap(k), one way *)
(* and the other.  The bound has to be on every sum and not on every       *)
(* accumulator: the winner pays for all that were planned with, and what   *)
(* it can fall to follows from what it and the others can have together.   *)

Cap(k) == k * (2 * Cardinality(Item) - 1 - k) * MaxWeight

Balanced(values) ==
    /\ values \in [Item -> Int]
    /\ \A X \in SUBSET Item :
          /\ SumOver(values, X) <= Cap(Cardinality(X))
          /\ -Cap(Cardinality(X)) <= SumOver(values, X)

LEMMA Sizes ==
    /\ IsFiniteSet(Item) /\ Cardinality(Item) \in Nat
    /\ \A X \in SUBSET Item : /\ IsFiniteSet(X)
                              /\ Cardinality(X) \in 0..Cardinality(Item)
<1>1. IsFiniteSet(Item) /\ Cardinality(Item) \in Nat
  BY FS_CardinalityType, RankingAssumption
<1>2. ASSUME NEW X \in SUBSET Item
      PROVE  IsFiniteSet(X) /\ Cardinality(X) \in 0..Cardinality(Item)
  <2>1. IsFiniteSet(X) /\ Cardinality(X) <= Cardinality(Item)
    BY <1>1, FS_Subset
  <2>2. Cardinality(X) \in Nat
    BY <2>1, FS_CardinalityType
  <2>3. QED
    BY <1>1, <2>1, <2>2
<1>3. QED
  BY <1>1, <1>2

(* What the two ways of bounding a sum give together. *)
LEMMA Parabola ==
    ASSUME NEW a \in Int, NEW k \in Int, NEW q \in Int, NEW W \in Int
    PROVE  /\ (k - q) * (a - (k - q)) * W + q * ((k + 1) * (a - (k + 1)) * W) + q * (q + 1) * W
              = (1 + q) * (k * (a - k) * W)
           /\ (k + q) * (a - (k + q)) * W + q * ((k - 1) * (a - (k - 1)) * W) + q * (q + 1) * W
              = (1 + q) * (k * (a - k) * W)
  BY SMT

LEMMA Together ==
    ASSUME NEW s \in Int, NEW x \in Int, NEW y \in Int, NEW u \in Int,
           NEW q \in Nat, NEW W \in Int, NEW c \in Int,
           s <= x + q * (u + W), s <= y - u + q * W,
           x + q * y + q * (q + 1) * W = (1 + q) * c
    PROVE  s <= c
<1>1. q * s <= q * (y - u + q * W)
  BY SMT
<1>2. q * (y - u + q * W) = q * y - q * u + q * q * W
  BY SMT
<1>3. q * (u + W) = q * u + q * W
  BY SMT
<1>4. q * (q + 1) * W = q * q * W + q * W
  BY SMT
<1>5. (1 + q) * s = s + q * s
  BY SMT
<1>6. (1 + q) * s <= (1 + q) * c
  <2> DEFINE qs == q * s
             qy == q * y
             qu == q * u
             qqW == q * q * W
             qW == q * W
             z == q * (y - u + q * W)
             t == q * (u + W)
             e == q * (q + 1) * W
  <2>1. qs \in Int /\ qy \in Int /\ qu \in Int /\ qqW \in Int /\ qW \in Int
    BY SMT
  <2>2. qs <= z /\ z = qy - qu + qqW /\ t = qu + qW /\ e = qqW + qW
    BY <1>1, <1>2, <1>3, <1>4
  <2>3. s <= x + t /\ x + qy + e = (1 + q) * c /\ (1 + q) * s = s + qs
    BY <1>5
  <2> HIDE DEF qs, qy, qu, qqW, qW, z, t, e
  <2>4. s + qs <= x + (qu + qW) + (qy - qu + qqW)
    BY <2>1, <2>2, <2>3
  <2>5. x + (qu + qW) + (qy - qu + qqW) = x + qy + (qqW + qW)
    BY <2>1
  <2>6. QED
    BY <2>1, <2>2, <2>3, <2>4, <2>5
<1>7. SUFFICES ASSUME ~(s <= c) PROVE FALSE
  OBVIOUS
<1>8. (1 + q) * s >= (1 + q) * (c + 1)
  BY <1>7, SMT
<1>9. (1 + q) * (c + 1) = (1 + q) * c + (1 + q)
  BY SMT
<1> DEFINE m == (1 + q) * s
           n == (1 + q) * c
           l == (1 + q) * (c + 1)
<1>10. m \in Int /\ n \in Int /\ m >= l /\ l = n + (1 + q) /\ m <= n
  BY <1>6, <1>8, <1>9
<1> HIDE DEF m, n, l
<1>11. QED
  BY <1>10

LEMMA CapGrows ==
    ASSUME NEW j \in Nat, NEW k \in Nat, j <= k, k <= Cardinality(Item)
    PROVE  Cap(j) \in Int /\ 0 <= Cap(j) /\ Cap(j) <= Cap(k)
<1> DEFINE N == Cardinality(Item)
           W == MaxWeight
           x == j * (2 * N - 1 - j)
           y == k * (2 * N - 1 - k)
<1>1. N \in Nat /\ W \in Nat
  BY Sizes, RankingAssumption
<1>2. PICK d \in Nat : k = j + d
  <2>1. k - j \in Nat /\ k = j + (k - j)
    OBVIOUS
  <2>2. QED
    BY <2>1
<1>3. PICK e \in Nat : N = j + d + e
  <2>1. N - k \in Nat /\ N = k + (N - k)
    BY <1>1
  <2>2. QED
    BY <1>2, <2>1
<1> HIDE DEF N
<1>4. x \in Nat
  <2>1. CASE j = 0
    BY <1>1, <2>1
  <2>2. CASE j # 0
    <3>1. 2 * N - 1 - j \in Nat
      BY <1>3, <2>2
    <3>2. QED
      BY <3>1
  <2>3. QED
    BY <2>1, <2>2
<1>5. y = x + d * (d + 2 * e - 1)
  BY <1>2, <1>3, SMT
<1>6. d * (d + 2 * e - 1) \in Nat
  <2>1. CASE d = 0
    BY <2>1
  <2>2. CASE d # 0
    <3>1. d + 2 * e - 1 \in Nat
      BY <2>2
    <3>2. QED
      BY <3>1
  <2>3. QED
    BY <2>1, <2>2
<1>7. Cap(j) = x * W /\ Cap(k) = y * W
  BY DEF Cap, N
<1> DEFINE z == d * (d + 2 * e - 1)
<1>8. y = x + z /\ z \in Nat
  BY <1>5, <1>6
<1> HIDE DEF x, y, z, W
<1>9. x * W \in Nat /\ z * W \in Nat
  BY <1>1, <1>4, <1>8
<1>10. (x + z) * W = x * W + z * W
  BY <1>1, <1>4, <1>8
<1>11. y * W = x * W + z * W
  BY <1>8, <1>10
<1> DEFINE xw == x * W
           zw == z * W
<1>12. xw \in Nat /\ zw \in Nat /\ Cap(j) = xw /\ Cap(k) = xw + zw
  BY <1>7, <1>9, <1>11
<1> HIDE DEF xw, zw
<1>13. QED
  BY <1>12

-----------------------------------------------------------------------------
(* A step of the allocate mode.                                            *)

(* The largest wins, the smaller of equals.                                *)
LEMMA WinnerIn ==
    ASSUME NEW S, S \subseteq Item, S # {}, NEW values \in [S -> Int]
    PROVE  /\ Winner(values) \in S
           /\ \A j \in S : values[j] <= values[Winner(values)]
<1> DEFINE R == {p \in S \X S : \/ values[p[1]] > values[p[2]]
                                \/ values[p[1]] = values[p[2]] /\ p[1] < p[2]}
<1>1. \A i, j \in S : <<i, j>> \in R <=> \/ values[i] > values[j]
                                         \/ values[i] = values[j] /\ i < j
  OBVIOUS
<1>2. \A i \in S : i \in Nat /\ values[i] \in Int
  BY RankingAssumption
<1> HIDE DEF R
<1>3. Orders(R, S)
  <2>1. ASSUME NEW i \in S, NEW j \in S, i # j PROVE <<i, j>> \in R \/ <<j, i>> \in R
    BY <1>1, <1>2, <2>1
  <2>2. ASSUME NEW i \in S, NEW j \in S, NEW k \in S, <<i, j>> \in R, <<j, k>> \in R
        PROVE  <<i, k>> \in R
    BY <1>1, <1>2, <2>2
  <2>3. QED
    BY <2>1, <2>2, Zenon DEF Orders
<1>4. IsFiniteSet(S)
  BY Sizes
<1>5. PICK b \in S : \A j \in S \ {b} : <<b, j>> \in R
  BY <1>3, <1>4, OneIsFirst
<1> DEFINE Wins(i) == \A j \in S \ {i} : values[i] > values[j] \/ (values[i] = values[j] /\ i < j)
<1>6. Wins(b)
  BY <1>1, <1>5
<1>7. Winner(values) = CHOOSE i \in S : Wins(i)
  BY DEF Winner
<1> HIDE DEF Wins
<1>8. Winner(values) \in S /\ Wins(Winner(values))
  BY <1>6, <1>7
<1>9. QED
  BY <1>2, <1>8 DEF Wins

(* The winner pays for all, and a sum over members that did not win gains  *)
(* their weights.                                                          *)
Gains(after, best, values, S, weights) ==
    /\ best \in S
    /\ after \in [Item -> Int]
    /\ \A j \in S : values[j] + weights[j] <= values[best] + weights[best]
    /\ after[best] = (values[best] + weights[best]) - SumOver(weights, S)
    /\ SumOver(weights, S) \in Int
    /\ \A X \in SUBSET (Item \ {best}) :
          SumOver(after, X) = SumOver(values, X) + SumOver(weights, X \cap S)

LEMMA LosersGain ==
    ASSUME NEW values \in [Item -> Int], NEW S, S \subseteq Item, S # {},
           NEW weights \in [S -> 1..MaxWeight]
    PROVE  Gains(allocateStep(values, weights).after, allocateStep(values, weights).best,
                 values, S, weights)
<1>a. PICK after : after = allocateStep(values, weights).after
  OBVIOUS
<1>b. PICK best : best = allocateStep(values, weights).best
  OBVIOUS
<1> DEFINE gained == [i \in S |-> values[i] + weights[i]]
           total == SumOver(weights, S)
<1>1. \A i \in S : weights[i] \in 1..MaxWeight /\ weights[i] \in Int /\ i \in Item
  BY RankingAssumption
<1>2. \A i \in Item : values[i] \in Int
  OBVIOUS
<1>3. gained \in [S -> Int]
  BY <1>1, <1>2
<1>4. best = Winner(gained)
  BY <1>b DEF allocateStep
<1>5. after = [i \in Item |-> IF i \notin S THEN values[i]
                              ELSE gained[i] - IF i = best THEN total ELSE 0]
  BY <1>4, <1>a DEF allocateStep, Total
<1>6. total \in Int
  BY <1>1, Sizes, SumInt
<1>7. \A i \in S : gained[i] = values[i] + weights[i]
  OBVIOUS
<1> HIDE DEF gained, total
<1>8. best \in S /\ \A j \in S : gained[j] <= gained[best]
  BY <1>3, <1>4, WinnerIn
<1>9. ASSUME NEW i \in Item PROVE after[i] \in Int
  BY <1>2, <1>3, <1>5, <1>6
<1>10. after \in [Item -> Int]
  BY <1>5, <1>9
<1>11. after[best] = gained[best] - total
  BY <1>1, <1>5, <1>8
<1>12. ASSUME NEW X \in SUBSET (Item \ {best})
       PROVE  SumOver(after, X) = SumOver(values, X) + SumOver(weights, X \cap S)
  <2> DEFINE A == X \ S
             B == X \cap S
  <2>1. A \subseteq X /\ B \subseteq X /\ A \cap B = {} /\ X = A \cup B /\ B \subseteq S
    OBVIOUS
  <2>2. IsFiniteSet(X) /\ IsFiniteSet(A) /\ IsFiniteSet(B) /\ X \subseteq Item /\ best \notin X
    BY <2>1, Sizes, FS_Subset
  <2>3. \A i \in A : after[i] = values[i]
    BY <1>5, <2>2
  <2>4. \A i \in B : after[i] = values[i] + weights[i] /\ values[i] \in Int /\ weights[i] \in Int
    <3> SUFFICES ASSUME NEW i \in B
                 PROVE  after[i] = values[i] + weights[i] /\ values[i] \in Int /\ weights[i] \in Int
      OBVIOUS
    <3>1. i \in S /\ i \in Item /\ i # best
      BY <2>2
    <3>2. after[i] = gained[i] - 0
      BY <1>5, <3>1
    <3>3. gained[i] = values[i] + weights[i] /\ values[i] \in Int /\ weights[i] \in Int
      BY <1>1, <1>2, <1>7, <3>1
    <3>4. QED
      BY <3>2, <3>3
  <2> HIDE DEF A, B
  <2>5. SumOver(after, A) = SumOver(values, A)
    BY <2>2, <2>3, SumSame
  <2>6. SumOver(after, B) = SumOver(values, B) + SumOver(weights, B)
    BY <2>2, <2>4, SumPlus
  <2>7. \A i \in X : values[i] \in Int /\ after[i] \in Int
    BY <1>2, <1>9, <2>2
  <2>8. SumOver(after, A \cup B) = SumOver(after, A) + SumOver(after, B)
    BY <2>1, <2>2, <2>7, SumUnion
  <2>9. SumOver(values, A \cup B) = SumOver(values, A) + SumOver(values, B)
    BY <2>1, <2>2, <2>7, SumUnion
  <2>10. /\ SumOver(values, A) \in Int /\ SumOver(values, B) \in Int
         /\ SumOver(weights, B) \in Int
    <3>1. (\A i \in A : values[i] \in Int) /\ (\A i \in B : values[i] \in Int /\ weights[i] \in Int)
      BY <2>1, <2>4, <2>7
    <3>2. QED
      BY <2>2, <3>1, SumInt
  <2> DEFINE va == SumOver(values, A)
             vb == SumOver(values, B)
             wb == SumOver(weights, B)
  <2>11. SumOver(after, X) = va + (vb + wb) /\ SumOver(values, X) = va + vb
    BY <2>1, <2>5, <2>6, <2>8, <2>9
  <2>12. va + (vb + wb) = (va + vb) + wb
    BY <2>10
  <2> HIDE DEF va, vb, wb
  <2>13. SumOver(after, X) = SumOver(values, X) + wb
    BY <2>11, <2>12
  <2>14. QED
    BY <2>13 DEF wb, B
<1>13. \A j \in S : values[j] + weights[j] <= values[best] + weights[best]
  BY <1>7, <1>8
<1>14. after[best] = (values[best] + weights[best]) - total
  <2>1. gained[best] = values[best] + weights[best]
    BY <1>7, <1>8
  <2>2. QED
    BY <1>11, <2>1, Zenon
<1>15. Gains(after, best, values, S, weights)
  BY <1>6, <1>8, <1>10, <1>12, <1>13, <1>14, Zenon DEF total, Gains
<1>16. QED
  BY <1>15, <1>a, <1>b

LEMMA CapInt == \A k \in Int : Cap(k) \in Int
<1> SUFFICES ASSUME NEW k \in Int PROVE Cap(k) \in Int
  OBVIOUS
<1> DEFINE N == Cardinality(Item)
           b == 2 * N - 1 - k
           c == k * b
<1>1. N \in Int /\ MaxWeight \in Int
  BY Sizes, RankingAssumption
<1>2. b \in Int
  BY <1>1
<1> HIDE DEF b
<1>3. c \in Int
  BY <1>2
<1> HIDE DEF c
<1>4. c * MaxWeight \in Int
  BY <1>1, <1>3
<1>5. QED
  BY <1>4 DEF Cap, c, b

(* Parabola for Cap. *)
LEMMA CapBetween ==
    ASSUME NEW k \in Int, NEW q \in Int
    PROVE  /\ Cap(k - q) + q * Cap(k + 1) + q * (q + 1) * MaxWeight = (1 + q) * Cap(k)
           /\ Cap(k + q) + q * Cap(k - 1) + q * (q + 1) * MaxWeight = (1 + q) * Cap(k)
<1> DEFINE a == 2 * Cardinality(Item) - 1
<1>1. a \in Int /\ MaxWeight \in Int
  BY Sizes, RankingAssumption
<1>2. \A j \in Int : Cap(j) = j * (a - j) * MaxWeight
  BY DEF Cap
<1> HIDE DEF a
<1>3. /\ k - q \in Int /\ k + q \in Int /\ k + 1 \in Int /\ k - 1 \in Int
  OBVIOUS
<1>4. QED
  BY <1>1, <1>2, <1>3, Parabola

(* What the weights of some members can sum up to. *)
LEMMA WeightsSum ==
    ASSUME NEW S, S \subseteq Item, NEW weights \in [S -> 1..MaxWeight], NEW B \in SUBSET S
    PROVE  /\ SumOver(weights, B) \in Nat
           /\ SumOver(weights, B) <= Cardinality(B) * MaxWeight
<1>1. \A i \in B : weights[i] \in 1..MaxWeight
  OBVIOUS
<1>2. MaxWeight \in Int /\ \A i \in B : /\ weights[i] \in Nat /\ weights[i] \in Int
                                        /\ weights[i] <= MaxWeight
  BY <1>1, RankingAssumption
<1>3. IsFiniteSet(B)
  BY Sizes
<1>4. QED
  BY <1>2, <1>3, SumAtMost, SumNonNegative

(* Members that did not win have at most what the winner had before it     *)
(* paid, each.                                                             *)
LEMMA LosersSum ==
    ASSUME NEW values \in [Item -> Int], NEW S, S \subseteq Item,
           NEW weights \in [S -> 1..MaxWeight], NEW best \in S,
           \A j \in S : values[j] + weights[j] <= values[best] + weights[best],
           NEW B \in SUBSET S
    PROVE  SumOver(values, B) + SumOver(weights, B) <= Cardinality(B) * (values[best] + MaxWeight)
<1> DEFINE gained == [i \in B |-> values[i] + weights[i]]
           c == values[best] + MaxWeight
<1>1. \A i \in S : weights[i] \in 1..MaxWeight /\ weights[i] \in Int /\ values[i] \in Int
  BY RankingAssumption
<1>2. c \in Int
  BY <1>1, RankingAssumption
<1>3. \A i \in B : gained[i] \in Int /\ gained[i] <= c
  <2> SUFFICES ASSUME NEW i \in B PROVE gained[i] \in Int /\ gained[i] <= c
    OBVIOUS
  <2>1. /\ values[i] + weights[i] <= values[best] + weights[best]
        /\ weights[best] <= MaxWeight /\ weights[best] \in Int /\ values[best] \in Int
        /\ values[i] \in Int /\ weights[i] \in Int /\ MaxWeight \in Int
    BY <1>1, RankingAssumption
  <2>2. QED
    BY <2>1
<1>4. \A i \in B : /\ values[i] \in Int /\ weights[i] \in Int
                   /\ gained[i] = values[i] + weights[i]
  BY <1>1
<1>5. IsFiniteSet(B)
  BY Sizes
<1> HIDE DEF gained, c
<1>6. SumOver(gained, B) = SumOver(values, B) + SumOver(weights, B)
  BY <1>4, <1>5, SumPlus
<1>7. SumOver(gained, B) <= Cardinality(B) * c
  BY <1>2, <1>3, <1>5, SumAtMost
<1>8. QED
  BY <1>6, <1>7 DEF c

(* A step leaves every sum within its bound, whoever is planned with.      *)
LEMMA StepBalanced ==
    ASSUME NEW values, Balanced(values), NEW S, S \subseteq Item, S # {},
           NEW weights \in [S -> 1..MaxWeight]
    PROVE  Balanced(allocateStep(values, weights).after)
<1> DEFINE after == allocateStep(values, weights).after
           best == allocateStep(values, weights).best
           u == values[best]
<1>1. values \in [Item -> Int]
  BY DEF Balanced
<1>2. \A X \in SUBSET Item : /\ SumOver(values, X) <= Cap(Cardinality(X))
                             /\ -Cap(Cardinality(X)) <= SumOver(values, X)
  BY DEF Balanced
<1> HIDE DEF after, best
<1>3. /\ best \in S
      /\ after \in [Item -> Int]
      /\ \A j \in S : values[j] + weights[j] <= values[best] + weights[best]
      /\ after[best] = (values[best] + weights[best]) - SumOver(weights, S)
      /\ SumOver(weights, S) \in Int
      /\ \A X \in SUBSET (Item \ {best}) :
            SumOver(after, X) = SumOver(values, X) + SumOver(weights, X \cap S)
  <2>1. Gains(after, best, values, S, weights)
    BY <1>1, LosersGain DEF after, best
  <2>2. QED
    BY <2>1, Zenon DEF Gains
<1>4. \A X \in SUBSET Item : SumOver(values, X) \in Int /\ SumOver(after, X) \in Int
  BY <1>1, <1>3, Sizes, SumInt
<1>5. \A X \in SUBSET Item : IsFiniteSet(X) /\ Cardinality(X) \in Nat
  BY Sizes
<1>6. u \in Int /\ MaxWeight \in Int /\ best \in Item
  BY <1>1, <1>3, RankingAssumption
<1> HIDE DEF u
<1>7. \A X \in SUBSET Item, Y \in SUBSET Item :
          X \cap Y = {} => /\ SumOver(values, X \cup Y) = SumOver(values, X) + SumOver(values, Y)
                           /\ Cardinality(X \cup Y) = Cardinality(X) + Cardinality(Y)
  <2> SUFFICES ASSUME NEW X \in SUBSET Item, NEW Y \in SUBSET Item, X \cap Y = {}
               PROVE  /\ SumOver(values, X \cup Y) = SumOver(values, X) + SumOver(values, Y)
                      /\ Cardinality(X \cup Y) = Cardinality(X) + Cardinality(Y)
    OBVIOUS
  <2>1. SumOver(values, X \cup Y) = SumOver(values, X) + SumOver(values, Y)
    <3>1. IsFiniteSet(Item) /\ \A x \in Item : values[x] \in Int
      BY <1>1, Sizes
    <3>2. QED
      BY <3>1, SumUnion
  <2>2. Cardinality(X \cup Y) = Cardinality(X) + Cardinality(Y) - Cardinality(X \cap Y)
    BY <1>5, FS_Union
  <2>3. Cardinality(X \cap Y) = 0
    BY FS_EmptySet
  <2>4. QED
    BY <1>5, <2>1, <2>2, <2>3
<1>8. \A X \in SUBSET Item : best \notin X =>
          /\ SumOver(values, X \cup {best}) = SumOver(values, X) + u
          /\ Cardinality(X \cup {best}) = Cardinality(X) + 1
  <2> SUFFICES ASSUME NEW X \in SUBSET Item, best \notin X
               PROVE  /\ SumOver(values, X \cup {best}) = SumOver(values, X) + u
                      /\ Cardinality(X \cup {best}) = Cardinality(X) + 1
    OBVIOUS
  <2>1. {best} \in SUBSET Item /\ X \cap {best} = {}
    BY <1>6
  <2>2. SumOver(values, {best}) = u
    <3>1. IsFiniteSet({best}) /\ {best} \ {best} = {} /\ best \in {best}
      BY FS_Singleton
    <3>2. \A x \in {best} : values[x] \in Int
      BY <1>1, <1>6
    <3>3. SumOver(values, {best}) = values[best] + SumOver(values, {best} \ {best})
      BY <3>1, <3>2, SumElement
    <3>4. SumOver(values, {best}) = values[best] + 0
      BY <3>1, <3>3, SumEmpty
    <3>5. QED
      BY <1>6, <3>4 DEF u
  <2>3. Cardinality({best}) = 1
    BY FS_Singleton
  <2>4. QED
    BY <1>7, <2>1, <2>2, <2>3
<1>9. ASSUME NEW X \in SUBSET Item, best \notin X
      PROVE  /\ SumOver(after, X) <= Cap(Cardinality(X))
             /\ -Cap(Cardinality(X)) <= SumOver(after, X)
  <2> DEFINE A == X \ S
             B == X \cap S
             k == Cardinality(X)
             q == Cardinality(B)
             s == SumOver(after, X)
             vx == SumOver(values, X)
             va == SumOver(values, A)
             vb == SumOver(values, B)
             wb == SumOver(weights, B)
  <2>1. A \in SUBSET Item /\ B \in SUBSET Item /\ A \cap B = {} /\ A \cup B = X /\ B \in SUBSET S
    OBVIOUS
  <2>2. s = vx + wb
    BY <1>3, <1>9
  <2>3. vx = va + vb /\ k = Cardinality(A) + q
    BY <1>7, <2>1
  <2>4. wb \in Nat /\ wb <= q * MaxWeight
    BY <2>1, WeightsSum
  <2>5. vb + wb <= q * (u + MaxWeight)
    BY <1>1, <1>3, <2>1, LosersSum DEF u
  <2>6. s \in Int /\ vx \in Int /\ va \in Int /\ vb \in Int /\ k \in Nat /\ q \in Nat
        /\ Cardinality(A) \in Nat
    BY <1>4, <1>5, <2>1
  <2>7. va <= Cap(Cardinality(A)) /\ Cardinality(A) = k - q
    <3>1. Cardinality(A) = k - q
      BY <2>3, <2>6
    <3>2. QED
      BY <1>2, <2>1, <3>1
  <2>8. vx + u <= Cap(k + 1)
    <3>1. X \cup {best} \in SUBSET Item
      BY <1>6
    <3>2. SumOver(values, X \cup {best}) <= Cap(Cardinality(X \cup {best}))
      BY <1>2, <3>1
    <3>3. QED
      BY <1>8, <1>9, <3>2
  <2>9. -Cap(k) <= vx
    BY <1>2
  <2> DEFINE x == Cap(k - q)
             y == Cap(k + 1)
             c == Cap(k)
             qu == q * (u + MaxWeight)
             qw == q * MaxWeight
  <2>10. x \in Int /\ y \in Int /\ c \in Int
    BY <2>6, CapInt
  <2>11. x + q * y + q * (q + 1) * MaxWeight = (1 + q) * c
    BY <2>6, CapBetween, SMTT(60)
  <2>12. qu \in Int /\ qw \in Int
    BY <1>6, <2>6
  <2>13. va <= x /\ vx + u <= y /\ -c <= vx /\ vb + wb <= qu /\ wb <= qw
    BY <2>4, <2>5, <2>7, <2>8, <2>9
  <2> HIDE DEF A, B, k, q, s, vx, va, vb, wb, x, y, c
  <2>14. s <= x + qu /\ s <= y - u + qw /\ -c <= s
    <3> HIDE DEF qu, qw
    <3>1. QED
      BY <1>6, <2>2, <2>3, <2>4, <2>6, <2>10, <2>12, <2>13
  <2>15. s <= c
    BY <1>6, <2>6, <2>10, <2>11, <2>14, Together
  <2>16. QED
    BY <2>14, <2>15 DEF s, c, k
<1>10. ASSUME NEW X \in SUBSET Item, best \in X
       PROVE  /\ SumOver(after, X) <= Cap(Cardinality(X))
              /\ -Cap(Cardinality(X)) <= SumOver(after, X)
  <2> DEFINE Y == S \ X
             Z == X \ {best}
             B == Z \cap S
             k == Cardinality(X)
             p == Cardinality(Y)
             s == SumOver(after, X)
             vx == SumOver(values, X)
             vy == SumOver(values, Y)
             vz == SumOver(values, Z)
             wb == SumOver(weights, B)
             wy == SumOver(weights, Y)
             w == weights[best]
  <2>1. /\ Y \in SUBSET Item /\ Z \in SUBSET Item /\ X \cap Y = {} /\ best \notin Z
        /\ Z \cup {best} = X /\ Y \in SUBSET S /\ B \in SUBSET S /\ B \cap Y = {}
        /\ B \cup Y = S \ {best} /\ Z \in SUBSET (Item \ {best})
    BY <1>3, <1>10
  <2>2. SumOver(after, X) = after[best] + SumOver(after, Z)
    <3>1. IsFiniteSet(X) /\ \A i \in X : after[i] \in Int
      BY <1>3, <1>5
    <3>2. QED
      BY <1>10, <3>1, SumElement
  <2>3. SumOver(after, Z) = vz + wb
    BY <1>3, <2>1
  <2>4. SumOver(weights, S) = w + (wb + wy)
    <3>1. IsFiniteSet(S) /\ \A i \in S : weights[i] \in Int
      BY Sizes, RankingAssumption
    <3>2. SumOver(weights, S) = weights[best] + SumOver(weights, S \ {best})
      BY <1>3, <3>1, SumElement
    <3>3. SumOver(weights, B \cup Y) = wb + wy
      BY <2>1, <3>1, SumUnion
    <3>4. QED
      BY <2>1, <3>2, <3>3
  <2>5. wb \in Nat /\ wy \in Nat /\ wy <= p * MaxWeight
    BY <2>1, WeightsSum
  <2>6. w \in Int
    BY <1>3, RankingAssumption
  <2>7. vx = vz + u /\ k = Cardinality(Z) + 1
    BY <1>8, <2>1
  <2>8. s \in Int /\ vx \in Int /\ vy \in Int /\ vz \in Int /\ k \in Nat /\ p \in Nat
        /\ Cardinality(Z) \in Nat
    BY <1>4, <1>5, <2>1
  <2>9. s = ((u + w) - (w + (wb + wy))) + (vz + wb)
    BY <1>3, <2>2, <2>3, <2>4 DEF u
  <2>10. -Cap(k + p) <= vx + vy
    <3>1. X \cup Y \in SUBSET Item
      BY <2>1
    <3>2. -Cap(Cardinality(X \cup Y)) <= SumOver(values, X \cup Y)
      BY <1>2, <3>1
    <3>3. QED
      BY <1>7, <2>1, <3>2
  <2>11. vy + wy <= p * (u + MaxWeight)
    BY <1>1, <1>3, <2>1, LosersSum DEF u
  <2>12. -Cap(k - 1) <= vz
    <3>1. Cardinality(Z) = k - 1
      BY <2>7, <2>8
    <3>2. QED
      BY <1>2, <2>1, <3>1
  <2>13. vx <= Cap(k)
    BY <1>2
  <2> DEFINE x == Cap(k + p)
             y == Cap(k - 1)
             c == Cap(k)
             pu == p * (u + MaxWeight)
             pw == p * MaxWeight
             t == -s
  <2>14. x \in Int /\ y \in Int /\ c \in Int
    BY <2>8, CapInt
  <2>15. x + p * y + p * (p + 1) * MaxWeight = (1 + p) * c
    BY <2>8, CapBetween, SMTT(60)
  <2>16. pu \in Int /\ pw \in Int /\ t \in Int
    BY <1>6, <2>8
  <2>17. -x <= vx + vy /\ -y <= vz /\ vx <= c /\ vy + wy <= pu /\ wy <= pw
    BY <2>5, <2>10, <2>11, <2>12, <2>13
  <2> HIDE DEF Y, Z, B, k, p, s, vx, vy, vz, wb, wy, w, x, y, c
  <2>18. s = vx - wy
    BY <1>6, <2>5, <2>6, <2>7, <2>8, <2>9
  <2>19. t <= x + pu /\ t <= y - u + pw /\ s <= c
    <3> HIDE DEF pu, pw
    <3>1. QED
      BY <1>6, <2>5, <2>7, <2>8, <2>14, <2>16, <2>17, <2>18
  <2> HIDE DEF t
  <2>20. t <= c
    BY <1>6, <2>8, <2>14, <2>15, <2>16, <2>19, Together
  <2>21. -c <= s
    BY <2>8, <2>14, <2>20 DEF t
  <2>22. QED
    BY <2>19, <2>21 DEF s, c, k
<1>11. Balanced(after)
  BY <1>3, <1>9, <1>10 DEF Balanced
<1>12. QED
  BY <1>11 DEF after

(* Dropping the accumulators of some members leaves every sum within its   *)
(* bound.                                                                  *)
LEMMA CutBalanced ==
    ASSUME NEW values, Balanced(values), NEW R
    PROVE  Balanced([i \in Item |-> IF i \in R THEN values[i] ELSE 0])
<1> DEFINE cut == [i \in Item |-> IF i \in R THEN values[i] ELSE 0]
<1>1. cut \in [Item -> Int] /\ values \in [Item -> Int]
  BY DEF Balanced
<1>2. ASSUME NEW X \in SUBSET Item
      PROVE  /\ SumOver(cut, X) <= Cap(Cardinality(X))
             /\ -Cap(Cardinality(X)) <= SumOver(cut, X)
  <2> DEFINE A == X \cap R
             B == X \ R
             k == Cardinality(X)
             j == Cardinality(A)
  <2>1. A \in SUBSET Item /\ B \in SUBSET Item /\ A \cap B = {} /\ A \cup B = X
    OBVIOUS
  <2>2. (\A i \in A : cut[i] = values[i]) /\ (\A i \in B : cut[i] = 0)
    OBVIOUS
  <2>3. IsFiniteSet(A) /\ IsFiniteSet(B) /\ IsFiniteSet(X)
    BY <2>1, Sizes
  <2> HIDE DEF cut
  <2>4. SumOver(cut, A) = SumOver(values, A)
    BY <2>2, <2>3, SumSame
  <2>5. SumOver(cut, B) = 0
    <3> HIDE DEF B
    <3>1. QED
      BY <2>2, <2>3, SumZero
  <2>6. SumOver(cut, A \cup B) = SumOver(cut, A) + SumOver(cut, B)
    <3>1. \A i \in Item : cut[i] \in Int
      BY <1>1
    <3>2. QED
      BY <2>1, <3>1, Sizes, SumUnion
  <2>7. SumOver(values, A) \in Int
    BY <1>1, <2>1, <2>3, SumInt
  <2>8. SumOver(cut, X) = SumOver(values, A)
    <3>1. SumOver(cut, X) = SumOver(values, A) + 0
      BY <2>1, <2>4, <2>5, <2>6
    <3>2. QED
      BY <2>7, <3>1
  <2>9. SumOver(values, A) <= Cap(j) /\ -Cap(j) <= SumOver(values, A)
    BY <2>1 DEF Balanced
  <2>10. j \in Nat /\ k \in Nat /\ j <= k /\ k <= Cardinality(Item)
    <3>1. j <= k
      BY <2>3, FS_Subset
    <3>2. j \in Nat /\ k \in Nat /\ k <= Cardinality(Item)
      BY <2>1, Sizes
    <3>3. QED
      BY <3>1, <3>2
  <2>11. Cap(j) \in Int /\ Cap(j) <= Cap(k) /\ Cap(k) \in Int
    BY <2>10, CapGrows, CapInt
  <2> HIDE DEF j, k
  <2>12. SumOver(cut, X) <= Cap(k) /\ -Cap(k) <= SumOver(cut, X)
    BY <2>7, <2>8, <2>9, <2>11
  <2>13. QED
    BY <2>12 DEF k
<1>3. QED
  BY <1>1, <1>2 DEF Balanced

LEMMA NothingBalanced == Balanced(Nothing)
<1>1. Nothing \in [Item -> Int]
  BY DEF Nothing
<1>2. ASSUME NEW X \in SUBSET Item
      PROVE  /\ SumOver(Nothing, X) <= Cap(Cardinality(X))
             /\ -Cap(Cardinality(X)) <= SumOver(Nothing, X)
  <2>1. IsFiniteSet(X) /\ Cardinality(X) \in 0..Cardinality(Item) /\ Cardinality(Item) \in Nat
    BY Sizes
  <2>2. \A i \in X : Nothing[i] = 0
    BY DEF Nothing
  <2>3. SumOver(Nothing, X) = 0
    BY <2>1, <2>2, SumZero
  <2> DEFINE k == Cardinality(X)
  <2>4. Cap(k) \in Int /\ 0 <= Cap(k)
    <3>1. k \in Nat /\ k <= k /\ k <= Cardinality(Item)
      BY <2>1
    <3> HIDE DEF k
    <3>2. QED
      BY <3>1, CapGrows
  <2> HIDE DEF k
  <2>5. 0 <= Cap(k) /\ -Cap(k) <= 0
    BY <2>4
  <2>6. QED
    BY <2>3, <2>5 DEF k
<1>3. QED
  BY <1>1, <1>2 DEF Balanced

LEMMA BalancedBounded ==
    ASSUME NEW values, Balanced(values), NEW i \in Item
    PROVE  values[i] \in -Bound..Bound
<1>1. IsFiniteSet({i}) /\ {i} \ {i} = {} /\ Cardinality({i}) = 1 /\ {i} \in SUBSET Item
  BY FS_Singleton
<1>2. values[i] \in Int
  BY DEF Balanced
<1>3. SumOver(values, {i}) = values[i]
  <2>1. \A x \in {i} : values[x] \in Int
    BY <1>2
  <2>2. SumOver(values, {i}) = values[i] + SumOver(values, {i} \ {i})
    BY <1>1, <2>1, SumElement
  <2>3. SumOver(values, {i}) = values[i] + 0
    BY <1>1, <2>2, SumEmpty
  <2>4. QED
    BY <1>2, <2>3
<1>4. values[i] <= Cap(1) /\ -Cap(1) <= values[i]
  BY <1>1, <1>3 DEF Balanced
<1>5. Cap(1) = Bound
  <2> DEFINE N == Cardinality(Item)
  <2>1. N \in Int /\ MaxWeight \in Int
    BY Sizes, RankingAssumption
  <2> HIDE DEF N
  <2>2. 1 * (2 * N - 1 - 1) * MaxWeight = 2 * (N - 1) * MaxWeight
    BY <2>1
  <2>3. QED
    BY <2>2 DEF Cap, Bound, N
<1>6. Cap(1) \in Int
  BY CapInt
<1>7. QED
  BY <1>2, <1>4, <1>5, <1>6

-----------------------------------------------------------------------------
(* Numbers and recursive functions.                                        *)

LEMMA Least ==
    ASSUME NEW T, T \subseteq Nat, T # {}
    PROVE  \E m \in T : \A n \in T : m <= n
<1> DEFINE R == OpToRel(<, Nat)
<1>1. IsWellFoundedOn(R, Nat)
  BY Zenon, NatLessThanWellFounded
<1>2. \A x, y \in Nat : y < x => <<y, x>> \in R
  BY Zenon DEF OpToRel
<1> HIDE DEF R
<1>3. PICK m \in T : \A n \in T : ~ (<<n, m>> \in R)
  BY <1>1, WFMin
<1>4. ASSUME NEW n \in T PROVE m <= n
  <2>1. m \in Nat /\ n \in Nat /\ ~ (<<n, m>> \in R)
    BY <1>3
  <2>2. ~(n < m)
    BY <1>2, <2>1
  <2>3. QED
    BY <2>1, <2>2
<1>5. QED
  BY <1>4

(* What holds at the start and goes on holds throughout. *)
Onward(G, n) == 0 \in G /\ \A m \in 0..n : m \in G /\ m < n => m + 1 \in G

LEMMA Along ==
    ASSUME NEW n \in Nat, NEW G, Onward(G, n)
    PROVE  \A m \in 0..n : m \in G
<1> DEFINE T == {m \in 0..n : m \notin G}
<1>1. SUFFICES ASSUME T # {} PROVE FALSE
  OBVIOUS
<1>2. PICK m \in T : \A j \in T : m <= j
  <2>1. T \subseteq Nat
    OBVIOUS
  <2> HIDE DEF T
  <2>2. QED
    BY <1>1, <2>1, Least
<1>3. m \in 0..n /\ m \notin G /\ m # 0
  BY <1>2 DEF Onward
<1>4. PICK j \in 0..n : m = j + 1
  <2>1. m - 1 \in 0..n /\ m = (m - 1) + 1
    BY <1>3
  <2>2. QED
    BY <2>1
<1>5. j < m /\ j < n
  BY <1>3, <1>4
<1>6. j \in G
  BY <1>2, <1>3, <1>5
<1>7. QED
  BY <1>3, <1>4, <1>5, <1>6 DEF Onward

(* A function by recursion from base along step. *)
Recurs(f, n, V, base, step) ==
    /\ f \in [0..n -> V]
    /\ f[0] = base
    /\ \A m \in 1..n : f[m] = step[<<f[m - 1], m>>]

LEMMA Recursion ==
    ASSUME NEW n \in Nat, NEW V, NEW base \in V, NEW step \in [V \X (1..n) -> V]
    PROVE  \E f : Recurs(f, n, V, base, step)
<1> DEFINE G == {m \in 0..n : \E f \in [0..m -> V] :
                     /\ f[0] = base
                     /\ \A j \in 1..m : f[j] = step[<<f[j - 1], j>>]}
<1>1. 0 \in G
  <2> DEFINE f == [j \in 0..0 |-> base]
  <2>1. f \in [0..0 -> V] /\ f[0] = base
    OBVIOUS
  <2>2. \A j \in 1..0 : f[j] = step[<<f[j - 1], j>>]
    OBVIOUS
  <2> HIDE DEF f
  <2>3. QED
    BY <2>1, <2>2
<1>2. ASSUME NEW m \in 0..n, m \in G, m < n PROVE m + 1 \in G
  <2>1. PICK g \in [0..m -> V] : /\ g[0] = base
                                 /\ \A j \in 1..m : g[j] = step[<<g[j - 1], j>>]
    BY <1>2
  <2> DEFINE x == step[<<g[m], m + 1>>]
             f == [j \in 0..(m + 1) |-> IF j = m + 1 THEN x ELSE g[j]]
  <2>2. x \in V
    <3>1. g[m] \in V /\ m + 1 \in 1..n
      BY <1>2, <2>1
    <3>2. <<g[m], m + 1>> \in V \X (1..n)
      BY <3>1
    <3>3. QED
      BY <3>2
  <2>3. \A j \in 0..m : f[j] = g[j]
    OBVIOUS
  <2>4. f[m + 1] = x
    OBVIOUS
  <2> HIDE DEF x
  <2>5. f \in [0..(m + 1) -> V]
    BY <2>1, <2>2
  <2> HIDE DEF f
  <2>6. ASSUME NEW j \in 1..(m + 1) PROVE f[j] = step[<<f[j - 1], j>>]
    <3>1. CASE j = m + 1
      <4>1. j - 1 = m /\ m \in 0..m
        BY <3>1
      <4>2. f[j - 1] = g[m]
        BY <2>3, <4>1
      <4>3. QED
        BY <2>4, <3>1, <4>2 DEF x
    <3>2. CASE j # m + 1
      <4>1. j \in 1..m /\ j \in 0..m /\ j - 1 \in 0..m
        BY <3>2
      <4>2. f[j] = g[j] /\ f[j - 1] = g[j - 1]
        BY <2>3, <4>1
      <4>3. QED
        BY <2>1, <4>1, <4>2
    <3>3. QED
      BY <3>1, <3>2
  <2>7. f[0] = base
    BY <2>1, <2>3
  <2>8. m + 1 \in 0..n
    BY <1>2
  <2>9. QED
    BY <2>5, <2>6, <2>7, <2>8
<1> HIDE DEF G
<1>3. n \in G
  BY <1>1, <1>2, Along DEF Onward
<1>4. QED
  BY <1>3 DEF G, Recurs

-----------------------------------------------------------------------------
(* Lists that name every member of a set once.                             *)

Arranges(list, S) == list \in Seq(S) /\ ToSet(list) = S /\ IsInjective(list)

LEMMA ArrangesEach ==
    ASSUME NEW list, NEW S, Arranges(list, S)
    PROVE  /\ Len(list) \in Nat /\ DOMAIN list = 1..Len(list)
           /\ \A j \in 1..Len(list) : list[j] \in S
           /\ \A x \in S : \E j \in 1..Len(list) : list[j] = x
           /\ \A i, j \in 1..Len(list) : list[i] = list[j] => i = j
  BY DEF Arranges, ToSet, IsInjective

Names(list, S) == \A x \in S : \E j \in 1..Len(list) : list[j] = x
Once(list) == \A i, j \in 1..Len(list) : list[i] = list[j] => i = j

LEMMA ArrangesFrom ==
    ASSUME NEW S, NEW list, list \in Seq(S), Names(list, S), Once(list)
    PROVE  Arranges(list, S)
<1>1. ToSet(list) = S
  BY DEF ToSet, Names
<1>2. IsInjective(list)
  BY DEF IsInjective, Once
<1>3. QED
  BY <1>1, <1>2 DEF Arranges

LEMMA NothingArranged == Arranges(<<>>, {})
<1>1. <<>> \in Seq({}) /\ Names(<<>>, {}) /\ Once(<<>>)
  BY DEF Names, Once
<1>2. QED
  BY <1>1, ArrangesFrom

LEMMA OneMore ==
    ASSUME NEW list, NEW S, Arranges(list, S), NEW x, x \notin S
    PROVE  Arranges(Append(list, x), S \cup {x})
<1> DEFINE n == Len(list)
           long == Append(list, x)
<1>1. /\ n \in Nat /\ (\A j \in 1..n : list[j] \in S)
      /\ (\A y \in S : \E j \in 1..n : list[j] = y)
      /\ (\A i, j \in 1..n : list[i] = list[j] => i = j)
  BY ArrangesEach
<1>2. list \in Seq(S \cup {x})
  BY DEF Arranges
<1>3. long \in Seq(S \cup {x}) /\ Len(long) = n + 1
      /\ (\A j \in 1..n : long[j] = list[j]) /\ long[n + 1] = x
  BY <1>2
<1> HIDE DEF n, long
<1>4. ASSUME NEW y \in S \cup {x} PROVE \E j \in 1..(n + 1) : long[j] = y
  <2>1. CASE y \in S
    BY <1>1, <1>3, <2>1
  <2>2. CASE y = x
    BY <1>1, <1>3, <2>2
  <2>3. QED
    BY <2>1, <2>2
<1>5. ASSUME NEW i \in 1..(n + 1), NEW j \in 1..(n + 1), long[i] = long[j] PROVE i = j
  <2>1. (i \in 1..n \/ i = n + 1) /\ (j \in 1..n \/ j = n + 1)
    BY <1>1
  <2>2. QED
    BY <1>1, <1>3, <1>5, <2>1
<1>6. Names(long, S \cup {x}) /\ Once(long)
  BY <1>3, <1>4, <1>5 DEF Names, Once
<1>7. Arranges(long, S \cup {x})
  BY <1>3, <1>6, ArrangesFrom
<1>8. QED
  BY <1>7 DEF long

LEMMA TwoLists ==
    ASSUME NEW a, NEW S, Arranges(a, S), NEW b, NEW T, Arranges(b, T), S \cap T = {}
    PROVE  Arranges(a \o b, S \cup T)
<1> DEFINE m == Len(a)
           n == Len(b)
           both == a \o b
<1>1. /\ m \in Nat /\ (\A j \in 1..m : a[j] \in S)
      /\ (\A y \in S : \E j \in 1..m : a[j] = y)
      /\ (\A i, j \in 1..m : a[i] = a[j] => i = j)
  BY ArrangesEach
<1>2. /\ n \in Nat /\ (\A j \in 1..n : b[j] \in T)
      /\ (\A y \in T : \E j \in 1..n : b[j] = y)
      /\ (\A i, j \in 1..n : b[i] = b[j] => i = j)
  BY ArrangesEach
<1>3. a \in Seq(S \cup T) /\ b \in Seq(S \cup T)
  BY DEF Arranges
<1>4. both \in Seq(S \cup T) /\ Len(both) = m + n
      /\ \A j \in 1..(m + n) : both[j] = IF j <= m THEN a[j] ELSE b[j - m]
  BY <1>3
<1> HIDE DEF m, n, both
<1>5. /\ \A j \in 1..m : j \in 1..(m + n) /\ both[j] = a[j]
      /\ \A j \in 1..n : m + j \in 1..(m + n) /\ both[m + j] = b[j]
  <2>1. \A j \in 1..m : j \in 1..(m + n) /\ both[j] = a[j]
    BY <1>1, <1>2, <1>4
  <2>2. \A j \in 1..n : m + j \in 1..(m + n) /\ both[m + j] = b[j]
    <3> SUFFICES ASSUME NEW j \in 1..n PROVE m + j \in 1..(m + n) /\ both[m + j] = b[j]
      OBVIOUS
    <3>1. m + j \in 1..(m + n) /\ ~(m + j <= m) /\ (m + j) - m = j
      BY <1>1, <1>2
    <3>2. QED
      BY <1>4, <3>1
  <2>3. QED
    BY <2>1, <2>2
<1>6. \A j \in 1..(m + n) : j \in 1..m \/ \E k \in 1..n : j = m + k
  <2> SUFFICES ASSUME NEW j \in 1..(m + n), ~(j \in 1..m) PROVE \E k \in 1..n : j = m + k
    OBVIOUS
  <2>1. j - m \in 1..n /\ j = m + (j - m)
    BY <1>1, <1>2
  <2>2. QED
    BY <2>1
<1>7. ASSUME NEW y \in S \cup T PROVE \E j \in 1..(m + n) : both[j] = y
  BY <1>1, <1>2, <1>5
<1>8. ASSUME NEW i \in 1..(m + n), NEW j \in 1..(m + n), both[i] = both[j] PROVE i = j
  <2>1. CASE i \in 1..m /\ j \in 1..m
    BY <1>1, <1>5, <1>8, <2>1
  <2>2. CASE i \in 1..m /\ j \notin 1..m
    <3>1. PICK k \in 1..n : j = m + k
      BY <1>6, <2>2
    <3>2. both[j] \in T /\ both[i] \in S
      BY <1>1, <1>2, <1>5, <2>2, <3>1
    <3>3. QED
      BY <1>8, <3>2
  <2>3. CASE i \notin 1..m /\ j \in 1..m
    <3>1. PICK k \in 1..n : i = m + k
      BY <1>6, <2>3
    <3>2. both[i] \in T /\ both[j] \in S
      BY <1>1, <1>2, <1>5, <2>3, <3>1
    <3>3. QED
      BY <1>8, <3>2
  <2>4. CASE i \notin 1..m /\ j \notin 1..m
    <3>1. PICK k \in 1..n : i = m + k
      BY <1>6, <2>4
    <3>2. PICK l \in 1..n : j = m + l
      BY <1>6, <2>4
    <3>3. b[k] = b[l]
      BY <1>5, <1>8, <3>1, <3>2
    <3>4. k = l
      BY <1>2, <3>3
    <3>5. QED
      BY <3>1, <3>2, <3>4
  <2>5. QED
    BY <2>1, <2>2, <2>3, <2>4
<1>9. Names(both, S \cup T) /\ Once(both)
  BY <1>4, <1>7, <1>8 DEF Names, Once
<1>10. Arranges(both, S \cup T)
  BY <1>4, <1>9, ArrangesFrom
<1>11. QED
  BY <1>10 DEF both

-----------------------------------------------------------------------------
(* Only.                                                                   *)

Kept(k, list, S) ==
    k = [m \in 0..Len(list) |->
            IF m = 0 THEN <<>>
            ELSE IF list[m] \in S THEN Append(k[m - 1], list[m]) ELSE k[m - 1]]

LEMMA OnlyUnfolded ==
    ASSUME NEW list, NEW S
    PROVE  Only(list, S) = (CHOOSE k : Kept(k, list, S))[Len(list)]
  BY Zenon DEF Only, Kept

LEMMA KeptExists ==
    ASSUME NEW T, NEW list \in Seq(T), NEW S
    PROVE  Kept(CHOOSE k : Kept(k, list, S), list, S)
<1> DEFINE n == Len(list)
           V == Seq(T)
           step == [p \in V \X (1..n) |->
                       IF list[p[2]] \in S THEN Append(p[1], list[p[2]]) ELSE p[1]]
<1>1. n \in Nat /\ <<>> \in V /\ \A m \in 1..n : list[m] \in T
  OBVIOUS
<1>2. step \in [V \X (1..n) -> V]
  <2>1. ASSUME NEW p \in V \X (1..n)
        PROVE  (IF list[p[2]] \in S THEN Append(p[1], list[p[2]]) ELSE p[1]) \in V
    <3>1. p[1] \in Seq(T) /\ list[p[2]] \in T
      BY <1>1
    <3>2. Append(p[1], list[p[2]]) \in Seq(T)
      BY <3>1
    <3>3. QED
      BY <3>1, <3>2
  <2>2. QED
    BY <2>1
<1>3. \A a \in V, m \in 1..n :
          step[<<a, m>>] = IF list[m] \in S THEN Append(a, list[m]) ELSE a
  OBVIOUS
<1> HIDE DEF n, V, step
<1>4. PICK k : Recurs(k, n, V, <<>>, step)
  BY <1>1, <1>2, Recursion
<1>5. ASSUME NEW m \in 0..n
      PROVE  k[m] = IF m = 0 THEN <<>>
                    ELSE IF list[m] \in S THEN Append(k[m - 1], list[m]) ELSE k[m - 1]
  <2>1. CASE m = 0
    BY <1>4, <2>1 DEF Recurs
  <2>2. CASE m # 0
    <3>1. m \in 1..n /\ m - 1 \in 0..n
      BY <1>1, <2>2
    <3>2. k[m - 1] \in V /\ k[m] = step[<<k[m - 1], m>>]
      BY <1>4, <3>1 DEF Recurs
    <3>3. QED
      BY <1>3, <2>2, <3>1, <3>2
  <2>3. QED
    BY <2>1, <2>2
<1>6. k \in [0..n -> V]
  BY <1>4 DEF Recurs
<1>7. Kept(k, list, S)
  BY <1>5, <1>6 DEF Kept, n
<1>8. QED
  BY <1>7

(* Only keeps what is in the set and keeps it once. *)
LEMMA OnlyArranges ==
    ASSUME NEW T, NEW list, Arranges(list, T), NEW S
    PROVE  Arranges(Only(list, S), T \cap S)
<1> DEFINE n == Len(list)
           k == CHOOSE f : Kept(f, list, S)
           Sofar(m) == {list[j] : j \in 1..m} \cap S
           G == {m \in 0..n : Arranges(k[m], Sofar(m))}
<1>1. list \in Seq(T)
  BY DEF Arranges
<1>2. /\ n \in Nat /\ (\A j \in 1..n : list[j] \in T)
      /\ (\A y \in T : \E j \in 1..n : list[j] = y)
      /\ (\A i, j \in 1..n : list[i] = list[j] => i = j)
  BY ArrangesEach
<1>3. Kept(k, list, S)
  BY <1>1, KeptExists
<1>4. Only(list, S) = k[n]
  BY OnlyUnfolded
<1> HIDE DEF k
<1>5. \A m \in 0..n : k[m] = IF m = 0 THEN <<>>
                             ELSE IF list[m] \in S THEN Append(k[m - 1], list[m]) ELSE k[m - 1]
  <2> DEFINE f == [m \in 0..n |->
                      IF m = 0 THEN <<>>
                      ELSE IF list[m] \in S THEN Append(k[m - 1], list[m]) ELSE k[m - 1]]
  <2>1. k = f
    BY <1>3 DEF Kept
  <2>2. \A m \in 0..n : f[m] = IF m = 0 THEN <<>>
                             ELSE IF list[m] \in S THEN Append(k[m - 1], list[m]) ELSE k[m - 1]
    OBVIOUS
  <2> HIDE DEF f
  <2>3. QED
    BY <2>1, <2>2
<1> HIDE DEF n
<1>6. 0 \in G
  <2>1. Sofar(0) = {} /\ k[0] = <<>>
    BY <1>2, <1>5
  <2>2. QED
    BY <1>2, <2>1, NothingArranged, SMTT(60)
<1>7. ASSUME NEW m \in 0..n, m \in G, m < n PROVE m + 1 \in G
  <2> DEFINE x == list[m + 1]
  <2>1. m + 1 \in 0..n /\ m + 1 \in 1..n /\ (m + 1) - 1 = m /\ m + 1 # 0
    BY <1>2, <1>7
  <2>2. Arranges(k[m], Sofar(m))
    BY <1>7
  <2>3. 1..(m + 1) = (1..m) \cup {m + 1}
    BY <1>2
  <2>4. k[m + 1] = IF x \in S THEN Append(k[m], x) ELSE k[m]
    BY <1>5, <2>1
  <2>5. CASE x \in S
    <3>1. Sofar(m + 1) = Sofar(m) \cup {x}
      BY <2>3, <2>5
    <3>2. x \notin Sofar(m)
      <4>1. ASSUME NEW j \in 1..m, list[j] = x PROVE FALSE
        <5>1. j \in 1..n /\ j # m + 1
          BY <1>2, <2>1
        <5>2. QED
          BY <1>2, <2>1, <4>1, <5>1
      <4>2. QED
        BY <4>1
    <3> HIDE DEF x, Sofar
    <3>3. Arranges(Append(k[m], x), Sofar(m) \cup {x})
      BY <2>2, <3>2, OneMore
    <3>4. QED
      BY <2>1, <2>4, <2>5, <3>1, <3>3
  <2>6. CASE x \notin S
    <3>1. Sofar(m + 1) = Sofar(m)
      BY <2>3, <2>6
    <3> HIDE DEF x, Sofar
    <3>2. QED
      BY <2>1, <2>2, <2>4, <2>6, <3>1
  <2>7. QED
    BY <2>5, <2>6
<1>8. Sofar(n) = T \cap S
  BY <1>2
<1> HIDE DEF G
<1>9. n \in G
  <2>1. n \in 0..n
    BY <1>2
  <2>2. Onward(G, n)
    BY <1>6, <1>7 DEF Onward
  <2>3. QED
    BY <1>2, <2>1, <2>2, Along
<1>10. QED
  BY <1>4, <1>8, <1>9 DEF G

-----------------------------------------------------------------------------
(* What a view divides into.                                               *)

LEMMA ItemsArranged ==
    ASSUME NEW v \in ViewRecord
    PROVE  Arranges(v.items, Item) /\ Available(v) \subseteq Item /\ v.cooling \subseteq Item
  BY DEF ViewRecord, Arranges, Available

LEMMA Parts ==
    ASSUME NEW v, NEW M, Arranges(v.items, M)
    PROVE  /\ Arranges(partitionCandidates(v).eligible, M \cap (Available(v) \ v.cooling))
           /\ Arranges(partitionCandidates(v).cooling, M \cap (Available(v) \cap v.cooling))
<1>1. Arranges(Only(v.items, Available(v) \ v.cooling), M \cap (Available(v) \ v.cooling))
  BY OnlyArranges
<1>2. Arranges(Only(v.items, Available(v) \cap v.cooling), M \cap (Available(v) \cap v.cooling))
  BY OnlyArranges
<1>3. QED
  BY <1>1, <1>2 DEF partitionCandidates

(* Whoever is planned with is a member, and somebody is. *)
LEMMA PlanOf ==
    ASSUME NEW v \in ViewRecord, Counted(v) # {}
    PROVE  /\ \E S \in SUBSET Item : S # {} /\ allocatePlan(v) \in [S -> 1..MaxWeight]
           /\ Members(partitionCandidates(v).cooling) \subseteq Item
<1>1. /\ Members(partitionCandidates(v).eligible) \subseteq Item
      /\ Members(partitionCandidates(v).cooling) \subseteq Item
  <2>1. Arranges(v.items, Item)
    BY ItemsArranged
  <2>2. /\ Arranges(partitionCandidates(v).eligible, Item \cap (Available(v) \ v.cooling))
        /\ Arranges(partitionCandidates(v).cooling, Item \cap (Available(v) \cap v.cooling))
    BY <2>1, Parts
  <2>3. QED
    BY <2>2 DEF Arranges, Members
<1> DEFINE free == {i \in Counted(v) : ~Limited(v, i)}
           S == IF free = {} THEN Counted(v) ELSE free
<1>2. S # {} /\ S \subseteq Item
  BY <1>1 DEF Counted
<1>3. allocatePlan(v) = allocateWeights(v, S)
  BY DEF allocatePlan
<1> HIDE DEF S
<1>4. allocateWeights(v, S) \in [S -> 1..MaxWeight]
  BY <1>2, WeightsInRange
<1>5. QED
  BY <1>1, <1>2, <1>3, <1>4

-----------------------------------------------------------------------------
(* The invariant: what the variables hold, and the bound on every sum.     *)

PlanRecord ==
    [step : {"planned", "stepped"}, held : BOOLEAN,
     weights : UNION {[S -> 1..MaxWeight] : S \in (SUBSET Item) \ {{}}},
     cooling : SUBSET Item]

PicksTypeOK ==
    /\ mode \in Mode /\ balanced \in BOOLEAN /\ round \in 0..(Period - 1)
    /\ view \in ViewRecord
    /\ plan \in [Request -> PlanRecord \cup {None}]

PicksInv == PicksTypeOK /\ Balanced(current) /\ Balanced(dropped)

LEMMA PicksStarts == ASSUME PicksInit PROVE PicksInv
<1>1. mode \in Mode /\ balanced \in BOOLEAN /\ round \in 0..(Period - 1)
  <2>1. balanced \in BOOLEAN
    BY Zenon DEF PicksInit
  <2>2. QED
    BY <2>1 DEF PicksInit, Period
<1>2. view \in ViewRecord
  BY <1>1, PicksAssumption DEF PicksInit
<1>3. plan \in [Request -> PlanRecord \cup {None}]
  BY DEF PicksInit
<1>4. QED
  BY <1>1, <1>2, <1>3, NothingBalanced DEF PicksInit, PicksInv, PicksTypeOK

LEMMA PickKeeps ==
    ASSUME PicksInv, NEW complex \in BOOLEAN, PickGroupItem(complex)
    PROVE  PicksInv'
<1>1. round' \in 0..(Period - 1)
  BY DEF PickGroupItem, PicksInv, PicksTypeOK, Period
<1>2. UNCHANGED <<mode, balanced, view, current, dropped, plan>>
  BY DEF PickGroupItem
<1>3. QED
  BY <1>1, <1>2 DEF PicksInv, PicksTypeOK, Balanced

LEMMA SwitchKeeps ==
    ASSUME PicksInv, NEW on \in BOOLEAN, SetRouteBalanceEnabled(on)
    PROVE  PicksInv'
<1>1. round' \in 0..(Period - 1) /\ balanced' \in BOOLEAN
  BY DEF SetRouteBalanceEnabled, PicksInv, PicksTypeOK, Period
<1>2. UNCHANGED <<mode, view, current, dropped, plan>>
  BY DEF SetRouteBalanceEnabled
<1>3. QED
  BY <1>1, <1>2 DEF PicksInv, PicksTypeOK, Balanced

LEMMA PlanKeeps ==
    ASSUME PicksInv, NEW r \in Request, AllocatePlan(r)
    PROVE  PicksInv'
<1> DEFINE new == [step |-> "planned", held |-> TRUE, weights |-> allocatePlan(view),
                   cooling |-> Members(partitionCandidates(view).cooling)]
<1>1. view \in ViewRecord /\ plan \in [Request -> PlanRecord \cup {None}]
  BY DEF PicksInv, PicksTypeOK
<1>2. /\ Counted(view) # {} /\ plan' = [plan EXCEPT ![r] = new]
      /\ UNCHANGED <<mode, balanced, view, round, current, dropped>>
  BY DEF AllocatePlan
<1>3. new \in PlanRecord
  <2>1. /\ \E S \in SUBSET Item : S # {} /\ allocatePlan(view) \in [S -> 1..MaxWeight]
        /\ Members(partitionCandidates(view).cooling) \subseteq Item
    BY <1>1, <1>2, PlanOf
  <2>2. allocatePlan(view) \in UNION {[S -> 1..MaxWeight] : S \in (SUBSET Item) \ {{}}}
    BY <2>1
  <2>3. QED
    BY <2>1, <2>2 DEF PlanRecord
<1> HIDE DEF new
<1>4. plan' \in [Request -> PlanRecord \cup {None}]
  BY <1>1, <1>2, <1>3
<1>5. QED
  BY <1>2, <1>4 DEF PicksInv, PicksTypeOK, Balanced

LEMMA StepKeeps ==
    ASSUME PicksInv, NEW r \in Request, AllocateStep(r)
    PROVE  PicksInv'
<1> DEFINE values == IF plan[r].held THEN current ELSE dropped
           w == plan[r].weights
           after == allocateStep(values, w).after
<1>1. plan \in [Request -> PlanRecord \cup {None}] /\ Balanced(current) /\ Balanced(dropped)
  BY DEF PicksInv, PicksTypeOK
<1>2. /\ plan[r] # None
      /\ current' \in {after, current} /\ dropped' \in {Nothing, dropped, after}
      /\ plan' = [plan EXCEPT ![r].step = "stepped"]
      /\ UNCHANGED <<mode, balanced, view, round>>
  BY DEF AllocateStep, Planned
<1>3. plan[r] \in PlanRecord
  BY <1>1, <1>2
<1>4. PICK S \in SUBSET Item : S # {} /\ w \in [S -> 1..MaxWeight]
  <2>1. w \in UNION {[S -> 1..MaxWeight] : S \in (SUBSET Item) \ {{}}}
    BY <1>3 DEF PlanRecord
  <2>2. QED
    BY <2>1
<1>5. Balanced(values)
  BY <1>1
<1> HIDE DEF values, w
<1>6. Balanced(after)
  BY <1>4, <1>5, StepBalanced
<1> DEFINE p == [plan[r] EXCEPT !.step = "stepped"]
<1>7. p \in PlanRecord
  BY <1>3 DEF PlanRecord
<1>8. plan' = [plan EXCEPT ![r] = p]
  BY <1>2
<1> HIDE DEF p, after
<1>9. plan' \in [Request -> PlanRecord \cup {None}]
  BY <1>1, <1>7, <1>8
<1>10. Balanced(current)' /\ Balanced(dropped)'
  <2>1. \A x \in {after, current} : Balanced(x)
    BY <1>1, <1>6
  <2>2. \A x \in {Nothing, dropped, after} : Balanced(x)
    BY <1>1, <1>6, NothingBalanced
  <2>3. Balanced(current') /\ Balanced(dropped')
    BY <1>2, <2>1, <2>2
  <2>4. QED
    BY <2>3
<1>11. QED
  BY <1>2, <1>9, <1>10 DEF PicksInv, PicksTypeOK

LEMMA FinishKeeps ==
    ASSUME PicksInv, NEW r \in Request, FinishPick(r)
    PROVE  PicksInv'
<1> DEFINE R == DOMAIN plan[r].weights \cup plan[r].cooling
<1>1. plan \in [Request -> PlanRecord \cup {None}] /\ Balanced(current) /\ Balanced(dropped)
  BY DEF PicksInv, PicksTypeOK
<1>2. /\ current' = [i \in Item |-> IF i \in R THEN current[i] ELSE 0]
      /\ plan' = [plan EXCEPT ![r] = None]
      /\ UNCHANGED <<mode, balanced, view, round, dropped>>
  BY DEF FinishPick
<1> HIDE DEF R
<1>3. Balanced(current')
  BY <1>1, <1>2, CutBalanced
<1>4. plan' \in [Request -> PlanRecord \cup {None}]
  BY <1>1, <1>2
<1>5. QED
  BY <1>1, <1>2, <1>3, <1>4 DEF PicksInv, PicksTypeOK

LEMMA ResetKeeps ==
    ASSUME PicksInv, ResetRouteState
    PROVE  PicksInv'
<1>1. plan \in [Request -> PlanRecord \cup {None}] /\ Balanced(current)
  BY DEF PicksInv, PicksTypeOK
<1>2. /\ current' = Nothing /\ dropped' \in {current, Nothing}
      /\ UNCHANGED <<mode, balanced, view, round>>
      /\ plan' = [r \in Request |-> IF Planned(r) THEN [plan[r] EXCEPT !.held = FALSE] ELSE plan[r]]
  BY DEF ResetRouteState
<1>3. ASSUME NEW r \in Request, Planned(r) PROVE [plan[r] EXCEPT !.held = FALSE] \in PlanRecord
  <2>1. plan[r] \in PlanRecord
    BY <1>1, <1>3 DEF Planned
  <2>2. QED
    BY <2>1 DEF PlanRecord
<1>4. plan' \in [Request -> PlanRecord \cup {None}]
  BY <1>1, <1>2, <1>3
<1>5. Balanced(current') /\ Balanced(dropped')
  BY <1>1, <1>2, NothingBalanced
<1>6. QED
  BY <1>2, <1>4, <1>5 DEF PicksInv, PicksTypeOK

(* What happens to the view leaves the accumulators alone. *)
LEMMA ViewKeeps ==
    ASSUME PicksInv, view' \in ViewRecord,
           UNCHANGED <<mode, balanced, round, current, dropped, plan>>
    PROVE  PicksInv'
  BY DEF PicksInv, PicksTypeOK, Balanced

LEMMA ObservationKeeps ==
    ASSUME PicksInv, NEW i \in Item, NEW d \in Dim, NEW x \in Learnable(i, d), Observe(i, d, x)
    PROVE  PicksInv'
<1>1. view \in ViewRecord /\ x \in Nat \cup {Unknown}
  BY PicksAssumption DEF PicksInv, PicksTypeOK
<1>2. view' = [view EXCEPT !.obs[d][i] = x]
  BY DEF Observe
<1> DEFINE row == [view.obs[d] EXCEPT ![i] = x]
           obs == [view.obs EXCEPT ![d] = row]
<1>3. view.obs \in [Dim -> [Item -> Nat \cup {Unknown}]]
  BY <1>1 DEF ViewRecord
<1>4. row \in [Item -> Nat \cup {Unknown}]
  BY <1>1, <1>3
<1>5. view' = [view EXCEPT !.obs = obs]
  BY <1>2
<1> HIDE DEF row
<1>6. obs \in [Dim -> [Item -> Nat \cup {Unknown}]]
  BY <1>3, <1>4
<1> HIDE DEF obs
<1>7. view' \in ViewRecord
  BY <1>1, <1>5, <1>6 DEF ViewRecord
<1>8. QED
  BY <1>7, ViewKeeps DEF Observe

LEMMA CoolingKeeps ==
    ASSUME PicksInv, NEW i \in Coolable, Cool(i) \/ CooldownOver(i)
    PROVE  PicksInv'
<1>1. view \in ViewRecord /\ i \in Item
  BY PicksAssumption DEF PicksInv, PicksTypeOK
<1>2. PICK cooling \in SUBSET Item : view' = [view EXCEPT !.cooling = cooling]
  <2>1. view.cooling \cup {i} \in SUBSET Item /\ view.cooling \ {i} \in SUBSET Item
    BY <1>1, ItemsArranged
  <2>2. \/ view' = [view EXCEPT !.cooling = view.cooling \cup {i}]
        \/ view' = [view EXCEPT !.cooling = view.cooling \ {i}]
    BY DEF Cool, CooldownOver
  <2>3. QED
    BY <2>1, <2>2
<1>3. view' \in ViewRecord
  BY <1>1, <1>2 DEF ViewRecord
<1>4. UNCHANGED <<mode, balanced, round, current, dropped, plan>>
  BY DEF Cool, CooldownOver
<1>5. QED
  BY <1>3, <1>4, ViewKeeps

LEMMA PicksSteps == ASSUME PicksInv, [PicksNext]_pickVars PROVE PicksInv'
<1>1. ASSUME NEW complex \in BOOLEAN, PickGroupItem(complex) PROVE PicksInv'
  BY <1>1, PickKeeps
<1>2. ASSUME NEW on \in BOOLEAN, SetRouteBalanceEnabled(on) PROVE PicksInv'
  BY <1>2, SwitchKeeps
<1>3. ASSUME NEW r \in Request, AllocatePlan(r) PROVE PicksInv'
  BY <1>3, PlanKeeps
<1>4. ASSUME NEW r \in Request, AllocateStep(r) PROVE PicksInv'
  BY <1>4, StepKeeps
<1>5. ASSUME NEW r \in Request, FinishPick(r) PROVE PicksInv'
  BY <1>5, FinishKeeps
<1>6. ASSUME NEW i \in Item, NEW d \in Dim, NEW x \in Learnable(i, d), Observe(i, d, x) PROVE PicksInv'
  BY <1>6, ObservationKeeps
<1>7. ASSUME NEW i \in Coolable, Cool(i) \/ CooldownOver(i) PROVE PicksInv'
  BY <1>7, CoolingKeeps
<1>8. CASE ResetRouteState
  BY <1>8, ResetKeeps
<1>9. CASE UNCHANGED pickVars
  BY <1>9 DEF PicksInv, PicksTypeOK, Balanced, pickVars
<1>10. QED
  BY <1>1, <1>2, <1>3, <1>4, <1>5, <1>6, <1>7, <1>8, <1>9 DEF PicksNext

LEMMA PicksInvariant == PicksSpec => []PicksInv
<1>1. PicksInit => PicksInv
  BY PicksStarts
<1>2. PicksInv /\ [PicksNext]_pickVars => PicksInv'
  BY PicksSteps
<1>3. QED
  BY <1>1, <1>2, PTL DEF PicksSpec

(* However long a group is used, whoever is planned with each time and     *)
(* whatever a reset, a cooldown or another request does in between, no     *)
(* accumulator of the allocate mode gets further from zero than            *)
(* 2 (n - 1) allocateMaxWeight (allocate.go: allocateStep keeps integers   *)
(* for good and nothing else brings them back).                            *)
THEOREM AccumulatorsStayBounded == PicksSpec => []AccumulatorsBounded
<1>1. PicksInv => AccumulatorsBounded
  BY BalancedBounded DEF PicksInv, AccumulatorsBounded
<1>2. QED
  BY <1>1, PicksInvariant, PTL

-----------------------------------------------------------------------------
(* SortedBy: keys of one length compare like words.                        *)

Keyed(S, key, l) == \A i \in S : key[i] \in Seq(Int) /\ Len(key[i]) = l

Word(key, i) == key[i] \o <<Priority[i], i>>

Plus(x, y) == x + y

Joins(a, b, S) ==
    /\ a \o b \in Seq(S) /\ Len(a \o b) = Plus(Len(a), Len(b))
    /\ \A k \in 1..Len(a) : (a \o b)[k] = a[k]
    /\ \A k \in 1..Len(b) : (a \o b)[Plus(Len(a), k)] = b[k]

LEMMA Joined ==
    ASSUME NEW S, NEW a, a \in Seq(S), NEW b, b \in Seq(S)
    PROVE  Joins(a, b, S)
<1>1. a \o b \in Seq(S) /\ Len(a \o b) = Len(a) + Len(b) /\ Len(a) \in Nat /\ Len(b) \in Nat
  OBVIOUS
<1>2. \A k \in 1..(Len(a) + Len(b)) : (a \o b)[k] = IF k <= Len(a) THEN a[k] ELSE b[k - Len(a)]
  OBVIOUS
<1>3. ASSUME NEW k \in 1..Len(a) PROVE (a \o b)[k] = a[k]
  BY <1>1, <1>2
<1>4. ASSUME NEW k \in 1..Len(b) PROVE (a \o b)[Plus(Len(a), k)] = b[k]
  <2> DEFINE j == Len(a) + k
  <2>1. j \in 1..(Len(a) + Len(b)) /\ ~(j <= Len(a)) /\ j - Len(a) = k
    BY <1>1
  <2> HIDE DEF j
  <2>2. (a \o b)[j] = b[k]
    BY <1>2, <2>1
  <2>3. QED
    BY <2>2 DEF j, Plus
<1>5. QED
  BY <1>1, <1>3, <1>4 DEF Plus, Joins

Worded(key, i, l) ==
    /\ Word(key, i) \in Seq(Int) /\ Len(Word(key, i)) = Plus(l, 2)
    /\ Word(key, i)[Plus(l, 2)] = i
    /\ Word(key, i)[Plus(l, 1)] = Priority[i]
    /\ \A k \in 1..l : Word(key, i)[k] = key[i][k]

LEMMA WordOf ==
    ASSUME NEW S, S \subseteq Item, NEW l, l \in Nat, NEW key, Keyed(S, key, l), NEW i, i \in S
    PROVE  Worded(key, i, l)
<1>a. PICK a : a = key[i]
  OBVIOUS
<1>b. PICK b : b = <<Priority[i], i>>
  OBVIOUS
<1>1. a \in Seq(Int) /\ Len(a) = l
  BY <1>a DEF Keyed
<1>2. i \in Int /\ Priority[i] \in Int
  BY RankingAssumption
<1>3. b \in Seq(Int) /\ Len(b) = 2 /\ b[1] = Priority[i] /\ b[2] = i
  BY <1>2, <1>b
<1>4. /\ a \o b \in Seq(Int) /\ Len(a \o b) = Plus(Len(a), Len(b))
      /\ \A k \in 1..Len(a) : (a \o b)[k] = a[k]
      /\ \A k \in 1..Len(b) : (a \o b)[Plus(Len(a), k)] = b[k]
  <2>1. Joins(a, b, Int)
    BY <1>1, <1>3, Joined
  <2>2. QED
    BY <2>1, Zenon DEF Joins
<1>5. 1 \in 1..Len(b) /\ 2 \in 1..Len(b)
  BY <1>3
<1>6. (a \o b)[Plus(l, 1)] = Priority[i] /\ (a \o b)[Plus(l, 2)] = i
      /\ \A k \in 1..l : (a \o b)[k] = a[k]
  BY <1>1, <1>3, <1>4, <1>5
<1>7. Word(key, i) = a \o b
  BY <1>a, <1>b DEF Word
<1>c. PICK s : s = a \o b
  OBVIOUS
<1>8. /\ s \in Seq(Int) /\ Len(s) = Plus(l, 2)
      /\ s[Plus(l, 1)] = Priority[i] /\ s[Plus(l, 2)] = i
      /\ \A k \in 1..l : s[k] = key[i][k]
  BY <1>1, <1>3, <1>4, <1>6, <1>a, <1>c
<1>9. QED
  BY <1>7, <1>8, <1>c DEF Worded

(* Of two words of one length that differ, one is smaller. *)
LEMMA LexTotal ==
    ASSUME NEW n \in Nat, NEW a \in Seq(Int), NEW b \in Seq(Int), Len(a) = n, Len(b) = n,
           NEW d \in 1..n, a[d] # b[d]
    PROVE  Lex(a, b) \/ Lex(b, a)
<1> DEFINE D == {k \in 1..n : a[k] # b[k]}
<1>1. PICK k \in D : \A j \in D : k <= j
  <2>1. D \subseteq Nat /\ D # {}
    <3>1. D \subseteq 1..n /\ d \in D
      OBVIOUS
    <3>2. 1..n \subseteq Nat
      OBVIOUS
    <3> HIDE DEF D
    <3>3. QED
      BY <3>1, <3>2
  <2> HIDE DEF D
  <2>2. QED
    BY <2>1, Least
<1>2. k \in 1..n /\ a[k] # b[k] /\ a[k] \in Int /\ b[k] \in Int
  BY <1>1
<1>3. \A j \in 1..(k - 1) : a[j] = b[j]
  <2> SUFFICES ASSUME NEW j \in 1..(k - 1), a[j] # b[j] PROVE FALSE
    OBVIOUS
  <2>1. j \in D /\ j < k
    BY <1>2
  <2>2. QED
    BY <1>1, <1>2, <2>1
<1>4. DOMAIN a = 1..n /\ DOMAIN b = 1..n
  OBVIOUS
<1>5. CASE a[k] < b[k]
  BY <1>2, <1>3, <1>4, <1>5 DEF Lex
<1>6. CASE b[k] < a[k]
  BY <1>2, <1>3, <1>4, <1>6 DEF Lex
<1>7. QED
  BY <1>2, <1>5, <1>6

LEMMA LexNever == ASSUME NEW a \in Seq(Int) PROVE ~Lex(a, a)
  BY DEF Lex

LEMMA LexTransitive ==
    ASSUME NEW n \in Nat, NEW a \in Seq(Int), NEW b \in Seq(Int), NEW c \in Seq(Int),
           Len(a) = n, Len(b) = n, Len(c) = n, Lex(a, b), Lex(b, c)
    PROVE  Lex(a, c)
<1>1. DOMAIN a = 1..n /\ DOMAIN b = 1..n
  OBVIOUS
<1>2. PICK k \in 1..n : a[k] < b[k] /\ \A j \in 1..(k - 1) : a[j] = b[j]
  BY <1>1 DEF Lex
<1>3. PICK l \in 1..n : b[l] < c[l] /\ \A j \in 1..(l - 1) : b[j] = c[j]
  BY <1>1 DEF Lex
<1>4. \A j \in 1..n : a[j] \in Int /\ b[j] \in Int /\ c[j] \in Int
  OBVIOUS
<1>5. CASE k < l
  <2>1. k \in 1..(l - 1) /\ \A j \in 1..(k - 1) : j \in 1..(l - 1)
    BY <1>5
  <2>2. a[k] < c[k] /\ \A j \in 1..(k - 1) : a[j] = c[j]
    BY <1>2, <1>3, <2>1
  <2>3. QED
    BY <1>1, <2>2 DEF Lex
<1>6. CASE l < k
  <2>1. l \in 1..(k - 1) /\ \A j \in 1..(l - 1) : j \in 1..(k - 1)
    BY <1>6
  <2>2. a[l] < c[l] /\ \A j \in 1..(l - 1) : a[j] = c[j]
    BY <1>2, <1>3, <2>1
  <2>3. QED
    BY <1>1, <2>2 DEF Lex
<1>7. CASE k = l
  <2>1. a[k] < c[k] /\ \A j \in 1..(k - 1) : a[j] = c[j]
    BY <1>2, <1>3, <1>4, <1>7
  <2>2. QED
    BY <1>1, <2>1 DEF Lex
<1>8. QED
  BY <1>5, <1>6, <1>7

LEMMA BeforeOrders ==
    ASSUME NEW S, S \subseteq Item, NEW l \in Nat, NEW key, Keyed(S, key, l)
    PROVE  /\ \A i, j \in S : i # j => Before(key, i, j) \/ Before(key, j, i)
           /\ \A i, j, k \in S : Before(key, i, j) /\ Before(key, j, k) => Before(key, i, k)
           /\ \A i \in S : ~Before(key, i, i)
<1>1. \A i, j : Before(key, i, j) <=> Lex(Word(key, i), Word(key, j))
  BY DEF Before, Word
<1>2. \A i \in S : /\ Word(key, i) \in Seq(Int) /\ Len(Word(key, i)) = l + 2
                   /\ Word(key, i)[l + 2] = i
  <2>1. \A i \in S : /\ Word(key, i) \in Seq(Int) /\ Len(Word(key, i)) = Plus(l, 2)
                     /\ Word(key, i)[Plus(l, 2)] = i
    BY WordOf DEF Worded
  <2>2. QED
    BY <2>1 DEF Plus
<1>3. l + 2 \in Nat /\ l + 2 \in 1..(l + 2)
  OBVIOUS
<1>4. ASSUME NEW i \in S, NEW j \in S, i # j PROVE Before(key, i, j) \/ Before(key, j, i)
  <2>1. Word(key, i)[l + 2] # Word(key, j)[l + 2]
    BY <1>2, <1>4
  <2>2. Lex(Word(key, i), Word(key, j)) \/ Lex(Word(key, j), Word(key, i))
    BY <1>2, <1>3, <2>1, LexTotal
  <2>3. QED
    BY <1>1, <2>2
<1>5. ASSUME NEW i \in S, NEW j \in S, NEW k \in S, Before(key, i, j), Before(key, j, k)
      PROVE  Before(key, i, k)
  <2>1. Lex(Word(key, i), Word(key, k))
    BY <1>1, <1>2, <1>3, <1>5, LexTransitive
  <2>2. QED
    BY <1>1, <2>1
<1>6. ASSUME NEW i \in S PROVE ~Before(key, i, i)
  BY <1>1, <1>2, LexNever
<1>7. QED
  BY <1>4, <1>5, <1>6

Sorted(list, key) == \A j, k \in DOMAIN list : j < k => Before(key, list[j], list[k])

LEMMA SortExists ==
    ASSUME NEW S, S \subseteq Item, NEW l \in Nat, NEW key, Keyed(S, key, l)
    PROVE  \E list \in [1..Cardinality(S) -> S] : Sorted(list, key)
<1> DEFINE Sortable(T) == \E list \in [1..Cardinality(T) -> T] : Sorted(list, key)
           C == {T \in SUBSET S : ~Sortable(T)}
<1>1. SUFFICES ASSUME C # {} PROVE FALSE
  <2>1. S \in SUBSET S
    OBVIOUS
  <2>2. QED
    BY <1>1, <2>1
<1>2. IsFiniteSet(S)
  BY Sizes
<1>3. PICK T \in C : \A U \in C : U \subseteq T => U = T
  <2>1. C \subseteq SUBSET S
    OBVIOUS
  <2> HIDE DEF C
  <2>2. QED
    BY <1>1, <1>2, <2>1, Smallest
<1>4. T \subseteq S /\ ~Sortable(T) /\ IsFiniteSet(T)
  BY <1>2, <1>3, FS_Subset
<1>5. T # {}
  <2>1. SUFFICES ASSUME T = {} PROVE FALSE
    OBVIOUS
  <2>2. Cardinality(T) = 0
    BY <2>1, FS_EmptySet
  <2>3. [k \in 1..0 |-> 0] \in [1..Cardinality(T) -> T]
    BY <2>2
  <2>4. Sorted([k \in 1..0 |-> 0], key)
    BY DEF Sorted
  <2>5. QED
    BY <1>4, <2>3, <2>4
<1>6. PICK x \in T : \A y \in T \ {x} : Before(key, y, x)
  <2> DEFINE R == {p \in T \X T : Before(key, p[2], p[1])}
  <2>1. \A i, j \in T : <<i, j>> \in R <=> Before(key, j, i)
    OBVIOUS
  <2> HIDE DEF R
  <2>2. /\ \A i, j \in T : i # j => Before(key, i, j) \/ Before(key, j, i)
        /\ \A i, j, k \in T : Before(key, i, j) /\ Before(key, j, k) => Before(key, i, k)
    BY <1>4, BeforeOrders
  <2>3. Orders(R, T)
    BY <2>1, <2>2, Zenon DEF Orders
  <2>4. \E x \in T : \A y \in T \ {x} : <<x, y>> \in R
    BY <1>4, <1>5, <2>3, OneIsFirst
  <2>5. QED
    BY <2>1, <2>4
<1> DEFINE U == T \ {x}
           n == Cardinality(U)
<1>7. U \in SUBSET S /\ U \subseteq T /\ U # T
  BY <1>4
<1>8. n \in Nat /\ Cardinality(T) = n + 1
  <2>1. Cardinality(U) = Cardinality(T) - 1 /\ IsFiniteSet(U)
    BY <1>4, FS_RemoveElement
  <2>2. Cardinality(U) \in Nat /\ Cardinality(T) \in Nat
    BY <1>4, <2>1, FS_CardinalityType
  <2>3. QED
    BY <2>1, <2>2
<1>9. U \notin C
  <2> HIDE DEF C
  <2>1. QED
    BY <1>3, <1>7
<1>10. PICK list \in [1..n -> U] : Sorted(list, key)
  BY <1>7, <1>9
<1> DEFINE long == [k \in 1..(n + 1) |-> IF k = n + 1 THEN x ELSE list[k]]
<1> HIDE DEF n, C
<1>11. long \in [1..(n + 1) -> T]
  <2>1. ASSUME NEW k \in 1..(n + 1), k # n + 1 PROVE list[k] \in T
    <3>1. k \in 1..n
      BY <1>8, <2>1
    <3>2. QED
      BY <1>10, <3>1
  <2>2. QED
    BY <2>1
<1>12. /\ \A k \in 1..n : long[k] = list[k] /\ list[k] \in U
       /\ long[n + 1] = x
  BY <1>8, <1>10
<1> HIDE DEF long
<1>13. ASSUME NEW j \in 1..(n + 1), NEW k \in 1..(n + 1), j < k
       PROVE  Before(key, long[j], long[k])
  <2>1. j \in 1..n
    BY <1>8, <1>13
  <2>2. CASE k = n + 1
    BY <1>6, <1>12, <2>1, <2>2
  <2>3. CASE k # n + 1
    <3>1. k \in 1..n
      BY <1>8, <2>3
    <3>2. DOMAIN list = 1..n
      BY <1>10
    <3>3. Before(key, list[j], list[k])
      BY <1>10, <1>13, <2>1, <3>1, <3>2 DEF Sorted
    <3>4. QED
      BY <1>12, <2>1, <3>1, <3>3
  <2>4. QED
    BY <2>2, <2>3
<1>14. Sorted(long, key) /\ long \in [1..Cardinality(T) -> T]
  <2>1. DOMAIN long = 1..(n + 1)
    BY <1>11
  <2>2. QED
    BY <1>8, <1>11, <1>13, <2>1 DEF Sorted
<1>15. QED
  BY <1>4, <1>14

(* A sorted list names every member once, in order. *)
LEMMA SortedByArranges ==
    ASSUME NEW S, S \subseteq Item, NEW l \in Nat, NEW key, Keyed(S, key, l)
    PROVE  /\ Arranges(SortedBy(S, key), S)
           /\ Sorted(SortedBy(S, key), key)
           /\ Len(SortedBy(S, key)) = Cardinality(S)
<1> DEFINE n == Cardinality(S)
           list == SortedBy(S, key)
<1>1. list = CHOOSE f \in [1..n -> S] : Sorted(f, key)
  BY DEF SortedBy, Sorted
<1>2. \E f \in [1..n -> S] : Sorted(f, key)
  BY SortExists
<1>3. IsFiniteSet(S) /\ n \in Nat
  BY Sizes
<1> HIDE DEF list, n
<1>4. list \in [1..n -> S] /\ Sorted(list, key)
  BY <1>1, <1>2
<1>5. ASSUME NEW i \in 1..n, NEW j \in 1..n, list[i] = list[j] PROVE i = j
  <2>1. DOMAIN list = 1..n /\ list[i] \in S /\ list[j] \in S
    BY <1>4
  <2>2. ~Before(key, list[i], list[j]) /\ ~Before(key, list[j], list[i])
    BY <1>5, <2>1, BeforeOrders
  <2>3. ~(i < j) /\ ~(j < i)
    BY <1>4, <2>1, <2>2 DEF Sorted
  <2>4. QED
    BY <1>3, <2>3
<1>6. list \in Seq(S) /\ Len(list) = n
  BY <1>3, <1>4
<1>7. list \in Injection(1..n, S)
  <2>1. DOMAIN list = 1..n
    BY <1>4
  <2>2. QED
    BY <1>4, <1>5, <2>1 DEF Injection, IsInjective
<1>8. Cardinality(1..n) = n
  BY <1>3, FS_Interval
<1>9. list \in Surjection(1..n, S)
  BY <1>3, <1>7, <1>8, FS_Injection DEF n
<1>10. Names(list, S) /\ Once(list)
  BY <1>5, <1>6, <1>9 DEF Names, Once, Surjection
<1>11. Arranges(list, S)
  BY <1>6, <1>10, ArrangesFrom
<1>12. QED
  BY <1>4, <1>6, <1>11 DEF list, n

-----------------------------------------------------------------------------
(* The rounds of the weighted round robin.                                 *)

Leading(values, i, j) == values[i] > values[j] \/ (values[i] = values[j] /\ i < j)

LEMMA LargestIn ==
    ASSUME NEW n, n \in Nat, n # 0, NEW values, values \in [1..n -> Int]
    PROVE  Largest(values) \in 1..n /\ \A j \in 1..n : values[j] <= values[Largest(values)]
<1> DEFINE R == {p \in (1..n) \X (1..n) : Leading(values, p[1], p[2])}
<1>1. \A i, j \in 1..n : <<i, j>> \in R <=> Leading(values, i, j)
  OBVIOUS
<1>2. \A i \in 1..n : i \in Nat /\ values[i] \in Int
  OBVIOUS
<1> HIDE DEF R
<1>3. Orders(R, 1..n)
  <2>1. ASSUME NEW i \in 1..n, NEW j \in 1..n, i # j PROVE <<i, j>> \in R \/ <<j, i>> \in R
    BY <1>1, <1>2, <2>1 DEF Leading
  <2>2. ASSUME NEW i \in 1..n, NEW j \in 1..n, NEW k \in 1..n, <<i, j>> \in R, <<j, k>> \in R
        PROVE  <<i, k>> \in R
    BY <1>1, <1>2, <2>2 DEF Leading
  <2>3. QED
    BY <2>1, <2>2, Zenon DEF Orders
<1>4. IsFiniteSet(1..n) /\ 1..n # {}
  <2>1. 1 \in Int /\ n \in Int /\ 1 \in 1..n
    OBVIOUS
  <2>2. IsFiniteSet(1..n)
    BY <2>1, FS_Interval
  <2>3. QED
    BY <2>1, <2>2
<1>5. PICK b \in 1..n : \A j \in (1..n) \ {b} : <<b, j>> \in R
  BY <1>3, <1>4, OneIsFirst
<1> DEFINE Leads(k) == /\ \A j \in DOMAIN values : values[j] <= values[k]
                       /\ \A j \in 1..(k - 1) : values[j] < values[k]
<1>6. DOMAIN values = 1..n
  OBVIOUS
<1>7. Leads(b)
  <2>1. ASSUME NEW j \in 1..n PROVE values[j] <= values[b] /\ (j < b => values[j] < values[b])
    <3>1. CASE j = b
      BY <1>2, <3>1
    <3>2. CASE j # b
      <4>1. <<b, j>> \in R
        BY <1>5, <3>2
      <4>2. Leading(values, b, j)
        BY <1>1, <4>1
      <4>3. QED
        BY <1>2, <4>2 DEF Leading
    <3>3. QED
      BY <3>1, <3>2
  <2>2. ASSUME NEW j \in 1..(b - 1) PROVE values[j] < values[b]
    <3>1. j \in 1..n /\ j < b
      BY <2>2
    <3>2. QED
      BY <2>1, <3>1
  <2>3. QED
    BY <1>6, <2>1, <2>2
<1>8. Largest(values) = CHOOSE k \in DOMAIN values : Leads(k)
  BY DEF Largest
<1> HIDE DEF Leads
<1>9. Largest(values) \in 1..n /\ Leads(Largest(values))
  BY <1>6, <1>7, <1>8
<1>10. QED
  BY <1>6, <1>9 DEF Leads

(* Weights of n members. *)
Weighs(w, n) == n \in Nat /\ n # 0 /\ w \in [1..n -> Nat \ {0}]

LEMMA WeighsTotal ==
    ASSUME NEW n, NEW w, Weighs(w, n)
    PROVE  /\ Len(w) = n /\ Total(w) = SumOver(w, 1..n)
           /\ Total(w) \in Nat /\ Total(w) # 0
           /\ \A k \in 1..n : w[k] \in Nat /\ w[k] # 0 /\ w[k] <= Total(w)
<1>1. n \in Nat /\ n # 0 /\ w \in [1..n -> Nat \ {0}]
  BY DEF Weighs
<1>2. DOMAIN w = 1..n /\ w \in Seq(Nat) /\ Len(w) = n /\ 1 \in 1..n
  BY <1>1
<1>3. \A k \in 1..n : w[k] \in Nat /\ w[k] # 0
  BY <1>1
<1>4. IsFiniteSet(1..n)
  BY <1>1, FS_Interval
<1>5. Total(w) = SumOver(w, 1..n)
  BY <1>2 DEF Total
<1>6. SumOver(w, 1..n) \in Nat /\ \A k \in 1..n : w[k] <= SumOver(w, 1..n)
  BY <1>3, <1>4, SumNonNegative
<1>7. Total(w) # 0
  BY <1>2, <1>3, <1>5, <1>6
<1>8. QED
  BY <1>2, <1>3, <1>5, <1>6, <1>7

(* One round: everybody gains its weight, the winner pays the total, and   *)
(* nobody falls as low as that.                                            *)
Fair(c, n, t) ==
    /\ c \in [1..n -> Int]
    /\ SumOver(c, 1..n) = 0
    /\ \A k \in 1..n : c[k] > -t

Next1(c, w) == Charged(Added(c, w), Largest(Added(c, w)), Total(w))
Wins1(c, w) == Largest(Added(c, w))

LEMMA RoundFair ==
    ASSUME NEW n, NEW w, Weighs(w, n), NEW c, Fair(c, n, Total(w))
    PROVE  /\ Fair(Next1(c, w), n, Total(w))
           /\ Wins1(c, w) \in 1..n
           /\ \A k \in 1..n : Next1(c, w)[k] = Plus(c[k], w[k]) - (IF k = Wins1(c, w) THEN Total(w) ELSE 0)
<1>a. PICK t : t = Total(w)
  OBVIOUS
<1>b. PICK cur : cur = Added(c, w)
  OBVIOUS
<1>c. PICK m : m = Wins1(c, w)
  OBVIOUS
<1>d. PICK d : d = Next1(c, w)
  OBVIOUS
<1>1. n \in Nat /\ n # 0 /\ c \in [1..n -> Int] /\ SumOver(c, 1..n) = 0 /\ \A k \in 1..n : c[k] > -t
  BY <1>a DEF Weighs, Fair
<1>2. /\ Len(w) = n /\ t = SumOver(w, 1..n) /\ t \in Nat /\ t # 0
      /\ \A k \in 1..n : w[k] \in Nat /\ w[k] # 0
  BY <1>a, WeighsTotal
<1>e. PICK N : N = 1..n
  OBVIOUS
<1>3. IsFiniteSet(N) /\ Cardinality(N) = n
  BY <1>1, <1>e, FS_Interval
<1>4. cur = [k \in 1..n |-> c[k] + w[k]]
  BY <1>2, <1>b DEF Added
<1>5. \A k \in 1..n : c[k] \in Int /\ w[k] \in Int /\ cur[k] = c[k] + w[k] /\ cur[k] \in Int
  BY <1>1, <1>2, <1>4
<1>6. cur \in [1..n -> Int]
  BY <1>4, <1>5
<1>7. m \in 1..n /\ \A j \in 1..n : cur[j] <= cur[m]
  <2>1. m = Largest(cur)
    BY <1>b, <1>c DEF Wins1
  <2>2. QED
    BY <1>1, <1>6, <2>1, LargestIn
<1>8. SumOver(cur, 1..n) = t
  <2>1. \A k \in N : c[k] \in Int /\ w[k] \in Int /\ cur[k] = Plus(c[k], w[k])
    BY <1>5, <1>e DEF Plus
  <2>2. SumOver(cur, N) = SumOver(c, N) + SumOver(w, N)
    <3>1. \A k \in N : cur[k] = c[k] + w[k]
      BY <1>5, <1>e
    <3>2. \A k \in N : c[k] \in Int /\ w[k] \in Int
      BY <2>1
    <3>3. QED
      BY <1>3, <3>1, <3>2, SumPlus
  <2>3. QED
    BY <1>1, <1>2, <1>e, <2>2
<1>9. cur[m] > 0
  <2> SUFFICES ASSUME ~(cur[m] > 0) PROVE FALSE
    OBVIOUS
  <2>1. \A k \in N : cur[k] \in Int /\ cur[k] <= 0
    BY <1>5, <1>7, <1>e
  <2>2. PICK z : z = 0
    OBVIOUS
  <2>3. SumOver(cur, N) <= Cardinality(N) * z
    <3>1. z \in Int /\ \A k \in N : cur[k] \in Int /\ cur[k] <= z
      BY <2>1, <2>2
    <3>2. QED
      BY <1>3, <3>1, SumAtMost
  <2>4. Cardinality(N) * z = 0
    BY <1>1, <1>3, <2>2
  <2>5. QED
    BY <1>2, <1>8, <1>e, <2>3, <2>4
<1>10. d = [cur EXCEPT ![m] = cur[m] - t]
  BY <1>a, <1>b, <1>c, <1>d DEF Next1, Charged, Wins1
<1>11. d \in [1..n -> Int] /\ d[m] = cur[m] - t /\ \A k \in 1..n : k # m => d[k] = cur[k]
  <2>1. cur[m] - t \in Int
    BY <1>2, <1>5, <1>7
  <2>2. QED
    BY <1>6, <1>7, <1>10, <2>1
<1>12. SumOver(d, 1..n) = 0
  <2>1. PICK U : U = N \ {m}
    OBVIOUS
  <2>2. m \in N /\ \A k \in N : cur[k] \in Int /\ d[k] \in Int
    BY <1>5, <1>7, <1>11, <1>e
  <2>3. SumOver(cur, N) = cur[m] + SumOver(cur, U) /\ SumOver(d, N) = d[m] + SumOver(d, U)
    BY <1>3, <2>1, <2>2, SumElement
  <2>4. IsFiniteSet(U)
    BY <1>3, <2>1, FS_Subset
  <2>5. SumOver(d, U) = SumOver(cur, U) /\ SumOver(cur, U) \in Int
    <3>1. \A k \in U : d[k] = cur[k] /\ cur[k] \in Int
      BY <1>5, <1>11, <1>e, <2>1
    <3>2. QED
      BY <2>4, <3>1, SumSame, SumInt
  <2>6. PICK rest \in Int : rest = SumOver(cur, U)
    BY <2>5
  <2>7. t = cur[m] + rest /\ SumOver(d, 1..n) = d[m] + rest
    BY <1>8, <1>e, <2>3, <2>5, <2>6
  <2>8. QED
    BY <1>2, <1>5, <1>7, <1>11, <2>6, <2>7
<1>13. ASSUME NEW k \in 1..n PROVE d[k] > -t
  <2>1. CASE k = m
    BY <1>2, <1>5, <1>9, <1>11, <2>1
  <2>2. CASE k # m
    <3>1. c[k] > -t /\ d[k] = c[k] + w[k] /\ c[k] \in Int /\ w[k] \in Nat
      BY <1>1, <1>2, <1>5, <1>11, <2>2
    <3>2. QED
      BY <1>2, <3>1
  <2>3. QED
    BY <2>1, <2>2
<1>14. \A k \in 1..n : d[k] = Plus(c[k], w[k]) - (IF k = m THEN t ELSE 0)
  <2> SUFFICES ASSUME NEW k \in 1..n PROVE d[k] = Plus(c[k], w[k]) - (IF k = m THEN t ELSE 0)
    OBVIOUS
  <2>1. Plus(c[k], w[k]) = cur[k]
    BY <1>5 DEF Plus
  <2>2. QED
    BY <1>2, <1>5, <1>11, <2>1
<1>15. Fair(d, n, t)
  BY <1>11, <1>12, <1>13 DEF Fair
<1>16. QED
  BY <1>a, <1>c, <1>d, <1>7, <1>14, <1>15

-----------------------------------------------------------------------------
(* A period of rounds.                                                     *)

Zeros(w) == [k \in 1..Len(w) |-> 0]
Rounding(f, w) ==
    f = [step \in 0..Total(w) |-> IF step = 0 THEN Zeros(w) ELSE Next1(f[step - 1], w)]

LEMMA RoundsUnfolded == ASSUME NEW w PROVE Rounds(w) = CHOOSE f : Rounding(f, w)
  BY Zenon DEF Rounds, Rounding, Zeros, Next1

LEMMA NextIn ==
    ASSUME NEW n, NEW w, Weighs(w, n), NEW c \in [1..n -> Int]
    PROVE  Next1(c, w) \in [1..n -> Int]
<1>a. PICK cur : cur = Added(c, w)
  OBVIOUS
<1>b. PICK m : m = Largest(cur)
  OBVIOUS
<1>1. /\ n \in Nat /\ n # 0 /\ Len(w) = n
      /\ Total(w) \in Nat /\ \A k \in 1..n : w[k] \in Nat
  BY WeighsTotal DEF Weighs
<1>2. cur \in [1..n -> Int]
  <2>1. cur = [k \in 1..n |-> c[k] + w[k]]
    BY <1>1, <1>a DEF Added
  <2>2. \A k \in 1..n : c[k] + w[k] \in Int
    BY <1>1
  <2>3. QED
    BY <2>1, <2>2
<1>3. m \in 1..n
  BY <1>1, <1>2, <1>b, LargestIn
<1>4. PICK x : x = cur[m] - Total(w)
  OBVIOUS
<1>5. x \in Int
  BY <1>1, <1>2, <1>3, <1>4
<1>6. Next1(c, w) = [cur EXCEPT ![m] = x]
  BY <1>a, <1>b, <1>4 DEF Next1, Charged
<1>7. QED
  BY <1>2, <1>3, <1>5, <1>6

LEMMA RoundsStep ==
    ASSUME NEW n, NEW w, Weighs(w, n)
    PROVE  /\ Rounds(w)[0] = Zeros(w)
           /\ \A s \in 1..Total(w) : Rounds(w)[s] = Next1(Rounds(w)[s - 1], w)
<1> DEFINE V == [1..n -> Int]
           T == Total(w)
           step == [p \in V \X (1..T) |-> Next1(p[1], w)]
<1>1. T \in Nat /\ Len(w) = n
  BY WeighsTotal
<1>2. Zeros(w) \in V
  BY <1>1 DEF Zeros
<1>3. step \in [V \X (1..T) -> V]
  <2>1. \A p \in V \X (1..T) : Next1(p[1], w) \in V
    BY NextIn
  <2>2. QED
    BY <2>1
<1>4. \A c \in V, s \in 1..T : step[<<c, s>>] = Next1(c, w)
  OBVIOUS
<1> HIDE DEF V, step, T
<1>5. PICK f : Recurs(f, T, V, Zeros(w), step)
  BY <1>1, <1>2, <1>3, Recursion
<1>6. ASSUME NEW s \in 0..T
      PROVE  f[s] = IF s = 0 THEN Zeros(w) ELSE Next1(f[s - 1], w)
  <2>1. CASE s = 0
    BY <1>5, <2>1 DEF Recurs
  <2>2. CASE s # 0
    <3>1. s \in 1..T /\ s - 1 \in 0..T
      BY <1>1, <2>2
    <3>2. f[s - 1] \in V /\ f[s] = step[<<f[s - 1], s>>]
      BY <1>5, <3>1 DEF Recurs
    <3>3. QED
      BY <1>4, <2>2, <3>1, <3>2
  <2>3. QED
    BY <2>1, <2>2
<1>7. f \in [0..T -> V]
  BY <1>5 DEF Recurs
<1>8. Rounding(f, w)
  BY <1>6, <1>7 DEF Rounding, T
<1>9. Rounding(Rounds(w), w)
  BY <1>8, RoundsUnfolded
<1>10. PICK g : g = Rounds(w)
  OBVIOUS
<1>11. \A s \in 0..T : g[s] = IF s = 0 THEN Zeros(w) ELSE Next1(g[s - 1], w)
  <2> DEFINE h == [s \in 0..T |-> IF s = 0 THEN Zeros(w) ELSE Next1(g[s - 1], w)]
  <2>1. g = h
    BY <1>9, <1>10 DEF Rounding, T
  <2>2. \A s \in 0..T : h[s] = IF s = 0 THEN Zeros(w) ELSE Next1(g[s - 1], w)
    OBVIOUS
  <2> HIDE DEF h
  <2>3. QED
    BY <2>1, <2>2
<1>12. g[0] = Zeros(w)
  BY <1>1, <1>11
<1>13. ASSUME NEW s \in 1..T PROVE g[s] = Next1(g[s - 1], w)
  <2>1. s \in 0..T /\ s # 0
    BY <1>1
  <2>2. QED
    BY <1>11, <2>1
<1>14. QED
  BY <1>10, <1>12, <1>13 DEF T

(* The rounds before s that k has won. *)
Won(w, k, s) == {r \in 0..(s - 1) : Replay(w, r) = k}

LEMMA WonNext ==
    ASSUME NEW w, NEW k, NEW s \in Nat
    PROVE  /\ Cardinality(Won(w, k, s)) \in Nat
           /\ Cardinality(Won(w, k, s + 1)) =
                  Cardinality(Won(w, k, s)) + (IF Replay(w, s) = k THEN 1 ELSE 0)
<1>1. IsFiniteSet(Won(w, k, s))
  <2>1. IsFiniteSet(0..(s - 1))
    BY FS_Interval
  <2>2. QED
    BY <2>1, FS_Subset DEF Won
<1>2. Cardinality(Won(w, k, s)) \in Nat
  BY <1>1, FS_CardinalityType
<1>3. 0..((s + 1) - 1) = (0..(s - 1)) \cup {s} /\ s \notin 0..(s - 1)
  OBVIOUS
<1>4. CASE Replay(w, s) = k
  <2>1. Won(w, k, s + 1) = Won(w, k, s) \cup {s} /\ s \notin Won(w, k, s)
    BY <1>3, <1>4 DEF Won
  <2>2. Cardinality(Won(w, k, s) \cup {s}) = Cardinality(Won(w, k, s)) + 1
    BY <1>1, <2>1, FS_AddElement
  <2>3. QED
    BY <1>2, <1>4, <2>1, <2>2
<1>5. CASE Replay(w, s) # k
  <2>1. Won(w, k, s + 1) = Won(w, k, s)
    BY <1>3, <1>5 DEF Won
  <2>2. QED
    BY <1>2, <1>5, <2>1
<1>6. QED
  BY <1>4, <1>5

LEMMA Times == \A a, b, c \in Int : a * (b + c) = a * b + a * c /\ (b + c) * a = b * a + c * a
  OBVIOUS

(* Where everybody stands after s rounds. *)
Standing(c, w, n, s) ==
    /\ Fair(c, n, Total(w))
    /\ \A k \in 1..n : c[k] = s * w[k] - Total(w) * Cardinality(Won(w, k, s))

LEMMA StandingAtFirst ==
    ASSUME NEW n, NEW w, Weighs(w, n)
    PROVE  Standing(Rounds(w)[0], w, n, 0)
<1>1. /\ n \in Nat /\ Len(w) = n /\ Total(w) \in Nat /\ Total(w) # 0
      /\ \A k \in 1..n : w[k] \in Nat
  BY WeighsTotal DEF Weighs
<1>2. PICK c : c = Rounds(w)[0]
  OBVIOUS
<1>3. c \in [1..n -> Int] /\ \A k \in 1..n : c[k] = 0
  <2>1. c = [k \in 1..n |-> 0]
    BY <1>1, <1>2, RoundsStep DEF Zeros
  <2>2. QED
    BY <2>1
<1>4. SumOver(c, 1..n) = 0
  <2>1. PICK N : N = 1..n
    OBVIOUS
  <2>2. PICK z : z = 0
    OBVIOUS
  <2>3. IsFiniteSet(N) /\ Cardinality(N) = n
    BY <1>1, <2>1, FS_Interval
  <2>4. \A k \in N : c[k] \in Int /\ c[k] <= z
    BY <1>3, <2>1, <2>2
  <2>5. SumOver(c, N) <= Cardinality(N) * z
    BY <2>2, <2>3, <2>4, SumAtMost
  <2>6. SumOver(c, N) \in Nat
    <3>1. \A k \in N : c[k] \in Nat
      BY <1>3, <2>1
    <3>2. QED
      BY <2>3, <3>1, SumNonNegative
  <2>7. Cardinality(N) * z = 0
    BY <1>1, <2>2, <2>3
  <2>8. QED
    BY <2>1, <2>5, <2>6, <2>7
<1>5. Fair(c, n, Total(w))
  BY <1>1, <1>3, <1>4 DEF Fair
<1>6. ASSUME NEW k \in 1..n PROVE c[k] = 0 * w[k] - Total(w) * Cardinality(Won(w, k, 0))
  <2>1. Won(w, k, 0) = {}
    BY DEF Won
  <2>2. Cardinality(Won(w, k, 0)) = 0
    BY <2>1, FS_EmptySet
  <2>3. QED
    BY <1>1, <1>3, <2>2
<1>7. QED
  BY <1>2, <1>5, <1>6 DEF Standing

LEMMA StandingNext ==
    ASSUME NEW n, NEW w, Weighs(w, n), NEW s \in 0..Total(w), s < Total(w),
           Standing(Rounds(w)[s], w, n, s)
    PROVE  Standing(Rounds(w)[s + 1], w, n, s + 1)
<1>a. PICK t : t = Total(w)
  OBVIOUS
<1>b. PICK c : c = Rounds(w)[s]
  OBVIOUS
<1>c. PICK d : d = Rounds(w)[s + 1]
  OBVIOUS
<1>1. /\ n \in Nat /\ t \in Nat /\ t # 0 /\ s \in Nat /\ s < t
      /\ \A k \in 1..n : w[k] \in Nat
  <2>1. n \in Nat /\ t \in Nat /\ t # 0 /\ \A k \in 1..n : w[k] \in Nat
    BY <1>a, WeighsTotal DEF Weighs
  <2>2. s \in 0..t /\ s < t
    BY <1>a
  <2>3. QED
    BY <2>1, <2>2
<1>2. d = Next1(c, w)
  <2>1. s + 1 \in 1..t /\ (s + 1) - 1 = s
    BY <1>1
  <2>2. QED
    BY <1>a, <1>b, <1>c, <2>1, RoundsStep
<1>3. Fair(c, n, t) /\ \A k \in 1..n : c[k] = s * w[k] - t * Cardinality(Won(w, k, s))
  BY <1>a, <1>b DEF Standing
<1>4. /\ Fair(d, n, t)
      /\ \A k \in 1..n : d[k] = Plus(c[k], w[k]) - (IF k = Wins1(c, w) THEN t ELSE 0)
  BY <1>2, <1>3, <1>a, RoundFair
<1>5. Replay(w, s) = Wins1(c, w)
  <2>1. s % t = s
    BY <1>1
  <2>2. QED
    BY <1>a, <1>b, <2>1 DEF Replay, Wins1
<1>6. ASSUME NEW k \in 1..n PROVE d[k] = (s + 1) * w[k] - t * Cardinality(Won(w, k, s + 1))
  <2>1. PICK x : x = Cardinality(Won(w, k, s))
    OBVIOUS
  <2>2. PICK y : y = w[k]
    OBVIOUS
  <2>3. PICK b : b = IF Wins1(c, w) = k THEN 1 ELSE 0
    OBVIOUS
  <2>4. x \in Nat /\ Cardinality(Won(w, k, s + 1)) = x + b
    BY <1>1, <1>5, <2>1, <2>3, WonNext
  <2>5. y \in Nat /\ b \in {0, 1}
    BY <1>1, <2>2, <2>3
  <2>6. c[k] = s * y - t * x
    BY <1>3, <2>1, <2>2
  <2>7. d[k] = (c[k] + y) - t * b
    <3>1. d[k] = (c[k] + y) - (IF k = Wins1(c, w) THEN t ELSE 0)
      BY <1>4, <2>2 DEF Plus
    <3>2. t * b = IF k = Wins1(c, w) THEN t ELSE 0
      BY <1>1, <2>3
    <3>3. QED
      BY <3>1, <3>2
  <2>8. (s + 1) * y = s * y + y /\ t * (x + b) = t * x + t * b
    <3>1. s \in Int /\ t \in Int /\ x \in Int /\ b \in Int /\ y \in Int
      BY <1>1, <2>4, <2>5
    <3>2. (s + 1) * y = s * y + 1 * y /\ t * (x + b) = t * x + t * b
      BY <3>1, Times
    <3>3. QED
      BY <3>1, <3>2
  <2>9. PICK p : p = s * y
    OBVIOUS
  <2>10. PICK q : q = t * x
    OBVIOUS
  <2>11. PICK r : r = t * b
    OBVIOUS
  <2>12. p \in Int /\ q \in Int /\ r \in Int
    BY <1>1, <2>4, <2>5, <2>9, <2>10, <2>11
  <2>13. d[k] = ((p - q) + y) - r
    BY <2>6, <2>7, <2>9, <2>10, <2>11
  <2>14. (s + 1) * y - t * (x + b) = (p + y) - (q + r)
    BY <2>8, <2>9, <2>10, <2>11
  <2>15. d[k] = (s + 1) * y - t * (x + b)
    BY <2>5, <2>12, <2>13, <2>14
  <2>16. QED
    BY <2>2, <2>4, <2>15
<1>7. QED
  BY <1>a, <1>c, <1>4, <1>6 DEF Standing

LEMMA StandingThroughout ==
    ASSUME NEW n, NEW w, Weighs(w, n)
    PROVE  \A s \in 0..Total(w) : Standing(Rounds(w)[s], w, n, s)
<1> DEFINE T == Total(w)
           G == {s \in 0..T : Standing(Rounds(w)[s], w, n, s)}
<1>1. T \in Nat
  BY WeighsTotal
<1>2. 0 \in G
  BY <1>1, StandingAtFirst
<1>3. ASSUME NEW s \in 0..T, s \in G, s < T PROVE s + 1 \in G
  <2>1. Standing(Rounds(w)[s + 1], w, n, s + 1)
    BY <1>3, StandingNext
  <2>2. s + 1 \in 0..T
    BY <1>1, <1>3
  <2>3. QED
    BY <2>1, <2>2
<1> HIDE DEF G
<1>4. \A s \in 0..T : s \in G
  <2>1. Onward(G, T)
    BY <1>2, <1>3 DEF Onward
  <2>2. QED
    BY <1>1, <2>1, Along
<1>5. QED
  BY <1>4 DEF G

(* balance.go, smoothWeightedOrder: within one period each member wins as  *)
(* many rounds as it weighs and everybody is back at zero, for any number  *)
(* of members and any positive weights; that is what lets the code replay  *)
(* round % total instead of all rounds since the start.                    *)
THEOREM PeriodsFollowWeights ==
    ASSUME NEW n, NEW w, Weighs(w, n)
    PROVE  /\ \A k \in 1..n : Cardinality(Won(w, k, Total(w))) = w[k]
           /\ Rounds(w)[Total(w)] = Rounds(w)[0]
<1>a. PICK t : t = Total(w)
  OBVIOUS
<1>b. PICK c : c = Rounds(w)[t]
  OBVIOUS
<1>1. n \in Nat /\ Len(w) = n /\ t \in Nat /\ t # 0 /\ \A k \in 1..n : w[k] \in Nat
  BY <1>a, WeighsTotal DEF Weighs
<1>2. Fair(c, n, t) /\ \A k \in 1..n : c[k] = t * w[k] - t * Cardinality(Won(w, k, t))
  <2>1. t \in 0..t
    BY <1>1
  <2>2. Standing(c, w, n, t)
    BY <1>a, <1>b, <2>1, StandingThroughout
  <2>3. QED
    BY <1>a, <2>2 DEF Standing
<1>3. ASSUME NEW k \in 1..n
      PROVE  c[k] \in Nat /\ (c[k] = 0 => Cardinality(Won(w, k, t)) = w[k])
  <2>1. PICK x \in Nat : x = Cardinality(Won(w, k, t))
    BY <1>1, WonNext
  <2>2. PICK y \in Nat : y = w[k]
    BY <1>1
  <2>3. c[k] = t * y - t * x /\ c[k] > -t
    BY <1>2, <2>1, <2>2 DEF Fair
  <2>4. PICK z \in Int : z = y - x
    OBVIOUS
  <2>5. t * y - t * x = t * z
    <3>1. t * (x + z) = t * x + t * z
      BY <1>1, <2>1, <2>4, Times
    <3>2. y = x + z
      BY <2>4
    <3>3. PICK p : p = t * x
      OBVIOUS
    <3>4. PICK q : q = t * z
      OBVIOUS
    <3>5. p \in Int /\ q \in Int /\ t * y = p + q
      BY <1>1, <3>1, <3>2, <3>3, <3>4
    <3>6. (p + q) - p = q
      BY <3>5
    <3>7. QED
      BY <3>3, <3>4, <3>5, <3>6
  <2>6. t * z > -t
    BY <2>3, <2>5
  <2>7. z \in Nat
    BY <1>1, <2>6
  <2>8. t * z = 0 => z = 0
    BY <1>1, <2>7
  <2>9. t * z \in Nat
    BY <1>1, <2>7
  <2>10. QED
    BY <2>1, <2>2, <2>3, <2>4, <2>5, <2>8, <2>9
<1>4. ASSUME NEW k \in 1..n PROVE c[k] = 0
  <2>1. PICK N : N = 1..n
    OBVIOUS
  <2>2. IsFiniteSet(N)
    BY <1>1, <2>1, FS_Interval
  <2>3. SumOver(c, N) = 0
    BY <1>2, <2>1 DEF Fair
  <2>4. \A j \in N : c[j] \in Nat
    BY <1>3, <2>1
  <2>5. c[k] <= SumOver(c, N)
    BY <2>1, <2>2, <2>4, SumNonNegative
  <2>6. QED
    BY <1>3, <2>3, <2>5
<1>5. c = Rounds(w)[0]
  <2>1. c \in [1..n -> Int]
    BY <1>2 DEF Fair
  <2>2. c = [k \in 1..n |-> 0]
    BY <1>4, <2>1
  <2>3. QED
    BY <1>1, <2>2, RoundsStep DEF Zeros
<1>6. QED
  BY <1>a, <1>b, <1>3, <1>4, <1>5
-----------------------------------------------------------------------------
(* What every ranking is made of.                                          *)

LEMMA ArrangesLength ==
    ASSUME NEW list, NEW S, Arranges(list, S)
    PROVE  IsFiniteSet(S) /\ Len(list) = Cardinality(S)
<1>a. PICK n : n = Len(list)
  OBVIOUS
<1>1. /\ n \in Nat /\ DOMAIN list = 1..n /\ list \in [1..n -> S]
      /\ (\A x \in S : \E j \in 1..n : list[j] = x)
      /\ (\A i, j \in 1..n : list[i] = list[j] => i = j)
  <2>1. list \in Seq(S)
    BY DEF Arranges
  <2>2. n \in Nat /\ DOMAIN list = 1..n /\ list \in [1..n -> S]
    BY <1>a, <2>1
  <2>3. QED
    BY <1>a, <2>2, ArrangesEach
<1>b. PICK N : N = 1..n
  OBVIOUS
<1>2. IsFiniteSet(N) /\ Cardinality(N) = n
  BY <1>1, <1>b, FS_Interval
<1>3. list \in Surjection(N, S) /\ list \in Injection(N, S)
  BY <1>1, <1>b DEF Surjection, Injection, IsInjective
<1>4. IsFiniteSet(S)
  BY <1>2, <1>3, FS_Surjection
<1>5. Cardinality(S) = Cardinality(N)
  BY <1>2, <1>3, <1>4, FS_Surjection, FS_Injection
<1>6. QED
  BY <1>a, <1>2, <1>4, <1>5

LEMMA Composed ==
    ASSUME NEW S, NEW list, Arranges(list, S), NEW order, Arranges(order, 1..Len(list))
    PROVE  /\ Len(order) = Len(list)
           /\ Arranges([k \in 1..Len(list) |-> list[order[k]]], S)
<1>a. PICK n : n = Len(list)
  OBVIOUS
<1>b. PICK turn : turn = [k \in 1..n |-> list[order[k]]]
  OBVIOUS
<1>1. /\ n \in Nat /\ (\A j \in 1..n : list[j] \in S)
      /\ (\A x \in S : \E j \in 1..n : list[j] = x)
      /\ (\A i, j \in 1..n : list[i] = list[j] => i = j)
  BY <1>a, ArrangesEach
<1>2. Len(order) = n
  <2>1. Len(order) = Cardinality(1..n)
    BY <1>a, ArrangesLength
  <2>2. Cardinality(1..n) = n
    BY <1>1, FS_Interval
  <2>3. QED
    BY <2>1, <2>2
<1>3. /\ \A k \in 1..n : order[k] \in 1..n
      /\ \A j \in 1..n : \E k \in 1..n : order[k] = j
      /\ \A i, k \in 1..n : order[i] = order[k] => i = k
  <2>1. Arranges(order, 1..n)
    BY <1>a
  <2>2. QED
    BY <1>2, <2>1, ArrangesEach
<1>4. turn \in [1..n -> S] /\ \A k \in 1..n : turn[k] = list[order[k]]
  BY <1>1, <1>3, <1>b
<1>5. turn \in Seq(S) /\ Len(turn) = n
  BY <1>1, <1>4
<1>6. Names(turn, S)
  <2> SUFFICES ASSUME NEW x \in S PROVE \E k \in 1..n : turn[k] = x
    BY <1>5 DEF Names
  <2>1. PICK j \in 1..n : list[j] = x
    BY <1>1
  <2>2. PICK k \in 1..n : order[k] = j
    BY <1>3
  <2>3. QED
    BY <1>4, <2>1, <2>2
<1>7. Once(turn)
  <2> SUFFICES ASSUME NEW i \in 1..n, NEW k \in 1..n, turn[i] = turn[k] PROVE i = k
    BY <1>5 DEF Once
  <2>1. order[i] \in 1..n /\ order[k] \in 1..n /\ list[order[i]] = list[order[k]]
    BY <1>3, <1>4
  <2>2. QED
    BY <1>1, <1>3, <2>1, ZenonT(60)
<1>8. Arranges(turn, S)
  BY <1>5, <1>6, <1>7, ArrangesFrom
<1>9. QED
  BY <1>2, <1>8, <1>a, <1>b

(* The members that are usable, on time and late ones, of a list that      *)
(* names the members M.                                                    *)
Usables(v, M) == M \cap (Available(v) \ v.cooling)
OnTime(v, M) == {i \in Usables(v, M) : ~IsSlow(v, i)}
Late(v, M) == {i \in Usables(v, M) : IsSlow(v, i)}

LEMMA SplitParts ==
    ASSUME NEW v, NEW M, M \subseteq Item, Arranges(v.items, M)
    PROVE  /\ Fast(v) = OnTime(v, M)
           /\ Arranges(splitSlow(v, partitionCandidates(v).eligible).slow, Late(v, M))
<1>a. PICK e : e = partitionCandidates(v).eligible
  OBVIOUS
<1>b. PICK late : late = {i \in Item : IsSlow(v, i)}
  OBVIOUS
<1>1. Arranges(e, Usables(v, M))
  BY <1>a, Parts DEF Usables
<1>2. /\ Arranges(Only(e, Item \ late), Usables(v, M) \cap (Item \ late))
      /\ Arranges(Only(e, late), Usables(v, M) \cap late)
  BY <1>1, OnlyArranges
<1>3. /\ Usables(v, M) \cap (Item \ late) = OnTime(v, M)
      /\ Usables(v, M) \cap late = Late(v, M)
  BY <1>b DEF OnTime, Late, Usables
<1>4. splitSlow(v, e) = [fast |-> Only(e, Item \ late), slow |-> Only(e, late)]
  BY <1>b DEF splitSlow
<1>5. ToSet(Only(e, Item \ late)) = OnTime(v, M)
  BY <1>2, <1>3 DEF Arranges
<1>6. splitSlow(v, e).fast = Only(e, Item \ late) /\ splitSlow(v, e).slow = Only(e, late)
  BY <1>4
<1>7. Fast(v) = ToSet(splitSlow(v, e).fast)
  BY <1>a DEF Fast, Members
<1>8. QED
  BY <1>a, <1>2, <1>3, <1>5, <1>6, <1>7

(* What is ranked comes in front of the slow and the cooling members. *)
Tailed(v, M, ranked, list) ==
    \E slow, cold : /\ Arranges(slow, Late(v, M))
                    /\ Arranges(cold, M \cap (Available(v) \cap v.cooling))
                    /\ list = (ranked \o slow) \o cold

LEMMA TailsArranged ==
    ASSUME NEW v, NEW M, M \subseteq Item, Arranges(v.items, M),
           NEW ranked, Arranges(ranked, OnTime(v, M))
    PROVE  /\ Usables(v, M) = {} => WithTails(v, ranked) = <<>>
           /\ Usables(v, M) # {} => Tailed(v, M, ranked, WithTails(v, ranked))
<1>a. PICK e : e = partitionCandidates(v).eligible
  OBVIOUS
<1>b. PICK cold : cold = partitionCandidates(v).cooling
  OBVIOUS
<1>c. PICK slow : slow = splitSlow(v, e).slow
  OBVIOUS
<1>1. Arranges(e, Usables(v, M)) /\ Arranges(cold, M \cap (Available(v) \cap v.cooling))
  BY <1>a, <1>b, Parts DEF Usables
<1>2. Arranges(slow, Late(v, M))
  BY <1>a, <1>c, SplitParts
<1>3. e = <<>> <=> Usables(v, M) = {}
  BY <1>1 DEF Arranges, ToSet
<1>4. WithTails(v, ranked) = IF e = <<>> THEN <<>> ELSE (ranked \o slow) \o cold
  BY <1>a, <1>b, <1>c DEF WithTails
<1>5. Usables(v, M) # {} => Tailed(v, M, ranked, WithTails(v, ranked))
  BY <1>1, <1>2, <1>3, <1>4 DEF Tailed
<1>6. QED
  BY <1>3, <1>4, <1>5

(* The weights of the round robin: n for the first, one for the last. *)
Descending(n) == [k \in 1..n |-> n + 1 - k]

LEMMA DescendingWeighs ==
    ASSUME NEW n \in Nat, n # 0
    PROVE  Weighs(Descending(n), n) /\ \A k \in 1..n : Descending(n)[k] = n + 1 - k
<1>1. \A k \in 1..n : n + 1 - k \in Nat \ {0}
  OBVIOUS
<1>2. QED
  BY <1>1 DEF Descending, Weighs

LEMMA ReplayIn ==
    ASSUME NEW n, NEW w, Weighs(w, n), NEW r \in Nat
    PROVE  Replay(w, r) \in 1..n
<1>a. PICK s : s = r % Total(w)
  OBVIOUS
<1>1. s \in 0..Total(w)
  <2>1. Total(w) \in Nat /\ Total(w) # 0
    BY WeighsTotal
  <2>2. QED
    BY <1>a, <2>1
<1>2. Fair(Rounds(w)[s], n, Total(w))
  BY <1>1, StandingThroughout DEF Standing
<1>3. Replay(w, r) = Wins1(Rounds(w)[s], w)
  BY <1>a DEF Replay, Wins1
<1>4. QED
  BY <1>2, <1>3, RoundFair

LEMMA OrderArranged ==
    ASSUME NEW n, NEW w, Weighs(w, n), NEW r \in Nat
    PROVE  /\ Arranges(smoothWeightedOrder(w, r), 1..n)
           /\ smoothWeightedOrder(w, r)[1] = Replay(w, r)
<1>a. PICK best : best = Replay(w, r)
  OBVIOUS
<1>b. PICK all : all = [k \in 1..n |-> k]
  OBVIOUS
<1>c. PICK N : N = 1..n
  OBVIOUS
<1>1. n \in Nat /\ Len(w) = n /\ best \in 1..n
  BY <1>a, WeighsTotal, ReplayIn DEF Weighs
<1>2. Arranges(all, N)
  <2>1. all \in Seq(N) /\ Len(all) = n
    BY <1>1, <1>b, <1>c
  <2>2. Names(all, N) /\ Once(all)
    BY <1>b, <1>c, <2>1 DEF Names, Once
  <2>3. QED
    BY <2>1, <2>2, ArrangesFrom
<1>3. PICK rest : rest = Only(all, N \ {best})
  OBVIOUS
<1>4. Arranges(rest, N \cap (N \ {best}))
  BY <1>2, <1>3, OnlyArranges
<1>5. Arranges(<<best>>, {best})
  <2>1. <<best>> \in Seq({best}) /\ Names(<<best>>, {best}) /\ Once(<<best>>)
    BY DEF Names, Once
  <2>2. QED
    BY <2>1, ArrangesFrom
<1>6. Arranges(<<best>> \o rest, {best} \cup (N \cap (N \ {best})))
  <2>1. {best} \cap (N \cap (N \ {best})) = {}
    OBVIOUS
  <2>2. QED
    BY <1>4, <1>5, <2>1, TwoLists
<1>7. {best} \cup (N \cap (N \ {best})) = N
  BY <1>1, <1>c
<1>8. smoothWeightedOrder(w, r) = <<best>> \o rest
  BY <1>1, <1>3, <1>a, <1>b, <1>c DEF smoothWeightedOrder
<1>9. (<<best>> \o rest)[1] = best
  <2>1. <<best>> \in Seq(N) /\ rest \in Seq(N) /\ Len(<<best>>) = 1
    BY <1>1, <1>4, <1>c DEF Arranges
  <2>2. Joins(<<best>>, rest, N)
    BY <2>1, Joined
  <2>3. 1 \in 1..Len(<<best>>)
    BY <2>1
  <2>4. (<<best>> \o rest)[1] = <<best>>[1]
    BY <2>2, <2>3, Zenon DEF Joins
  <2>5. QED
    BY <2>4
<1>10. QED
  BY <1>6, <1>7, <1>8, <1>9, <1>a, <1>c

(* rankCandidates: the members on time in their turn, whoever is first. *)
Turned(sorted, r) ==
    IF Len(sorted) = 0 THEN <<>>
    ELSE [k \in 1..Len(sorted) |-> sorted[smoothWeightedOrder(Descending(Len(sorted)), r)[k]]]

LEMMA NoKeyKeyed == ASSUME NEW S, S \subseteq Item PROVE Keyed(S, NoKey, 0)
  BY DEF Keyed, NoKey

LEMMA TurnArranged ==
    ASSUME NEW S, S \subseteq Item, NEW r \in Nat
    PROVE  /\ Arranges(Turned(SortedBy(S, NoKey), r), S)
           /\ S # {} => Turned(SortedBy(S, NoKey), r)[1] =
                          SortedBy(S, NoKey)[Replay(Descending(Len(SortedBy(S, NoKey))), r)]
<1>a. PICK sorted : sorted = SortedBy(S, NoKey)
  OBVIOUS
<1>b. PICK n : n = Len(sorted)
  OBVIOUS
<1>1. Arranges(sorted, S)
  BY <1>a, NoKeyKeyed, SortedByArranges
<1>2. n \in Nat /\ (\A x \in S : \E j \in 1..n : sorted[j] = x) /\ (\A j \in 1..n : sorted[j] \in S)
  BY <1>1, <1>b, ArrangesEach
<1>3. CASE n = 0
  <2>1. S = {}
    BY <1>2, <1>3
  <2>2. Turned(sorted, r) = <<>>
    BY <1>3, <1>b DEF Turned
  <2>3. QED
    BY <1>a, <2>1, <2>2, NothingArranged
<1>4. CASE n # 0
  <2>a. PICK order : order = smoothWeightedOrder(Descending(n), r)
    OBVIOUS
  <2>1. Weighs(Descending(n), n)
    BY <1>2, <1>4, DescendingWeighs
  <2>2. Arranges(order, 1..n) /\ order[1] = Replay(Descending(n), r)
    BY <2>1, <2>a, OrderArranged
  <2>3. Arranges([k \in 1..n |-> sorted[order[k]]], S)
    BY <1>1, <1>b, <2>2, Composed
  <2>4. Turned(sorted, r) = [k \in 1..n |-> sorted[order[k]]]
    BY <1>4, <1>b, <2>a DEF Turned
  <2>5. Turned(sorted, r)[1] = sorted[order[1]]
    BY <1>2, <1>4, <2>4
  <2>6. QED
    BY <1>a, <1>b, <2>2, <2>3, <2>4, <2>5
<1>5. QED
  BY <1>3, <1>4

LEMMA RankIsTurned ==
    ASSUME NEW v, NEW r
    PROVE  /\ rankCandidates(v, r, FALSE) = WithTails(v, Turned(SortedBy(Fast(v), NoKey), r))
           /\ rankCandidates(v, r, TRUE) =
                  WithTails(v, stableLatencySort(v, Turned(SortedBy(Fast(v), NoKey), r)))
  BY Zenon DEF rankCandidates, Turned, Descending

LEMMA HeadOfTurn ==
    ASSUME NEW v \in ViewRecord, NEW r \in Nat, OnTime(v, Item) # {}
    PROVE  Head(rankCandidates(v, r, FALSE)) =
               SortedBy(OnTime(v, Item), NoKey)[
                   Replay(Descending(Len(SortedBy(OnTime(v, Item), NoKey))), r)]
<1>a. PICK S : S = OnTime(v, Item)
  OBVIOUS
<1>b. PICK turn : turn = Turned(SortedBy(S, NoKey), r)
  OBVIOUS
<1>1. Arranges(v.items, Item)
  BY ItemsArranged
<1>2. Fast(v) = S
  BY <1>1, <1>a, SplitParts
<1>3. S \subseteq Item /\ S # {} /\ Usables(v, Item) # {}
  BY <1>a DEF OnTime, Usables
<1>4. Arranges(turn, S) /\ turn[1] = SortedBy(S, NoKey)[Replay(Descending(Len(SortedBy(S, NoKey))), r)]
  BY <1>3, <1>b, TurnArranged
<1>5. PICK slow, cold : /\ Arranges(slow, Late(v, Item))
                        /\ Arranges(cold, Item \cap (Available(v) \cap v.cooling))
                        /\ WithTails(v, turn) = (turn \o slow) \o cold
  <2>1. Arranges(turn, OnTime(v, Item))
    BY <1>4, <1>a
  <2>2. Tailed(v, Item, turn, WithTails(v, turn))
    BY <1>1, <1>3, <2>1, TailsArranged
  <2>3. QED
    BY <2>2, Zenon DEF Tailed
<1>6. slow \in Seq(Item) /\ cold \in Seq(Item) /\ turn \in Seq(Item)
  <2>1. Late(v, Item) \subseteq Item
    BY DEF Late, Usables
  <2>2. slow \in Seq(Late(v, Item)) /\ cold \in Seq(Item \cap (Available(v) \cap v.cooling)) /\ turn \in Seq(S)
    BY <1>4, <1>5 DEF Arranges
  <2>3. QED
    BY <1>3, <2>1, <2>2
<1>7. 1 \in 1..Len(turn)
  BY <1>3, <1>4, ArrangesEach
<1>8. (turn \o slow)[1] = turn[1] /\ 1 \in 1..Len(turn \o slow) /\ turn \o slow \in Seq(Item)
  <2>1. Joins(turn, slow, Item)
    BY <1>6, Joined
  <2>2. /\ Len(turn \o slow) = Plus(Len(turn), Len(slow)) /\ (turn \o slow)[1] = turn[1]
        /\ turn \o slow \in Seq(Item)
    BY <1>7, <2>1, Zenon DEF Joins
  <2>3. Len(turn) \in Nat /\ Len(slow) \in Nat
    BY <1>6
  <2>4. QED
    BY <1>7, <2>2, <2>3 DEF Plus
<1>9. ((turn \o slow) \o cold)[1] = turn[1] /\ (turn \o slow) \o cold \in Seq(Item)
  <2>1. Joins(turn \o slow, cold, Item)
    BY <1>6, <1>8, Joined
  <2>2. ((turn \o slow) \o cold)[1] = (turn \o slow)[1] /\ (turn \o slow) \o cold \in Seq(Item)
    BY <1>8, <2>1, Zenon DEF Joins
  <2>3. QED
    BY <1>8, <2>2
<1>10. rankCandidates(v, r, FALSE) = (turn \o slow) \o cold
  <2>1. rankCandidates(v, r, FALSE) = WithTails(v, turn)
    BY <1>2, <1>b, RankIsTurned
  <2>2. QED
    BY <1>5, <2>1
<1>11. Head(rankCandidates(v, r, FALSE)) = turn[1]
  <2>1. PICK s : s = (turn \o slow) \o cold
    OBVIOUS
  <2>2. s \in Seq(Item)
    BY <1>9, <2>1
  <2>3. Head(s) = s[1]
    BY <2>2
  <2>4. QED
    BY <1>9, <1>10, <2>1, <2>3
<1>12. QED
  BY <1>4, <1>11, <1>a

(* A period lasts for the sum of 1 to n. *)
LEMMA Triangle ==
    ASSUME NEW n \in Nat, n # 0
    PROVE  Total(Descending(n)) = (n * (n + 1)) \div 2
<1>a. PICK w : w = Descending(n)
  OBVIOUS
<1>b. PICK G : G = {m \in 0..n : 2 * SumOver(w, 1..m) = m * ((2 * n + 1) - m)}
  OBVIOUS
<1>1. Weighs(w, n) /\ \A k \in 1..n : w[k] = (n + 1) - k
  BY <1>a, DescendingWeighs
<1>2. 0 \in G
  <2>1. SumOver(w, 1..0) = 0
    <3>1. 1..0 = {}
      OBVIOUS
    <3>2. QED
      BY <3>1, SumEmpty
  <2>2. QED
    BY <1>b, <2>1
<1>3. ASSUME NEW m \in 0..n, m \in G, m < n PROVE m + 1 \in G
  <2>a. PICK N : N = 1..(m + 1)
    OBVIOUS
  <2>b. PICK s : s = SumOver(w, 1..m)
    OBVIOUS
  <2>1. m \in Nat /\ m + 1 \in N /\ N \ {m + 1} = 1..m /\ IsFiniteSet(N)
    <3>1. m \in Nat /\ m + 1 \in Int
      OBVIOUS
    <3>2. IsFiniteSet(1..(m + 1))
      BY <3>1, FS_Interval
    <3>3. QED
      BY <3>1, <3>2, <2>a
  <2>2. \A k \in N : w[k] \in Int
    <3>1. \A k \in N : k \in 1..n
      BY <1>3, <2>a
    <3>2. QED
      BY <1>1, <3>1
  <2>3. PICK j : j = m + 1
    OBVIOUS
  <2>4. SumOver(w, N) = w[j] + s
    <3>1. j \in N /\ N \ {j} = 1..m
      BY <2>1, <2>3
    <3>2. SumOver(w, N) = w[j] + SumOver(w, N \ {j})
      BY <2>1, <2>2, <3>1, SumElement
    <3>3. QED
      BY <2>b, <3>1, <3>2
  <2>5. s \in Int
    <3>1. PICK M : M = 1..m
      OBVIOUS
    <3>2. IsFiniteSet(M) /\ \A k \in M : w[k] \in Int
      <4>1. M \subseteq N
        BY <2>1, <3>1
      <4>2. QED
        BY <2>1, <2>2, <4>1, FS_Subset
    <3>3. QED
      BY <2>b, <3>1, <3>2, SumInt
  <2>6. 2 * s = m * ((2 * n + 1) - m)
    BY <1>3, <1>b, <2>b
  <2>7. w[j] = n - m
    <3>1. j \in 1..n
      BY <1>3, <2>3
    <3>2. QED
      BY <1>1, <2>1, <2>3, <3>1
  <2>8. 2 * ((n - m) + s) = (m + 1) * ((2 * n + 1) - (m + 1))
    BY <2>1, <2>5, <2>6
  <2>9. 2 * SumOver(w, 1..(m + 1)) = (m + 1) * ((2 * n + 1) - (m + 1))
    BY <2>4, <2>7, <2>8, <2>a
  <2>10. m + 1 \in 0..n
    BY <1>3
  <2>11. QED
    BY <1>b, <2>9, <2>10
<1>4. n \in G
  <2>1. Onward(G, n)
    BY <1>2, <1>3 DEF Onward
  <2>2. n \in 0..n
    OBVIOUS
  <2>3. QED
    BY <2>1, <2>2, Along
<1>5. PICK t : t = Total(w)
  OBVIOUS
<1>6. t \in Nat /\ t = SumOver(w, 1..n)
  BY <1>1, <1>5, WeighsTotal
<1>7. 2 * t = n * (n + 1)
  <2>1. 2 * t = n * ((2 * n + 1) - n)
    BY <1>4, <1>6, <1>b
  <2>2. (2 * n + 1) - n = n + 1
    OBVIOUS
  <2>3. QED
    BY <2>1, <2>2
<1>8. t = (2 * t) \div 2
  BY <1>6
<1>9. QED
  BY <1>5, <1>7, <1>8, <1>a

HeadsOf(v, t) == [r \in 0..(t - 1) |-> Head(rankCandidates(v, r, FALSE))]
Followed(list, n, t, heads) ==
    \A k \in 1..n : Cardinality({r \in 0..(t - 1) : heads[r] = list[k]}) = n + 1 - k

LEMMA FollowedIn ==
    ASSUME NEW v \in ViewRecord, NEW list, list = SortedBy(OnTime(v, Item), NoKey),
           NEW n, n = Len(list), NEW t, t = (n * (n + 1)) \div 2,
           NEW heads, heads = HeadsOf(v, t)
    PROVE  Followed(list, n, t, heads)
<1>1. Arranges(list, OnTime(v, Item)) /\ n \in Nat
  <2>1. OnTime(v, Item) \subseteq Item
    BY DEF OnTime, Usables
  <2>2. Arranges(list, OnTime(v, Item))
    BY <2>1, NoKeyKeyed, SortedByArranges
  <2>3. QED
    BY <2>2, ArrangesEach
<1> SUFFICES ASSUME NEW k \in 1..n
             PROVE  Cardinality({r \in 0..(t - 1) : heads[r] = list[k]}) = n + 1 - k
  BY DEF Followed
<1>2. n # 0 /\ OnTime(v, Item) # {}
  <2>1. list[k] \in OnTime(v, Item)
    BY <1>1, ArrangesEach
  <2>2. QED
    BY <1>1, <2>1
<1>a. PICK w : w = Descending(n)
  OBVIOUS
<1>3. Weighs(w, n) /\ w[k] = n + 1 - k /\ t = Total(w)
  <2>1. Weighs(w, n) /\ w[k] = n + 1 - k
    BY <1>1, <1>2, <1>a, DescendingWeighs
  <2>2. QED
    BY <1>1, <1>2, <1>a, <2>1, Triangle
<1>4. ASSUME NEW r \in 0..(t - 1)
      PROVE  Replay(w, r) \in 1..n /\ heads[r] = list[Replay(w, r)]
  <2>1. r \in Nat
    BY <1>3, WeighsTotal
  <2>2. heads[r] = Head(rankCandidates(v, r, FALSE))
    BY DEF HeadsOf
  <2>3. Head(rankCandidates(v, r, FALSE)) = list[Replay(w, r)]
    BY <1>2, <1>a, <2>1, HeadOfTurn
  <2>4. QED
    BY <1>3, <2>1, <2>2, <2>3, ReplayIn
<1>5. \A r \in 0..(t - 1) : heads[r] = list[k] <=> Replay(w, r) = k
  <2>1. \A i \in 1..n : list[i] = list[k] <=> i = k
    BY <1>1, ArrangesEach
  <2>2. QED
    BY <1>4, <2>1
<1>6. {r \in 0..(t - 1) : heads[r] = list[k]} = Won(w, k, t)
  BY <1>5 DEF Won
<1>7. QED
  BY <1>3, <1>6, PeriodsFollowWeights

(* balance.go, rankCandidates: the turns of a balanced failover group      *)
(* follow the places of its members for any number of members, whoever is  *)
(* off, cooling or slow.                                                   *)
THEOREM TurnsFollowWeights == PicksSpec => []RoundsFollowWeights
<1>1. ASSUME PicksInv PROVE RoundsFollowWeights
  <2>1. view \in ViewRecord
    BY <1>1 DEF PicksInv, PicksTypeOK
  <2>2. {i \in Usable : ~IsSlow(view, i)} = OnTime(view, Item)
    BY <2>1, ItemsArranged DEF Usable, OnTime, Usables
  <2> DEFINE list == SortedBy(OnTime(view, Item), NoKey)
             n == Len(list)
             t == (n * (n + 1)) \div 2
             heads == HeadsOf(view, t)
  <2>3. Followed(list, n, t, heads)
    <3>1. PICK l : l = list
      OBVIOUS
    <3>2. PICK m : m = Len(l)
      OBVIOUS
    <3>3. PICK p : p = (m * (m + 1)) \div 2
      OBVIOUS
    <3>4. PICK h : h = HeadsOf(view, p)
      OBVIOUS
    <3>5. Followed(l, m, p, h)
      BY <2>1, <3>1, <3>2, <3>3, <3>4, FollowedIn
    <3>6. QED
      BY <3>1, <3>2, <3>3, <3>4, <3>5, Zenon
  <2>4. RoundsFollowWeights <=> (mode = "failover" => Followed(list, n, t, heads))
    BY <2>2, Zenon DEF RoundsFollowWeights, Followed, HeadsOf
  <2>5. QED
    BY <2>3, <2>4
<1>2. QED
  BY <1>1, PicksInvariant, PTL
-----------------------------------------------------------------------------
(* What a ranking holds.                                                   *)

(* Cooling members are behind the usable ones. *)
ColdLast(v, list) ==
    \A j, k \in 1..Len(list) :
        list[j] \in v.cooling /\ list[k] \in Available(v) \ v.cooling => k < j

LEMMA ColdBehind ==
    ASSUME NEW v, NEW a, NEW S, Arranges(a, S), S \cap v.cooling = {},
           NEW b, NEW T, Arranges(b, T), T \subseteq v.cooling
    PROVE  Arranges(a \o b, S \cup T) /\ ColdLast(v, a \o b)
<1>a. PICK m : m = Len(a)
  OBVIOUS
<1>b. PICK n : n = Len(b)
  OBVIOUS
<1>c. PICK both : both = a \o b
  OBVIOUS
<1>1. Arranges(both, S \cup T)
  BY <1>c, TwoLists
<1>2. /\ m \in Nat /\ (\A j \in 1..m : a[j] \in S) /\ n \in Nat /\ (\A j \in 1..n : b[j] \in T)
  BY <1>a, <1>b, ArrangesEach
<1>3. /\ Len(both) = m + n /\ (\A j \in 1..(m + n) : both[j] = IF j <= m THEN a[j] ELSE b[j - m])
  <2>1. a \in Seq(S \cup T) /\ b \in Seq(S \cup T)
    BY DEF Arranges
  <2>2. QED
    BY <2>1, <1>a, <1>b, <1>c
<1>4. ASSUME NEW j \in 1..(m + n)
      PROVE  (j <= m => both[j] \in S) /\ (~(j <= m) => both[j] \in T)
  <2>1. CASE j <= m
    <3>1. j \in 1..m
      BY <1>2, <2>1
    <3>2. QED
      BY <1>2, <1>3, <2>1, <3>1
  <2>2. CASE ~(j <= m)
    <3>1. j - m \in 1..n
      BY <1>2, <2>2
    <3>2. QED
      BY <1>2, <1>3, <2>2, <3>1
  <2>3. QED
    BY <2>1, <2>2
<1>5. ASSUME NEW j \in 1..(m + n), NEW k \in 1..(m + n),
             both[j] \in v.cooling, both[k] \in Available(v) \ v.cooling
      PROVE  k < j
  <2>1. ~(j <= m) /\ k <= m
    BY <1>4, <1>5
  <2>2. QED
    BY <1>2, <2>1
<1>6. QED
  BY <1>1, <1>3, <1>5, <1>c DEF ColdLast

LEMMA RankedWhole ==
    ASSUME NEW v, NEW M, M \subseteq Item, Arranges(v.items, M),
           NEW ranked, Arranges(ranked, OnTime(v, M)), Usables(v, M) # {}
    PROVE  Arranges(WithTails(v, ranked), M \cap Available(v)) /\ ColdLast(v, WithTails(v, ranked))
<1>1. PICK slow, cold : /\ Arranges(slow, Late(v, M))
                        /\ Arranges(cold, M \cap (Available(v) \cap v.cooling))
                        /\ WithTails(v, ranked) = (ranked \o slow) \o cold
  <2>1. Tailed(v, M, ranked, WithTails(v, ranked))
    BY TailsArranged
  <2>2. QED
    BY <2>1, Zenon DEF Tailed
<1>a. PICK cooled : cooled = M \cap (Available(v) \cap v.cooling)
  OBVIOUS
<1>b. PICK front : front = ranked \o slow
  OBVIOUS
<1>c. PICK usables : usables = Usables(v, M)
  OBVIOUS
<1>2. Arranges(front, usables)
  <2>1. OnTime(v, M) \cap Late(v, M) = {} /\ OnTime(v, M) \cup Late(v, M) = usables
    BY <1>c DEF OnTime, Late
  <2>2. Arranges(front, OnTime(v, M) \cup Late(v, M))
    BY <1>1, <1>b, <2>1, TwoLists
  <2>3. QED
    BY <2>1, <2>2
<1>3. usables \cap v.cooling = {} /\ cooled \subseteq v.cooling /\ usables \cup cooled = M \cap Available(v)
  BY <1>a, <1>c DEF Usables
<1>4. Arranges(cold, cooled)
  BY <1>1, <1>a
<1>5. Arranges(front \o cold, usables \cup cooled) /\ ColdLast(v, front \o cold)
  BY <1>2, <1>3, <1>4, ColdBehind
<1>6. QED
  BY <1>1, <1>3, <1>5, <1>b

LEMMA TurnsWhole ==
    ASSUME NEW v, NEW M, M \subseteq Item, Arranges(v.items, M), Usables(v, M) # {}, NEW r \in Nat
    PROVE  /\ Arranges(rankCandidates(v, r, FALSE), M \cap Available(v))
           /\ ColdLast(v, rankCandidates(v, r, FALSE))
<1>a. PICK turn : turn = Turned(SortedBy(Fast(v), NoKey), r)
  OBVIOUS
<1>1. Arranges(turn, OnTime(v, M))
  <2>1. Fast(v) = OnTime(v, M)
    BY SplitParts
  <2>2. OnTime(v, M) \subseteq Item
    BY DEF OnTime, Usables
  <2>3. QED
    BY <1>a, <2>1, <2>2, TurnArranged
<1>2. rankCandidates(v, r, FALSE) = WithTails(v, turn)
  BY <1>a, RankIsTurned
<1>3. QED
  BY <1>1, <1>2, RankedWhole

-----------------------------------------------------------------------------
(* The tiers of a smart group.                                             *)

LEMMA FirstOfSome ==
    ASSUME NEW v, NEW list, NEW S, S \subseteq Item, Arranges(list, S), S \ v.cooling # {}
    PROVE  FirstOf(v, list) \in S \ v.cooling
<1>a. PICK ready : ready = Only(list, Item \ v.cooling)
  OBVIOUS
<1>b. PICK U : U = S \cap (Item \ v.cooling)
  OBVIOUS
<1>1. Arranges(ready, U) /\ U # {} /\ U = S \ v.cooling
  BY <1>a, <1>b, OnlyArranges
<1>2. ready \in Seq(U) /\ ready # <<>>
  BY <1>1 DEF Arranges, ToSet
<1>3. Head(ready) \in U
  BY <1>2
<1>4. FirstOf(v, list) = IF ready = <<>> THEN None ELSE Head(ready)
  BY <1>a DEF FirstOf
<1>5. QED
  BY <1>1, <1>2, <1>3, <1>4

(* Who is found is somebody who is not cooling. *)
LEMMA FirstOfFound ==
    ASSUME NEW v, NEW list, NEW S, S \subseteq Item, Arranges(list, S), FirstOf(v, list) # None
    PROVE  FirstOf(v, list) \in S \ v.cooling
<1>a. PICK ready : ready = Only(list, Item \ v.cooling)
  OBVIOUS
<1>b. PICK U : U = S \cap (Item \ v.cooling)
  OBVIOUS
<1>1. Arranges(ready, U) /\ U = S \ v.cooling
  BY <1>a, <1>b, OnlyArranges
<1>2. FirstOf(v, list) = IF ready = <<>> THEN None ELSE Head(ready)
  BY <1>a DEF FirstOf
<1>3. ready \in Seq(U) /\ ready # <<>>
  BY <1>1, <1>2 DEF Arranges
<1>4. Head(ready) \in U
  BY <1>3
<1>5. QED
  BY <1>1, <1>2, <1>3, <1>4

LEMMA DecisionsCounted ==
    ASSUME NEW v \in ViewRecord
    PROVE  SmartDecisionMembers(v.tops) \in Nat
<1>t. PICK tops : tops = v.tops
  OBVIOUS
<1>a. PICK s : s = SubSeq(tops, 1, (Len(tops) + 1) \div 2)
  OBVIOUS
<1>1. s \in Seq(Nat)
  <2>1. tops \in Seq(Nat) /\ Len(tops) \in Nat
    BY <1>t DEF ViewRecord
  <2>2. PICK h : h = (Len(tops) + 1) \div 2
    OBVIOUS
  <2>3. h \in Nat /\ h <= Len(tops)
    BY <2>1, <2>2
  <2>4. SubSeq(tops, 1, h) \in Seq(Nat)
    BY <2>1, <2>3
  <2>5. QED
    BY <1>a, <2>2, <2>4
<1>b. PICK N : N = 1..Len(s)
  OBVIOUS
<1>2. DOMAIN s = N /\ IsFiniteSet(N) /\ \A k \in N : s[k] \in Nat
  <2>1. Len(s) \in Nat
    BY <1>1
  <2>2. IsFiniteSet(1..Len(s))
    BY <2>1, FS_Interval
  <2>3. QED
    BY <1>1, <1>b, <2>2
<1>3. SumOver(s, N) \in Nat
  BY <1>2, SumNonNegative
<1>4. QED
  BY <1>2, <1>3, <1>a, <1>t DEF SmartDecisionMembers, Total

LEMMA TierNotEmpty ==
    ASSUME NEW v \in ViewRecord, Item # {}, NEW d \in Nat, NEW complex \in BOOLEAN
    PROVE  smartTierItems(v, d, complex) # <<>>
<1>a. PICK n : n = Len(v.items)
  OBVIOUS
<1>b. PICK wanted : wanted = IF d <= 0 THEN (n + 1) \div 2 ELSE d
  OBVIOUS
<1>c. PICK cut : cut = Min({n, wanted})
  OBVIOUS
<1>1. n \in Nat /\ n # 0 /\ v.items \in Seq(Item) /\ v.items # <<>>
  <2>1. Arranges(v.items, Item)
    BY ItemsArranged
  <2>2. n \in Nat /\ \A x \in Item : \E j \in 1..n : v.items[j] = x
    BY <1>a, <2>1, ArrangesEach
  <2>3. QED
    BY <2>1, <2>2, <1>a DEF Arranges
<1>2. wanted \in Nat /\ wanted # 0
  BY <1>1, <1>b
<1>3. cut \in 1..n
  <2>1. n \in Int /\ wanted \in Int
    BY <1>1, <1>2
  <2>2. Min({n, wanted}) \in {n, wanted} /\ Min({n, wanted}) <= n
    BY <2>1, Pairs
  <2>3. QED
    BY <1>1, <1>2, <1>c, <2>2
<1>4. SubSeq(v.items, 1, cut) # <<>>
  <2>a. PICK s : s = SubSeq(v.items, 1, cut)
    OBVIOUS
  <2>1. Len(s) = (cut - 1) + 1
    BY <1>1, <1>3, <1>a, <2>a
  <2>2. Len(s) # 0
    BY <1>3, <2>1
  <2>3. QED
    BY <2>2, <2>a
<1>5. cut < n => SubSeq(v.items, cut + 1, n) # <<>>
  <2> SUFFICES ASSUME cut < n PROVE SubSeq(v.items, cut + 1, n) # <<>>
    OBVIOUS
  <2>a. PICK s : s = SubSeq(v.items, cut + 1, n)
    OBVIOUS
  <2>1. Len(s) = (n - (cut + 1)) + 1
    BY <1>1, <1>3, <1>a, <2>a
  <2>2. Len(s) # 0
    BY <1>1, <1>3, <2>1
  <2>3. QED
    BY <2>2, <2>a
<1>d. PICK declared : declared = \E i \in Members(v.items) : v.tier[i] # "auto"
  OBVIOUS
<1>e. PICK named : named = Only(v.items, {i \in Item : (v.tier[i] = "decision") = complex})
  OBVIOUS
<1>6. smartTierItems(v, d, complex) =
          IF declared THEN IF named = <<>> THEN v.items ELSE named
          ELSE IF complex THEN SubSeq(v.items, 1, cut)
          ELSE IF cut >= n THEN v.items
          ELSE SubSeq(v.items, cut + 1, n)
  BY Zenon, <1>a, <1>b, <1>c, <1>d, <1>e DEF smartTierItems
<1>7. cut >= n \/ cut < n
  BY <1>1, <1>3
<1>8. QED
  BY <1>1, <1>4, <1>5, <1>6, <1>7
-----------------------------------------------------------------------------
(* stableLatencySort keeps the members it sorts.                           *)

LEMMA Piece ==
    ASSUME NEW T, NEW s \in Seq(T), NEW o \in 0..Len(s), NEW b \in o..Len(s)
    PROVE  /\ SubSeq(s, o + 1, b) \in Seq(T) /\ Len(SubSeq(s, o + 1, b)) = b - o
           /\ \A j \in 1..(b - o) : SubSeq(s, o + 1, b)[j] = s[Plus(o, j)]
<1>1. Len(s) \in Nat /\ o \in Nat /\ b \in Nat /\ o <= b /\ b <= Len(s)
  OBVIOUS
<1>a. PICK a : a = o + 1
  OBVIOUS
<1>b. PICK p : p = SubSeq(s, a, b)
  OBVIOUS
<1>2. p \in Seq(T) /\ Len(p) = (b - a) + 1 /\ \A j \in 1..((b - a) + 1) : p[j] = s[(a + j) - 1]
  BY <1>1, <1>a, <1>b
<1>3. (b - a) + 1 = b - o
  BY <1>1, <1>a
<1>4. ASSUME NEW j \in 1..(b - o) PROVE p[j] = s[Plus(o, j)]
  <2>1. (a + j) - 1 = o + j
    BY <1>1, <1>a
  <2>2. QED
    BY <1>2, <1>3, <2>1 DEF Plus
<1>5. QED
  BY <1>2, <1>3, <1>4, <1>a, <1>b

LEMMA PieceArranged ==
    ASSUME NEW S, NEW s, Arranges(s, S), NEW o \in 0..Len(s), NEW b \in o..Len(s)
    PROVE  Arranges(SubSeq(s, o + 1, b), {s[j] : j \in (o + 1)..b})
<1>a. PICK p : p = SubSeq(s, o + 1, b)
  OBVIOUS
<1>b. PICK U : U = {s[j] : j \in (o + 1)..b}
  OBVIOUS
<1>c. PICK l : l = b - o
  OBVIOUS
<1>1. /\ Len(s) \in Nat /\ (\A j \in 1..Len(s) : s[j] \in S)
      /\ (\A i, j \in 1..Len(s) : s[i] = s[j] => i = j)
      /\ o \in Nat /\ b \in Nat /\ o <= b /\ b <= Len(s) /\ l \in Nat
  BY <1>c, ArrangesEach
<1>2. Len(p) = l /\ p \in Seq(S) /\ \A j \in 1..l : p[j] = s[Plus(o, j)]
  <2>1. s \in Seq(S)
    BY DEF Arranges
  <2>2. QED
    BY <1>a, <1>c, <2>1, Piece
<1>3. ASSUME NEW j \in 1..l PROVE Plus(o, j) \in 1..Len(s) /\ Plus(o, j) \in (o + 1)..b
  BY <1>1, <1>c DEF Plus
<1>4. p \in Seq(U)
  <2>1. \A j \in 1..l : p[j] \in U
    BY <1>2, <1>3, <1>b
  <2>2. QED
    BY <1>2, <2>1
<1>5. Names(p, U)
  <2> SUFFICES ASSUME NEW x \in U PROVE \E j \in 1..l : p[j] = x
    BY <1>2 DEF Names
  <2>1. PICK k \in (o + 1)..b : x = s[k]
    BY <1>b
  <2>2. PICK j : j = k - o
    OBVIOUS
  <2>3. j \in 1..l /\ Plus(o, j) = k
    BY <1>1, <1>c, <2>2 DEF Plus
  <2>4. QED
    BY <1>2, <2>1, <2>3
<1>6. Once(p)
  <2> SUFFICES ASSUME NEW i \in 1..l, NEW j \in 1..l, p[i] = p[j] PROVE i = j
    BY <1>2 DEF Once
  <2>1. s[Plus(o, i)] = s[Plus(o, j)] /\ Plus(o, i) \in 1..Len(s) /\ Plus(o, j) \in 1..Len(s)
    BY <1>2, <1>3
  <2>2. Plus(o, i) = Plus(o, j)
    BY <1>1, <2>1
  <2>3. QED
    BY <1>1, <2>2 DEF Plus
<1>7. QED
  BY <1>4, <1>5, <1>6, <1>a, <1>b, ArrangesFrom

LEMMA Single == ASSUME NEW x PROVE Arranges(<<x>>, {x})
<1>1. <<x>> \in Seq({x}) /\ Names(<<x>>, {x}) /\ Once(<<x>>)
  BY DEF Names, Once
<1>2. QED
  BY <1>1, ArrangesFrom

LEMMA InsertArranged ==
    ASSUME NEW S, NEW s, Arranges(s, S), NEW x, x \notin S, NEW p \in 0..Len(s)
    PROVE  Arranges(InsertAt(s, p + 1, x), S \cup {x})
<1>a. PICK n \in Nat : n = Len(s)
  BY ArrangesEach
<1>b. PICK a : a = SubSeq(s, 1, p)
  OBVIOUS
<1>c. PICK b : b = SubSeq(s, p + 1, n)
  OBVIOUS
<1>d. PICK A : A = {s[j] : j \in 1..p}
  OBVIOUS
<1>e. PICK B : B = {s[j] : j \in (p + 1)..n}
  OBVIOUS
<1>1. Arranges(a, A)
  <2>1. 0 \in 0..Len(s) /\ p \in 0..Len(s)
    BY <1>a
  <2>2. Arranges(SubSeq(s, 0 + 1, p), {s[j] : j \in (0 + 1)..p})
    BY <2>1, PieceArranged
  <2>3. 0 + 1 = 1
    OBVIOUS
  <2>4. QED
    BY <1>b, <1>d, <2>2, <2>3
<1>2. Arranges(b, B)
  <2>1. n \in p..Len(s)
    BY <1>a
  <2>2. QED
    BY <1>c, <1>e, <2>1, PieceArranged
<1>3. A \cup B = S /\ A \cap B = {}
  <2>1. /\ (\A j \in 1..n : s[j] \in S) /\ (\A y \in S : \E j \in 1..n : s[j] = y)
        /\ (\A i, j \in 1..n : s[i] = s[j] => i = j)
    BY <1>a, ArrangesEach
  <2>2. p \in 0..n
    BY <1>a
  <2>3. \A j \in 1..n : j \in 1..p \/ j \in (p + 1)..n
    BY <2>2
  <2>4. \A j \in 1..p : j \in 1..n /\ j \notin (p + 1)..n
    BY <2>2
  <2>5. \A j \in (p + 1)..n : j \in 1..n
    BY <2>2
  <2>6. A \cup B = S
    BY <1>d, <1>e, <2>1, <2>3, <2>4, <2>5
  <2>7. A \cap B = {}
    <3> SUFFICES ASSUME NEW i \in 1..p, NEW j \in (p + 1)..n, s[i] = s[j] PROVE FALSE
      BY <1>d, <1>e
    <3>1. QED
      BY <2>1, <2>4, <2>5
  <2>8. QED
    BY <2>6, <2>7
<1>4. Arranges(a \o <<x>>, A \cup {x})
  <2>1. A \cap {x} = {}
    BY <1>3
  <2>2. QED
    BY <1>1, <2>1, Single, TwoLists
<1>5. Arranges((a \o <<x>>) \o b, (A \cup {x}) \cup B)
  <2>1. (A \cup {x}) \cap B = {}
    BY <1>3
  <2>2. QED
    BY <1>2, <1>4, <2>1, TwoLists
<1>6. (A \cup {x}) \cup B = S \cup {x}
  BY <1>3
<1>7. InsertAt(s, p + 1, x) = (a \o <<x>>) \o b
  <2>1. (p + 1) - 1 = p
    BY <1>a
  <2>2. QED
    BY <2>1, <1>a, <1>b, <1>c DEF InsertAt
<1>8. QED
  BY <1>5, <1>6, <1>7

(* A member sinks to the place behind the last that it is not sooner than. *)
Stops(v, out, i, k) ==
    /\ k = 0 \/ ~Sooner(v, i, out[k])
    /\ \A j \in (k + 1)..Len(out) : Sooner(v, i, out[j])
Stop(v, out, i) == CHOOSE k \in 0..Len(out) : Stops(v, out, i, k)
Sunk(v, out, i) == InsertAt(out, Stop(v, out, i) + 1, i)
Sinking(f, v, list) ==
    f = [k \in 0..Len(list) |-> IF k = 0 THEN <<>> ELSE Sunk(v, f[k - 1], list[k])]

LEMMA SortUnfolded ==
    ASSUME NEW v, NEW list
    PROVE  stableLatencySort(v, list) = (CHOOSE f : Sinking(f, v, list))[Len(list)]
  BY Zenon DEF stableLatencySort, Sinking, Sunk, Stop, Stops

LEMMA StopIn ==
    ASSUME NEW v, NEW T, NEW out \in Seq(T), NEW i
    PROVE  Stop(v, out, i) \in 0..Len(out)
<1>a. PICK n \in Nat : n = Len(out)
  OBVIOUS
<1>b. PICK C : C = {k \in 0..n : \A j \in (k + 1)..n : Sooner(v, i, out[j])}
  OBVIOUS
<1>1. C \subseteq Nat /\ C # {}
  <2>1. n \in C
    BY <1>b
  <2>2. C \subseteq 0..n
    BY <1>b
  <2>3. 0..n \subseteq Nat
    OBVIOUS
  <2>4. QED
    BY <2>1, <2>2, <2>3
<1>2. PICK k \in C : \A j \in C : k <= j
  BY <1>1, Least
<1>3. k \in 0..n /\ \A j \in (k + 1)..n : Sooner(v, i, out[j])
  BY <1>b
<1>4. k = 0 \/ ~Sooner(v, i, out[k])
  <2> SUFFICES ASSUME k # 0, Sooner(v, i, out[k]) PROVE FALSE
    OBVIOUS
  <2>1. PICK l \in 0..n : k = l + 1
    <3>1. k - 1 \in 0..n /\ k = (k - 1) + 1
      BY <1>3
    <3>2. QED
      BY <3>1
  <2>2. ASSUME NEW j \in (l + 1)..n PROVE Sooner(v, i, out[j])
    <3>1. j = k \/ j \in (k + 1)..n
      BY <1>3, <2>1
    <3>2. QED
      BY <1>3, <3>1
  <2>3. l \in C
    BY <1>b, <2>2
  <2>4. QED
    BY <1>2, <2>1, <2>3
<1>5. \E j \in 0..Len(out) : Stops(v, out, i, j)
  BY <1>3, <1>4, <1>a DEF Stops
<1>6. QED
  BY <1>5 DEF Stop

LEMMA SinkingExists ==
    ASSUME NEW v, NEW T, NEW list \in Seq(T)
    PROVE  Sinking(CHOOSE f : Sinking(f, v, list), v, list)
<1> DEFINE n == Len(list)
           V == Seq(T)
           step == [p \in V \X (1..n) |-> Sunk(v, p[1], list[p[2]])]
<1>1. n \in Nat /\ <<>> \in V /\ \A m \in 1..n : list[m] \in T
  OBVIOUS
<1>2. ASSUME NEW out \in V, NEW x \in T PROVE Sunk(v, out, x) \in V
  <2>a. PICK p : p = Stop(v, out, x)
    OBVIOUS
  <2>1. p \in 0..Len(out) /\ Len(out) \in Nat
    BY <2>a, StopIn
  <2>2. SubSeq(out, 1, p) \in Seq(T) /\ SubSeq(out, p + 1, Len(out)) \in Seq(T)
    BY <2>1
  <2>3. (p + 1) - 1 = p
    BY <2>1
  <2>4. InsertAt(out, p + 1, x) \in Seq(T)
    BY <2>2, <2>3 DEF InsertAt
  <2>5. QED
    BY <2>4, <2>a DEF Sunk
<1>3. step \in [V \X (1..n) -> V]
  <2>1. \A p \in V \X (1..n) : Sunk(v, p[1], list[p[2]]) \in V
    <3> SUFFICES ASSUME NEW p \in V \X (1..n) PROVE Sunk(v, p[1], list[p[2]]) \in V
      OBVIOUS
    <3>1. p[1] \in V /\ list[p[2]] \in T
      BY <1>1
    <3>2. QED
      BY <1>2, <3>1
  <2>2. QED
    BY <2>1
<1>4. \A a \in V, m \in 1..n : step[<<a, m>>] = Sunk(v, a, list[m])
  OBVIOUS
<1> HIDE DEF n, V, step
<1>5. PICK f : Recurs(f, n, V, <<>>, step)
  BY <1>1, <1>3, Recursion
<1>6. ASSUME NEW m \in 0..n
      PROVE  f[m] = IF m = 0 THEN <<>> ELSE Sunk(v, f[m - 1], list[m])
  <2>1. CASE m = 0
    BY <1>5, <2>1 DEF Recurs
  <2>2. CASE m # 0
    <3>1. m \in 1..n /\ m - 1 \in 0..n
      BY <1>1, <2>2
    <3>2. f[m - 1] \in V /\ f[m] = step[<<f[m - 1], m>>]
      BY <1>5, <3>1 DEF Recurs
    <3>3. QED
      BY <1>4, <2>2, <3>1, <3>2
  <2>3. QED
    BY <2>1, <2>2
<1>7. f \in [0..n -> V]
  BY <1>5 DEF Recurs
<1>8. Sinking(f, v, list)
  BY <1>6, <1>7 DEF Sinking, n
<1>9. QED
  BY <1>8

LEMMA SortArranged ==
    ASSUME NEW v, NEW T, NEW list, Arranges(list, T)
    PROVE  Arranges(stableLatencySort(v, list), T)
<1> DEFINE n == Len(list)
           f == CHOOSE g : Sinking(g, v, list)
           Sofar(m) == {list[j] : j \in 1..m}
           G == {m \in 0..n : Arranges(f[m], Sofar(m))}
<1>1. /\ n \in Nat /\ (\A j \in 1..n : list[j] \in T)
      /\ (\A y \in T : \E j \in 1..n : list[j] = y)
      /\ (\A i, j \in 1..n : list[i] = list[j] => i = j)
  BY ArrangesEach
<1>2. Sinking(f, v, list)
  BY SinkingExists DEF Arranges
<1>3. stableLatencySort(v, list) = f[n]
  BY SortUnfolded
<1> HIDE DEF f
<1>4. \A m \in 0..n : f[m] = IF m = 0 THEN <<>> ELSE Sunk(v, f[m - 1], list[m])
  <2> DEFINE h == [m \in 0..n |-> IF m = 0 THEN <<>> ELSE Sunk(v, f[m - 1], list[m])]
  <2>1. f = h
    BY <1>2 DEF Sinking
  <2>2. \A m \in 0..n : h[m] = IF m = 0 THEN <<>> ELSE Sunk(v, f[m - 1], list[m])
    OBVIOUS
  <2> HIDE DEF h
  <2>3. QED
    BY <2>1, <2>2
<1> HIDE DEF n
<1>5. 0 \in G
  <2>1. Sofar(0) = {} /\ f[0] = <<>>
    BY <1>1, <1>4
  <2> HIDE DEF Sofar
  <2>2. Arranges(f[0], Sofar(0))
    BY <2>1, NothingArranged
  <2>3. QED
    BY <1>1, <2>2
<1>6. ASSUME NEW m \in 0..n, m \in G, m < n PROVE m + 1 \in G
  <2> DEFINE x == list[m + 1]
  <2>1. m + 1 \in 0..n /\ m + 1 \in 1..n /\ (m + 1) - 1 = m /\ m + 1 # 0
    BY <1>1, <1>6
  <2>2. Arranges(f[m], Sofar(m))
    BY <1>6
  <2>3. f[m + 1] = Sunk(v, f[m], x)
    BY <1>4, <2>1
  <2>4. Sofar(m + 1) = Sofar(m) \cup {x}
    <3>1. 1..(m + 1) = (1..m) \cup {m + 1}
      BY <1>1
    <3>2. QED
      BY <3>1
  <2>5. x \notin Sofar(m)
    <3>1. ASSUME NEW j \in 1..m, list[j] = x PROVE FALSE
      <4>1. j \in 1..n /\ j # m + 1
        BY <1>1, <2>1
      <4>2. QED
        BY <1>1, <2>1, <3>1, <4>1
    <3>2. QED
      BY <3>1
  <2> HIDE DEF x, Sofar
  <2>6. Stop(v, f[m], x) \in 0..Len(f[m])
    <3>1. f[m] \in Seq(Sofar(m))
      BY <2>2 DEF Arranges
    <3>2. QED
      BY <3>1, StopIn
  <2>7. Arranges(Sunk(v, f[m], x), Sofar(m) \cup {x})
    BY <2>2, <2>5, <2>6, InsertArranged DEF Sunk
  <2>8. QED
    BY <2>1, <2>3, <2>4, <2>7
<1>7. Sofar(n) = T
  BY <1>1
<1> HIDE DEF G
<1>8. n \in G
  <2>1. n \in 0..n
    BY <1>1
  <2>2. Onward(G, n)
    BY <1>5, <1>6 DEF Onward
  <2>3. QED
    BY <1>1, <2>1, <2>2, Along
<1>9. QED
  BY <1>3, <1>7, <1>8 DEF G

LEMMA SortedTurnsWhole ==
    ASSUME NEW v, NEW M, M \subseteq Item, Arranges(v.items, M), Usables(v, M) # {}, NEW r \in Nat
    PROVE  /\ Arranges(rankCandidates(v, r, TRUE), M \cap Available(v))
           /\ ColdLast(v, rankCandidates(v, r, TRUE))
<1>a. PICK turn : turn = Turned(SortedBy(Fast(v), NoKey), r)
  OBVIOUS
<1>1. Arranges(stableLatencySort(v, turn), OnTime(v, M))
  <2>1. Fast(v) = OnTime(v, M)
    BY SplitParts
  <2>2. OnTime(v, M) \subseteq Item
    BY DEF OnTime, Usables
  <2>3. Arranges(turn, OnTime(v, M))
    BY <1>a, <2>1, <2>2, TurnArranged
  <2>4. QED
    BY <2>3, SortArranged
<1>2. rankCandidates(v, r, TRUE) = WithTails(v, stableLatencySort(v, turn))
  BY <1>a, RankIsTurned
<1>3. QED
  BY <1>1, <1>2, RankedWhole
-----------------------------------------------------------------------------
(* The keys of the rankings.                                               *)

LEMMA OneKey ==
    ASSUME NEW S, NEW key, \A i \in S : \E x \in Int : key[i] = <<x>>
    PROVE  Keyed(S, key, 1)
<1> SUFFICES ASSUME NEW i \in S PROVE key[i] \in Seq(Int) /\ Len(key[i]) = 1
  BY DEF Keyed
<1>1. PICK x \in Int : key[i] = <<x>>
  OBVIOUS
<1>2. <<x>> \in Seq(Int) /\ Len(<<x>>) = 1
  OBVIOUS
<1>3. QED
  BY <1>1, <1>2

LEMMA TwoKeys ==
    ASSUME NEW S, NEW key, \A i \in S : \E x, y \in Int : key[i] = <<x, y>>
    PROVE  Keyed(S, key, 2)
<1> SUFFICES ASSUME NEW i \in S PROVE key[i] \in Seq(Int) /\ Len(key[i]) = 2
  BY DEF Keyed
<1>1. PICK x \in Int, y \in Int : key[i] = <<x, y>>
  OBVIOUS
<1>2. <<x, y>> \in Seq(Int) /\ Len(<<x, y>>) = 2
  OBVIOUS
<1>3. QED
  BY <1>1, <1>2

(* A ranking by a key of S is whole and has the cooling members last. *)
LEMMA RankByWhole ==
    ASSUME NEW v \in ViewRecord, NEW l \in Nat, NEW key, Keyed(Item, key, l)
    PROVE  /\ Usables(v, Item) = {} => RankBy(v, key) = <<>>
           /\ Usables(v, Item) # {} =>
                  Arranges(RankBy(v, key), Item \cap Available(v)) /\ ColdLast(v, RankBy(v, key))
<1>a. PICK ranked : ranked = SortedBy(Fast(v), key)
  OBVIOUS
<1>1. Arranges(v.items, Item)
  BY ItemsArranged
<1>2. Arranges(ranked, OnTime(v, Item))
  <2>1. Fast(v) = OnTime(v, Item) /\ OnTime(v, Item) \subseteq Item
    BY <1>1, SplitParts DEF OnTime, Usables
  <2>2. Keyed(OnTime(v, Item), key, l)
    BY <2>1 DEF Keyed
  <2>3. QED
    BY <1>a, <2>1, <2>2, SortedByArranges
<1>3. RankBy(v, key) = WithTails(v, ranked)
  BY <1>a DEF RankBy
<1>4. QED
  BY <1>1, <1>2, <1>3, TailsArranged, RankedWhole

LEMMA SortKeys ==
    ASSUME NEW v \in ViewRecord, NEW m \in SortModes
    PROVE  \E l \in Nat : \E key : Keyed(Item, key, l) /\ RankByMode(m, v) = RankBy(v, key)
<1>1. \A i \in Item, d \in Dim : v.obs[d][i] \in Nat \cup {Unknown}
  BY Observed
<1>2. {"cost", "quality", "latency", "busy", "load", "requests"} \subseteq Dim
  BY Dims
<1>3. CASE m = "lowest_cost"
  <2>a. PICK price : price = v.obs["cost"]
    OBVIOUS
  <2>b. PICK key : key = [i \in Item |-> IF price[i] = Unknown THEN <<1, 0>> ELSE <<0, price[i]>>]
    OBVIOUS
  <2>1. \A i \in Item : \E x, y \in Int : key[i] = <<x, y>>
    <3> SUFFICES ASSUME NEW i \in Item PROVE \E x, y \in Int : key[i] = <<x, y>>
      OBVIOUS
    <3>1. price[i] = Unknown \/ price[i] \in Int
      BY <1>1, <1>2, <2>a
    <3>2. QED
      BY <2>b, <3>1
  <2>2. RankByMode(m, v) = RankBy(v, key)
    BY <1>3, <2>a, <2>b DEF RankByMode, rankByLowestCost
  <2>3. QED
    BY <2>1, <2>2, TwoKeys
<1>4. CASE m = "quality_first"
  <2>b. PICK key : key = [i \in Item |-> <<-OrElse(v.obs["quality"][i], FullRate)>>]
    OBVIOUS
  <2>1. \A i \in Item : \E x \in Int : key[i] = <<x>>
    <3> SUFFICES ASSUME NEW i \in Item PROVE \E x \in Int : key[i] = <<x>>
      OBVIOUS
    <3>1. OrElse(v.obs["quality"][i], FullRate) \in Int
      BY <1>1, <1>2 DEF OrElse, FullRate
    <3>2. -OrElse(v.obs["quality"][i], FullRate) \in Int
      BY <3>1
    <3>3. QED
      BY <2>b, <3>2
  <2>2. RankByMode(m, v) = RankBy(v, key)
    BY <1>4, <2>b DEF RankByMode, rankByQuality
  <2>3. QED
    BY <2>1, <2>2, OneKey
<1>5. CASE m = "lowest_latency"
  <2>b. PICK key : key = [i \in Item |-> <<OrElse(v.obs["latency"][i], 0)>>]
    OBVIOUS
  <2>1. \A i \in Item : \E x \in Int : key[i] = <<x>>
    <3> SUFFICES ASSUME NEW i \in Item PROVE \E x \in Int : key[i] = <<x>>
      OBVIOUS
    <3>1. OrElse(v.obs["latency"][i], 0) \in Int
      BY <1>1, <1>2 DEF OrElse
    <3>2. QED
      BY <2>b, <3>1
  <2>2. RankByMode(m, v) = RankBy(v, key)
    BY <1>5, <2>b DEF RankByMode, rankByLatency
  <2>3. QED
    BY <2>1, <2>2, OneKey
<1>6. CASE m = "least_busy"
  <2>b. PICK key : key = [i \in Item |-> <<OrElse(v.obs["busy"][i], 0)>>]
    OBVIOUS
  <2>1. \A i \in Item : \E x \in Int : key[i] = <<x>>
    <3> SUFFICES ASSUME NEW i \in Item PROVE \E x \in Int : key[i] = <<x>>
      OBVIOUS
    <3>1. OrElse(v.obs["busy"][i], 0) \in Int
      BY <1>1, <1>2 DEF OrElse
    <3>2. QED
      BY <2>b, <3>1
  <2>2. RankByMode(m, v) = RankBy(v, key)
    BY <1>6, <2>b DEF RankByMode, rankByBusy
  <2>3. QED
    BY <2>1, <2>2, OneKey
<1>7. CASE m = "lowest_tpm_rpm"
  <2>b. PICK key : key = [i \in Item |-> <<OrElse(v.obs["load"][i], 0), OrElse(v.obs["requests"][i], 0)>>]
    OBVIOUS
  <2>1. \A i \in Item : \E x, y \in Int : key[i] = <<x, y>>
    <3> SUFFICES ASSUME NEW i \in Item PROVE \E x, y \in Int : key[i] = <<x, y>>
      OBVIOUS
    <3>1. OrElse(v.obs["load"][i], 0) \in Int /\ OrElse(v.obs["requests"][i], 0) \in Int
      BY <1>1, <1>2 DEF OrElse
    <3>2. QED
      BY <2>b, <3>1
  <2>2. RankByMode(m, v) = RankBy(v, key)
    BY <1>7, <2>b DEF RankByMode, rankByRecentLoad
  <2>3. QED
    BY <2>1, <2>2, TwoKeys
<1>8. QED
  BY <1>3, <1>4, <1>5, <1>6, <1>7 DEF SortModes

-----------------------------------------------------------------------------
(* Scores.                                                                 *)

LEMMA DimsFinite == IsFiniteSet(WeightDim)
<1>1. IsFiniteSet(LowerBetter)
  <2>1. LowerBetter = ((((({"cost"} \cup {"multiplier"}) \cup {"perCall"}) \cup {"latency"}) \cup {"busy"}) \cup {"load"})
    BY DEF LowerBetter
  <2>2. QED
    BY <2>1, FS_Singleton, FS_Union
<1>2. IsFiniteSet(HigherBetter)
  <2>1. HigherBetter = ({"balance"} \cup {"monthly"}) \cup {"quality"}
    BY DEF HigherBetter
  <2>2. QED
    BY <2>1, FS_Singleton, FS_Union
<1>3. QED
  BY <1>1, <1>2, FS_Union DEF WeightDim

LEMMA SeenRange ==
    ASSUME NEW v \in ViewRecord, NEW S, S \subseteq Item, NEW d \in WeightDim, Seen(v, S, d) # {}
    PROVE  /\ Max(Seen(v, S, d)) \in Nat /\ Min(Seen(v, S, d)) \in Nat
           /\ \A x \in Seen(v, S, d) : /\ x \in Nat /\ x <= Max(Seen(v, S, d))
                                       /\ Min(Seen(v, S, d)) <= x
<1>a. PICK seen : seen = Seen(v, S, d)
  OBVIOUS
<1>b. PICK f : f = v.obs[d]
  OBVIOUS
<1>1. d \in Dim
  BY DEF Dim
<1>2. \A i \in S : f[i] \in Nat \cup {Unknown}
  BY <1>1, <1>b, Observed
<1>3. seen = {f[i] : i \in S} \ {Unknown}
  BY <1>a, <1>b DEF Seen
<1>4. seen \subseteq Nat
  BY <1>2, <1>3
<1>5. IsFiniteSet(seen)
  <2>1. IsFiniteSet(S)
    BY RankingAssumption, FS_Subset
  <2>2. IsFiniteSet({f[i] : i \in S})
    BY <2>1, ImageFinite
  <2>3. seen \subseteq {f[i] : i \in S}
    BY <1>3
  <2>4. QED
    BY <2>2, <2>3, FS_Subset
<1>6. seen # {} /\ seen \subseteq Int
  BY <1>4, <1>a
<1>7. /\ Max(seen) \in seen /\ \A y \in seen : Max(seen) >= y
      /\ Min(seen) \in seen /\ \A y \in seen : Min(seen) <= y
  BY <1>5, <1>6, MinOf, MaxOf
<1>8. ASSUME NEW x \in seen PROVE x \in Nat /\ x <= Max(seen) /\ Min(seen) <= x
  BY <1>4, <1>7
<1>9. QED
  BY <1>4, <1>7, <1>8, <1>a

(* How often c fits into a. *)
LEMMA Quotient ==
    ASSUME NEW a \in Nat, NEW c \in Nat, c # 0
    PROVE  /\ a \div c \in Nat
           /\ c * (a \div c) <= a /\ a < c * (a \div c) + c
<1>1. a \div c \in Int /\ a = c * (a \div c) + (a % c) /\ a % c \in 0..(c - 1)
  OBVIOUS
<1>a. PICK q : q = a \div c
  OBVIOUS
<1>b. PICK p : p = c * q
  OBVIOUS
<1>2. p \in Int /\ p <= a /\ a < p + c /\ q \in Int
  BY <1>1, <1>a, <1>b
<1>3. q \in Nat
  <2> SUFFICES ASSUME q < 0 PROVE FALSE
    BY <1>2
  <2>1. PICK k \in Nat : q = -(k + 1)
    <3>1. -q - 1 \in Nat /\ q = -((-q - 1) + 1)
      BY <1>2
    <3>2. QED
      BY <3>1
  <2>2. c * (k + 1) = c * k + c
    OBVIOUS
  <2>3. p = -(c * k + c)
    BY <1>b, <2>1, <2>2
  <2>4. PICK m \in Nat : m = c * k
    OBVIOUS
  <2>5. QED
    BY <1>2, <2>3, <2>4
<1>4. QED
  BY <1>2, <1>3, <1>a, <1>b

LEMMA QuotientGrows ==
    ASSUME NEW a \in Nat, NEW b \in Nat, NEW c \in Nat, c # 0, a <= b
    PROVE  a \div c <= b \div c
<1>a. PICK x \in Nat : x = a \div c
  BY Quotient
<1>b. PICK y \in Nat : y = b \div c
  BY Quotient
<1>1. c * x <= a /\ b < c * y + c
  BY <1>a, <1>b, Quotient
<1>2. SUFFICES ASSUME y < x PROVE FALSE
  BY <1>a, <1>b
<1>3. PICK k \in Nat : x = (y + 1) + k
  <2>1. x - (y + 1) \in Nat /\ x = (y + 1) + (x - (y + 1))
    BY <1>2
  <2>2. QED
    BY <2>1
<1>4. c * x = (c * y + c) + c * k
  BY <1>3
<1>c. PICK p \in Nat : p = c * y
  OBVIOUS
<1>d. PICK q \in Nat : q = c * k
  OBVIOUS
<1>5. c * x = (p + c) + q
  BY <1>4, <1>c, <1>d
<1>6. QED
  BY <1>1, <1>5, <1>c

(* What a dimension gives is between nothing and Scale, and no less to a   *)
(* member that is no worse.                                                *)
Better(x, y, d) ==
    \/ x = Unknown
    \/ y # Unknown /\ (IF d \in LowerBetter THEN x <= y ELSE x >= y)

LEMMA ScoreOf ==
    ASSUME NEW v \in ViewRecord, NEW S, S \subseteq Item, NEW d \in WeightDim, NEW i \in S
    PROVE  /\ Score(v, S, d, i) \in 0..Scale
           /\ \A j \in S : Better(v.obs[d][i], v.obs[d][j], d) => Score(v, S, d, j) <= Score(v, S, d, i)
<1>a. PICK seen : seen = Seen(v, S, d)
  OBVIOUS
<1>b. PICK most : most = Max(seen)
  OBVIOUS
<1>c. PICK least : least = Min(seen)
  OBVIOUS
<1>d. PICK f : f = v.obs[d]
  OBVIOUS
<1>s. PICK spread : spread = most - least
  OBVIOUS
<1> DEFINE Gain(k) == IF d \in LowerBetter THEN most - f[k] ELSE f[k] - least
           Given(k) == (Scale * Gain(k)) \div spread
<1>1. \A k \in S : Score(v, S, d, k) =
                       IF seen = {} THEN Scale \div 2
                       ELSE IF f[k] = Unknown THEN Scale
                       ELSE IF most <= least THEN Scale \div 2
                       ELSE Given(k)
  BY Zenon, <1>a, <1>b, <1>c, <1>d, <1>s DEF Score
<1>2. Scale = 12 /\ Scale \div 2 = 6
  BY DEF Scale
<1>3. ASSUME seen # {}
      PROVE  /\ most \in Nat /\ least \in Nat
             /\ \A k \in S : f[k] # Unknown => f[k] \in Nat /\ f[k] <= most /\ least <= f[k]
  <2>1. /\ Max(seen) \in Nat /\ Min(seen) \in Nat
        /\ \A x \in seen : x \in Nat /\ x <= Max(seen) /\ Min(seen) <= x
    BY <1>3, <1>a, SeenRange
  <2>2. \A k \in S : f[k] # Unknown => f[k] \in seen
    BY <1>a, <1>d DEF Seen
  <2>3. QED
    BY <2>1, <2>2, <1>b, <1>c
<1> DEFINE Measured(k) == seen # {} /\ f[k] # Unknown /\ ~(most <= least)
<1>4. ASSUME NEW k \in S, Measured(k)
      PROVE  /\ Gain(k) \in Nat /\ Gain(k) <= spread /\ spread \in Nat /\ spread # 0
             /\ Given(k) \in Nat /\ Given(k) <= 12
  <2>1. Gain(k) \in Nat /\ Gain(k) <= spread /\ spread \in Nat /\ spread # 0
    BY <1>3, <1>4, <1>s
  <2>a. PICK g \in Nat : g = Gain(k)
    BY <2>1
  <2>2. Given(k) = (12 * g) \div spread
    BY <1>2, <2>a
  <2>3. 12 * g \in Nat /\ 12 * spread \in Nat /\ 12 * g <= 12 * spread
    BY <2>1, <2>a
  <2>4. (12 * g) \div spread \in Nat /\ (12 * g) \div spread <= (12 * spread) \div spread
    BY <2>1, <2>3, Quotient, QuotientGrows
  <2>5. (12 * spread) \div spread <= 12
    <3>a. PICK q \in Nat : q = (12 * spread) \div spread
      BY <2>1, <2>3, Quotient
    <3>1. spread * q <= 12 * spread
      BY <2>1, <2>3, <3>a, Quotient
    <3>2. q <= 12
      <4> SUFFICES ASSUME q > 12 PROVE FALSE
        OBVIOUS
      <4>1. PICK k2 \in Nat : q = 13 + k2
        <5>1. q - 13 \in Nat /\ q = 13 + (q - 13)
          OBVIOUS
        <5>2. QED
          BY <5>1
      <4>2. spread * q = 13 * spread + spread * k2 /\ spread * k2 \in Nat
        BY <2>1, <4>1
      <4>3. QED
        BY <2>1, <3>1, <4>2
    <3>3. QED
      BY <3>2, <3>a
  <2>6. Given(k) \in Nat /\ Given(k) <= 12
    <3>a. PICK q \in Nat : q = (12 * g) \div spread
      BY <2>4
    <3>b. PICK r \in Nat : r = (12 * spread) \div spread
      BY <2>1, <2>3, Quotient
    <3>1. q <= r /\ r <= 12
      BY <2>4, <2>5, <3>a, <3>b
    <3>2. Given(k) = q
      BY <2>2, <3>a
    <3> HIDE DEF Given
    <3>3. QED
      BY <3>1, <3>2
  <2> HIDE DEF Gain, Given
  <2>7. QED
    BY <2>1, <2>6
<1>5. ASSUME NEW j \in S, Better(f[i], f[j], d), Measured(i), Measured(j)
      PROVE  Given(j) <= Given(i)
  <2>1. Gain(j) <= Gain(i)
    <3>1. f[i] \in Nat /\ f[j] \in Nat /\ most \in Nat /\ least \in Nat
      BY <1>3, <1>5
    <3>2. CASE d \in LowerBetter
      BY <1>5, <3>1, <3>2 DEF Better
    <3>3. CASE d \notin LowerBetter
      BY <1>5, <3>1, <3>3 DEF Better
    <3>4. QED
      BY <3>2, <3>3
  <2>2. Gain(i) \in Nat /\ Gain(j) \in Nat /\ spread \in Nat /\ spread # 0
    BY <1>4, <1>5
  <2>a. PICK g \in Nat : g = Gain(i)
    BY <2>2
  <2>b. PICK h \in Nat : h = Gain(j)
    BY <2>2
  <2>3. Given(i) = (12 * g) \div spread /\ Given(j) = (12 * h) \div spread
    BY <1>2, <2>a, <2>b
  <2>4. 12 * h \in Nat /\ 12 * g \in Nat /\ 12 * h <= 12 * g
    BY <2>1, <2>a, <2>b
  <2>5. (12 * h) \div spread <= (12 * g) \div spread
    BY <2>2, <2>4, QuotientGrows
  <2>6. QED
    BY <2>3, <2>5
<1>6. \A k \in S : Score(v, S, d, k) = IF Measured(k) THEN Given(k)
                                       ELSE IF seen # {} /\ f[k] = Unknown THEN 12 ELSE 6
  BY <1>1, <1>2
<1>7. \A k \in S : Measured(k) => Given(k) \in Nat /\ Given(k) <= 12
  BY <1>4
<1>8. Score(v, S, d, i) \in 0..12
  <2> HIDE DEF Given, Measured
  <2>1. QED
    BY <1>6, <1>7
<1>9. ASSUME NEW j \in S, Better(f[i], f[j], d)
      PROVE  Score(v, S, d, j) <= Score(v, S, d, i)
  <2>1. CASE Measured(i) /\ Measured(j)
    <3> HIDE DEF Given, Measured
    <3>1. QED
      BY <1>5, <1>6, <1>9, <2>1
  <2>2. CASE ~(Measured(i) /\ Measured(j))
    <3>1. \/ seen # {} /\ f[i] = Unknown
          \/ ~Measured(i) /\ ~Measured(j) /\ (seen = {} \/ (f[i] # Unknown /\ f[j] # Unknown))
      BY <1>9, <2>2 DEF Better
    <3> HIDE DEF Given
    <3>2. CASE seen # {} /\ f[i] = Unknown
      <4>1. Score(v, S, d, i) = 12
        BY <1>6, <3>2
      <4>2. Score(v, S, d, j) <= 12
        <5> HIDE DEF Measured
        <5>1. QED
          BY <1>6, <1>7
      <4>3. QED
        BY <4>1, <4>2
    <3>3. CASE ~Measured(i) /\ ~Measured(j) /\ (seen = {} \/ (f[i] # Unknown /\ f[j] # Unknown))
      <4> HIDE DEF Measured
      <4>1. QED
        BY <1>6, <3>3
    <3>4. QED
      BY <3>1, <3>2, <3>3
  <2>3. QED
    BY <2>1, <2>2
<1>10. QED
  BY <1>2, <1>8, <1>9, <1>d

LEMMA SumMonotone ==
    ASSUME NEW S, IsFiniteSet(S), NEW f, NEW g,
           \A x \in S : f[x] \in Int /\ g[x] \in Int /\ f[x] <= g[x]
    PROVE  SumOver(f, S) \in Int /\ SumOver(g, S) \in Int /\ SumOver(f, S) <= SumOver(g, S)
<1>a. PICK h : h = [x \in S |-> g[x] - f[x]]
  OBVIOUS
<1>1. \A x \in S : h[x] \in Nat /\ g[x] = f[x] + h[x] /\ h[x] \in Int
  BY <1>a
<1>2. SumOver(g, S) = SumOver(f, S) + SumOver(h, S)
  BY <1>1, SumPlus
<1>3. SumOver(h, S) \in Nat
  BY <1>1, SumNonNegative
<1>4. SumOver(f, S) \in Int
  BY SumInt
<1>5. QED
  BY <1>2, <1>3, <1>4

LEMMA ScoresOf ==
    ASSUME NEW v \in ViewRecord, NEW S, S \subseteq Item, NEW i \in S
    PROVE  /\ normalizedScore(v, S, i) \in Int
           /\ \A j \in S : (\A d \in WeightDim : Better(v.obs[d][i], v.obs[d][j], d))
                  => normalizedScore(v, S, j) <= normalizedScore(v, S, i)
<1> DEFINE Gives(k) == [d \in WeightDim |-> Weight[d] * Score(v, S, d, k)]
<1>1. \A k : normalizedScore(v, S, k) = SumOver(Gives(k), WeightDim)
  <2> SUFFICES ASSUME NEW k PROVE normalizedScore(v, S, k) = SumOver(Gives(k), WeightDim)
    OBVIOUS
  <2>1. DOMAIN Gives(k) = WeightDim
    OBVIOUS
  <2>2. normalizedScore(v, S, k) = Total(Gives(k))
    BY DEF normalizedScore
  <2> HIDE DEF Gives
  <2>3. QED
    BY <2>1, <2>2 DEF Total
<1>2. \A k \in S, d \in WeightDim : /\ Gives(k)[d] = Weight[d] * Score(v, S, d, k)
                                    /\ Weight[d] \in Nat /\ Score(v, S, d, k) \in Nat
  <2> SUFFICES ASSUME NEW k \in S, NEW d \in WeightDim
               PROVE  /\ Gives(k)[d] = Weight[d] * Score(v, S, d, k)
                      /\ Weight[d] \in Nat /\ Score(v, S, d, k) \in Nat
    OBVIOUS
  <2>1. Score(v, S, d, k) \in 0..Scale /\ Scale \in Nat
    BY ScoreOf DEF Scale
  <2>2. Weight[d] \in Nat
    BY WeightAssumption
  <2>3. QED
    BY <2>1, <2>2
<1> HIDE DEF Gives
<1>3. \A k \in S, d \in WeightDim : Gives(k)[d] \in Int
  <2> SUFFICES ASSUME NEW k \in S, NEW d \in WeightDim PROVE Gives(k)[d] \in Int
    OBVIOUS
  <2>1. PICK a \in Nat, b \in Nat : Gives(k)[d] = a * b
    BY <1>2
  <2>2. QED
    BY <2>1
<1>4. normalizedScore(v, S, i) \in Int
  BY <1>1, <1>3, DimsFinite, SumInt
<1>5. ASSUME NEW j \in S, \A d \in WeightDim : Better(v.obs[d][i], v.obs[d][j], d)
      PROVE  normalizedScore(v, S, j) <= normalizedScore(v, S, i)
  <2>1. ASSUME NEW d \in WeightDim PROVE Gives(j)[d] <= Gives(i)[d]
    <3>a. PICK w \in Nat : w = Weight[d]
      BY <1>2
    <3>b. PICK x \in Nat : x = Score(v, S, d, j)
      BY <1>2
    <3>c. PICK y \in Nat : y = Score(v, S, d, i)
      BY <1>2
    <3>1. x <= y
      BY <1>5, <3>b, <3>c, ScoreOf
    <3>2. w * x <= w * y
      <4>1. PICK z \in Nat : y = x + z
        <5>1. y - x \in Nat /\ y = x + (y - x)
          BY <3>1
        <5>2. QED
          BY <5>1
      <4>2. w * (x + z) = w * x + w * z
        BY Times
      <4>3. w * z \in Nat
        OBVIOUS
      <4>4. QED
        BY <4>1, <4>2, <4>3
    <3>3. QED
      BY <1>2, <3>2, <3>a, <3>b, <3>c
  <2>a. PICK f : f = Gives(j)
    OBVIOUS
  <2>b. PICK g : g = Gives(i)
    OBVIOUS
  <2>2. \A d \in WeightDim : f[d] \in Int /\ g[d] \in Int /\ f[d] <= g[d]
    BY <1>3, <2>1, <2>a, <2>b
  <2>3. SumOver(f, WeightDim) <= SumOver(g, WeightDim)
    BY <2>2, DimsFinite, SumMonotone
  <2>4. QED
    BY <1>1, <2>3, <2>a, <2>b
<1>6. QED
  BY <1>4, <1>5

-----------------------------------------------------------------------------
(* The weighted ranking.                                                   *)

KeptOf(v) == Members(partitionCandidates(v).eligible) \
                 (IF ExcludeSpent /\ Weight["monthly"] > 0
                  THEN {i \in Item : v.obs["monthly"][i] = 0} ELSE {})
ScoreKey(v, S) == [i \in S |-> <<-normalizedScore(v, S, i)>>]

LEMMA WeightedParts ==
    ASSUME NEW v \in ViewRecord
    PROVE  /\ KeptOf(v) \subseteq Usables(v, Item)
           /\ \A i \in Usables(v, Item) \ KeptOf(v) : v.obs["monthly"][i] = 0
           /\ Keyed(KeptOf(v), ScoreKey(v, KeptOf(v)), 1)
           /\ Arranges(SortedBy(KeptOf(v), ScoreKey(v, KeptOf(v))), KeptOf(v))
           /\ Arranges(partitionCandidates(v).cooling, Item \cap (Available(v) \cap v.cooling))
           /\ rankByWeighted(v) =
                  IF KeptOf(v) = {} THEN <<>>
                  ELSE SortedBy(KeptOf(v), ScoreKey(v, KeptOf(v))) \o partitionCandidates(v).cooling
<1>a. PICK S : S = KeptOf(v)
  OBVIOUS
<1>1. /\ Arranges(partitionCandidates(v).eligible, Usables(v, Item))
      /\ Arranges(partitionCandidates(v).cooling, Item \cap (Available(v) \cap v.cooling))
  BY ItemsArranged, Parts DEF Usables
<1>2. Members(partitionCandidates(v).eligible) = Usables(v, Item)
  BY <1>1 DEF Members, Arranges
<1>3. S \subseteq Usables(v, Item) /\ \A i \in Usables(v, Item) \ S : v.obs["monthly"][i] = 0
  BY <1>2, <1>a DEF KeptOf
<1>4. S \subseteq Item
  BY <1>3 DEF Usables
<1>5. Keyed(S, ScoreKey(v, S), 1)
  <2>1. \A i \in S : \E x \in Int : ScoreKey(v, S)[i] = <<x>>
    <3> SUFFICES ASSUME NEW i \in S PROVE \E x \in Int : ScoreKey(v, S)[i] = <<x>>
      OBVIOUS
    <3>1. PICK y \in Int : y = normalizedScore(v, S, i)
      BY <1>4, ScoresOf
    <3>2. ScoreKey(v, S)[i] = <<-y>> /\ -y \in Int
      BY <3>1 DEF ScoreKey
    <3>3. QED
      BY <3>2
  <2>2. QED
    BY <2>1, OneKey
<1>6. Arranges(SortedBy(S, ScoreKey(v, S)), S)
  BY <1>4, <1>5, SortedByArranges
<1>7. rankByWeighted(v) = IF S = {} THEN <<>>
                          ELSE SortedBy(S, ScoreKey(v, S)) \o partitionCandidates(v).cooling
  BY Zenon, <1>a DEF rankByWeighted, KeptOf, ScoreKey
<1>8. QED
  BY <1>1, <1>3, <1>5, <1>6, <1>7, <1>a

(* A member that is no worse and in front in the group comes before. *)
LEMMA BetterBefore ==
    ASSUME NEW v \in ViewRecord, NEW S, S \subseteq Item, Keyed(S, ScoreKey(v, S), 1),
           NEW i \in S, NEW j \in S, Priority[i] < Priority[j],
           \A d \in WeightDim : Better(v.obs[d][i], v.obs[d][j], d)
    PROVE  Before(ScoreKey(v, S), i, j)
<1>a. PICK key : key = ScoreKey(v, S)
  OBVIOUS
<1>b. PICK a : a = Word(key, i)
  OBVIOUS
<1>c. PICK b : b = Word(key, j)
  OBVIOUS
<1>1. /\ normalizedScore(v, S, i) \in Int /\ normalizedScore(v, S, j) \in Int
      /\ normalizedScore(v, S, j) <= normalizedScore(v, S, i)
  BY ScoresOf
<1>2. PICK l : l \in Nat /\ l = 1
  OBVIOUS
<1>3. Keyed(S, key, l) /\ l \in Nat
  BY <1>2, <1>a
<1>9. Worded(key, i, l) /\ Worded(key, j, l)
  BY <1>3, WordOf
<1>4. /\ a \in Seq(Int) /\ Len(a) = Plus(l, 2) /\ a[Plus(l, 1)] = Priority[i]
      /\ \A k \in 1..l : a[k] = key[i][k]
  BY <1>9, <1>b DEF Worded
<1>5. /\ b \in Seq(Int) /\ Len(b) = Plus(l, 2) /\ b[Plus(l, 1)] = Priority[j]
      /\ \A k \in 1..l : b[k] = key[j][k]
  BY <1>9, <1>c DEF Worded
<1>6. /\ DOMAIN a = 1..3 /\ a[1] = -normalizedScore(v, S, i) /\ a[2] = Priority[i]
      /\ b[1] = -normalizedScore(v, S, j) /\ b[2] = Priority[j]
  <2>1. Plus(l, 2) = 3 /\ Plus(l, 1) = 2 /\ 1 \in 1..l
    BY <1>2 DEF Plus
  <2>2. key[i][1] = -normalizedScore(v, S, i) /\ key[j][1] = -normalizedScore(v, S, j)
    BY <1>a DEF ScoreKey
  <2>3. DOMAIN a = 1..3
    BY <1>4, <2>1
  <2>4. QED
    BY <1>4, <1>5, <2>1, <2>2, <2>3
<1>7. Lex(a, b)
  <2>1. CASE normalizedScore(v, S, j) < normalizedScore(v, S, i)
    <3>1. 1 \in DOMAIN a /\ a[1] < b[1] /\ \A k \in 1..(1 - 1) : a[k] = b[k]
      BY <1>1, <1>6, <2>1
    <3>2. QED
      BY <3>1 DEF Lex
  <2>2. CASE normalizedScore(v, S, j) = normalizedScore(v, S, i)
    <3>1. 2 \in DOMAIN a /\ a[2] < b[2]
      BY <1>6
    <3>2. \A k \in 1..(2 - 1) : a[k] = b[k]
      BY <1>6, <2>2
    <3>3. QED
      BY <3>1, <3>2 DEF Lex
  <2>3. QED
    BY <1>1, <2>1, <2>2
<1>8. QED
  BY <1>7, <1>a, <1>b, <1>c DEF Before, Word

LEMMA WeightedWhole ==
    ASSUME NEW v \in ViewRecord, rankByWeighted(v) # <<>>
    PROVE  /\ Arranges(rankByWeighted(v), KeptOf(v) \cup (Item \cap (Available(v) \cap v.cooling)))
           /\ ColdLast(v, rankByWeighted(v))
<1>a. PICK front : front = SortedBy(KeptOf(v), ScoreKey(v, KeptOf(v)))
  OBVIOUS
<1>b. PICK cold : cold = partitionCandidates(v).cooling
  OBVIOUS
<1>c. PICK S : S = KeptOf(v)
  OBVIOUS
<1>d. PICK T : T = Item \cap (Available(v) \cap v.cooling)
  OBVIOUS
<1>1. /\ S \subseteq Usables(v, Item) /\ Arranges(front, S) /\ Arranges(cold, T)
      /\ rankByWeighted(v) = IF S = {} THEN <<>> ELSE front \o cold
  BY WeightedParts, <1>a, <1>b, <1>c, <1>d
<1>2. rankByWeighted(v) = front \o cold
  BY <1>1
<1>3. S \cap v.cooling = {} /\ T \subseteq v.cooling
  BY <1>1, <1>d DEF Usables
<1>4. Arranges(front \o cold, S \cup T) /\ ColdLast(v, front \o cold)
  BY <1>1, <1>3, ColdBehind
<1>5. QED
  BY <1>2, <1>4, <1>c, <1>d

(* weights.go, rankByWeighted: whatever the weights are, a member that is  *)
(* no worse than another in every dimension is ranked before it when it    *)
(* comes before it in the group; integer division and the half for a       *)
(* dimension that tells nothing never turn the two around.                 *)
THEOREM DominatedStaysBehind == PicksSpec => []DominatedComesLater
<1>1. ASSUME PicksInv PROVE DominatedComesLater
  <2>a. PICK v \in ViewRecord : v = view
    BY <1>1 DEF PicksInv, PicksTypeOK
  <2>b. PICK S : S = KeptOf(v)
    OBVIOUS
  <2>c. PICK key : key = ScoreKey(v, S)
    OBVIOUS
  <2>d. PICK front : front = SortedBy(S, key)
    OBVIOUS
  <2>e. PICK cold : cold = partitionCandidates(v).cooling
    OBVIOUS
  <2>f. PICK list : list = rankByWeighted(v)
    OBVIOUS
  <2>1. /\ S \subseteq Item /\ Keyed(S, key, 1) /\ Arranges(front, S)
        /\ Arranges(cold, Item \cap (Available(v) \cap v.cooling))
        /\ list = IF S = {} THEN <<>> ELSE front \o cold
    BY WeightedParts, <2>a, <2>b, <2>c, <2>d, <2>e, <2>f DEF Usables
  <2>2. Sorted(front, key)
    <3>1. 1 \in Nat
      OBVIOUS
    <3>2. QED
      BY <2>1, <2>d, <3>1, SortedByArranges
  <2>g. PICK m \in Nat : m = Len(front)
    BY <2>1, ArrangesEach
  <2>3. ASSUME NEW j \in DOMAIN list, list[j] \notin v.cooling
        PROVE  j \in 1..m /\ list[j] = front[j]
    <3>1. list = front \o cold
      BY <2>1, <2>3
    <3>h. PICK n \in Nat : n = Len(cold)
      BY <2>1, ArrangesEach
    <3>2. Len(list) = m + n /\ DOMAIN list = 1..(m + n)
          /\ \A k \in 1..(m + n) : list[k] = IF k <= m THEN front[k] ELSE cold[k - m]
      <4>1. front \in Seq(Item) /\ cold \in Seq(Item)
        BY <2>1 DEF Arranges
      <4>2. QED
        BY <3>1, <4>1, <2>g, <3>h
    <3>3. j <= m
      <4> SUFFICES ASSUME ~(j <= m) PROVE FALSE
        BY <3>2
      <4>1. j \in 1..(m + n) /\ j - m \in 1..n
        BY <3>2
      <4>2. list[j] = cold[j - m]
        BY <3>2, <4>1
      <4>3. cold[j - m] \in v.cooling
        BY <2>1, <3>h, <4>1, ArrangesEach
      <4>4. QED
        BY <2>3, <4>2, <4>3
    <3>4. QED
      BY <3>2, <3>3
  <2>4. ASSUME NEW j \in DOMAIN list, NEW k \in DOMAIN list,
               list[j] \notin v.cooling, list[k] \notin v.cooling,
               Priority[list[j]] < Priority[list[k]],
               \A d \in WeightDim : Better(v.obs[d][list[j]], v.obs[d][list[k]], d)
        PROVE  j < k
    <3>a. PICK x \in S : x = list[j] /\ x = front[j] /\ j \in 1..m
      BY <2>1, <2>3, <2>4, <2>g, ArrangesEach
    <3>b. PICK y \in S : y = list[k] /\ y = front[k] /\ k \in 1..m
      BY <2>1, <2>3, <2>4, <2>g, ArrangesEach
    <3>1. Before(key, x, y)
      <4>1. Priority[x] < Priority[y] /\ \A d \in WeightDim : Better(v.obs[d][x], v.obs[d][y], d)
        BY <2>4, <3>a, <3>b
      <4>2. Keyed(S, ScoreKey(v, S), 1)
        BY <2>1, <2>c
      <4>3. Before(ScoreKey(v, S), x, y)
        BY <2>1, <4>1, <4>2, BetterBefore
      <4>4. QED
        BY <4>3, <2>c
    <3>2. ~Before(key, y, x) /\ x # y
      <4>1. PICK l : l \in Nat /\ l = 1
        OBVIOUS
      <4>2. Keyed(S, key, l)
        BY <2>1, <4>1
      <4>3. /\ \A a, b, c \in S : Before(key, a, b) /\ Before(key, b, c) => Before(key, a, c)
            /\ \A a \in S : ~Before(key, a, a)
        BY <2>1, <4>1, <4>2, BeforeOrders
      <4>4. QED
        BY <3>1, <4>3
    <3>3. ~(k < j)
      <4>1. DOMAIN front = 1..m
        BY <2>1, <2>g, ArrangesEach
      <4>2. QED
        BY <2>2, <3>2, <3>a, <3>b, <4>1 DEF Sorted
    <3>4. j # k
      BY <3>2, <3>a, <3>b
    <3>5. QED
      BY <3>3, <3>4, <3>a, <3>b
  <2>5. \A i, j, d : NoWorse(i, j, d) <=> Better(v.obs[d][i], v.obs[d][j], d)
    BY <2>a, Zenon DEF NoWorse, Better
  <2>6. QED
    BY <2>4, <2>5, <2>a, <2>f DEF DominatedComesLater
<1>2. QED
  BY <1>1, PicksInvariant, PTL
-----------------------------------------------------------------------------
(* Every ranking is whole.                                                 *)

(* What smartTierItems gives is part of the group. *)
LEMMA TierArranged ==
    ASSUME NEW v \in ViewRecord, NEW d \in Nat, NEW complex \in BOOLEAN
    PROVE  \E M \in SUBSET Item : Arranges(smartTierItems(v, d, complex), M)
<1>a. PICK n : n = Len(v.items)
  OBVIOUS
<1>b. PICK wanted : wanted = IF d <= 0 THEN (n + 1) \div 2 ELSE d
  OBVIOUS
<1>c. PICK cut : cut = Min({n, wanted})
  OBVIOUS
<1>d. PICK declared : declared = \E i \in Members(v.items) : v.tier[i] # "auto"
  OBVIOUS
<1>e. PICK named : named = Only(v.items, {i \in Item : (v.tier[i] = "decision") = complex})
  OBVIOUS
<1>1. Arranges(v.items, Item) /\ n \in Nat
  BY <1>a, ItemsArranged, ArrangesEach
<1>2. smartTierItems(v, d, complex) =
          IF declared THEN IF named = <<>> THEN v.items ELSE named
          ELSE IF complex THEN SubSeq(v.items, 1, cut)
          ELSE IF cut >= n THEN v.items
          ELSE SubSeq(v.items, cut + 1, n)
  BY Zenon, <1>a, <1>b, <1>c, <1>d, <1>e DEF smartTierItems
<1>3. cut \in 0..n
  <2>1. n \in Int /\ wanted \in Nat /\ wanted \in Int
    BY <1>1, <1>b
  <2>2. Min({n, wanted}) \in {n, wanted} /\ Min({n, wanted}) <= n
    BY <2>1, Pairs
  <2>3. QED
    BY <1>1, <1>c, <2>1, <2>2
<1>4. Arranges(named, Item \cap {i \in Item : (v.tier[i] = "decision") = complex})
  BY <1>1, <1>e, OnlyArranges
<1>5. \E M \in SUBSET Item : Arranges(SubSeq(v.items, 1, cut), M)
  <2>a. PICK M : M = {v.items[j] : j \in 1..cut}
    OBVIOUS
  <2>1. Arranges(SubSeq(v.items, 1, cut), M)
    <3>1. 0 \in 0..Len(v.items) /\ cut \in 0..Len(v.items)
      BY <1>1, <1>3, <1>a
    <3>2. Arranges(SubSeq(v.items, 0 + 1, cut), {v.items[j] : j \in (0 + 1)..cut})
      BY <1>1, <3>1, PieceArranged
    <3>3. 0 + 1 = 1
      OBVIOUS
    <3>4. QED
      BY <2>a, <3>2, <3>3
  <2>2. M \subseteq Item
    <3>1. \A j \in 1..n : v.items[j] \in Item
      BY <1>1, <1>a, ArrangesEach
    <3>2. \A j \in 1..cut : j \in 1..n
      BY <1>1, <1>3
    <3>3. QED
      BY <2>a, <3>1, <3>2
  <2>3. QED
    BY <2>1, <2>2
<1>6. \E M \in SUBSET Item : Arranges(SubSeq(v.items, cut + 1, n), M)
  <2>a. PICK M : M = {v.items[j] : j \in (cut + 1)..n}
    OBVIOUS
  <2>1. Arranges(SubSeq(v.items, cut + 1, n), M)
    <3>1. cut \in 0..Len(v.items) /\ n \in cut..Len(v.items)
      BY <1>1, <1>3, <1>a
    <3>2. QED
      BY <1>1, <2>a, <3>1, PieceArranged
  <2>2. M \subseteq Item
    <3>1. \A j \in 1..n : v.items[j] \in Item
      BY <1>1, <1>a, ArrangesEach
    <3>2. \A j \in (cut + 1)..n : j \in 1..n
      BY <1>1, <1>3
    <3>3. QED
      BY <2>a, <3>1, <3>2
  <2>3. QED
    BY <2>1, <2>2
<1>7. CASE smartTierItems(v, d, complex) = v.items
  BY <1>1, <1>7
<1>8. CASE smartTierItems(v, d, complex) = named
  BY <1>4, <1>8
<1>9. CASE smartTierItems(v, d, complex) = SubSeq(v.items, 1, cut)
  BY <1>5, <1>9
<1>10. CASE smartTierItems(v, d, complex) = SubSeq(v.items, cut + 1, n)
  BY <1>6, <1>10
<1>11. QED
  BY <1>2, <1>7, <1>8, <1>9, <1>10

(* A list of a failover group, of the members it is made from. *)
LEMMA FailoverArranged ==
    ASSUME NEW v, NEW M, M \subseteq Item, Arranges(v.items, M), NEW r \in Nat
    PROVE  /\ balanced /\ Usables(v, M) = {} => FailoverList(v, r) = <<>>
           /\ balanced /\ Usables(v, M) # {} => Arranges(FailoverList(v, r), M \cap Available(v))
           /\ ~balanced => Arranges(FailoverList(v, r), M)
<1>1. ASSUME Usables(v, M) = {} PROVE rankCandidates(v, r, FALSE) = <<>>
  <2>a. PICK turn : turn = Turned(SortedBy(Fast(v), NoKey), r)
    OBVIOUS
  <2>1. Fast(v) = OnTime(v, M)
    BY SplitParts
  <2>2. OnTime(v, M) \subseteq Item
    BY DEF OnTime, Usables
  <2>3. Arranges(turn, OnTime(v, M))
    BY <2>a, <2>1, <2>2, TurnArranged
  <2>4. WithTails(v, turn) = <<>>
    BY <1>1, <2>3, TailsArranged
  <2>5. QED
    BY <2>a, <2>4, RankIsTurned
<1>2. ASSUME Usables(v, M) # {} PROVE Arranges(rankCandidates(v, r, FALSE), M \cap Available(v))
  BY <1>2, TurnsWhole
<1>3. FailoverList(v, r) = IF balanced THEN rankCandidates(v, r, FALSE) ELSE v.items
  BY DEF FailoverList
<1>4. QED
  BY <1>1, <1>2, <1>3

(* smart.go: whoever is cooling and however the tiers are declared, a      *)
(* request of either kind is given a member that is not cooling while the  *)
(* group has one, and one that is marked available with the round robin    *)
(* on: the way back from an empty or exhausted tier leads to the group.    *)
THEOREM TiersLeaveSomebody == PicksSpec => []TiersNeverStrand
<1>1. ASSUME PicksInv PROVE TiersNeverStrand
  <2>o. PICK open : open = (IF balanced THEN Available(view) ELSE Item) \ view.cooling
    OBVIOUS
  <2> SUFFICES ASSUME open # {}, NEW complex \in BOOLEAN
               PROVE  PickGroupItemSmart(view, round, complex) \in open
    BY <2>o DEF TiersNeverStrand
  <2>1. /\ view \in ViewRecord /\ round \in Nat /\ (round + 1) % Period \in Nat
        /\ Arranges(view.items, Item) /\ Available(view) \subseteq Item
    BY <1>1, ItemsArranged DEF PicksInv, PicksTypeOK, Period
  <2>a. PICK tier : tier = Tier(view, complex)
    OBVIOUS
  <2>b. PICK u : u = [view EXCEPT !.items = tier]
    OBVIOUS
  <2>c. PICK next \in Nat : next = (round + 1) % Period
    BY <2>1
  <2>2. SmartDecisionMembers(view.tops) \in Nat /\ Item # {}
    BY <2>1, <2>o, DecisionsCounted
  <2>3. tier # <<>>
    BY <2>1, <2>2, <2>a, TierNotEmpty DEF Tier
  <2>4. PICK M \in SUBSET Item : Arranges(tier, M)
    BY <2>1, <2>2, <2>a, TierArranged DEF Tier
  <2>5. InTier(view, round, complex) = FirstOf(view, FailoverList(u, round))
    BY Zenon, <2>a, <2>b DEF InTier
  <2>6. ASSUME InTier(view, round, complex) # None
        PROVE  InTier(view, round, complex) \in open
    <3>a. PICK list : list = FailoverList(u, round)
      OBVIOUS
    <3>1. Arranges(u.items, M) /\ Available(u) = Available(view)
      BY <2>1, <2>4, <2>b DEF ViewRecord, Available
    <3>2. CASE balanced
      <4>1. list # <<>>
        <5> SUFFICES ASSUME list = <<>> PROVE FALSE
          OBVIOUS
        <5>1. Arranges(list, {})
          BY NothingArranged
        <5>2. FirstOf(view, list) # None
          BY <2>5, <2>6, <3>a
        <5>3. FirstOf(view, list) \in {} \ view.cooling
          BY <5>1, <5>2, FirstOfFound
        <5>4. QED
          BY <5>3
      <4>2. Arranges(list, M \cap Available(view))
        BY <2>1, <3>1, <3>2, <3>a, <4>1, FailoverArranged
      <4>3. FirstOf(view, list) \in (M \cap Available(view)) \ view.cooling
        BY <2>5, <2>6, <3>a, <4>2, FirstOfFound
      <4>4. QED
        BY <2>5, <2>o, <3>2, <3>a, <4>3
    <3>3. CASE ~balanced
      <4>1. Arranges(list, M)
        BY <2>1, <3>1, <3>3, <3>a, FailoverArranged
      <4>2. FirstOf(view, list) \in M \ view.cooling
        BY <2>5, <2>6, <3>a, <4>1, FirstOfFound
      <4>3. QED
        BY <2>5, <2>o, <3>3, <3>a, <4>2
    <3>4. QED
      BY <3>2, <3>3
  <2>7. FirstOf(view, FailoverList(view, next)) \in open
    <3>a. PICK list : list = FailoverList(view, next)
      OBVIOUS
    <3>1. CASE balanced
      <4>1. Usables(view, Item) # {} /\ (Item \cap Available(view)) \ view.cooling = open
        BY <2>1, <2>o, <3>1 DEF Usables
      <4>2. Arranges(list, Item \cap Available(view))
        BY <2>1, <2>c, <3>1, <3>a, <4>1, FailoverArranged
      <4>3. QED
        <5>1. Item \cap Available(view) \subseteq Item
          OBVIOUS
        <5>2. FirstOf(view, list) \in (Item \cap Available(view)) \ view.cooling
          BY <4>1, <4>2, <5>1, FirstOfSome
        <5>3. QED
          BY <3>a, <4>1, <5>2
    <3>2. CASE ~balanced
      <4>1. Arranges(list, Item) /\ Item \ view.cooling = open
        BY <2>1, <2>c, <2>o, <3>2, <3>a, FailoverArranged
      <4>2. FirstOf(view, list) \in Item \ view.cooling
        BY <4>1, FirstOfSome
      <4>3. QED
        BY <3>a, <4>1, <4>2
    <3>3. QED
      BY <3>1, <3>2
  <2>8. FallsBack(view, round, complex) <=> InTier(view, round, complex) = None
    BY <2>3, <2>a DEF FallsBack
  <2>9. PickGroupItemSmart(view, round, complex) =
            IF FallsBack(view, round, complex) THEN FirstOf(view, FailoverList(view, next))
            ELSE InTier(view, round, complex)
    BY Zenon, <2>c DEF PickGroupItemSmart
  <2>10. QED
    BY <2>6, <2>7, <2>8, <2>9
<1>2. QED
  BY <1>1, PicksInvariant, PTL

(* The order of the allocate mode: the winner, the others, the cooling. *)
LEMMA SamplesWhole ==
    ASSUME NEW v \in ViewRecord, NEW w, w = allocatePlan(v), DOMAIN w # {}, NEW list,
           list = orderAllocateSamples(w, Heaviest(v, w), partitionCandidates(v).cooling)
    PROVE  /\ Arranges(list, DOMAIN w \cup (Item \cap (Available(v) \cap v.cooling))) /\ ColdLast(v, list)
           /\ DOMAIN w \subseteq Usables(v, Item)
           /\ \A i \in Usables(v, Item) \ DOMAIN w : Spent(v, i) \/ Limited(v, i)
<1> DEFINE free == {i \in Counted(v) : ~Limited(v, i)}
<1>a. PICK S : S = IF free = {} THEN Counted(v) ELSE free
  OBVIOUS
<1>b. PICK cold : cold = partitionCandidates(v).cooling
  OBVIOUS
<1>c. PICK T : T = Item \cap (Available(v) \cap v.cooling)
  OBVIOUS
<1>1. /\ Arranges(partitionCandidates(v).eligible, Usables(v, Item)) /\ Arranges(cold, T)
  BY ItemsArranged, Parts, <1>b, <1>c DEF Usables
<1>2. Counted(v) = {i \in Usables(v, Item) : ~Spent(v, i)}
  BY <1>1 DEF Counted, Members, Arranges
<1>3. S \subseteq Usables(v, Item) /\ \A i \in Usables(v, Item) \ S : Spent(v, i) \/ Limited(v, i)
  BY <1>2, <1>a
<1>4. S \subseteq Item
  BY <1>3 DEF Usables
<1>5. w \in [S -> 1..MaxWeight]
  <2>1. w = allocateWeights(v, S)
    BY <1>a DEF allocatePlan
  <2>2. allocateWeights(v, S) \in [S -> 1..MaxWeight]
    BY <1>4, WeightsInRange
  <2>3. QED
    BY <2>1, <2>2
<1>d. PICK key : key = [i \in S |-> <<-w[i]>>]
  OBVIOUS
<1>6. Keyed(S, key, 1)
  <2>1. \A i \in S : \E x \in Int : key[i] = <<x>>
    <3> SUFFICES ASSUME NEW i \in S PROVE \E x \in Int : key[i] = <<x>>
      OBVIOUS
    <3>1. PICK y \in Int : y = w[i]
      BY <1>5
    <3>2. key[i] = <<-y>> /\ -y \in Int
      BY <3>1, <1>d
    <3>3. QED
      BY <3>2
  <2>2. QED
    BY <2>1, OneKey
<1>7. DOMAIN w = S /\ S # {}
  BY <1>5
<1>e. PICK best : best = Heaviest(v, w)
  OBVIOUS
<1>8. best \in S
  <2>a. PICK sorted : sorted = SortedBy(S, key)
    OBVIOUS
  <2>1. Arranges(sorted, S)
    BY <1>4, <1>6, <2>a, SortedByArranges
  <2>2. sorted \in Seq(S) /\ sorted # <<>>
    BY <1>7, <2>1 DEF Arranges, ToSet
  <2>3. best = Head(sorted)
    BY <1>7, <1>d, <1>e, <2>a DEF Heaviest
  <2>4. QED
    BY <2>2, <2>3
<1>f. PICK others : others = SortedBy(S \ {best}, key)
  OBVIOUS
<1>9. Arranges(others, S \ {best})
  <2>a. PICK U : U = S \ {best}
    OBVIOUS
  <2>1. U \subseteq Item /\ Keyed(U, key, 1)
    BY <1>4, <1>6, <2>a DEF Keyed
  <2>2. Arranges(SortedBy(U, key), U)
    BY <2>1, SortedByArranges
  <2>3. QED
    BY <1>f, <2>2, <2>a
<1>g. PICK front : front = <<best>> \o others
  OBVIOUS
<1>10. Arranges(front, S)
  <2>1. {best} \cap (S \ {best}) = {} /\ {best} \cup (S \ {best}) = S
    BY <1>8
  <2>2. Arranges(front, {best} \cup (S \ {best}))
    BY <1>9, <1>g, <2>1, Single, TwoLists
  <2>3. QED
    BY <2>1, <2>2
<1>11. list = front \o cold
  BY <1>7, <1>b, <1>d, <1>e, <1>f, <1>g DEF orderAllocateSamples
<1>12. S \cap v.cooling = {} /\ T \subseteq v.cooling
  BY <1>3, <1>c DEF Usables
<1>13. Arranges(front \o cold, S \cup T) /\ ColdLast(v, front \o cold)
  BY <1>1, <1>10, <1>12, ColdBehind
<1>14. QED
  BY <1>3, <1>7, <1>11, <1>13, <1>c

Excused(m, v, i) ==
    \/ m = "allocate" /\ (Spent(v, i) \/ Limited(v, i))
    \/ m = "weighted" /\ v.obs["monthly"][i] = 0
Whole(m, v, list) ==
    /\ IsInjective(list)
    /\ Members(list) \subseteq Available(v)
    /\ \A j, k \in DOMAIN list : list[j] \in v.cooling /\ list[k] \in Available(v) \ v.cooling => k < j
    /\ m # "smart" => \A i \in Available(v) \ Members(list) : Excused(m, v, i)

LEMMA WholeFrom ==
    ASSUME NEW m, NEW v, NEW list, NEW S, Arranges(list, S), ColdLast(v, list), S \subseteq Available(v),
           m # "smart" => \A i \in Available(v) \ S : Excused(m, v, i)
    PROVE  Whole(m, v, list)
<1>1. IsInjective(list) /\ Members(list) = S /\ DOMAIN list = 1..Len(list)
  BY ArrangesEach DEF Arranges, Members
<1>2. QED
  BY <1>1 DEF Whole, ColdLast

LEMMA RankByModeWhole ==
    ASSUME NEW v \in ViewRecord, NEW m \in SortModes \cup {"weighted"}, RankByMode(m, v) # <<>>
    PROVE  Whole(m, v, RankByMode(m, v))
<1>a. PICK list : list = RankByMode(m, v)
  OBVIOUS
<1>1. CASE m \in SortModes
  <2>l. PICK l \in Nat : \E key : Keyed(Item, key, l) /\ list = RankBy(v, key)
    BY <1>1, <1>a, SortKeys
  <2>1. PICK key : l \in Nat /\ Keyed(Item, key, l) /\ list = RankBy(v, key)
    BY <2>l
  <2>2. Arranges(list, Item \cap Available(v)) /\ ColdLast(v, list)
    BY <1>a, <2>1, RankByWhole
  <2>3. Item \cap Available(v) = Available(v)
    BY ItemsArranged
  <2>4. QED
    BY <1>a, <2>2, <2>3, WholeFrom
<1>2. CASE m = "weighted"
  <2>1. list = rankByWeighted(v)
    BY <1>2, <1>a DEF RankByMode
  <2>a. PICK S : S = KeptOf(v) \cup (Item \cap (Available(v) \cap v.cooling))
    OBVIOUS
  <2>2. Arranges(list, S) /\ ColdLast(v, list)
    BY <1>a, <2>1, <2>a, WeightedWhole
  <2>3. S \subseteq Available(v) /\ \A i \in Available(v) \ S : Excused(m, v, i)
    <3>1. Available(v) \subseteq Item
      BY ItemsArranged
    <3>2. /\ KeptOf(v) \subseteq Usables(v, Item)
          /\ \A i \in Usables(v, Item) \ KeptOf(v) : v.obs["monthly"][i] = 0
      BY WeightedParts
    <3>3. QED
      BY <1>2, <2>a, <3>1, <3>2 DEF Usables, Excused
  <2>4. QED
    BY <1>a, <2>2, <2>3, WholeFrom
<1>3. QED
  BY <1>1, <1>2

LEMMA EveryTurnWhole ==
    ASSUME NEW v \in ViewRecord, NEW r \in Nat, NEW m, NEW late \in BOOLEAN,
           rankCandidates(v, r, late) # <<>>
    PROVE  Whole(m, v, rankCandidates(v, r, late))
<1>1. Arranges(v.items, Item) /\ Available(v) \subseteq Item
  BY ItemsArranged
<1>a. PICK list : list = rankCandidates(v, r, late)
  OBVIOUS
<1>2. Usables(v, Item) # {}
  <2> SUFFICES ASSUME Usables(v, Item) = {} PROVE FALSE
    OBVIOUS
  <2>a. PICK turn : turn = Turned(SortedBy(Fast(v), NoKey), r)
    OBVIOUS
  <2>1. Arranges(turn, OnTime(v, Item))
    <3>1. Fast(v) = OnTime(v, Item)
      BY <1>1, SplitParts
    <3>2. OnTime(v, Item) \subseteq Item
      BY DEF OnTime, Usables
    <3>3. QED
      BY <2>a, <3>1, <3>2, TurnArranged
  <2>2. CASE late
    <3>1. Arranges(stableLatencySort(v, turn), OnTime(v, Item))
      BY <2>1, SortArranged
    <3>2. WithTails(v, stableLatencySort(v, turn)) = <<>>
      BY <1>1, <3>1, TailsArranged
    <3>3. QED
      BY <2>2, <2>a, <3>2, RankIsTurned
  <2>3. CASE ~late
    <3>1. WithTails(v, turn) = <<>>
      BY <1>1, <2>1, TailsArranged
    <3>2. QED
      BY <2>3, <2>a, <3>1, RankIsTurned
  <2>4. QED
    BY <2>2, <2>3
<1>3. Arranges(list, Item \cap Available(v)) /\ ColdLast(v, list)
  <2>1. CASE late
    BY <1>1, <1>2, <1>a, <2>1, SortedTurnsWhole
  <2>2. CASE ~late
    BY <1>1, <1>2, <1>a, <2>2, TurnsWhole
  <2>3. QED
    BY <2>1, <2>2
<1>4. Item \cap Available(v) = Available(v)
  BY <1>1
<1>5. QED
  BY <1>3, <1>4, <1>a, WholeFrom

LEMMA TierTurnWhole ==
    ASSUME NEW v \in ViewRecord, NEW M, M \subseteq Item, NEW tier, Arranges(tier, M), NEW r \in Nat,
           NEW list, list = rankCandidates([v EXCEPT !.items = tier], r, TRUE), list # <<>>
    PROVE  Whole("smart", v, list)
<1>a. PICK u : u = [v EXCEPT !.items = tier]
  OBVIOUS
<1>1. Arranges(u.items, M) /\ Available(u) = Available(v) /\ u.cooling = v.cooling
  BY <1>a DEF ViewRecord, Available
<1>2. Usables(u, M) # {}
  <2> SUFFICES ASSUME Usables(u, M) = {} PROVE FALSE
    OBVIOUS
  <2>a. PICK turn : turn = Turned(SortedBy(Fast(u), NoKey), r)
    OBVIOUS
  <2>1. Arranges(turn, OnTime(u, M))
    <3>1. Fast(u) = OnTime(u, M)
      BY <1>1, SplitParts
    <3>2. OnTime(u, M) \subseteq Item
      BY DEF OnTime, Usables
    <3>3. QED
      BY <2>a, <3>1, <3>2, TurnArranged
  <2>2. Arranges(stableLatencySort(u, turn), OnTime(u, M))
    BY <2>1, SortArranged
  <2>3. WithTails(u, stableLatencySort(u, turn)) = <<>>
    BY <1>1, <2>2, TailsArranged
  <2>4. QED
    BY <1>a, <2>a, <2>3, RankIsTurned
<1>3. Arranges(list, M \cap Available(u)) /\ ColdLast(u, list)
  BY <1>1, <1>2, <1>a, SortedTurnsWhole
<1>4. Arranges(list, M \cap Available(v)) /\ ColdLast(v, list) /\ M \cap Available(v) \subseteq Available(v)
  BY <1>1, <1>3 DEF ColdLast
<1>5. QED
  BY <1>4, WholeFrom

LEMMA RivalsWhole ==
    ASSUME NEW v \in ViewRecord, NEW m \in Mode, NEW r \in Nat,
           RankedHedgeCandidates(m, v, r, FALSE) # <<>>
    PROVE  Whole(m, v, RankedHedgeCandidates(m, v, r, FALSE))
<1>a. PICK list : list = RankedHedgeCandidates(m, v, r, FALSE)
  OBVIOUS
<1>b. PICK tier : tier = Tier(v, FALSE)
  OBVIOUS
<1>c. PICK inTier : inTier = rankCandidates([v EXCEPT !.items = tier], r, TRUE)
  OBVIOUS
<1>d. PICK w : w = allocatePlan(v)
  OBVIOUS
<1>e. PICK samples : samples = orderAllocateSamples(w, Heaviest(v, w), partitionCandidates(v).cooling)
  OBVIOUS
<1>1. list = CASE m \in SortModes -> RankByMode(m, v)
               [] m = "smart" /\ inTier # <<>> -> inTier
               [] m = "allocate" /\ DOMAIN w # {} -> samples
               [] OTHER -> rankCandidates(v, r, TRUE)
  BY Zenon, <1>a, <1>b, <1>c, <1>d, <1>e DEF RankedHedgeCandidates
<1>2. CASE m \in SortModes
  <2>1. m # "smart" /\ m # "allocate"
    BY <1>2 DEF SortModes
  <2>2. list = RankByMode(m, v)
    BY <1>1, <1>2, <2>1
  <2>3. QED
    BY <1>2, <1>a, <2>2, RankByModeWhole
<1>3. CASE m = "smart" /\ inTier # <<>>
  <2>1. m \notin SortModes
    BY <1>3 DEF SortModes
  <2>2. list = inTier
    BY <1>1, <1>3, <2>1
  <2>3. PICK M \in SUBSET Item : Arranges(tier, M)
    BY <1>b, DecisionsCounted, TierArranged DEF Tier
  <2>4. QED
    BY <1>3, <1>a, <1>c, <2>2, <2>3, TierTurnWhole
<1>4. CASE m = "allocate" /\ DOMAIN w # {}
  <2>1. m \notin SortModes /\ m # "smart"
    BY <1>4 DEF SortModes
  <2>2. list = samples
    BY <1>1, <1>4, <2>1
  <2>a. PICK S : S = DOMAIN w \cup (Item \cap (Available(v) \cap v.cooling))
    OBVIOUS
  <2>3. /\ Arranges(list, S) /\ ColdLast(v, list)
        /\ DOMAIN w \subseteq Usables(v, Item)
        /\ \A i \in Usables(v, Item) \ DOMAIN w : Spent(v, i) \/ Limited(v, i)
    BY <1>4, <1>d, <1>e, <2>2, <2>a, SamplesWhole
  <2>4. S \subseteq Available(v) /\ \A i \in Available(v) \ S : Excused(m, v, i)
    <3>1. Available(v) \subseteq Item
      BY ItemsArranged
    <3>2. QED
      BY <1>4, <2>3, <2>a, <3>1 DEF Usables, Excused
  <2>5. QED
    BY <1>a, <2>3, <2>4, WholeFrom
<1>5. CASE /\ m \notin SortModes /\ ~(m = "smart" /\ inTier # <<>>)
           /\ ~(m = "allocate" /\ DOMAIN w # {})
  <2>1. list = rankCandidates(v, r, TRUE)
    BY <1>1, <1>5
  <2>2. QED
    BY <1>a, <2>1, EveryTurnWhole
<1>6. QED
  BY <1>2, <1>3, <1>4, <1>5

(* strategy.go, weights.go, smart.go, allocate.go and hedge.go: in every   *)
(* mode, for any members and whatever is known of them, the list a request *)
(* works down names nobody twice, nobody that is switched off, a usable    *)
(* member always before a cooling one, and leaves out only members that    *)
(* cannot pay or had their requests of the minute.                         *)
THEOREM RankingsStayComplete == PicksSpec => []RankingsAreComplete
<1>1. ASSUME PicksInv PROVE RankingsAreComplete
  <2>1. view \in ViewRecord /\ mode \in Mode /\ round \in Nat
    BY <1>1 DEF PicksInv, PicksTypeOK, Period
  <2>a. PICK a : a = RankedHedgeCandidates(mode, view, round, FALSE)
    OBVIOUS
  <2>b. PICK b : b = IF mode \in SortModes \cup {"weighted"} THEN RankByMode(mode, view)
                     ELSE rankCandidates(view, round, FALSE)
    OBVIOUS
  <2>2. a # <<>> => Whole(mode, view, a)
    BY <2>1, <2>a, RivalsWhole
  <2>3. b # <<>> => Whole(mode, view, b)
    <3>1. CASE mode \in SortModes \cup {"weighted"}
      BY <2>1, <2>b, <3>1, RankByModeWhole
    <3>2. CASE mode \notin SortModes \cup {"weighted"}
      BY <2>1, <2>b, <3>2, EveryTurnWhole
    <3>3. QED
      BY <3>1, <3>2
  <2>4. RankingsAreComplete <=> \A list \in {a, b} : list # <<>> => Whole(mode, view, list)
    BY <2>a, <2>b, Zenon DEF RankingsAreComplete, Whole, Excused, Broke, Usable
  <2>5. QED
    BY <2>2, <2>3, <2>4
<1>2. QED
  BY <1>1, PicksInvariant, PTL
=============================================================================
