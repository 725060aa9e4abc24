-------------------------- MODULE DayTimelineProofs --------------------------
(***************************************************************************)
(* Proofs about DayTimeline, for any events, days, windows, readings,      *)
(* lengths of hour and number of the app's writes between the reads of a   *)
(* tool.                                                                   *)
(*                                                                         *)
(* A block of a timeline claims no more than the raw counts next to it:    *)
(* the derived rows of the day's whole hours are recomputed first, then    *)
(* they are read, and the events are counted last, of which there are      *)
(* never fewer than before.                                                *)
(*                                                                         *)
(* The gaps are the maximal runs of missing rows: before each hour, the    *)
(* pass has the run that ends there and the gaps that ended earlier.       *)
(*                                                                         *)
(* The parts of the app's timeline add up: nothing changes the tables but  *)
(* its own statements, and its sums count the parts of one set.            *)
(***************************************************************************)
EXTENDS DayTimeline, FiniteSetTheorems, SequenceTheorems, WellFoundedInduction, TLAPS

-----------------------------------------------------------------------------
(* Induction over the natural numbers, from the least element of a set.     *)

LEMMA Least ==
  ASSUME NEW T, T \subseteq Nat, T # {}
  PROVE  \E x \in T : \A y \in T : x <= y
  <1>1. IsWellFoundedOn(OpToRel(<, Nat), Nat)
    BY NatLessThanWellFounded
  <1>2. PICK x \in T : \A y \in T : ~ (<<y, x>> \in OpToRel(<, Nat))
    BY <1>1, WFMin
  <1>3. \A y \in T : ~(y < x)
    BY <1>2 DEF OpToRel
  <1>4. x \in T
    BY <1>2, Zenon
  <1> QED
    BY <1>3, <1>4

LEMMA Induction ==
  ASSUME NEW T, T \subseteq Nat, 0 \in T, \A n \in Nat : n \in T => n + 1 \in T
  PROVE  T = Nat
  <1> SUFFICES ASSUME Nat \ T # {} PROVE FALSE
    OBVIOUS
  <1>1. PICK x \in Nat \ T : \A y \in Nat \ T : x <= y
    BY Least
  <1>2. x # 0 /\ x - 1 \in Nat
    BY <1>1
  <1>3. x - 1 \in T
    BY <1>1, <1>2
  <1> QED
    BY <1>1, <1>2, <1>3

-----------------------------------------------------------------------------
(* Sums of the values of a function.                                        *)

\* One element less.
LEMMA OneLess ==
  ASSUME NEW S, IsFiniteSet(S), S # {}, NEW x \in S
  PROVE  /\ IsFiniteSet(S \ {x}) /\ Cardinality(S) \in Nat \ {0}
         /\ Cardinality(S \ {x}) = Cardinality(S) - 1
  <1>1. IsFiniteSet(S \ {x}) /\ Cardinality(S \ {x}) = Cardinality(S) - 1
    BY FS_RemoveElement
  <1>2. Cardinality(S) \in Nat /\ Cardinality(S \ {x}) \in Nat
    BY <1>1, FS_CardinalityType
  <1> QED
    BY <1>1, <1>2

First(s) == CHOOSE x \in s : TRUE

\* The recursion of a sum over the subsets of a set.
SumStep(f, F, s) == IF s = {} THEN 0 ELSE f[First(s)] + F[s \ {First(s)}]
Sums(f, S, F) == F = [s \in SUBSET S |-> SumStep(f, F, s)]

LEMMA SumIsChosen ==
  ASSUME NEW f, NEW S
  PROVE  SumFunctionOnSet(f, S) = (CHOOSE F : Sums(f, S, F))[S]
  BY Zenon DEF SumFunctionOnSet, FoldFunctionOnSet, MapThenFoldSet, Sums, SumStep, First

LEMMA SumsExist ==
  ASSUME NEW f, NEW S, IsFiniteSet(S)
  PROVE  \E F : Sums(f, S, F)
  <1> DEFINE Small(n) == {s \in SUBSET S : Cardinality(s) <= n}
             Found(F, n) == F = [s \in Small(n) |-> SumStep(f, F, s)]
             T == {n \in Nat : \E F : Found(F, n)}
  <1>1. \A s \in SUBSET S : IsFiniteSet(s) /\ Cardinality(s) \in Nat
    BY FS_Subset, FS_CardinalityType
  <1>2. 0 \in T
    <2> DEFINE F == [s \in Small(0) |-> 0]
    <2>1. \A s \in Small(0) : s = {}
      BY <1>1, FS_EmptySet
    <2>2. \A s \in Small(0) : SumStep(f, F, s) = 0
      BY <2>1 DEF SumStep
    <2>3. Found(F, 0)
      <3> HIDE DEF Small
      <3> QED
        BY <2>2
    <2> HIDE DEF F, Found
    <2> QED
      BY <2>3
  <1>3. ASSUME NEW n \in Nat, n \in T
        PROVE  n + 1 \in T
    <2>1. PICK F : Found(F, n)
      BY <1>3
    <2>2. \A s \in Small(n) : F[s] = SumStep(f, F, s)
      <3> HIDE DEF Small
      <3> QED
        BY <2>1
    <2> DEFINE G == [s \in Small(n + 1) |->
                        IF s \in Small(n) THEN F[s] ELSE SumStep(f, F, s)]
    <2>3. Small(n) \subseteq Small(n + 1)
      BY <1>1
    <2>4. \A s \in Small(n + 1) : G[s] = SumStep(f, F, s)
      <3> HIDE DEF Small
      <3> QED
        BY <2>2
    <2>5. \A s \in Small(n) : G[s] = F[s]
      <3> HIDE DEF Small
      <3> QED
        BY <2>3
    <2>6. \A s \in Small(n + 1) : SumStep(f, G, s) = SumStep(f, F, s)
      <3> SUFFICES ASSUME NEW s \in Small(n + 1), s # {}
                   PROVE  G[s \ {First(s)}] = F[s \ {First(s)}]
        <4> HIDE DEF G, Small
        <4> QED
          BY DEF SumStep
      <3>1. First(s) \in s
        BY DEF First
      <3>2. Cardinality(s \ {First(s)}) = Cardinality(s) - 1
        BY <1>1, <3>1, OneLess
      <3>3. s \ {First(s)} \in Small(n)
        <4>1. s \in SUBSET S /\ Cardinality(s) \in Nat /\ Cardinality(s) <= n + 1
          BY <1>1
        <4> QED
          BY <3>2, <4>1
      <3> HIDE DEF G, Small
      <3> QED
        BY <2>5, <3>3
    <2>7. Found(G, n + 1)
      <3>1. \A s \in Small(n + 1) : G[s] = SumStep(f, G, s)
        <4> HIDE DEF G, Small
        <4> QED
          BY <2>4, <2>6
      <3>2. G = [s \in Small(n + 1) |-> G[s]]
        <4> HIDE DEF Small
        <4> QED
          OBVIOUS
      <3> HIDE DEF G, Small
      <3> QED
        BY <3>1, <3>2
    <2> HIDE DEF G, Found
    <2> QED
      BY <2>7
  <1>4. T = Nat
    <2>1. T \subseteq Nat
      OBVIOUS
    <2> HIDE DEF T
    <2> QED
      BY <1>2, <1>3, <2>1, Induction
  <1>5. Cardinality(S) \in T
    BY <1>1, <1>4
  <1>6. PICK F : Found(F, Cardinality(S))
    BY <1>5
  <1>7. Small(Cardinality(S)) = SUBSET S
    <2> SUFFICES ASSUME NEW s \in SUBSET S PROVE Cardinality(s) <= Cardinality(S)
      OBVIOUS
    <2> QED
      BY FS_Subset
  <1>8. Sums(f, S, F)
    <2> HIDE DEF Small
    <2> QED
      BY <1>6, <1>7 DEF Sums
  <1> QED
    BY <1>8

\* A sum depends on the values of the function at the indices only.
LEMMA SumsAgree ==
  ASSUME NEW f, NEW g, NEW S, NEW R, NEW F, NEW G, Sums(f, S, F), Sums(g, R, G),
         NEW s \in SUBSET S, s \subseteq R, IsFiniteSet(s),
         \A x \in s : f[x] = g[x]
  PROVE  F[s] = G[s]
  <1> DEFINE T == {n \in Nat : \A t \in SUBSET s : Cardinality(t) = n => F[t] = G[t]}
  <1>1. \A t \in SUBSET s : IsFiniteSet(t) /\ Cardinality(t) \in Nat
    BY FS_Subset, FS_CardinalityType
  <1>2. \A t \in SUBSET s : F[t] = SumStep(f, F, t) /\ G[t] = SumStep(g, G, t)
    BY Zenon DEF Sums
  <1>3. 0 \in T
    <2> SUFFICES ASSUME NEW t \in SUBSET s, Cardinality(t) = 0 PROVE F[t] = G[t]
      OBVIOUS
    <2>1. t = {}
      BY <1>1, FS_EmptySet
    <2> QED
      BY <1>2, <2>1 DEF SumStep
  <1>4. ASSUME NEW n \in Nat, n \in T
        PROVE  n + 1 \in T
    <2> SUFFICES ASSUME NEW t \in SUBSET s, Cardinality(t) = n + 1 PROVE F[t] = G[t]
      OBVIOUS
    <2>1. t # {}
      BY FS_EmptySet
    <2>2. First(t) \in t
      BY <2>1 DEF First
    <2>3. Cardinality(t \ {First(t)}) = n
      BY <1>1, <2>1, <2>2, OneLess
    <2>4. F[t \ {First(t)}] = G[t \ {First(t)}]
      BY <1>4, <2>3
    <2>5. f[First(t)] = g[First(t)]
      BY <2>2
    <2> QED
      BY <1>2, <2>1, <2>4, <2>5 DEF SumStep
  <1>5. T = Nat
    <2>1. T \subseteq Nat
      OBVIOUS
    <2> HIDE DEF T
    <2> QED
      BY <1>3, <1>4, <2>1, Induction
  <1>6. Cardinality(s) \in T
    BY <1>1, <1>5
  <1> QED
    BY <1>6

LEMMA SameSum ==
  ASSUME NEW f, NEW g, NEW S, IsFiniteSet(S), \A x \in S : f[x] = g[x]
  PROVE  SumFunctionOnSet(f, S) = SumFunctionOnSet(g, S)
  <1>1. Sums(f, S, CHOOSE F : Sums(f, S, F)) /\ Sums(g, S, CHOOSE F : Sums(g, S, F))
    BY SumsExist
  <1> QED
    BY <1>1, SumsAgree, SumIsChosen

LEMMA SumOfNone ==
  ASSUME NEW f
  PROVE  SumFunctionOnSet(f, {}) = 0
  <1> DEFINE F == CHOOSE F : Sums(f, {}, F)
  <1>1. Sums(f, {}, F)
    BY SumsExist, FS_EmptySet
  <1> HIDE DEF F
  <1>2. F[{}] = SumStep(f, F, {})
    BY <1>1 DEF Sums
  <1> QED
    BY <1>2, SumIsChosen DEF SumStep, F

LEMMA SumOfFirst ==
  ASSUME NEW f, NEW S, IsFiniteSet(S), S # {}
  PROVE  SumFunctionOnSet(f, S) = f[First(S)] + SumFunctionOnSet(f, S \ {First(S)})
  <1> DEFINE rest == S \ {First(S)}
             F == CHOOSE F : Sums(f, S, F)
             G == CHOOSE G : Sums(f, rest, G)
  <1>1. First(S) \in S
    BY DEF First
  <1>2. IsFiniteSet(rest) /\ rest \in SUBSET S
    BY <1>1, OneLess
  <1> HIDE DEF rest
  <1>3. Sums(f, S, F) /\ Sums(f, rest, G)
    BY <1>2, SumsExist
  <1>4. SumFunctionOnSet(f, S) = F[S] /\ SumFunctionOnSet(f, rest) = G[rest]
    BY SumIsChosen
  <1> HIDE DEF F, G
  <1>5. F[S] = SumStep(f, F, S)
    BY <1>3, Zenon DEF Sums
  <1>6. F[rest] = G[rest]
    BY <1>2, <1>3, SumsAgree
  <1> QED
    BY <1>4, <1>5, <1>6 DEF SumStep, rest

-----------------------------------------------------------------------------
(* Types of the features and of the rows.                                   *)

\* A sum of natural numbers is one.
LEMMA SumIsNat ==
  ASSUME NEW f, NEW S, IsFiniteSet(S), \A x \in S : f[x] \in Nat
  PROVE  SumFunctionOnSet(f, S) \in Nat
  <1> DEFINE T == {n \in Nat : \A R \in SUBSET S :
                      Cardinality(R) = n => SumFunctionOnSet(f, R) \in Nat}
  <1>1. \A R \in SUBSET S : IsFiniteSet(R) /\ Cardinality(R) \in Nat
    BY FS_Subset, FS_CardinalityType
  <1>2. 0 \in T
    <2> SUFFICES ASSUME NEW R \in SUBSET S, Cardinality(R) = 0
                 PROVE  SumFunctionOnSet(f, R) \in Nat
      OBVIOUS
    <2>1. R = {}
      BY <1>1, FS_EmptySet
    <2> QED
      BY <2>1, SumOfNone
  <1>3. ASSUME NEW n \in Nat, n \in T
        PROVE  n + 1 \in T
    <2> SUFFICES ASSUME NEW R \in SUBSET S, Cardinality(R) = n + 1
                 PROVE  SumFunctionOnSet(f, R) \in Nat
      OBVIOUS
    <2>1. R # {}
      BY FS_EmptySet
    <2>2. First(R) \in R
      BY <2>1 DEF First
    <2>3. Cardinality(R \ {First(R)}) = n
      BY <1>1, <2>1, <2>2, OneLess
    <2>4. SumFunctionOnSet(f, R \ {First(R)}) \in Nat
      BY <1>3, <2>3
    <2>5. f[First(R)] \in Nat
      BY <2>2
    <2> QED
      BY <1>1, <2>1, <2>4, <2>5, SumOfFirst
  <1>4. T = Nat
    <2>1. T \subseteq Nat
      OBVIOUS
    <2> HIDE DEF T
    <2> QED
      BY <1>2, <1>3, <2>1, Induction
  <1>5. Cardinality(S) \in T
    BY <1>1, <1>4
  <1> QED
    BY <1>5

\* A sum is positive exactly if one of its terms is.
LEMMA SumIsPositive ==
  ASSUME NEW f, NEW S, IsFiniteSet(S), \A x \in S : f[x] \in Nat
  PROVE  SumFunctionOnSet(f, S) > 0 <=> \E x \in S : f[x] > 0
  <1> DEFINE P(R) == SumFunctionOnSet(f, R) > 0 <=> \E x \in R : f[x] > 0
             T == {n \in Nat : \A R \in SUBSET S : Cardinality(R) = n => P(R)}
  <1>1. \A R \in SUBSET S : IsFiniteSet(R) /\ Cardinality(R) \in Nat
    BY FS_Subset, FS_CardinalityType
  <1>2. 0 \in T
    <2> SUFFICES ASSUME NEW R \in SUBSET S, Cardinality(R) = 0 PROVE P(R)
      OBVIOUS
    <2>1. R = {}
      BY <1>1, FS_EmptySet
    <2> QED
      BY <2>1, SumOfNone
  <1>3. ASSUME NEW n \in Nat, n \in T
        PROVE  n + 1 \in T
    <2> SUFFICES ASSUME NEW R \in SUBSET S, Cardinality(R) = n + 1 PROVE P(R)
      OBVIOUS
    <2>1. R # {}
      BY FS_EmptySet
    <2>2. First(R) \in R
      BY <2>1 DEF First
    <2> DEFINE rest == R \ {First(R)}
    <2>3. Cardinality(rest) = n /\ rest \in SUBSET S
      BY <1>1, <2>1, <2>2, OneLess
    <2>4. P(rest)
      BY <1>3, <2>3
    <2>5. f[First(R)] \in Nat /\ SumFunctionOnSet(f, rest) \in Nat
      BY <1>1, <2>2, <2>3, SumIsNat
    <2>6. SumFunctionOnSet(f, R) = f[First(R)] + SumFunctionOnSet(f, rest)
      BY <1>1, <2>1, SumOfFirst
    <2>7. \A x \in R : x = First(R) \/ x \in rest
      OBVIOUS
    <2>8. rest \subseteq R
      OBVIOUS
    <2> HIDE DEF rest
    <2>9. SumFunctionOnSet(f, R) > 0
            <=> (f[First(R)] > 0 \/ SumFunctionOnSet(f, rest) > 0)
      BY <2>5, <2>6
    <2> QED
      BY <2>2, <2>4, <2>7, <2>8, <2>9
  <1>4. T = Nat
    <2>1. T \subseteq Nat
      OBVIOUS
    <2> HIDE DEF T
    <2> QED
      BY <1>2, <1>3, <2>1, Induction
  <1>5. Cardinality(S) \in T
    BY <1>1, <1>4
  <1> QED
    BY <1>5

\* A sum of values between two bounds.
LEMMA SumIsBounded ==
  ASSUME NEW f, NEW S, IsFiniteSet(S), NEW lo \in Nat, NEW hi \in Nat,
         \A x \in S : f[x] \in Nat /\ lo <= f[x] /\ f[x] <= hi
  PROVE  /\ lo * Cardinality(S) <= SumFunctionOnSet(f, S)
         /\ SumFunctionOnSet(f, S) <= hi * Cardinality(S)
  <1> DEFINE P(R, n) == lo * n <= SumFunctionOnSet(f, R) /\ SumFunctionOnSet(f, R) <= hi * n
             T == {n \in Nat : \A R \in SUBSET S : Cardinality(R) = n => P(R, n)}
  <1>1. \A R \in SUBSET S : IsFiniteSet(R) /\ Cardinality(R) \in Nat
    BY FS_Subset, FS_CardinalityType
  <1>2. 0 \in T
    <2> SUFFICES ASSUME NEW R \in SUBSET S, Cardinality(R) = 0 PROVE P(R, 0)
      OBVIOUS
    <2>1. R = {}
      BY <1>1, FS_EmptySet
    <2>2. lo * 0 = 0 /\ hi * 0 = 0
      OBVIOUS
    <2> QED
      BY <2>1, <2>2, SumOfNone
  <1>3. ASSUME NEW n \in Nat, n \in T
        PROVE  n + 1 \in T
    <2> SUFFICES ASSUME NEW R \in SUBSET S, Cardinality(R) = n + 1 PROVE P(R, n + 1)
      OBVIOUS
    <2>1. R # {}
      BY FS_EmptySet
    <2>2. First(R) \in R
      BY <2>1 DEF First
    <2> DEFINE rest == R \ {First(R)}
    <2>3. Cardinality(rest) = n /\ rest \in SUBSET S
      <3>1. IsFiniteSet(R) /\ Cardinality(R) = n + 1
        BY <1>1
      <3>2. Cardinality(R \ {First(R)}) = Cardinality(R) - 1
        BY <2>1, <2>2, <3>1, OneLess
      <3> QED
        BY <3>1, <3>2
    <2>4. P(rest, n)
      BY <1>3, <2>3
    <2>5. /\ f[First(R)] \in Nat /\ SumFunctionOnSet(f, rest) \in Nat
          /\ lo <= f[First(R)] /\ f[First(R)] <= hi
      BY <1>1, <2>2, <2>3, SumIsNat
    <2>6. SumFunctionOnSet(f, R) = f[First(R)] + SumFunctionOnSet(f, rest)
      BY <1>1, <2>1, SumOfFirst
    <2> HIDE DEF rest
    <2>7. /\ lo * (n + 1) = lo * n + lo /\ lo * n \in Nat
          /\ hi * (n + 1) = hi * n + hi /\ hi * n \in Nat
      OBVIOUS
    <2> QED
      BY <2>4, <2>5, <2>6, <2>7
  <1>4. T = Nat
    <2>1. T \subseteq Nat
      OBVIOUS
    <2> HIDE DEF T
    <2> QED
      BY <1>2, <1>3, <2>1, Induction
  <1>5. Cardinality(S) \in T
    BY <1>1, <1>4
  <1> QED
    BY <1>5

\* The mean lies between the bounds of the values.
LEMMA MeanIsBetween ==
  ASSUME NEW f, IsFiniteSet(DOMAIN f), DOMAIN f # {}, NEW lo \in Nat, NEW hi \in Nat,
         \A x \in DOMAIN f : f[x] \in Nat /\ lo <= f[x] /\ f[x] <= hi
  PROVE  \E v \in Nat : Mean(f) = {v} /\ lo <= v /\ v <= hi
  <1> DEFINE n == Cardinality(DOMAIN f)
             s == SumFunctionOnSet(f, DOMAIN f)
  <1>1. n \in Nat \ {0}
    BY FS_CardinalityType, FS_EmptySet
  <1>2. s \in Nat
    BY SumIsNat
  <1>3. lo * n <= s /\ s <= hi * n
    BY SumIsBounded
  <1>4. Mean(f) = {s \div n}
    BY DEF Mean, SumFunction
  <1> HIDE DEF n, s
  <1>5. /\ s \div n \in Nat
        /\ (s \div n) * n <= s /\ s < (s \div n) * n + n
    BY <1>1, <1>2
  <1> DEFINE q == s \div n
  <1> HIDE DEF q
  <1>6. q \in Nat /\ q * n <= s /\ s < q * n + n
    BY <1>5 DEF q
  <1>7. lo <= q
    <2> SUFFICES ASSUME q + 1 <= lo PROVE FALSE
      BY <1>6
    <2>1. (q + 1) * n <= lo * n
      BY <1>1, <1>6
    <2>2. (q + 1) * n = q * n + n /\ q * n \in Nat /\ lo * n \in Nat
      BY <1>1, <1>6
    <2> QED
      BY <1>1, <1>2, <1>3, <1>6, <2>1, <2>2
  <1>8. q <= hi
    <2> SUFFICES ASSUME hi + 1 <= q PROVE FALSE
      BY <1>6
    <2>1. (hi + 1) * n <= q * n
      BY <1>1, <1>6
    <2>2. (hi + 1) * n = hi * n + n /\ q * n \in Nat /\ hi * n \in Nat
      BY <1>1, <1>6
    <2> QED
      BY <1>1, <1>2, <1>3, <1>6, <2>1, <2>2
  <1> QED
    BY <1>4, <1>6, <1>7, <1>8 DEF q

\* Counting a set by the parts that a function sorts its elements into.
LEMMA CountedByParts ==
  ASSUME NEW f, NEW S, IsFiniteSet(S), \A x \in S : f[x] \in Nat,
         NEW E, IsFiniteSet(E), NEW k
  PROVE  /\ (\A x \in S : f[x] <= Cardinality({e \in E : k[e] = x}))
               => SumFunctionOnSet(f, S) <= Cardinality({e \in E : k[e] \in S})
         /\ (\A x \in S : f[x] >= Cardinality({e \in E : k[e] = x}))
               => SumFunctionOnSet(f, S) >= Cardinality({e \in E : k[e] \in S})
  <1> DEFINE Part(x) == {e \in E : k[e] = x}
             Parts(R) == {e \in E : k[e] \in R}
             P(R) == /\ (\A x \in S : f[x] <= Cardinality(Part(x)))
                           => SumFunctionOnSet(f, R) <= Cardinality(Parts(R))
                     /\ (\A x \in S : f[x] >= Cardinality(Part(x)))
                           => SumFunctionOnSet(f, R) >= Cardinality(Parts(R))
             T == {n \in Nat : \A R \in SUBSET S : Cardinality(R) = n => P(R)}
  <1>1. \A R \in SUBSET S : IsFiniteSet(R) /\ Cardinality(R) \in Nat
    BY FS_Subset, FS_CardinalityType
  <1>2. /\ \A x : IsFiniteSet(Part(x)) /\ Cardinality(Part(x)) \in Nat
        /\ \A R : IsFiniteSet(Parts(R)) /\ Cardinality(Parts(R)) \in Nat
    BY FS_Subset, FS_CardinalityType
  <1>3. 0 \in T
    <2> SUFFICES ASSUME NEW R \in SUBSET S, Cardinality(R) = 0 PROVE P(R)
      OBVIOUS
    <2>1. R = {}
      BY <1>1, FS_EmptySet
    <2>2. Parts(R) = {}
      BY <2>1
    <2>3. SumFunctionOnSet(f, R) = 0 /\ Cardinality(Parts(R)) = 0
      BY <2>1, <2>2, SumOfNone, FS_EmptySet
    <2> HIDE DEF Part, Parts
    <2> QED
      BY <2>3
  <1>4. ASSUME NEW n \in Nat, n \in T
        PROVE  n + 1 \in T
    <2> SUFFICES ASSUME NEW R \in SUBSET S, Cardinality(R) = n + 1 PROVE P(R)
      OBVIOUS
    <2>1. R # {}
      BY FS_EmptySet
    <2>2. First(R) \in R
      BY <2>1 DEF First
    <2> DEFINE x == First(R)
               rest == R \ {x}
    <2>3. Cardinality(rest) = n /\ rest \in SUBSET S
      <3>1. IsFiniteSet(R) /\ Cardinality(R) = n + 1
        BY <1>1
      <3>2. Cardinality(R \ {First(R)}) = Cardinality(R) - 1
        BY <2>1, <2>2, <3>1, OneLess
      <3> QED
        BY <3>1, <3>2
    <2>4. P(rest)
      BY <1>4, <2>3
    <2>5. f[x] \in Nat /\ SumFunctionOnSet(f, rest) \in Nat
      BY <1>1, <2>2, <2>3, SumIsNat
    <2>6. SumFunctionOnSet(f, R) = f[x] + SumFunctionOnSet(f, rest)
      BY <1>1, <2>1, SumOfFirst
    <2>7. Parts(R) = Part(x) \cup Parts(rest) /\ Part(x) \cap Parts(rest) = {}
      BY <2>2
    <2>8. x \in S
      BY <2>2
    <2> HIDE DEF Part, Parts, x, rest
    <2>9. Cardinality(Parts(R)) = Cardinality(Part(x)) + Cardinality(Parts(rest))
      <3>1. Cardinality(Part(x) \cup Parts(rest))
              = Cardinality(Part(x)) + Cardinality(Parts(rest))
                  - Cardinality(Part(x) \cap Parts(rest))
        BY <1>2, FS_Union
      <3>2. Cardinality(Part(x) \cap Parts(rest)) = 0
        BY <2>7, FS_EmptySet
      <3> QED
        BY <1>2, <2>7, <3>1, <3>2
    <2>10. ASSUME \A y \in S : f[y] <= Cardinality(Part(y))
           PROVE  SumFunctionOnSet(f, R) <= Cardinality(Parts(R))
      <3>1. f[x] <= Cardinality(Part(x))
        BY <2>8, <2>10
      <3>2. SumFunctionOnSet(f, rest) <= Cardinality(Parts(rest))
        BY <2>4, <2>10
      <3> QED
        BY <1>2, <2>5, <2>6, <2>9, <3>1, <3>2
    <2>11. ASSUME \A y \in S : f[y] >= Cardinality(Part(y))
           PROVE  SumFunctionOnSet(f, R) >= Cardinality(Parts(R))
      <3>1. f[x] >= Cardinality(Part(x))
        BY <2>8, <2>11
      <3>2. SumFunctionOnSet(f, rest) >= Cardinality(Parts(rest))
        BY <2>4, <2>11
      <3> QED
        BY <1>2, <2>5, <2>6, <2>9, <3>1, <3>2
    <2> QED
      BY <2>10, <2>11
  <1>5. T = Nat
    <2>1. T \subseteq Nat
      OBVIOUS
    <2> HIDE DEF T
    <2> QED
      BY <1>3, <1>4, <2>1, Induction
  <1>6. Cardinality(S) \in T
    BY <1>1, <1>5
  <1>7. P(S)
    BY <1>6
  <1> QED
    BY <1>7

LEMMA MeanTyped ==
  ASSUME NEW f, IsFiniteSet(DOMAIN f), \A x \in DOMAIN f : f[x] \in Nat
  PROVE  Mean(f) \in Value
  <1>1. CASE DOMAIN f = {}
    <2>1. Mean(f) = {}
      BY <1>1 DEF Mean
    <2> QED
      BY <2>1, FS_EmptySet DEF Value
  <1>2. CASE DOMAIN f # {}
    <2>1. SumFunctionOnSet(f, DOMAIN f) \in Nat
      BY SumIsNat
    <2>2. Cardinality(DOMAIN f) \in Nat \ {0}
      BY <1>2, FS_CardinalityType, FS_EmptySet
    <2> DEFINE n == SumFunctionOnSet(f, DOMAIN f) \div Cardinality(DOMAIN f)
    <2>3. n \in Nat
      BY <2>1, <2>2
    <2>4. Mean(f) = {n}
      BY <1>2 DEF Mean, SumFunction
    <2> HIDE DEF n
    <2>5. Cardinality({n}) = 1
      BY FS_Singleton
    <2> QED
      BY <2>3, <2>4, <2>5 DEF Value
  <1> QED
    BY <1>1, <1>2

LEMMA SampleMinutesTyped ==
  ASSUME NEW m \in Nat, NEW n \in Nat \ {0}
  PROVE  SampleMinutes(m, n) \in Nat
  <1>1. 6000 * m \in Nat
    OBVIOUS
  <1>2. (6000 * m) \div n \in Nat
    BY <1>1
  <1> QED
    BY <1>2 DEF SampleMinutes

LEMMA ReadingIsNat ==
  ASSUME NEW k \in Battery, Percentage[k] # {}
  PROVE  (CHOOSE p \in Percentage[k] : TRUE) \in Percentage[k] /\ Percentage[k] \subseteq Nat
  <1>1. Percentage[k] \subseteq 0..100
    BY DayAssumption
  <1> QED
    BY <1>1

LEMMA FeaturesTyped ==
  ASSUME NEW E, IsFiniteSet(E)
  PROVE  HourFeatures(E) \in Feature
  <1> DEFINE samples == {e \in E : e.kind \in Battery}
             readings == {e \in samples : Percentage[e.kind] # {}}
             charging == {e \in samples : e.kind \in Charging}
             level == [e \in readings |-> CHOOSE p \in Percentage[e.kind] : TRUE]
             all == IF samples = {} THEN 1 ELSE Cardinality(samples)
  <1>1. IsFiniteSet(samples) /\ IsFiniteSet(readings) /\ IsFiniteSet(charging)
    BY FS_Subset
  <1>2. Mean(level) \in Value
    <2>1. DOMAIN level = readings
      OBVIOUS
    <2>2. \A e \in readings : level[e] \in Nat
      BY ReadingIsNat
    <2> HIDE DEF level, readings
    <2> QED
      BY <1>1, <2>1, <2>2, MeanTyped
  <1>3. SampleMinutes(Cardinality(charging), all) \in Nat
    <2>1. Cardinality(charging) \in Nat
      BY <1>1, FS_CardinalityType
    <2>2. all \in Nat \ {0}
      <3>1. Cardinality(samples) \in Nat /\ (samples # {} => Cardinality(samples) # 0)
        <4> HIDE DEF samples
        <4> QED
          BY <1>1, FS_CardinalityType, FS_EmptySet
      <3> HIDE DEF samples
      <3> QED
        BY <3>1
    <2> HIDE DEF charging, all
    <2> QED
      BY <2>1, <2>2, SampleMinutesTyped
  <1>4. Cardinality(E) \in Nat
    BY FS_CardinalityType
  <1>5. HourFeatures(E) =
          [level |-> Mean(level), minutes |-> SampleMinutes(Cardinality(charging), all),
           beat |-> IF \E e \in E : e.kind = Heartbeat THEN 1 ELSE 0,
           total |-> Cardinality(E), missing |-> IF E = {} THEN 1 ELSE 0]
    BY DEF HourFeatures
  <1> HIDE DEF level, charging, all
  <1> QED
    BY <1>2, <1>3, <1>4, <1>5 DEF Feature

LEMMA HoursFinite == \A H \in SUBSET Hours : IsFiniteSet(H)
  <1>1. IsFiniteSet(Hours)
    BY FS_Interval, DayAssumption DEF Hours
  <1> QED
    BY <1>1, FS_Subset

LEMMA DailyTyped ==
  ASSUME DOMAIN hourly \subseteq Hours, \A h \in DOMAIN hourly : hourly[h] \in Feature,
         NEW start
  PROVE  DayFeatures(start) \in Daily
  <1> DEFINE H == RolledUpHours(start)
             known == {h \in H : hourly[h].level # {}}
             level == [h \in known |-> CHOOSE v \in hourly[h].level : TRUE]
             minutes == [h \in H |-> hourly[h].minutes]
             beats == [h \in H |-> 60 * hourly[h].beat]
             total == [h \in H |-> hourly[h].total]
             missing == [h \in H |-> hourly[h].missing]
  <1>1. H \subseteq DOMAIN hourly /\ IsFiniteSet(H) /\ IsFiniteSet(known)
    BY HoursFinite DEF RolledUpHours
  <1>2. \A h \in H : /\ hourly[h].level \in Value
                     /\ hourly[h].minutes \in Nat /\ hourly[h].beat \in Nat
                     /\ hourly[h].total \in Nat /\ hourly[h].missing \in Nat
    BY <1>1 DEF Feature
  <1> HIDE DEF H
  <1>3. Mean(level) \in Value
    <2>1. DOMAIN level = known
      OBVIOUS
    <2>2. \A h \in known : level[h] \in Nat
      BY <1>2 DEF Value
    <2> HIDE DEF level, known
    <2> QED
      BY <1>1, <2>1, <2>2, MeanTyped
  <1>4. Mean(beats) \in Value
    <2>1. DOMAIN beats = H
      OBVIOUS
    <2>2. \A h \in H : beats[h] \in Nat
      BY <1>2
    <2> HIDE DEF beats
    <2> QED
      BY <1>1, <2>1, <2>2, MeanTyped
  <1>5. /\ SumFunction(minutes) \in Nat
        /\ SumFunction(total) \in Nat
        /\ SumFunction(missing) \in Nat
    <2>1. DOMAIN minutes = H /\ DOMAIN total = H /\ DOMAIN missing = H
      OBVIOUS
    <2>2. \A h \in H : minutes[h] \in Nat /\ total[h] \in Nat /\ missing[h] \in Nat
      BY <1>2
    <2> HIDE DEF minutes, total, missing
    <2> QED
      BY <1>1, <2>1, <2>2, SumIsNat DEF SumFunction
  <1>6. DayFeatures(start) =
          [level |-> Mean(level), partial |-> known # H, minutes |-> SumFunction(minutes),
           beats |-> Mean(beats), total |-> SumFunction(total),
           missing |-> SumFunction(missing)]
    BY DEF DayFeatures, H
  <1>7. (known # H) \in BOOLEAN
    OBVIOUS
  <1> HIDE DEF level, known, beats, minutes, total, missing
  <1> QED
    BY <1>3, <1>4, <1>5, <1>6, <1>7 DEF Daily

-----------------------------------------------------------------------------
(* The pass of find_gaps over the rows.                                     *)

ScanStart == [run |-> NoRun, gaps |-> {}]

\* What the pass has found after hour h.
ScanStep(H, min, state, h) == IF h \in H THEN Scanned(state, h, min) ELSE state

LEMMA ScanSteps ==
  ASSUME NEW H, NEW min
  PROVE  /\ Scan(H, min)[0] = ScanStart
         /\ \A h \in Hours : Scan(H, min)[h + 1] = ScanStep(H, min, Scan(H, min)[h], h)
  <1> DEFINE Body(f, h) == IF h = 0 THEN ScanStart
                           ELSE IF h - 1 \in H THEN Scanned(f[h - 1], h - 1, min)
                           ELSE f[h - 1]
             Found(f, n) == f = [h \in 0..n |-> Body(f, h)]
             T == {n \in Nat : \E f : Found(f, n)}
  <1>1. 0 \in T
    <2> DEFINE f == [h \in 0..0 |-> ScanStart]
    <2>1. \A h \in 0..0 : Body(f, h) = ScanStart
      OBVIOUS
    <2>2. Found(f, 0)
      BY <2>1
    <2> HIDE DEF f, Found
    <2> QED
      BY <2>2
  <1>2. ASSUME NEW n \in Nat, n \in T
        PROVE  n + 1 \in T
    <2>1. PICK f : Found(f, n)
      BY <1>2
    <2> DEFINE g == [h \in 0..(n + 1) |-> IF h <= n THEN f[h] ELSE Body(f, h)]
    <2> HIDE DEF Body
    <2>2. \A h \in 0..n : f[h] = Body(f, h)
      BY <2>1
    <2>3. \A h \in 0..(n + 1) : g[h] = Body(f, h)
      BY <2>2
    <2>4. \A h \in 0..n : g[h] = f[h]
      BY <2>2
    <2> HIDE DEF g
    <2>5. \A h \in 0..(n + 1) : Body(g, h) = Body(f, h)
      <3> SUFFICES ASSUME NEW h \in 0..(n + 1), h # 0 PROVE g[h - 1] = f[h - 1]
        BY DEF Body
      <3>1. h - 1 \in 0..n
        OBVIOUS
      <3> QED
        BY <2>4, <3>1
    <2>6. Found(g, n + 1)
      <3>1. g = [h \in 0..(n + 1) |-> g[h]]
        BY DEF g
      <3>2. \A h \in 0..(n + 1) : g[h] = Body(g, h)
        BY <2>3, <2>5
      <3> QED
        BY <3>1, <3>2
    <2> HIDE DEF Found
    <2> QED
      BY <2>6
  <1>3. T = Nat
    <2> HIDE DEF Found
    <2>1. T \subseteq Nat
      OBVIOUS
    <2> HIDE DEF T
    <2> QED
      BY <1>1, <1>2, <2>1, Induction
  <1>4. Scan(H, min) = CHOOSE f : Found(f, LastHour + 1)
    BY DEF Scan, ScanStart
  <1>5. LastHour + 1 \in T
    BY <1>3, DayAssumption
  <1>6. \E f : Found(f, LastHour + 1)
    <2> HIDE DEF Found
    <2> QED
      BY <1>5
  <1>7. Found(Scan(H, min), LastHour + 1)
    <2> HIDE DEF Found
    <2> QED
      BY <1>4, <1>6
  <1> DEFINE scan == Scan(H, min)
  <1> HIDE DEF Body
  <1>8. \A h \in 0..(LastHour + 1) : scan[h] = Body(scan, h)
    BY <1>7, Zenon
  <1> HIDE DEF scan
  <1>9. scan[0] = ScanStart
    <2>1. 0 \in 0..(LastHour + 1)
      BY DayAssumption
    <2> QED
      BY <1>8, <2>1 DEF Body
  <1>10. ASSUME NEW h \in Hours
         PROVE  scan[h + 1] = ScanStep(H, min, scan[h], h)
    <2>1. h + 1 \in 0..(LastHour + 1) /\ h + 1 # 0 /\ (h + 1) - 1 = h
      BY DayAssumption DEF Hours
    <2> QED
      BY <1>8, <2>1 DEF Body, ScanStep
  <1> QED
    BY <1>9, <1>10 DEF scan

\* The run in progress before hour h: none, if a row that is not missing came
\* last, or else all that the rows up to here have of it.
RunBefore(H, h, run) ==
    \/ /\ run = NoRun
       /\ \A x \in H : x < h => ~Unbroken(H, x, h - 1)
    \/ \E i, j \in H :
          /\ i <= j /\ j < h
          /\ \A x \in H : x < h => x <= j
          /\ Unbroken(H, i, j)
          /\ \A x \in H : x < i => ~Unbroken(H, x, i)
          /\ run = GapOf(H, i, j)

\* The gaps before hour h: those of the maximal runs that a row has ended.
GapsBefore(H, min, h, gaps) ==
    \A g : g \in gaps <=>
        \E i, j \in H : /\ MaximalRun(H, i, j)
                        /\ \E x \in H : j < x /\ x < h
                        /\ Cardinality(H \cap i..j) >= min
                        /\ g = GapOf(H, i, j)

\* The gaps of the maximal runs that end before hour h.
EndedBefore(H, min, h, g) ==
    \E i, j \in H : /\ MaximalRun(H, i, j) /\ j < h
                    /\ Cardinality(H \cap i..j) >= min
                    /\ g = GapOf(H, i, j)

ScanInv(H, min, h, state) ==
    /\ state = [run |-> state.run, gaps |-> state.gaps]
    /\ RunBefore(H, h, state.run)
    /\ GapsBefore(H, min, h, state.gaps)

LEMMA RowsIn ==
  ASSUME NEW H \in SUBSET Hours, NEW i \in H, NEW j \in H
  PROVE  /\ IsFiniteSet(H \cap i..j)
         /\ Cardinality(H \cap i..j) \in Nat
         /\ i <= j => Cardinality(H \cap i..j) > 0
         /\ \A h \in H : j < h /\ i <= j /\ (\A x \in H : x < h => x <= j)
               => Cardinality(H \cap i..h) = Cardinality(H \cap i..j) + 1
         /\ Cardinality(H \cap i..i) = 1
  <1>1. H \subseteq Nat /\ i \in Nat /\ j \in Nat
    BY DayAssumption DEF Hours
  <1>2. ASSUME NEW x \in Nat, NEW y \in Nat
        PROVE  IsFiniteSet(H \cap x..y)
    <2>1. IsFiniteSet(x..y)
      BY FS_Interval
    <2> QED
      BY <2>1, FS_Subset
  <1>3. Cardinality(H \cap i..j) \in Nat
    BY <1>1, <1>2, FS_CardinalityType
  <1>4. ASSUME i <= j PROVE Cardinality(H \cap i..j) > 0
    <2>1. i \in H \cap i..j
      BY <1>1, <1>4
    <2>2. Cardinality(H \cap i..j) # 0
      BY <1>1, <1>2, <2>1, FS_EmptySet
    <2> QED
      BY <1>3, <2>2
  <1>5. ASSUME NEW h \in H, j < h, i <= j, \A x \in H : x < h => x <= j
        PROVE  Cardinality(H \cap i..h) = Cardinality(H \cap i..j) + 1
    <2>1. H \cap i..h = (H \cap i..j) \cup {h}
      BY <1>1, <1>5
    <2>2. h \notin H \cap i..j
      BY <1>1, <1>5
    <2> QED
      BY <1>1, <1>2, <2>1, <2>2, FS_AddElement
  <1>6. Cardinality(H \cap i..i) = 1
    <2>1. H \cap i..i = {i}
      BY <1>1
    <2> QED
      BY <2>1, FS_Singleton
  <1> QED
    BY <1>1, <1>2, <1>3, <1>4, <1>5, <1>6

\* A row that is not missing, or the end of the rows, ends the run in progress.
LEMMA Closing ==
  ASSUME NEW H \in SUBSET Hours, NEW min \in Nat, NEW h \in 0..(LastHour + 1), NEW state,
         ScanInv(H, min, h, state),
         h \in H => rows[h] # 0,
         h \in H \/ h = LastHour + 1
  PROVE  \A g : g \in Closed(state, min) <=> EndedBefore(H, min, h, g)
  <1>1. H \subseteq Nat /\ h \in Nat /\ \A x \in H : x <= LastHour /\ LastHour \in Nat
    BY DayAssumption DEF Hours
  <1>2. GapsBefore(H, min, h, state.gaps)
    BY DEF ScanInv
  \* A maximal run that no row before h has ended is the one in progress.
  <1>3. CASE /\ state.run = NoRun
             /\ \A x \in H : x < h => ~Unbroken(H, x, h - 1)
    <2>1. Closed(state, min) = state.gaps
      BY <1>3 DEF Closed, NoRun
    <2>2. ASSUME NEW i \in H, NEW j \in H, MaximalRun(H, i, j), j < h
          PROVE  \E x \in H : j < x /\ x < h
      <3> SUFFICES ASSUME \A x \in H : j < x => ~(x < h) PROVE FALSE
        OBVIOUS
      <3>1. \A x \in H \cap j..(h - 1) : x = j
        BY <1>1
      <3>2. rows[j] = 0
        <4>1. j \in H \cap i..j
          BY <1>1, <2>2 DEF MaximalRun
        <4> QED
          BY <2>2, <4>1 DEF MaximalRun, Unbroken
      <3>3. Unbroken(H, j, h - 1)
        BY <3>1, <3>2 DEF Unbroken
      <3> QED
        BY <1>3, <2>2, <3>3
    <2>3. ASSUME NEW i \in H, NEW j \in H
          PROVE  (\E x \in H : j < x /\ x < h) => j < h
      BY <1>1
    <2> QED
      BY <1>2, <2>1, <2>2, <2>3 DEF GapsBefore, EndedBefore
  <1>4. ASSUME NEW a \in H, NEW b \in H,
               a <= b, b < h, \A x \in H : x < h => x <= b,
               Unbroken(H, a, b),
               \A x \in H : x < a => ~Unbroken(H, x, a),
               state.run = GapOf(H, a, b)
        PROVE  \A g : g \in Closed(state, min) <=> EndedBefore(H, min, h, g)
    <2>1. state.run.hours = Cardinality(H \cap a..b) /\ state.run.hours > 0
          /\ state.run.hours \in Nat
      <3>1. Cardinality(H \cap a..b) \in Nat /\ Cardinality(H \cap a..b) > 0
        BY <1>4, RowsIn
      <3>2. state.run.hours = Cardinality(H \cap a..b)
        BY <1>4 DEF GapOf
      <3> QED
        BY <3>1, <3>2
    <2>2. MaximalRun(H, a, b)
      <3>1. ASSUME NEW x \in H, x > b PROVE ~Unbroken(H, b, x)
        <4>1. ~(x < h)
          BY <1>1, <1>4, <3>1
        <4>2. h \in H
          BY <1>1, <4>1
        <4>3. h \in H \cap b..x
          BY <1>1, <1>4, <4>1, <4>2
        <4> QED
          BY <4>2, <4>3 DEF Unbroken
      <3> QED
        BY <1>4, <3>1 DEF MaximalRun
    <2>3. ASSUME NEW i \in H, NEW j \in H, MaximalRun(H, i, j), j < h,
                 ~ \E x \in H : j < x /\ x < h
          PROVE  i = a /\ j = b
      <3>1. j = b
        BY <1>1, <1>4, <2>3
      <3>2. i <= j
        BY <2>3 DEF MaximalRun
      <3>3. ~(i < a)
        <4> SUFFICES ASSUME i < a PROVE FALSE
          OBVIOUS
        <4>1. i..a \subseteq i..j
          BY <1>1, <1>4, <3>1
        <4>2. Unbroken(H, i, a)
          BY <2>3, <4>1 DEF MaximalRun, Unbroken
        <4> QED
          BY <1>4, <4>2
      <3>4. ~(a < i)
        <4> SUFFICES ASSUME a < i PROVE FALSE
          OBVIOUS
        <4>1. a..i \subseteq a..b
          BY <1>1, <3>1, <3>2
        <4>2. Unbroken(H, a, i)
          BY <1>4, <4>1 DEF Unbroken
        <4> QED
          BY <2>3, <4>2 DEF MaximalRun
      <3> QED
        BY <1>1, <3>1, <3>3, <3>4
    <2>4. \A g : g \in Closed(state, min) <=>
             g \in state.gaps \/ (state.run.hours >= min /\ g = state.run)
      BY <2>1 DEF Closed
    <2>5. ASSUME NEW i \in H, NEW j \in H
          PROVE  (\E x \in H : j < x /\ x < h) => j < h
      BY <1>1
    <2>6. ASSUME NEW g, g \in Closed(state, min)
          PROVE  EndedBefore(H, min, h, g)
      <3>1. CASE g \in state.gaps
        BY <1>2, <2>5, <3>1 DEF GapsBefore, EndedBefore
      <3>2. CASE state.run.hours >= min /\ g = state.run
        BY <1>4, <2>1, <2>2, <3>2 DEF EndedBefore
      <3> QED
        BY <2>4, <2>6, <3>1, <3>2
    <2>7. ASSUME NEW g, NEW i \in H, NEW j \in H, MaximalRun(H, i, j), j < h,
                 Cardinality(H \cap i..j) >= min, g = GapOf(H, i, j)
          PROVE  g \in Closed(state, min)
      <3>1. CASE \E x \in H : j < x /\ x < h
        <4>1. g \in state.gaps
          BY <1>2, <2>7, <3>1 DEF GapsBefore
        <4> QED
          BY <2>4, <4>1
      <3>2. CASE ~ \E x \in H : j < x /\ x < h
        <4>1. i = a /\ j = b
          BY <2>3, <2>7, <3>2
        <4> QED
          BY <1>4, <2>1, <2>4, <2>7, <4>1
      <3> QED
        BY <3>1, <3>2
    <2> QED
      BY <2>6, <2>7 DEF EndedBefore
  <1> QED
    BY <1>3, <1>4 DEF ScanInv, RunBefore

\* One hour of the pass.
LEMMA ScanInvStep ==
  ASSUME NEW H \in SUBSET Hours, NEW min \in Nat, NEW h \in Hours, NEW state,
         ScanInv(H, min, h, state)
  PROVE  ScanInv(H, min, h + 1, ScanStep(H, min, state, h))
  <1>1. H \subseteq Nat /\ h \in Nat /\ h \in 0..(LastHour + 1) /\ (h + 1) - 1 = h
    BY DayAssumption DEF Hours
  <1>2. RunBefore(H, h, state.run) /\ GapsBefore(H, min, h, state.gaps)
        /\ state = [run |-> state.run, gaps |-> state.gaps]
    BY DEF ScanInv
  \* There is no row of this hour.
  <1>3. CASE h \notin H
    <2>1. \A x \in H : x < h + 1 <=> x < h
      BY <1>1, <1>3
    <2>2. \A x \in H : Unbroken(H, x, h) => Unbroken(H, x, h - 1)
      BY <1>1 DEF Unbroken
    <2>3. ASSUME NEW x \in H, x < h, ~Unbroken(H, x, h - 1)
          PROVE  ~Unbroken(H, x, (h + 1) - 1)
      BY <1>1, <2>2, <2>3
    <2>4. RunBefore(H, h + 1, state.run)
      <3>1. CASE /\ state.run = NoRun
                 /\ \A x \in H : x < h => ~Unbroken(H, x, h - 1)
        BY <2>1, <2>3, <3>1 DEF RunBefore
      <3>2. CASE \E i, j \in H :
                   /\ i <= j /\ j < h
                   /\ \A x \in H : x < h => x <= j
                   /\ Unbroken(H, i, j)
                   /\ \A x \in H : x < i => ~Unbroken(H, x, i)
                   /\ state.run = GapOf(H, i, j)
        BY <2>1, <3>2 DEF RunBefore
      <3> QED
        BY <1>2, <3>1, <3>2 DEF RunBefore
    <2>5. GapsBefore(H, min, h + 1, state.gaps)
      BY <1>2, <2>1 DEF GapsBefore
    <2> QED
      BY <1>2, <1>3, <2>4, <2>5 DEF ScanInv, ScanStep
  \* Its row is a missing one.
  <1>4. CASE h \in H /\ rows[h] = 0
    <2> DEFINE run == [start |-> IF state.run.hours = 0 THEN h ELSE state.run.start,
                       end |-> h + 1, hours |-> state.run.hours + 1]
    <2>1. ScanStep(H, min, state, h) = [run |-> run, gaps |-> state.gaps]
      <3>1. ScanStep(H, min, state, h) = [state EXCEPT !.run = run]
        BY <1>4 DEF ScanStep, Scanned
      <3> HIDE DEF run
      <3> QED
        BY <1>2, <3>1
    <2>2. \A x \in H : x < h + 1 => x <= h
      BY <1>1
    <2>3. RunBefore(H, h + 1, run)
      <3>1. CASE /\ state.run = NoRun
                 /\ \A x \in H : x < h => ~Unbroken(H, x, h - 1)
        <4>1. run = GapOf(H, h, h)
          <5>1. run = [start |-> h, end |-> h + 1, hours |-> 1]
            BY <3>1 DEF NoRun
          <5>2. Cardinality(H \cap h..h) = 1
            BY <1>4, RowsIn
          <5> HIDE DEF run
          <5> QED
            BY <5>1, <5>2 DEF GapOf
        <4>2. Unbroken(H, h, h)
          BY <1>1, <1>4 DEF Unbroken
        <4>3. \A x \in H : Unbroken(H, x, h) => Unbroken(H, x, h - 1)
          BY <1>1 DEF Unbroken
        <4>4. h <= h /\ h < h + 1
          BY <1>1
        <4> HIDE DEF run
        <4> QED
          BY <1>4, <2>2, <3>1, <4>1, <4>2, <4>3, <4>4 DEF RunBefore
      <3>2. ASSUME NEW i \in H, NEW j \in H,
                   i <= j, j < h, \A x \in H : x < h => x <= j,
                   Unbroken(H, i, j),
                   \A x \in H : x < i => ~Unbroken(H, x, i),
                   state.run = GapOf(H, i, j)
            PROVE  RunBefore(H, h + 1, run)
        <4>1. run = GapOf(H, i, h)
          <5>1. /\ Cardinality(H \cap i..j) \in Nat /\ Cardinality(H \cap i..j) > 0
                /\ Cardinality(H \cap i..h) = Cardinality(H \cap i..j) + 1
            BY <1>4, <3>2, RowsIn
          <5>2. state.run.hours = Cardinality(H \cap i..j) /\ state.run.start = i
            BY <3>2 DEF GapOf
          <5>3. state.run.hours # 0
            BY <5>1, <5>2
          <5>4. run = [start |-> i, end |-> h + 1, hours |-> state.run.hours + 1]
            BY <5>2, <5>3
          <5>5. state.run.hours + 1 = Cardinality(H \cap i..h)
            BY <5>1, <5>2
          <5> HIDE DEF run
          <5> QED
            BY <5>4, <5>5 DEF GapOf
        <4>2. Unbroken(H, i, h)
          <5> SUFFICES ASSUME NEW x \in H, x \in i..h PROVE rows[x] = 0
            BY DEF Unbroken
          <5>1. x = h \/ x \in i..j
            BY <1>1, <3>2
          <5> QED
            BY <1>4, <3>2, <5>1 DEF Unbroken
        <4>3. i <= h /\ h < h + 1
          BY <1>1, <3>2
        <4> HIDE DEF run
        <4> QED
          BY <1>4, <2>2, <3>2, <4>1, <4>2, <4>3 DEF RunBefore
      <3> HIDE DEF run
      <3> QED
        BY <1>2, <3>1, <3>2 DEF RunBefore
    <2>4. GapsBefore(H, min, h + 1, state.gaps)
      <3> SUFFICES ASSUME NEW i \in H, NEW j \in H, MaximalRun(H, i, j)
                   PROVE  (\E x \in H : j < x /\ x < h + 1) <=> (\E x \in H : j < x /\ x < h)
        BY <1>2 DEF GapsBefore
      <3>1. ASSUME NEW x \in H, j < x, x < h + 1
            PROVE  \E y \in H : j < y /\ y < h
        <4> SUFFICES ASSUME \A y \in H : j < y => ~(y < h) PROVE FALSE
          OBVIOUS
        <4>1. x = h
          BY <1>1, <3>1
        <4>2. \A y \in H \cap j..h : y = j \/ y = h
          BY <1>1
        <4>3. rows[j] = 0
          <5>1. j \in H \cap i..j
            BY <1>1 DEF MaximalRun
          <5> QED
            BY <5>1 DEF MaximalRun, Unbroken
        <4>4. Unbroken(H, j, h)
          BY <1>4, <4>2, <4>3 DEF Unbroken
        <4> QED
          BY <3>1, <4>1, <4>4 DEF MaximalRun
      <3>2. ASSUME NEW x \in H, j < x, x < h
            PROVE  x < h + 1
        BY <1>1, <3>2
      <3> QED
        BY <3>1, <3>2
    <2> HIDE DEF run
    <2> QED
      BY <2>1, <2>3, <2>4 DEF ScanInv
  \* Its row is not missing.
  <1>5. CASE h \in H /\ rows[h] # 0
    <2>1. ScanStep(H, min, state, h) = [run |-> NoRun, gaps |-> Closed(state, min)]
      BY <1>5 DEF ScanStep, Scanned
    <2>2. RunBefore(H, h + 1, NoRun)
      <3>1. ASSUME NEW x \in H, x < h + 1
            PROVE  ~Unbroken(H, x, (h + 1) - 1)
        <4>1. h \in H \cap x..((h + 1) - 1)
          BY <1>1, <1>5, <3>1
        <4> QED
          BY <1>5, <4>1 DEF Unbroken
      <3> QED
        BY <3>1 DEF RunBefore
    <2>3. GapsBefore(H, min, h + 1, Closed(state, min))
      <3>1. ASSUME NEW j \in H
            PROVE  (\E x \in H : j < x /\ x < h + 1) <=> j < h
        BY <1>1, <1>5
      <3>2. \A g : g \in Closed(state, min) <=> EndedBefore(H, min, h, g)
        <4>1. h \in H => rows[h] # 0
          BY <1>5
        <4>2. h \in H \/ h = LastHour + 1
          BY <1>5
        <4> QED
          BY <1>1, <4>1, <4>2, Closing
      <3> QED
        BY <3>1, <3>2 DEF GapsBefore, EndedBefore
    <2> QED
      BY <2>1, <2>2, <2>3 DEF ScanInv
  <1> QED
    BY <1>3, <1>4, <1>5

LEMMA ScanInvAlways ==
  ASSUME NEW H \in SUBSET Hours, NEW min \in Nat, NEW h \in 0..(LastHour + 1)
  PROVE  ScanInv(H, min, h, Scan(H, min)[h])
  <1> DEFINE T == {n \in Nat : n <= LastHour + 1 => ScanInv(H, min, n, Scan(H, min)[n])}
  <1>1. 0 \in T
    <2>1. \A x \in H : ~(x < 0)
      BY DayAssumption DEF Hours
    <2>2. ScanStart = [run |-> ScanStart.run, gaps |-> ScanStart.gaps]
          /\ ScanStart.run = NoRun /\ ScanStart.gaps = {}
      BY DEF ScanStart
    <2>3. ScanInv(H, min, 0, ScanStart)
      BY <2>1, <2>2 DEF ScanInv, RunBefore, GapsBefore
    <2> QED
      BY <2>3, ScanSteps
  <1>2. ASSUME NEW n \in Nat, n \in T
        PROVE  n + 1 \in T
    <2> SUFFICES ASSUME n + 1 <= LastHour + 1
                 PROVE  ScanInv(H, min, n + 1, Scan(H, min)[n + 1])
      OBVIOUS
    <2>1. n \in Hours /\ n <= LastHour + 1
      BY DayAssumption DEF Hours
    <2> QED
      BY <1>2, <2>1, ScanSteps, ScanInvStep
  <1>3. T = Nat
    <2>1. T \subseteq Nat
      OBVIOUS
    <2> HIDE DEF T
    <2> QED
      BY <1>1, <1>2, <2>1, Induction
  <1> QED
    BY <1>3, DayAssumption

\* What find_gaps lists is what the maximal runs are.
LEMMA GapsFound ==
  ASSUME DOMAIN rows \subseteq Hours, NEW w, NEW min \in Nat
  PROVE  /\ FindGaps(w, min) = MaximalGaps(StoredIn(rows, w), min)
         /\ FindGaps(w, min) \subseteq Gap
  <1> DEFINE H == StoredIn(rows, w)
  <1>1. H \in SUBSET Hours
    BY DEF StoredIn
  <1> HIDE DEF H
  <1>2. LastHour + 1 \in 0..(LastHour + 1) /\ LastHour + 1 \notin H
    BY <1>1, DayAssumption DEF Hours
  <1>3. \A i \in H : i < LastHour + 1
    BY <1>1, DayAssumption DEF Hours
  <1>4. ScanInv(H, min, LastHour + 1, Scan(H, min)[LastHour + 1])
    BY <1>1, <1>2, ScanInvAlways
  <1>5. FindGaps(w, min) = Closed(Scan(H, min)[LastHour + 1], min)
    BY DEF FindGaps, H
  <1>6. \A g : g \in FindGaps(w, min) <=> EndedBefore(H, min, LastHour + 1, g)
    <2> DEFINE last == LastHour + 1
               state == Scan(H, min)[last]
    <2>1. /\ last \in 0..(LastHour + 1) /\ ScanInv(H, min, last, state)
          /\ last \in H => rows[last] # 0
          /\ last \in H \/ last = LastHour + 1
      BY <1>2, <1>4
    <2> HIDE DEF last, state
    <2>2. \A g : g \in Closed(state, min) <=> EndedBefore(H, min, last, g)
      BY <1>1, <2>1, Closing
    <2> QED
      BY <1>5, <2>2 DEF last, state
  <1>7. ASSUME NEW i \in H, NEW j \in H
        PROVE  GapOf(H, i, j).hours = Cardinality(H \cap i..j)
    BY DEF GapOf
  <1>8. \A g : g \in MaximalGaps(H, min) <=>
           \E i, j \in H : /\ MaximalRun(H, i, j)
                           /\ Cardinality(H \cap i..j) >= min
                           /\ g = GapOf(H, i, j)
    <2>1. ASSUME NEW g, g \in MaximalGaps(H, min)
          PROVE  \E i, j \in H : /\ MaximalRun(H, i, j)
                                 /\ Cardinality(H \cap i..j) >= min
                                 /\ g = GapOf(H, i, j)
      <3>1. PICK p \in H \X H : MaximalRun(H, p[1], p[2]) /\ g = GapOf(H, p[1], p[2])
                                /\ g.hours >= min
        BY <2>1 DEF MaximalGaps
      <3> QED
        BY <1>7, <3>1
    <2>2. ASSUME NEW g, NEW i \in H, NEW j \in H, MaximalRun(H, i, j),
                 Cardinality(H \cap i..j) >= min, g = GapOf(H, i, j)
          PROVE  g \in MaximalGaps(H, min)
      <3>1. <<i, j>> \in {q \in H \X H : MaximalRun(H, q[1], q[2])}
            /\ <<i, j>>[1] = i /\ <<i, j>>[2] = j
        BY <2>2
      <3>2. g.hours >= min
        BY <1>7, <2>2
      <3> QED
        BY <2>2, <3>1, <3>2 DEF MaximalGaps
    <2> QED
      BY <2>1, <2>2
  <1>9. FindGaps(w, min) = MaximalGaps(H, min)
    BY <1>3, <1>6, <1>8 DEF EndedBefore
  <1>10. \A i \in H, j \in H : GapOf(H, i, j) \in Gap
    <2> SUFFICES ASSUME NEW i \in H, NEW j \in H PROVE GapOf(H, i, j) \in Gap
      OBVIOUS
    <2>1. i \in Hours /\ j + 1 \in 1..(LastHour + 1)
      BY <1>1, DayAssumption DEF Hours
    <2>2. Cardinality(H \cap i..j) \in Nat
      BY <1>1, RowsIn
    <2> QED
      BY <2>1, <2>2 DEF GapOf, Gap
  <1>11. FindGaps(w, min) \subseteq Gap
    <2> SUFFICES ASSUME NEW g \in FindGaps(w, min) PROVE g \in Gap
      OBVIOUS
    <2>1. PICK i \in H, j \in H : g = GapOf(H, i, j)
      BY <1>6 DEF EndedBefore
    <2> QED
      BY <1>10, <2>1
  <1> QED
    BY <1>9, <1>11 DEF H

-----------------------------------------------------------------------------
(* The inductive invariant.                                                 *)

\* The events there are or were, all of them and those of hour h.
Received == held \cup retired
ReceivedOf(h) == {e \in Received : Hour(e.slot) = h}

\* A number that the events of hour h account for.
Backed(n, h) == n \in Nat /\ n <= Cardinality(ReceivedOf(h))

Statements == {"idle", "events", "coverage", "features", "roll_up", "upsert_daily",
               "hourly", "rows", "counts", "daily", "summary", "gaps"}

\* What the steps rely on: the fields of the records, and that a computation
\* has read events that are there or were.
StateInv ==
    /\ held \subseteq Event /\ IsFiniteSet(held)
    /\ retired \subseteq Event /\ IsFiniteSet(retired)
    /\ DOMAIN request = DOMAIN NoRequest
    /\ DOMAIN reply = DOMAIN NoReply
    /\ request.start \in Nat /\ request.end \in Nat
    /\ request.todo \in Seq(Statements)
    /\ request.read \subseteq Received

Left == Len(request.todo)

\* The statements left of a timeline are its last ones, but for those that
\* compute the rows of the summary and the gaps once more.
OrderInv ==
    /\ Left <= 12
    /\ \A i \in 1..Left :
          \/ request.todo[i] = TimelineSteps[12 - Left + i]
          \/ Left <= 4 /\ request.todo[i] \in {"events", "coverage"}

RowsBacked == \A h \in WholeHours \cap DOMAIN rows : Backed(rows[h], h)
FeaturesBacked == \A h \in WholeHours \cap DOMAIN hourly : Backed(hourly[h].total, h)
ReplyFeaturesBacked ==
    \A h \in WholeHours \cap DOMAIN reply.hourly : Backed(reply.hourly[h].total, h)
ReplyRowsBacked == \A h \in WholeHours \cap DOMAIN reply.rows : Backed(reply.rows[h], h)

\* The events have been counted.
Counted == Left < 4 \/ (Left = 4 /\ request.todo[1] # "counts")

\* A number that the block's counts and the deleted events account for.
Borne(n, h) ==
    /\ n \in Nat /\ reply.counts[h] \in Nat
    /\ n <= reply.counts[h] + Cardinality(EventsOf(retired, request, h))

CountsCover ==
    \A h \in WholeHours \cap DOMAIN reply.counts :
        /\ h \in DOMAIN reply.hourly => Borne(reply.hourly[h].total, h)
        /\ h \in DOMAIN reply.rows => Borne(reply.rows[h], h)

\* What a timeline may rely on, by the statements it has left.
BlocksInv ==
    /\ Left <= 10 => RowsBacked
    /\ Left <= 8 => FeaturesBacked
    /\ Left <= 5 => ReplyFeaturesBacked
    /\ Left <= 4 => ReplyRowsBacked
    /\ Counted => CountsCover

IndInv == StateInv /\ (request.asked = "timeline" => OrderInv /\ BlocksInv)

-----------------------------------------------------------------------------
(* The statements of a timeline.                                            *)

LEMMA Joined ==
  ASSUME NEW S, NEW s \in Seq(S), NEW t \in Seq(S)
  PROVE  /\ s \o t \in Seq(S) /\ Len(s \o t) = Len(s) + Len(t)
         /\ Len(s) \in Nat /\ Len(t) \in Nat
         /\ \A i \in 1..(Len(s) + Len(t)) :
               (s \o t)[i] = IF i <= Len(s) THEN s[i] ELSE t[i - Len(s)]
  OBVIOUS

LEMMA Shortened ==
  ASSUME NEW S, NEW s \in Seq(S), s # <<>>
  PROVE  /\ Len(s) \in Nat \ {0}
         /\ Head(s) = s[1]
         /\ Tail(s) \in Seq(S) /\ Len(Tail(s)) = Len(s) - 1
         /\ \A i \in 1..(Len(s) - 1) : Tail(s)[i] = s[i + 1]
  BY EmptySeq, HeadTailProperties

LEMMA StepsOfTimeline ==
  /\ TimelineSteps \in Seq(Statements)
  /\ Len(TimelineSteps) = 12
  /\ TimelineSteps[1] = "events" /\ TimelineSteps[2] = "coverage"
  /\ TimelineSteps[3] = "events" /\ TimelineSteps[4] = "features"
  /\ TimelineSteps[5] = "roll_up" /\ TimelineSteps[6] = "upsert_daily"
  /\ TimelineSteps[7] = "hourly" /\ TimelineSteps[8] = "rows"
  /\ TimelineSteps[9] = "counts" /\ TimelineSteps[10] = "daily"
  /\ TimelineSteps[11] = "summary" /\ TimelineSteps[12] = "gaps"
  <1> DEFINE rest == <<"events", "features", "roll_up", "upsert_daily",
                       "hourly", "rows", "counts", "daily", "summary", "gaps">>
  <1>1. Compute \in Seq(Statements) /\ Len(Compute) = 2
        /\ Compute[1] = "events" /\ Compute[2] = "coverage"
    BY DEF Compute, Statements
  <1>2. rest \in Seq(Statements) /\ Len(rest) = 10
    BY DEF Statements
  <1>3. /\ rest[1] = "events" /\ rest[2] = "features" /\ rest[3] = "roll_up"
        /\ rest[4] = "upsert_daily" /\ rest[5] = "hourly" /\ rest[6] = "rows"
        /\ rest[7] = "counts" /\ rest[8] = "daily" /\ rest[9] = "summary"
        /\ rest[10] = "gaps"
    OBVIOUS
  <1>4. TimelineSteps = Compute \o rest
    BY DEF TimelineSteps
  <1> HIDE DEF rest
  <1>5. /\ Compute \o rest \in Seq(Statements)
        /\ Len(Compute \o rest) = Len(Compute) + Len(rest)
        /\ \A i \in 1..(Len(Compute) + Len(rest)) :
              (Compute \o rest)[i] = IF i <= Len(Compute) THEN Compute[i]
                                     ELSE rest[i - Len(Compute)]
    BY <1>1, <1>2, Joined
  <1>6. ASSUME NEW i \in 1..2
        PROVE  TimelineSteps[i] = Compute[i]
    BY <1>1, <1>2, <1>4, <1>5
  <1>7. ASSUME NEW i \in 1..10
        PROVE  TimelineSteps[i + 2] = rest[i]
    <2>1. i + 2 \in 1..12 /\ ~(i + 2 <= 2) /\ (i + 2) - 2 = i
      OBVIOUS
    <2>2. (Compute \o rest)[i + 2] = rest[(i + 2) - Len(Compute)]
      <3>1. i + 2 \in 1..(Len(Compute) + Len(rest)) /\ ~(i + 2 <= Len(Compute))
        BY <1>1, <1>2, <2>1
      <3> QED
        BY <1>5, <3>1
    <2>3. (i + 2) - Len(Compute) = i
      BY <1>1, <2>1
    <2> QED
      BY <1>4, <2>2, <2>3
  <1>8. TimelineSteps[1] = "events" /\ TimelineSteps[2] = "coverage"
    BY <1>1, <1>6
  <1>9. /\ TimelineSteps[1 + 2] = "events" /\ TimelineSteps[2 + 2] = "features"
        /\ TimelineSteps[3 + 2] = "roll_up" /\ TimelineSteps[4 + 2] = "upsert_daily"
        /\ TimelineSteps[5 + 2] = "hourly" /\ TimelineSteps[6 + 2] = "rows"
        /\ TimelineSteps[7 + 2] = "counts" /\ TimelineSteps[8 + 2] = "daily"
        /\ TimelineSteps[9 + 2] = "summary" /\ TimelineSteps[10 + 2] = "gaps"
    BY <1>3, <1>7
  <1>10. TimelineSteps \in Seq(Statements) /\ Len(TimelineSteps) = 12
    BY <1>1, <1>2, <1>4, <1>5
  <1> QED
    BY <1>8, <1>9, <1>10

LEMMA SameSteps == TimelineSteps' = TimelineSteps
  BY DEF TimelineSteps, Compute

\* Where a statement stands in the order when it is the next one.
LEMMA NextStatement ==
  ASSUME StateInv, OrderInv, Running
  PROVE  /\ Left \in 1..12
         /\ At("coverage") => Left = 11 \/ Left <= 4
         /\ At("features") => Left = 9
         /\ At("roll_up") => Left = 8
         /\ At("upsert_daily") => Left = 7
         /\ At("hourly") => Left = 6
         /\ At("rows") => Left = 5
         /\ At("counts") => Left = 4
         /\ At("daily") => Left = 3
         /\ At("events") => Left \in {12, 10} \/ Left <= 4
         /\ At("summary") \/ At("gaps") => Left <= 2
  <1>1. Left \in 1..12
    <2>1. request.todo \in Seq(Statements) /\ request.todo # <<>>
      BY DEF StateInv, Running, Answered
    <2>2. Left \in Nat \ {0}
      BY <2>1, Shortened DEF Left
    <2> QED
      BY <2>2 DEF OrderInv
  <1>2. \/ Head(request.todo) = TimelineSteps[13 - Left]
        \/ Left <= 4 /\ Head(request.todo) \in {"events", "coverage"}
    <2>1. Head(request.todo) = request.todo[1]
      BY Shortened DEF StateInv, Running, Answered
    <2> QED
      BY <1>1, <2>1 DEF OrderInv
  <1>3. Left \in Int /\ 13 - Left \in 1..12
    BY <1>1
  <1>4. \/ Left = 12 \/ Left = 11 \/ Left = 10 \/ Left = 9 \/ Left = 8 \/ Left = 7
        \/ Left = 6 \/ Left = 5 \/ Left = 4 \/ Left = 3 \/ Left = 2 \/ Left = 1
    BY <1>1
  <1> QED
    BY <1>1, <1>2, <1>4, StepsOfTimeline DEF At

\* One statement less.
LEMMA OrderAfterStatement ==
  ASSUME StateInv, OrderInv, Running, request'.todo = Tail(request.todo)
  PROVE  /\ OrderInv' /\ Left' = Left - 1
         /\ request'.todo \in Seq(Statements)
         /\ Left > 1 => Head(request'.todo) = request.todo[2]
  <1>1. Left \in 1..12
    BY NextStatement
  <1>2. request'.todo \in Seq(Statements) /\ Left' = Left - 1
    BY Shortened DEF StateInv, Left, Running, Answered
  <1>3. \A i \in 1..(Left - 1) : request'.todo[i] = request.todo[i + 1]
    BY Shortened DEF StateInv, Left, Running, Answered
  <1>4. ASSUME NEW i \in 1..Left'
        PROVE  \/ request'.todo[i] = TimelineSteps[12 - Left' + i]
               \/ Left' <= 4 /\ request'.todo[i] \in {"events", "coverage"}
    <2>1. i \in 1..(Left - 1) /\ i + 1 \in 1..Left
      BY <1>1, <1>2
    <2>2. 12 - Left + (i + 1) = 12 - Left' + i
      BY <1>1, <1>2, <2>1
    <2>3. request'.todo[i] = request.todo[i + 1]
      BY <1>3, <2>1
    <2>4. \/ request.todo[i + 1] = TimelineSteps[12 - Left + (i + 1)]
          \/ Left <= 4 /\ request.todo[i + 1] \in {"events", "coverage"}
      BY <2>1 DEF OrderInv
    <2>5. Left <= 4 => Left' <= 4
      BY <1>1, <1>2
    <2>6. TimelineSteps[12 - Left + (i + 1)] = TimelineSteps[12 - Left' + i]
      BY <2>2
    <2> QED
      BY <2>3, <2>4, <2>5, <2>6, Zenon
  <1>5. OrderInv'
    <2>1. Left' <= 12
      BY <1>1, <1>2
    <2> QED
      BY <1>4, <2>1, SameSteps DEF OrderInv
  <1>6. Left > 1 => Head(request'.todo) = request.todo[2]
    BY <1>1, <1>2, <1>3 DEF StateInv, Left
  <1> QED
    BY <1>2, <1>5, <1>6

\* The statements that compute the rows once more come before the last two.
LEMMA OrderAfterComputeFirst ==
  ASSUME StateInv, OrderInv, Running, Left <= 2,
         request'.todo = Compute \o request.todo
  PROVE  /\ OrderInv' /\ Left' = Left + 2
         /\ request'.todo \in Seq(Statements)
         /\ request'.todo[1] = "events"
  <1>1. Left \in 1..2
    BY NextStatement
  <1>2. /\ Compute \in Seq(Statements) /\ Len(Compute) = 2
        /\ Compute[1] = "events" /\ Compute[2] = "coverage"
    BY DEF Compute, Statements
  <1>3. /\ request'.todo \in Seq(Statements)
        /\ Len(request'.todo) = Len(Compute) + Len(request.todo)
        /\ \A i \in 1..(Len(Compute) + Len(request.todo)) :
              request'.todo[i] = IF i <= Len(Compute) THEN Compute[i]
                                 ELSE request.todo[i - Len(Compute)]
    <2>1. request.todo \in Seq(Statements)
      BY DEF StateInv
    <2> DEFINE joined == Compute \o request.todo
    <2>2. /\ joined \in Seq(Statements)
          /\ Len(joined) = Len(Compute) + Len(request.todo)
          /\ \A i \in 1..(Len(Compute) + Len(request.todo)) :
                joined[i] = IF i <= Len(Compute) THEN Compute[i]
                            ELSE request.todo[i - Len(Compute)]
      BY <1>2, <2>1, Joined
    <2>3. request'.todo = joined
      OBVIOUS
    <2> HIDE DEF joined
    <2> QED
      BY <2>2, <2>3
  <1>4. Left' = Left + 2
    BY <1>1, <1>2, <1>3 DEF Left
  <1>5. request'.todo[1] = "events" /\ request'.todo[2] = "coverage"
    <2>1. 1 \in 1..(Len(Compute) + Len(request.todo)) /\ 1 <= Len(Compute)
          /\ 2 \in 1..(Len(Compute) + Len(request.todo)) /\ 2 <= Len(Compute)
      BY <1>1, <1>2 DEF Left
    <2> QED
      BY <1>2, <1>3, <2>1
  <1>6. ASSUME NEW i \in 1..Left'
        PROVE  \/ request'.todo[i] = TimelineSteps[12 - Left' + i]
               \/ Left' <= 4 /\ request'.todo[i] \in {"events", "coverage"}
    <2>1. CASE i <= 2
      <3>1. i = 1 \/ i = 2
        BY <2>1, <1>1, <1>4
      <3>2. Left' <= 4
        BY <1>1, <1>4
      <3> QED
        BY <1>5, <3>1, <3>2
    <2>2. CASE i > 2
      <3>1. i - 2 \in 1..Left /\ 12 - Left + (i - 2) = 12 - Left' + i
        BY <1>1, <1>4, <2>2
      <3>2. i \in 1..(Len(Compute) + Len(request.todo)) /\ ~(i <= Len(Compute))
            /\ i - Len(Compute) = i - 2
        BY <1>1, <1>2, <1>4, <2>2 DEF Left
      <3>3. request'.todo[i] = request.todo[i - 2]
        BY <1>3, <3>2
      <3>4. \/ request.todo[i - 2] = TimelineSteps[12 - Left + (i - 2)]
            \/ Left <= 4 /\ request.todo[i - 2] \in {"events", "coverage"}
        BY <3>1 DEF OrderInv
      <3>5. Left' <= 4
        BY <1>1, <1>4
      <3>6. TimelineSteps[12 - Left + (i - 2)] = TimelineSteps[12 - Left' + i]
        BY <3>1
      <3> QED
        BY <3>3, <3>4, <3>5, <3>6, Zenon
    <2>3. i <= 2 \/ i > 2
      BY <1>1, <1>4
    <2> QED
      BY <2>1, <2>2, <2>3
  <1>7. OrderInv'
    <2>1. Left' <= 12
      BY <1>1, <1>4
    <2> QED
      BY <1>6, <2>1, SameSteps DEF OrderInv
  <1> QED
    BY <1>3, <1>4, <1>5, <1>7

-----------------------------------------------------------------------------
(* Counting the events of an hour.                                          *)

LEMMA AllFinite ==
  ASSUME StateInv
  PROVE  IsFiniteSet(Received)
  BY FS_Union DEF StateInv, Received

LEMMA ReceivedFinite ==
  ASSUME StateInv, NEW h
  PROVE  IsFiniteSet(ReceivedOf(h)) /\ Cardinality(ReceivedOf(h)) \in Nat
  <1>1. IsFiniteSet(Received)
    BY FS_Union DEF StateInv, Received
  <1>2. IsFiniteSet(ReceivedOf(h))
    BY <1>1, FS_Subset DEF ReceivedOf
  <1> QED
    BY <1>2, FS_CardinalityType

LEMMA EventsFinite ==
  ASSUME NEW E, IsFiniteSet(E), NEW w, NEW h
  PROVE  IsFiniteSet(EventsOf(E, w, h)) /\ Cardinality(EventsOf(E, w, h)) \in Nat
  <1>1. IsFiniteSet(EventsOf(E, w, h))
    BY FS_Subset DEF EventsOf
  <1> QED
    BY <1>1, FS_CardinalityType

\* Events that were read are events of their hour.
LEMMA ReadBacked ==
  ASSUME StateInv, NEW E, E \subseteq Received, NEW w, NEW h
  PROVE  Backed(Cardinality(EventsOf(E, w, h)), h)
  <1>1. EventsOf(E, w, h) \subseteq ReceivedOf(h)
    BY DEF EventsOf, ReceivedOf
  <1> QED
    BY <1>1, ReceivedFinite, FS_Subset, FS_CardinalityType DEF Backed

\* What is backed stays so: retention takes no event out of those received.
LEMMA BackedStays ==
  ASSUME StateInv, Received \subseteq Received', IsFiniteSet(Received'),
         NEW n, NEW h, Backed(n, h)
  PROVE  n \in Nat /\ n <= Cardinality(ReceivedOf(h)')
  <1>1. ReceivedOf(h) \subseteq ReceivedOf(h)'
    BY DEF ReceivedOf, Hour
  <1>2. IsFiniteSet(ReceivedOf(h)')
    BY FS_Subset DEF ReceivedOf
  <1>3. /\ Cardinality(ReceivedOf(h)) <= Cardinality(ReceivedOf(h)')
        /\ Cardinality(ReceivedOf(h)') \in Nat
    BY <1>1, <1>2, FS_Subset, FS_CardinalityType
  <1> QED
    BY <1>3, ReceivedFinite DEF Backed

\* The day's whole hours are in the range that is computed and counted, and
\* all of their events lie in the day.
LEMMA WholeHourInRange ==
  ASSUME StateInv, NEW h \in WholeHours
  PROVE  /\ h \in HourRange(request)
         /\ ReceivedOf(h) = EventsOf(held, request, h) \cup EventsOf(retired, request, h)
  <1>1. /\ h \in Nat /\ h \in Hours
        /\ SlotsPerHour \in Nat /\ SlotsPerHour > 0
        /\ h * SlotsPerHour >= request.start
        /\ (h + 1) * SlotsPerHour <= request.end
        /\ request.start \in Nat /\ request.end \in Nat
    BY DayAssumption DEF WholeHours, Hours, StateInv
  <1>2. (h + 1) * SlotsPerHour = h * SlotsPerHour + SlotsPerHour /\ h * SlotsPerHour \in Nat
    BY <1>1
  <1>3. h * SlotsPerHour < request.end
    BY <1>1, <1>2
  <1>4. Hour(request.start) <= h
    <2>1. Hour(request.start) \in Nat /\ Hour(request.start) * SlotsPerHour <= request.start
      BY <1>1 DEF Hour
    <2>2. SUFFICES ASSUME Hour(request.start) >= h + 1 PROVE FALSE
      BY <1>1, <2>1
    <2>3. Hour(request.start) * SlotsPerHour >= (h + 1) * SlotsPerHour
      BY <1>1, <2>1, <2>2
    <2> QED
      BY <1>1, <1>2, <2>1, <2>3
  <1>5. h \in HourRange(request)
    BY <1>1, <1>3, <1>4 DEF HourRange
  <1>6. ASSUME NEW e \in Received, Hour(e.slot) = h
        PROVE  request.start <= e.slot /\ e.slot < request.end
    <2>1. e.slot \in Nat
      <3>1. e \in Event
        BY DEF StateInv, Received
      <3>2. Times \subseteq Nat
        BY DayAssumption DEF Slots
      <3> QED
        BY <3>1, <3>2 DEF Event
    <2>2. h * SlotsPerHour <= e.slot /\ e.slot < h * SlotsPerHour + SlotsPerHour
      BY <1>1, <1>6, <2>1 DEF Hour
    <2> QED
      BY <1>1, <1>2, <2>1, <2>2
  <1> QED
    BY <1>5, <1>6 DEF EventsOf, ReceivedOf, Received

-----------------------------------------------------------------------------
(* The steps.                                                               *)

LEMMA InitInv == Init => IndInv
  <1> SUFFICES ASSUME Init PROVE IndInv
    OBVIOUS
  <1>1. request = NoRequest /\ reply = NoReply /\ held = {} /\ retired = {}
    BY DEF Init
  <1>2. /\ NoRequest.start = 0 /\ NoRequest.end = 0 /\ NoRequest.asked = "gaps"
        /\ NoRequest.todo = <<"idle">> /\ NoRequest.read = {}
    BY DEF NoRequest
  <1>3. <<"idle">> \in Seq(Statements)
    BY DEF Statements
  <1> QED
    BY <1>1, <1>2, <1>3, FS_EmptySet DEF IndInv, StateInv

\* The fields that the steps of a request leave as they are.
SameDay ==
    /\ DOMAIN request' = DOMAIN request
    /\ request'.start = request.start /\ request'.end = request.end
    /\ request'.asked = request.asked
    /\ request'.who = request.who /\ request'.min = request.min

LEMMA DayStays ==
  ASSUME SameDay
  PROVE  WholeHours' = WholeHours
  BY DEF SameDay, WholeHours, Hours

LEMMA Taken ==
  ASSUME StateInv, Running,
         Continue \/ ContinueUnread \/ ContinueAfterRows \/ ReadEvents \/ RollUp
  PROVE  /\ SameDay
         /\ request'.todo = Tail(request.todo)
         /\ request'.read \subseteq Received
         /\ request'.todo \in Seq(Statements)
  <1>1. {"who", "asked", "start", "end", "min", "todo", "read", "rolled", "computed"}
           \subseteq DOMAIN request
    <2>1. {"who", "asked", "start", "end", "min", "todo", "read", "rolled", "computed"}
             \subseteq DOMAIN NoRequest
      BY DEF NoRequest
    <2> QED
      BY <2>1 DEF StateInv
  <1>2. Tail(request.todo) \in Seq(Statements)
    BY Shortened DEF StateInv, Running, Answered
  <1>3. request.read \subseteq Received
    BY DEF StateInv
  <1>4. CASE Continue
    BY <1>1, <1>2, <1>3, <1>4 DEF Continue, SameDay
  <1>5. CASE ContinueUnread
    BY <1>1, <1>2, <1>3, <1>5 DEF ContinueUnread, SameDay
  <1>6. CASE ContinueAfterRows
    BY <1>1, <1>2, <1>3, <1>6 DEF ContinueAfterRows, SameDay
  <1>7. CASE ReadEvents
    BY <1>1, <1>2, <1>3, <1>7 DEF ReadEvents, SameDay, Received
  <1>8. CASE RollUp
    BY <1>1, <1>2, <1>3, <1>8 DEF RollUp, SameDay
  <1> QED
    BY <1>4, <1>5, <1>6, <1>7, <1>8

LEMMA ComputedFirst ==
  ASSUME StateInv, ComputeFirst
  PROVE  /\ SameDay
         /\ request'.todo = Compute \o request.todo
         /\ request'.read \subseteq Received
         /\ request'.todo \in Seq(Statements)
  <1>1. {"who", "asked", "start", "end", "min", "todo", "read", "computed"}
           \subseteq DOMAIN request
    <2>1. {"who", "asked", "start", "end", "min", "todo", "read", "computed"}
             \subseteq DOMAIN NoRequest
      BY DEF NoRequest
    <2> QED
      BY <2>1 DEF StateInv
  <1>2. Compute \o request.todo \in Seq(Statements)
    <2>1. Compute \in Seq(Statements)
      BY DEF Compute, Statements
    <2> QED
      BY <2>1, Joined DEF StateInv
  <1> QED
    BY <1>1, <1>2 DEF ComputeFirst, SameDay, StateInv

LEMMA Begun ==
  ASSUME NEW who, NEW asked, NEW w, NEW min, NEW todo, Begin(who, asked, w, min, todo)
  PROVE  /\ DOMAIN request' = DOMAIN NoRequest
         /\ request'.who = who /\ request'.asked = asked /\ request'.min = min
         /\ request'.start = w.start /\ request'.end = w.end
         /\ request'.todo = todo /\ request'.read = {}
  BY DEF Begin, NoRequest

\* Statements taken from the request in progress.
Statement ==
    \/ ReadEvents \/ UpsertCoverage \/ UpsertFeatures \/ RollUp \/ UpsertDaily
    \/ ReadHourly \/ ReadRows \/ CountEvents \/ ReadDaily
    \/ Summarise \/ ListGaps

LEMMA TakenByStatement ==
  ASSUME StateInv, Statement
  PROVE  /\ Running
         /\ SameDay
         /\ request'.todo = Tail(request.todo)
         /\ request'.read \subseteq Received
         /\ request'.todo \in Seq(Statements)
         /\ held' = held /\ retired' = retired
  <1>1. Running
    BY DEF Statement, ReadEvents, UpsertCoverage, UpsertFeatures, RollUp, UpsertDaily,
           ReadHourly, ReadRows, CountEvents, ReadDaily, Summarise, ListGaps, At
  <1>2. Continue \/ ContinueUnread \/ ContinueAfterRows \/ ReadEvents \/ RollUp
    BY DEF Statement, UpsertCoverage, UpsertFeatures, UpsertDaily,
           ReadHourly, ReadRows, CountEvents, ReadDaily, Summarise, ListGaps
  <1>3. held' = held /\ retired' = retired
    BY DEF Statement, ReadEvents, UpsertCoverage, UpsertFeatures, RollUp, UpsertDaily,
           ReadHourly, ReadRows, CountEvents, ReadDaily, Summarise, ListGaps
  <1> QED
    BY <1>1, <1>2, <1>3, Taken

\* The windows asked for are of natural numbers.
LEMMA AskedWindows ==
  ASSUME AskTimeline \/ AskCoverage \/ AskGaps
  PROVE  /\ request'.start \in Nat /\ request'.end \in Nat
         /\ request'.todo \in Seq(Statements)
         /\ request'.asked = "timeline" => request'.todo = TimelineSteps
         /\ DOMAIN request' = DOMAIN NoRequest
         /\ request'.read = {}
         /\ UNCHANGED <<held, retired, rows, hourly, daily, reply, updates>>
  <1>1. CASE AskTimeline
    <2>1. PICK who \in Who, day \in Days : \E end \in DayEnds(who, day) :
             Begin(who, "timeline", [start |-> day.start, end |-> end], 1, TimelineSteps)
      BY <1>1 DEF AskTimeline
    <2>2. PICK end \in DayEnds(who, day) :
             Begin(who, "timeline", [start |-> day.start, end |-> end], 1, TimelineSteps)
      BY <2>1
    <2>3. day.start \in Nat /\ end \in Nat
      <3>1. day.start \in Nat /\ day.end \in Nat /\ RollUpLength \in Nat
        BY DayAssumption DEF Slots
      <3> QED
        BY <3>1 DEF DayEnds
    <2>4. UNCHANGED <<held, retired, rows, hourly, daily, reply, updates>>
      BY <2>2 DEF Begin
    <2> QED
      BY <2>2, <2>3, <2>4, Begun, StepsOfTimeline
  <1>2. CASE AskCoverage
    <2>1. PICK who \in Who, w \in Windows : Begin(who, "coverage", w, 1, CoverageSteps(who))
      BY <1>2 DEF AskCoverage
    <2>2. w.start \in Nat /\ w.end \in Nat
      BY DayAssumption
    <2>3. CoverageSteps(who) \in Seq(Statements)
      <3>1. /\ <<"summary", "gaps">> \in Seq(Statements)
            /\ <<"summary", "rows">> \in Seq(Statements)
        BY DEF Statements
      <3> QED
        BY <3>1 DEF CoverageSteps
    <2>4. UNCHANGED <<held, retired, rows, hourly, daily, reply, updates>>
      BY <2>1 DEF Begin
    <2> QED
      BY <2>1, <2>2, <2>3, <2>4, Begun
  <1>3. CASE AskGaps
    <2>1. PICK w \in Windows, min \in MinHours : Begin("tool", "gaps", w, min, GapSteps)
      BY <1>3 DEF AskGaps
    <2>2. w.start \in Nat /\ w.end \in Nat
      BY DayAssumption
    <2>3. GapSteps \in Seq(Statements)
      BY DEF GapSteps, Statements
    <2>4. UNCHANGED <<held, retired, rows, hourly, daily, reply, updates>>
      BY <2>1 DEF Begin
    <2> QED
      BY <2>1, <2>2, <2>3, <2>4, Begun
  <1> QED
    BY <1>1, <1>2, <1>3

LEMMA StateStep == StateInv /\ [Next]_vars => StateInv'
  <1> SUFFICES ASSUME StateInv, [Next]_vars PROVE StateInv'
    OBVIOUS
  <1> USE DEF StateInv
  <1>0. /\ DOMAIN NoRequest' = DOMAIN NoRequest /\ DOMAIN NoReply' = DOMAIN NoReply
        /\ Event' = Event /\ Statements' = Statements
    BY DEF NoRequest, NoReply, Event, Statements
  <1>1. CASE Ingest
    <2>1. PICK e \in Event \ held : held' = held \cup {e} /\ retired' = retired
      BY <1>1 DEF Ingest
    <2>2. IsFiniteSet(held')
      BY <2>1, FS_AddElement
    <2> QED
      BY <1>0, <1>1, <2>1, <2>2 DEF Ingest, Received
  <1>2. CASE Update
    BY <1>0, <1>2 DEF Update, Received
  <1>2a. CASE ApplyRetention
    <2>1. PICK cutoff \in Slots :
             LET old == {e \in held : e.slot < cutoff}
             IN  held' = held \ old /\ retired' = retired \cup old
      BY <1>2a DEF ApplyRetention
    <2> DEFINE old == {e \in held : e.slot < cutoff}
    <2>2. old \subseteq held /\ held' = held \ old /\ retired' = retired \cup old
      BY <2>1
    <2> HIDE DEF old
    <2>3. IsFiniteSet(held') /\ IsFiniteSet(retired')
      <3>1. IsFiniteSet(old) /\ held' \subseteq held
        BY <2>2, FS_Subset
      <3> QED
        BY <2>2, <3>1, FS_Subset, FS_Union
    <2>4. Received' = Received
      BY <2>2 DEF Received
    <2>5. UNCHANGED <<request, reply>>
      BY <1>2a DEF ApplyRetention
    <2> QED
      BY <1>0, <2>2, <2>3, <2>4, <2>5
  <1>3. CASE AskTimeline \/ AskCoverage \/ AskGaps
    BY <1>0, <1>3, AskedWindows
  <1>4. CASE Statement
    <2>1. DOMAIN reply' = DOMAIN reply
      BY <1>4 DEF Statement, ReadEvents, UpsertCoverage, UpsertFeatures, RollUp, UpsertDaily,
             ReadHourly, ReadRows, CountEvents, ReadDaily, Summarise, ListGaps
    <2> QED
      BY <1>0, <1>4, <2>1, TakenByStatement DEF SameDay, Received
  <1>5. CASE ComputeFirst
    <2>1. held' = held /\ retired' = retired /\ reply' = reply
      BY <1>5 DEF ComputeFirst
    <2> QED
      BY <1>0, <1>5, <2>1, ComputedFirst DEF SameDay, Received
  <1>6. CASE Done \/ UNCHANGED vars
    BY <1>0, <1>6 DEF Done, vars, Received
  <1> QED
    BY <1>1, <1>2, <1>2a, <1>3, <1>4, <1>5, <1>6 DEF Next, Statement

\* New events and the app's maintenance disturb nothing a timeline relies on.
LEMMA OthersKeepBlocks ==
  ASSUME StateInv, OrderInv, BlocksInv, Ingest \/ Update \/ ApplyRetention
  PROVE  OrderInv' /\ BlocksInv'
  <1>1. /\ request' = request /\ reply' = reply
        /\ Received \subseteq Received' /\ retired \subseteq retired'
    BY DEF Ingest, Update, ApplyRetention, Received
  <1>2. IsFiniteSet(Received') /\ IsFiniteSet(retired')
    <2>1. [Next]_vars
      BY DEF Next
    <2> QED
      BY <2>1, StateStep, FS_Union DEF StateInv, Received
  <1>3. WholeHours' = WholeHours /\ Left' = Left
    BY <1>1 DEF WholeHours, Hours, Left
  <1>4. ASSUME NEW n, NEW h, Backed(n, h)
        PROVE  n \in Nat /\ n <= Cardinality(ReceivedOf(h)')
    BY <1>1, <1>2, <1>4, BackedStays
  <1>5. OrderInv'
    BY <1>1, <1>3, SameSteps DEF OrderInv
  <1>6. RowsBacked => RowsBacked'
    <2> SUFFICES ASSUME RowsBacked, NEW h \in WholeHours, h \in DOMAIN rows'
                 PROVE  Backed(rows[h], h)'
      BY <1>3 DEF RowsBacked
    <2>1. CASE rows' = rows
      BY <1>4, <2>1 DEF RowsBacked, Backed
    <2>2. CASE rows' = Upsert(rows, CoverageRows(held, All)) /\ held' = held /\ retired' = retired
      <3>1. CASE h \in HourRange(All)
        <4>1. rows'[h] = Cardinality(EventsOf(held, All, h))
          BY <2>2, <3>1 DEF Upsert, CoverageRows
        <4>2. Backed(rows'[h], h)
          BY <4>1, ReadBacked DEF Received
        <4> QED
          BY <1>4, <4>2 DEF Backed
      <3>2. CASE h \notin HourRange(All)
        <4>1. h \in DOMAIN rows /\ rows'[h] = rows[h]
          BY <2>2, <3>2 DEF Upsert, CoverageRows
        <4> QED
          BY <1>4, <4>1 DEF RowsBacked, Backed
      <3> QED
        BY <3>1, <3>2
    <2> QED
      BY <2>1, <2>2 DEF Ingest, Update, ApplyRetention
  <1>7. FeaturesBacked => FeaturesBacked'
    <2> SUFFICES ASSUME FeaturesBacked, NEW h \in WholeHours, h \in DOMAIN hourly'
                 PROVE  Backed(hourly[h].total, h)'
      BY <1>3 DEF FeaturesBacked
    <2>1. CASE hourly' = hourly
      BY <1>4, <2>1 DEF FeaturesBacked, Backed
    <2>2. CASE /\ hourly' = Upsert(hourly, FeatureRows(held, All))
               /\ held' = held /\ retired' = retired
      <3>1. CASE h \in HourRange(All)
        <4>1. hourly'[h] = HourFeatures(EventsOf(held, All, h))
          BY <2>2, <3>1 DEF Upsert, FeatureRows
        <4>2. hourly'[h].total = Cardinality(EventsOf(held, All, h))
          BY <4>1 DEF HourFeatures
        <4>3. Backed(hourly'[h].total, h)
          BY <4>2, ReadBacked DEF Received
        <4> QED
          BY <1>4, <4>3 DEF Backed
      <3>2. CASE h \notin HourRange(All)
        <4>1. h \in DOMAIN hourly /\ hourly'[h] = hourly[h]
          BY <2>2, <3>2 DEF Upsert, FeatureRows
        <4> QED
          BY <1>4, <4>1 DEF FeaturesBacked, Backed
      <3> QED
        BY <3>1, <3>2
    <2> QED
      BY <2>1, <2>2 DEF Ingest, Update, ApplyRetention
  <1>8. ReplyFeaturesBacked => ReplyFeaturesBacked'
    BY <1>1, <1>3, <1>4 DEF ReplyFeaturesBacked, Backed
  <1>9. ReplyRowsBacked => ReplyRowsBacked'
    BY <1>1, <1>3, <1>4 DEF ReplyRowsBacked, Backed
  <1>10. (Counted' <=> Counted) /\ (CountsCover => CountsCover')
    <2>1. Counted' <=> Counted
      BY <1>1, <1>3 DEF Counted
    <2>2. ASSUME NEW n, NEW h, Borne(n, h)
          PROVE  /\ n \in Nat /\ reply.counts[h] \in Nat
                 /\ n <= reply.counts[h] + Cardinality(EventsOf(retired, request, h)')
      <3>1. EventsOf(retired, request, h) \subseteq EventsOf(retired, request, h)'
        BY <1>1 DEF EventsOf, Hour
      <3>2. IsFiniteSet(EventsOf(retired, request, h)')
        BY <1>2, FS_Subset DEF EventsOf
      <3>3. /\ Cardinality(EventsOf(retired, request, h)) \in Nat
            /\ Cardinality(EventsOf(retired, request, h)') \in Nat
            /\ Cardinality(EventsOf(retired, request, h))
                 <= Cardinality(EventsOf(retired, request, h)')
        BY <3>1, <3>2, FS_Subset, FS_CardinalityType
      <3> QED
        BY <2>2, <3>3 DEF Borne
    <2>3. \A n, h : Borne(n, h) => Borne(n, h)'
      BY <1>1, <2>2 DEF Borne
    <2> QED
      BY <1>1, <1>3, <2>1, <2>3 DEF CountsCover
  <1> QED
    BY <1>3, <1>5, <1>6, <1>7, <1>8, <1>9, <1>10 DEF BlocksInv

\* The counts cover the same blocks while none of the reply's changes.
LEMMA CoverStays ==
  ASSUME CountsCover, SameDay, retired' = retired,
         reply'.hourly = reply.hourly, reply'.rows = reply.rows,
         reply'.counts = reply.counts
  PROVE  CountsCover'
  <1>1. WholeHours' = WholeHours
    BY DayStays
  <1>2. \A h : EventsOf(retired, request, h)' = EventsOf(retired, request, h)
    BY DEF SameDay, EventsOf, Hour
  <1>3. \A n, h : Borne(n, h)' <=> Borne(n, h)
    BY <1>2 DEF Borne
  <1> QED
    BY <1>1, <1>3 DEF CountsCover

\* A statement that leaves the tables and the blocks of the reply alone.
LEMMA QuietStatement ==
  ASSUME StateInv, BlocksInv, held' = held /\ retired' = retired,
         rows' = rows, hourly' = hourly, SameDay,
         reply'.hourly = reply.hourly, reply'.rows = reply.rows,
         reply'.counts = reply.counts, Left \in 1..12, Left' = Left - 1,
         Left \notin {11, 9, 6, 5}, Left = 4 => request.todo[1] # "counts"
  PROVE  BlocksInv'
  <1>1. WholeHours' = WholeHours
    BY DayStays
  <1>2. \A n, h : Backed(n, h)' <=> Backed(n, h)
    BY DEF Backed, ReceivedOf, Received, Hour
  <1>3. /\ RowsBacked' <=> RowsBacked
        /\ FeaturesBacked' <=> FeaturesBacked
        /\ ReplyFeaturesBacked' <=> ReplyFeaturesBacked
        /\ ReplyRowsBacked' <=> ReplyRowsBacked
        /\ CountsCover => CountsCover'
    BY <1>1, <1>2, CoverStays
       DEF RowsBacked, FeaturesBacked, ReplyFeaturesBacked, ReplyRowsBacked
  <1>4. /\ Left' <= 10 => Left <= 10
        /\ Left' <= 8 => Left <= 8
        /\ Left' <= 5 => Left <= 5
        /\ Left' <= 4 => Left <= 4
    OBVIOUS
  <1>5. Counted' => Counted
    <2>1. Left' <= 4 => Left <= 4
      OBVIOUS
    <2>2. Counted' => Left' <= 4
      BY DEF Counted
    <2>3. Left <= 4 => Left < 4 \/ Left = 4
      OBVIOUS
    <2> QED
      BY <2>1, <2>2, <2>3 DEF Counted
  <1> QED
    BY <1>3, <1>4, <1>5 DEF BlocksInv

LEMMA StatementsKeepBlocks ==
  ASSUME StateInv, OrderInv, BlocksInv, Statement
  PROVE  OrderInv' /\ BlocksInv'
  <1>1. Running /\ SameDay /\ held' = held /\ retired' = retired
    BY TakenByStatement
  <1>2. OrderInv' /\ Left' = Left - 1 /\ Left \in 1..12
    BY TakenByStatement, OrderAfterStatement, NextStatement
  <1>3. Head(request.todo) = request.todo[1]
    BY <1>1, Shortened DEF StateInv, Running, Answered
  <1>4. WholeHours' = WholeHours
    BY <1>1, DayStays
  <1>5. \A n, h : Backed(n, h)' <=> Backed(n, h)
    BY <1>1 DEF Backed, ReceivedOf, Received, Hour
  <1>6. request.read \subseteq Received
    BY DEF StateInv
  <1>7. CASE ReadEvents \/ RollUp \/ UpsertDaily \/ ReadDaily \/ Summarise \/ ListGaps
    <2>1. /\ rows' = rows /\ hourly' = hourly
          /\ reply'.hourly = reply.hourly /\ reply'.rows = reply.rows
          /\ reply'.counts = reply.counts
      <3>1. {"hourly", "rows", "counts", "daily", "summary", "gaps"} \subseteq DOMAIN reply
        <4>1. {"hourly", "rows", "counts", "daily", "summary", "gaps"}
                 \subseteq DOMAIN NoReply
          BY DEF NoReply
        <4> QED
          BY <4>1 DEF StateInv
      <3> QED
        BY <1>7, <3>1 DEF ReadEvents, RollUp, UpsertDaily, ReadDaily, Summarise, ListGaps
    <2>2. At("events") \/ At("roll_up") \/ At("upsert_daily") \/ At("daily")
          \/ At("summary") \/ At("gaps")
      BY <1>7 DEF ReadEvents, RollUp, UpsertDaily, ReadDaily, Summarise, ListGaps
    <2>3. Left \notin {11, 9, 6, 5}
      BY <1>1, <1>2, <2>2, NextStatement
    <2>4. request.todo[1] # "counts"
      BY <1>3, <2>2 DEF At
    <2> QED
      BY <1>1, <1>2, <2>1, <2>3, <2>4, QuietStatement
  <1>8. /\ rows' = rows => (RowsBacked => RowsBacked')
        /\ hourly' = hourly => (FeaturesBacked => FeaturesBacked')
        /\ reply' = reply =>
              /\ ReplyFeaturesBacked => ReplyFeaturesBacked'
              /\ ReplyRowsBacked => ReplyRowsBacked'
              /\ CountsCover => CountsCover'
    BY <1>1, <1>4, <1>5, CoverStays
       DEF RowsBacked, FeaturesBacked, ReplyFeaturesBacked, ReplyRowsBacked
  <1>9. /\ Counted' => Left' <= 4
        /\ Left <= 4 /\ request.todo[1] # "counts" => Counted
    BY <1>2 DEF Counted
  <1>10. CASE UpsertCoverage
    <2>1. /\ rows' = Upsert(rows, CoverageRows(request.read, request))
          /\ hourly' = hourly /\ reply' = reply
      BY <1>10 DEF UpsertCoverage
    <2>2. At("coverage") /\ request.todo[1] = "coverage"
      BY <1>3, <1>10 DEF UpsertCoverage, At
    <2>3. Left = 11 \/ Left <= 4
      BY <1>1, <2>2, NextStatement
    <2>4. RowsBacked'
      <3>1. ASSUME NEW h \in WholeHours, h \in DOMAIN rows'
            PROVE  Backed(rows'[h], h)
        <4>1. h \in HourRange(request)
          BY WholeHourInRange
        <4>2. rows'[h] = Cardinality(EventsOf(request.read, request, h))
          BY <2>1, <4>1 DEF Upsert, CoverageRows
        <4> QED
          BY <1>6, <4>2, ReadBacked
      <3> QED
        BY <1>1, <1>4, <3>1 DEF RowsBacked, Backed, ReceivedOf, Received, Hour
    <2>5. CASE Left = 11
      <3>1. ~(Left' <= 8) /\ ~(Left' <= 5) /\ ~(Left' <= 4)
        BY <1>2, <2>5
      <3> QED
        BY <1>2, <1>9, <2>4, <3>1, Zenon DEF BlocksInv
    <2>6. CASE Left <= 4
      <3>1. Left <= 10 /\ Left <= 8 /\ Left <= 5 /\ Counted
        BY <1>2, <1>9, <2>2, <2>6
      <3> QED
        BY <1>2, <1>8, <2>1, <2>4, <2>6, <3>1, Zenon DEF BlocksInv
    <2> QED
      BY <1>2, <2>3, <2>5, <2>6
  <1>11. CASE UpsertFeatures
    <2>1. /\ hourly' = Upsert(hourly, FeatureRows(request.read, request))
          /\ rows' = rows /\ reply' = reply
      BY <1>11 DEF UpsertFeatures
    <2>2. Left = 9 /\ Left' = 8
      BY <1>1, <1>2, <1>11, NextStatement DEF UpsertFeatures
    <2>3. FeaturesBacked'
      <3>1. ASSUME NEW h \in WholeHours, h \in DOMAIN hourly'
            PROVE  Backed(hourly'[h].total, h)
        <4>1. h \in HourRange(request)
          BY WholeHourInRange
        <4>2. hourly'[h] = HourFeatures(EventsOf(request.read, request, h))
          BY <2>1, <4>1 DEF Upsert, FeatureRows
        <4>3. hourly'[h].total = Cardinality(EventsOf(request.read, request, h))
          BY <4>2 DEF HourFeatures
        <4> QED
          BY <1>6, <4>3, ReadBacked
      <3> QED
        BY <1>1, <1>4, <3>1 DEF FeaturesBacked, Backed, ReceivedOf, Received, Hour
    <2>4. Left <= 10 /\ ~(Left' <= 5) /\ ~(Left' <= 4)
      BY <2>2
    <2> QED
      BY <1>2, <1>8, <1>9, <2>1, <2>3, <2>4, Zenon DEF BlocksInv
  <1>12. /\ DOMAIN reply = DOMAIN NoReply
         /\ {"hourly", "rows", "counts"} \subseteq DOMAIN NoReply
    BY DEF StateInv, NoReply
  <1>13. CASE ReadHourly
    <2>1. /\ reply'.hourly = [h \in StoredIn(hourly, request) |-> hourly[h]]
          /\ rows' = rows /\ hourly' = hourly
      BY <1>12, <1>13 DEF ReadHourly
    <2>2. Left = 6 /\ Left' = 5
      BY <1>1, <1>2, <1>13, NextStatement DEF ReadHourly
    <2>3. RowsBacked /\ FeaturesBacked
      BY <2>2 DEF BlocksInv
    <2>4. ReplyFeaturesBacked'
      <3>1. ASSUME NEW h \in WholeHours, h \in DOMAIN reply'.hourly
            PROVE  Backed(reply'.hourly[h].total, h)
        BY <2>1, <2>3, <3>1 DEF FeaturesBacked, StoredIn
      <3> QED
        BY <1>1, <1>4, <3>1 DEF ReplyFeaturesBacked, Backed, ReceivedOf, Received, Hour
    <2> QED
      BY <1>2, <1>8, <1>9, <2>1, <2>2, <2>3, <2>4 DEF BlocksInv
  <1>14. CASE ReadRows
    <2>1. /\ reply'.rows = [h \in StoredIn(rows, request) |-> rows[h]]
          /\ reply'.hourly = reply.hourly
          /\ rows' = rows /\ hourly' = hourly
      BY <1>12, <1>14 DEF ReadRows
    <2>2. At("rows") /\ Left = 5 /\ Left' = 4
      BY <1>1, <1>2, <1>14, NextStatement DEF ReadRows
    <2>3. RowsBacked /\ FeaturesBacked /\ ReplyFeaturesBacked
      BY <2>2 DEF BlocksInv
    <2>4. ReplyRowsBacked'
      <3>1. ASSUME NEW h \in WholeHours, h \in DOMAIN reply'.rows
            PROVE  Backed(reply'.rows[h], h)
        BY <2>1, <2>3, <3>1 DEF RowsBacked, StoredIn
      <3> QED
        BY <1>1, <1>4, <3>1 DEF ReplyRowsBacked, Backed, ReceivedOf, Received, Hour
    <2>5. ReplyFeaturesBacked'
      BY <1>4, <1>5, <2>1, <2>3 DEF ReplyFeaturesBacked
    <2>6. ~Counted'
      <3>1. request'.todo[1] = request.todo[2]
        <4>1. request'.todo = Tail(request.todo) /\ request.todo \in Seq(Statements)
              /\ request.todo # <<>> /\ Len(request.todo) = 5
          BY <1>1, <2>2, TakenByStatement DEF StateInv, Running, Answered, Left
        <4>2. 1 \in 1..(Len(request.todo) - 1) /\ 1 + 1 = 2
          BY <4>1
        <4> QED
          BY <4>1, <4>2, Shortened
      <3>2. 2 \in 1..Left /\ 12 - Left + 2 = 9 /\ ~(Left <= 4)
        BY <2>2
      <3>3. request.todo[2] = TimelineSteps[12 - Left + 2]
        BY <3>2 DEF OrderInv
      <3>4. request.todo[2] = "counts"
        BY <3>2, <3>3, StepsOfTimeline
      <3> QED
        BY <2>2, <3>1, <3>4 DEF Counted
    <2> QED
      BY <1>2, <1>8, <2>1, <2>3, <2>4, <2>5, <2>6, Zenon DEF BlocksInv
  <1>15. CASE CountEvents
    <2>1. /\ reply'.counts = CoverageRows(held, request)
          /\ reply'.hourly = reply.hourly /\ reply'.rows = reply.rows
          /\ rows' = rows /\ hourly' = hourly
      BY <1>12, <1>15 DEF CountEvents
    <2>2. Left = 4 /\ Left' = 3
      BY <1>1, <1>2, <1>15, NextStatement DEF CountEvents
    <2>3. RowsBacked /\ FeaturesBacked /\ ReplyFeaturesBacked /\ ReplyRowsBacked
      BY <2>2 DEF BlocksInv
    <2>4. ReplyFeaturesBacked' /\ ReplyRowsBacked'
      BY <1>4, <1>5, <2>1, <2>3 DEF ReplyFeaturesBacked, ReplyRowsBacked
    <2>5. CountsCover'
      <3>1. ASSUME NEW h \in WholeHours, NEW n, Backed(n, h)
            PROVE  Borne(n, h)'
        <4>1. reply'.counts[h] = Cardinality(EventsOf(held, request, h))
          BY <2>1, WholeHourInRange DEF CoverageRows
        <4> DEFINE left == EventsOf(held, request, h)
                   gone == EventsOf(retired, request, h)
        <4>2. /\ IsFiniteSet(left) /\ Cardinality(left) \in Nat
              /\ IsFiniteSet(gone) /\ Cardinality(gone) \in Nat
          BY EventsFinite DEF StateInv
        <4>3. gone' = gone
          BY <1>1 DEF SameDay, EventsOf, Hour
        <4>4. ReceivedOf(h) = left \cup gone
          BY WholeHourInRange
        <4> HIDE DEF left, gone
        <4>5. Cardinality(left \cup gone) <= Cardinality(left) + Cardinality(gone)
          <5>1. /\ Cardinality(left \cup gone)
                     = Cardinality(left) + Cardinality(gone) - Cardinality(left \cap gone)
                /\ IsFiniteSet(left \cap gone)
            BY <4>2, FS_Union, FS_Intersection
          <5>2. Cardinality(left \cap gone) \in Nat
            BY <5>1, FS_CardinalityType
          <5> QED
            BY <4>2, <5>1, <5>2
        <4>6. n \in Nat /\ n <= Cardinality(left \cup gone) /\ Cardinality(left \cup gone) \in Nat
          BY <3>1, <4>4, ReceivedFinite DEF Backed
        <4>7. n <= Cardinality(left) + Cardinality(gone)
          BY <4>2, <4>5, <4>6
        <4>8. n <= reply'.counts[h] + Cardinality(gone') /\ reply'.counts[h] \in Nat
          BY <4>1, <4>2, <4>3, <4>7 DEF left
        <4> QED
          BY <4>6, <4>8 DEF Borne, gone
      <3> QED
        BY <1>4, <2>1, <2>3, <3>1
           DEF CountsCover, ReplyFeaturesBacked, ReplyRowsBacked
    <2> QED
      BY <1>2, <1>8, <2>1, <2>3, <2>4, <2>5, Zenon DEF BlocksInv
  <1> QED
    BY <1>2, <1>7, <1>10, <1>11, <1>13, <1>14, <1>15 DEF Statement

\* Computing the rows once more, for the summary or the gaps, changes nothing yet.
LEMMA ComputeFirstKeepsBlocks ==
  ASSUME StateInv, OrderInv, BlocksInv, ComputeFirst
  PROVE  OrderInv' /\ BlocksInv'
  <1>1. /\ Running /\ SameDay /\ held' = held /\ retired' = retired
        /\ rows' = rows /\ hourly' = hourly /\ reply' = reply
    BY ComputedFirst DEF ComputeFirst, At
  <1>2. Left \in 1..2
    BY <1>1, NextStatement DEF ComputeFirst
  <1>3. OrderInv' /\ Left' = Left + 2
    BY <1>1, <1>2, ComputedFirst, OrderAfterComputeFirst
  <1>4. /\ RowsBacked /\ FeaturesBacked /\ ReplyFeaturesBacked
        /\ ReplyRowsBacked /\ CountsCover
    BY <1>2 DEF BlocksInv, Counted
  <1>5. WholeHours' = WholeHours
    BY <1>1, DayStays
  <1>6. \A n, h : Backed(n, h)' <=> Backed(n, h)
    BY <1>1 DEF Backed, ReceivedOf, Received, Hour
  <1>7. /\ RowsBacked' /\ FeaturesBacked' /\ ReplyFeaturesBacked'
        /\ ReplyRowsBacked' /\ CountsCover'
    BY <1>1, <1>4, <1>5, <1>6, CoverStays
       DEF RowsBacked, FeaturesBacked, ReplyFeaturesBacked, ReplyRowsBacked
  <1> QED
    BY <1>3, <1>7 DEF BlocksInv

-----------------------------------------------------------------------------
(* The types of the state, and the gaps.                                    *)

\* Who asks for what, with which length of gaps.
AskInv == request.who \in Who /\ request.asked \in Asked /\ request.min \in Nat

LEMMA AskStep ==
  ASSUME StateInv, AskInv, [Next]_vars
  PROVE  AskInv'
  <1> USE DEF AskInv
  <1>0. Who' = Who /\ Asked' = Asked
    BY DEF Who, Asked
  <1>1. CASE AskTimeline
    <2>1. PICK who, w : who \in Who /\ Begin(who, "timeline", w, 1, TimelineSteps)
      BY <1>1 DEF AskTimeline
    <2> QED
      BY <1>0, <2>1, Begun DEF Asked
  <1>2. CASE AskCoverage
    <2>1. PICK who \in Who, w \in Windows : Begin(who, "coverage", w, 1, CoverageSteps(who))
      BY <1>2 DEF AskCoverage
    <2> QED
      BY <1>0, <2>1, Begun DEF Asked
  <1>3. CASE AskGaps
    <2>1. PICK w \in Windows, min \in MinHours : Begin("tool", "gaps", w, min, GapSteps)
      BY <1>3 DEF AskGaps
    <2>2. min \in Nat
      BY DayAssumption
    <2> QED
      BY <1>0, <2>1, <2>2, Begun DEF Asked, Who
  <1>4. CASE Statement
    BY <1>0, <1>4, TakenByStatement DEF SameDay
  <1>5. CASE ComputeFirst
    BY <1>0, <1>5, ComputedFirst DEF SameDay
  <1>6. CASE Ingest \/ Update \/ ApplyRetention \/ Done \/ UNCHANGED vars
    BY <1>0, <1>6 DEF Ingest, Update, ApplyRetention, Done, vars
  <1> QED
    BY <1>1, <1>2, <1>3, <1>4, <1>5, <1>6 DEF Next, Statement

\* Rows and features replaced by new ones of the same kind.
LEMMA Upserted ==
  ASSUME NEW table, NEW new, NEW V,
         DOMAIN table \subseteq Hours, \A h \in DOMAIN table : table[h] \in V,
         DOMAIN new \subseteq Hours, \A h \in DOMAIN new : new[h] \in V
  PROVE  /\ DOMAIN Upsert(table, new) \subseteq Hours
         /\ \A h \in DOMAIN Upsert(table, new) : Upsert(table, new)[h] \in V
  BY DEF Upsert

LEMMA NewRows ==
  ASSUME NEW E, IsFiniteSet(E), NEW w
  PROVE  /\ DOMAIN CoverageRows(E, w) \subseteq Hours
         /\ \A h \in DOMAIN CoverageRows(E, w) : CoverageRows(E, w)[h] \in Nat
         /\ DOMAIN FeatureRows(E, w) \subseteq Hours
         /\ \A h \in DOMAIN FeatureRows(E, w) : FeatureRows(E, w)[h] \in Feature
  <1>1. HourRange(w) \subseteq Hours
    BY DEF HourRange
  <1>2. \A h : IsFiniteSet(EventsOf(E, w, h))
    BY FS_Subset DEF EventsOf
  <1>3. \A h : Cardinality(EventsOf(E, w, h)) \in Nat
    BY <1>2, FS_CardinalityType
  <1>4. \A h : HourFeatures(EventsOf(E, w, h)) \in Feature
    BY <1>2, FeaturesTyped
  <1> QED
    BY <1>1, <1>3, <1>4 DEF CoverageRows, FeatureRows

RowsTyped == DOMAIN rows \subseteq Hours /\ \A h \in DOMAIN rows : rows[h] \in Nat
FeaturesOfHours ==
    DOMAIN hourly \subseteq Hours /\ \A h \in DOMAIN hourly : hourly[h] \in Feature
DailiesTyped ==
    daily \subseteq Daily /\ request.rolled \subseteq Daily /\ reply.daily \subseteq Daily

LEMMA TablesStep ==
  ASSUME StateInv, RowsTyped, FeaturesOfHours, [Next]_vars
  PROVE  RowsTyped' /\ FeaturesOfHours'
  <1>0. Hours' = Hours /\ Feature' = Feature
    BY DEF Hours, Feature, Value
  <1>1. /\ IsFiniteSet(held) /\ IsFiniteSet(request.read)
    BY FS_Subset, FS_Union DEF StateInv, Received
  <1>2. ASSUME NEW E, IsFiniteSet(E), NEW w, rows' = Upsert(rows, CoverageRows(E, w))
        PROVE  RowsTyped'
    BY <1>0, <1>2, NewRows, Upserted DEF RowsTyped
  <1>3. ASSUME NEW E, IsFiniteSet(E), NEW w, hourly' = Upsert(hourly, FeatureRows(E, w))
        PROVE  FeaturesOfHours'
    BY <1>0, <1>3, NewRows, Upserted DEF FeaturesOfHours
  <1>4. RowsTyped'
    <2>1. CASE rows' = rows
      BY <1>0, <2>1 DEF RowsTyped
    <2>2. CASE rows' = Upsert(rows, CoverageRows(held, All))
      BY <1>1, <1>2, <2>2
    <2>3. CASE rows' = Upsert(rows, CoverageRows(request.read, request))
      BY <1>1, <1>2, <2>3
    <2> QED
      BY <2>1, <2>2, <2>3
         DEF Next, vars, Ingest, Update, ApplyRetention,
             AskTimeline, AskCoverage, AskGaps, Begin, ReadEvents,
             UpsertCoverage, UpsertFeatures, RollUp, UpsertDaily, ReadHourly, ReadRows,
             CountEvents, ReadDaily, ComputeFirst, Summarise, ListGaps, Done
  <1>5. FeaturesOfHours'
    <2>1. CASE hourly' = hourly
      BY <1>0, <2>1 DEF FeaturesOfHours
    <2>2. CASE hourly' = Upsert(hourly, FeatureRows(held, All))
      BY <1>1, <1>3, <2>2
    <2>3. CASE hourly' = Upsert(hourly, FeatureRows(request.read, request))
      BY <1>1, <1>3, <2>3
    <2> QED
      BY <2>1, <2>2, <2>3
         DEF Next, vars, Ingest, Update, ApplyRetention,
             AskTimeline, AskCoverage, AskGaps, Begin, ReadEvents,
             UpsertCoverage, UpsertFeatures, RollUp, UpsertDaily, ReadHourly, ReadRows,
             CountEvents, ReadDaily, ComputeFirst, Summarise, ListGaps, Done
  <1> QED
    BY <1>4, <1>5

LEMMA ReplyFields ==
  ASSUME StateInv
  PROVE  /\ {"hourly", "rows", "counts", "daily", "summary", "gaps"} \subseteq DOMAIN reply
         /\ {"who", "asked", "start", "end", "min", "todo", "read", "rolled", "computed"}
               \subseteq DOMAIN request
  <1>1. {"hourly", "rows", "counts", "daily", "summary", "gaps"} \subseteq DOMAIN NoReply
    BY DEF NoReply
  <1>2. {"who", "asked", "start", "end", "min", "todo", "read", "rolled", "computed"}
          \subseteq DOMAIN NoRequest
    BY DEF NoRequest
  <1> QED
    BY <1>1, <1>2 DEF StateInv

LEMMA DailiesStep ==
  ASSUME StateInv, FeaturesOfHours, DailiesTyped, [Next]_vars
  PROVE  DailiesTyped'
  <1>0. Daily' = Daily
    BY DEF Daily, Value
  <1>1. \A start : DayFeatures(start) \in Daily
    BY DailyTyped DEF FeaturesOfHours
  <1>2. daily' \subseteq Daily
    <2>1. CASE daily' = daily
      BY <2>1 DEF DailiesTyped
    <2>2. CASE daily' = request.rolled
      BY <2>2 DEF DailiesTyped
    <2>3. CASE daily' = {DayFeatures(request.start)}
      BY <1>1, <2>3
    <2> QED
      BY <2>1, <2>2, <2>3
         DEF Next, vars, Ingest, Update, ApplyRetention,
             AskTimeline, AskCoverage, AskGaps, Begin, ReadEvents,
             UpsertCoverage, UpsertFeatures, RollUp, UpsertDaily, ReadHourly, ReadRows,
             CountEvents, ReadDaily, ComputeFirst, Summarise, ListGaps, Done
  <1>3. request'.rolled \subseteq Daily
    <2>1. CASE request' = request
      BY <2>1 DEF DailiesTyped
    <2>2. ASSUME NEW who, NEW asked, NEW w, NEW min, NEW todo, Begin(who, asked, w, min, todo)
          PROVE  request'.rolled \subseteq Daily
      BY <2>2 DEF Begin
    <2>3. CASE \/ Continue \/ ContinueAfterRows \/ ReadEvents \/ ComputeFirst
      BY <2>3, ReplyFields DEF Continue, ContinueAfterRows, ReadEvents, ComputeFirst, DailiesTyped
    <2>4. CASE ContinueUnread
      BY <2>4, ReplyFields DEF ContinueUnread
    <2>5. CASE RollUp
      BY <1>1, <2>5, ReplyFields DEF RollUp
    <2> QED
      BY <2>1, <2>2, <2>3, <2>4, <2>5
         DEF Next, vars, Ingest, Update, ApplyRetention, AskTimeline, AskCoverage, AskGaps,
             UpsertCoverage, UpsertFeatures, UpsertDaily, ReadHourly, ReadRows,
             CountEvents, ReadDaily, Summarise, ListGaps, Done
  <1>4. reply'.daily \subseteq Daily
    <2>1. CASE reply' = reply
      BY <2>1 DEF DailiesTyped
    <2>2. CASE ReadDaily
      BY <2>2, ReplyFields DEF ReadDaily, DailiesTyped
    <2>3. CASE ReadHourly \/ ReadRows \/ CountEvents \/ Summarise \/ ListGaps
      BY <2>3, ReplyFields
         DEF ReadHourly, ReadRows, CountEvents, Summarise, ListGaps, DailiesTyped
    <2> QED
      BY <2>1, <2>2, <2>3
         DEF Next, vars, Ingest, Update, ApplyRetention,
             AskTimeline, AskCoverage, AskGaps, Begin, ReadEvents,
             UpsertCoverage, UpsertFeatures, RollUp, UpsertDaily, ComputeFirst, Done
  <1> QED
    BY <1>0, <1>2, <1>3, <1>4 DEF DailiesTyped

\* The gaps are the answer's last part, but for get_data_coverage.
ListsGaps == ~(request.asked = "coverage" /\ request.who = "tool")
EndsWithGaps == ListsGaps /\ ~Idle /\ ~Answered => request.todo[Left] = "gaps"

LEMMA LastStatement ==
  ASSUME StateInv, EndsWithGaps, ListsGaps, Running
  PROVE  /\ Left \in Nat \ {0}
         /\ request.todo[Left] = "gaps"
         /\ request'.todo = Tail(request.todo) =>
               \/ Left = 1 /\ Head(request.todo) = "gaps" /\ request'.todo = <<>>
               \/ Left > 1 /\ Left' = Left - 1 /\ request'.todo[Left'] = "gaps"
  <1>1. Left \in Nat \ {0} /\ Head(request.todo) = request.todo[1]
    BY Shortened DEF StateInv, Left, Running, Answered
  <1>2. request.todo[Left] = "gaps"
    BY DEF EndsWithGaps, Running
  <1>3. ASSUME request'.todo = Tail(request.todo), Left > 1
        PROVE  Left' = Left - 1 /\ request'.todo[Left'] = "gaps"
    <2>1. Left' = Left - 1 /\ \A i \in 1..(Left - 1) : request'.todo[i] = request.todo[i + 1]
      BY <1>3, Shortened DEF StateInv, Left, Running, Answered
    <2>2. Left - 1 \in 1..(Left - 1) /\ (Left - 1) + 1 = Left
      BY <1>1, <1>3
    <2>3. request'.todo[Left - 1] = request.todo[(Left - 1) + 1]
      BY <2>1, <2>2
    <2> QED
      BY <1>2, <2>1, <2>2, <2>3
  <1>4. ASSUME request'.todo = Tail(request.todo), Left = 1
        PROVE  Head(request.todo) = "gaps" /\ request'.todo = <<>>
    <2>1. Tail(request.todo) \in Seq(Statements) /\ Len(Tail(request.todo)) = 0
      BY <1>4, Shortened DEF StateInv, Left, Running, Answered
    <2> QED
      BY <1>1, <1>2, <1>4, <2>1, EmptySeq
  <1> QED
    BY <1>1, <1>2, <1>3, <1>4

LEMMA EndsWithGapsStep ==
  ASSUME StateInv, EndsWithGaps, [Next]_vars
  PROVE  EndsWithGaps'
  <1> SUFFICES ASSUME ListsGaps', ~Idle', ~Answered' PROVE request'.todo[Left'] = "gaps"
    BY DEF EndsWithGaps
  <1>1. CASE request' = request
    BY <1>1 DEF EndsWithGaps, Idle, Answered, Left, ListsGaps
  <1>2. CASE Statement \/ ComputeFirst
    <2>1. SameDay /\ Running
      BY <1>2, TakenByStatement, ComputedFirst DEF ComputeFirst, At
    <2>2. ListsGaps
      BY <2>1 DEF SameDay, ListsGaps
    <2>3. CASE Statement
      BY <2>1, <2>2, <2>3, LastStatement, TakenByStatement DEF Answered
    <2>4. CASE ComputeFirst
      <3>1. request.todo[Left] = "gaps" /\ Left \in Nat \ {0}
        BY <2>1, <2>2, LastStatement
      <3>2. Compute \in Seq(Statements) /\ Len(Compute) = 2
        BY DEF Compute, Statements
      <3> DEFINE joined == Compute \o request.todo
      <3>3. /\ Len(joined) = Len(Compute) + Left
            /\ \A i \in 1..(Len(Compute) + Left) :
                  joined[i] = IF i <= Len(Compute) THEN Compute[i]
                              ELSE request.todo[i - Len(Compute)]
        BY <3>2, Joined DEF StateInv, Left
      <3>4. request'.todo = joined
        BY <2>4, ComputedFirst
      <3> HIDE DEF joined
      <3>5. /\ Len(Compute) + Left \in 1..(Len(Compute) + Left)
            /\ ~(Len(Compute) + Left <= Len(Compute))
            /\ (Len(Compute) + Left) - Len(Compute) = Left
        BY <3>1, <3>2
      <3>6. joined[Len(Compute) + Left] = request.todo[(Len(Compute) + Left) - Len(Compute)]
        BY <3>3, <3>5
      <3>7. Left' = Len(Compute) + Left
        BY <3>3, <3>4 DEF Left
      <3> QED
        BY <3>1, <3>4, <3>5, <3>6, <3>7
    <2> QED
      BY <1>2, <2>3, <2>4
  <1>3. CASE AskTimeline
    <2>1. request'.todo = TimelineSteps
      <3>1. PICK who, w : Begin(who, "timeline", w, 1, TimelineSteps)
        BY <1>3 DEF AskTimeline
      <3> QED
        BY <3>1, Begun
    <2> QED
      BY <2>1, StepsOfTimeline DEF Left
  <1>4. CASE AskCoverage
    <2>1. PICK who \in Who, w \in Windows : Begin(who, "coverage", w, 1, CoverageSteps(who))
      BY <1>4 DEF AskCoverage
    <2>2. request'.who = who /\ request'.asked = "coverage" /\ request'.todo = CoverageSteps(who)
      BY <2>1, Begun
    <2>3. who = "app"
      BY <2>2 DEF ListsGaps, Who
    <2>4. request'.todo = <<"summary", "gaps">>
      BY <2>2, <2>3 DEF CoverageSteps
    <2> QED
      BY <2>4 DEF Left
  <1>5. CASE AskGaps
    <2>1. PICK w \in Windows, min \in MinHours : Begin("tool", "gaps", w, min, GapSteps)
      BY <1>5 DEF AskGaps
    <2>2. request'.todo = <<"gaps">>
      BY <2>1, Begun DEF GapSteps
    <2> QED
      BY <2>2 DEF Left
  <1> QED
    BY <1>1, <1>2, <1>3, <1>4, <1>5 DEF Next, Statement, Ingest, Update, ApplyRetention, Done, vars

LEMMA GapsStep ==
  ASSUME StateInv, RowsTyped, AskInv, EndsWithGaps, GapsAreMaximalRuns, [Next]_vars
  PROVE  GapsAreMaximalRuns'
  <1> SUFFICES ASSUME Answered', ListsGaps'
               PROVE  reply'.gaps = MaximalGaps(StoredIn(rows, request), request.min)'
    BY DEF GapsAreMaximalRuns, ListsGaps
  <1>1. ASSUME request' = request, rows' = rows
        PROVE  MaximalGaps(StoredIn(rows, request), request.min)'
                 = MaximalGaps(StoredIn(rows, request), request.min)
    BY <1>1 DEF MaximalGaps, StoredIn, MaximalRun, Unbroken, GapOf
  <1>2. CASE Ingest \/ Update \/ ApplyRetention
    <2>1. ~Answered /\ request' = request
      <3>1. request' = request /\ (Idle \/ Running)
        BY <1>2 DEF Ingest, Update, ApplyRetention
      <3>2. <<"idle">> # <<>>
        OBVIOUS
      <3> QED
        BY <3>1, <3>2 DEF Running, Idle, Answered
    <2> QED
      BY <2>1 DEF Answered
  <1>3. CASE AskTimeline \/ AskCoverage \/ AskGaps
    <2>1. request'.todo # <<>>
      <3>1. CASE AskTimeline
        <4>1. PICK who, w : Begin(who, "timeline", w, 1, TimelineSteps)
          BY <3>1 DEF AskTimeline
        <4>2. request'.todo = TimelineSteps
          BY <4>1, Begun
        <4>3. Len(TimelineSteps) = 12 /\ Len(<<>>) = 0
          BY StepsOfTimeline
        <4> QED
          BY <4>2, <4>3
      <3>2. CASE AskCoverage
        <4>1. PICK who, w : Begin(who, "coverage", w, 1, CoverageSteps(who))
          BY <3>2 DEF AskCoverage
        <4> QED
          BY <4>1, Begun DEF CoverageSteps
      <3>3. CASE AskGaps
        <4>1. PICK w, min : Begin("tool", "gaps", w, min, GapSteps)
          BY <3>3 DEF AskGaps
        <4> QED
          BY <4>1, Begun DEF GapSteps
      <3> QED
        BY <1>3, <3>1, <3>2, <3>3
    <2> QED
      BY <2>1 DEF Answered
  <1>4. CASE Statement
    <2>1. SameDay /\ Running /\ request'.todo = Tail(request.todo)
      BY <1>4, TakenByStatement
    <2>2. ListsGaps
      BY <2>1 DEF SameDay, ListsGaps
    <2>3. Head(request.todo) = "gaps"
      <3>1. Left > 1 /\ Left' = Left - 1 /\ Left \in Nat => request'.todo # <<>>
        BY DEF Left
      <3> QED
        BY <2>1, <2>2, <3>1, LastStatement DEF Answered
    <2>4. ListGaps
      BY <1>4, <2>3 DEF Statement, ReadEvents, UpsertCoverage, UpsertFeatures, RollUp,
             UpsertDaily, ReadHourly, ReadRows, CountEvents, ReadDaily, Summarise, At
    <2>5. rows' = rows /\ reply'.gaps = FindGaps(request, request.min)
      BY <2>4, ReplyFields DEF ListGaps
    <2>6. FindGaps(request, request.min) = MaximalGaps(StoredIn(rows, request), request.min)
      BY GapsFound DEF RowsTyped, AskInv
    <2>7. MaximalGaps(StoredIn(rows, request), request.min)'
            = MaximalGaps(StoredIn(rows, request), request.min)
      <3>1. StoredIn(rows, request)' = StoredIn(rows, request)
        BY <2>1, <2>5 DEF StoredIn, SameDay
      <3>2. request'.min = request.min
        BY <2>1 DEF SameDay
      <3>3. \A H, min : MaximalGaps(H, min)' = MaximalGaps(H, min)
        BY <2>5 DEF MaximalGaps, MaximalRun, Unbroken, GapOf
      <3> QED
        BY <3>1, <3>2, <3>3 DEF MaximalGaps
    <2> QED
      BY <2>5, <2>6, <2>7
  <1>5. CASE ComputeFirst
    <2>1. request'.todo # <<>>
      <3>1. request'.todo = Compute \o request.todo /\ request.todo \in Seq(Statements)
        BY <1>5, ComputedFirst DEF StateInv
      <3>2. Compute \in Seq(Statements) /\ Len(Compute) = 2
        BY DEF Compute, Statements
      <3>3. Len(Compute \o request.todo) = Len(Compute) + Len(request.todo)
            /\ Len(request.todo) \in Nat
        BY <3>1, <3>2, Joined
      <3> QED
        BY <3>1, <3>2, <3>3
    <2> QED
      BY <2>1 DEF Answered
  <1>6. CASE Done \/ UNCHANGED vars
    <2>1. request' = request /\ rows' = rows /\ reply' = reply
      BY <1>6 DEF Done, vars
    <2>2. Answered /\ ListsGaps
      BY <2>1 DEF Answered, ListsGaps
    <2> QED
      BY <1>1, <2>1, <2>2 DEF GapsAreMaximalRuns, ListsGaps
  <1> QED
    BY <1>2, <1>3, <1>4, <1>5, <1>6 DEF Next, Statement

LEMMA GapsTypedStep ==
  ASSUME StateInv, RowsTyped, AskInv, reply.gaps \subseteq Gap, [Next]_vars
  PROVE  reply'.gaps \subseteq Gap
  <1>1. CASE reply' = reply
    BY <1>1
  <1>2. CASE ListGaps
    <2>1. reply'.gaps = FindGaps(request, request.min)
      BY <1>2, ReplyFields DEF ListGaps
    <2> QED
      BY <2>1, GapsFound DEF RowsTyped, AskInv
  <1>3. CASE ReadHourly \/ ReadRows \/ CountEvents \/ ReadDaily \/ Summarise
    BY <1>3, ReplyFields DEF ReadHourly, ReadRows, CountEvents, ReadDaily, Summarise
  <1> QED
    BY <1>1, <1>2, <1>3
       DEF Next, vars, Ingest, Update, ApplyRetention,
             AskTimeline, AskCoverage, AskGaps, Begin, ReadEvents,
           UpsertCoverage, UpsertFeatures, RollUp, UpsertDaily, ComputeFirst, Done

TypesInv ==
    /\ StateInv
    /\ AskInv
    /\ RowsTyped
    /\ FeaturesOfHours
    /\ DailiesTyped
    /\ reply.gaps \subseteq Gap
    /\ updates \in 0..MaxUpdates

GapsInv == TypesInv /\ EndsWithGaps /\ GapsAreMaximalRuns

LEMMA InitGaps == Init => GapsInv
  <1> SUFFICES ASSUME Init PROVE GapsInv
    OBVIOUS
  <1>1. request = NoRequest /\ reply = NoReply /\ daily = {} /\ updates = 0
    BY DEF Init
  <1>2. StateInv
    BY InitInv DEF IndInv
  <1>3. AskInv
    BY <1>1 DEF AskInv, NoRequest, Who, Asked
  <1>4. PICK H \in SUBSET Hours : rows \in [H -> 0..1]
    BY DEF Init
  <1>5. RowsTyped
    BY <1>4 DEF RowsTyped
  <1>6. FeaturesOfHours
    <2> DEFINE past(h) == IF rows[h] = 0 THEN {}
                          ELSE {[slot |-> h * SlotsPerHour, kind |-> Heartbeat]}
    <2>1. hourly = [h \in DOMAIN rows |-> HourFeatures(past(h))]
      BY DEF Init
    <2>2. \A h : IsFiniteSet(past(h))
      BY FS_EmptySet, FS_Singleton
    <2>3. \A h : HourFeatures(past(h)) \in Feature
      <3> HIDE DEF past
      <3> QED
        BY <2>2, FeaturesTyped
    <2> HIDE DEF past
    <2> QED
      BY <1>4, <2>1, <2>3 DEF FeaturesOfHours
  <1>7. DailiesTyped
    <2>1. NoRequest.rolled = {} /\ NoReply.daily = {}
      BY DEF NoRequest, NoReply
    <2> QED
      BY <1>1, <2>1 DEF DailiesTyped
  <1>8. reply.gaps \subseteq Gap /\ updates \in 0..MaxUpdates
    BY <1>1, DayAssumption DEF NoReply
  <1>9. Idle /\ ~Answered
    <2>1. request.todo = <<"idle">>
      BY <1>1 DEF NoRequest
    <2> QED
      BY <2>1 DEF Idle, Answered
  <1> QED
    BY <1>2, <1>3, <1>5, <1>6, <1>7, <1>8, <1>9
       DEF GapsInv, TypesInv, EndsWithGaps, GapsAreMaximalRuns

LEMMA TypesStep ==
  ASSUME TypesInv, [Next]_vars
  PROVE  TypesInv'
  <1>0. Gap' = Gap
    BY DEF Gap, Hours
  <1>1. updates' \in 0..MaxUpdates
    BY DayAssumption
       DEF TypesInv, Next, vars, Ingest, Update, ApplyRetention,
           AskTimeline, AskCoverage, AskGaps, Begin,
           ReadEvents, UpsertCoverage, UpsertFeatures, RollUp, UpsertDaily, ReadHourly,
           ReadRows, CountEvents, ReadDaily, ComputeFirst, Summarise, ListGaps, Done
  <1> QED
    BY <1>0, <1>1, StateStep, AskStep, TablesStep, DailiesStep, GapsTypedStep DEF TypesInv

-----------------------------------------------------------------------------
(* The app's timeline: nothing comes between its statements.                *)

AppDay == request.who = "app" /\ request.asked = "timeline"

\* The statements left from the n-th on are the last ones of a timeline.
OrderedFrom(n) == \A i \in n..Left : request.todo[i] = TimelineSteps[12 - Left + i]
InOrder == OrderedFrom(1)

\* All the statements left are, or the rows are being computed once more.
Shape ==
    /\ Left <= 12
    /\ \/ InOrder
       \/ /\ Left \in 3..4
          /\ request.todo[1] = "events" /\ request.todo[2] = "coverage"
          /\ OrderedFrom(3)
       \/ Left \in 2..3 /\ request.todo[1] = "coverage" /\ OrderedFrom(2)

LEMMA ShapeNext ==
  ASSUME StateInv, Shape, Running
  PROVE  /\ Left \in 1..12
         /\ At("events") => IF InOrder THEN Left \in {12, 10} ELSE Left \in 3..4
         /\ At("coverage") => IF InOrder THEN Left = 11 ELSE Left \in 2..3
         /\ At("features") => InOrder /\ Left = 9
         /\ At("roll_up") => InOrder /\ Left = 8
         /\ At("upsert_daily") => InOrder /\ Left = 7
         /\ At("hourly") => InOrder /\ Left = 6
         /\ At("rows") => InOrder /\ Left = 5
         /\ At("counts") => InOrder /\ Left = 4
         /\ At("daily") => InOrder /\ Left = 3
         /\ At("summary") => InOrder /\ Left = 2
         /\ At("gaps") => InOrder /\ Left = 1
  <1>1. Left \in Nat \ {0} /\ Head(request.todo) = request.todo[1]
    BY Shortened DEF StateInv, Left, Running, Answered
  <1>2. Left \in 1..12
    BY <1>1 DEF Shape
  <1>3. \/ Left = 12 \/ Left = 11 \/ Left = 10 \/ Left = 9 \/ Left = 8 \/ Left = 7
        \/ Left = 6 \/ Left = 5 \/ Left = 4 \/ Left = 3 \/ Left = 2 \/ Left = 1
    BY <1>2
  <1>4. CASE InOrder
    <2>1. 1 \in 1..Left /\ 12 - Left + 1 = 13 - Left
      BY <1>2
    <2>2. Head(request.todo) = TimelineSteps[13 - Left]
      BY <1>1, <1>4, <2>1 DEF InOrder, OrderedFrom
    <2> DEFINE next == Head(request.todo)
    <2>3. /\ Left = 12 => next = "events"
          /\ Left = 11 => next = "coverage"
          /\ Left = 10 => next = "events"
          /\ Left = 9 => next = "features"
          /\ Left = 8 => next = "roll_up"
          /\ Left = 7 => next = "upsert_daily"
          /\ Left = 6 => next = "hourly"
          /\ Left = 5 => next = "rows"
          /\ Left = 4 => next = "counts"
          /\ Left = 3 => next = "daily"
          /\ Left = 2 => next = "summary"
          /\ Left = 1 => next = "gaps"
      BY <2>2, StepsOfTimeline
    <2>4. /\ At("events") => next = "events"
          /\ At("coverage") => next = "coverage"
          /\ At("features") => next = "features"
          /\ At("roll_up") => next = "roll_up"
          /\ At("upsert_daily") => next = "upsert_daily"
          /\ At("hourly") => next = "hourly"
          /\ At("rows") => next = "rows"
          /\ At("counts") => next = "counts"
          /\ At("daily") => next = "daily"
          /\ At("summary") => next = "summary"
          /\ At("gaps") => next = "gaps"
      BY DEF At
    <2> HIDE DEF next
    <2>5. At("events") => Left \in {12, 10}
      BY <1>3, <2>3, <2>4
    <2>6. At("coverage") => Left = 11
      BY <1>3, <2>3, <2>4
    <2>7. At("features") => Left = 9
      BY <1>3, <2>3, <2>4
    <2>8. At("roll_up") => Left = 8
      BY <1>3, <2>3, <2>4
    <2>9. At("upsert_daily") => Left = 7
      BY <1>3, <2>3, <2>4
    <2>10. At("hourly") => Left = 6
      BY <1>3, <2>3, <2>4
    <2>11. At("rows") => Left = 5
      BY <1>3, <2>3, <2>4
    <2>12. At("counts") => Left = 4
      BY <1>3, <2>3, <2>4
    <2>13. At("daily") => Left = 3
      BY <1>3, <2>3, <2>4
    <2>14. At("summary") => Left = 2
      BY <1>3, <2>3, <2>4
    <2>15. At("gaps") => Left = 1
      BY <1>3, <2>3, <2>4
    <2> QED
      BY <1>2, <1>4, <2>5, <2>6, <2>7, <2>8, <2>9, <2>10, <2>11, <2>12, <2>13, <2>14, <2>15
  <1>5. CASE ~InOrder
    <2>1. \/ Left \in 3..4 /\ Head(request.todo) = "events"
          \/ Left \in 2..3 /\ Head(request.todo) = "coverage"
      BY <1>1, <1>5 DEF Shape
    <2> QED
      BY <1>2, <1>5, <2>1 DEF At
  <1> QED
    BY <1>4, <1>5

LEMMA ShapeAfterStatement ==
  ASSUME StateInv, Shape, Running, request'.todo = Tail(request.todo)
  PROVE  /\ Shape' /\ Left' = Left - 1
         /\ InOrder => InOrder'
         /\ At("coverage") => InOrder'
         /\ At("coverage")' \/ At("features")' => At("events")
  <1>1. Left \in 1..12 /\ Head(request.todo) = request.todo[1]
    BY ShapeNext, Shortened DEF StateInv, Running, Answered
  <1>2. Left' = Left - 1 /\ request'.todo \in Seq(Statements)
    BY Shortened DEF StateInv, Left, Running, Answered
  <1>3. \A i \in 1..(Left - 1) : request'.todo[i] = request.todo[i + 1]
    BY Shortened DEF StateInv, Left, Running, Answered
  <1>4. ASSUME NEW m \in 1..2, OrderedFrom(m + 1) \/ OrderedFrom(m)
        PROVE  OrderedFrom(m)'
    <2> SUFFICES ASSUME NEW i \in m..Left'
                 PROVE  request'.todo[i] = TimelineSteps[12 - Left' + i]
      BY SameSteps DEF OrderedFrom
    <2>1. i \in 1..(Left - 1) /\ i + 1 \in (m + 1)..Left /\ i + 1 \in m..Left
          /\ 12 - Left + (i + 1) = 12 - Left' + i
      BY <1>1, <1>2
    <2>2. request.todo[i + 1] = TimelineSteps[12 - Left + (i + 1)]
      BY <1>4, <2>1 DEF OrderedFrom
    <2> QED
      BY <1>3, <2>1, <2>2
  <1>5. InOrder => InOrder'
    <2>1. OrderedFrom(1) => OrderedFrom(1)'
      BY <1>4
    <2> QED
      BY <2>1 DEF InOrder
  <1>6. Shape' /\ (At("coverage") => InOrder')
    <2>1. Left' <= 12
      BY <1>1, <1>2
    <2>2. CASE InOrder
      BY <1>5, <2>1, <2>2 DEF Shape
    <2>3. CASE /\ Left \in 3..4
               /\ request.todo[1] = "events" /\ request.todo[2] = "coverage"
               /\ OrderedFrom(3)
      <3>1. OrderedFrom(2)'
        <4>1. 2 + 1 = 3 /\ 2 \in 1..2
          OBVIOUS
        <4> QED
          BY <1>4, <2>3, <4>1
      <3>2. 1 \in 1..(Left - 1) /\ 1 + 1 = 2
        BY <2>3
      <3>3. request'.todo[1] = "coverage"
        BY <1>3, <2>3, <3>2
      <3>4. Left' \in 2..3
        BY <1>2, <2>3
      <3>5. ~At("coverage")
        BY <1>1, <2>3 DEF At
      <3> QED
        BY <2>1, <3>1, <3>3, <3>4, <3>5 DEF Shape
    <2>4. CASE Left \in 2..3 /\ request.todo[1] = "coverage" /\ OrderedFrom(2)
      <3>1. OrderedFrom(1)'
        <4>1. 1 + 1 = 2 /\ 1 \in 1..2
          OBVIOUS
        <4> QED
          BY <1>4, <2>4, <4>1
      <3> QED
        BY <2>1, <3>1 DEF Shape, InOrder
    <2> QED
      BY <2>2, <2>3, <2>4 DEF Shape
  <1>7. At("coverage")' \/ At("features")' => At("events")
    <2> SUFFICES ASSUME At("coverage")' \/ At("features")' PROVE At("events")
      OBVIOUS
    <2>1. request'.todo # <<>> /\ Head(request'.todo) \in {"coverage", "features"}
      BY DEF At, Running, Answered
    <2>2. Left' \in Nat \ {0} /\ Head(request'.todo) = request'.todo[1]
      BY <1>2, <2>1, Shortened DEF Left
    <2>3. Left \in 2..12 /\ 1 \in 1..(Left - 1) /\ 1 + 1 = 2
      BY <1>1, <1>2, <2>2
    <2>4. request.todo[2] \in {"coverage", "features"}
      BY <1>3, <2>1, <2>2, <2>3
    <2>5. CASE InOrder
      <3>1. 2 \in 1..Left /\ 12 - Left + 2 = 14 - Left
            /\ 1 \in 1..Left /\ 12 - Left + 1 = 13 - Left
        BY <2>3
      <3>2. request.todo[2] = TimelineSteps[14 - Left]
            /\ request.todo[1] = TimelineSteps[13 - Left]
        BY <2>5, <3>1 DEF InOrder, OrderedFrom
      <3>3. \/ Left = 12 \/ Left = 11 \/ Left = 10 \/ Left = 9 \/ Left = 8 \/ Left = 7
            \/ Left = 6 \/ Left = 5 \/ Left = 4 \/ Left = 3 \/ Left = 2
        BY <2>3
      <3>4. request.todo[1] = "events"
        BY <2>4, <3>2, <3>3, StepsOfTimeline
      <3> QED
        BY <1>1, <3>4 DEF At
    <2>6. CASE request.todo[1] = "events"
      BY <1>1, <2>6 DEF At
    <2>7. CASE Left \in 2..3 /\ request.todo[1] = "coverage" /\ OrderedFrom(2)
      <3>1. 2 \in 2..Left /\ 12 - Left + 2 = 14 - Left /\ (Left = 2 \/ Left = 3)
        BY <2>7
      <3>2. request.todo[2] = TimelineSteps[14 - Left]
        BY <2>7, <3>1 DEF OrderedFrom
      <3> QED
        BY <2>4, <3>1, <3>2, StepsOfTimeline
    <2> QED
      BY <2>5, <2>6, <2>7 DEF Shape
  <1> QED
    BY <1>2, <1>5, <1>6, <1>7

LEMMA ShapeAfterComputeFirst ==
  ASSUME StateInv, Shape, ComputeFirst
  PROVE  Shape' /\ Left <= 2 /\ Left' = Left + 2 /\ At("events")'
  <1>1. Running /\ (At("summary") \/ At("gaps"))
    BY DEF ComputeFirst, At
  <1>2. InOrder /\ Left \in 1..2
    BY <1>1, ShapeNext
  <1>3. /\ Compute \in Seq(Statements) /\ Len(Compute) = 2
        /\ Compute[1] = "events" /\ Compute[2] = "coverage"
    BY DEF Compute, Statements
  <1> DEFINE joined == Compute \o request.todo
  <1>4. /\ joined \in Seq(Statements)
        /\ Len(joined) = Len(Compute) + Left
        /\ \A i \in 1..(Len(Compute) + Left) :
              joined[i] = IF i <= Len(Compute) THEN Compute[i] ELSE request.todo[i - Len(Compute)]
    BY <1>3, Joined DEF StateInv, Left
  <1>5. request'.todo = joined
    BY ComputedFirst
  <1> HIDE DEF joined
  <1>6. Left' = Left + 2
    BY <1>2, <1>3, <1>4, <1>5 DEF Left
  <1>7. request'.todo[1] = "events" /\ request'.todo[2] = "coverage"
    <2>1. 1 \in 1..(Len(Compute) + Left) /\ 1 <= Len(Compute)
          /\ 2 \in 1..(Len(Compute) + Left) /\ 2 <= Len(Compute)
      BY <1>2, <1>3
    <2> QED
      BY <1>3, <1>4, <1>5, <2>1
  <1>8. OrderedFrom(3)'
    <2> SUFFICES ASSUME NEW i \in 3..Left'
                 PROVE  request'.todo[i] = TimelineSteps[12 - Left' + i]
      BY SameSteps DEF OrderedFrom
    <2>1. /\ i - 2 \in 1..Left /\ 12 - Left + (i - 2) = 12 - Left' + i
          /\ i \in 1..(Len(Compute) + Left) /\ ~(i <= Len(Compute))
          /\ i - Len(Compute) = i - 2
      BY <1>2, <1>3, <1>6
    <2>2. request'.todo[i] = request.todo[i - 2]
      BY <1>4, <1>5, <2>1
    <2>3. request.todo[i - 2] = TimelineSteps[12 - Left + (i - 2)]
      BY <1>2, <2>1 DEF InOrder, OrderedFrom
    <2> QED
      BY <2>1, <2>2, <2>3
  <1>9. Left' \in 3..4 /\ Left' <= 12
    BY <1>2, <1>6
  <1>10. At("events")'
    <2>1. request'.todo # <<>>
      <3> SUFFICES ASSUME request'.todo = <<>> PROVE FALSE
        OBVIOUS
      <3>1. Left' = 0
        BY DEF Left
      <3> QED
        BY <1>9, <3>1
    <2>2. Head(request'.todo) = "events"
      BY <1>4, <1>5, <1>7, <2>1, Shortened
    <2>3. request'.todo # <<"idle">>
      <3>1. Len(<<"idle">>) = 1
        OBVIOUS
      <3> QED
        BY <1>9, <3>1 DEF Left
    <2> QED
      BY <2>1, <2>2, <2>3 DEF At, Running, Idle, Answered
  <1> QED
    BY <1>2, <1>6, <1>7, <1>8, <1>9, <1>10 DEF Shape

\* What raw_events holds of each hour computed, in the tables of derived rows.
RowsCurrent ==
    \A h \in HourRange(request) :
        h \in DOMAIN rows /\ rows[h] = Cardinality(EventsOf(held, request, h))
FeaturesCurrent ==
    \A h \in HourRange(request) :
        h \in DOMAIN hourly /\ hourly[h] = HourFeatures(EventsOf(held, request, h))

\* The daily features of the reply have been read.
DailyRead == Left <= 2 \/ ~InOrder

\* The day is one of 24 whole hours.
WholeDay == Aligned(request.start) /\ request.end = request.start + RollUpLength

Today == {DayFeatures(request.start)}

DayFields == request.min = 1 /\ request.start \in Slots
ReadIsHeld == At("coverage") \/ At("features") => request.read = held
DailyCurrent ==
    /\ Left = 7 => request.rolled = Today
    /\ Left <= 6 => daily = Today
    /\ DailyRead => reply.daily = Today
SummaryCurrent ==
    WholeDay => InOrder /\ (Left <= 1 => reply.summary = Summary(request))

\* What each step of the app's timeline finds as the ones before it left it.
DayInv ==
    /\ Shape
    /\ DayFields
    /\ ReadIsHeld
    /\ Left <= 10 => RowsCurrent
    /\ Left <= 8 => FeaturesCurrent
    /\ DailyCurrent
    /\ SummaryCurrent

\* What a statement leaves as it was while it changes something else.
LEMMA UntouchedByStatement ==
  ASSUME SameDay, held' = held
  PROVE  /\ rows' = rows => (RowsCurrent => RowsCurrent') /\ Summary(request)' = Summary(request)
         /\ hourly' = hourly => (FeaturesCurrent => FeaturesCurrent') /\ Today' = Today
         /\ DayFields => DayFields'
         /\ WholeDay' <=> WholeDay
         /\ HourRange(request)' = HourRange(request)
         /\ \A h : EventsOf(held, request, h)' = EventsOf(held, request, h)
  <1>1. HourRange(request)' = HourRange(request)
    BY DEF SameDay, HourRange, Hours, Hour
  <1>2. \A h : EventsOf(held, request, h)' = EventsOf(held, request, h)
    BY DEF SameDay, EventsOf, Hour
  <1>3. ASSUME rows' = rows
        PROVE  (RowsCurrent => RowsCurrent') /\ Summary(request)' = Summary(request)
    <2>1. RowsCurrent => RowsCurrent'
      BY <1>1, <1>2, <1>3 DEF RowsCurrent
    <2>2. StoredIn(rows, request)' = StoredIn(rows, request)
      BY <1>3 DEF SameDay, StoredIn
    <2> QED
      BY <1>3, <2>1, <2>2 DEF Summary
  <1>4. ASSUME hourly' = hourly
        PROVE  (FeaturesCurrent => FeaturesCurrent') /\ Today' = Today
    <2>1. FeaturesCurrent => FeaturesCurrent'
      <3>1. \A h : HourFeatures(EventsOf(held, request, h))'
                    = HourFeatures(EventsOf(held, request, h))
        BY <1>2
      <3> QED
        BY <1>1, <1>4, <3>1 DEF FeaturesCurrent
    <2>2. Today' = Today
      BY <1>4 DEF Today, DayFeatures, RolledUpHours, SameDay, Mean
    <2> QED
      BY <2>1, <2>2
  <1>5. DayFields => DayFields'
    BY DEF DayFields, SameDay, Slots
  <1>6. WholeDay' <=> WholeDay
    BY DEF WholeDay, SameDay, Aligned
  <1> QED
    BY <1>1, <1>2, <1>3, <1>4, <1>5, <1>6

\* The conjuncts that no statement but one or two can disturb.
LEMMA StatementKeepsDay ==
  ASSUME StateInv, DayInv, Statement
  PROVE  /\ Shape' /\ DayFields'
         /\ Left \in 1..12 /\ Left' = Left - 1
         /\ InOrder => InOrder'
         /\ ReadEvents \/ ReadIsHeld'
         /\ DailyRead' => \/ DailyRead /\ ~At("daily")
                          \/ Left = 3 /\ InOrder /\ At("daily")
  <1>1. Running /\ SameDay /\ held' = held /\ request'.todo = Tail(request.todo)
    BY TakenByStatement
  <1>2. Shape
    BY DEF DayInv
  <1>3. /\ Shape' /\ Left' = Left - 1 /\ (InOrder => InOrder')
        /\ At("coverage") => InOrder'
        /\ At("coverage")' \/ At("features")' => At("events")
    BY <1>1, <1>2, ShapeAfterStatement
  <1>4. /\ Left \in 1..12
        /\ At("daily") => InOrder /\ Left = 3
    BY <1>1, <1>2, ShapeNext
  <1>5. DayFields'
    BY <1>1, UntouchedByStatement DEF DayInv
  <1>6. ReadEvents \/ ReadIsHeld'
    <2>1. At("events") => ReadEvents
      BY DEF Statement, ReadEvents, UpsertCoverage, UpsertFeatures, RollUp, UpsertDaily,
             ReadHourly, ReadRows, CountEvents, ReadDaily, Summarise, ListGaps, At
    <2> QED
      BY <1>3, <2>1 DEF ReadIsHeld
  <1>7. ASSUME DailyRead'
        PROVE  \/ DailyRead /\ ~At("daily")
               \/ Left = 3 /\ InOrder /\ At("daily")
    <2>1. CASE ~InOrder
      BY <1>4, <2>1 DEF DailyRead
    <2>2. CASE InOrder
      <3>1. Left' <= 2
        BY <1>3, <1>7, <2>2 DEF DailyRead
      <3>2. Left <= 3
        BY <1>3, <1>4, <3>1
      <3>3. CASE Left = 3
        <4>1. 1 \in 1..Left /\ 12 - Left + 1 = 10
          BY <3>3
        <4>2. request.todo[1] = "daily"
          BY <2>2, <4>1, StepsOfTimeline DEF InOrder, OrderedFrom
        <4>3. Head(request.todo) = request.todo[1]
          BY <1>1, Shortened DEF StateInv, Running, Answered
        <4> QED
          BY <1>1, <2>2, <3>3, <4>2, <4>3 DEF At
      <3>4. CASE Left # 3
        <4>1. Left <= 2
          BY <1>4, <3>2, <3>4
        <4> QED
          BY <1>4, <3>4, <4>1 DEF DailyRead
      <3> QED
        BY <3>3, <3>4
    <2> QED
      BY <2>1, <2>2
  <1> QED
    BY <1>3, <1>4, <1>5, <1>6, <1>7

LEMMA StatementKeepsDayInv ==
  ASSUME StateInv, DayInv, Statement
  PROVE  DayInv'
  <1> USE DEF DayInv
  <1>1. Running /\ SameDay /\ held' = held
    BY TakenByStatement
  <1>2. /\ Shape' /\ DayFields' /\ Left \in 1..12 /\ Left' = Left - 1
        /\ InOrder => InOrder'
        /\ ReadEvents \/ ReadIsHeld'
    BY StatementKeepsDay
  <1>3. DailyRead' => \/ DailyRead /\ ~At("daily")
                      \/ Left = 3 /\ InOrder /\ At("daily")
    BY StatementKeepsDay
  <1>4. /\ rows' = rows => (RowsCurrent => RowsCurrent') /\ Summary(request)' = Summary(request)
        /\ hourly' = hourly => (FeaturesCurrent => FeaturesCurrent') /\ Today' = Today
        /\ WholeDay' <=> WholeDay
    BY <1>1, UntouchedByStatement
  <1>5. CASE ReadEvents
    <2>1. /\ request'.read = held /\ request'.rolled = request.rolled
          /\ rows' = rows /\ hourly' = hourly /\ daily' = daily /\ reply' = reply
      BY <1>5, ReplyFields DEF ReadEvents
    <2>2. IF InOrder THEN Left \in {12, 10} ELSE Left \in 3..4
      BY <1>1, <1>5, ShapeNext DEF ReadEvents
    <2>3. /\ Left' <= 10 => Left <= 10
          /\ Left' <= 8 => Left <= 8
          /\ Left' # 7
          /\ Left' <= 6 => Left <= 6
          /\ InOrder => ~(Left' <= 1)
      BY <1>2, <2>2
    <2>4. ~At("daily")
      BY <1>5 DEF ReadEvents, At
    <2>5. DailyCurrent'
      BY <1>3, <1>4, <2>1, <2>3, <2>4 DEF DailyCurrent
    <2>6. SummaryCurrent'
      BY <1>2, <1>4, <2>3 DEF SummaryCurrent
    <2>7. ReadIsHeld'
      BY <1>1, <2>1 DEF ReadIsHeld
    <2> QED
      BY <1>2, <1>4, <2>1, <2>3, <2>5, <2>6, <2>7
  <1>6. CASE UpsertCoverage
    <2>1. /\ rows' = Upsert(rows, CoverageRows(request.read, request))
          /\ hourly' = hourly /\ daily' = daily /\ reply' = reply
          /\ At("coverage")
      BY <1>6 DEF UpsertCoverage
    <2>2. IF InOrder THEN Left = 11 ELSE Left \in 2..3
      BY <1>1, <2>1, ShapeNext
    <2>3. /\ Left' <= 8 => Left <= 8
          /\ Left' # 7
          /\ Left' <= 6 => Left <= 6
          /\ InOrder => ~(Left' <= 1)
      BY <1>2, <2>2
    <2>4. ~At("daily")
      BY <2>1 DEF At
    <2>5. DailyCurrent'
      BY <1>3, <1>4, <2>1, <2>3, <2>4 DEF DailyCurrent
    <2>6. SummaryCurrent'
      BY <1>2, <1>4, <2>3 DEF SummaryCurrent
    <2>7. RowsCurrent'
      <3>1. request.read = held
        BY <2>1 DEF ReadIsHeld
      <3>2. \A h \in HourRange(request) :
               h \in DOMAIN rows' /\ rows'[h] = Cardinality(EventsOf(held, request, h))
        BY <2>1, <3>1 DEF Upsert, CoverageRows
      <3> QED
        BY <1>1, <3>2, UntouchedByStatement DEF RowsCurrent
    <2> QED
      BY <1>2, <1>4, <1>6, <2>1, <2>3, <2>4, <2>5, <2>6, <2>7 DEF ReadEvents, At
  <1>7. CASE UpsertFeatures
    <2>1. /\ hourly' = Upsert(hourly, FeatureRows(request.read, request))
          /\ rows' = rows /\ daily' = daily /\ reply' = reply
          /\ At("features")
      BY <1>7 DEF UpsertFeatures
    <2>2. Left = 9 /\ Left' = 8 /\ InOrder'
      BY <1>1, <1>2, <2>1, ShapeNext
    <2>3. FeaturesCurrent'
      <3>1. request.read = held
        BY <2>1 DEF ReadIsHeld
      <3>2. \A h \in HourRange(request) :
               h \in DOMAIN hourly' /\ hourly'[h] = HourFeatures(EventsOf(held, request, h))
        BY <2>1, <3>1 DEF Upsert, FeatureRows
      <3>3. \A h : HourFeatures(EventsOf(held, request, h))'
                     = HourFeatures(EventsOf(held, request, h))
        BY <1>1, UntouchedByStatement
      <3>4. HourRange(request)' = HourRange(request)
        BY <1>1, UntouchedByStatement
      <3> QED
        BY <3>2, <3>3, <3>4 DEF FeaturesCurrent
    <2>4. Left' # 7 /\ ~(Left' <= 6) /\ ~(Left' <= 2) /\ ~(Left' <= 1) /\ Left <= 10
      BY <2>2
    <2>5. DailyCurrent'
      BY <2>2, <2>4 DEF DailyCurrent, DailyRead
    <2>6. SummaryCurrent'
      BY <2>2, <2>4 DEF SummaryCurrent
    <2>7. ~At("events")
      BY <2>1 DEF At
    <2> QED
      BY <1>2, <1>4, <2>1, <2>3, <2>4, <2>5, <2>6, <2>7 DEF ReadEvents
  <1>8. CASE RollUp
    <2>1. /\ request'.rolled = Today
          /\ rows' = rows /\ hourly' = hourly /\ daily' = daily /\ reply' = reply
          /\ At("roll_up")
      BY <1>8, ReplyFields DEF RollUp, Today
    <2>2. Left = 8 /\ Left' = 7 /\ InOrder'
      BY <1>1, <1>2, <2>1, ShapeNext
    <2>3. ~(Left' <= 6) /\ ~(Left' <= 2) /\ ~(Left' <= 1) /\ Left <= 10 /\ Left <= 8
      BY <2>2
    <2>4. DailyCurrent'
      BY <1>4, <2>1, <2>2, <2>3 DEF DailyCurrent, DailyRead
    <2>5. SummaryCurrent'
      BY <2>2, <2>3 DEF SummaryCurrent
    <2>6. ~At("events")
      BY <2>1 DEF At
    <2> QED
      BY <1>2, <1>4, <2>1, <2>3, <2>4, <2>5, <2>6 DEF ReadEvents
  <1>9. CASE UpsertDaily
    <2>1. /\ daily' = request.rolled
          /\ rows' = rows /\ hourly' = hourly /\ reply' = reply
          /\ At("upsert_daily")
      BY <1>9 DEF UpsertDaily
    <2>2. Left = 7 /\ Left' = 6 /\ InOrder'
      BY <1>1, <1>2, <2>1, ShapeNext
    <2>3. Left' # 7 /\ ~(Left' <= 2) /\ ~(Left' <= 1) /\ Left <= 10 /\ Left <= 8
      BY <2>2
    <2>4. DailyCurrent'
      BY <1>4, <2>1, <2>2, <2>3 DEF DailyCurrent, DailyRead
    <2>5. SummaryCurrent'
      BY <2>2, <2>3 DEF SummaryCurrent
    <2>6. ~At("events")
      BY <2>1 DEF At
    <2> QED
      BY <1>2, <1>4, <2>1, <2>3, <2>4, <2>5, <2>6 DEF ReadEvents
  <1>10. CASE ReadHourly \/ ReadRows \/ CountEvents
    <2>1. /\ rows' = rows /\ hourly' = hourly /\ daily' = daily
          /\ At("hourly") \/ At("rows") \/ At("counts")
      BY <1>10 DEF ReadHourly, ReadRows, CountEvents
    <2>2. Left \in 4..6 /\ InOrder'
      BY <1>1, <1>2, <2>1, ShapeNext
    <2>3. /\ Left' # 7 /\ ~(Left' <= 2) /\ ~(Left' <= 1)
          /\ Left <= 6 /\ Left <= 10 /\ Left <= 8
      BY <1>2, <2>2
    <2>4. DailyCurrent'
      BY <1>4, <2>1, <2>2, <2>3 DEF DailyCurrent, DailyRead
    <2>5. SummaryCurrent'
      BY <2>2, <2>3 DEF SummaryCurrent
    <2>6. ~At("events")
      BY <2>1 DEF At
    <2> QED
      BY <1>2, <1>4, <2>1, <2>3, <2>4, <2>5, <2>6 DEF ReadEvents
  <1>11. CASE ReadDaily
    <2>1. /\ rows' = rows /\ hourly' = hourly /\ daily' = daily
          /\ reply'.daily = daily /\ At("daily")
      BY <1>11, ReplyFields DEF ReadDaily
    <2>2. Left = 3 /\ Left' = 2 /\ InOrder'
      BY <1>1, <1>2, <2>1, ShapeNext
    <2>3. Left' # 7 /\ ~(Left' <= 1) /\ Left <= 6 /\ Left <= 10 /\ Left <= 8
      BY <2>2
    <2>4. DailyCurrent'
      BY <1>4, <2>1, <2>3 DEF DailyCurrent
    <2>5. SummaryCurrent'
      BY <2>2, <2>3 DEF SummaryCurrent
    <2>6. ~At("events")
      BY <2>1 DEF At
    <2> QED
      BY <1>2, <1>4, <2>1, <2>3, <2>4, <2>5, <2>6 DEF ReadEvents
  <1>12. CASE Summarise \/ ListGaps
    <2>1. /\ rows' = rows /\ hourly' = hourly /\ daily' = daily
          /\ reply'.daily = reply.daily
          /\ IF Summarise THEN reply'.summary = Summary(request)
                          ELSE reply'.summary = reply.summary
          /\ At("summary") \/ At("gaps")
      BY <1>12, ReplyFields DEF Summarise, ListGaps, At
    <2>2. Left <= 2 /\ InOrder' /\ (~Summarise => Left <= 1)
      <3>1. ~Summarise => At("gaps")
        BY <1>12 DEF ListGaps
      <3>2. /\ At("summary") => InOrder /\ Left = 2
            /\ At("gaps") => InOrder /\ Left = 1
        BY <1>1, ShapeNext
      <3>3. InOrder /\ (Left = 1 \/ Left = 2) /\ (~Summarise => Left = 1)
        BY <2>1, <3>1, <3>2
      <3> QED
        BY <1>2, <3>3
    <2>3. Left' # 7 /\ Left <= 6 /\ Left <= 10 /\ Left <= 8
      BY <1>2, <2>2
    <2>4. DailyCurrent'
      BY <1>4, <2>1, <2>2, <2>3 DEF DailyCurrent, DailyRead
    <2>5. SummaryCurrent'
      BY <1>4, <2>1, <2>2 DEF SummaryCurrent
    <2>6. ~At("events")
      BY <2>1 DEF At
    <2> QED
      BY <1>2, <1>4, <2>1, <2>3, <2>4, <2>5, <2>6 DEF ReadEvents
  <1> QED
    BY <1>5, <1>6, <1>7, <1>8, <1>9, <1>10, <1>11, <1>12 DEF Statement

\* The rows of a day of whole hours are there when its summary and gaps are
\* asked for, so they are not computed once more.
LEMMA WholeDayHasRows ==
  ASSUME StateInv, DayInv, WholeDay, Left <= 10
  PROVE  StoredIn(rows, request) # {}
  <1>1. /\ SlotsPerHour \in Nat \ {0} /\ LastHour \in Nat
        /\ RollUpLength \in Nat \ {0} /\ RollUpLength % SlotsPerHour = 0
    BY DayAssumption
  <1>2. /\ request.start \in Nat /\ request.start \in Slots
        /\ request.start % SlotsPerHour = 0 /\ request.end = request.start + RollUpLength
    BY DEF StateInv, DayInv, DayFields, WholeDay, Aligned
  <1> DEFINE h == request.start \div SlotsPerHour
  <1>3. h \in Nat /\ h * SlotsPerHour = request.start
    BY <1>1, <1>2
  <1>4. h \in Hours
    <2>1. request.start < (LastHour + 1) * SlotsPerHour /\ (LastHour + 1) * SlotsPerHour \in Nat
      BY <1>1, <1>2 DEF Slots
    <2>2. SUFFICES ASSUME h >= LastHour + 1 PROVE FALSE
      BY <1>1, <1>3 DEF Hours
    <2>3. h * SlotsPerHour >= (LastHour + 1) * SlotsPerHour
      BY <1>1, <1>3, <2>2
    <2> QED
      BY <1>2, <1>3, <2>1, <2>3
  <1>5. h \in HourRange(request)
    BY <1>1, <1>2, <1>3, <1>4 DEF HourRange, Hour
  <1>6. h \in DOMAIN rows
    BY <1>5 DEF DayInv, RowsCurrent
  <1> QED
    BY <1>1, <1>2, <1>3, <1>6 DEF StoredIn

LEMMA ComputeFirstKeepsDayInv ==
  ASSUME StateInv, DayInv, ComputeFirst
  PROVE  DayInv'
  <1>1. Shape' /\ Left <= 2 /\ Left' = Left + 2 /\ At("events")'
    BY ShapeAfterComputeFirst DEF DayInv
  <1>2. /\ SameDay /\ Running /\ rows' = rows /\ hourly' = hourly /\ daily' = daily
        /\ held' = held /\ reply' = reply
    BY ComputedFirst DEF ComputeFirst, At
  <1>3. Left \in 1..12
    BY <1>2, ShapeNext DEF DayInv
  <1>4. Left <= 10 /\ Left <= 8 /\ Left <= 6 /\ Left' # 7
    BY <1>1, <1>3
  <1>5. ~WholeDay
    BY <1>4, WholeDayHasRows DEF ComputeFirst
  <1>6. ReadIsHeld'
    BY <1>1 DEF ReadIsHeld, At
  <1>7. RowsCurrent' /\ FeaturesCurrent' /\ Today' = Today /\ DayFields' /\ ~WholeDay'
    BY <1>2, <1>4, <1>5, UntouchedByStatement DEF DayInv
  <1>8. DailyCurrent'
    <2>1. DailyRead
      BY <1>1 DEF DailyRead
    <2> QED
      BY <1>2, <1>4, <1>7, <2>1 DEF DayInv, DailyCurrent
  <1> QED
    BY <1>1, <1>6, <1>7, <1>8 DEF DayInv, SummaryCurrent

HeldBound == Cardinality(Received) <= MaxEvents

LEMMA HeldBoundStep ==
  ASSUME StateInv, HeldBound, [Next]_vars
  PROVE  HeldBound'
  <1>1. CASE Ingest
    <2>1. PICK e \in Event \ held : held' = held \cup {e}
      BY <1>1 DEF Ingest
    <2>2. Received' = Received \cup {e} /\ Cardinality(Received) < MaxEvents
      BY <1>1, <2>1 DEF Ingest, Received
    <2>3. IsFiniteSet(Received)
      BY FS_Union DEF StateInv, Received
    <2>4. /\ Cardinality(Received) \in Nat
          /\ \/ Cardinality(Received') = Cardinality(Received)
             \/ Cardinality(Received') = Cardinality(Received) + 1
      BY <2>2, <2>3, FS_AddElement, FS_CardinalityType
    <2> QED
      BY <2>2, <2>4, DayAssumption DEF HeldBound
  <1>2. CASE ApplyRetention
    <2>1. Received' = Received
      BY <1>2 DEF ApplyRetention, Received
    <2> QED
      BY <2>1 DEF HeldBound
  <1>3. CASE held' = held /\ retired' = retired
    BY <1>3 DEF HeldBound, Received
  <1> QED
    BY <1>1, <1>2, <1>3
       DEF Next, vars, Update, AskTimeline, AskCoverage, AskGaps, Begin, ReadEvents,
           UpsertCoverage, UpsertFeatures, RollUp, UpsertDaily, ReadHourly, ReadRows,
           CountEvents, ReadDaily, ComputeFirst, Summarise, ListGaps, Done

LEMMA HeldBounded ==
  ASSUME StateInv, HeldBound, MaxEvents < 12000
  PROVE  IsFiniteSet(held) /\ Cardinality(held) < 12000 /\ Cardinality(held) \in Nat
  <1>1. IsFiniteSet(Received)
    BY AllFinite
  <1>2. held \subseteq Received
    BY DEF Received
  <1>3. /\ IsFiniteSet(held) /\ Cardinality(held) <= Cardinality(Received)
        /\ Cardinality(held) \in Nat /\ Cardinality(Received) \in Nat
    BY <1>1, <1>2, FS_Subset, FS_CardinalityType
  <1> QED
    BY <1>3, DayAssumption DEF HeldBound

AppDayInv == AppDay => DayInv

\* A timeline in progress is no idle request.
LEMMA TimelineIsNotIdle ==
  ASSUME StateInv, Shape
  PROVE  ~Idle
  <1> SUFFICES ASSUME Idle PROVE FALSE
    OBVIOUS
  <1>1. request.todo = <<"idle">> /\ Left = 1 /\ request.todo[1] = "idle"
    BY DEF Idle, Left
  <1>2. 1 \in 1..Left /\ 12 - Left + 1 = 12
    BY <1>1
  <1>3. InOrder => request.todo[1] = "gaps"
    BY <1>2, StepsOfTimeline DEF InOrder, OrderedFrom
  <1> QED
    BY <1>1, <1>3 DEF Shape

LEMMA AskedDay ==
  ASSUME AskTimeline
  PROVE  DayInv'
  <1>1. PICK who \in Who, day \in Days : \E end \in DayEnds(who, day) :
           Begin(who, "timeline", [start |-> day.start, end |-> end], 1, TimelineSteps)
    BY DEF AskTimeline
  <1>2. PICK end \in DayEnds(who, day) :
           Begin(who, "timeline", [start |-> day.start, end |-> end], 1, TimelineSteps)
    BY <1>1
  <1>3. /\ request'.min = 1 /\ request'.start = day.start
        /\ request'.todo = TimelineSteps
    BY <1>2, Begun
  <1>4. Left' = 12
    BY <1>3, StepsOfTimeline DEF Left
  <1>5. InOrder'
    <2>1. \A i \in 1..12 : 12 - 12 + i = i
      OBVIOUS
    <2> QED
      BY <1>3, <1>4, <2>1, SameSteps DEF InOrder, OrderedFrom
  <1>6. DayFields'
    <2>1. day.start \in Slots
      BY DayAssumption
    <2>2. Slots' = Slots
      BY DEF Slots
    <2> QED
      BY <1>3, <2>1, <2>2 DEF DayFields
  <1>7. ReadIsHeld'
    <2>1. Head(request'.todo) = "events"
      BY <1>3, StepsOfTimeline, EmptySeq, HeadTailProperties
    <2> QED
      BY <2>1 DEF ReadIsHeld, At
  <1>8. /\ Left' <= 12 /\ ~(Left' <= 10) /\ ~(Left' <= 8) /\ Left' # 7
        /\ ~(Left' <= 6) /\ ~(Left' <= 2) /\ ~(Left' <= 1)
    BY <1>4
  <1> QED
    BY <1>5, <1>6, <1>7, <1>8 DEF DayInv, Shape, DailyCurrent, DailyRead, SummaryCurrent

LEMMA StutterKeepsDayInv ==
  ASSUME UNCHANGED vars, DayInv
  PROVE  DayInv'
  <1>1. /\ held' = held /\ rows' = rows /\ hourly' = hourly /\ daily' = daily
        /\ request' = request /\ reply' = reply
    BY DEF vars
  <1>2. SameDay
    BY <1>1 DEF SameDay
  <1>3. /\ RowsCurrent => RowsCurrent'
        /\ FeaturesCurrent => FeaturesCurrent'
        /\ Today' = Today /\ Summary(request)' = Summary(request)
        /\ DayFields => DayFields'
        /\ WholeDay' <=> WholeDay
    BY <1>1, <1>2, UntouchedByStatement
  <1>4. Left' = Left
    BY <1>1 DEF Left
  <1>5. /\ InOrder' <=> InOrder
        /\ OrderedFrom(3)' <=> OrderedFrom(3)
        /\ OrderedFrom(2)' <=> OrderedFrom(2)
    BY <1>1, <1>4, SameSteps DEF InOrder, OrderedFrom
  <1>6. Shape => Shape'
    BY <1>1, <1>4, <1>5 DEF Shape
  <1>7. ReadIsHeld => ReadIsHeld'
    BY <1>1 DEF ReadIsHeld, At, Running, Idle, Answered
  <1>8. DailyCurrent => DailyCurrent'
    BY <1>1, <1>3, <1>4, <1>5 DEF DailyCurrent, DailyRead
  <1>9. SummaryCurrent => SummaryCurrent'
    BY <1>1, <1>3, <1>4, <1>5 DEF SummaryCurrent
  <1> QED
    BY <1>3, <1>4, <1>6, <1>7, <1>8, <1>9 DEF DayInv

LEMMA AppDayStep ==
  ASSUME StateInv, AppDayInv, [Next]_vars
  PROVE  AppDayInv'
  <1> SUFFICES ASSUME AppDay' PROVE DayInv'
    BY DEF AppDayInv
  <1>1. CASE Ingest \/ Update \/ ApplyRetention
    <2>1. request' = request /\ (Idle \/ request.who = "tool")
      BY <1>1 DEF Ingest, Update, ApplyRetention
    <2>2. AppDay
      BY <2>1 DEF AppDay
    <2>3. ~Idle
      BY <2>2, TimelineIsNotIdle DEF AppDayInv, DayInv
    <2> QED
      BY <2>1, <2>2, <2>3 DEF AppDay
  <1>2. CASE AskTimeline
    BY <1>2, AskedDay
  <1>3. CASE AskCoverage \/ AskGaps
    <2>1. PICK who, asked, w, min, todo :
             asked # "timeline" /\ Begin(who, asked, w, min, todo)
      BY <1>3 DEF AskCoverage, AskGaps
    <2>2. request'.asked # "timeline"
      BY <2>1, Begun
    <2> QED
      BY <2>2 DEF AppDay
  <1>4. CASE Statement
    <2>1. AppDay
      BY <1>4, TakenByStatement DEF SameDay, AppDay
    <2> QED
      BY <1>4, <2>1, StatementKeepsDayInv DEF AppDayInv
  <1>5. CASE ComputeFirst
    <2>1. AppDay
      BY <1>5, ComputedFirst DEF SameDay, AppDay
    <2> QED
      BY <1>5, <2>1, ComputeFirstKeepsDayInv DEF AppDayInv
  <1>6. CASE Done \/ UNCHANGED vars
    <2>1. UNCHANGED vars
      BY <1>6 DEF Done
    <2>2. AppDay
      BY <2>1 DEF vars, AppDay
    <2> QED
      BY <2>1, <2>2, StutterKeepsDayInv DEF AppDayInv
  <1> QED
    BY <1>1, <1>2, <1>3, <1>4, <1>5, <1>6 DEF Next, Statement

-----------------------------------------------------------------------------
(* What the parts of the app's timeline say of the day.                     *)

LEMMA SameOrder ==
  ASSUME NEW x \in Nat, NEW y \in Nat, NEW s \in Nat \ {0}
  PROVE  (x * s < y * s <=> x < y) /\ (x * s <= y * s <=> x <= y)
  <1>1. x * s \in Nat /\ y * s \in Nat
    OBVIOUS
  <1>2. ASSUME x < y PROVE x * s < y * s
    <2>1. (x + 1) * s <= y * s /\ (x + 1) * s = x * s + s
      BY <1>2
    <2> QED
      BY <1>1, <2>1
  <1>3. ASSUME y < x PROVE y * s < x * s
    <2>1. (y + 1) * s <= x * s /\ (y + 1) * s = y * s + s
      BY <1>3
    <2> QED
      BY <1>1, <2>1
  <1>4. x = y => x * s = y * s
    OBVIOUS
  <1> QED
    BY <1>1, <1>2, <1>3, <1>4

\* The day's events, and those of its hours that have none.
DayEvents == EventsWithin(request.start, request.end)
EmptyHours == {h \in WholeHours : \A e \in DayEvents : Hour(e.slot) # h}
HourOf == [e \in DayEvents |-> Hour(e.slot)]

LEMMA EventsOfTheDay ==
  ASSUME StateInv
  PROVE  /\ IsFiniteSet(DayEvents) /\ DayEvents \subseteq held
         /\ \A e \in DayEvents : HourOf[e] = Hour(e.slot) /\ HourOf[e] \in HourRange(request)
         /\ \A h : {e \in DayEvents : HourOf[e] = h} = EventsOf(held, request, h)
         /\ \A h : IsFiniteSet(EventsOf(held, request, h))
                   /\ Cardinality(EventsOf(held, request, h)) \in Nat
  <1>1. /\ SlotsPerHour \in Nat \ {0} /\ LastHour \in Nat /\ Times \subseteq Slots
        /\ request.start \in Nat /\ request.end \in Nat
    BY DayAssumption DEF StateInv
  <1>2. IsFiniteSet(DayEvents) /\ DayEvents \subseteq held
    BY FS_Subset DEF DayEvents, EventsWithin, StateInv
  <1>3. ASSUME NEW e \in DayEvents
        PROVE  Hour(e.slot) \in HourRange(request)
    <2>1. e.slot \in Slots /\ request.start <= e.slot /\ e.slot < request.end
      BY <1>1 DEF DayEvents, EventsWithin, StateInv, Event
    <2>2. (LastHour + 1) * SlotsPerHour \in Nat
      BY <1>1
    <2>3. e.slot \in Nat /\ e.slot < (LastHour + 1) * SlotsPerHour
      BY <2>1, <2>2 DEF Slots
    <2> DEFINE h == e.slot \div SlotsPerHour
               a == request.start \div SlotsPerHour
    <2>4. /\ h \in Nat /\ h * SlotsPerHour <= e.slot /\ h * SlotsPerHour \in Nat
          /\ e.slot < h * SlotsPerHour + SlotsPerHour
      BY <1>1, <2>3
    <2>5. a \in Nat /\ a * SlotsPerHour <= request.start /\ a * SlotsPerHour \in Nat
      BY <1>1
    <2>6. h = Hour(e.slot) /\ a = Hour(request.start)
      BY DEF Hour
    <2> HIDE DEF h, a
    <2>7. h < LastHour + 1
      <3>1. h * SlotsPerHour < (LastHour + 1) * SlotsPerHour
        BY <2>2, <2>3, <2>4
      <3> QED
        BY <1>1, <2>4, <3>1, SameOrder
    <2>8. a <= h
      <3>1. (h + 1) * SlotsPerHour = h * SlotsPerHour + SlotsPerHour
        BY <1>1, <2>4
      <3>2. a * SlotsPerHour < (h + 1) * SlotsPerHour
        BY <1>1, <2>1, <2>3, <2>4, <2>5, <3>1
      <3>3. a < h + 1
        BY <1>1, <2>4, <2>5, <3>2, SameOrder
      <3> QED
        BY <2>4, <2>5, <3>3
    <2>9. h \in Hours
      BY <1>1, <2>4, <2>7 DEF Hours
    <2>10. h * SlotsPerHour < request.end
      BY <1>1, <2>1, <2>3, <2>4
    <2> QED
      BY <2>4, <2>5, <2>6, <2>8, <2>9, <2>10 DEF HourRange
  <1>4. \A h : {e \in DayEvents : HourOf[e] = h} = EventsOf(held, request, h)
    BY DEF DayEvents, EventsWithin, HourOf, EventsOf
  <1>5. ASSUME NEW h
        PROVE  IsFiniteSet(EventsOf(held, request, h))
               /\ Cardinality(EventsOf(held, request, h)) \in Nat
    BY FS_Subset, FS_CardinalityType DEF StateInv, EventsOf
  <1> QED
    BY <1>2, <1>3, <1>4, <1>5 DEF HourOf

LEMMA CountOfHour ==
  ASSUME NEW E
  PROVE  /\ HourFeatures(E).total = Cardinality(E)
         /\ HourFeatures(E).missing = IF E = {} THEN 1 ELSE 0
  BY DEF HourFeatures

\* The daily total counts no event that is not the day's, if the day is not
\* shorter than 24 hours.
LEMMA TotalIsOfTheDay ==
  ASSUME TypesInv, FeaturesCurrent, request.end - request.start >= RollUpLength
  PROVE  DayFeatures(request.start).total <= Cardinality(DayEvents)
  <1> DEFINE R == RolledUpHours(request.start)
             f == [h \in R |-> hourly[h].total]
             counted == {e \in DayEvents : HourOf[e] \in R}
  <1>1. /\ SlotsPerHour \in Nat \ {0} /\ LastHour \in Nat /\ RollUpLength \in Nat
        /\ request.start \in Nat /\ request.end \in Nat
    BY DayAssumption DEF TypesInv, StateInv
  <1>2. IsFiniteSet(R) /\ R \subseteq DOMAIN hourly /\ R \subseteq Hours
    BY HoursFinite DEF RolledUpHours, TypesInv, FeaturesOfHours
  <1>3. ASSUME NEW h \in R
        PROVE  h \in HourRange(request)
    <2>1. /\ h \in Nat /\ h \in Hours /\ h * SlotsPerHour \in Nat
          /\ h * SlotsPerHour >= request.start
          /\ h * SlotsPerHour < request.start + RollUpLength
      BY <1>1, <1>2 DEF RolledUpHours, Hours
    <2>2. h * SlotsPerHour < request.end
      BY <1>1, <2>1
    <2>3. Hour(request.start) \in Nat /\ Hour(request.start) * SlotsPerHour <= request.start
          /\ Hour(request.start) * SlotsPerHour \in Nat
      BY <1>1 DEF Hour
    <2>4. Hour(request.start) * SlotsPerHour <= h * SlotsPerHour
      BY <1>1, <2>1, <2>3
    <2>5. Hour(request.start) <= h
      BY <1>1, <2>1, <2>3, <2>4, SameOrder
    <2> QED
      BY <2>1, <2>2, <2>3, <2>5 DEF HourRange
  <1>4. StateInv
    BY DEF TypesInv
  <1>5. ASSUME NEW h \in R
        PROVE  f[h] = Cardinality(EventsOf(held, request, h))
    <2>1. hourly[h] = HourFeatures(EventsOf(held, request, h))
      BY <1>3 DEF FeaturesCurrent
    <2>2. f[h] = hourly[h].total
      OBVIOUS
    <2> QED
      BY <2>1, <2>2, CountOfHour
  <1>6. \A h \in R : f[h] \in Nat /\ f[h] <= Cardinality({e \in DayEvents : HourOf[e] = h})
    <2> SUFFICES ASSUME NEW h \in R
                 PROVE  f[h] \in Nat /\ f[h] <= Cardinality({e \in DayEvents : HourOf[e] = h})
      OBVIOUS
    <2>1. f[h] = Cardinality(EventsOf(held, request, h))
      BY <1>5
    <2>2. /\ {e \in DayEvents : HourOf[e] = h} = EventsOf(held, request, h)
          /\ Cardinality(EventsOf(held, request, h)) \in Nat
      BY <1>4, EventsOfTheDay
    <2> HIDE DEF f
    <2> QED
      BY <2>1, <2>2
  <1>7. DayFeatures(request.start).total = SumFunctionOnSet(f, R)
    BY DEF DayFeatures, SumFunction
  <1> HIDE DEF R, f
  <1>8. SumFunctionOnSet(f, R) <= Cardinality(counted)
    <2>1. IsFiniteSet(DayEvents)
      BY <1>4, EventsOfTheDay
    <2>2. \A h \in R : f[h] \in Nat
      BY <1>6
    <2>3. \A h \in R : f[h] <= Cardinality({e \in DayEvents : HourOf[e] = h})
      BY <1>6
    <2> QED
      BY <1>2, <2>1, <2>2, <2>3, CountedByParts
  <1>9. Cardinality(counted) <= Cardinality(DayEvents) /\ Cardinality(counted) \in Nat
        /\ Cardinality(DayEvents) \in Nat
    BY <1>4, EventsOfTheDay, FS_Subset, FS_CardinalityType
  <1>10. SumFunctionOnSet(f, R) \in Nat
    BY <1>2, <1>6, SumIsNat
  <1> QED
    BY <1>7, <1>8, <1>9, <1>10

\* It counts all of the day's, if the day begins with an hour and is not longer
\* than 24 hours.
LEMMA TotalCountsTheDay ==
  ASSUME TypesInv, FeaturesCurrent, Aligned(request.start),
         request.end - request.start <= RollUpLength
  PROVE  DayFeatures(request.start).total >= Cardinality(DayEvents)
  <1> DEFINE R == RolledUpHours(request.start)
             f == [h \in R |-> hourly[h].total]
             counted == {e \in DayEvents : HourOf[e] \in R}
  <1>1. /\ SlotsPerHour \in Nat \ {0} /\ LastHour \in Nat /\ RollUpLength \in Nat
        /\ request.start \in Nat /\ request.end \in Nat
    BY DayAssumption DEF TypesInv, StateInv
  <1>2. IsFiniteSet(R) /\ R \subseteq DOMAIN hourly /\ R \subseteq Hours
    BY HoursFinite DEF RolledUpHours, TypesInv, FeaturesOfHours
  <1>3. ASSUME NEW h \in HourRange(request)
        PROVE  h \in R
    <2>1. /\ h \in Nat /\ h * SlotsPerHour \in Nat
          /\ h >= Hour(request.start) /\ h * SlotsPerHour < request.end
      BY <1>1 DEF HourRange, Hours
    <2>2. Hour(request.start) \in Nat /\ Hour(request.start) * SlotsPerHour = request.start
      BY <1>1 DEF Hour, Aligned
    <2>3. Hour(request.start) * SlotsPerHour <= h * SlotsPerHour
      BY <1>1, <2>1, <2>2, SameOrder
    <2>4. h * SlotsPerHour < request.start + RollUpLength
      BY <1>1, <2>1
    <2>5. h \in DOMAIN hourly
      BY DEF FeaturesCurrent
    <2> QED
      BY <2>2, <2>3, <2>4, <2>5 DEF RolledUpHours
  <1>4. StateInv
    BY DEF TypesInv
  <1>5. \A h \in R : f[h] \in Nat
    BY <1>2 DEF TypesInv, FeaturesOfHours, Feature
  <1>6. \A h \in R : f[h] >= Cardinality({e \in DayEvents : HourOf[e] = h})
    <2> SUFFICES ASSUME NEW h \in R
                 PROVE  f[h] >= Cardinality(EventsOf(held, request, h))
      BY <1>4, EventsOfTheDay
    <2>1. CASE h \in HourRange(request)
      <3>1. hourly[h] = HourFeatures(EventsOf(held, request, h))
        BY <2>1 DEF FeaturesCurrent
      <3>2. f[h] = hourly[h].total
        OBVIOUS
      <3> HIDE DEF f
      <3>3. f[h] = Cardinality(EventsOf(held, request, h))
        BY <3>1, <3>2, CountOfHour
      <3> QED
        BY <1>5, <3>3
    <2>2. CASE h \notin HourRange(request)
      <3>1. {e \in DayEvents : HourOf[e] = h} = {}
        BY <1>4, <2>2, EventsOfTheDay
      <3>2. EventsOf(held, request, h) = {}
        BY <1>4, <3>1, EventsOfTheDay
      <3> HIDE DEF f
      <3> QED
        BY <1>5, <3>2, FS_EmptySet
    <2> QED
      BY <2>1, <2>2
  <1>7. DayFeatures(request.start).total = SumFunctionOnSet(f, R)
    BY DEF DayFeatures, SumFunction
  <1>8. counted = DayEvents
    BY <1>3, <1>4, EventsOfTheDay
  <1> HIDE DEF R, f
  <1>9. SumFunctionOnSet(f, R) >= Cardinality(counted)
    BY <1>2, <1>4, <1>5, <1>6, EventsOfTheDay, CountedByParts
  <1> QED
    BY <1>7, <1>8, <1>9

\* The hours of a day of 24 whole hours, by any of the ways they are found.
LEMMA HoursOfWholeDay ==
  ASSUME TypesInv, DayFields, RowsCurrent, FeaturesCurrent, WholeDay
  PROVE  /\ RolledUpHours(request.start) = WholeHours
         /\ HourRange(request) = WholeHours
         /\ StoredIn(rows, request) = WholeHours
         /\ WholeHours # {} /\ WholeHours \subseteq Hours
  <1> DEFINE a == request.start \div SlotsPerHour
             d == RollUpLength \div SlotsPerHour
  <1>1. /\ SlotsPerHour \in Nat \ {0} /\ LastHour \in Nat
        /\ RollUpLength \in Nat \ {0} /\ RollUpLength % SlotsPerHour = 0
        /\ request.start \in Nat /\ request.start \in Slots
        /\ request.start % SlotsPerHour = 0 /\ request.end = request.start + RollUpLength
    BY DayAssumption DEF TypesInv, StateInv, DayFields, WholeDay, Aligned
  <1>2. a \in Nat /\ a * SlotsPerHour = request.start /\ a = Hour(request.start)
    BY <1>1 DEF Hour
  <1>3. d \in Nat \ {0} /\ d * SlotsPerHour = RollUpLength
    <2>1. d \in Nat /\ d * SlotsPerHour = RollUpLength
      BY <1>1
    <2>2. d # 0
      <3> HIDE DEF d
      <3> QED
        BY <1>1, <2>1
    <2> QED
      BY <2>1, <2>2
  <1> HIDE DEF a, d
  <1>4. request.end = (a + d) * SlotsPerHour
    <2>1. (a + d) * SlotsPerHour = a * SlotsPerHour + d * SlotsPerHour
      BY <1>1, <1>2, <1>3
    <2> QED
      BY <1>1, <1>2, <1>3, <2>1
  <1>5. ASSUME NEW h \in Hours
        PROVE  /\ h * SlotsPerHour >= request.start <=> h >= a
               /\ h * SlotsPerHour < request.end <=> h < a + d
               /\ (h + 1) * SlotsPerHour <= request.end <=> h < a + d
    <2>1. h \in Nat /\ h + 1 \in Nat /\ a + d \in Nat
      BY <1>1, <1>2, <1>3 DEF Hours
    <2>2. h * SlotsPerHour >= request.start <=> h >= a
      <3>1. a * SlotsPerHour <= h * SlotsPerHour <=> a <= h
        BY <1>1, <1>2, <2>1, SameOrder
      <3>2. h * SlotsPerHour \in Nat
        BY <1>1, <2>1
      <3> QED
        BY <1>1, <1>2, <2>1, <3>1, <3>2
    <2>3. h * SlotsPerHour < request.end <=> h < a + d
      BY <1>1, <1>4, <2>1, SameOrder
    <2>4. (h + 1) * SlotsPerHour <= request.end <=> h + 1 <= a + d
      BY <1>1, <1>4, <2>1, SameOrder
    <2>5. h + 1 <= a + d <=> h < a + d
      BY <2>1
    <2> QED
      BY <2>2, <2>3, <2>4, <2>5
  <1>6. WholeHours = {h \in Hours : h >= a /\ h < a + d}
    BY <1>5 DEF WholeHours
  <1>7. HourRange(request) = WholeHours
    BY <1>2, <1>5, <1>6 DEF HourRange
  <1>8. RolledUpHours(request.start) = WholeHours
    <2>1. DOMAIN hourly \subseteq Hours /\ WholeHours \subseteq DOMAIN hourly
      BY <1>7 DEF TypesInv, FeaturesOfHours, FeaturesCurrent
    <2>2. \A h \in DOMAIN hourly : h \in RolledUpHours(request.start) <=> h \in WholeHours
      BY <1>1, <1>5, <1>6, <2>1 DEF RolledUpHours
    <2>3. RolledUpHours(request.start) \subseteq DOMAIN hourly
      BY DEF RolledUpHours
    <2> QED
      BY <2>1, <2>2, <2>3
  <1>9. StoredIn(rows, request) = WholeHours
    <2>1. DOMAIN rows \subseteq Hours /\ WholeHours \subseteq DOMAIN rows
      BY <1>7 DEF TypesInv, RowsTyped, RowsCurrent
    <2>2. \A h \in DOMAIN rows : h \in StoredIn(rows, request) <=> h \in WholeHours
      BY <1>5, <1>6, <2>1 DEF StoredIn
    <2>3. StoredIn(rows, request) \subseteq DOMAIN rows
      BY DEF StoredIn
    <2> QED
      BY <2>1, <2>2, <2>3
  <1>10. a \in WholeHours
    <2>1. (LastHour + 1) * SlotsPerHour \in Nat
      BY <1>1
    <2>2. a * SlotsPerHour < (LastHour + 1) * SlotsPerHour
      BY <1>1, <1>2, <2>1 DEF Slots
    <2>3. a < LastHour + 1
      BY <1>1, <1>2, <2>2, SameOrder
    <2> QED
      BY <1>1, <1>2, <1>3, <1>6, <2>3 DEF Hours
  <1> QED
    BY <1>6, <1>7, <1>8, <1>9, <1>10

\* The hours without events are the missing rows, and each of the counts of
\* them is right.
LEMMA MissingOfWholeDay ==
  ASSUME TypesInv, DayFields, RowsCurrent, FeaturesCurrent, WholeDay
  PROVE  /\ EmptyHours = {h \in StoredIn(rows, request) : rows[h] = 0}
         /\ IsFiniteSet(EmptyHours)
         /\ DayFeatures(request.start).missing = Cardinality(EmptyHours)
         /\ Summary(request).missing = Cardinality(EmptyHours)
         /\ Summary(request).complete <=> EmptyHours = {}
  <1>1. /\ RolledUpHours(request.start) = WholeHours
        /\ HourRange(request) = WholeHours
        /\ StoredIn(rows, request) = WholeHours
        /\ WholeHours # {} /\ WholeHours \subseteq Hours
    BY HoursOfWholeDay
  <1>2. StateInv
    BY DEF TypesInv
  <1>3. ASSUME NEW h \in WholeHours
        PROVE  EventsOf(held, request, h) = {} <=> h \in EmptyHours
    <2>1. {e \in DayEvents : HourOf[e] = h} = EventsOf(held, request, h)
      BY <1>2, EventsOfTheDay
    <2>2. \A e \in DayEvents : HourOf[e] = Hour(e.slot)
      BY <1>2, EventsOfTheDay
    <2> QED
      BY <2>1, <2>2 DEF EmptyHours
  <1>4. EmptyHours \subseteq WholeHours
    BY DEF EmptyHours
  <1>5. EmptyHours = {h \in WholeHours : rows[h] = 0}
    <2>1. ASSUME NEW h \in WholeHours
          PROVE  rows[h] = 0 <=> h \in EmptyHours
      <3>1. rows[h] = Cardinality(EventsOf(held, request, h))
        BY <1>1 DEF RowsCurrent
      <3>2. IsFiniteSet(EventsOf(held, request, h))
        BY <1>2, EventsOfTheDay
      <3> QED
        BY <1>3, <3>1, <3>2, FS_EmptySet
    <2> QED
      BY <1>4, <2>1
  <1>6. IsFiniteSet(EmptyHours) /\ IsFiniteSet(WholeHours)
    BY <1>1, <1>4, HoursFinite
  <1>7. DayFeatures(request.start).missing = Cardinality(EmptyHours)
    <2> DEFINE f == [h \in WholeHours |-> hourly[h].missing]
               k == [h \in EmptyHours |-> h]
    <2>1. ASSUME NEW h \in WholeHours
          PROVE  f[h] = Cardinality({e \in EmptyHours : k[e] = h}) /\ f[h] \in Nat
      <3>1. hourly[h] = HourFeatures(EventsOf(held, request, h))
        BY <1>1 DEF FeaturesCurrent
      <3>2. f[h] = hourly[h].missing
        OBVIOUS
      <3>3. f[h] = IF h \in EmptyHours THEN 1 ELSE 0
        BY <1>3, <3>1, <3>2, CountOfHour
      <3>4. {e \in EmptyHours : k[e] = h} = IF h \in EmptyHours THEN {h} ELSE {}
        OBVIOUS
      <3>5. Cardinality({h}) = 1 /\ Cardinality({}) = 0
        BY FS_Singleton, FS_EmptySet
      <3> HIDE DEF f, k
      <3>6. CASE h \in EmptyHours
        BY <3>3, <3>4, <3>5, <3>6
      <3>7. CASE h \notin EmptyHours
        BY <3>3, <3>4, <3>5, <3>7
      <3> QED
        BY <3>6, <3>7
    <2>2. DayFeatures(request.start).missing = SumFunctionOnSet(f, WholeHours)
      BY <1>1 DEF DayFeatures, SumFunction
    <2>3. {h \in EmptyHours : k[h] \in WholeHours} = EmptyHours
      BY <1>4
    <2> HIDE DEF f, k
    <2>4. \A h \in WholeHours : f[h] \in Nat
      BY <2>1
    <2>5. \A h \in WholeHours : f[h] <= Cardinality({e \in EmptyHours : k[e] = h})
      BY <2>1
    <2>6. \A h \in WholeHours : f[h] >= Cardinality({e \in EmptyHours : k[e] = h})
      BY <2>1
    <2>7. SumFunctionOnSet(f, WholeHours) <= Cardinality({h \in EmptyHours : k[h] \in WholeHours})
      BY <1>6, <2>4, <2>5, CountedByParts
    <2>8. SumFunctionOnSet(f, WholeHours) >= Cardinality({h \in EmptyHours : k[h] \in WholeHours})
      BY <1>6, <2>4, <2>6, CountedByParts
    <2>9. SumFunctionOnSet(f, WholeHours) \in Nat /\ Cardinality(EmptyHours) \in Nat
      BY <1>6, <2>4, SumIsNat, FS_CardinalityType
    <2> QED
      BY <2>2, <2>3, <2>7, <2>8, <2>9
  <1>8. Summary(request).missing = Cardinality(EmptyHours)
        /\ (Summary(request).complete <=> EmptyHours = {})
    BY <1>1, <1>5 DEF Summary
  <1> QED
    BY <1>1, <1>5, <1>6, <1>7, <1>8

LEMMA Greatest ==
  ASSUME NEW T, T \subseteq Nat, T # {}, NEW n \in Nat, \A x \in T : x <= n
  PROVE  \E x \in T : \A y \in T : y <= x
  <1> DEFINE B == {m \in Nat : \A y \in T : y <= m}
  <1>1. PICK m \in B : \A b \in B : m <= b
    <2>1. n \in B
      OBVIOUS
    <2>2. B \subseteq Nat /\ B # {}
      BY <2>1
    <2> HIDE DEF B
    <2> QED
      BY <2>2, Least
  <1>2. m \in T
    <2> SUFFICES ASSUME m \notin T PROVE FALSE
      OBVIOUS
    <2>1. PICK x \in T : TRUE
      OBVIOUS
    <2>2. \A y \in T : y \in Nat /\ y < m
      BY <1>1
    <2>3. m - 1 \in Nat /\ \A y \in T : y <= m - 1
      BY <1>1, <2>1, <2>2
    <2>4. m - 1 \in B
      BY <2>3
    <2> QED
      BY <1>1, <2>4
  <1> QED
    BY <1>1, <1>2

\* Maximal runs that share a row are the same.
LEMMA RunsMeet ==
  ASSUME NEW H, H \subseteq Nat, NEW i, NEW j, NEW a, NEW b, NEW h \in H,
         MaximalRun(H, i, j), MaximalRun(H, a, b),
         i <= h, h <= j, a <= h, h <= b
  PROVE  i = a /\ j = b
  <1>1. i \in Nat /\ j \in Nat /\ a \in Nat /\ b \in Nat /\ h \in Nat
    BY DEF MaximalRun
  <1>2. /\ i \in H /\ j \in H /\ Unbroken(H, i, j)
        /\ a \in H /\ b \in H /\ Unbroken(H, a, b)
    BY DEF MaximalRun
  <1>3. ~(i < a)
    <2> SUFFICES ASSUME i < a PROVE FALSE
      OBVIOUS
    <2>1. ~Unbroken(H, i, a)
      BY <1>2 DEF MaximalRun
    <2> QED
      BY <1>1, <1>2, <2>1 DEF Unbroken
  <1>4. ~(a < i)
    <2> SUFFICES ASSUME a < i PROVE FALSE
      OBVIOUS
    <2>1. ~Unbroken(H, a, i)
      BY <1>2 DEF MaximalRun
    <2> QED
      BY <1>1, <1>2, <2>1 DEF Unbroken
  <1>5. ~(j < b)
    <2> SUFFICES ASSUME j < b PROVE FALSE
      OBVIOUS
    <2>1. ~Unbroken(H, j, b)
      BY <1>2 DEF MaximalRun
    <2> QED
      BY <1>1, <1>2, <2>1 DEF Unbroken
  <1>6. ~(b < j)
    <2> SUFFICES ASSUME b < j PROVE FALSE
      OBVIOUS
    <2>1. ~Unbroken(H, b, j)
      BY <1>2 DEF MaximalRun
    <2> QED
      BY <1>1, <1>2, <2>1 DEF Unbroken
  <1> QED
    BY <1>1, <1>3, <1>4, <1>5, <1>6

\* A missing row lies in one.
LEMMA RunAround ==
  ASSUME NEW H, H \subseteq Nat, NEW n \in Nat, \A x \in H : x <= n,
         NEW h \in H, rows[h] = 0
  PROVE  \E i, j \in H : MaximalRun(H, i, j) /\ i <= h /\ h <= j
  <1> DEFINE A == {a \in H : a <= h /\ Unbroken(H, a, h)}
             B == {b \in H : h <= b /\ Unbroken(H, h, b)}
  <1>1. h \in A /\ h \in B
    BY DEF Unbroken
  <1>2. PICK i \in A : \A a \in A : i <= a
    <2>1. A \subseteq Nat /\ A # {}
      BY <1>1
    <2> HIDE DEF A
    <2> QED
      BY <2>1, Least
  <1>3. PICK j \in B : \A b \in B : b <= j
    <2>1. B \subseteq Nat /\ B # {} /\ \A x \in B : x <= n
      BY <1>1
    <2> HIDE DEF B
    <2> QED
      BY <2>1, Greatest
  <1>4. /\ i \in H /\ i \in Nat /\ i <= h /\ Unbroken(H, i, h)
        /\ j \in H /\ j \in Nat /\ h <= j /\ Unbroken(H, h, j)
        /\ h \in Nat
    BY <1>2, <1>3
  <1>5. Unbroken(H, i, j)
    BY <1>4 DEF Unbroken
  <1>6. ASSUME NEW x \in H, x < i
        PROVE  ~Unbroken(H, x, i)
    <2> SUFFICES ASSUME Unbroken(H, x, i) PROVE FALSE
      OBVIOUS
    <2>1. Unbroken(H, x, h)
      BY <1>4, <1>6 DEF Unbroken
    <2>2. x \in A
      BY <1>4, <1>6, <2>1
    <2> QED
      BY <1>2, <1>4, <1>6, <2>2
  <1>7. ASSUME NEW x \in H, x > j
        PROVE  ~Unbroken(H, j, x)
    <2> SUFFICES ASSUME Unbroken(H, j, x) PROVE FALSE
      OBVIOUS
    <2>1. Unbroken(H, h, x)
      BY <1>4, <1>7 DEF Unbroken
    <2>2. x \in B
      BY <1>4, <1>7, <2>1
    <2> QED
      BY <1>3, <1>4, <1>7, <2>2
  <1> QED
    BY <1>4, <1>5, <1>6, <1>7 DEF MaximalRun

\* The lengths of the maximal runs add up to the number of missing rows: each of
\* these is in one and only one of them.
LEMMA GapsCountMissingRows ==
  ASSUME NEW H \in SUBSET Hours
  PROVE  SumFunction([g \in MaximalGaps(H, 1) |-> g.hours])
           = Cardinality({h \in H : rows[h] = 0})
  <1> DEFINE M == {h \in H : rows[h] = 0}
             P == {q \in H \X H : MaximalRun(H, q[1], q[2])}
             G == {GapOf(H, p[1], p[2]) : p \in P}
             Holds(g, h) == g.start <= h /\ h < g.end
             k == [h \in M |-> CHOOSE g \in G : Holds(g, h)]
             f == [g \in G |-> g.hours]
  <1>1. /\ LastHour \in Nat /\ H \subseteq Nat /\ \A h \in H : h <= LastHour
        /\ IsFiniteSet(H)
    BY DayAssumption, HoursFinite DEF Hours
  <1>2. IsFiniteSet(M)
    BY <1>1, FS_Subset
  <1>3. IsFiniteSet(G)
    <2> DEFINE gap == [p \in P |-> GapOf(H, p[1], p[2])]
    <2>1. IsFiniteSet(P)
      BY <1>1, FS_Product, FS_Subset
    <2>2. gap \in Surjection(P, G)
      <3> HIDE DEF P
      <3> QED
        BY DEF Surjection
    <2> HIDE DEF P, G, gap
    <2> QED
      BY <2>1, <2>2, FS_Surjection
  <1>4. ASSUME NEW i \in H, NEW j \in H, MaximalRun(H, i, j)
        PROVE  /\ GapOf(H, i, j) \in G
               /\ \A h \in H : Holds(GapOf(H, i, j), h) <=> h \in i..j
               /\ GapOf(H, i, j).hours = Cardinality(H \cap i..j)
               /\ Cardinality(H \cap i..j) \in Nat \ {0}
    <2>1. <<i, j>> \in P
      BY <1>4
    <2>2. <<i, j>>[1] = i /\ <<i, j>>[2] = j
      OBVIOUS
    <2>3. GapOf(H, i, j) \in G
      <3> HIDE DEF P
      <3> QED
        BY <2>1, <2>2
    <2>4. \A h \in H : Holds(GapOf(H, i, j), h) <=> h \in i..j
      BY <1>1 DEF GapOf
    <2>5. i \in H \cap i..j
      BY <1>1, <1>4 DEF MaximalRun
    <2>6. IsFiniteSet(H \cap i..j)
      BY <1>1, FS_Subset
    <2>7. Cardinality(H \cap i..j) \in Nat \ {0}
      BY <2>5, <2>6, FS_CardinalityType, FS_EmptySet
    <2> HIDE DEF G, P
    <2> QED
      BY <2>3, <2>4, <2>7 DEF GapOf
  <1>5. ASSUME NEW g \in G
        PROVE  \E i, j \in H : MaximalRun(H, i, j) /\ g = GapOf(H, i, j)
    <2>1. PICK p \in P : g = GapOf(H, p[1], p[2])
      OBVIOUS
    <2> QED
      BY <2>1
  <1>6. G = MaximalGaps(H, 1)
    <2>1. \A g \in G : g.hours >= 1
      <3> SUFFICES ASSUME NEW g \in G PROVE g.hours >= 1
        OBVIOUS
      <3>1. PICK i \in H, j \in H : MaximalRun(H, i, j) /\ g = GapOf(H, i, j)
        BY <1>5
      <3>2. /\ GapOf(H, i, j).hours = Cardinality(H \cap i..j)
            /\ Cardinality(H \cap i..j) \in Nat \ {0}
        BY <1>4, <3>1
      <3> HIDE DEF G
      <3> QED
        BY <3>1, <3>2
    <2>2. MaximalGaps(H, 1) = {g \in G : g.hours >= 1}
      BY DEF MaximalGaps
    <2> HIDE DEF G
    <2> QED
      BY <2>1, <2>2
  <1>7. ASSUME NEW h \in M
        PROVE  k[h] \in G /\ Holds(k[h], h)
    <2>1. PICK i \in H, j \in H : MaximalRun(H, i, j) /\ i <= h /\ h <= j
      BY <1>1, RunAround
    <2>2. h \in H /\ h \in i..j
      BY <1>1, <2>1
    <2>3. GapOf(H, i, j) \in G /\ Holds(GapOf(H, i, j), h)
      BY <1>4, <2>1, <2>2
    <2>4. k[h] = CHOOSE g \in G : Holds(g, h)
      OBVIOUS
    <2> HIDE DEF G, Holds, k
    <2> QED
      BY <2>3, <2>4
  <1>8. ASSUME NEW g \in G
        PROVE  f[g] = Cardinality({h \in M : k[h] = g}) /\ f[g] \in Nat
    <2>1. PICK i \in H, j \in H : MaximalRun(H, i, j) /\ g = GapOf(H, i, j)
      BY <1>5
    <2>2. ASSUME NEW h \in M, k[h] = g
          PROVE  h \in H \cap i..j
      BY <1>4, <1>7, <2>1, <2>2
    <2>3. ASSUME NEW h \in H \cap i..j
          PROVE  h \in M /\ k[h] = g
      <3>1. h \in M
        BY <2>1 DEF MaximalRun, Unbroken
      <3>2. PICK a \in H, b \in H : MaximalRun(H, a, b) /\ k[h] = GapOf(H, a, b)
        BY <1>5, <1>7, <3>1
      <3>3. h \in a..b
        BY <1>4, <1>7, <3>1, <3>2
      <3>4. i <= h /\ h <= j /\ a <= h /\ h <= b
        BY <3>3
      <3>5. i = a /\ j = b
        BY <1>1, <2>1, <3>2, <3>4, RunsMeet
      <3> QED
        BY <2>1, <3>1, <3>2, <3>5
    <2>4. {h \in M : k[h] = g} = H \cap i..j
      <3> HIDE DEF M, k
      <3> QED
        BY <2>2, <2>3
    <2>5. f[g] = g.hours
      OBVIOUS
    <2>6. g.hours = Cardinality(H \cap i..j) /\ Cardinality(H \cap i..j) \in Nat
      BY <1>4, <2>1
    <2> HIDE DEF f, k, M, G
    <2> QED
      BY <2>4, <2>5, <2>6
  <1>9. {h \in M : k[h] \in G} = M
    <2> HIDE DEF M, k, G
    <2> QED
      BY <1>7
  <1>10. SumFunction(f) = SumFunctionOnSet(f, G)
    BY DEF SumFunction
  <1> HIDE DEF f, k, G, M
  <1>11. /\ \A g \in G : f[g] \in Nat
         /\ \A g \in G : f[g] <= Cardinality({h \in M : k[h] = g})
         /\ \A g \in G : f[g] >= Cardinality({h \in M : k[h] = g})
    <2> SUFFICES ASSUME NEW g \in G
                 PROVE  /\ f[g] \in Nat
                        /\ f[g] <= Cardinality({h \in M : k[h] = g})
                        /\ f[g] >= Cardinality({h \in M : k[h] = g})
      OBVIOUS
    <2>1. f[g] = Cardinality({h \in M : k[h] = g}) /\ f[g] \in Nat
      BY <1>8
    <2> QED
      BY <2>1
  <1>12. SumFunctionOnSet(f, G) <= Cardinality({h \in M : k[h] \in G})
    BY <1>2, <1>3, <1>11, CountedByParts
  <1>13. SumFunctionOnSet(f, G) >= Cardinality({h \in M : k[h] \in G})
    BY <1>2, <1>3, <1>11, CountedByParts
  <1>14. SumFunctionOnSet(f, G) \in Nat /\ Cardinality(M) \in Nat
    BY <1>2, <1>3, <1>11, SumIsNat, FS_CardinalityType
  <1>15. SumFunction(f) = Cardinality(M)
    BY <1>9, <1>10, <1>12, <1>13, <1>14
  <1> QED
    BY <1>6, <1>15 DEF f, M

\* The battery readings among the events E.
Readings(E) == {e \in E : e.kind \in Battery /\ Percentage[e.kind] # {}}
Levels(E) == UNION {Percentage[e.kind] : e \in {e \in E : e.kind \in Battery}}

LEMMA LevelsOfReadings ==
  ASSUME NEW E
  PROVE  /\ Levels(E) \subseteq 0..100
         /\ \A p \in Levels(E) : \E e \in Readings(E) : p \in Percentage[e.kind]
         /\ \A e \in Readings(E) : Percentage[e.kind] \subseteq Levels(E)
         /\ Levels(E) = {} <=> Readings(E) = {}
  <1>1. \A b \in Battery : Percentage[b] \subseteq 0..100
    BY DayAssumption
  <1>2. \A p \in Levels(E) : \E e \in E : e.kind \in Battery /\ p \in Percentage[e.kind]
    BY DEF Levels
  <1>3. \A e \in Readings(E) : Percentage[e.kind] \subseteq Levels(E)
    BY DEF Levels, Readings
  <1>4. \A p \in Levels(E) : \E e \in Readings(E) : p \in Percentage[e.kind]
    BY <1>2 DEF Readings
  <1>5. Levels(E) \subseteq 0..100
    BY <1>1, <1>2
  <1>6. \A e \in Readings(E) : Percentage[e.kind] # {}
    BY DEF Readings
  <1> QED
    BY <1>3, <1>4, <1>5, <1>6

\* An hour's level is None exactly if it has no readings, and within any bounds
\* of these.
LEMMA LevelOfHour ==
  ASSUME NEW E, IsFiniteSet(E)
  PROVE  /\ HourFeatures(E).level = {} <=> Readings(E) = {}
         /\ \A lo, hi \in Nat :
               (\A p \in Levels(E) : lo <= p /\ p <= hi) /\ Readings(E) # {} =>
                   \E v \in Nat : HourFeatures(E).level = {v} /\ lo <= v /\ v <= hi
  <1> DEFINE R == {e \in {e \in E : e.kind \in Battery} : Percentage[e.kind] # {}}
             f == [e \in R |-> CHOOSE p \in Percentage[e.kind] : TRUE]
  <1>1. R = Readings(E)
    BY DEF Readings
  <1>2. HourFeatures(E).level = Mean(f)
    BY DEF HourFeatures
  <1>3. DOMAIN f = Readings(E)
    BY <1>1
  <1>4. IsFiniteSet(Readings(E))
    BY FS_Subset DEF Readings
  <1>5. ASSUME NEW e \in Readings(E)
        PROVE  f[e] \in Levels(E) /\ f[e] \in Nat
    <2>1. f[e] = CHOOSE p \in Percentage[e.kind] : TRUE
      BY <1>1
    <2>2. f[e] \in Percentage[e.kind]
      <3> HIDE DEF f
      <3> QED
        BY <2>1 DEF Readings
    <2>3. f[e] \in Levels(E) /\ Levels(E) \subseteq 0..100
      <3> HIDE DEF f
      <3> QED
        BY <2>2, LevelsOfReadings
    <2> HIDE DEF f
    <2> QED
      BY <2>3
  <1> HIDE DEF f, R
  <1>6. ASSUME NEW lo \in Nat, NEW hi \in Nat, \A p \in Levels(E) : lo <= p /\ p <= hi,
               Readings(E) # {}
        PROVE  \E v \in Nat : HourFeatures(E).level = {v} /\ lo <= v /\ v <= hi
    <2>1. /\ IsFiniteSet(DOMAIN f) /\ DOMAIN f # {}
          /\ \A x \in DOMAIN f : f[x] \in Nat /\ lo <= f[x] /\ f[x] <= hi
      BY <1>3, <1>4, <1>5, <1>6
    <2>2. \E v \in Nat : Mean(f) = {v} /\ lo <= v /\ v <= hi
      BY <2>1, MeanIsBetween
    <2> QED
      BY <1>2, <2>2
  <1>7. HourFeatures(E).level = {} <=> Readings(E) = {}
    <2>1. CASE Readings(E) = {}
      BY <1>2, <1>3, <2>1 DEF Mean
    <2>2. CASE Readings(E) # {}
      <3>1. HourFeatures(E).level # {}
        BY <1>2, <1>3, <2>2 DEF Mean
      <3> QED
        BY <2>2, <3>1
    <2> QED
      BY <2>1, <2>2
  <1> QED
    BY <1>6, <1>7

\* The day's level is None exactly if the day has no readings, and otherwise one
\* number that lies between two of them.
LEMMA LevelOfDay ==
  ASSUME TypesInv, DayFields, RowsCurrent, FeaturesCurrent, WholeDay
  PROVE  /\ DayFeatures(request.start).level = {} <=> Levels(DayEvents) = {}
         /\ \A v \in DayFeatures(request.start).level :
               /\ \E p \in Levels(DayEvents) : p <= v
               /\ \E p \in Levels(DayEvents) : p >= v
  <1> DEFINE known == {h \in WholeHours : hourly[h].level # {}}
             f == [h \in known |-> CHOOSE v \in hourly[h].level : TRUE]
             E(h) == EventsOf(held, request, h)
  <1>1. /\ RolledUpHours(request.start) = WholeHours
        /\ HourRange(request) = WholeHours
        /\ WholeHours \subseteq Hours
    BY HoursOfWholeDay
  <1>2. StateInv
    BY DEF TypesInv
  <1>3. DayFeatures(request.start).level = Mean(f)
    BY <1>1 DEF DayFeatures
  <1>4. DOMAIN f = known
    OBVIOUS
  <1>5. IsFiniteSet(known)
    BY <1>1, HoursFinite
  <1>6. /\ \A h : E(h) \subseteq DayEvents /\ IsFiniteSet(E(h))
        /\ \A e \in DayEvents : Hour(e.slot) \in WholeHours /\ e \in E(Hour(e.slot))
    <2>1. \A h : {e \in DayEvents : HourOf[e] = h} = E(h)
      BY <1>2, EventsOfTheDay
    <2>2. \A e \in DayEvents : HourOf[e] = Hour(e.slot) /\ HourOf[e] \in WholeHours
      BY <1>1, <1>2, EventsOfTheDay
    <2>3. \A h : IsFiniteSet(E(h))
      BY <1>2, EventsOfTheDay
    <2> HIDE DEF E
    <2> QED
      BY <2>1, <2>2, <2>3
  <1>7. \A h \in WholeHours : hourly[h] = HourFeatures(E(h))
    BY <1>1 DEF FeaturesCurrent
  <1> HIDE DEF E
  <1>8. ASSUME NEW h \in WholeHours
        PROVE  /\ h \in known <=> Readings(E(h)) # {}
               /\ Levels(E(h)) \subseteq Levels(DayEvents)
               /\ Readings(E(h)) \subseteq Readings(DayEvents)
    <2>1. hourly[h].level = {} <=> Readings(E(h)) = {}
      BY <1>6, <1>7, LevelOfHour
    <2>2. Levels(E(h)) \subseteq Levels(DayEvents)
      BY <1>6 DEF Levels
    <2>3. Readings(E(h)) \subseteq Readings(DayEvents)
      BY <1>6 DEF Readings
    <2> QED
      BY <2>1, <2>2, <2>3
  <1>9. known = {} <=> Levels(DayEvents) = {}
    <2>1. known = {} <=> Readings(DayEvents) = {}
      <3>1. ASSUME NEW e \in Readings(DayEvents)
            PROVE  known # {}
        <4>1. e \in DayEvents
          BY DEF Readings
        <4>2. e \in E(Hour(e.slot)) /\ Hour(e.slot) \in WholeHours
          BY <1>6, <4>1
        <4>3. e \in Readings(E(Hour(e.slot)))
          BY <4>2 DEF Readings
        <4>4. Hour(e.slot) \in known
          BY <1>8, <4>2, <4>3
        <4> HIDE DEF known
        <4> QED
          BY <4>4
      <3>2. ASSUME NEW h \in known
            PROVE  Readings(DayEvents) # {}
        BY <1>8, <3>2
      <3> HIDE DEF known
      <3> QED
        BY <3>1, <3>2
    <2> HIDE DEF known
    <2> QED
      BY <2>1, LevelsOfReadings
  <1> HIDE DEF f
  <1>10. CASE Levels(DayEvents) = {}
    <2>1. DOMAIN f = {}
      BY <1>4, <1>9, <1>10
    <2>2. Mean(f) = {}
      BY <2>1 DEF Mean
    <2> QED
      BY <1>3, <1>10, <2>2
  <1>11. CASE Levels(DayEvents) # {}
    <2> DEFINE L == Levels(DayEvents)
    <2>1. L \subseteq Nat /\ L # {} /\ \A p \in L : p <= 100
      <3>1. L \subseteq 0..100
        BY LevelsOfReadings
      <3> HIDE DEF L
      <3> QED
        BY <1>11, <3>1 DEF L
    <2> HIDE DEF L
    <2>2. PICK lo \in L : \A p \in L : lo <= p
      BY <2>1, Least
    <2>3. PICK hi \in L : \A p \in L : p <= hi
      BY <2>1, Greatest
    <2>4. lo \in Nat /\ hi \in Nat
      BY <2>1
    <2>5. ASSUME NEW h \in known
          PROVE  f[h] \in Nat /\ lo <= f[h] /\ f[h] <= hi
      <3>1. h \in WholeHours
        OBVIOUS
      <3>2. Readings(E(h)) # {} /\ Levels(E(h)) \subseteq L
        BY <1>8, <2>5, <3>1 DEF L
      <3>3. \A p \in Levels(E(h)) : lo <= p /\ p <= hi
        BY <2>2, <2>3, <3>2
      <3>4. IsFiniteSet(E(h))
        BY <1>6
      <3>5. PICK v \in Nat : HourFeatures(E(h)).level = {v} /\ lo <= v /\ v <= hi
        BY <2>4, <3>2, <3>3, <3>4, LevelOfHour
      <3>6. f[h] = CHOOSE v1 \in hourly[h].level : TRUE
        BY DEF f
      <3>7. hourly[h].level = {v}
        BY <1>7, <3>1, <3>5
      <3>8. f[h] = v
        BY <3>6, <3>7
      <3> QED
        BY <3>5, <3>8
    <2> HIDE DEF known
    <2>6. \E v \in Nat : Mean(f) = {v} /\ lo <= v /\ v <= hi
      <3>1. /\ IsFiniteSet(DOMAIN f) /\ DOMAIN f # {}
            /\ \A x \in DOMAIN f : f[x] \in Nat /\ lo <= f[x] /\ f[x] <= hi
        BY <1>4, <1>5, <1>9, <1>11, <2>5
      <3> QED
        BY <2>4, <3>1, MeanIsBetween
    <2>7. PICK v \in Nat : DayFeatures(request.start).level = {v} /\ lo <= v /\ v <= hi
      BY <1>3, <2>6
    <2> QED
      BY <1>11, <2>2, <2>3, <2>4, <2>7 DEF L
  <1> QED
    BY <1>10, <1>11

\* Rounding to hundredths of a minute hides a positive sample only among twelve
\* thousand others of its hour.
LEMMA MinutesShown ==
  ASSUME NEW c \in Nat, NEW n \in Nat \ {0}, n < 12000
  PROVE  SampleMinutes(c, n) > 0 <=> c > 0
  <1> DEFINE share == (6000 * c) \div n
             left == (6000 * c) % n
  <1>1. /\ share \in Nat /\ left \in 0..(n - 1)
        /\ 6000 * c = share * n + left /\ 6000 * c \in Nat
    OBVIOUS
  <1>2. SampleMinutes(c, n) = IF 2 * left > n \/ (2 * left = n /\ share % 2 = 1)
                              THEN share + 1 ELSE share
    BY DEF SampleMinutes
  <1> HIDE DEF share, left
  <1>3. CASE c = 0
    <2>1. 6000 * c = 0
      BY <1>3
    <2>2. share * n \in Nat
      BY <1>1
    <2>3. left = 0 /\ share * n = 0
      BY <1>1, <2>1, <2>2
    <2>4. share = 0
      <3> SUFFICES ASSUME share # 0 PROVE FALSE
        OBVIOUS
      <3>1. share >= 1
        BY <1>1
      <3>2. share * n >= 1 * n
        BY <1>1, <3>1
      <3> QED
        BY <2>3, <3>2
    <2> QED
      BY <1>2, <1>3, <2>3, <2>4
  <1>4. CASE c > 0
    <2> SUFFICES ASSUME share = 0 PROVE 2 * left > n
      BY <1>1, <1>2, <1>4
    <2>1. share * n = 0
      OBVIOUS
    <2>2. 6000 * c >= 6000
      BY <1>4
    <2> QED
      BY <1>1, <2>1, <2>2
  <1> QED
    BY <1>3, <1>4

\* The day has charging minutes exactly if a sample of the day reports charging.
LEMMA MinutesOfDay ==
  ASSUME TypesInv, DayFields, RowsCurrent, FeaturesCurrent, WholeDay,
         HeldBound, MaxEvents < 12000
  PROVE  DayFeatures(request.start).minutes > 0
            <=> \E e \in DayEvents : e.kind \in Charging
  <1> DEFINE f == [h \in WholeHours |-> hourly[h].minutes]
             E(h) == EventsOf(held, request, h)
  <1>1. /\ RolledUpHours(request.start) = WholeHours
        /\ HourRange(request) = WholeHours
        /\ WholeHours \subseteq Hours
    BY HoursOfWholeDay
  <1>2. StateInv
    BY DEF TypesInv
  <1>3. DayFeatures(request.start).minutes = SumFunctionOnSet(f, WholeHours)
    BY <1>1 DEF DayFeatures, SumFunction
  <1>4. /\ \A h : E(h) \subseteq DayEvents /\ IsFiniteSet(E(h))
        /\ \A e \in DayEvents : Hour(e.slot) \in WholeHours /\ e \in E(Hour(e.slot))
        /\ IsFiniteSet(DayEvents) /\ DayEvents \subseteq held
    <2>1. \A h : {e \in DayEvents : HourOf[e] = h} = E(h)
      BY <1>2, EventsOfTheDay
    <2>2. \A e \in DayEvents : HourOf[e] = Hour(e.slot) /\ HourOf[e] \in WholeHours
      BY <1>1, <1>2, EventsOfTheDay
    <2>3. \A h : IsFiniteSet(E(h))
      BY <1>2, EventsOfTheDay
    <2>4. IsFiniteSet(DayEvents) /\ DayEvents \subseteq held
      BY <1>2, EventsOfTheDay
    <2> HIDE DEF E
    <2> QED
      BY <2>1, <2>2, <2>3, <2>4
  <1>5. \A h \in WholeHours : hourly[h] = HourFeatures(E(h))
    BY <1>1 DEF FeaturesCurrent
  <1> HIDE DEF E
  <1>6. ASSUME NEW h \in WholeHours
        PROVE  f[h] \in Nat /\ (f[h] > 0 <=> \E e \in E(h) : e.kind \in Charging)
    <2> DEFINE samples == {e \in E(h) : e.kind \in Battery}
               charging == {e \in samples : e.kind \in Charging}
               n == IF samples = {} THEN 1 ELSE Cardinality(samples)
    <2>1. HourFeatures(E(h)).minutes = SampleMinutes(Cardinality(charging), n)
      BY DEF HourFeatures
    <2>2. f[h] = SampleMinutes(Cardinality(charging), n)
      <3>1. f[h] = hourly[h].minutes
        OBVIOUS
      <3> HIDE DEF f, charging, n
      <3> QED
        BY <1>5, <2>1, <3>1
    <2>3. charging # {} <=> \E e \in E(h) : e.kind \in Charging
      BY DayAssumption
    <2>4. samples \subseteq held /\ charging \subseteq samples
      BY <1>4
    <2>5. IsFiniteSet(samples) /\ Cardinality(samples) \in Nat /\ Cardinality(samples) < 12000
      <3>1. IsFiniteSet(held) /\ Cardinality(held) < 12000 /\ Cardinality(held) \in Nat
        BY <1>2, HeldBounded
      <3> HIDE DEF samples
      <3>2. /\ IsFiniteSet(samples) /\ Cardinality(samples) <= Cardinality(held)
            /\ Cardinality(samples) \in Nat
        BY <2>4, <3>1, FS_Subset, FS_CardinalityType
      <3> QED
        BY <3>1, <3>2
    <2>6. IsFiniteSet(charging) /\ Cardinality(charging) \in Nat
      BY <2>4, <2>5, FS_Subset, FS_CardinalityType
    <2> HIDE DEF charging, f
    <2>7. Cardinality(charging) > 0 <=> charging # {}
      BY <2>6, FS_EmptySet
    <2> HIDE DEF samples
    <2>8. n \in Nat \ {0} /\ n < 12000
      BY <2>5, FS_EmptySet
    <2> HIDE DEF n
    <2>9. SampleMinutes(Cardinality(charging), n) > 0 <=> Cardinality(charging) > 0
      BY <2>6, <2>8, MinutesShown
    <2>10. SampleMinutes(Cardinality(charging), n) \in Nat
      BY <2>6, <2>8, SampleMinutesTyped
    <2> QED
      BY <2>2, <2>3, <2>7, <2>9, <2>10
  <1>7. IsFiniteSet(WholeHours)
    BY <1>1, HoursFinite
  <1> HIDE DEF f
  <1>8. SumFunctionOnSet(f, WholeHours) > 0 <=> \E h \in WholeHours : f[h] > 0
    BY <1>6, <1>7, SumIsPositive
  <1>9. (\E h \in WholeHours : f[h] > 0) <=> \E e \in DayEvents : e.kind \in Charging
    <2>1. ASSUME NEW h \in WholeHours, f[h] > 0
          PROVE  \E e \in DayEvents : e.kind \in Charging
      BY <1>4, <1>6, <2>1
    <2>2. ASSUME NEW e \in DayEvents, e.kind \in Charging
          PROVE  \E h \in WholeHours : f[h] > 0
      <3>1. Hour(e.slot) \in WholeHours /\ e \in E(Hour(e.slot))
        BY <1>4
      <3> QED
        BY <1>6, <2>2, <3>1
    <2> QED
      BY <2>1, <2>2
  <1> QED
    BY <1>3, <1>8, <1>9

-----------------------------------------------------------------------------
(* The theorems.                                                            *)

\* The inductive invariant.
THEOREM Invariance == Spec => []IndInv
  <1>1. IndInv /\ [Next]_vars => IndInv'
    <2> SUFFICES ASSUME IndInv, [Next]_vars PROVE IndInv'
      OBVIOUS
    <2>1. StateInv'
      BY StateStep DEF IndInv
    <2> SUFFICES ASSUME request'.asked = "timeline" PROVE OrderInv' /\ BlocksInv'
      BY <2>1 DEF IndInv
    <2>2. CASE Ingest \/ Update \/ ApplyRetention
      <3>1. request' = request
        BY <2>2 DEF Ingest, Update, ApplyRetention
      <3> QED
        BY <2>2, <3>1, OthersKeepBlocks DEF IndInv
    <2>3. CASE AskTimeline \/ AskCoverage \/ AskGaps
      <3>1. request'.todo = TimelineSteps
        BY <2>3, AskedWindows
      <3>2. Left' = 12
        BY <3>1, StepsOfTimeline DEF Left
      <3>3. OrderInv'
        <4>1. \A i \in 1..12 : 12 - 12 + i = i
          OBVIOUS
        <4> QED
          BY <3>1, <3>2, <4>1, SameSteps DEF OrderInv
      <3>4. BlocksInv'
        BY <3>2 DEF BlocksInv, Counted
      <3> QED
        BY <3>3, <3>4
    <2>4. CASE Statement
      BY <2>4, TakenByStatement, StatementsKeepBlocks DEF IndInv, SameDay
    <2>5. CASE ComputeFirst
      BY <2>5, ComputedFirst, ComputeFirstKeepsBlocks DEF IndInv, SameDay
    <2>6. CASE Done \/ UNCHANGED vars
      BY <2>6, SameSteps DEF Done, vars, IndInv, OrderInv, BlocksInv, Left, Counted, RowsBacked,
             FeaturesBacked, ReplyFeaturesBacked, ReplyRowsBacked, CountsCover,
             Borne, EventsOf, WholeHours, Hours, Backed, ReceivedOf, Received, Hour
    <2> QED
      BY <2>2, <2>3, <2>4, <2>5, <2>6 DEF Next, Statement
  <1> QED
    BY <1>1, InitInv, PTL DEF Spec

\* Whoever asks, and whatever the app writes between the reads, a block of a
\* whole hour claims no more than the raw counts next to it and the events that
\* retention has deleted meanwhile.
THEOREM BlocksAreBorneOut == Spec => []BlocksBorneOut
  <1>1. IndInv => BlocksBorneOut
    <2> SUFFICES ASSUME IndInv, AnsweredDay PROVE CountsCover
      BY DEF BlocksBorneOut, CountsCover, Borne
    <2>1. request.asked = "timeline" /\ request.todo = <<>>
      BY DEF AnsweredDay, Answered
    <2>2. Left = 0
      BY <2>1 DEF Left
    <2> QED
      BY <2>1, <2>2 DEF IndInv, BlocksInv, Counted
  <1> QED
    BY <1>1, Invariance, PTL

\* The inductive invariant of the types and of the gaps: a request that lists
\* gaps ends with them, so that no row changes between the pass over the rows
\* and the answer.
THEOREM GapsInvariance == Spec => []GapsInv
  <1>1. GapsInv /\ [Next]_vars => GapsInv'
    BY TypesStep, EndsWithGapsStep, GapsStep DEF GapsInv, TypesInv
  <1> QED
    BY <1>1, InitGaps, PTL DEF Spec

\* The state is of its types: the tables have rows of known hours only, every
\* value of a feature is a number or None, and every gap has a start, an end
\* and a length.
THEOREM TypeCorrect == Spec => []TypeOK
  <1>1. GapsInv => TypeOK
    BY DEF GapsInv, TypesInv, StateInv, AskInv, RowsTyped, FeaturesOfHours, DailiesTyped,
           TypeOK
  <1> QED
    BY <1>1, GapsInvariance, PTL

\* The gaps a request lists are the maximal runs of missing rows of at least
\* min_hours in its window, whatever the rows and however the app's writes came
\* between the statements of a tool.
THEOREM GapsAreMaximal == Spec => []GapsAreMaximalRuns
  <1>1. GapsInv => GapsAreMaximalRuns
    BY DEF GapsInv
  <1> QED
    BY <1>1, GapsInvariance, PTL

AddsUpInv == GapsInv /\ HeldBound /\ AppDayInv

\* The inductive invariant of the app's timeline: each statement finds what the
\* ones before it left, because the app does nothing else until it has answered.
THEOREM DayInvariance == Spec => []AddsUpInv
  <1>1. Init => AddsUpInv
    <2> SUFFICES ASSUME Init PROVE AddsUpInv
      OBVIOUS
    <2>1. HeldBound
      BY FS_EmptySet, DayAssumption DEF Init, HeldBound, Received
    <2>2. ~AppDay
      BY DEF Init, NoRequest, AppDay
    <2> QED
      BY <2>1, <2>2, InitGaps DEF AddsUpInv, AppDayInv
  <1>2. AddsUpInv /\ [Next]_vars => AddsUpInv'
    BY TypesStep, EndsWithGapsStep, GapsStep, HeldBoundStep, AppDayStep
       DEF AddsUpInv, GapsInv, TypesInv
  <1> QED
    BY <1>1, <1>2, PTL DEF Spec

\* What is computed along different ways of the app's day agrees.  The premise
\* is what rounding to hundredths of a minute asks for: one sample that reports
\* charging among 12000 or more of its hour rounds to no minutes at all.
THEOREM AddsUp ==
  ASSUME MaxEvents < 12000
  PROVE  Spec => []DayAddsUp
  <1>1. AddsUpInv => DayAddsUp
    <2> SUFFICES ASSUME AddsUpInv, AnsweredDay, request.who = "app" PROVE DayAddsUp
      BY DEF DayAddsUp
    <2> DEFINE day == DayFeatures(request.start)
               length == request.end - request.start
    <2>1. TypesInv /\ GapsAreMaximalRuns /\ HeldBound /\ StateInv
      BY DEF AddsUpInv, GapsInv, TypesInv
    <2>2. request.todo = <<>> /\ request.asked = "timeline" /\ Answered
      BY DEF AnsweredDay, Answered
    <2>3. Left = 0
      BY <2>2 DEF Left
    <2>4. DayInv
      BY <2>2 DEF AddsUpInv, AppDayInv, AppDay
    <2>5. DayFields /\ RowsCurrent /\ FeaturesCurrent /\ reply.daily = {day}
      BY <2>3, <2>4 DEF DayInv, DailyCurrent, DailyRead, Today
    <2>6. WholeDay => reply.summary = Summary(request)
      BY <2>3, <2>4 DEF DayInv, SummaryCurrent
    <2>7. reply.gaps = MaximalGaps(StoredIn(rows, request), 1)
      BY <2>1, <2>2, <2>5 DEF GapsAreMaximalRuns, DayFields
    <2>8. (CHOOSE d \in reply.daily : TRUE) = day
      <3> HIDE DEF day
      <3> QED
        BY <2>5
    <2>9. /\ request.start \in Nat /\ request.end \in Nat /\ RollUpLength \in Nat
      BY <2>1, DayAssumption DEF StateInv
    <2>10. length >= RollUpLength => day.total <= Cardinality(DayEvents)
      BY <2>1, <2>5, TotalIsOfTheDay
    <2>11. length <= RollUpLength /\ Aligned(request.start)
             => day.total >= Cardinality(DayEvents)
      BY <2>1, <2>5, TotalCountsTheDay
    <2>12. length = RollUpLength /\ Aligned(request.start) => WholeDay
      BY <2>9 DEF WholeDay
    <2>13. ASSUME WholeDay
           PROVE  /\ day.missing = Cardinality(EmptyHours)
                  /\ reply.summary.missing = Cardinality(EmptyHours)
                  /\ reply.summary.complete <=> EmptyHours = {}
      <3>1. /\ day.missing = Cardinality(EmptyHours)
            /\ Summary(request).missing = Cardinality(EmptyHours)
            /\ Summary(request).complete <=> EmptyHours = {}
        BY <2>1, <2>5, <2>13, MissingOfWholeDay
      <3> HIDE DEF day
      <3> QED
        BY <2>6, <2>13, <3>1
    <2>14. ASSUME WholeDay
           PROVE  SumFunction([g \in reply.gaps |-> g.hours]) = Cardinality(EmptyHours)
      <3>1. StoredIn(rows, request) \in SUBSET Hours
        BY <2>1 DEF TypesInv, RowsTyped, StoredIn
      <3>2. EmptyHours = {h \in StoredIn(rows, request) : rows[h] = 0}
        BY <2>1, <2>5, <2>14, MissingOfWholeDay
      <3> QED
        BY <2>7, <3>1, <3>2, GapsCountMissingRows
    <2>15. ASSUME WholeDay
           PROVE  /\ \A v \in day.level : (\E p \in Levels(DayEvents) : p <= v)
                                          /\ (\E p \in Levels(DayEvents) : p >= v)
                  /\ day.level = {} <=> Levels(DayEvents) = {}
      BY <2>1, <2>5, <2>15, LevelOfDay
    <2>16. ASSUME WholeDay
           PROVE  day.minutes > 0 <=> \E e \in DayEvents : e.kind \in Charging
      BY <2>1, <2>5, <2>16, MinutesOfDay
    <2> DEFINE read == CHOOSE d \in reply.daily : TRUE
    <2>17. read = day
      BY <2>8
    <2> HIDE DEF day, read, length
    <2>18. length >= RollUpLength => read.total <= Cardinality(DayEvents)
      BY <2>10, <2>17
    <2>19. length <= RollUpLength /\ Aligned(request.start)
             => read.total >= Cardinality(DayEvents)
      BY <2>11, <2>17
    <2>20. ASSUME length = RollUpLength /\ Aligned(request.start)
           PROVE  /\ read.missing = Cardinality(EmptyHours)
                  /\ reply.summary.missing = Cardinality(EmptyHours)
                  /\ reply.summary.complete <=> EmptyHours = {}
                  /\ SumFunction([g \in reply.gaps |-> g.hours]) = Cardinality(EmptyHours)
                  /\ \A v \in read.level : (\E p \in Levels(DayEvents) : p <= v)
                                          /\ (\E p \in Levels(DayEvents) : p >= v)
                  /\ read.level = {} <=> Levels(DayEvents) = {}
                  /\ read.minutes > 0 <=> \E e \in DayEvents : e.kind \in Charging
      <3>1. WholeDay
        BY <2>12, <2>20
      <3>2. read.missing = Cardinality(EmptyHours)
        BY <2>13, <2>17, <3>1
      <3>3. reply.summary.missing = Cardinality(EmptyHours)
        BY <2>13, <3>1
      <3>4. reply.summary.complete <=> EmptyHours = {}
        BY <2>13, <3>1
      <3>5. SumFunction([g \in reply.gaps |-> g.hours]) = Cardinality(EmptyHours)
        BY <2>14, <3>1
      <3>6. \A v \in read.level : (\E p \in Levels(DayEvents) : p <= v)
                                 /\ (\E p \in Levels(DayEvents) : p >= v)
        BY <2>15, <2>17, <3>1
      <3>7. read.level = {} <=> Levels(DayEvents) = {}
        BY <2>15, <2>17, <3>1
      <3>8. read.minutes > 0 <=> \E e \in DayEvents : e.kind \in Charging
        BY <2>16, <2>17, <3>1
      <3> QED
        BY <3>2, <3>3, <3>4, <3>5, <3>6, <3>7, <3>8, PTL
    <2> QED
      BY <2>18, <2>19, <2>20, PTL
         DEF DayAddsUp, length, read, DayEvents, EmptyHours, Levels
  <1> QED
    BY <1>1, DayInvariance, PTL
=============================================================================
