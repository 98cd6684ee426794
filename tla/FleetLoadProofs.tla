--------------------------- MODULE FleetLoadProofs ---------------------------
(***************************************************************************)
(* What holds of the load of a fleet, going out and coming back: the       *)
(* shares dealt out add up to what was asked for, for every scenario,      *)
(* every number of users, rate and workers, and every change; and the      *)
(* percentiles of the sketches that are merged are those of the values     *)
(* recorded, to within half a bucket, for any values.  Of                  *)
(* SavedSearchesProofs only the lemmas about numbers and sequences are     *)
(* used.                                                                   *)
(***************************************************************************)
EXTENDS FleetPlan, Histogram, SavedSearchesProofs


-----------------------------------------------------------------------------
(* Sums over finite sets. *)

\* The sums of f over the subsets of S, taken an element at a time.
First(T) == CHOOSE x \in T : TRUE
SumsUp(g, f, T) == g[T] = IF T = {} THEN 0 ELSE f[First(T)] + g[T \ {First(T)}]
Partial(f, S) ==
    CHOOSE g : g = [T \in SUBSET S |-> IF T = {} THEN 0 ELSE f[First(T)] + g[T \ {First(T)}]]

\* A set without its first has fewer elements.
LEMMA RestIsSmaller ==
    ASSUME NEW S, IsFiniteSet(S), NEW n \in Nat, NEW T \in SUBSET S, T # {}, Cardinality(T) <= n + 1
    PROVE  /\ First(T) \in T /\ T \ {First(T)} \in SUBSET S
           /\ Cardinality(T \ {First(T)}) <= n /\ Cardinality(T \ {First(T)}) < Cardinality(T)
<1>1. First(T) \in T
  BY DEF First
<1>2. IsFiniteSet(T)
  BY FS_Subset
<1>3. Cardinality(T \ {First(T)}) = Cardinality(T) - 1 /\ Cardinality(T) \in Nat
  BY <1>1, <1>2, FS_RemoveElement, FS_CardinalityType
<1>4. QED
  BY <1>1, <1>3

\* There are such sums: each set's is its first element's plus the rest's.
LEMMA PartialSums ==
    ASSUME NEW S, IsFiniteSet(S), NEW f PROVE \A T \in SUBSET S : SumsUp(Partial(f, S), f, T)
<1> DEFINE Next(g) == [T \in SUBSET S |-> IF T = {} THEN 0 ELSE f[First(T)] + g[T \ {First(T)}]]
           UpTo(g, n) == \A T \in SUBSET S : Cardinality(T) <= n => SumsUp(g, f, T)
           Good == {n \in Nat : \E g : UpTo(g, n)}
<1>1. 0 \in Good
  <2> DEFINE g == [T \in SUBSET S |-> 0]
  <2>1. ASSUME NEW T \in SUBSET S, Cardinality(T) <= 0 PROVE SumsUp(g, f, T)
    <3>1. IsFiniteSet(T)
      BY FS_Subset
    <3>2. Cardinality(T) \in Nat
      BY <3>1, FS_CardinalityType
    <3>3. T = {}
      BY <2>1, <3>1, <3>2, FS_EmptySet
    <3>4. QED
      BY <3>3 DEF SumsUp
  <2> HIDE DEF g
  <2>2. UpTo(g, 0)
    BY <2>1
  <2>3. QED
    BY <2>2
<1>2. ASSUME NEW n \in Good PROVE n + 1 \in Good
  <2>1. PICK g : UpTo(g, n)
    OBVIOUS
  <2> DEFINE h == [T \in SUBSET S |-> IF Cardinality(T) <= n THEN g[T]
                                          ELSE f[First(T)] + g[T \ {First(T)}]]
  <2>2. ASSUME NEW T \in SUBSET S, Cardinality(T) <= n + 1 PROVE SumsUp(h, f, T)
    <3>1. CASE T = {}
      <4>1. Cardinality(T) <= n /\ SumsUp(g, f, T)
        BY <2>1, <3>1, FS_EmptySet
      <4>2. QED
        BY <3>1, <4>1 DEF SumsUp
    <3>2. CASE T # {}
      <4>1. /\ T \ {First(T)} \in SUBSET S /\ Cardinality(T \ {First(T)}) <= n
        BY <2>2, <3>2, RestIsSmaller
      <4>2. h[T \ {First(T)}] = g[T \ {First(T)}]
        BY <4>1
      <4>3. Cardinality(T) <= n => g[T] = f[First(T)] + g[T \ {First(T)}]
        BY <2>1, <3>2 DEF SumsUp
      <4>4. h[T] = f[First(T)] + g[T \ {First(T)}]
        BY <4>3
      <4>5. QED
        BY <3>2, <4>2, <4>4 DEF SumsUp
    <3>3. QED
      BY <3>1, <3>2
  <2> HIDE DEF h
  <2>3. UpTo(h, n + 1)
    BY <2>2
  <2>4. QED
    BY <2>3
<1>3. Good = Nat
  <2> HIDE DEF Good
  <2>1. Good \in SUBSET Nat
    BY DEF Good
  <2>2. QED
    BY <1>1, <1>2, <2>1, AllNats
<1>4. Cardinality(S) \in Nat
  BY FS_CardinalityType
<1>5. PICK g : UpTo(g, Cardinality(S))
  BY <1>3, <1>4
<1>6. ASSUME NEW T \in SUBSET S PROVE SumsUp(g, f, T)
  <2>1. Cardinality(T) <= Cardinality(S)
    BY FS_Subset
  <2>2. QED
    BY <1>5, <2>1
<1> DEFINE k == [T \in SUBSET S |-> g[T]]
<1>7. k = [T \in SUBSET S |-> IF T = {} THEN 0 ELSE f[First(T)] + k[T \ {First(T)}]]
  <2>1. ASSUME NEW T \in SUBSET S
        PROVE  k[T] = IF T = {} THEN 0 ELSE f[First(T)] + k[T \ {First(T)}]
    BY <1>6 DEF SumsUp
  <2>2. QED
    BY <2>1
<1> HIDE DEF k
<1>8. Partial(f, S) = [T \in SUBSET S |-> IF T = {} THEN 0 ELSE f[First(T)] + Partial(f, S)[T \ {First(T)}]]
  BY <1>7 DEF Partial
<1>9. QED
  BY <1>8 DEF SumsUp

\* The sum over a set is the last of them.
LEMMA SumIsPartial == ASSUME NEW f, NEW S PROVE Sum0(f, S) = Partial(f, S)[S]
  BY Zenon DEF Sum0, MapThenSumSet, MapThenFoldSet, Partial, First

\* What holds of the empty set, and of a set when it holds of all but its first, holds of all.
LEMMA AllSubsets ==
    ASSUME NEW S, IsFiniteSet(S), NEW W \in SUBSET SUBSET S, {} \in W,
           \A T \in SUBSET S : T # {} /\ T \ {First(T)} \in W => T \in W
    PROVE  W = SUBSET S
<1>1. SUFFICES ASSUME NEW T0 \in SUBSET S, T0 \notin W PROVE FALSE
  OBVIOUS
<1> DEFINE Sizes == {Cardinality(T) : T \in (SUBSET S) \ W}
<1>2. Sizes \in SUBSET Nat
  <2>1. \A T \in SUBSET S : IsFiniteSet(T)
    BY FS_Subset
  <2>2. \A T \in SUBSET S : Cardinality(T) \in Nat
    BY <2>1, FS_CardinalityType
  <2>3. QED
    BY <2>2
<1>3. Sizes # {}
  BY <1>1
<1>4. PICK n \in Sizes : \A m \in Sizes : n <= m
  <2> HIDE DEF Sizes
  <2> QED
    BY <1>2, <1>3, LeastOfSome
<1>5. PICK T \in (SUBSET S) \ W : n = Cardinality(T)
  OBVIOUS
<1>6. T # {}
  OBVIOUS
<1>7. n \in Nat
  BY <1>2
<1>8. /\ T \ {First(T)} \in SUBSET S /\ Cardinality(T \ {First(T)}) < n
  BY <1>5, <1>6, <1>7, RestIsSmaller
<1>9. T \ {First(T)} \notin W
  BY <1>5, <1>6
<1>10. Cardinality(T \ {First(T)}) \in Nat
  BY <1>8, FS_Subset, FS_CardinalityType
<1>11. n <= Cardinality(T \ {First(T)})
  BY <1>4, <1>8, <1>9
<1>12. QED
  BY <1>7, <1>8, <1>10, <1>11

\* A partial sum of integers is one.
LEMMA PartialIsInt ==
    ASSUME NEW S, IsFiniteSet(S), NEW f, \A x \in S : f[x] \in Int
    PROVE  \A T \in SUBSET S : Partial(f, S)[T] \in Int
<1> DEFINE W == {T \in SUBSET S : Partial(f, S)[T] \in Int}
<1>1. {} \in W
  <2>1. SumsUp(Partial(f, S), f, {})
    BY PartialSums
  <2>2. Partial(f, S)[{}] = 0
    BY <2>1 DEF SumsUp
  <2>3. QED
    BY <2>2
<1>2. ASSUME NEW T \in SUBSET S, T # {}, T \ {First(T)} \in W PROVE T \in W
  <2>1. First(T) \in S
    BY <1>2 DEF First
  <2>2. Partial(f, S)[T] = f[First(T)] + Partial(f, S)[T \ {First(T)}]
    BY <1>2, PartialSums DEF SumsUp
  <2>3. QED
    BY <1>2, <2>1, <2>2
<1>3. W = SUBSET S
  <2> HIDE DEF W
  <2>1. W \in SUBSET SUBSET S
    BY DEF W
  <2>2. QED
    BY <1>1, <1>2, <2>1, AllSubsets
<1>4. QED
  BY <1>3

\* Any element can be taken first.
LEMMA PartialTakes ==
    ASSUME NEW S, IsFiniteSet(S), NEW f, \A x \in S : f[x] \in Int
    PROVE  \A T \in SUBSET S : \A x \in T : Partial(f, S)[T] = f[x] + Partial(f, S)[T \ {x}]
<1> DEFINE P == Partial(f, S)
           TakesAny(T) == \A x \in T : P[T] = f[x] + P[T \ {x}]
           Good == {n \in Nat : \A T \in SUBSET S : Cardinality(T) <= n => TakesAny(T)}
<1>0. \A T \in SUBSET S : IsFiniteSet(T) /\ Cardinality(T) \in Nat
  BY FS_Subset, FS_CardinalityType
<1>1. 0 \in Good
  <2>1. ASSUME NEW T \in SUBSET S, Cardinality(T) <= 0 PROVE T = {}
    BY <1>0, <2>1, FS_EmptySet
  <2> HIDE DEF P
  <2>2. QED
    BY <2>1
<1>2. ASSUME NEW n \in Good PROVE n + 1 \in Good
  <2>0. n \in Nat
    OBVIOUS
  <2>1. ASSUME NEW T \in SUBSET S, Cardinality(T) <= n + 1, NEW x \in T PROVE P[T] = f[x] + P[T \ {x}]
    <3> DEFINE y == First(T)
    <3>1. /\ y \in T /\ P[T] = f[y] + P[T \ {y}] /\ Cardinality(T \ {y}) <= n
      <4>1. y \in T /\ Cardinality(T \ {y}) <= n
        BY <2>0, <2>1, RestIsSmaller
      <4>2. SumsUp(P, f, T)
        BY <2>1, PartialSums
      <4>3. P[T] = f[y] + P[T \ {y}]
        BY <2>1, <4>2 DEF SumsUp
      <4>4. QED
        BY <4>1, <4>3
    <3>2. CASE x = y
      BY <3>1, <3>2
    <3>3. CASE x # y
      <4>1. x \in T \ {y} /\ T \ {y} \in SUBSET S /\ y \in T \ {x} /\ T \ {x} \in SUBSET S
        BY <3>1, <3>3
      <4>2. Cardinality(T \ {x}) <= n
        <5>1. Cardinality(T \ {x}) = Cardinality(T) - 1
          BY <1>0, FS_RemoveElement
        <5>2. QED
          BY <1>0, <2>0, <2>1, <5>1
      <4> HIDE DEF P, y
      <4>3. P[T \ {y}] = f[x] + P[(T \ {y}) \ {x}]
        BY <3>1, <4>1
      <4>4. P[T \ {x}] = f[y] + P[(T \ {x}) \ {y}]
        BY <4>1, <4>2
      <4>5. (T \ {y}) \ {x} = (T \ {x}) \ {y}
        OBVIOUS
      <4>6. /\ f[x] \in Int /\ f[y] \in Int /\ P[(T \ {x}) \ {y}] \in Int
        BY <3>1, PartialIsInt DEF P
      <4>7. P[T] = f[y] + P[T \ {y}]
        BY <3>1
      <4>8. P[T \ {x}] = f[y] + P[(T \ {y}) \ {x}]
        BY <4>4, <4>5
      <4>9. PICK a, b, c \in Int : a = f[x] /\ b = f[y] /\ c = P[(T \ {y}) \ {x}]
        BY <4>5, <4>6
      <4>10. P[T] = b + (a + c) /\ P[T \ {x}] = b + c
        BY <4>3, <4>7, <4>8, <4>9
      <4>11. QED
        BY <4>9, <4>10
    <3>4. QED
      BY <3>2, <3>3
  <2> HIDE DEF P
  <2>2. QED
    BY <2>0, <2>1
<1>3. Good = Nat
  <2> HIDE DEF Good
  <2>1. Good \in SUBSET Nat
    BY DEF Good
  <2>2. QED
    BY <1>1, <1>2, <2>1, AllNats
<1>4. ASSUME NEW T \in SUBSET S PROVE TakesAny(T)
  <2>1. Cardinality(T) \in Good
    <3> HIDE DEF Good
    <3> QED
      BY <1>0, <1>3
  <2> HIDE DEF TakesAny
  <2>2. QED
    BY <1>0, <2>1
<1>5. QED
  BY <1>4

\* The sums over a subset do not depend on the set it is taken from.
LEMMA PartialIsOne ==
    ASSUME NEW S, IsFiniteSet(S), NEW f, NEW U \in SUBSET S
    PROVE  \A T \in SUBSET U : Partial(f, S)[T] = Partial(f, U)[T]
<1> DEFINE W == {T \in SUBSET U : Partial(f, S)[T] = Partial(f, U)[T]}
<1>0. IsFiniteSet(U)
  BY FS_Subset
<1>1. {} \in W
  BY <1>0, PartialSums DEF SumsUp
<1>2. ASSUME NEW T \in SUBSET U, T # {}, T \ {First(T)} \in W PROVE T \in W
  <2>1. Partial(f, S)[T] = f[First(T)] + Partial(f, S)[T \ {First(T)}]
    BY <1>2, PartialSums DEF SumsUp
  <2>2. Partial(f, U)[T] = f[First(T)] + Partial(f, U)[T \ {First(T)}]
    BY <1>0, <1>2, PartialSums DEF SumsUp
  <2>3. QED
    BY <1>2, <2>1, <2>2
<1>3. W = SUBSET U
  <2> HIDE DEF W
  <2>1. W \in SUBSET SUBSET U
    BY DEF W
  <2>2. QED
    BY <1>0, <1>1, <1>2, <2>1, AllSubsets
<1>4. QED
  BY <1>3

\* What a sum is: nothing over no set, and otherwise any element and the sum over the rest.
LEMMA SumTakes ==
    ASSUME NEW S, IsFiniteSet(S), NEW f, \A x \in S : f[x] \in Int
    PROVE  /\ Sum0(f, S) \in Int /\ Sum0(f, {}) = 0
           /\ \A x \in S : Sum0(f, S) = f[x] + Sum0(f, S \ {x})
<1>1. Sum0(f, S) \in Int
  BY PartialIsInt, SumIsPartial
<1>2. Sum0(f, {}) = 0
  <2>1. IsFiniteSet({})
    BY FS_EmptySet
  <2>2. Partial(f, {})[{}] = 0
    BY <2>1, PartialSums DEF SumsUp
  <2>3. QED
    BY <2>2, SumIsPartial
<1>3. ASSUME NEW x \in S PROVE Sum0(f, S) = f[x] + Sum0(f, S \ {x})
  <2>1. Partial(f, S)[S] = f[x] + Partial(f, S)[S \ {x}]
    BY PartialTakes
  <2>2. Partial(f, S)[S \ {x}] = Partial(f, S \ {x})[S \ {x}]
    BY PartialIsOne
  <2>3. QED
    BY <2>1, <2>2, SumIsPartial
<1>4. QED
  BY <1>1, <1>2, <1>3

\* And of two functions that agree on the set.
LEMMA SumsAgree ==
    ASSUME NEW S, IsFiniteSet(S), NEW f, NEW g, \A x \in S : f[x] = g[x]
    PROVE  Sum0(f, S) = Sum0(g, S)
<1> DEFINE W == {T \in SUBSET S : Partial(f, S)[T] = Partial(g, S)[T]}
<1>1. {} \in W
  BY PartialSums DEF SumsUp
<1>2. ASSUME NEW T \in SUBSET S, T # {}, T \ {First(T)} \in W PROVE T \in W
  <2>1. First(T) \in S
    BY <1>2 DEF First
  <2>2. /\ Partial(f, S)[T] = f[First(T)] + Partial(f, S)[T \ {First(T)}]
        /\ Partial(g, S)[T] = g[First(T)] + Partial(g, S)[T \ {First(T)}]
    BY <1>2, PartialSums DEF SumsUp
  <2>3. QED
    BY <1>2, <2>1, <2>2
<1>3. W = SUBSET S
  <2> HIDE DEF W
  <2>1. W \in SUBSET SUBSET S
    BY DEF W
  <2>2. QED
    BY <1>1, <1>2, <2>1, AllSubsets
<1>4. QED
  BY <1>3, SumIsPartial

\* The sum of natural numbers is one, and no less than any of them.
LEMMA SumOfNats ==
    ASSUME NEW S, IsFiniteSet(S), NEW f, \A x \in S : f[x] \in Nat
    PROVE  Sum0(f, S) \in Nat /\ \A x \in S : f[x] <= Sum0(f, S)
<1> DEFINE W == {T \in SUBSET S : Partial(f, S)[T] \in Nat}
<1>0. \A x \in S : f[x] \in Int
  OBVIOUS
<1>1. {} \in W
  <2>1. SumsUp(Partial(f, S), f, {})
    BY PartialSums
  <2>2. Partial(f, S)[{}] = 0
    BY <2>1 DEF SumsUp
  <2>3. QED
    BY <2>2
<1>2. ASSUME NEW T \in SUBSET S, T # {}, T \ {First(T)} \in W PROVE T \in W
  <2>1. First(T) \in S
    BY <1>2 DEF First
  <2>2. Partial(f, S)[T] = f[First(T)] + Partial(f, S)[T \ {First(T)}]
    BY <1>2, PartialSums DEF SumsUp
  <2>3. QED
    BY <1>2, <2>1, <2>2
<1>3. W = SUBSET S
  <2> HIDE DEF W
  <2>1. W \in SUBSET SUBSET S
    BY DEF W
  <2>2. QED
    BY <1>1, <1>2, <2>1, AllSubsets
<1>4. \A T \in SUBSET S : Partial(f, S)[T] \in Nat
  BY <1>3
<1>5. ASSUME NEW x \in S PROVE f[x] <= Partial(f, S)[S]
  <2>1. Partial(f, S)[S] = f[x] + Partial(f, S)[S \ {x}]
    BY <1>0, PartialTakes
  <2>2. Partial(f, S)[S \ {x}] \in Nat /\ f[x] \in Nat
    BY <1>4
  <2>3. QED
    BY <2>1, <2>2
<1>6. QED
  BY <1>4, <1>5, SumIsPartial

\* The sum of what a function has at two points.
LEMMA SumOfTwo ==
    ASSUME NEW f, NEW a, NEW b, a # b, f[a] \in Int, f[b] \in Int PROVE Sum0(f, {a, b}) = f[a] + f[b]
<1>1. IsFiniteSet({a, b}) /\ IsFiniteSet({b})
  <2>1. IsFiniteSet({b})
    BY FS_Singleton
  <2>2. IsFiniteSet({b} \cup {a})
    BY <2>1, FS_AddElement
  <2>3. {b} \cup {a} = {a, b}
    OBVIOUS
  <2>4. QED
    BY <2>1, <2>2, <2>3
<1>2. Sum0(f, {a, b}) = f[a] + Sum0(f, {a, b} \ {a})
  BY <1>1, SumTakes
<1>3. {a, b} \ {a} = {b} /\ {b} \ {b} = {}
  OBVIOUS
<1>4. Sum0(f, {b}) = f[b] + Sum0(f, {b} \ {b}) /\ Sum0(f, {}) = 0
  BY <1>1, SumTakes
<1>5. Sum0(f, {b}) = f[b]
  BY <1>3, <1>4
<1>6. QED
  BY <1>2, <1>3, <1>5

\* f grows by no less than lo does, and by no more than hi, at each place up to n.
GrowsWithin(lo, f, hi, n) ==
    /\ \A i \in 0..n : lo[i] \in Int /\ hi[i] \in Int
    /\ \A i \in 1..n : f[i] \in Int /\ lo[i] - lo[i - 1] <= f[i] /\ f[i] <= hi[i] - hi[i - 1]
    /\ lo[0] = 0 /\ hi[0] = 0

\* Then so does its sum.
LEMMA SumBetween ==
    ASSUME NEW n \in Nat, NEW lo, NEW f, NEW hi, GrowsWithin(lo, f, hi, n)
    PROVE  Sum0(f, 1..n) \in Int /\ lo[n] <= Sum0(f, 1..n) /\ Sum0(f, 1..n) <= hi[n]
<1> DEFINE Ok(m) == Sum0(f, 1..m) \in Int /\ lo[m] <= Sum0(f, 1..m) /\ Sum0(f, 1..m) <= hi[m]
           T == {m \in Nat : m <= n => Ok(m)}
<1>1. 0 \in T
  <2>1. 1..0 = {} /\ IsFiniteSet({})
    BY FS_EmptySet
  <2>2. Sum0(f, {}) = 0
    BY <2>1, SumTakes
  <2>3. QED
    BY <2>1, <2>2 DEF GrowsWithin
<1>2. ASSUME NEW m \in T PROVE m + 1 \in T
  <2>1. SUFFICES ASSUME m + 1 <= n PROVE Ok(m + 1)
    OBVIOUS
  <2>2. m \in Nat /\ Ok(m)
    BY <2>1
  <2>3. m + 1 \in 1..n /\ m + 1 \in 1..(m + 1) /\ (m + 1) - 1 = m /\ m + 1 \in 0..n /\ m \in 0..n
    BY <2>1, <2>2
  <2>4. IsFiniteSet(1..(m + 1))
    BY <2>2, FS_Interval
  <2>5. \A i \in 1..(m + 1) : f[i] \in Int
    BY <2>1, <2>2 DEF GrowsWithin
  <2>6. Sum0(f, 1..(m + 1)) = f[m + 1] + Sum0(f, (1..(m + 1)) \ {m + 1})
    BY <2>3, <2>4, <2>5, SumTakes
  <2>7. (1..(m + 1)) \ {m + 1} = 1..m
    BY <2>2
  <2>8. /\ f[m + 1] \in Int /\ lo[m + 1] - lo[m] <= f[m + 1] /\ f[m + 1] <= hi[m + 1] - hi[m]
        /\ lo[m] \in Int /\ hi[m] \in Int /\ lo[m + 1] \in Int /\ hi[m + 1] \in Int
    <3>1. /\ f[m + 1] \in Int /\ lo[m + 1] - lo[(m + 1) - 1] <= f[m + 1]
          /\ f[m + 1] <= hi[m + 1] - hi[(m + 1) - 1]
      BY <2>3, Zenon DEF GrowsWithin
    <3>2. QED
      BY <2>3, <3>1 DEF GrowsWithin
  <2>9. PICK s \in Int : s = Sum0(f, 1..m)
    BY <2>2
  <2>10. Sum0(f, 1..(m + 1)) = f[m + 1] + s /\ lo[m] <= s /\ s <= hi[m]
    BY <2>2, <2>6, <2>7, <2>9
  <2>11. QED
    BY <2>8, <2>9, <2>10
<1>3. T = Nat
  <2> HIDE DEF T
  <2>1. T \in SUBSET Nat
    BY DEF T
  <2>2. QED
    BY <1>1, <1>2, <2>1, AllNats
<1>4. QED
  BY <1>3

-----------------------------------------------------------------------------
(* Shares of a whole. *)

\* A quotient and its remainder.
LEMMA Divided ==
    ASSUME NEW t \in Nat, NEW n \in Nat \ {0}
    PROVE  /\ t \div n \in Nat /\ t % n \in Nat /\ t % n < n
           /\ t = n * (t \div n) + (t % n)
<1>1. t = n * (t \div n) + (t % n) /\ t % n \in 0..(n - 1) /\ t \div n \in Int
  OBVIOUS
<1>2. t \div n >= 0
  OBVIOUS
<1>3. t \div n \in Nat /\ t % n \in Nat /\ t % n < n
  <2>1. PICK q, r : q = t \div n /\ r = t % n
    OBVIOUS
  <2>2. q \in Int /\ q >= 0 /\ r \in 0..(n - 1)
    BY <1>1, <1>2, <2>1
  <2>3. q \in Nat /\ r \in Nat /\ r < n
    BY <2>2
  <2>4. QED
    BY <2>1, <2>3
<1>4. QED
  BY <1>1, <1>3

\* A product grows with its factors.
LEMMA Times ==
    ASSUME NEW n \in Nat, NEW a \in Int, NEW b \in Int
    PROVE  /\ n * a \in Int /\ (a \in Nat => n * a \in Nat)
           /\ a <= b => n * a <= n * b
           /\ n * (a + b) = n * a + n * b /\ n * (a - b) = n * a - n * b
           /\ n > 0 /\ n * a < n * b => a < b
           /\ n > 0 /\ n * a <= n * b => a <= b
           /\ n * a = a * n /\ n * 1 = n
BY SMTT(30)

\* The quotient grows with what is divided, and the remainder while the quotient stays.
LEMMA QuotientGrows ==
    ASSUME NEW n \in Nat \ {0}, NEW t \in Nat, NEW u \in Nat, t <= u
    PROVE  /\ t \div n <= u \div n
           /\ t \div n = u \div n => t % n <= u % n
<1>1. PICK p, q, r, s \in Nat : p = t \div n /\ q = u \div n /\ r = t % n /\ s = u % n
  BY Divided
<1>2. t = n * p + r /\ u = n * q + s /\ r < n /\ s < n
  BY <1>1, Divided
<1>3. n * q + s < n * (q + 1)
  BY <1>2, Times
<1>4. n * p < n * (q + 1)
  <2>1. n * p \in Int /\ n * (q + 1) \in Int /\ n * q \in Int
    BY Times
  <2>2. n * p + r <= n * q + s
    BY <1>2
  <2>3. QED
    BY <1>3, <2>1, <2>2
<1>5. p < q + 1
  BY <1>4, Times
<1>6. p = q => r <= s
  <2>1. SUFFICES ASSUME p = q PROVE r <= s
    OBVIOUS
  <2>2. n * q \in Int /\ n * q + r <= n * q + s
    BY <1>2, <2>1, Times
  <2>3. QED
    BY <2>2
<1>7. QED
  BY <1>1, <1>5, <1>6

\* The shares of the first i of n.
FirstShares(t, n, i) == i * (t \div n) + (IF i <= t % n THEN i ELSE t % n)

\* Even shares add up to what they are shares of.
LEMMA EvenSharesAddUp ==
    ASSUME NEW t \in Nat, NEW n \in Nat \ {0}
    PROVE  /\ FirstShares(t, n, 0) = 0 /\ FirstShares(t, n, n) = t
           /\ \A i \in 0..n : FirstShares(t, n, i) \in Int
           /\ \A i \in 1..n : /\ SplitEvenly(t, n)[i] \in Nat
                              /\ SplitEvenly(t, n)[i] = FirstShares(t, n, i) - FirstShares(t, n, i - 1)
<1>1. PICK q, r \in Nat : q = t \div n /\ r = t % n
  BY Divided
<1>2. t = n * q + r /\ r < n
  BY <1>1, Divided
<1>3. ASSUME NEW i \in 0..n
      PROVE  /\ FirstShares(t, n, i) = i * q + (IF i <= r THEN i ELSE r)
             /\ FirstShares(t, n, i) \in Int
  BY <1>1 DEF FirstShares
<1>4. ASSUME NEW i \in 1..n
      PROVE  /\ SplitEvenly(t, n)[i] \in Nat
             /\ SplitEvenly(t, n)[i] = FirstShares(t, n, i) - FirstShares(t, n, i - 1)
  <2>1. SplitEvenly(t, n)[i] = q + (IF i <= r THEN 1 ELSE 0)
    BY <1>1 DEF SplitEvenly
  <2>2. i \in 0..n /\ i - 1 \in 0..n /\ i \in Int
    OBVIOUS
  <2>3. i * q = (i - 1) * q + q
    BY SMTT(30)
  <2>4. PICK m, k \in Int : m = i * q /\ k = (i - 1) * q
    BY <2>2
  <2>5. /\ FirstShares(t, n, i) = m + (IF i <= r THEN i ELSE r)
        /\ FirstShares(t, n, i - 1) = k + (IF i - 1 <= r THEN i - 1 ELSE r)
    BY <1>3, <2>2, <2>4
  <2>6. QED
    BY <2>1, <2>2, <2>3, <2>4, <2>5
<1>5. FirstShares(t, n, 0) = 0
  BY <1>3, 0 * q = 0
<1>6. FirstShares(t, n, n) = t
  BY <1>2, <1>3
<1>7. QED
  BY <1>3, <1>4, <1>5, <1>6

\* A larger whole gives nobody less.
LEMMA EvenSharesGrow ==
    ASSUME NEW n \in Nat \ {0}, NEW t \in Nat, NEW u \in Nat, t <= u, NEW i \in 1..n
    PROVE  SplitEvenly(t, n)[i] <= SplitEvenly(u, n)[i]
<1>1. PICK p, q, r, s \in Nat : p = t \div n /\ q = u \div n /\ r = t % n /\ s = u % n
  BY Divided
<1>2. p <= q /\ (p = q => r <= s)
  BY <1>1, QuotientGrows
<1>3. /\ SplitEvenly(t, n)[i] = p + (IF i <= r THEN 1 ELSE 0)
      /\ SplitEvenly(u, n)[i] = q + (IF i <= s THEN 1 ELSE 0)
  BY <1>1 DEF SplitEvenly
<1>4. QED
  BY <1>2, <1>3

\* With enough for all, nobody's share is raised to one.
LEMMA EnoughForAll ==
    ASSUME NEW n \in Nat \ {0}, NEW t \in Nat, n <= t, NEW i \in 1..n
    PROVE  AtLeastOne(SplitEvenly(t, n)[i]) = SplitEvenly(t, n)[i]
<1>1. PICK p, q, r, s \in Nat : p = n \div n /\ q = t \div n /\ r = n % n /\ s = t % n
  BY Divided
<1>2. p = 1
  BY <1>1
<1>3. q >= 1
  BY <1>1, <1>2, QuotientGrows
<1>4. SplitEvenly(t, n)[i] = q + (IF i <= s THEN 1 ELSE 0)
  BY <1>1 DEF SplitEvenly
<1>5. QED
  BY <1>3, <1>4 DEF AtLeastOne

\* A rounded quotient is within half of the divisor.
LEMMA RoundedIsNear ==
    ASSUME NEW a \in Nat, NEW n \in Nat \ {0}
    PROVE  /\ Rounded(a, n) \in Nat
           /\ 2 * (n * Rounded(a, n)) <= 2 * a + n
           /\ 2 * a - n <= 2 * (n * Rounded(a, n))
<1>1. 2 * a + n \in Nat /\ 2 * n \in Nat \ {0}
  OBVIOUS
<1>2. PICK k, r \in Nat : k = (2 * a + n) \div (2 * n) /\ r = (2 * a + n) % (2 * n)
  BY <1>1, Divided
<1>3. 2 * a + n = (2 * n) * k + r /\ r < 2 * n
  BY <1>1, <1>2, Divided
<1>4. (2 * n) * k = 2 * (n * k)
  BY SMTT(30)
<1>5. PICK m \in Int : m = n * k
  BY Times
<1>6. 2 * a + n = 2 * m + r
  BY <1>3, <1>4, <1>5
<1>7. Rounded(a, n) = k
  BY <1>2 DEF Rounded
<1>8. QED
  BY <1>3, <1>5, <1>6, <1>7

\* And it grows with what is divided.
LEMMA RoundedGrows ==
    ASSUME NEW a \in Nat, NEW b \in Nat, NEW n \in Nat \ {0}, a <= b
    PROVE  Rounded(a, n) <= Rounded(b, n)
<1>1. 2 * a + n \in Nat /\ 2 * b + n \in Nat /\ 2 * a + n <= 2 * b + n /\ 2 * n \in Nat \ {0}
  OBVIOUS
<1>2. QED
  BY <1>1, QuotientGrows DEF Rounded

-----------------------------------------------------------------------------
(* The engines' shares of a mixed fleet. *)

\* What of FleetPlanAssumption concerns one run.
LEMMA OrderIs ==
    ASSUME NEW o \in Orders
    PROVE  /\ DOMAIN o.personas # {} /\ IsFiniteSet(DOMAIN o.personas)
           /\ \A i \in DOMAIN o.personas :
                 /\ o.personas[i].weight \in Nat \ {0}
                 /\ o.personas[i].engines # {} /\ o.personas[i].engines \subseteq AllEngines
           /\ o.model \in {"closed", "open", "schedule"}
           /\ o.users \in Nat /\ o.rate \in Nat /\ o.asksUsers \in Nat /\ o.asksRate \in Nat
           /\ o.workers \in Nat
           /\ \A e \in AllEngines : o.crons[e] \in Nat
  BY FleetPlanAssumption

\* A persona weighs something on each engine that it uses.
LEMMA PersonaWeighs ==
    ASSUME NEW p, NEW e, p.weight \in Nat \ {0}, p.engines \subseteq AllEngines
    PROVE  WeightFor(p, e) \in Nat /\ (e \in p.engines => WeightFor(p, e) > 0)
<1>1. CASE e \notin p.engines
  BY <1>1 DEF WeightFor
<1>2. CASE e \in p.engines
  <2>1. p.engines \in {{"api"}, {"browser"}, {"api", "browser"}}
    BY <1>2 DEF AllEngines
  <2>2. \A a : Cardinality({a}) = 1
    BY FS_Singleton
  <2>3. Cardinality({"api", "browser"}) = 2
    <3>1. IsFiniteSet({"api"}) /\ Cardinality({"api"}) = 1 /\ "browser" \notin {"api"}
      BY FS_Singleton
    <3>2. Cardinality({"api"} \cup {"browser"}) = Cardinality({"api"}) + 1
      BY <3>1, FS_AddElement
    <3>3. {"api"} \cup {"browser"} = {"api", "browser"}
      OBVIOUS
    <3>4. QED
      BY <3>1, <3>2, <3>3
  <2>4. PICK n \in {1, 2} : n = Cardinality(p.engines)
    BY <2>1, <2>2, <2>3
  <2>5. PICK k \in Nat \ {0} : k = p.weight
    OBVIOUS
  <2>6. WeightFor(p, e) = (2 * k) \div n
    BY <1>2, <2>4, <2>5 DEF WeightFor
  <2>7. (2 * k) \div 1 = 2 * k /\ (2 * k) \div 2 = k
    BY <2>5
  <2>8. QED
    BY <2>4, <2>5, <2>6, <2>7
<1>3. QED
  BY <1>1, <1>2

\* So does an engine that some persona uses.
LEMMA EngineWeighs ==
    ASSUME NEW o \in Orders, NEW e \in AllEngines
    PROVE  WeightsOf(o)[e] \in Nat /\ (IsUsed(o, e) => WeightsOf(o)[e] > 0)
<1>1. PICK S : S = DOMAIN o.personas
  OBVIOUS
<1>2. PICK f : f = [i \in S |-> WeightFor(o.personas[i], e)]
  OBVIOUS
<1>3. WeightsOf(o)[e] = Sum0(f, S)
  BY <1>1, <1>2 DEF WeightsOf
<1>4. \A i \in S : f[i] \in Nat /\ (e \in o.personas[i].engines => f[i] > 0)
  BY <1>1, <1>2, OrderIs, PersonaWeighs
<1>5. IsFiniteSet(S)
  BY <1>1, OrderIs
<1>6. Sum0(f, S) \in Nat /\ \A i \in S : f[i] <= Sum0(f, S)
  BY <1>4, <1>5, SumOfNats
<1>7. ASSUME IsUsed(o, e) PROVE WeightsOf(o)[e] > 0
  <2>1. PICK i \in S : e \in o.personas[i].engines
    BY <1>1, <1>7 DEF IsUsed
  <2>2. QED
    BY <1>3, <1>4, <1>6, <2>1
<1>8. QED
  BY <1>3, <1>6, <1>7

\* Two shares rounded down leave nothing, or one.
LEMMA AtMostOneLeft ==
    ASSUME NEW total \in Nat, NEW a \in Nat \ {0}, NEW b \in Nat \ {0},
           NEW p \in Nat, NEW q \in Nat, NEW r \in Nat, NEW s \in Nat,
           total * a = (a + b) * p + r, r < a + b,
           total * b = (a + b) * q + s, s < a + b
    PROVE  total - (p + q) \in {0, 1}
<1>1. PICK n \in Nat \ {0} : n = a + b
  OBVIOUS
<1>2. total * a + total * b = n * total
  <2>1. total * (a + b) = total * a + total * b
    BY Times
  <2>2. total * (a + b) = (a + b) * total
    BY Times
  <2>3. QED
    BY <1>1, <2>1, <2>2
<1>3. PICK x, y, z \in Int : x = n * p /\ y = n * q /\ z = n * total
  BY Times
<1>4. z = x + y + r + s
  <2>1. PICK u, v \in Int : u = total * a /\ v = total * b
    BY Times
  <2>2. u = x + r /\ v = y + s
    BY <1>1, <1>3, <2>1
  <2>3. u + v = z
    BY <1>2, <1>3, <2>1
  <2>4. QED
    BY <1>3, <2>1, <2>2, <2>3
<1>5. PICK d \in Int : d = total - (p + q)
  OBVIOUS
<1>6. n * d = z - (x + y)
  <2>1. n * (total - (p + q)) = n * total - n * (p + q) /\ n * (p + q) = n * p + n * q
    BY Times
  <2>2. QED
    BY <1>3, <1>5, <2>1
<1>7. n * d = r + s
  BY <1>3, <1>4, <1>6
<1>8. n * d < n * 2 /\ n * (-1) < n * d
  <2>1. n * 2 = n + n /\ n * (-1) = -n
    OBVIOUS
  <2>2. QED
    BY <1>1, <1>7, <2>1
<1>9. d < 2 /\ -1 < d
  BY <1>5, <1>8, Times
<1>10. QED
  BY <1>5, <1>9

\* The shares of two engines add up to the whole.
LEMMA DealAddsUp ==
    ASSUME NEW total \in Nat, NEW w, DOMAIN w = AllEngines,
           w["api"] \in Nat \ {0}, w["browser"] \in Nat \ {0}
    PROVE  /\ Deal(total, w)["api"] \in Nat /\ Deal(total, w)["browser"] \in Nat
           /\ Deal(total, w)["api"] + Deal(total, w)["browser"] = total
<1>1. PICK a, b \in Nat \ {0} : a = w["api"] /\ b = w["browser"]
  OBVIOUS
<1>2. PICK n \in Nat \ {0} : n = a + b
  OBVIOUS
<1>3. Sum0(w, DOMAIN w) = n
  <2>1. "api" # "browser" /\ w["api"] \in Int /\ w["browser"] \in Int
    OBVIOUS
  <2>2. Sum0(w, {"api", "browser"}) = w["api"] + w["browser"]
    BY <2>1, SumOfTwo
  <2>3. QED
    BY <1>1, <1>2, <2>2 DEF AllEngines
<1>4. total * a \in Nat /\ total * b \in Nat
  BY Times
<1>5. PICK p, q, r, s \in Nat : /\ p = (total * a) \div n /\ q = (total * b) \div n
                                /\ r = (total * a) % n /\ s = (total * b) % n
  BY <1>4, Divided
<1>6. total * a = n * p + r /\ r < n /\ total * b = n * q + s /\ s < n
  BY <1>4, <1>5, Divided
<1>7. DealFloor(total, w, "api") = p /\ DealFloor(total, w, "browser") = q
  BY <1>1, <1>3, <1>5 DEF DealFloor
<1>8. PICK left \in {0, 1} : left = total - (p + q)
  BY <1>2, <1>6, AtMostOneLeft
<1>9. RemainderOf(total, w) = left
  <2>1. PICK f : f = [k \in DOMAIN w |-> DealFloor(total, w, k)]
    OBVIOUS
  <2>2. /\ f["api"] = p /\ f["browser"] = q /\ "api" # "browser"
        /\ f["api"] \in Int /\ f["browser"] \in Int
    BY <1>7, <2>1 DEF AllEngines
  <2>3. Sum0(f, {"api", "browser"}) = f["api"] + f["browser"]
    BY <2>2, SumOfTwo
  <2>4. QED
    BY <1>8, <2>1, <2>2, <2>3 DEF RemainderOf, AllEngines
<1>10. /\ IsAhead(total, w, "api", "browser") <=> r > s
       /\ IsAhead(total, w, "browser", "api") <=> s > r \/ s = r
       /\ ~IsAhead(total, w, "api", "api") /\ ~IsAhead(total, w, "browser", "browser")
  <2>1. Position("api") = 1 /\ Position("browser") = 2
    BY DEF Position
  <2>2. QED
    BY <1>1, <1>3, <1>5, <2>1 DEF IsAhead
<1> DEFINE Ahead(e) == {d \in DOMAIN w : IsAhead(total, w, d, e)}
<1>11. \A x : Cardinality({x}) = 1
  BY FS_Singleton
<1>12. Cardinality({}) = 0
  BY FS_EmptySet
<1>13. \/ Cardinality(Ahead("api")) = 0 /\ Cardinality(Ahead("browser")) = 1
       \/ Cardinality(Ahead("api")) = 1 /\ Cardinality(Ahead("browser")) = 0
  <2>1. CASE r > s
    <3>1. Ahead("api") = {} /\ Ahead("browser") = {"api"}
      BY <1>10, <2>1 DEF AllEngines
    <3>2. QED
      BY <1>11, <1>12, <3>1
  <2>2. CASE ~(r > s)
    <3>1. s > r \/ s = r
      BY <2>2
    <3>2. Ahead("api") = {"browser"} /\ Ahead("browser") = {}
      BY <1>10, <2>2, <3>1 DEF AllEngines
    <3>3. QED
      BY <1>11, <1>12, <3>2
  <2>3. QED
    BY <2>1, <2>2
<1>14. /\ Deal(total, w)["api"] = p + (IF Cardinality(Ahead("api")) < left THEN 1 ELSE 0)
       /\ Deal(total, w)["browser"] = q + (IF Cardinality(Ahead("browser")) < left THEN 1 ELSE 0)
  BY <1>7, <1>9 DEF Deal, AllEngines
<1>15. QED
  <2> HIDE DEF Ahead
  <2> QED
    BY <1>8, <1>13, <1>14

-----------------------------------------------------------------------------
(* The plan of a run. *)

\* One, and then another.
LEMMA OneThenOther == ASSUME NEW a, NEW b PROVE <<a>> \o <<b>> = <<a, b>>
<1>1. PICK s : s = <<a>> \o <<b>>
  OBVIOUS
<1>2. IsSeq(<<a>>) /\ IsSeq(<<b>>) /\ Len(<<a>>) = 1 /\ Len(<<b>>) = 1 /\ <<a>>[1] = a /\ <<b>>[1] = b
  BY ShortSeqs
<1>3. /\ IsSeq(s) /\ Len(s) = 2 /\ s[1] = a /\ s[2] = b
  <2>1. /\ IsSeq(s) /\ Len(s) = Len(<<a>>) + Len(<<b>>)
        /\ \A i \in 1..Len(<<a>>) : s[i] = <<a>>[i]
        /\ \A i \in 1..Len(<<b>>) : s[Len(<<a>>) + i] = <<b>>[i]
    BY <1>1, <1>2, Joined
  <2>2. 1 \in 1..Len(<<a>>) /\ 1 \in 1..Len(<<b>>)
    BY <1>2
  <2>3. s[1] = a /\ s[Len(<<a>>) + 1] = b
    BY <1>2, <2>1, <2>2
  <2>4. QED
    BY <1>2, <2>1, <2>3
<1>4. s = [i \in 1..2 |-> s[i]]
  BY <1>3, SeqPlaces
<1>5. s = <<s[1], s[2]>>
  <2>1. DOMAIN s = 1..2
    BY <1>4
  <2>2. QED
    BY <1>4, <2>1
<1>6. QED
  BY <1>1, <1>3, <1>5

\* A run uses one engine, or both.
LEMMA EnginesAre ==
    ASSUME NEW o \in Orders
    PROVE  \/ ~Mixed(o) /\ \E e \in AllEngines : EnginesOf(o) = <<e>>
           \/ /\ Mixed(o) /\ EnginesOf(o) = <<"api", "browser">>
              /\ IsUsed(o, "api") /\ IsUsed(o, "browser")
<1>1. PICK i \in DOMAIN o.personas : o.personas[i].engines # {} /\ o.personas[i].engines \subseteq AllEngines
  BY OrderIs
<1>2. PICK e \in AllEngines : e \in o.personas[i].engines
  BY <1>1
<1>3. IsUsed(o, "api") \/ IsUsed(o, "browser")
  BY <1>2 DEF IsUsed, AllEngines
<1>4. CASE IsUsed(o, "api") /\ IsUsed(o, "browser")
  <2>1. EnginesOf(o) = <<"api">> \o <<"browser">>
    BY <1>4 DEF EnginesOf
  <2>2. EnginesOf(o) = <<"api", "browser">>
    BY <2>1, OneThenOther
  <2>3. Len(EnginesOf(o)) = 2
    BY <2>2
  <2>4. QED
    BY <1>4, <2>2, <2>3 DEF Mixed
<1>5. CASE IsUsed(o, "api") /\ ~IsUsed(o, "browser")
  <2>1. EnginesOf(o) = <<"api">> \o <<>>
    BY <1>5 DEF EnginesOf
  <2>2. EnginesOf(o) = <<"api">>
    BY <2>1
  <2>3. Len(EnginesOf(o)) = 1
    BY <2>2
  <2>4. QED
    BY <2>2, <2>3 DEF Mixed, AllEngines
<1>6. CASE ~IsUsed(o, "api") /\ IsUsed(o, "browser")
  <2>1. EnginesOf(o) = <<>> \o <<"browser">>
    BY <1>6 DEF EnginesOf
  <2>2. EnginesOf(o) = <<"browser">>
    BY <2>1
  <2>3. Len(EnginesOf(o)) = 1
    BY <2>2
  <2>4. QED
    BY <2>2, <2>3 DEF Mixed, AllEngines
<1>7. QED
  BY <1>3, <1>4, <1>5, <1>6

\* What a run asks for is a number, somebody at least, under one of three models.
LEMMA AskedIs ==
    ASSUME NEW o \in Orders
    PROVE  /\ UsersOf(o) \in Nat \ {0} /\ RateOf(o) \in Nat
           /\ ModelOf(o) \in {"closed", "open", "schedule"}
<1>1. UsersOf(o) \in Nat \ {0}
  BY OrderIs DEF UsersOf, Given
<1>2. RateOf(o) \in Nat
  BY OrderIs DEF RateOf, Given
<1>3. QED
  BY <1>1, <1>2, OrderIs DEF ModelOf

\* What the engines of a mixed fleet weigh.
LEMMA MixedWeighs ==
    ASSUME NEW o \in Orders, Mixed(o)
    PROVE  /\ DOMAIN WeightsOf(o) = AllEngines
           /\ WeightsOf(o)["api"] \in Nat \ {0} /\ WeightsOf(o)["browser"] \in Nat \ {0}
           /\ Sum0(WeightsOf(o), AllEngines) = WeightsOf(o)["api"] + WeightsOf(o)["browser"]
<1>1. DOMAIN WeightsOf(o) = AllEngines
  BY DEF WeightsOf
<1>2. IsUsed(o, "api") /\ IsUsed(o, "browser")
  BY EnginesAre
<1>3. "api" \in AllEngines /\ "browser" \in AllEngines /\ "api" # "browser"
  BY DEF AllEngines
<1>4. WeightsOf(o)["api"] \in Nat \ {0} /\ WeightsOf(o)["browser"] \in Nat \ {0}
  BY <1>2, <1>3, EngineWeighs
<1>5. WeightsOf(o)["api"] \in Int /\ WeightsOf(o)["browser"] \in Int
  BY <1>4
<1>6. Sum0(WeightsOf(o), {"api", "browser"}) = WeightsOf(o)["api"] + WeightsOf(o)["browser"]
  BY <1>3, <1>5, SumOfTwo
<1>7. QED
  BY <1>1, <1>4, <1>6 DEF AllEngines

\* At least one is a number, and the number when that is at least one.
LEMMA OneAtLeast ==
    ASSUME NEW n \in Int PROVE AtLeastOne(n) \in Nat \ {0} /\ (n >= 1 => AtLeastOne(n) = n)
  BY DEF AtLeastOne

\* An engine's users: all of them when it is the only one, and otherwise its share.
LEMMA UsersForIs ==
    ASSUME NEW o \in Orders, NEW e \in AllEngines
    PROVE  /\ UsersFor(o, e) \in Nat \ {0}
           /\ ~Mixed(o) => UsersFor(o, e) = UsersOf(o)
           /\ Mixed(o) /\ Deal(UsersOf(o), WeightsOf(o))[e] # 0 =>
                 UsersFor(o, e) = Deal(UsersOf(o), WeightsOf(o))[e]
<1>1. PICK u \in Nat \ {0} : u = UsersOf(o)
  BY AskedIs
<1>2. CASE ~Mixed(o)
  <2>1. UsersFor(o, e) = AtLeastOne(u)
    BY <1>1, <1>2 DEF UsersFor
  <2>2. QED
    BY <1>1, <1>2, <2>1, OneAtLeast
<1>3. CASE Mixed(o)
  <2>1. Deal(u, WeightsOf(o))["api"] \in Nat /\ Deal(u, WeightsOf(o))["browser"] \in Nat
    BY <1>3, MixedWeighs, DealAddsUp
  <2>2. PICK d \in Nat : d = Deal(u, WeightsOf(o))[e]
    BY <2>1 DEF AllEngines
  <2>3. UsersFor(o, e) = AtLeastOne(d)
    BY <1>1, <1>3, <2>2 DEF UsersFor
  <2>4. QED
    BY <1>1, <1>3, <2>2, <2>3, OneAtLeast
<1>4. QED
  BY <1>2, <1>3

\* An engine's rate per worker is a number.
LEMMA RateForIs ==
    ASSUME NEW o \in Orders, NEW e \in AllEngines, NEW n \in Nat \ {0} PROVE RateFor(o, e, n) \in Nat
<1>1. PICK r \in Nat : r = RateOf(o)
  BY AskedIs
<1>2. CASE ~Mixed(o)
  BY <1>1, <1>2, RoundedIsNear DEF RateFor
<1>3. CASE Mixed(o)
  <2>1. PICK w, t \in Nat \ {0} : w = WeightsOf(o)[e] /\ t = Sum0(WeightsOf(o), AllEngines)
    BY <1>3, MixedWeighs DEF AllEngines
  <2>2. r * w \in Nat
    BY <2>1, Times
  <2>3. t * n \in Nat \ {0}
    BY <2>1, SMTT(30)
  <2>4. RateFor(o, e, n) = Rounded(r * w, t * n)
    BY <1>1, <1>3, <2>1 DEF RateFor
  <2>5. QED
    BY <2>2, <2>3, <2>4, RoundedIsNear
<1>4. QED
  BY <1>2, <1>3

\* A quotient rounded up is a number, and one at least of something.
LEMMA CeilingIs ==
    ASSUME NEW a \in Nat, NEW b \in Nat \ {0}
    PROVE  Ceiling(a, b) \in Nat /\ (a > 0 => Ceiling(a, b) > 0)
<1>1. a + b - 1 \in Nat
  OBVIOUS
<1>2. Ceiling(a, b) \in Nat
  BY <1>1, Divided DEF Ceiling
<1>3. ASSUME a > 0 PROVE Ceiling(a, b) > 0
  <2>1. b <= a + b - 1
    BY <1>3
  <2>2. b \div b <= (a + b - 1) \div b
    BY <1>1, <2>1, QuotientGrows
  <2>3. b \div b = 1
    OBVIOUS
  <2>4. QED
    BY <1>2, <2>2, <2>3 DEF Ceiling
<1>4. QED
  BY <1>2, <1>3

\* An engine has a worker at least, and no more workers than users.
LEMMA WorkersForIs ==
    ASSUME NEW o \in Orders, NEW e \in AllEngines
    PROVE  /\ WorkersFor(o, e) \in Nat \ {0}
           /\ ModelOf(o) = "closed" => WorkersFor(o, e) <= UsersFor(o, e)
<1>1. PICK d \in Nat \ {0} : d = Density[e]
  BY FleetPlanAssumption
<1>2. PICK u \in Nat \ {0} : u = UsersFor(o, e)
  BY UsersForIs
<1>3. PICK k \in Nat : k = o.workers
  BY OrderIs
<1> DEFINE askedFor == IF Mixed(o) THEN AtLeastOne(Deal(o.workers, WeightsOf(o))[e]) ELSE o.workers
           most == IF o.workers > 0 THEN askedFor
                   ELSE CASE ModelOf(o) = "closed" -> Ceiling(UsersFor(o, e), Density[e])
                          [] ModelOf(o) = "open" ->
                                AtLeastOne(Ceiling(RateFor(o, e, 1), Density[e] * PerMinute))
                          [] OTHER -> 1
<1>4. WorkersFor(o, e) = IF ModelOf(o) = "closed" /\ most > UsersFor(o, e) THEN UsersFor(o, e) ELSE most
  BY Zenon DEF WorkersFor
<1>5. most \in Nat \ {0}
  <2>1. CASE o.workers > 0
    <3>1. CASE ~Mixed(o)
      BY <1>3, <2>1, <3>1
    <3>2. CASE Mixed(o)
      <4>1. Deal(k, WeightsOf(o))["api"] \in Nat /\ Deal(k, WeightsOf(o))["browser"] \in Nat
        BY <3>2, MixedWeighs, DealAddsUp
      <4>2. PICK x \in Nat : x = Deal(k, WeightsOf(o))[e]
        BY <4>1 DEF AllEngines
      <4>3. most = AtLeastOne(x)
        BY <1>3, <2>1, <3>2, <4>2
      <4>4. QED
        BY <4>2, <4>3, OneAtLeast
    <3>3. QED
      BY <3>1, <3>2
  <2>2. CASE ~(o.workers > 0)
    <3>1. Ceiling(u, d) \in Nat \ {0}
      BY CeilingIs
    <3>2. RateFor(o, e, 1) \in Nat /\ d * PerMinute \in Nat \ {0}
      BY RateForIs DEF PerMinute
    <3>3. Ceiling(RateFor(o, e, 1), d * PerMinute) \in Int
      BY <3>2, CeilingIs
    <3>4. AtLeastOne(Ceiling(RateFor(o, e, 1), d * PerMinute)) \in Nat \ {0}
      BY <3>3, OneAtLeast
    <3>5. QED
      BY <1>1, <1>2, <2>2, <3>1, <3>4
  <2>3. QED
    BY <2>1, <2>2
<1> HIDE DEF most
<1>6. QED
  BY <1>2, <1>4, <1>5

\* One sequence laid out is itself.
LEMMA FlatOfOne == ASSUME NEW g, IsSeq(g) PROVE FlattenSeq(<<g>>) = g
<1>1. IsSeq(<<g>>) /\ Len(<<g>>) = 1 /\ <<g>>[1] = g
  BY ShortSeqs
<1>2. \A k \in 1..Len(<<g>>) : IsSeq(<<g>>[k])
  BY <1>1
<1>3. PICK h : Laid(h, <<g>>) /\ FlattenSeq(<<g>>) = h[Len(<<g>>)]
  BY <1>1, <1>2, FlatIsLaid
<1>4. h[0] = <<>> /\ h[1] = h[1 - 1] \o <<g>>[1]
  <2>1. 1 \in 1..Len(<<g>>)
    BY <1>1
  <2>2. QED
    BY <1>3, <2>1, Zenon DEF Laid
<1>5. h[1] = <<>> \o g
  <2>1. 1 - 1 = 0
    OBVIOUS
  <2>2. QED
    BY <1>1, <1>4, <2>1, Zenon
<1>6. QED
  BY <1>1, <1>3, <1>5, EmptyFirst

\* Two are the one and then the other.
LEMMA FlatOfTwo == ASSUME NEW g, NEW k, IsSeq(g), IsSeq(k) PROVE FlattenSeq(<<g, k>>) = g \o k
<1>1. PICK ss : ss = <<g, k>>
  OBVIOUS
<1>2. /\ IsSeq(ss) /\ Len(ss) = 2 /\ ss[1] = g /\ ss[2] = k
  <2>1. ss = [i \in 1..2 |-> ss[i]] /\ ss[1] = g /\ ss[2] = k
    BY <1>1
  <2>2. QED
    BY <2>1, PlacesSeq
<1>3. \A i \in 1..Len(ss) : IsSeq(ss[i])
  BY <1>2
<1>4. PICK h : Laid(h, ss) /\ FlattenSeq(ss) = h[Len(ss)]
  BY <1>2, <1>3, FlatIsLaid
<1>5. h[0] = <<>> /\ h[1] = h[1 - 1] \o ss[1] /\ h[2] = h[2 - 1] \o ss[2]
  <2>1. 1 \in 1..Len(ss) /\ 2 \in 1..Len(ss)
    BY <1>2
  <2>2. QED
    BY <1>4, <2>1, Zenon DEF Laid
<1>6. h[1] = <<>> \o g /\ h[2] = h[1] \o k
  <2>1. 1 - 1 = 0 /\ 2 - 1 = 1
    OBVIOUS
  <2>2. QED
    BY <1>2, <1>5, <2>1, Zenon
<1>7. h[1] = g
  BY <1>6, EmptyFirst
<1>8. QED
  BY <1>1, <1>2, <1>4, <1>6, <1>7

\* What the i-th worker of an engine is given at the launch.
ShareAt(o, e, i) ==
    CASE ModelOf(o) = "closed" -> SplitEvenly(UsersFor(o, e), WorkersFor(o, e))[i]
      [] ModelOf(o) = "open" -> RateFor(o, e, WorkersFor(o, e))
      [] OTHER -> 0

\* s are the slots of an engine, in order, each with its share.
AreSlots(s, o, e) ==
    /\ IsSeq(s) /\ Len(s) = WorkersFor(o, e)
    /\ \A i \in 1..Len(s) : /\ s[i].engine = e /\ s[i].groupSlot = i - 1
                            /\ s[i].groupWorkers = WorkersFor(o, e)
                            /\ s[i].share = ShareAt(o, e, i)

\* The slots of one group are: nobody's share was raised to one user.
LEMMA GroupIs == ASSUME NEW o \in Orders, NEW e \in AllEngines PROVE AreSlots(GroupSlots(o, e), o, e)
<1>1. PICK n \in Nat \ {0} : n = WorkersFor(o, e)
  BY WorkersForIs
<1>2. PICK u \in Nat \ {0} : u = UsersFor(o, e)
  BY UsersForIs
<1>3. PICK g : g = GroupSlots(o, e)
  OBVIOUS
<1> DEFINE share(i) == CASE ModelOf(o) = "closed" -> AtLeastOne(SplitEvenly(UsersFor(o, e), n)[i])
                         [] ModelOf(o) = "open" -> RateFor(o, e, n)
                         [] OTHER -> 0
<1>4. g = [i \in 1..n |-> [engine |-> e, groupSlot |-> i - 1, groupWorkers |-> n, share |-> share(i)]]
  BY <1>1, <1>3 DEF GroupSlots
<1>5. ASSUME NEW i \in 1..n PROVE share(i) = ShareAt(o, e, i)
  <2>1. CASE ModelOf(o) = "closed"
    <3>1. n <= u
      BY <1>1, <1>2, <2>1, WorkersForIs
    <3>2. AtLeastOne(SplitEvenly(u, n)[i]) = SplitEvenly(u, n)[i]
      BY <3>1, EnoughForAll
    <3>3. QED
      BY <1>1, <1>2, <2>1, <3>2 DEF ShareAt
  <2>2. CASE ModelOf(o) # "closed"
    BY <1>1, <2>2 DEF ShareAt
  <2>3. QED
    BY <2>1, <2>2
<1> HIDE DEF share
<1>6. \A i \in 1..n : /\ g[i].engine = e /\ g[i].groupSlot = i - 1 /\ g[i].groupWorkers = n
                      /\ g[i].share = share(i)
  BY <1>4
<1>7. g = [i \in 1..n |-> g[i]]
  BY <1>4
<1>8. IsSeq(g) /\ Len(g) = n
  BY <1>7, PlacesSeq
<1>9. QED
  BY <1>1, <1>3, <1>5, <1>6, <1>8 DEF AreSlots

\* The plan of one engine is its slots, and that of two the slots of one after the other's.
LEMMA PlanIs ==
    ASSUME NEW o \in Orders
    PROVE  \/ ~Mixed(o) /\ \E e \in AllEngines : EnginesOf(o) = <<e>> /\ PlanOf(o) = GroupSlots(o, e)
           \/ /\ Mixed(o) /\ EnginesOf(o) = <<"api", "browser">>
              /\ PlanOf(o) = GroupSlots(o, "api") \o GroupSlots(o, "browser")
<1> DEFINE groups == [i \in DOMAIN EnginesOf(o) |-> GroupSlots(o, EnginesOf(o)[i])]
<1>0. PlanOf(o) = FlattenSeq(groups)
  BY Zenon DEF PlanOf
<1>1. CASE ~Mixed(o)
  <2>1. PICK e \in AllEngines : EnginesOf(o) = <<e>>
    BY <1>1, EnginesAre
  <2>2. groups = <<GroupSlots(o, e)>>
    BY <2>1
  <2>3. IsSeq(GroupSlots(o, e))
    BY GroupIs DEF AreSlots
  <2> HIDE DEF groups
  <2>4. FlattenSeq(<<GroupSlots(o, e)>>) = GroupSlots(o, e)
    BY <2>3, FlatOfOne
  <2>5. QED
    BY <1>0, <1>1, <2>1, <2>2, <2>4
<1>2. CASE Mixed(o)
  <2>1. EnginesOf(o) = <<"api", "browser">>
    BY <1>2, EnginesAre
  <2>2. groups = <<GroupSlots(o, "api"), GroupSlots(o, "browser")>>
    BY <2>1
  <2>3. "api" \in AllEngines /\ "browser" \in AllEngines
    BY DEF AllEngines
  <2>4. IsSeq(GroupSlots(o, "api")) /\ IsSeq(GroupSlots(o, "browser"))
    BY <2>3, GroupIs DEF AreSlots
  <2> HIDE DEF groups
  <2>5. FlattenSeq(<<GroupSlots(o, "api"), GroupSlots(o, "browser")>>) =
          GroupSlots(o, "api") \o GroupSlots(o, "browser")
    BY <2>4, FlatOfTwo
  <2>6. QED
    BY <1>0, <1>2, <2>1, <2>2, <2>5
<1>3. QED
  BY <1>1, <1>2

-----------------------------------------------------------------------------
(* What every step preserves: the slots are the plan's, and each worker     *)
(* runs its launched share or its share of some total asked for.            *)

\* What a slot is given of a total, and the total the run is launched with.
LoadFor(o, s, total) ==
    IF ModelOf(o) = "closed" THEN SplitEvenly(total, s.groupWorkers)[s.groupSlot + 1]
    ELSE Rounded(total, s.groupWorkers)
FigureOf(o) == IF ModelOf(o) = "open" THEN RateOf(o) ELSE UsersOf(o)

\* A worker's load is the launched share, or its slot's of a total of totals.
Heard(load, s, o, totals, one) ==
    \/ load = s.share
    \/ one /\ \E t \in totals : load = LoadFor(o, s, t)

\* totals are numbers up to some number.
AreTotals(totals) == \E b \in Nat : totals \subseteq 0..b

PlanKept ==
    /\ order \in Orders /\ slots = PlanOf(order)
    /\ DOMAIN applied = DOMAIN slots
    /\ AreTotals(asked) /\ FigureOf(order) \in asked
    /\ override # -1 => HasOneFigure /\ override \in asked
    /\ \A i \in DOMAIN slots : Heard(applied[i], slots[i], order, asked, HasOneFigure)
PlanInv == IF order = NoOrder THEN override = -1 ELSE PlanKept

\* One total more is still totals.
LEMMA MoreTotals ==
    ASSUME NEW totals, AreTotals(totals), NEW t \in Nat PROVE AreTotals(totals \cup {t})
<1>1. PICK b \in Nat : totals \subseteq 0..b
  BY DEF AreTotals
<1>2. b + t \in Nat /\ totals \cup {t} \subseteq 0..(b + t)
  BY <1>1
<1>3. QED
  BY <1>2 DEF AreTotals

\* Launch gives each worker its share.
LEMMA LaunchKeeps ==
    ASSUME PlanInv, NEW o \in Orders, Launch(o) PROVE PlanInv'
<1>1. /\ override = -1 /\ order' = o /\ slots' = PlanOf(o) /\ override' = override
      /\ applied' = [i \in DOMAIN PlanOf(o) |-> PlanOf(o)[i].share]
      /\ asked' = {FigureOf(o)}
  BY DEF Launch, PlanInv, FigureOf
<1>2. FigureOf(o) \in Nat
  BY AskedIs DEF FigureOf
<1>3. AreTotals({FigureOf(o)})
  <2>1. {FigureOf(o)} \subseteq 0..FigureOf(o)
    BY <1>2
  <2>2. QED
    BY <1>2, <2>1 DEF AreTotals
<1>4. \A i \in DOMAIN PlanOf(o) : Heard(applied'[i], PlanOf(o)[i], o, {FigureOf(o)}, HasOneFigure')
  BY <1>1 DEF Heard
<1>5. PlanKept'
  BY <1>1, <1>3, <1>4 DEF PlanKept
<1>6. QED
  BY <1>1, <1>5 DEF PlanInv

\* A change of the load is one total more.
LEMMA ChangeKeeps ==
    ASSUME PlanInv, NEW total \in Totals, ChangeLoad(total) PROVE PlanInv'
<1>1. /\ order # NoOrder /\ HasOneFigure /\ override' = total /\ asked' = asked \cup {total}
      /\ order' = order /\ slots' = slots /\ applied' = applied
  BY DEF ChangeLoad
<1>2. PlanKept
  BY <1>1 DEF PlanInv
<1>3. total \in Nat
  BY FleetPlanAssumption
<1>4. AreTotals(asked')
  BY <1>1, <1>2, <1>3, MoreTotals DEF PlanKept
<1>5. HasOneFigure'
  BY <1>1 DEF HasOneFigure
<1>6. ASSUME NEW i \in DOMAIN slots PROVE Heard(applied[i], slots[i], order, asked', HasOneFigure')
  <2>1. Heard(applied[i], slots[i], order, asked, HasOneFigure)
    BY <1>2 DEF PlanKept
  <2>2. QED
    BY <1>1, <1>5, <2>1 DEF Heard
<1>7. PlanKept'
  BY <1>1, <1>2, <1>4, <1>5, <1>6 DEF PlanKept
<1>8. QED
  BY <1>1, <1>7 DEF PlanInv

\* One worker is given another load that its slot may have.
LEMMA WorkerKeeps ==
    ASSUME PlanKept, order # NoOrder, NEW i \in DOMAIN slots, NEW load,
           Heard(load, slots[i], order, asked, HasOneFigure),
           applied' = [applied EXCEPT ![i] = load], UNCHANGED <<order, slots, override, asked>>
    PROVE  PlanInv'
<1>1. /\ order' = order /\ slots' = slots /\ override' = override /\ asked' = asked
      /\ (HasOneFigure' <=> HasOneFigure)
  BY DEF HasOneFigure
<1>2. DOMAIN applied' = DOMAIN slots
  BY DEF PlanKept
<1>3. ASSUME NEW j \in DOMAIN slots PROVE Heard(applied'[j], slots[j], order, asked, HasOneFigure)
  <2>1. applied'[j] = IF j = i THEN load ELSE applied[j]
    BY DEF PlanKept
  <2>2. Heard(applied[j], slots[j], order, asked, HasOneFigure)
    BY DEF PlanKept
  <2>3. QED
    BY <2>1, <2>2
<1>4. \A j \in DOMAIN slots : Heard(applied'[j], slots[j], order, asked, HasOneFigure')
  BY <1>1, <1>3 DEF Heard
<1>5. PlanKept'
  BY <1>1, <1>2, <1>4 DEF PlanKept
<1>6. QED
  BY <1>1, <1>5 DEF PlanInv

\* Every step of a plan keeps it.
LEMMA PlanStep == PlanInv /\ [PlanNext]_planVars => PlanInv'
<1> SUFFICES ASSUME PlanInv, [PlanNext]_planVars PROVE PlanInv'
  OBVIOUS
<1>1. ASSUME NEW o \in Orders, Launch(o) PROVE PlanInv'
  BY <1>1, LaunchKeeps
<1>2. ASSUME NEW total \in Totals, ChangeLoad(total) PROVE PlanInv'
  BY <1>2, ChangeKeeps
<1>3. ASSUME NEW i \in DOMAIN slots, HearLoad(i) PROVE PlanInv'
  <2>1. /\ order # NoOrder /\ override # -1 /\ applied' = [applied EXCEPT ![i] = SlotLoad(i)]
        /\ UNCHANGED <<order, slots, override, asked>>
    BY <1>3 DEF HearLoad
  <2>2. PlanKept
    BY <2>1 DEF PlanInv
  <2>3. SlotLoad(i) = LoadFor(order, slots[i], override)
    BY DEF SlotLoad, LoadFor
  <2>4. HasOneFigure /\ override \in asked
    BY <2>1, <2>2 DEF PlanKept
  <2>5. Heard(SlotLoad(i), slots[i], order, asked, HasOneFigure)
    BY <2>3, <2>4 DEF Heard
  <2>6. QED
    BY <2>1, <2>2, <2>5, WorkerKeeps
<1>4. ASSUME NEW i \in DOMAIN slots, ReplaceWorker(i) PROVE PlanInv'
  <2>1. /\ order # NoOrder /\ applied' = [applied EXCEPT ![i] = slots[i].share]
        /\ UNCHANGED <<order, slots, override, asked>>
    BY <1>4 DEF ReplaceWorker
  <2>2. PlanKept
    BY <2>1 DEF PlanInv
  <2>3. Heard(slots[i].share, slots[i], order, asked, HasOneFigure)
    BY DEF Heard
  <2>4. QED
    BY <2>1, <2>2, <2>3, WorkerKeeps
<1>5. ASSUME UNCHANGED planVars PROVE PlanInv'
  BY <1>5 DEF planVars, PlanInv, PlanKept, HasOneFigure
<1>6. QED
  BY <1>1, <1>2, <1>3, <1>4, <1>5 DEF PlanNext

-----------------------------------------------------------------------------
(* What follows from it. *)

\* The slots of a run of one engine, and those of one of two.
SlotsOfOne(s, o, e) == ~Mixed(o) /\ EnginesOf(o) = <<e>> /\ AreSlots(s, o, e)
SlotsOfTwo(s, o) ==
    \E g, k : /\ Mixed(o) /\ EnginesOf(o) = <<"api", "browser">> /\ s = g \o k
              /\ AreSlots(g, o, "api") /\ AreSlots(k, o, "browser")

\* The slots of a plan are one or the other.
LEMMA PlannedSlots ==
    ASSUME NEW o \in Orders
    PROVE  \/ \E e \in AllEngines : SlotsOfOne(PlanOf(o), o, e)
           \/ SlotsOfTwo(PlanOf(o), o)
<1>1. CASE ~Mixed(o)
  <2>1. PICK e \in AllEngines : EnginesOf(o) = <<e>> /\ PlanOf(o) = GroupSlots(o, e)
    BY <1>1, PlanIs
  <2>2. AreSlots(PlanOf(o), o, e)
    BY <2>1, GroupIs
  <2>3. QED
    BY <1>1, <2>1, <2>2 DEF SlotsOfOne
<1>2. CASE Mixed(o)
  <2>1. /\ EnginesOf(o) = <<"api", "browser">>
        /\ PlanOf(o) = GroupSlots(o, "api") \o GroupSlots(o, "browser")
    BY <1>2, PlanIs
  <2>2. AreSlots(GroupSlots(o, "api"), o, "api") /\ AreSlots(GroupSlots(o, "browser"), o, "browser")
    BY GroupIs DEF AllEngines
  <2>3. QED
    BY <1>2, <2>1, <2>2 DEF SlotsOfTwo
<1>3. QED
  BY <1>1, <1>2

\* A number below the divisor is its own remainder.
LEMMA SmallRemainder ==
    ASSUME NEW n \in Nat \ {0}, NEW a \in Nat, a < n PROVE a % n = a
<1>1. PICK q, r \in Nat : q = a \div n /\ r = a % n
  BY Divided
<1>2. a = n * q + r
  BY <1>1, Divided
<1>3. n * q < n * 1
  <2>1. n * q \in Int /\ n * 1 = n
    BY Times
  <2>2. QED
    BY <1>2, <2>1
<1>4. q < 1
  BY <1>3, Times
<1>5. q = 0
  BY <1>4
<1>6. n * q = 0
  BY <1>5
<1>7. QED
  BY <1>1, <1>2, <1>6

\* The slots from off + 1 to off + n are e's, in order.
Group(s, e, off, n) ==
    /\ off + n <= Len(s)
    /\ \A i \in 1..Len(s) : s[i].engine = e <=> (off < i /\ i <= off + n)
    /\ \A i \in 1..n : s[off + i].groupSlot = i - 1 /\ s[off + i].groupWorkers = n

\* Of them one fires each search.
LEMMA OneFires ==
    ASSUME NEW e, NEW off \in Nat, NEW n \in Nat \ {0}, IsSeq(slots), Group(slots, e, off, n),
           NEW k \in 1..order.crons[e], order.crons[e] \in Nat
    PROVE  Cardinality({i \in DOMAIN slots : slots[i].engine = e /\ k \in Fires(i)}) = 1
<1>1. k \in Nat /\ k - 1 \in Nat
  OBVIOUS
<1>2. PICK r \in Nat : r = (k - 1) % n
  BY <1>1, Divided
<1>3. r < n
  BY <1>1, <1>2, Divided
<1>4. DOMAIN slots = 1..Len(slots) /\ Len(slots) \in Nat
  BY SeqPlaces
<1> DEFINE at == off + (r + 1)
<1>5. at \in DOMAIN slots /\ slots[at].engine = e /\ r + 1 \in 1..n
  <2>1. r + 1 \in 1..n /\ at \in 1..Len(slots) /\ off < at /\ at <= off + n
    BY <1>3, <1>4 DEF Group
  <2>2. QED
    BY <1>4, <2>1 DEF Group
<1>6. ASSUME NEW i \in DOMAIN slots, slots[i].engine = e
      PROVE  k \in Fires(i) <=> i = at
  <2>1. i \in 1..Len(slots) /\ off < i /\ i <= off + n
    BY <1>4, <1>6 DEF Group
  <2>2. PICK j \in 1..n : j = i - off
    BY <2>1
  <2>3. i = off + j
    BY <2>1, <2>2
  <2>4. slots[i].groupSlot = j - 1 /\ slots[i].groupWorkers = n
    BY <2>3 DEF Group
  <2>5. k \in Fires(i) <=> (n > 1 => (k - 1) % n = (j - 1) % n)
    BY <1>6, <2>4 DEF Fires
  <2>6. (j - 1) % n = j - 1
    BY SmallRemainder
  <2>7. k \in Fires(i) <=> (n > 1 => r = j - 1)
    BY <1>2, <2>5, <2>6
  <2>8. n = 1 => r = j - 1
    BY <1>3
  <2>9. (r = j - 1) <=> i = at
    BY <2>3
  <2>10. QED
    BY <2>7, <2>8, <2>9
<1>7. {i \in DOMAIN slots : slots[i].engine = e /\ k \in Fires(i)} = {at}
  <2> HIDE DEF at
  <2> QED
    BY <1>5, <1>6
<1>8. QED
  BY <1>7, FS_Singleton

\* The slots of one engine are one group.
LEMMA OneGroup ==
    ASSUME NEW s, NEW o, NEW e, AreSlots(s, o, e), WorkersFor(o, e) \in Nat
    PROVE  Group(s, e, 0, WorkersFor(o, e))
<1>1. PICK n \in Nat : n = WorkersFor(o, e) /\ Len(s) = n
  BY DEF AreSlots
<1>2. \A i \in 1..n : 0 + i = i /\ 0 < i /\ i <= 0 + n
  OBVIOUS
<1>3. \A i \in 1..n : s[i].engine = e /\ s[i].groupSlot = i - 1 /\ s[i].groupWorkers = n
  BY <1>1 DEF AreSlots
<1>4. \A i \in 1..n : s[0 + i].groupSlot = i - 1 /\ s[0 + i].groupWorkers = n
  BY <1>2, <1>3
<1>5. QED
  BY <1>1, <1>2, <1>3, <1>4 DEF Group

\* The slots of two engines are a group each, with the shares of each.
LEMMA TwoGroups ==
    ASSUME NEW g, NEW k, NEW o, AreSlots(g, o, "api"), AreSlots(k, o, "browser"),
           NEW n \in Nat, n = WorkersFor(o, "api"), NEW m \in Nat, m = WorkersFor(o, "browser")
    PROVE  /\ IsSeq(g \o k) /\ Len(g \o k) = n + m
           /\ Group(g \o k, "api", 0, n) /\ Group(g \o k, "browser", n, m)
           /\ \A i \in 1..n : (g \o k)[i].share = ShareAt(o, "api", i)
           /\ \A i \in 1..m : (g \o k)[n + i].share = ShareAt(o, "browser", i)
<1>1. IsSeq(g) /\ IsSeq(k) /\ Len(g) = n /\ Len(k) = m
  BY DEF AreSlots
<1>2. PICK s : s = g \o k
  OBVIOUS
<1>3. /\ IsSeq(s) /\ Len(s) = n + m
      /\ \A i \in 1..n : s[i] = g[i]
      /\ \A i \in 1..m : s[n + i] = k[i]
  <2>1. /\ IsSeq(g \o k) /\ Len(g \o k) = Len(g) + Len(k)
        /\ \A i \in 1..Len(g) : (g \o k)[i] = g[i]
        /\ \A i \in 1..Len(k) : (g \o k)[Len(g) + i] = k[i]
    BY <1>1, Joined
  <2>2. QED
    BY <1>1, <1>2, <2>1
<1>4. \A i \in 1..n : /\ s[i].engine = "api" /\ s[i].groupSlot = i - 1 /\ s[i].groupWorkers = n
                      /\ s[i].share = ShareAt(o, "api", i)
  BY <1>1, <1>3 DEF AreSlots
<1>5. \A i \in 1..m : /\ s[n + i].engine = "browser" /\ s[n + i].groupSlot = i - 1
                      /\ s[n + i].groupWorkers = m
                      /\ s[n + i].share = ShareAt(o, "browser", i)
  BY <1>1, <1>3 DEF AreSlots
<1>6. ASSUME NEW i \in 1..Len(s)
      PROVE  /\ s[i].engine = "api" <=> (0 < i /\ i <= 0 + n)
             /\ s[i].engine = "browser" <=> (n < i /\ i <= n + m)
  <2>1. CASE i <= n
    BY <1>3, <1>4, <2>1
  <2>2. CASE ~(i <= n)
    <3>1. PICK j \in 1..m : i = n + j
      <4>1. i - n \in 1..m /\ i = n + (i - n)
        BY <1>3, <2>2
      <4>2. QED
        BY <4>1
    <3>2. s[i].engine = "browser"
      BY <1>5, <3>1
    <3>3. QED
      BY <2>2, <3>1, <3>2
  <2>3. QED
    BY <2>1, <2>2
<1>7. Group(s, "browser", n, m)
  BY <1>3, <1>5, <1>6 DEF Group
<1>8. Group(s, "api", 0, n)
  <2>1. \A i \in 1..n : 0 + i = i
    OBVIOUS
  <2>2. \A i \in 1..n : s[0 + i].groupSlot = i - 1 /\ s[0 + i].groupWorkers = n
    BY <1>4, <2>1
  <2>3. 0 + n <= Len(s)
    BY <1>3
  <2>4. QED
    BY <1>6, <2>2, <2>3 DEF Group
<1>9. QED
  BY <1>2, <1>3, <1>4, <1>5, <1>7, <1>8

\* Under a schedule every search fires on exactly one worker.
LEMMA ScheduleIsDealt ==
    ASSUME PlanKept, NEW e \in ToSet(EnginesOf(order)), NEW k \in 1..order.crons[e]
    PROVE  Cardinality({i \in DOMAIN slots : slots[i].engine = e /\ k \in Fires(i)}) = 1
<1>1. order \in Orders /\ slots = PlanOf(order)
  BY DEF PlanKept
<1>2. \A f \in AllEngines : WorkersFor(order, f) \in Nat \ {0} /\ order.crons[f] \in Nat
  BY <1>1, WorkersForIs, OrderIs
<1>3. CASE \E f \in AllEngines : SlotsOfOne(slots, order, f)
  <2>1. PICK f \in AllEngines : EnginesOf(order) = <<f>> /\ AreSlots(slots, order, f)
    BY <1>3 DEF SlotsOfOne
  <2>2. e = f
    BY <2>1 DEF ToSet
  <2>3. PICK n \in Nat \ {0} : n = WorkersFor(order, e)
    BY <1>2, <2>2
  <2>4. Group(slots, e, 0, n) /\ IsSeq(slots)
    BY <2>1, <2>2, <2>3, OneGroup DEF AreSlots
  <2>5. order.crons[e] \in Nat
    BY <1>2, <2>2
  <2>6. QED
    BY <2>4, <2>5, OneFires
<1>4. CASE SlotsOfTwo(slots, order)
  <2>1. PICK g, h : /\ EnginesOf(order) = <<"api", "browser">> /\ slots = g \o h
                    /\ AreSlots(g, order, "api") /\ AreSlots(h, order, "browser")
    BY <1>4 DEF SlotsOfTwo
  <2>2. "api" \in AllEngines /\ "browser" \in AllEngines
    BY DEF AllEngines
  <2>3. PICK n, m \in Nat \ {0} : n = WorkersFor(order, "api") /\ m = WorkersFor(order, "browser")
    BY <1>2, <2>2
  <2>4. IsSeq(slots) /\ Group(slots, "api", 0, n) /\ Group(slots, "browser", n, m)
    BY <2>1, <2>3, TwoGroups
  <2>5. e \in {"api", "browser"}
    BY <2>1 DEF ToSet
  <2>6. order.crons[e] \in Nat
    BY <1>2, <2>5 DEF AllEngines
  <2>7. CASE e = "api"
    BY <2>4, <2>6, <2>7, OneFires
  <2>8. CASE e = "browser"
    BY <2>4, <2>6, <2>8, OneFires
  <2>9. QED
    BY <2>5, <2>7, <2>8
<1>5. QED
  BY <1>1, <1>3, <1>4, PlannedSlots

-----------------------------------------------------------------------------
(* The totals. *)

\* Some of the totals asked for are the least and the greatest.
LEMMA TotalsAre ==
    ASSUME NEW totals, AreTotals(totals), NEW t \in totals
    PROVE  /\ Min(totals) \in Nat /\ Max(totals) \in Nat
           /\ Min(totals) \in totals /\ Max(totals) \in totals
           /\ \A x \in totals : x \in Nat /\ Min(totals) <= x /\ x <= Max(totals)
<1>1. PICK b \in Nat : totals \subseteq 0..b
  BY DEF AreTotals
<1>2. totals \in SUBSET Nat /\ totals # {}
  BY <1>1
<1>3. PICK lo \in totals : \A x \in totals : lo <= x
  BY <1>2, LeastOfSome
<1>4. Min(totals) \in totals /\ \A x \in totals : Min(totals) <= x
  BY <1>3 DEF Min
<1> DEFINE up == {x + 1 : x \in totals}
<1>5. up \in SUBSET (1..(b + 1)) /\ up # {}
  BY <1>1
<1>6. PICK m \in up : \A y \in up : y <= m
  <2> HIDE DEF up
  <2>1. b + 1 \in Nat
    OBVIOUS
  <2> QED
    BY <1>5, <2>1, GreatestOfSome
<1>7. PICK hi \in totals : m = hi + 1
  OBVIOUS
<1>8. \A x \in totals : hi >= x
  <2> TAKE x \in totals
  <2>1. x + 1 <= hi + 1
    BY <1>6, <1>7
  <2>2. x \in Nat /\ hi \in Nat
    BY <1>2
  <2>3. QED
    BY <2>1, <2>2
<1>9. Max(totals) \in totals /\ \A x \in totals : Max(totals) >= x
  BY <1>8 DEF Max
<1>10. \A x \in totals : x <= Max(totals)
  <2> TAKE x \in totals
  <2>1. Max(totals) >= x /\ x \in Nat /\ Max(totals) \in Nat
    BY <1>2, <1>9
  <2>2. QED
    BY <2>1
<1>11. QED
  BY <1>2, <1>4, <1>9, <1>10

\* The workers of one engine, each with even shares of some totals, carry a total between them.
LEMMA ClosedBetween ==
    ASSUME NEW n \in Nat \ {0}, NEW lo \in Nat, NEW hi \in Nat, NEW f,
           \A i \in 1..n : \E t \in lo..hi : f[i] = SplitEvenly(t, n)[i]
    PROVE  Sum0(f, 1..n) \in lo..hi
<1>1. PICK g, h : /\ g = [i \in 0..n |-> FirstShares(lo, n, i)]
                  /\ h = [i \in 0..n |-> FirstShares(hi, n, i)]
  OBVIOUS
<1>2. ASSUME NEW i \in 1..n
      PROVE  f[i] \in Int /\ g[i] - g[i - 1] <= f[i] /\ f[i] <= h[i] - h[i - 1]
  <2>1. PICK t \in lo..hi : f[i] = SplitEvenly(t, n)[i]
    OBVIOUS
  <2>2. t \in Nat /\ lo <= t /\ t <= hi
    BY <2>1
  <2>3. /\ SplitEvenly(lo, n)[i] <= SplitEvenly(t, n)[i]
        /\ SplitEvenly(t, n)[i] <= SplitEvenly(hi, n)[i]
    BY <2>2, EvenSharesGrow
  <2>4. /\ SplitEvenly(lo, n)[i] = FirstShares(lo, n, i) - FirstShares(lo, n, i - 1)
        /\ SplitEvenly(hi, n)[i] = FirstShares(hi, n, i) - FirstShares(hi, n, i - 1)
        /\ SplitEvenly(t, n)[i] \in Nat
    BY <2>2, EvenSharesAddUp
  <2>5. i \in 0..n /\ i - 1 \in 0..n
    OBVIOUS
  <2>6. /\ g[i] = FirstShares(lo, n, i) /\ g[i - 1] = FirstShares(lo, n, i - 1)
        /\ h[i] = FirstShares(hi, n, i) /\ h[i - 1] = FirstShares(hi, n, i - 1)
    BY <1>1, <2>5
  <2>7. QED
    BY <2>1, <2>3, <2>4, <2>6
<1>3. \A i \in 0..n : g[i] \in Int /\ h[i] \in Int
  BY <1>1, EvenSharesAddUp
<1>4. g[0] = 0 /\ h[0] = 0 /\ g[n] = lo /\ h[n] = hi
  <2>1. 0 \in 0..n /\ n \in 0..n
    OBVIOUS
  <2>2. QED
    BY <1>1, <2>1, EvenSharesAddUp
<1>5. GrowsWithin(g, f, h, n)
  BY <1>2, <1>3, <1>4 DEF GrowsWithin
<1>6. Sum0(f, 1..n) \in Int /\ g[n] <= Sum0(f, 1..n) /\ Sum0(f, 1..n) <= h[n]
  BY <1>5, SumBetween
<1>7. QED
  BY <1>4, <1>6

\* And with rounded shares, a total within one a worker.
LEMMA OpenBetween ==
    ASSUME NEW n \in Nat \ {0}, NEW lo \in Nat, NEW hi \in Nat, NEW f,
           \A i \in 1..n : \E t \in lo..hi : f[i] = Rounded(t, n)
    PROVE  Sum0(f, 1..n) \in (lo - n)..(hi + n)
<1>1. PICK a, b \in Nat : a = Rounded(lo, n) /\ b = Rounded(hi, n)
  BY RoundedIsNear
<1>2. PICK g, h : g = [i \in 0..n |-> i * a] /\ h = [i \in 0..n |-> i * b]
  OBVIOUS
<1>3. ASSUME NEW i \in 1..n
      PROVE  f[i] \in Int /\ g[i] - g[i - 1] <= f[i] /\ f[i] <= h[i] - h[i - 1]
  <2>1. PICK t \in lo..hi : f[i] = Rounded(t, n)
    OBVIOUS
  <2>2. t \in Nat /\ lo <= t /\ t <= hi
    BY <2>1
  <2>3. a <= f[i] /\ f[i] <= b /\ f[i] \in Nat
    BY <1>1, <2>1, <2>2, RoundedGrows, RoundedIsNear
  <2>4. i \in 0..n /\ i - 1 \in 0..n /\ i \in Int
    OBVIOUS
  <2>5. g[i] = i * a /\ g[i - 1] = (i - 1) * a /\ h[i] = i * b /\ h[i - 1] = (i - 1) * b
    BY <1>2, <2>4
  <2>6. i * a - (i - 1) * a = a /\ i * b - (i - 1) * b = b
    BY <2>4, SMTT(30)
  <2>7. QED
    BY <2>3, <2>5, <2>6
<1>4. \A i \in 0..n : g[i] \in Int /\ h[i] \in Int
  BY <1>2, Times
<1>5. g[0] = 0 /\ h[0] = 0 /\ g[n] = n * a /\ h[n] = n * b
  BY <1>2
<1>6. GrowsWithin(g, f, h, n)
  BY <1>3, <1>4, <1>5 DEF GrowsWithin
<1>7. Sum0(f, 1..n) \in Int /\ g[n] <= Sum0(f, 1..n) /\ Sum0(f, 1..n) <= h[n]
  BY <1>6, SumBetween
<1>8. 2 * lo - n <= 2 * (n * a) /\ 2 * (n * b) <= 2 * hi + n
  BY <1>1, RoundedIsNear
<1>9. PICK x, y, s \in Int : x = n * a /\ y = n * b /\ s = Sum0(f, 1..n)
  BY <1>7, Times
<1>10. x <= s /\ s <= y /\ 2 * lo - n <= 2 * x /\ 2 * y <= 2 * hi + n
  BY <1>5, <1>7, <1>8, <1>9
<1>11. QED
  BY <1>9, <1>10

\* f grows as x does at its first n places and as y does at the next m.
TwoRuns(f, n, x, m, y) ==
    /\ \A i \in 0..n : x[i] \in Int
    /\ \A i \in 0..m : y[i] \in Int
    /\ x[0] = 0 /\ y[0] = 0
    /\ \A i \in 1..n : f[i] = x[i] - x[i - 1]
    /\ \A i \in 1..m : f[n + i] = y[i] - y[i - 1]

\* The sum over two groups is the sums of what each has up to its size.
LEMMA TwoSums ==
    ASSUME NEW n \in Nat, NEW m \in Nat, NEW f, NEW x, NEW y, TwoRuns(f, n, x, m, y)
    PROVE  Sum0(f, 1..(n + m)) = x[n] + y[m]
<1>0. /\ \A i \in 0..n : x[i] \in Int
      /\ \A i \in 0..m : y[i] \in Int
      /\ x[0] = 0 /\ y[0] = 0
      /\ \A i \in 1..n : f[i] = x[i] - x[i - 1]
      /\ \A i \in 1..m : f[n + i] = y[i] - y[i - 1]
  BY DEF TwoRuns
<1>1. PICK g : g = [i \in 0..(n + m) |-> IF i <= n THEN x[i] ELSE x[n] + y[i - n]]
  OBVIOUS
<1>2. \A i \in 0..(n + m) : g[i] \in Int
  <2> TAKE i \in 0..(n + m)
  <2>1. n \in 0..n /\ (i <= n => i \in 0..n) /\ (~(i <= n) => i - n \in 0..m)
    OBVIOUS
  <2>2. QED
    BY <1>0, <1>1, <2>1
<1>3. ASSUME NEW i \in 1..(n + m) PROVE f[i] \in Int /\ f[i] = g[i] - g[i - 1]
  <2>1. i \in 0..(n + m) /\ i - 1 \in 0..(n + m)
    OBVIOUS
  <2>2. CASE i <= n
    <3>1. g[i] = x[i] /\ g[i - 1] = x[i - 1] /\ f[i] = x[i] - x[i - 1]
      BY <1>0, <1>1, <2>1, <2>2
    <3>2. QED
      BY <1>2, <2>1, <3>1
  <2>3. CASE ~(i <= n)
    <3>1. PICK j \in 1..m : i = n + j
      <4>1. i - n \in 1..m /\ i = n + (i - n)
        BY <2>3
      <4>2. QED
        BY <4>1
    <3>2. f[i] = y[j] - y[j - 1]
      BY <1>0, <3>1
    <3>3. g[i] = x[n] + y[j]
      <4>1. i - n = j
        BY <3>1
      <4>2. QED
        BY <1>1, <2>1, <2>3, <4>1
    <3>4. g[i - 1] = x[n] + y[j - 1]
      <4>1. CASE j = 1
        <5>1. i - 1 = n /\ j - 1 = 0
          BY <3>1, <4>1
        <5>2. g[i - 1] = x[n]
          BY <1>1, <2>1, <5>1
        <5>3. x[n] \in Int
          BY <1>0
        <5>4. QED
          BY <1>0, <5>1, <5>2, <5>3
      <4>2. CASE j # 1
        <5>1. ~(i - 1 <= n) /\ (i - 1) - n = j - 1
          BY <3>1, <4>2
        <5>2. QED
          BY <1>1, <2>1, <5>1
      <4>3. QED
        BY <4>1, <4>2
    <3>5. x[n] \in Int /\ y[j] \in Int /\ y[j - 1] \in Int
      <4>1. n \in 0..n /\ j \in 0..m /\ j - 1 \in 0..m
        BY <3>1
      <4>2. QED
        BY <1>0, <4>1
    <3>6. QED
      BY <3>2, <3>3, <3>4, <3>5
  <2>4. QED
    BY <2>2, <2>3
<1>4. g[0] = 0
  BY <1>0, <1>1
<1>5. ASSUME NEW i \in 1..(n + m)
      PROVE  f[i] \in Int /\ g[i] - g[i - 1] <= f[i] /\ f[i] <= g[i] - g[i - 1]
  BY <1>3
<1>6. GrowsWithin(g, f, g, n + m)
  BY <1>2, <1>4, <1>5 DEF GrowsWithin
<1>7. n + m \in Nat
  OBVIOUS
<1>8. /\ Sum0(f, 1..(n + m)) \in Int
      /\ g[n + m] <= Sum0(f, 1..(n + m)) /\ Sum0(f, 1..(n + m)) <= g[n + m]
  BY <1>6, <1>7, SumBetween
<1>9. g[n + m] = x[n] + y[m]
  <2>1. n + m \in 0..(n + m) /\ (n + m) - n = m
    OBVIOUS
  <2>2. CASE m = 0
    <3>1. n + m = n /\ x[n] \in Int
      BY <1>0, <2>2
    <3>2. QED
      BY <1>0, <1>1, <2>1, <2>2, <3>1
  <2>3. CASE m # 0
    <3>1. ~(n + m <= n)
      BY <2>3
    <3>2. QED
      BY <1>1, <2>1, <3>1
  <2>4. QED
    BY <2>2, <2>3
<1>10. QED
  BY <1>2, <1>7, <1>8, <1>9

\* One engine's workers carry a total between those asked for, or within one a worker of it.
LEMMA OneEngineCarries ==
    ASSUME PlanKept, NEW e \in AllEngines, SlotsOfOne(slots, order, e), ModelOf(order) # "schedule"
    PROVE  Total \in (Min(asked) - Slack)..(Max(asked) + Slack)
<1>1. order \in Orders /\ ~Mixed(order) /\ AreSlots(slots, order, e)
  BY DEF PlanKept, SlotsOfOne
<1>2. PICK n \in Nat \ {0} : n = WorkersFor(order, e) /\ n = Len(slots)
  BY <1>1, WorkersForIs DEF AreSlots
<1>3. DOMAIN slots = 1..n /\ DOMAIN applied = 1..n
  BY <1>1, <1>2, SeqPlaces DEF PlanKept, AreSlots
<1>4. FigureOf(order) \in asked /\ AreTotals(asked)
  BY DEF PlanKept
<1>5. PICK lo, hi \in Nat : /\ lo = Min(asked) /\ hi = Max(asked)
                            /\ \A t \in asked : t \in Nat /\ lo <= t /\ t <= hi
  BY <1>4, TotalsAre
<1>6. Total = Sum0(applied, 1..n)
  BY <1>3 DEF Total
<1>7. ASSUME NEW i \in 1..n
      PROVE  \E t \in asked : applied[i] = LoadFor(order, slots[i], t)
  <2>1. Heard(applied[i], slots[i], order, asked, HasOneFigure)
    BY <1>3 DEF PlanKept
  <2>2. /\ slots[i].groupSlot = i - 1 /\ slots[i].groupWorkers = n
        /\ slots[i].share = ShareAt(order, e, i)
    BY <1>1, <1>2 DEF AreSlots
  <2>3. slots[i].share = LoadFor(order, slots[i], FigureOf(order))
    <3>1. (i - 1) + 1 = i
      OBVIOUS
    <3>2. CASE ModelOf(order) = "closed"
      <4>1. UsersFor(order, e) = FigureOf(order)
        BY <1>1, <3>2, UsersForIs DEF FigureOf
      <4>2. QED
        BY <1>2, <2>2, <3>1, <3>2, <4>1 DEF ShareAt, LoadFor
    <3>3. CASE ModelOf(order) = "open"
      <4>1. RateFor(order, e, n) = Rounded(FigureOf(order), n)
        BY <1>1, <3>3 DEF RateFor, FigureOf
      <4>2. QED
        BY <1>2, <2>2, <3>3, <4>1 DEF ShareAt, LoadFor
    <3>4. QED
      BY <1>1, <3>2, <3>3, AskedIs
  <2>4. QED
    BY <1>4, <2>1, <2>3 DEF Heard
<1>8. CASE ModelOf(order) = "closed"
  <2>1. ASSUME NEW i \in 1..n PROVE \E t \in lo..hi : applied[i] = SplitEvenly(t, n)[i]
    <3>1. PICK t \in asked : applied[i] = LoadFor(order, slots[i], t)
      BY <1>7
    <3>2. slots[i].groupSlot + 1 = i /\ slots[i].groupWorkers = n
      <4>1. slots[i].groupSlot = i - 1 /\ slots[i].groupWorkers = n
        BY <1>1, <1>2 DEF AreSlots
      <4>2. QED
        BY <4>1
    <3>3. applied[i] = SplitEvenly(t, n)[i]
      BY <1>8, <3>1, <3>2 DEF LoadFor
    <3>4. t \in lo..hi
      BY <1>5
    <3>5. QED
      BY <3>3, <3>4
  <2>2. Total \in lo..hi
    BY <1>6, <2>1, ClosedBetween
  <2>3. Slack = 0
    BY <1>8 DEF Slack
  <2>4. QED
    BY <1>5, <2>2, <2>3
<1>9. CASE ModelOf(order) = "open"
  <2>1. ASSUME NEW i \in 1..n PROVE \E t \in lo..hi : applied[i] = Rounded(t, n)
    <3>1. PICK t \in asked : applied[i] = LoadFor(order, slots[i], t)
      BY <1>7
    <3>2. slots[i].groupWorkers = n
      BY <1>1, <1>2 DEF AreSlots
    <3>3. applied[i] = Rounded(t, n)
      BY <1>9, <3>1, <3>2 DEF LoadFor
    <3>4. t \in lo..hi
      BY <1>5
    <3>5. QED
      BY <3>3, <3>4
  <2>2. Total \in (lo - n)..(hi + n)
    BY <1>6, <2>1, OpenBetween
  <2>3. Slack = n
    BY <1>2, <1>9 DEF Slack
  <2>4. QED
    BY <1>5, <2>2, <2>3
<1>10. QED
  BY <1>1, <1>8, <1>9, AskedIs

\* Two rounded shares of a rate, each n or m times over, are within half of n + m of the rate.
LEMMA TwoRates ==
    ASSUME NEW r \in Nat, NEW a \in Nat \ {0}, NEW b \in Nat \ {0},
           NEW n \in Nat \ {0}, NEW m \in Nat \ {0}, NEW p \in Nat, NEW q \in Nat,
           p = Rounded(r * a, (a + b) * n), q = Rounded(r * b, (a + b) * m)
    PROVE  n * p + m * q \in (r - (n + m))..(r + (n + m))
<1>1. PICK w \in Nat \ {0} : w = a + b
  OBVIOUS
<1>2. w * n \in Nat \ {0} /\ w * m \in Nat \ {0}
  BY SMTT(30)
<1>3. r * a \in Nat /\ r * b \in Nat
  BY Times
<1>4. /\ 2 * ((w * n) * p) <= 2 * (r * a) + w * n /\ 2 * (r * a) - w * n <= 2 * ((w * n) * p)
      /\ 2 * ((w * m) * q) <= 2 * (r * b) + w * m /\ 2 * (r * b) - w * m <= 2 * ((w * m) * q)
  BY <1>1, <1>2, <1>3, RoundedIsNear
<1>5. PICK x, y \in Nat : x = n * p /\ y = m * q
  BY Times
<1>6. (w * n) * p = w * x /\ (w * m) * q = w * y
  BY <1>5, SMTT(30)
<1>7. r * a + r * b = w * r
  BY <1>1, SMTT(30)
<1>8. PICK c, d, u, v, k, z, g, h \in Int :
        /\ c = w * x /\ d = w * y /\ u = w * n /\ v = w * m /\ k = w * r /\ z = w * (n + m)
        /\ g = r * a /\ h = r * b
  BY <1>2, <1>3, Times
<1>9. /\ 2 * c <= 2 * g + u /\ 2 * g - u <= 2 * c
      /\ 2 * d <= 2 * h + v /\ 2 * h - v <= 2 * d
  BY <1>4, <1>6, <1>8
<1>10. g + h = k /\ z = u + v
  <2>1. w * (n + m) = w * n + w * m
    BY Times
  <2>2. QED
    BY <1>7, <1>8, <2>1
<1>11. 2 * (c + d) <= 2 * k + z /\ 2 * k - z <= 2 * (c + d)
  BY <1>8, <1>9, <1>10
<1>12. w * (2 * (x + y)) <= w * (2 * r + (n + m)) /\ w * (2 * r - (n + m)) <= w * (2 * (x + y))
  <2>1. w * (2 * (x + y)) = 2 * (c + d)
    <3>1. w * (2 * (x + y)) = 2 * (w * x) + 2 * (w * y)
      BY SMTT(30)
    <3>2. QED
      BY <1>8, <3>1
  <2>2. w * (2 * r + (n + m)) = 2 * k + z /\ w * (2 * r - (n + m)) = 2 * k - z
    <3>1. w * (2 * r) = 2 * (w * r)
      BY SMTT(30)
    <3>2. /\ w * (2 * r + (n + m)) = w * (2 * r) + w * (n + m)
          /\ w * (2 * r - (n + m)) = w * (2 * r) - w * (n + m)
      BY Times
    <3>3. QED
      BY <1>8, <3>1, <3>2
  <2>3. QED
    BY <1>11, <2>1, <2>2
<1>13. 2 * (x + y) <= 2 * r + (n + m) /\ 2 * r - (n + m) <= 2 * (x + y)
  <2>1. /\ 2 * (x + y) \in Int /\ 2 * r + (n + m) \in Int /\ 2 * r - (n + m) \in Int /\ w > 0
    OBVIOUS
  <2>2. QED
    BY <1>12, <2>1, Times
<1>14. QED
  BY <1>5, <1>13

\* The workers of two engines carry what was asked for, and within one a worker of a rate.
LEMMA TwoEnginesCarry ==
    ASSUME PlanKept, SlotsOfTwo(slots, order), ModelOf(order) # "schedule",
           ModelOf(order) = "closed" =>
               \A e \in AllEngines : Deal(UsersOf(order), WeightsOf(order))[e] # 0
    PROVE  Total \in (Min(asked) - Slack)..(Max(asked) + Slack)
<1>1. PICK g, h : /\ slots = g \o h
                  /\ AreSlots(g, order, "api") /\ AreSlots(h, order, "browser")
  BY DEF SlotsOfTwo
<1>2. order \in Orders /\ Mixed(order)
  BY DEF PlanKept, SlotsOfTwo
<1>3. "api" \in AllEngines /\ "browser" \in AllEngines
  BY DEF AllEngines
<1>4. PICK n, m \in Nat \ {0} : n = WorkersFor(order, "api") /\ m = WorkersFor(order, "browser")
  BY <1>2, <1>3, WorkersForIs
<1>5. /\ IsSeq(slots) /\ Len(slots) = n + m
      /\ \A i \in 1..n : slots[i].share = ShareAt(order, "api", i)
      /\ \A i \in 1..m : slots[n + i].share = ShareAt(order, "browser", i)
  <2>1. /\ IsSeq(g \o h) /\ Len(g \o h) = n + m
        /\ \A i \in 1..n : (g \o h)[i].share = ShareAt(order, "api", i)
        /\ \A i \in 1..m : (g \o h)[n + i].share = ShareAt(order, "browser", i)
    BY <1>1, <1>4, TwoGroups
  <2>2. QED
    BY <1>1, <2>1
<1>6. DOMAIN slots = 1..(n + m) /\ DOMAIN applied = 1..(n + m)
  BY <1>5, SeqPlaces DEF PlanKept
<1>7. ~HasOneFigure
  BY <1>2 DEF HasOneFigure
<1>8. \A i \in 1..(n + m) : applied[i] = slots[i].share
  BY <1>6, <1>7 DEF PlanKept, Heard
<1>9. /\ \A i \in 1..n : applied[i] = ShareAt(order, "api", i)
      /\ \A i \in 1..m : applied[n + i] = ShareAt(order, "browser", i)
  <2>1. \A i \in 1..n : i \in 1..(n + m)
    OBVIOUS
  <2>2. \A i \in 1..m : n + i \in 1..(n + m)
    OBVIOUS
  <2>3. \A i \in 1..n : applied[i] = ShareAt(order, "api", i)
    BY <1>5, <1>8, <2>1
  <2>4. \A i \in 1..m : applied[n + i] = ShareAt(order, "browser", i)
    BY <1>5, <1>8, <2>2
  <2>5. QED
    BY <2>3, <2>4
<1>10. Total = Sum0(applied, 1..(n + m))
  BY <1>6 DEF Total
<1>11. FigureOf(order) \in asked /\ AreTotals(asked)
  BY DEF PlanKept
<1>12. PICK lo, hi, t \in Nat : /\ lo = Min(asked) /\ hi = Max(asked) /\ t = FigureOf(order)
                                /\ lo <= t /\ t <= hi
  BY <1>11, TotalsAre
<1>13. CASE ModelOf(order) = "closed"
  <2>1. PICK u, v \in Nat \ {0} : u = UsersFor(order, "api") /\ v = UsersFor(order, "browser")
    BY <1>2, <1>3, UsersForIs
  <2>2. u + v = t
    <3>1. /\ u = Deal(UsersOf(order), WeightsOf(order))["api"]
          /\ v = Deal(UsersOf(order), WeightsOf(order))["browser"]
      BY <1>2, <1>3, <1>13, <2>1, UsersForIs
    <3>2. UsersOf(order) \in Nat /\ t = UsersOf(order)
      BY <1>2, <1>12, <1>13, AskedIs DEF FigureOf
    <3>3. Deal(UsersOf(order), WeightsOf(order))["api"]
            + Deal(UsersOf(order), WeightsOf(order))["browser"] = UsersOf(order)
      BY <1>2, <3>2, MixedWeighs, DealAddsUp
    <3>4. QED
      BY <3>1, <3>2, <3>3
  <2>3. PICK x, y : x = [i \in 0..n |-> FirstShares(u, n, i)] /\ y = [i \in 0..m |-> FirstShares(v, m, i)]
    OBVIOUS
  <2>4. ASSUME NEW i \in 1..n PROVE applied[i] = x[i] - x[i - 1]
    <3>1. applied[i] = SplitEvenly(u, n)[i]
      BY <1>4, <1>9, <1>13, <2>1 DEF ShareAt
    <3>2. i \in 0..n /\ i - 1 \in 0..n
      OBVIOUS
    <3>3. SplitEvenly(u, n)[i] = FirstShares(u, n, i) - FirstShares(u, n, i - 1)
      BY EvenSharesAddUp
    <3>4. QED
      BY <2>3, <3>1, <3>2, <3>3
  <2>5. ASSUME NEW i \in 1..m PROVE applied[n + i] = y[i] - y[i - 1]
    <3>1. applied[n + i] = SplitEvenly(v, m)[i]
      BY <1>4, <1>9, <1>13, <2>1 DEF ShareAt
    <3>2. i \in 0..m /\ i - 1 \in 0..m
      OBVIOUS
    <3>3. SplitEvenly(v, m)[i] = FirstShares(v, m, i) - FirstShares(v, m, i - 1)
      BY EvenSharesAddUp
    <3>4. QED
      BY <2>3, <3>1, <3>2, <3>3
  <2>6. /\ \A i \in 0..n : x[i] \in Int
        /\ \A i \in 0..m : y[i] \in Int
    BY <2>3, EvenSharesAddUp
  <2>7. x[0] = 0 /\ y[0] = 0 /\ x[n] = u /\ y[m] = v
    <3>1. 0 \in 0..n /\ n \in 0..n /\ 0 \in 0..m /\ m \in 0..m
      OBVIOUS
    <3>2. QED
      BY <2>3, <3>1, EvenSharesAddUp
  <2>8. Sum0(applied, 1..(n + m)) = x[n] + y[m]
    <3>1. TwoRuns(applied, n, x, m, y)
      BY <2>4, <2>5, <2>6, <2>7 DEF TwoRuns
    <3>2. QED
      BY <3>1, TwoSums
  <2>9. Total = t
    BY <1>10, <2>2, <2>7, <2>8
  <2>10. Slack = 0
    BY <1>13 DEF Slack
  <2>11. QED
    BY <1>12, <2>9, <2>10
<1>14. CASE ModelOf(order) = "open"
  <2>1. PICK p, q \in Nat : p = RateFor(order, "api", n) /\ q = RateFor(order, "browser", m)
    BY <1>2, <1>3, RateForIs
  <2>2. PICK x, y : x = [i \in 0..n |-> i * p] /\ y = [i \in 0..m |-> i * q]
    OBVIOUS
  <2>3. ASSUME NEW i \in 1..n PROVE applied[i] = x[i] - x[i - 1]
    <3>1. applied[i] = p
      BY <1>4, <1>9, <1>14, <2>1 DEF ShareAt
    <3>2. i \in 0..n /\ i - 1 \in 0..n /\ i \in Int
      OBVIOUS
    <3>3. i * p - (i - 1) * p = p
      BY <3>2, SMTT(30)
    <3>4. QED
      BY <2>2, <3>1, <3>2, <3>3
  <2>4. ASSUME NEW i \in 1..m PROVE applied[n + i] = y[i] - y[i - 1]
    <3>1. applied[n + i] = q
      BY <1>4, <1>9, <1>14, <2>1 DEF ShareAt
    <3>2. i \in 0..m /\ i - 1 \in 0..m /\ i \in Int
      OBVIOUS
    <3>3. i * q - (i - 1) * q = q
      BY <3>2, SMTT(30)
    <3>4. QED
      BY <2>2, <3>1, <3>2, <3>3
  <2>5. /\ \A i \in 0..n : x[i] \in Int
        /\ \A i \in 0..m : y[i] \in Int
    BY <2>2, Times
  <2>6. x[0] = 0 /\ y[0] = 0 /\ x[n] = n * p /\ y[m] = m * q
    BY <2>2
  <2>7. Sum0(applied, 1..(n + m)) = x[n] + y[m]
    <3>1. TwoRuns(applied, n, x, m, y)
      BY <2>3, <2>4, <2>5, <2>6 DEF TwoRuns
    <3>2. QED
      BY <3>1, TwoSums
  <2>8. PICK a, b \in Nat \ {0} :
          /\ a = WeightsOf(order)["api"] /\ b = WeightsOf(order)["browser"]
          /\ a + b = Sum0(WeightsOf(order), AllEngines)
    BY <1>2, MixedWeighs
  <2>9. t = RateOf(order)
    BY <1>12, <1>14 DEF FigureOf
  <2>10. p = Rounded(t * a, (a + b) * n) /\ q = Rounded(t * b, (a + b) * m)
    BY <1>2, <2>1, <2>8, <2>9 DEF RateFor
  <2>11. n * p + m * q \in (t - (n + m))..(t + (n + m))
    BY <2>10, TwoRates
  <2>12. Total \in (t - (n + m))..(t + (n + m))
    BY <1>10, <2>6, <2>7, <2>11
  <2>13. Slack = n + m
    BY <1>5, <1>14 DEF Slack
  <2>14. QED
    BY <1>12, <2>12, <2>13
<1>15. QED
  BY <1>2, <1>13, <1>14, AskedIs

\* What the invariant says of the load: it is dealt out.
LEMMA DealtFromInv == PlanInv => LoadIsDealtOut
<1> SUFFICES ASSUME PlanInv, order # NoOrder PROVE LoadIsDealtOut
  BY DEF LoadIsDealtOut
<1>1. PlanKept
  BY DEF PlanInv
<1>2. CASE ModelOf(order) = "schedule"
  BY <1>1, <1>2, ScheduleIsDealt DEF LoadIsDealtOut
<1>3. CASE ModelOf(order) # "schedule"
  <2>1. SUFFICES ASSUME ~(ModelOf(order) = "closed" /\ \E e \in ToSet(EnginesOf(order)) :
                              Deal(UsersOf(order), WeightsOf(order))[e] = 0 /\ Mixed(order))
                 PROVE  Total \in (Min(asked) - Slack)..(Max(asked) + Slack)
    BY <1>3 DEF LoadIsDealtOut
  <2>2. CASE \E e \in AllEngines : SlotsOfOne(slots, order, e)
    BY <1>1, <1>3, <2>2, OneEngineCarries
  <2>3. CASE SlotsOfTwo(slots, order)
    <3>1. ToSet(EnginesOf(order)) = AllEngines /\ Mixed(order)
      BY <2>3 DEF SlotsOfTwo, ToSet, AllEngines
    <3>2. ModelOf(order) = "closed" =>
             \A e \in AllEngines : Deal(UsersOf(order), WeightsOf(order))[e] # 0
      BY <2>1, <3>1
    <3>3. QED
      BY <1>1, <1>3, <2>3, <3>2, TwoEnginesCarry
  <2>4. QED
    BY <1>1, <2>2, <2>3, PlannedSlots DEF PlanKept
<1>4. QED
  BY <1>2, <1>3

\* The load of every run is dealt out over its workers, whatever it asks for and however it is
\* changed: it adds up to a total asked for, and each scheduled search fires on one worker.
THEOREM LoadIsDealtOutHolds == PlanSpec => []LoadIsDealtOut
<1>1. PlanInit => PlanInv
  BY DEF PlanInit, PlanInv
<1>2. PlanInv /\ [PlanNext]_planVars => PlanInv'
  BY PlanStep
<1>3. PlanInv => LoadIsDealtOut
  BY DealtFromInv
<1>4. QED
  BY <1>1, <1>2, <1>3, PTL DEF PlanSpec

-----------------------------------------------------------------------------
(* More about sums. *)

\* The sum over a subset is a number, and nothing over no elements.
LEMMA SumIsInt ==
    ASSUME NEW S, IsFiniteSet(S), NEW f, \A x \in S : f[x] \in Int
    PROVE  /\ Sum0(f, {}) = 0
           /\ \A T \in SUBSET S : Sum0(f, T) \in Int
<1>1. Sum0(f, {}) = 0
  BY SumTakes
<1>2. ASSUME NEW T \in SUBSET S PROVE IsFiniteSet(T) /\ \A x \in T : f[x] \in Int
  BY FS_Subset
<1>3. ASSUME NEW T \in SUBSET S PROVE Sum0(f, T) \in Int
  BY <1>2, SumTakes
<1>4. QED
  BY <1>1, <1>3

\* A sum is that of its first element and of the rest.
LEMMA SumFirst ==
    ASSUME NEW S, IsFiniteSet(S), NEW f, \A y \in S : f[y] \in Int,
           NEW T \in SUBSET S, T # {}, NEW x, x = First(T)
    PROVE  x \in T /\ Sum0(f, T) = f[x] + Sum0(f, T \ {x}) /\ Sum0(f, T \ {x}) \in Int
<1>1. T \ {x} \in SUBSET S /\ x \in T
  BY DEF First
<1>2. IsFiniteSet(T) /\ \A y \in T : f[y] \in Int
  BY FS_Subset
<1>3. Sum0(f, T) = f[x] + Sum0(f, T \ {x})
  BY <1>1, <1>2, SumTakes
<1>4. Sum0(f, T \ {x}) \in Int
  BY <1>1, SumIsInt
<1>5. QED
  BY <1>1, <1>3, <1>4

\* Over two sets that share nothing, the two sums.
LEMMA SumJoins ==
    ASSUME NEW S, NEW T, IsFiniteSet(S), IsFiniteSet(T), S \cap T = {}, NEW f,
           \A x \in S \cup T : f[x] \in Int
    PROVE  Sum0(f, S \cup T) = Sum0(f, S) + Sum0(f, T)
<1> DEFINE W == {U \in SUBSET T : Sum0(f, S \cup U) = Sum0(f, S) + Sum0(f, U)}
<1>1. IsFiniteSet(S \cup T)
  BY FS_Union
<1>2. {} \in W
  <2>1. S \cup {} = S /\ Sum0(f, {}) = 0 /\ Sum0(f, S) \in Int
    BY SumIsInt
  <2>2. QED
    BY <2>1
<1>3. ASSUME NEW U \in SUBSET T, U # {}, U \ {First(U)} \in W PROVE U \in W
  <2>1. PICK x : x = First(U)
    OBVIOUS
  <2>2. x \in U /\ Sum0(f, U) = f[x] + Sum0(f, U \ {x}) /\ Sum0(f, U \ {x}) \in Int
    <3>1. \A y \in T : f[y] \in Int
      OBVIOUS
    <3>2. QED
      BY <1>3, <2>1, <3>1, SumFirst
  <2>3. Sum0(f, S \cup (U \ {x})) = Sum0(f, S) + Sum0(f, U \ {x})
    BY <1>3, <2>1
  <2>4. (S \cup U) \ {x} = S \cup (U \ {x}) /\ x \in S \cup U /\ S \cup U \in SUBSET (S \cup T)
    BY <2>2
  <2>5. IsFiniteSet(S \cup U) /\ \A y \in S \cup U : f[y] \in Int
    BY <1>1, <2>4, FS_Subset
  <2>6. Sum0(f, S \cup U) = f[x] + Sum0(f, (S \cup U) \ {x})
    BY <2>4, <2>5, SumTakes
  <2>7. Sum0(f, S) \in Int /\ f[x] \in Int
    BY <2>2, SumIsInt
  <2>8. PICK a, b, c \in Int : a = Sum0(f, S) /\ b = f[x] /\ c = Sum0(f, U \ {x})
    BY <2>2, <2>7
  <2>9. Sum0(f, S \cup U) = b + (a + c) /\ Sum0(f, U) = b + c
    BY <2>2, <2>3, <2>4, <2>6, <2>8
  <2>10. QED
    BY <2>8, <2>9
<1>4. W = SUBSET T
  <2> HIDE DEF W
  <2>1. W \in SUBSET SUBSET T
    BY DEF W
  <2>2. QED
    BY <1>2, <1>3, <2>1, AllSubsets
<1>5. QED
  BY <1>4

\* Of natural numbers, over more of them no less.
LEMMA SumGrows ==
    ASSUME NEW T, IsFiniteSet(T), NEW S \in SUBSET T, NEW f, \A x \in T : f[x] \in Nat
    PROVE  Sum0(f, S) \in Nat /\ Sum0(f, T) \in Nat /\ Sum0(f, S) <= Sum0(f, T)
<1>1. IsFiniteSet(S) /\ IsFiniteSet(T \ S) /\ S \cup (T \ S) = T /\ S \cap (T \ S) = {}
  BY FS_Subset
<1>2. Sum0(f, S) \in Nat /\ Sum0(f, T \ S) \in Nat /\ Sum0(f, T) \in Nat
  BY <1>1, SumOfNats
<1>3. Sum0(f, S \cup (T \ S)) = Sum0(f, S) + Sum0(f, T \ S)
  BY <1>1, SumJoins
<1>4. QED
  BY <1>1, <1>2, <1>3

\* Nothing at each point is nothing.
LEMMA SumOfNothing ==
    ASSUME NEW S, IsFiniteSet(S), NEW f, \A x \in S : f[x] = 0 PROVE Sum0(f, S) = 0
<1> DEFINE W == {T \in SUBSET S : Sum0(f, T) = 0}
<1>1. {} \in W
  BY SumIsInt
<1>2. ASSUME NEW T \in SUBSET S, T # {}, T \ {First(T)} \in W PROVE T \in W
  <2>1. PICK x : x = First(T)
    OBVIOUS
  <2>2. \A y \in S : f[y] \in Int
    OBVIOUS
  <2>3. x \in T /\ Sum0(f, T) = f[x] + Sum0(f, T \ {x})
    BY <1>2, <2>1, <2>2, SumFirst
  <2>4. f[x] = 0 /\ Sum0(f, T \ {x}) = 0
    BY <1>2, <2>1, <2>3
  <2>5. QED
    BY <2>3, <2>4
<1>3. W = SUBSET S
  <2> HIDE DEF W
  <2>1. W \in SUBSET SUBSET S
    BY DEF W
  <2>2. QED
    BY <1>1, <1>2, <2>1, AllSubsets
<1>4. QED
  BY <1>3

\* Sums add up point by point.
LEMMA SumAdds ==
    ASSUME NEW S, IsFiniteSet(S), NEW f, NEW g, NEW h,
           \A x \in S : f[x] \in Int /\ g[x] \in Int /\ h[x] = f[x] + g[x]
    PROVE  Sum0(h, S) = Sum0(f, S) + Sum0(g, S)
<1> DEFINE W == {T \in SUBSET S : Sum0(h, T) = Sum0(f, T) + Sum0(g, T)}
<1>0. /\ \A x \in S : f[x] \in Int
      /\ \A x \in S : g[x] \in Int
      /\ \A x \in S : h[x] \in Int
  OBVIOUS
<1>1. {} \in W
  BY <1>0, SumIsInt
<1>2. ASSUME NEW T \in SUBSET S, T # {}, T \ {First(T)} \in W PROVE T \in W
  <2>1. PICK x : x = First(T)
    OBVIOUS
  <2>2. x \in T /\ Sum0(f, T) = f[x] + Sum0(f, T \ {x}) /\ Sum0(f, T \ {x}) \in Int
    BY <1>0, <1>2, <2>1, SumFirst
  <2>3. Sum0(g, T) = g[x] + Sum0(g, T \ {x}) /\ Sum0(g, T \ {x}) \in Int
    BY <1>0, <1>2, <2>1, SumFirst
  <2>4. Sum0(h, T) = h[x] + Sum0(h, T \ {x})
    BY <1>0, <1>2, <2>1, SumFirst
  <2>5. Sum0(h, T \ {x}) = Sum0(f, T \ {x}) + Sum0(g, T \ {x})
    BY <1>2, <2>1
  <2>6. PICK a, b, c, d \in Int : /\ a = f[x] /\ b = g[x]
                                  /\ c = Sum0(f, T \ {x}) /\ d = Sum0(g, T \ {x})
    BY <2>2, <2>3
  <2>7. Sum0(h, T) = (a + b) + (c + d) /\ Sum0(f, T) = a + c /\ Sum0(g, T) = b + d
    BY <2>2, <2>3, <2>4, <2>5, <2>6
  <2>8. QED
    BY <2>6, <2>7
<1>3. W = SUBSET S
  <2> HIDE DEF W
  <2>1. W \in SUBSET SUBSET S
    BY DEF W
  <2>2. QED
    BY <1>1, <1>2, <2>1, AllSubsets
<1>4. QED
  BY <1>3

\* h is f, but for n more at x.
RaisedAt(f, h, S, x, n) ==
    /\ \A y \in S : f[y] \in Int
    /\ \A y \in S \ {x} : h[y] = f[y]
    /\ x \in S => h[x] = f[x] + n

\* One point more, the rest as it was.
LEMMA SumRises ==
    ASSUME NEW S, IsFiniteSet(S), NEW f, NEW h, NEW x, NEW n \in Int, RaisedAt(f, h, S, x, n)
    PROVE  Sum0(h, S) = Sum0(f, S) + (IF x \in S THEN n ELSE 0)
<1> USE DEF RaisedAt
<1>1. CASE x \in S
  <2>1. \A y \in S : h[y] \in Int
    BY <1>1
  <2>2. Sum0(f, S) = f[x] + Sum0(f, S \ {x}) /\ Sum0(h, S) = h[x] + Sum0(h, S \ {x})
    BY <1>1, <2>1, SumTakes
  <2>3. IsFiniteSet(S \ {x})
    BY FS_Subset
  <2>4. Sum0(h, S \ {x}) = Sum0(f, S \ {x})
    BY <2>3, SumsAgree
  <2>5. Sum0(f, S \ {x}) \in Int
    BY SumIsInt
  <2>6. PICK a, b \in Int : a = f[x] /\ b = Sum0(f, S \ {x})
    BY <1>1, <2>5
  <2>7. Sum0(f, S) = a + b /\ Sum0(h, S) = (a + n) + b
    BY <1>1, <2>2, <2>4, <2>6
  <2>8. QED
    BY <1>1, <2>6, <2>7
<1>2. CASE x \notin S
  <2>1. Sum0(h, S) = Sum0(f, S)
    BY <1>2, SumsAgree
  <2>2. Sum0(f, S) \in Int
    BY SumIsInt
  <2>3. QED
    BY <1>2, <2>1, <2>2
<1>3. QED
  BY <1>1, <1>2

\* b adds up what c has by the kinds B gives the points.
SumsOfKinds(b, c, S, B, I) == \A i \in I : b[i] = Sum0(c, {x \in S : B[x] = i})
SumOfKinds(c, S, B, I) == Sum0(c, {x \in S : B[x] \in I})

\* Counted by what B gives each point, the sum is the same.
LEMMA SumByKind ==
    ASSUME NEW S, IsFiniteSet(S), NEW I, IsFiniteSet(I), NEW c, \A x \in S : c[x] \in Int,
           NEW B, NEW b, SumsOfKinds(b, c, S, B, I)
    PROVE  Sum0(b, I) = SumOfKinds(c, S, B, I)
<1> USE DEF SumsOfKinds, SumOfKinds
<1> DEFINE Of(J) == {x \in S : B[x] \in J}
           W == {J \in SUBSET I : Sum0(b, J) = Sum0(c, Of(J))}
<1>0. ASSUME NEW T \in SUBSET S PROVE IsFiniteSet(T) /\ Sum0(c, T) \in Int
  BY SumIsInt, FS_Subset
<1>1. \A i \in I : b[i] \in Int
  <2> TAKE i \in I
  <2>1. {x \in S : B[x] = i} \in SUBSET S
    OBVIOUS
  <2>2. QED
    BY <1>0, <2>1
<1>2. {} \in W
  <2>1. Of({}) = {}
    OBVIOUS
  <2>2. Sum0(b, {}) = 0 /\ Sum0(c, {}) = 0
    BY <1>1, SumIsInt
  <2>3. QED
    BY <2>1, <2>2
<1>3. ASSUME NEW J \in SUBSET I, J # {}, J \ {First(J)} \in W PROVE J \in W
  <2>1. PICK i : i = First(J)
    OBVIOUS
  <2>2. i \in J /\ Sum0(b, J) = b[i] + Sum0(b, J \ {i})
    BY <1>1, <1>3, <2>1, SumFirst
  <2>3. PICK T, U \in SUBSET S : T = {x \in S : B[x] = i} /\ U = Of(J \ {i})
    OBVIOUS
  <2>4. T \cup U = Of(J) /\ T \cap U = {}
    BY <2>2, <2>3
  <2>5. IsFiniteSet(T) /\ IsFiniteSet(U) /\ \A x \in T \cup U : c[x] \in Int
    BY <1>0
  <2>6. Sum0(c, T \cup U) = Sum0(c, T) + Sum0(c, U)
    BY <2>4, <2>5, SumJoins
  <2>7. b[i] = Sum0(c, T) /\ Sum0(b, J \ {i}) = Sum0(c, U)
    BY <1>3, <2>1, <2>2, <2>3
  <2> HIDE DEF Of
  <2>8. Sum0(b, J) = Sum0(c, Of(J))
    BY <2>2, <2>4, <2>6, <2>7
  <2>9. QED
    BY <2>8
<1>4. W = SUBSET I
  <2> HIDE DEF W
  <2>1. W \in SUBSET SUBSET I
    BY DEF W
  <2>2. QED
    BY <1>2, <1>3, <2>1, AllSubsets
<1>5. QED
  BY <1>4

-----------------------------------------------------------------------------
(* Powers of two, and the buckets. *)

\* Doubled n times, as far as n.
Doubled(f, n) == f = [i \in 0..n |-> IF i = 0 THEN 1 ELSE 2 * f[i - 1]]

\* The values of such a function.
LEMMA DoubledHas ==
    ASSUME NEW n \in Nat, NEW f, Doubled(f, n)
    PROVE  f[0] = 1 /\ \A i \in 1..n : f[i] = 2 * f[i - 1]
<1>1. \A i \in 0..n : f[i] = IF i = 0 THEN 1 ELSE 2 * f[i - 1]
  BY Zenon DEF Doubled
<1>2. QED
  BY <1>1

\* One can double as often as one likes.
LEMMA DoubledExists == \A n \in Nat : \E f : Doubled(f, n)
<1> DEFINE Good == {n \in Nat : \E f : Doubled(f, n)}
<1>1. 0 \in Good
  <2>1. PICK f : f = [i \in 0..0 |-> 1]
    OBVIOUS
  <2>2. Doubled(f, 0)
    BY <2>1 DEF Doubled
  <2>3. QED
    BY <2>2
<1>2. ASSUME NEW n \in Good PROVE n + 1 \in Good
  <2>1. PICK f : Doubled(f, n)
    OBVIOUS
  <2>2. PICK h : h = [i \in 0..(n + 1) |-> IF i = n + 1 THEN 2 * f[n] ELSE f[i]]
    OBVIOUS
  <2>3. ASSUME NEW i \in 0..(n + 1) PROVE h[i] = IF i = 0 THEN 1 ELSE 2 * h[i - 1]
    <3>1. n \in Nat /\ f[0] = 1 /\ \A j \in 1..n : f[j] = 2 * f[j - 1]
      BY <2>1, DoubledHas
    <3>2. CASE i = n + 1
      <4>1. i - 1 = n /\ i - 1 \in 0..(n + 1) /\ i # 0 /\ n # n + 1
        BY <3>1, <3>2
      <4>2. h[i] = 2 * f[n] /\ h[i - 1] = f[n]
        BY <2>2, <3>2, <4>1
      <4>3. QED
        BY <4>1, <4>2
    <3>3. CASE i # n + 1 /\ i # 0
      <4>1. i \in 1..n /\ i - 1 \in 0..(n + 1) /\ i - 1 # n + 1
        BY <3>1, <3>3
      <4>2. h[i] = f[i] /\ h[i - 1] = f[i - 1]
        BY <2>2, <3>3, <4>1
      <4>3. QED
        BY <3>1, <3>3, <4>1, <4>2
    <3>4. CASE i # n + 1 /\ i = 0
      BY <2>2, <3>1, <3>4
    <3>5. QED
      BY <3>2, <3>3, <3>4
  <2>4. Doubled(h, n + 1)
    BY <2>2, <2>3 DEF Doubled
  <2>5. QED
    BY <2>4
<1>3. Good = Nat
  <2> HIDE DEF Good
  <2>1. Good \in SUBSET Nat
    BY DEF Good
  <2>2. QED
    BY <1>1, <1>2, <2>1, AllNats
<1>4. QED
  BY <1>3

\* However far one goes, the powers are the same.
LEMMA DoubledAgree ==
    ASSUME NEW n \in Nat, NEW m \in Nat, n <= m, NEW f, NEW g, Doubled(f, n), Doubled(g, m)
    PROVE  \A i \in 0..n : f[i] = g[i]
<1> DEFINE T == {i \in Nat : i <= n => f[i] = g[i]}
<1>1. 0 \in T
  BY DoubledHas
<1>2. ASSUME NEW i \in T PROVE i + 1 \in T
  <2>1. SUFFICES ASSUME i + 1 <= n PROVE f[i + 1] = g[i + 1]
    OBVIOUS
  <2>2. i + 1 \in 1..n /\ i + 1 \in 1..m /\ (i + 1) - 1 = i /\ f[i] = g[i]
    BY <2>1
  <2>3. f[i + 1] = 2 * f[(i + 1) - 1] /\ g[i + 1] = 2 * g[(i + 1) - 1]
    BY <2>2, DoubledHas
  <2>4. QED
    BY <2>2, <2>3
<1>3. T = Nat
  <2> HIDE DEF T
  <2>1. T \in SUBSET Nat
    BY DEF T
  <2>2. QED
    BY <1>1, <1>2, <2>1, AllNats
<1>4. QED
  BY <1>3

\* What a power of two is.
LEMMA PowersAre == Pow2[0] = 1 /\ \A n \in Nat : Pow2[n + 1] = 2 * Pow2[n]
<1> DEFINE F == [n \in Nat |-> CHOOSE f : Doubled(f, n)]
           g == [n \in Nat |-> F[n][n]]
<1>1. ASSUME NEW n \in Nat PROVE Doubled(F[n], n)
  BY DoubledExists
<1> HIDE DEF F
<1>2. ASSUME NEW n \in Nat PROVE g[n] = IF n = 0 THEN 1 ELSE 2 * g[n - 1]
  <2>1. CASE n = 0
    BY <1>1, <2>1, DoubledHas
  <2>2. CASE n # 0
    <3>1. n - 1 \in Nat /\ n \in 1..n /\ n - 1 \in 0..(n - 1) /\ n - 1 <= n
      BY <2>2
    <3>2. F[n][n] = 2 * F[n][n - 1]
      BY <1>1, <3>1, DoubledHas
    <3>3. F[n - 1][n - 1] = F[n][n - 1]
      BY <1>1, <3>1, DoubledAgree
    <3>4. g[n] = F[n][n] /\ g[n - 1] = F[n - 1][n - 1]
      BY <3>1
    <3>5. QED
      BY <2>2, <3>2, <3>3, <3>4
  <2>3. QED
    BY <2>1, <2>2
<1>3. g = [n \in Nat |-> IF n = 0 THEN 1 ELSE 2 * g[n - 1]]
  BY <1>2
<1> HIDE DEF g
<1>4. Pow2 = [n \in Nat |-> IF n = 0 THEN 1 ELSE 2 * Pow2[n - 1]]
  BY <1>3 DEF Pow2
<1>5. Pow2[0] = 1
  BY <1>4
<1>6. ASSUME NEW n \in Nat PROVE Pow2[n + 1] = 2 * Pow2[n]
  <2>1. n + 1 \in Nat /\ n + 1 # 0 /\ (n + 1) - 1 = n
    OBVIOUS
  <2>2. Pow2[n + 1] = 2 * Pow2[(n + 1) - 1]
    BY <1>4, <2>1
  <2>3. QED
    BY <2>1, <2>2
<1>7. QED
  BY <1>5, <1>6

\* It is a number, and not nothing.
LEMMA PowersAreNat == \A n \in Nat : Pow2[n] \in Nat \ {0}
<1> DEFINE T == {n \in Nat : Pow2[n] \in Nat \ {0}}
<1>1. 0 \in T
  BY PowersAre
<1>2. ASSUME NEW n \in T PROVE n + 1 \in T
  BY PowersAre
<1>3. T = Nat
  <2> HIDE DEF T
  <2>1. T \in SUBSET Nat
    BY DEF T
  <2>2. QED
    BY <1>1, <1>2, <2>1, AllNats
<1>4. QED
  BY <1>3

\* And a greater one is at least twice a smaller.
LEMMA PowersGrow == ASSUME NEW a \in Nat, NEW b \in Nat, a < b PROVE 2 * Pow2[a] <= Pow2[b]
<1> DEFINE T == {n \in Nat : a < n => 2 * Pow2[a] <= Pow2[n]}
<1>1. 0 \in T
  OBVIOUS
<1>2. ASSUME NEW n \in T PROVE n + 1 \in T
  <2>1. Pow2[n + 1] = 2 * Pow2[n] /\ Pow2[n] \in Nat /\ Pow2[a] \in Nat
    BY PowersAre, PowersAreNat
  <2>2. CASE a < n
    BY <2>1, <2>2
  <2>3. CASE a = n
    BY <2>1, <2>3
  <2>4. CASE a > n
    BY <2>4
  <2>5. QED
    BY <2>2, <2>3, <2>4
<1>3. T = Nat
  <2> HIDE DEF T
  <2>1. T \in SUBSET Nat
    BY DEF T
  <2>2. QED
    BY <1>1, <1>2, <2>1, AllNats
<1>4. QED
  BY <1>3

\* What the assumptions say of the buckets and the values.
LEMMA SketchIs ==
    /\ Sub \in Nat \ {0} /\ MaxShift \in Nat /\ IsFiniteSet(Recorders)
    /\ Latencies \in SUBSET Nat /\ IsFiniteSet(Latencies)
    /\ \A v \in Latencies : v < 2 * (Sub * Pow2[MaxShift])
<1>1. Sub \in Nat \ {0}
  BY HistogramAssumption, PowersAreNat DEF Sub
<1>2. MaxShift \in Nat /\ IsFiniteSet(Recorders)
  BY HistogramAssumption
<1>3. Pow2[MaxShift] \in Nat
  BY <1>2, PowersAreNat
<1>4. PICK n \in Nat : n = Sub * Pow2[MaxShift]
  BY <1>1, <1>3, Times
<1>5. Latencies \subseteq 0..(2 * n - 1)
  BY <1>4, HistogramAssumption
<1>6. IsFiniteSet(0..(2 * n - 1))
  BY FS_Interval
<1>7. IsFiniteSet(Latencies)
  BY <1>5, <1>6, FS_Subset
<1>8. Latencies \in SUBSET Nat /\ \A v \in Latencies : v < 2 * n
  BY <1>5
<1>9. QED
  BY <1>1, <1>2, <1>4, <1>7, <1>8

\* A value of the second octave or above has a shift that leaves its mantissa.
LEMMA ShiftExists ==
    ASSUME NEW v \in Latencies, v >= Sub
    PROVE  \E s \in 0..MaxShift : v \div Pow2[s] \in Sub..(2 * Sub - 1)
<1>0. v \in Nat /\ Sub \in Nat \ {0} /\ MaxShift \in Nat
  BY SketchIs
<1> DEFINE Over == {s \in Nat : v < 2 * (Sub * Pow2[s])}
<1>1. MaxShift \in Over
  BY SketchIs
<1>2. PICK s \in Over : \A r \in Over : s <= r
  <2>1. Over \in SUBSET Nat /\ Over # {}
    BY <1>1
  <2> HIDE DEF Over
  <2>2. QED
    BY <2>1, LeastOfSome
<1>3. s \in 0..MaxShift /\ s \in Nat
  BY <1>0, <1>1, <1>2
<1>4. PICK p \in Nat \ {0} : p = Pow2[s]
  BY <1>3, PowersAreNat
<1>5. PICK k \in Nat : k = Sub * p
  BY <1>0, <1>4, Times
<1>6. v < 2 * k
  BY <1>2, <1>4, <1>5
<1>7. k <= v
  <2>1. CASE s = 0
    <3>1. p = 1
      BY <1>4, <2>1, PowersAre
    <3>2. k = Sub
      BY <1>0, <1>5, <3>1
    <3>3. QED
      BY <1>0, <3>2
  <2>2. CASE s # 0
    <3>1. s - 1 \in Nat /\ (s - 1) + 1 = s /\ ~(s <= s - 1)
      BY <1>3, <2>2
    <3>2. s - 1 \notin Over
      BY <1>2, <3>1
    <3>3. PICK q \in Nat : q = Pow2[s - 1]
      BY <3>1, PowersAreNat
    <3>4. p = 2 * q
      BY <1>4, <3>1, <3>3, PowersAre
    <3>5. PICK j \in Nat : j = Sub * q
      BY <1>0, <3>3, Times
    <3>6. ~(v < 2 * j)
      BY <3>1, <3>2, <3>3, <3>5
    <3>7. k = 2 * j
      <4>1. Sub * (2 * q) = 2 * (Sub * q)
        BY <1>0, SMTT(30)
      <4>2. QED
        BY <1>5, <3>4, <3>5, <4>1
    <3>8. QED
      BY <1>0, <1>5, <3>5, <3>6, <3>7
  <2>3. QED
    BY <2>1, <2>2
<1>8. PICK q, r \in Nat : q = v \div p /\ r = v % p
  BY <1>0, <1>4, Divided
<1>9. v = p * q + r /\ r < p
  BY <1>0, <1>4, <1>8, Divided
<1>10. Sub < q + 1
  <2>1. p * (q + 1) = p * q + p * 1 /\ p * 1 = p /\ p * q \in Int
    BY Times
  <2>2. p * Sub = k
    BY <1>0, <1>5, Times
  <2>3. p * Sub < p * (q + 1)
    BY <1>5, <1>7, <1>9, <2>1, <2>2
  <2>4. QED
    BY <1>0, <2>3, Times
<1>11. q < 2 * Sub
  <2>1. p * (2 * Sub) = 2 * (Sub * p)
    BY <1>0, SMTT(30)
  <2>2. p * q \in Int
    BY Times
  <2>3. p * q < p * (2 * Sub)
    BY <1>5, <1>6, <1>9, <2>1, <2>2
  <2>4. 2 * Sub \in Int
    BY <1>0
  <2>5. QED
    BY <2>3, <2>4, Times
<1>12. v \div Pow2[s] \in Sub..(2 * Sub - 1)
  BY <1>0, <1>4, <1>8, <1>10, <1>11
<1>13. QED
  BY <1>3, <1>12

\* n goes q times into t, and leaves r.
Goes(t, n, q, r) == t = n * q + r /\ r < n

\* A number is divided in one way.
LEMMA QuotientIs ==
    ASSUME NEW n \in Nat \ {0}, NEW q \in Nat, NEW r \in Nat, NEW t \in Nat, Goes(t, n, q, r)
    PROVE  t \div n = q /\ t % n = r
<1> USE DEF Goes
<1>1. PICK p, s \in Nat : p = t \div n /\ s = t % n
  BY Divided
<1>2. t = n * p + s /\ s < n
  BY <1>1, Divided
<1>3. PICK x, y \in Int : x = n * q /\ y = n * p
  BY Times
<1>4. x + r = y + s
  BY <1>2, <1>3
<1>5. n * (q - p) = x - y
  BY <1>3, Times
<1>6. n * 1 = n /\ n * (-1) = -n
  OBVIOUS
<1>7. n * (q - p) < n * 1 /\ n * (-1) < n * (q - p)
  BY <1>2, <1>3, <1>4, <1>5, <1>6
<1>8. q - p < 1 /\ -1 < q - p
  <2>1. q - p \in Int
    OBVIOUS
  <2>2. QED
    BY <1>7, <2>1, Times
<1>9. q = p
  BY <1>8
<1>10. QED
  BY <1>1, <1>3, <1>4, <1>9

\* A bucket above the first octave: its number, its lower bound and its width.
LEMMA UpperBucket ==
    ASSUME NEW s \in Nat, NEW m \in Sub..(2 * Sub - 1), NEW i, i = s * Sub + m
    PROVE  i \in Nat /\ i >= Sub /\ LowerBound(i) = m * Pow2[s] /\ Width(i) = Pow2[s]
<1>0. PICK n \in Nat \ {0} : n = Sub
  BY SketchIs
<1>1. PICK x \in Nat : x = s * n /\ x = n * s
  BY <1>0, Times
<1>2. PICK d \in Nat : d = m - n /\ d < n
  BY <1>0
<1>3. i \in Nat /\ i >= n /\ i - n \in Nat /\ i - n = n * s + d
  BY <1>0, <1>1, <1>2
<1>4. (i - n) \div n = s /\ (i - n) % n = d
  <2>1. PICK t \in Nat : t = i - n /\ t = n * s + d
    BY <1>3
  <2>2. Goes(t, n, s, d)
    BY <1>2, <2>1 DEF Goes
  <2>3. t \div n = s /\ t % n = d
    BY <2>2, QuotientIs
  <2>4. QED
    BY <2>1, <2>3
<1>5. BucketShift(i) = s
  BY <1>0, <1>4 DEF BucketShift
<1>6. ~(i < Sub) /\ n + d = m
  BY <1>0, <1>2, <1>3
<1>7. LowerBound(i) = (n + d) * Pow2[s]
  BY <1>0, <1>4, <1>5, <1>6 DEF LowerBound
<1>8. Width(i) = Pow2[s]
  BY <1>5, <1>6 DEF Width
<1>9. QED
  BY <1>0, <1>3, <1>6, <1>7, <1>8

\* v is a value of the first octave, or has a shift s and a mantissa m.
IsLow(v) == v < Sub /\ BucketIndex(v) = v
IsHigh(v, s, m, p) ==
    /\ ~(v < Sub) /\ BucketIndex(v) = s * Sub + m /\ p = Pow2[s]
    /\ p * m <= v /\ v < p * (m + 1)

\* Each value is one or the other.
LEMMA ValueIs ==
    ASSUME NEW v \in Latencies
    PROVE  \/ IsLow(v)
           \/ \E s \in Nat, m \in Sub..(2 * Sub - 1), p \in Nat \ {0} : IsHigh(v, s, m, p)
<1>0. v \in Nat /\ Sub \in Nat \ {0} /\ MaxShift \in Nat
  BY SketchIs
<1>1. CASE v < Sub
  BY <1>1 DEF IsLow, BucketIndex
<1>2. CASE ~(v < Sub)
  <2>1. v >= Sub
    BY <1>0, <1>2
  <2>2. PICK s \in 0..MaxShift : s = ShiftOf(v) /\ v \div Pow2[s] \in Sub..(2 * Sub - 1)
    BY <2>1, ShiftExists DEF ShiftOf
  <2>3. s \in Nat
    BY <1>0, <2>2
  <2>4. PICK p \in Nat \ {0} : p = Pow2[s]
    BY <2>3, PowersAreNat
  <2>5. PICK m, r \in Nat : m = v \div p /\ r = v % p
    BY <1>0, <2>4, Divided
  <2>6. v = p * m + r /\ r < p
    BY <1>0, <2>4, <2>5, Divided
  <2>7. p * (m + 1) = p * m + p /\ p * m \in Int
    BY Times
  <2>8. m \in Sub..(2 * Sub - 1) /\ BucketIndex(v) = s * Sub + m
    BY <1>2, <2>2, <2>4, <2>5 DEF BucketIndex
  <2>9. p * m <= v /\ v < p * (m + 1)
    BY <1>0, <2>6, <2>7
  <2>10. IsHigh(v, s, m, p)
    BY <1>2, <2>4, <2>8, <2>9 DEF IsHigh
  <2>11. QED
    BY <2>3, <2>4, <2>8, <2>10
<1>3. QED
  BY <1>1, <1>2

\* A value lies in its bucket, which is narrow beside it.
LEMMA BucketHolds ==
    ASSUME NEW v \in Latencies, NEW i, i = BucketIndex(v)
    PROVE  /\ i \in Nat /\ LowerBound(i) \in Nat /\ Width(i) \in Nat \ {0}
           /\ LowerBound(i) <= v /\ v <= LowerBound(i) + Width(i) - 1
           /\ Sub * (Width(i) - 1) <= v
<1>0. v \in Nat /\ Sub \in Nat \ {0}
  BY SketchIs
<1>1. CASE IsLow(v)
  <2>1. i = v /\ LowerBound(i) = v /\ Width(i) = 1
    BY <1>1 DEF IsLow, LowerBound, Width
  <2>2. Sub * (1 - 1) = 0
    BY <1>0
  <2>3. QED
    BY <1>0, <2>1, <2>2
<1>2. CASE \E s \in Nat, m \in Sub..(2 * Sub - 1), p \in Nat \ {0} : IsHigh(v, s, m, p)
  <2>1. PICK s \in Nat, m \in Sub..(2 * Sub - 1), p \in Nat \ {0} : IsHigh(v, s, m, p)
    BY <1>2
  <2>2. i = s * Sub + m /\ p = Pow2[s] /\ p * m <= v /\ v < p * (m + 1)
    BY <2>1 DEF IsHigh
  <2>3. i \in Nat /\ LowerBound(i) = m * p /\ Width(i) = p
    BY <2>2, UpperBucket
  <2>4. m \in Nat /\ Sub <= m
    BY <1>0
  <2>5. PICK x, y, z \in Nat : x = p * m /\ y = p * (m + 1) /\ z = Sub * p
    BY <1>0, <2>4, Times
  <2>6. m * p = x /\ y = x + p
    BY <2>4, <2>5, Times
  <2>7. z <= x
    <3>1. p * Sub <= p * m /\ p * Sub = Sub * p
      BY <1>0, <2>4, Times
    <3>2. QED
      BY <2>5, <3>1
  <2>8. Sub * (p - 1) = z - Sub
    <3>1. Sub * (p - 1) = Sub * p - Sub * 1 /\ Sub * 1 = Sub
      BY <1>0, Times
    <3>2. QED
      BY <2>5, <3>1
  <2>9. QED
    BY <1>0, <2>2, <2>3, <2>5, <2>6, <2>7, <2>8
<1>3. QED
  BY <1>1, <1>2, ValueIs

\* A greater value is in no lower a bucket.
LEMMA BucketsInOrder ==
    ASSUME NEW v \in Latencies, NEW u \in Latencies, v <= u PROVE BucketIndex(v) <= BucketIndex(u)
<1>0. v \in Nat /\ u \in Nat /\ Sub \in Nat \ {0}
  BY SketchIs
<1>1. CASE IsLow(u)
  <2>1. v < Sub
    BY <1>0, <1>1 DEF IsLow
  <2>2. BucketIndex(v) = v /\ BucketIndex(u) = u
    BY <1>1, <2>1 DEF IsLow, BucketIndex
  <2>3. QED
    BY <2>2
<1>2. CASE \E s \in Nat, m \in Sub..(2 * Sub - 1), p \in Nat \ {0} : IsHigh(u, s, m, p)
  <2>1. PICK s \in Nat, m \in Sub..(2 * Sub - 1), p \in Nat \ {0} : IsHigh(u, s, m, p)
    BY <1>2
  <2>2. /\ BucketIndex(u) = s * Sub + m /\ p = Pow2[s]
        /\ p * m <= u /\ u < p * (m + 1)
    BY <2>1 DEF IsHigh
  <2>3. CASE IsLow(v)
    <3>1. BucketIndex(v) < Sub /\ BucketIndex(v) \in Nat
      BY <1>0, <2>3 DEF IsLow
    <3>2. BucketIndex(u) \in Nat /\ BucketIndex(u) >= Sub
      BY <2>2, UpperBucket
    <3>3. QED
      BY <1>0, <3>1, <3>2
  <2>4. CASE \E r \in Nat, k \in Sub..(2 * Sub - 1), q \in Nat \ {0} : IsHigh(v, r, k, q)
    <3>1. PICK r \in Nat, k \in Sub..(2 * Sub - 1), q \in Nat \ {0} : IsHigh(v, r, k, q)
      BY <2>4
    <3>2. /\ BucketIndex(v) = r * Sub + k /\ q = Pow2[r]
          /\ q * k <= v /\ v < q * (k + 1)
      BY <3>1 DEF IsHigh
    <3>3. /\ m \in Nat /\ Sub <= m /\ m <= 2 * Sub - 1
          /\ k \in Nat /\ Sub <= k /\ k <= 2 * Sub - 1
      BY <1>0
    <3>4. CASE s < r
      <4>1. 2 * p <= q
        BY <2>2, <3>2, <3>4, PowersGrow
      <4>2. p * (m + 1) <= p * (2 * Sub)
        <5>1. m + 1 <= 2 * Sub /\ m + 1 \in Int /\ 2 * Sub \in Int
          BY <1>0, <3>3
        <5>2. QED
          BY <5>1, Times
      <4>3. p * (2 * Sub) = Sub * (2 * p)
        BY <1>0, SMTT(30)
      <4>4. Sub * (2 * p) <= Sub * q
        BY <1>0, <4>1, Times
      <4>5. Sub * q <= q * k
        BY <1>0, <3>3, Times
      <4>6. PICK a, b, c, d \in Int : a = p * (m + 1) /\ b = Sub * (2 * p) /\ c = Sub * q /\ d = q * k
        BY <1>0, <3>3, Times
      <4>7. a <= b /\ b <= c /\ c <= d /\ d <= v /\ u < a
        BY <2>2, <3>2, <4>2, <4>3, <4>4, <4>5, <4>6
      <4>8. QED
        BY <1>0, <4>6, <4>7
    <3>5. CASE s = r
      <4>1. p = q
        BY <2>2, <3>2, <3>5
      <4>2. p * k < p * (m + 1)
        <5>1. p * k \in Int /\ p * (m + 1) \in Int
          BY <3>3, Times
        <5>2. QED
          BY <1>0, <2>2, <3>2, <4>1, <5>1
      <4>3. k < m + 1
        <5>1. m + 1 \in Int
          BY <3>3
        <5>2. QED
          BY <3>3, <4>2, <5>1, Times
      <4>4. PICK x \in Int : x = s * Sub
        BY <1>0
      <4>5. QED
        BY <2>2, <3>2, <3>3, <3>5, <4>3, <4>4
    <3>6. CASE s > r
      <4>1. Sub * (r + 1) <= Sub * s /\ Sub * (r + 1) = Sub * r + Sub
        <5>1. r + 1 \in Int /\ r + 1 <= s
          BY <3>6
        <5>2. Sub * (r + 1) = Sub * r + Sub * 1 /\ Sub * 1 = Sub
          BY <1>0, Times
        <5>3. QED
          BY <1>0, <5>1, <5>2, Times
      <4>2. PICK x, y \in Int : /\ x = s * Sub /\ x = Sub * s /\ y = r * Sub /\ y = Sub * r
        BY <1>0, Times
      <4>3. y + Sub <= x
        BY <4>1, <4>2
      <4>4. QED
        BY <1>0, <2>2, <3>2, <3>3, <4>2, <4>3
    <3>7. QED
      BY <3>4, <3>5, <3>6
  <2>5. QED
    BY <2>3, <2>4, ValueIs
<1>3. QED
  BY <1>1, <1>2, ValueIs

-----------------------------------------------------------------------------
(* What a sketch keeps of the values it recorded. *)

\* A set's least and greatest are the ones that bound it.
LEMMA LeastIs ==
    ASSUME NEW S \in SUBSET Nat, NEW m \in S
    PROVE  /\ (\A x \in S : m <= x) => Min(S) = m
           /\ (\A x \in S : x <= m) => Max(S) = m
<1>1. ASSUME \A x \in S : m <= x PROVE Min(S) = m
  <2>1. Min(S) \in S /\ \A x \in S : Min(S) <= x
    BY <1>1 DEF Min
  <2>2. Min(S) <= m /\ m <= Min(S) /\ m \in Nat /\ Min(S) \in Nat
    BY <1>1, <2>1
  <2>3. QED
    BY <2>2
<1>2. ASSUME \A x \in S : x <= m PROVE Max(S) = m
  <2>1. \A x \in S : m >= x
    BY <1>2
  <2>2. Max(S) \in S /\ \A x \in S : Max(S) >= x
    BY <2>1 DEF Max
  <2>3. Max(S) >= m /\ Max(S) <= m /\ m \in Nat /\ Max(S) \in Nat
    BY <1>2, <2>2
  <2>4. QED
    BY <2>3
<1>3. QED
  BY <1>1, <1>2

\* Values that are recorded have a least and a greatest.
LEMMA EndsAre ==
    ASSUME NEW S \in SUBSET Latencies, S # {}
    PROVE  /\ Min(S) \in S /\ Max(S) \in S /\ S \in SUBSET Nat
           /\ \A x \in S : Min(S) <= x /\ x <= Max(S)
<1>1. PICK n \in Nat : n = Sub * Pow2[MaxShift]
  BY SketchIs, PowersAreNat, Times
<1>2. S \subseteq 0..(2 * n) /\ S \in SUBSET Nat
  BY <1>1, SketchIs
<1>3. AreTotals(S)
  <2>1. 2 * n \in Nat
    OBVIOUS
  <2>2. QED
    BY <1>2, <2>1 DEF AreTotals
<1>4. PICK x \in S : TRUE
  OBVIOUS
<1>5. QED
  BY <1>2, <1>3, <1>4, TotalsAre

\* The extremes of some values, as long as the least and the greatest are among them.
LEMMA SameExtremes ==
    ASSUME NEW U \in SUBSET Latencies, NEW E \in SUBSET U, U # {} => Min(U) \in E /\ Max(U) \in E
    PROVE  Extremes(E) = Extremes(U)
<1>1. CASE U = {}
  BY <1>1
<1>2. CASE U # {}
  <2>1. Min(U) \in E /\ Max(U) \in E /\ E \in SUBSET Nat
    BY <1>2, EndsAre
  <2>2. \A x \in E : Min(U) <= x /\ x <= Max(U)
    BY <1>2, EndsAre
  <2>3. Min(E) = Min(U) /\ Max(E) = Max(U)
    BY <2>1, <2>2, LeastIs
  <2>4. QED
    BY <1>2, <2>1, <2>3 DEF Extremes
<1>3. QED
  BY <1>1, <1>2

\* The extremes of two sets' extremes are those of the two.
LEMMA ExtremesOfBoth ==
    ASSUME NEW S \in SUBSET Latencies, NEW T \in SUBSET Latencies
    PROVE  Extremes(Extremes(S) \cup Extremes(T)) = Extremes(S \cup T)
<1>1. ASSUME NEW Q \in SUBSET Latencies
      PROVE  Extremes(Q) \in SUBSET Q /\ (Q # {} => Min(Q) \in Extremes(Q) /\ Max(Q) \in Extremes(Q))
  BY EndsAre DEF Extremes
<1>2. ASSUME NEW Q \in SUBSET Latencies, NEW R \in SUBSET Latencies, R # {}, Q \in SUBSET R
      PROVE  (Min(R) \in Q => Min(R) = Min(Q)) /\ (Max(R) \in Q => Max(R) = Max(Q))
  <2>1. Q \in SUBSET Nat /\ \A x \in Q : Min(R) <= x /\ x <= Max(R)
    BY <1>2, EndsAre
  <2>2. QED
    BY <2>1, LeastIs
<1>3. PICK U \in SUBSET Latencies : U = S \cup T
  OBVIOUS
<1>4. PICK E \in SUBSET U : E = Extremes(S) \cup Extremes(T)
  BY <1>1, <1>3
<1>5. ASSUME U # {} PROVE Min(U) \in E /\ Max(U) \in E
  <2>1. Min(U) \in U /\ Max(U) \in U
    BY <1>5, EndsAre
  <2>2. Min(U) \in S => Min(U) = Min(S) /\ S # {}
    BY <1>2, <1>3, <1>5
  <2>3. Min(U) \in T => Min(U) = Min(T) /\ T # {}
    BY <1>2, <1>3, <1>5
  <2>4. Max(U) \in S => Max(U) = Max(S) /\ S # {}
    BY <1>2, <1>3, <1>5
  <2>5. Max(U) \in T => Max(U) = Max(T) /\ T # {}
    BY <1>2, <1>3, <1>5
  <2>6. QED
    BY <1>1, <1>3, <1>4, <2>1, <2>2, <2>3, <2>4, <2>5
<1>6. QED
  BY <1>3, <1>4, <1>5, SameExtremes

\* Nor does it matter to the extremes, for one value, which are already forgotten.
LEMMA ExtremesWithOne ==
    ASSUME NEW S \in SUBSET Latencies, NEW v \in Latencies
    PROVE  Extremes(Extremes(S) \cup {v}) = Extremes(S \cup {v})
<1>1. Extremes({v}) = {v}
  <2>1. v \in Nat
    BY SketchIs
  <2>2. Min({v}) = v /\ Max({v}) = v
    BY <2>1, LeastIs
  <2>3. QED
    BY <2>2 DEF Extremes
<1>2. Extremes(Extremes(S) \cup Extremes({v})) = Extremes(S \cup {v})
  BY ExtremesOfBoth
<1>3. QED
  BY <1>1, <1>2

\* The values of one bucket, and those that were recorded.
InBucket(i) == {v \in Latencies : BucketIndex(v) = i}
SomeOf(c) == {v \in Latencies : c[v] > 0}
Weighed(c) == [v \in Latencies |-> v * c[v]]

\* h is the sketch of values recorded as often as c says.
Sketches(h, c) ==
    /\ h.buckets = [i \in Indexes |-> Sum0(c, InBucket(i))]
    /\ h.count = Sum0(c, Latencies) /\ h.sum = Sum0(Weighed(c), Latencies)
    /\ h.extremes = Extremes(SomeOf(c))
Counts == [Latencies -> Nat]
NoCounts == [v \in Latencies |-> 0]

\* A bucket's values are finitely many.
LEMMA InBucketIs == \A i : InBucket(i) \in SUBSET Latencies /\ IsFiniteSet(InBucket(i))
<1> TAKE i
<1>1. InBucket(i) \in SUBSET Latencies
  BY DEF InBucket
<1>2. QED
  BY <1>1, SketchIs, FS_Subset

\* The empty sketch is that of no values.
LEMMA EmptyIs == Sketches(Empty, NoCounts) /\ NoCounts \in Counts
<1>1. \A v \in Latencies : v \in Nat /\ NoCounts[v] = 0 /\ Weighed(NoCounts)[v] = 0
  BY SketchIs DEF NoCounts, Weighed
<1>2. Sum0(NoCounts, Latencies) = 0 /\ Sum0(Weighed(NoCounts), Latencies) = 0
  BY <1>1, SketchIs, SumOfNothing
<1>3. ASSUME NEW i PROVE Sum0(NoCounts, InBucket(i)) = 0
  <2>1. \A v \in InBucket(i) : NoCounts[v] = 0
    BY <1>1, InBucketIs
  <2>2. QED
    BY <2>1, InBucketIs, SumOfNothing
<1>4. SomeOf(NoCounts) = {} /\ Extremes({}) = {}
  BY <1>1 DEF SomeOf, Extremes
<1>5. NoCounts \in Counts
  BY DEF NoCounts, Counts
<1>6. /\ Empty.buckets = [i \in Indexes |-> 0] /\ Empty.count = 0 /\ Empty.sum = 0
      /\ Empty.extremes = {}
  BY DEF Empty
<1>7. QED
  BY <1>2, <1>3, <1>4, <1>5, <1>6 DEF Sketches

\* What was recorded, weighed.
LEMMA WeighedIs ==
    ASSUME NEW c \in Counts
    PROVE  \A v \in Latencies : Weighed(c)[v] = v * c[v] /\ Weighed(c)[v] \in Nat /\ c[v] \in Nat /\ v \in Nat
<1> TAKE v \in Latencies
<1>1. c[v] \in Nat /\ v \in Nat
  BY SketchIs DEF Counts
<1>2. Weighed(c)[v] = v * c[v]
  BY DEF Weighed
<1>3. v * c[v] \in Nat
  BY <1>1, Times
<1>4. QED
  BY <1>1, <1>2, <1>3

\* Recording a value is sketching one more of it.
LEMMA RecordedIs ==
    ASSUME NEW h, NEW c \in Counts, Sketches(h, c), NEW v \in Latencies, NEW d, d = [c EXCEPT ![v] = @ + 1]
    PROVE  Sketches(With(h, v), d) /\ d \in Counts
<1>1. d \in Counts /\ d[v] = c[v] + 1 /\ \A u \in Latencies \ {v} : d[u] = c[u]
  BY DEF Counts
<1>2. \A u \in Latencies : c[u] \in Int /\ u \in Nat
  BY WeighedIs
<1>3. ASSUME NEW S \in SUBSET Latencies
      PROVE  Sum0(d, S) = Sum0(c, S) + (IF v \in S THEN 1 ELSE 0)
  <2>1. IsFiniteSet(S)
    BY SketchIs, FS_Subset
  <2>2. RaisedAt(c, d, S, v, 1)
    BY <1>1, <1>2 DEF RaisedAt
  <2>3. QED
    BY <2>1, <2>2, SumRises
<1>4. Sum0(d, Latencies) = Sum0(c, Latencies) + 1
  BY <1>3
<1>5. Sum0(Weighed(d), Latencies) = Sum0(Weighed(c), Latencies) + v
  <2>1. /\ \A u \in Latencies : Weighed(c)[u] \in Int
        /\ \A u \in Latencies \ {v} : Weighed(d)[u] = Weighed(c)[u]
    <3>1. \A u \in Latencies : Weighed(c)[u] = u * c[u] /\ Weighed(c)[u] \in Nat
      BY WeighedIs
    <3>2. \A u \in Latencies : Weighed(d)[u] = u * d[u]
      BY <1>1, WeighedIs
    <3>3. \A u \in Latencies : Weighed(c)[u] \in Int
      BY <3>1
    <3>4. ASSUME NEW u \in Latencies \ {v} PROVE Weighed(d)[u] = Weighed(c)[u]
      <4>1. d[u] = c[u]
        BY <1>1
      <4>2. Weighed(c)[u] = u * c[u] /\ Weighed(d)[u] = u * d[u]
        BY <3>1, <3>2
      <4>3. QED
        BY <4>1, <4>2
    <3>5. QED
      BY <3>3, <3>4
  <2>2. Weighed(d)[v] = Weighed(c)[v] + v /\ v \in Int
    <3>1. PICK n \in Nat : n = c[v]
      BY WeighedIs
    <3>2. Weighed(d)[v] = v * (n + 1) /\ Weighed(c)[v] = v * n /\ v \in Nat
      BY <1>1, <3>1, WeighedIs
    <3>3. v * (n + 1) = v * n + v
      BY <3>2, SMTT(30)
    <3>4. QED
      BY <3>2, <3>3
  <2>3. IsFiniteSet(Latencies)
    BY SketchIs
  <2>4. RaisedAt(Weighed(c), Weighed(d), Latencies, v, v)
    BY <2>1, <2>2 DEF RaisedAt
  <2>5. Sum0(Weighed(d), Latencies) = Sum0(Weighed(c), Latencies) + (IF v \in Latencies THEN v ELSE 0)
    BY <2>2, <2>3, <2>4, SumRises
  <2>6. QED
    BY <2>5
<1>6. SomeOf(d) = SomeOf(c) \cup {v}
  <2>1. c[v] \in Nat
    BY WeighedIs
  <2>2. QED
    BY <1>1, <2>1 DEF SomeOf
<1>7. Extremes(h.extremes \cup {v}) = Extremes(SomeOf(d))
  <2>1. SomeOf(c) \in SUBSET Latencies
    BY DEF SomeOf
  <2>2. Extremes(Extremes(SomeOf(c)) \cup {v}) = Extremes(SomeOf(c) \cup {v})
    BY <2>1, ExtremesWithOne
  <2>3. h.extremes = Extremes(SomeOf(c))
    BY DEF Sketches
  <2>4. QED
    BY <1>6, <2>2, <2>3
<1>8. [h.buckets EXCEPT ![BucketIndex(v)] = @ + 1] = [i \in Indexes |-> Sum0(d, InBucket(i))]
  <2>1. PICK b : b = BucketIndex(v)
    OBVIOUS
  <2>2. h.buckets = [i \in Indexes |-> Sum0(c, InBucket(i))]
    BY DEF Sketches
  <2>3. ASSUME NEW i \in Indexes
        PROVE  Sum0(d, InBucket(i)) = IF i = b THEN h.buckets[b] + 1 ELSE h.buckets[i]
    <3>1. v \in InBucket(i) <=> i = b
      BY <2>1 DEF InBucket
    <3>2. Sum0(d, InBucket(i)) = Sum0(c, InBucket(i)) + (IF v \in InBucket(i) THEN 1 ELSE 0)
      BY <1>3, InBucketIs
    <3>3. Sum0(c, InBucket(i)) \in Int
      BY <1>2, SketchIs, InBucketIs, SumIsInt
    <3>4. h.buckets[i] = Sum0(c, InBucket(i))
      BY <2>2
    <3>5. QED
      BY <3>1, <3>2, <3>3, <3>4
  <2>4. [h.buckets EXCEPT ![b] = @ + 1] = [i \in Indexes |-> IF i = b THEN h.buckets[b] + 1 ELSE h.buckets[i]]
    BY <2>2
  <2>5. QED
    BY <2>1, <2>3, <2>4
<1>9. /\ With(h, v).buckets = [h.buckets EXCEPT ![BucketIndex(v)] = @ + 1]
      /\ With(h, v).count = h.count + 1 /\ With(h, v).sum = h.sum + v
      /\ With(h, v).extremes = Extremes(h.extremes \cup {v})
  BY DEF With
<1>10. /\ With(h, v).buckets = [i \in Indexes |-> Sum0(d, InBucket(i))]
       /\ With(h, v).extremes = Extremes(SomeOf(d))
  BY <1>7, <1>8, <1>9
<1>11. With(h, v).count = Sum0(d, Latencies) /\ With(h, v).sum = Sum0(Weighed(d), Latencies)
  BY <1>4, <1>5, <1>9 DEF Sketches
<1>12. QED
  BY <1>1, <1>10, <1>11 DEF Sketches

-----------------------------------------------------------------------------
(* Sketches that are merged, and the workers that record and ship. *)

\* What two sketches hold together.
Together(c, d) == [v \in Latencies |-> c[v] + d[v]]

\* It is counted.
LEMMA TogetherIs ==
    ASSUME NEW c \in Counts, NEW d \in Counts
    PROVE  /\ Together(c, d) \in Counts
           /\ \A v \in Latencies : Together(c, d)[v] = c[v] + d[v]
<1>1. \A v \in Latencies : c[v] \in Nat /\ d[v] \in Nat
  BY WeighedIs
<1>2. QED
  BY <1>1 DEF Together, Counts

\* A merged sketch is that of what both recorded.
LEMMA MergeIs ==
    ASSUME NEW h, NEW g, NEW c \in Counts, NEW d \in Counts, Sketches(h, c), Sketches(g, d)
    PROVE  Sketches(Merge(h, g), Together(c, d))
<1>1. PICK e \in Counts : e = Together(c, d)
  BY TogetherIs
<1>2. \A v \in Latencies : c[v] \in Nat /\ d[v] \in Nat /\ e[v] = c[v] + d[v]
  BY <1>1, TogetherIs, WeighedIs
<1>3. ASSUME NEW S \in SUBSET Latencies PROVE Sum0(e, S) = Sum0(c, S) + Sum0(d, S)
  <2>1. IsFiniteSet(S)
    BY SketchIs, FS_Subset
  <2>2. \A x \in S : c[x] \in Int /\ d[x] \in Int /\ e[x] = c[x] + d[x]
    BY <1>2
  <2>3. QED
    BY <2>1, <2>2, SumAdds
<1>4. Sum0(Weighed(e), Latencies) = Sum0(Weighed(c), Latencies) + Sum0(Weighed(d), Latencies)
  <2>1. ASSUME NEW v \in Latencies
        PROVE  /\ Weighed(c)[v] \in Int /\ Weighed(d)[v] \in Int
               /\ Weighed(e)[v] = Weighed(c)[v] + Weighed(d)[v]
    <3>1. PICK a, b \in Nat : a = c[v] /\ b = d[v]
      BY <1>2
    <3>2. v \in Nat /\ e[v] = a + b
      BY <1>2, <3>1, SketchIs
    <3>3. Weighed(c)[v] = v * a /\ Weighed(d)[v] = v * b /\ Weighed(e)[v] = v * (a + b)
      BY <3>1, <3>2, WeighedIs
    <3>4. v * (a + b) = v * a + v * b /\ v * a \in Int /\ v * b \in Int
      BY <3>2, Times
    <3>5. QED
      BY <3>3, <3>4
  <2>2. IsFiniteSet(Latencies)
    BY SketchIs
  <2>3. QED
    BY <2>1, <2>2, SumAdds
<1>5. SomeOf(e) = SomeOf(c) \cup SomeOf(d)
  BY <1>2 DEF SomeOf
<1>6. Extremes(h.extremes \cup g.extremes) = Extremes(SomeOf(e))
  <2>1. SomeOf(c) \in SUBSET Latencies /\ SomeOf(d) \in SUBSET Latencies
    BY DEF SomeOf
  <2>2. Extremes(Extremes(SomeOf(c)) \cup Extremes(SomeOf(d))) = Extremes(SomeOf(c) \cup SomeOf(d))
    BY <2>1, ExtremesOfBoth
  <2>3. h.extremes = Extremes(SomeOf(c)) /\ g.extremes = Extremes(SomeOf(d))
    BY DEF Sketches
  <2>4. QED
    BY <1>5, <2>2, <2>3
<1>7. [i \in Indexes |-> h.buckets[i] + g.buckets[i]] = [i \in Indexes |-> Sum0(e, InBucket(i))]
  <2>1. ASSUME NEW i \in Indexes PROVE h.buckets[i] + g.buckets[i] = Sum0(e, InBucket(i))
    <3>1. Sum0(e, InBucket(i)) = Sum0(c, InBucket(i)) + Sum0(d, InBucket(i))
      BY <1>3, InBucketIs
    <3>2. h.buckets[i] = Sum0(c, InBucket(i)) /\ g.buckets[i] = Sum0(d, InBucket(i))
      BY DEF Sketches
    <3>3. QED
      BY <3>1, <3>2
  <2>2. QED
    BY <2>1
<1>8. /\ Merge(h, g).buckets = [i \in Indexes |-> h.buckets[i] + g.buckets[i]]
      /\ Merge(h, g).count = h.count + g.count /\ Merge(h, g).sum = h.sum + g.sum
      /\ Merge(h, g).extremes = Extremes(h.extremes \cup g.extremes)
  BY DEF Merge, CountsOf
<1>9. Merge(h, g).count = Sum0(e, Latencies) /\ Merge(h, g).sum = Sum0(Weighed(e), Latencies)
  <2>1. Sum0(e, Latencies) = Sum0(c, Latencies) + Sum0(d, Latencies)
    BY <1>3
  <2>2. QED
    BY <1>4, <1>8, <2>1 DEF Sketches
<1>10. Sketches(Merge(h, g), e)
  BY <1>6, <1>7, <1>8, <1>9 DEF Sketches
<1>11. QED
  BY <1>1, <1>10

\* How often each worker has recorded v and not shipped it.
HeldOf(own, v) == [w \in Recorders |-> own[w][v]]
Owns == [Recorders -> Counts]

\* They are so many in all.
LEMMA HeldIs ==
    ASSUME NEW own \in Owns, NEW v \in Latencies
    PROVE  /\ \A w \in Recorders : HeldOf(own, v)[w] = own[w][v] /\ own[w][v] \in Nat
           /\ Sum0(HeldOf(own, v), Recorders) \in Nat
<1>1. \A w \in Recorders : HeldOf(own, v)[w] = own[w][v] /\ own[w][v] \in Nat
  BY WeighedIs DEF HeldOf, Owns
<1>2. QED
  BY <1>1, SketchIs, SumOfNats

\* One worker, w, now holds d, and the sums of what is held follow.
Shifted(own, now, w, d) ==
    /\ now \in Owns /\ now[w] = d /\ \A x \in Recorders \ {w} : now[x] = own[x]
    /\ \A v \in Latencies : Sum0(HeldOf(now, v), Recorders) =
           Sum0(HeldOf(own, v), Recorders) + (d[v] - own[w][v])

\* When one worker holds something else, that many more or fewer are held.
LEMMA HeldChanges ==
    ASSUME NEW own \in Owns, NEW w \in Recorders, NEW d \in Counts, NEW now, now = [own EXCEPT ![w] = d]
    PROVE  Shifted(own, now, w, d)
<1>1. now \in Owns /\ now[w] = d /\ \A x \in Recorders \ {w} : now[x] = own[x]
  BY DEF Owns
<1>2. ASSUME NEW v \in Latencies
      PROVE  Sum0(HeldOf(now, v), Recorders) = Sum0(HeldOf(own, v), Recorders) + (d[v] - own[w][v])
  <2>1. \A x \in Recorders : /\ HeldOf(own, v)[x] = own[x][v] /\ own[x][v] \in Nat
                             /\ HeldOf(now, v)[x] = now[x][v] /\ now[x][v] \in Nat
    BY <1>1, HeldIs
  <2>2. PICK n \in Int : n = d[v] - own[w][v] /\ d[v] = own[w][v] + n
    BY <1>1, <2>1
  <2>3. RaisedAt(HeldOf(own, v), HeldOf(now, v), Recorders, w, n)
    <3>1. \A x \in Recorders : HeldOf(own, v)[x] \in Int
      BY <2>1
    <3>2. ASSUME NEW x \in Recorders \ {w} PROVE HeldOf(now, v)[x] = HeldOf(own, v)[x]
      <4>1. now[x] = own[x]
        BY <1>1
      <4>2. HeldOf(own, v)[x] = own[x][v] /\ HeldOf(now, v)[x] = now[x][v]
        BY <2>1
      <4>3. QED
        BY <4>1, <4>2
    <3>3. HeldOf(now, v)[w] = HeldOf(own, v)[w] + n
      BY <1>1, <2>1, <2>2
    <3>4. QED
      BY <3>1, <3>2, <3>3 DEF RaisedAt
  <2>4. Sum0(HeldOf(now, v), Recorders) =
            Sum0(HeldOf(own, v), Recorders) + (IF w \in Recorders THEN n ELSE 0)
    BY <2>2, <2>3, SketchIs, SumRises
  <2>5. QED
    BY <2>2, <2>4
<1>3. QED
  BY <1>1, <1>2 DEF Shifted

\* Each worker's sketch is that of what it holds, the merged one that of the rest of what
\* was recorded.
Recorded(own, main) ==
    /\ sketch = [w \in Recorders |-> sketch[w]]
    /\ \A w \in Recorders : Sketches(sketch[w], own[w])
    /\ Sketches(merged, main)
    /\ values \in Counts
    /\ \A v \in Latencies : values[v] = main[v] + Sum0(HeldOf(own, v), Recorders)
SketchInv == \E own \in Owns, main \in Counts : Recorded(own, main)

\* Nothing is recorded at first.
LEMMA SketchInit == HistogramInit => SketchInv
<1> SUFFICES ASSUME HistogramInit PROVE SketchInv
  OBVIOUS
<1>1. PICK own \in Owns : own = [w \in Recorders |-> NoCounts]
  BY EmptyIs DEF Owns
<1>2. sketch = [w \in Recorders |-> Empty] /\ merged = Empty /\ values = NoCounts
  BY DEF HistogramInit, NoCounts
<1>3. \A w \in Recorders : Sketches(sketch[w], own[w])
  BY <1>1, <1>2, EmptyIs
<1>4. ASSUME NEW v \in Latencies PROVE values[v] = NoCounts[v] + Sum0(HeldOf(own, v), Recorders)
  <2>1. \A w \in Recorders : HeldOf(own, v)[w] = 0
    BY <1>1 DEF HeldOf, NoCounts
  <2>2. Sum0(HeldOf(own, v), Recorders) = 0 /\ NoCounts[v] = 0
    BY <2>1, SketchIs, SumOfNothing DEF NoCounts
  <2>3. QED
    BY <1>2, <2>2
<1>5. Recorded(own, NoCounts)
  BY <1>2, <1>3, <1>4, EmptyIs DEF Recorded
<1>6. QED
  BY <1>1, <1>5, EmptyIs DEF SketchInv

\* A worker records one value more.
LEMMA RecordValueKeeps ==
    ASSUME SketchInv, NEW w \in Recorders, NEW v \in Latencies, RecordValue(w, v) PROVE SketchInv'
<1>1. PICK own \in Owns, main \in Counts : Recorded(own, main)
  BY DEF SketchInv
<1>2. PICK c \in Counts : c = own[w]
  BY DEF Owns
<1>3. PICK d : d = [c EXCEPT ![v] = @ + 1]
  OBVIOUS
<1>4. PICK now : now = [own EXCEPT ![w] = d]
  OBVIOUS
<1>5. Sketches(With(sketch[w], v), d) /\ d \in Counts
  BY <1>1, <1>2, <1>3, RecordedIs DEF Recorded
<1>6. /\ now \in Owns /\ now[w] = d /\ \A x \in Recorders \ {w} : now[x] = own[x]
      /\ \A u \in Latencies : Sum0(HeldOf(now, u), Recorders) =
             Sum0(HeldOf(own, u), Recorders) + (d[u] - own[w][u])
  <2>1. Shifted(own, now, w, d)
    BY <1>4, <1>5, HeldChanges
  <2>2. QED
    BY <2>1 DEF Shifted
<1>7. /\ sketch' = [sketch EXCEPT ![w] = With(sketch[w], v)]
      /\ values' = [values EXCEPT ![v] = values[v] + 1] /\ merged' = merged
  BY DEF RecordValue
<1>8. /\ sketch' = [x \in Recorders |-> sketch'[x]] /\ sketch'[w] = With(sketch[w], v)
      /\ \A x \in Recorders \ {w} : sketch'[x] = sketch[x]
  BY <1>1, <1>7 DEF Recorded
<1>9. \A x \in Recorders : Sketches(sketch'[x], now[x])
  BY <1>1, <1>5, <1>6, <1>8 DEF Recorded
<1>10. ASSUME NEW u \in Latencies PROVE values'[u] = main[u] + Sum0(HeldOf(now, u), Recorders)
  <2>1. PICK a, b, s \in Nat : a = c[u] /\ b = main[u] /\ s = Sum0(HeldOf(own, u), Recorders)
    BY HeldIs, WeighedIs
  <2>2. values[u] = b + s /\ values \in Counts
    BY <1>1, <2>1 DEF Recorded
  <2>3. Sum0(HeldOf(now, u), Recorders) = s + (d[u] - a)
    BY <1>2, <1>6, <2>1
  <2>4. CASE u = v
    <3>1. values'[u] = values[u] + 1 /\ d[u] = a + 1
      BY <1>3, <1>7, <2>1, <2>2, <2>4 DEF Counts
    <3>2. QED
      BY <2>1, <2>2, <2>3, <3>1
  <2>5. CASE u # v
    <3>1. values'[u] = values[u] /\ d[u] = a
      BY <1>3, <1>7, <2>1, <2>2, <2>5 DEF Counts
    <3>2. QED
      BY <2>1, <2>2, <2>3, <3>1
  <2>6. QED
    BY <2>4, <2>5
<1>11. values' \in Counts
  <2>1. values \in Counts
    BY <1>1 DEF Recorded
  <2>2. QED
    BY <1>7, <2>1 DEF Counts
<1>12. Sketches(merged', main)
  BY <1>1, <1>7 DEF Recorded
<1>13. \E o \in Owns, m \in Counts : Recorded(o, m)'
  BY <1>6, <1>8, <1>9, <1>10, <1>11, <1>12 DEF Recorded
<1>14. QED
  BY <1>13 DEF SketchInv

\* A worker ships what it holds.
LEMMA ShipKeeps == ASSUME SketchInv, NEW w \in Recorders, Ship(w) PROVE SketchInv'
<1>1. PICK own \in Owns, main \in Counts : Recorded(own, main)
  BY DEF SketchInv
<1>2. PICK c \in Counts : c = own[w]
  BY DEF Owns
<1>3. PICK now : now = [own EXCEPT ![w] = NoCounts]
  OBVIOUS
<1>4. PICK all \in Counts : all = Together(main, c) /\ Sketches(Merge(merged, sketch[w]), all)
  BY <1>1, <1>2, TogetherIs, MergeIs DEF Recorded
<1>5. /\ now \in Owns /\ now[w] = NoCounts /\ \A x \in Recorders \ {w} : now[x] = own[x]
      /\ \A u \in Latencies : Sum0(HeldOf(now, u), Recorders) =
             Sum0(HeldOf(own, u), Recorders) + (NoCounts[u] - own[w][u])
  <2>1. Shifted(own, now, w, NoCounts)
    BY <1>3, EmptyIs, HeldChanges
  <2>2. QED
    BY <2>1 DEF Shifted
<1>6. /\ sketch' = [sketch EXCEPT ![w] = Empty]
      /\ merged' = Merge(merged, sketch[w]) /\ values' = values
  BY DEF Ship
<1>7. /\ sketch' = [x \in Recorders |-> sketch'[x]] /\ sketch'[w] = Empty
      /\ \A x \in Recorders \ {w} : sketch'[x] = sketch[x]
  BY <1>1, <1>6 DEF Recorded
<1>8. \A x \in Recorders : Sketches(sketch'[x], now[x])
  BY <1>1, <1>5, <1>7, EmptyIs DEF Recorded
<1>9. ASSUME NEW u \in Latencies PROVE values'[u] = all[u] + Sum0(HeldOf(now, u), Recorders)
  <2>1. PICK a, b, s \in Nat : a = c[u] /\ b = main[u] /\ s = Sum0(HeldOf(own, u), Recorders)
    BY HeldIs, WeighedIs
  <2>2. values'[u] = b + s
    BY <1>1, <1>6, <2>1 DEF Recorded
  <2>3. Sum0(HeldOf(now, u), Recorders) = s + (0 - a)
    BY <1>2, <1>5, <2>1 DEF NoCounts
  <2>4. all[u] = b + a
    BY <1>4, <2>1, TogetherIs
  <2>5. QED
    BY <2>1, <2>2, <2>3, <2>4
<1>10. values' \in Counts /\ Sketches(merged', all)
  BY <1>1, <1>4, <1>6 DEF Recorded
<1>11. \E o \in Owns, m \in Counts : Recorded(o, m)'
  BY <1>5, <1>7, <1>8, <1>9, <1>10 DEF Recorded
<1>12. QED
  BY <1>11 DEF SketchInv

\* Whatever the workers do, nothing recorded is lost or counted twice.
LEMMA SketchKept == HistogramSpec => []SketchInv
<1>1. ASSUME SketchInv, [HistogramNext]_histogramVars PROVE SketchInv'
  <2>1. CASE \E w \in Recorders : Ship(w)
    BY <1>1, <2>1, ShipKeeps
  <2>2. CASE \E w \in Recorders : \E v \in Latencies : RecordValue(w, v)
    BY <1>1, <2>2, RecordValueKeeps
  <2>3. CASE UNCHANGED histogramVars
    BY <1>1, <2>3 DEF histogramVars, SketchInv, Recorded
  <2>4. QED
    BY <1>1, <2>1, <2>2, <2>3 DEF HistogramNext
<1>2. QED
  BY SketchInit, <1>1, PTL DEF HistogramSpec

-----------------------------------------------------------------------------
(* The percentiles. *)

\* Where all of what was recorded in S is in T, T has no less of it.
LEMMA SumWithin ==
    ASSUME NEW c \in Counts, NEW S \in SUBSET Latencies, NEW T \in SUBSET Latencies,
           \A v \in S : c[v] > 0 => v \in T
    PROVE  Sum0(c, S) \in Nat /\ Sum0(c, T) \in Nat /\ Sum0(c, S) <= Sum0(c, T)
<1>1. \A v \in Latencies : c[v] \in Nat /\ c[v] \in Int
  BY WeighedIs
<1>2. PICK A, B \in SUBSET Latencies : A = S \cap T /\ B = S \ T
  OBVIOUS
<1>3. IsFiniteSet(S) /\ IsFiniteSet(T) /\ IsFiniteSet(A) /\ IsFiniteSet(B)
  BY SketchIs, FS_Subset
<1>4. A \cup B = S /\ A \cap B = {} /\ A \in SUBSET T
  BY <1>2
<1>5. Sum0(c, A \cup B) = Sum0(c, A) + Sum0(c, B)
  BY <1>1, <1>3, <1>4, SumJoins
<1>6. Sum0(c, B) = 0
  <2>1. \A v \in B : c[v] = 0
    BY <1>1, <1>2
  <2>2. QED
    BY <1>3, <2>1, SumOfNothing
<1>7. Sum0(c, A) \in Nat /\ Sum0(c, T) \in Nat /\ Sum0(c, A) <= Sum0(c, T)
  BY <1>1, <1>3, <1>4, SumGrows
<1>8. Sum0(c, S) = Sum0(c, A) + 0
  BY <1>4, <1>5, <1>6
<1>9. QED
  BY <1>7, <1>8

\* Sums of the model's two modules are the same.
LEMMA SumsAre == \A f, S : SumOn(f, S) = Sum0(f, S)
  BY DEF SumOn, Sum0

\* The values that p percent do not exceed.
Candidates(p) == {v \in Latencies : values[v] > 0 /\ 100 * Below(v) >= p * NumberOf}

\* Below the greatest value is all that was recorded, and below a lesser one less.
LEMMA BelowIs ==
    ASSUME values \in Counts
    PROVE  /\ NumberOf \in Nat
           /\ \A v \in Latencies : Below(v) \in Nat /\ Below(v) <= NumberOf
           /\ NumberOf > 0 => SomeOf(values) # {}
           /\ \A v \in Latencies : v = Max(SomeOf(values)) /\ NumberOf > 0 => Below(v) = NumberOf
<1>1. NumberOf = Sum0(values, Latencies)
  BY SumsAre DEF NumberOf
<1>2. ASSUME NEW v \in Latencies
      PROVE  /\ Below(v) = Sum0(values, {u \in Latencies : u <= v})
             /\ {u \in Latencies : u <= v} \in SUBSET Latencies
  BY SumsAre DEF Below
<1>3. NumberOf \in Nat
  BY <1>1, SumWithin
<1>4. ASSUME NEW v \in Latencies PROVE Below(v) \in Nat /\ Below(v) <= NumberOf
  <2>1. PICK T \in SUBSET Latencies : T = {u \in Latencies : u <= v}
    OBVIOUS
  <2>2. Sum0(values, T) \in Nat /\ Sum0(values, T) <= Sum0(values, Latencies)
    BY SumWithin
  <2>3. QED
    BY <1>1, <1>2, <2>1, <2>2
<1>5. ASSUME NumberOf > 0 PROVE SomeOf(values) # {}
  <2>1. SUFFICES ASSUME SomeOf(values) = {} PROVE FALSE
    OBVIOUS
  <2>2. \A v \in Latencies : values[v] = 0
    <3>1. \A v \in Latencies : values[v] \in Nat
      BY WeighedIs
    <3>2. QED
      BY <2>1, <3>1 DEF SomeOf
  <2>3. Sum0(values, Latencies) = 0
    BY <2>2, SketchIs, SumOfNothing
  <2>4. QED
    BY <1>1, <1>5, <2>3
<1>6. ASSUME NEW v \in Latencies, v = Max(SomeOf(values)), NumberOf > 0 PROVE Below(v) = NumberOf
  <2>1. SomeOf(values) \in SUBSET Latencies /\ SomeOf(values) # {}
    BY <1>5, <1>6 DEF SomeOf
  <2>2. \A u \in SomeOf(values) : u <= v
    BY <1>6, <2>1, EndsAre
  <2>3. PICK T \in SUBSET Latencies : T = {u \in Latencies : u <= v}
    OBVIOUS
  <2>4. \A u \in Latencies : values[u] > 0 => u \in T
    BY <2>2, <2>3 DEF SomeOf
  <2>5. Sum0(values, Latencies) <= Sum0(values, T)
    BY <2>4, SumWithin
  <2>6. NumberOf <= Below(v)
    BY <1>1, <1>2, <2>3, <2>5
  <2>7. QED
    BY <1>3, <1>4, <2>6
<1>7. QED
  BY <1>3, <1>4, <1>5, <1>6

\* The exact percentile is one of the values, and the least that p percent do not exceed.
LEMMA ExactIs ==
    ASSUME values \in Counts, NumberOf > 0, NEW p \in 0..100
    PROVE  /\ Exact(p) \in Candidates(p) /\ Exact(p) \in SomeOf(values)
           /\ \A v \in Candidates(p) : Exact(p) <= v
           /\ Candidates(p) \in SUBSET SomeOf(values) /\ SomeOf(values) \in SUBSET Latencies
           /\ Max(SomeOf(values)) \in Candidates(p)
<1>1. Candidates(p) \in SUBSET SomeOf(values) /\ SomeOf(values) \in SUBSET Latencies
  BY DEF Candidates, SomeOf
<1>2. PICK hi \in SomeOf(values) : hi = Max(SomeOf(values)) /\ hi \in Latencies
  BY <1>1, BelowIs, EndsAre
<1>3. PICK n \in Nat : n = NumberOf /\ Below(hi) = n
  BY <1>2, BelowIs
<1>4. p * n <= 100 * n
  <2>1. n * p <= n * 100 /\ n * p = p * n /\ n * 100 = 100 * n
    BY <1>3, Times
  <2>2. PICK a, b \in Int : a = n * p /\ b = n * 100
    BY Times
  <2>3. QED
    BY <2>1, <2>2
<1>5. hi \in Candidates(p)
  <2>1. values[hi] > 0
    BY DEF SomeOf
  <2>2. p * n \in Int /\ 100 * n \in Int
    BY Times
  <2>3. 100 * Below(hi) >= p * NumberOf
    BY <1>3, <1>4, <2>2
  <2>4. QED
    BY <1>2, <2>1, <2>3 DEF Candidates
<1>6. Exact(p) = Min(Candidates(p))
  BY DEF Exact, Candidates
<1>7. Candidates(p) \in SUBSET Latencies /\ Candidates(p) # {}
  BY <1>1, <1>5
<1>8. Exact(p) \in Candidates(p) /\ \A v \in Candidates(p) : Exact(p) <= v
  BY <1>6, <1>7, EndsAre
<1>9. QED
  BY <1>1, <1>2, <1>5, <1>8

\* The exact ends: all values exceed none of them, and none exceeds the greatest.
LEMMA ExactEnds ==
    ASSUME values \in Counts, NumberOf > 0
    PROVE  Exact(0) = Min(SomeOf(values)) /\ Exact(100) = Max(SomeOf(values))
<1>1. SomeOf(values) \in SUBSET Latencies /\ SomeOf(values) # {}
  BY BelowIs DEF SomeOf
<1>2. Exact(0) = Min(SomeOf(values))
  <2>1. PICK lo \in SomeOf(values) : lo = Min(SomeOf(values)) /\ lo \in Latencies
    BY <1>1, EndsAre
  <2>2. lo \in Candidates(0)
    <3>1. PICK n \in Nat : n = NumberOf
      BY BelowIs
    <3>2. PICK b \in Nat : b = Below(lo)
      BY <2>1, BelowIs
    <3>3. 100 * b >= 0 * n
      OBVIOUS
    <3>4. QED
      BY <2>1, <3>1, <3>2, <3>3 DEF Candidates, SomeOf
  <2>3. Exact(0) \in SomeOf(values) /\ Exact(0) <= lo
    BY <2>2, ExactIs
  <2>4. lo <= Exact(0) /\ lo \in Nat /\ Exact(0) \in Nat
    BY <1>1, <2>1, <2>3, EndsAre
  <2>5. QED
    BY <2>1, <2>3, <2>4
<1>3. Exact(100) = Max(SomeOf(values))
  <2>1. PICK hi \in SomeOf(values) : hi = Max(SomeOf(values)) /\ hi \in Latencies
    BY <1>1, EndsAre
  <2>2. PICK x \in SomeOf(values) : x = Exact(100) /\ x \in Candidates(100) /\ x \in Latencies
    BY <1>1, ExactIs
  <2>3. x <= hi /\ x \in Nat /\ hi \in Nat
    BY <1>1, <2>1, EndsAre
  <2>4. ASSUME x < hi PROVE FALSE
    <3>1. PICK T \in SUBSET Latencies : T = {u \in Latencies : u <= x}
      OBVIOUS
    <3>2. hi \notin T /\ T \cup {hi} \in SUBSET Latencies /\ (T \cup {hi}) \ {hi} = T
      BY <2>1, <2>3, <2>4, <3>1
    <3>3. \A v \in Latencies : values[v] \in Int
      BY WeighedIs
    <3>4. IsFiniteSet(T \cup {hi}) /\ \A v \in T \cup {hi} : values[v] \in Int
      BY <3>2, <3>3, SketchIs, FS_Subset
    <3>5. Sum0(values, T \cup {hi}) = values[hi] + Sum0(values, T)
      BY <3>2, <3>4, SumTakes
    <3>6. Sum0(values, T \cup {hi}) <= Sum0(values, Latencies)
      BY <3>2, SumWithin
    <3>7. Sum0(values, T) = Below(x) /\ Sum0(values, Latencies) = NumberOf
      BY <3>1, SumsAre DEF Below, NumberOf
    <3>8. 100 * Below(x) >= 100 * NumberOf
      BY <2>2 DEF Candidates
    <3>9. values[hi] > 0 /\ values[hi] \in Int /\ Below(x) \in Nat /\ NumberOf \in Nat
      BY <2>1, <2>2, <3>3, BelowIs DEF SomeOf
    <3>10. QED
      BY <3>5, <3>6, <3>7, <3>8, <3>9
  <2>5. QED
    BY <2>1, <2>2, <2>3, <2>4
<1>4. QED
  BY <1>2, <1>3

\* The values in buckets up to the i-th.
UpTo(i) == {v \in Latencies : BucketIndex(v) <= i}

\* What is in those buckets is what was recorded of those values.
LEMMA BucketsUpTo ==
    ASSUME NEW h, NEW c \in Counts, Sketches(h, c), NEW i
    PROVE  SumOn(h.buckets, {j \in Indexes : j <= i}) = Sum0(c, UpTo(i))
<1>1. PICK B : B = [v \in Latencies |-> BucketIndex(v)]
  OBVIOUS
<1>2. PICK I \in SUBSET Indexes : I = {j \in Indexes : j <= i}
  OBVIOUS
<1>3. IsFiniteSet(I)
  <2>1. B \in Surjection(Latencies, Indexes)
    BY <1>1 DEF Indexes, Surjection
  <2>2. IsFiniteSet(Indexes)
    BY <2>1, SketchIs, FS_Surjection
  <2>3. QED
    BY <2>2, FS_Subset
<1>4. \A v \in Latencies : c[v] \in Int
  BY WeighedIs
<1>5. ASSUME NEW j \in I PROVE h.buckets[j] = Sum0(c, {v \in Latencies : B[v] = j})
  <2>1. {v \in Latencies : B[v] = j} = InBucket(j)
    BY <1>1 DEF InBucket
  <2>2. h.buckets[j] = Sum0(c, InBucket(j))
    BY DEF Sketches
  <2>3. QED
    BY <2>1, <2>2
<1>6. SumsOfKinds(h.buckets, c, Latencies, B, I)
  BY <1>5 DEF SumsOfKinds
<1>7. Sum0(h.buckets, I) = SumOfKinds(c, Latencies, B, I)
  BY <1>3, <1>4, <1>6, SketchIs, SumByKind
<1>8. {v \in Latencies : B[v] \in I} = UpTo(i)
  BY <1>1, <1>2 DEF UpTo, Indexes
<1>9. QED
  BY <1>2, <1>7, <1>8, SumsAre DEF SumOfKinds

\* The buckets that hold something and by which p percent were seen.
Chosen(h, p) == {i \in Indexes : h.buckets[i] > 0 /\ Reaches(h, p, i)}

\* The first of them is the exact percentile's.
LEMMA BucketOfExact ==
    ASSUME NEW h, values \in Counts, Sketches(h, values), NumberOf > 0, NEW p \in 0..100
    PROVE  Min(Chosen(h, p)) = BucketIndex(Exact(p))
<1>1. PICK x \in Latencies : x = Exact(p) /\ x \in Candidates(p) /\ values[x] > 0
  BY ExactIs DEF Candidates
<1>2. PICK b : b = BucketIndex(x)
  OBVIOUS
<1>3. b \in Indexes /\ Indexes \in SUBSET Nat
  BY <1>2, BucketHolds DEF Indexes
<1>4. h.count = NumberOf
  BY SumsAre DEF Sketches, NumberOf
<1>5. PICK n \in Nat : n = NumberOf
  BY BelowIs
<1>6. PICK t \in Int : t = p * n
  BY <1>5, Times
<1>7. ASSUME NEW i \in Indexes
      PROVE  /\ Sum0(values, UpTo(i)) \in Nat
             /\ Reaches(h, p, i) <=> 100 * Sum0(values, UpTo(i)) >= t
  <2>1. UpTo(i) \in SUBSET Latencies
    BY DEF UpTo
  <2>2. Sum0(values, UpTo(i)) \in Nat
    BY <2>1, SumWithin
  <2>3. SumOn(h.buckets, {j \in Indexes : j <= i}) = Sum0(values, UpTo(i))
    BY BucketsUpTo
  <2>4. QED
    BY <1>4, <1>5, <1>6, <2>2, <2>3 DEF Reaches
<1>8. ASSUME NEW v \in Latencies
      PROVE  /\ Below(v) = Sum0(values, {u \in Latencies : u <= v})
             /\ {u \in Latencies : u <= v} \in SUBSET Latencies
  BY SumsAre DEF Below
<1>9. b \in Chosen(h, p)
  <2>1. h.buckets[b] > 0
    <3>1. h.buckets[b] = Sum0(values, InBucket(b)) /\ x \in InBucket(b)
      BY <1>2, <1>3 DEF Sketches, InBucket
    <3>2. IsFiniteSet(InBucket(b)) /\ \A v \in InBucket(b) : values[v] \in Nat
      BY InBucketIs, WeighedIs
    <3>3. Sum0(values, InBucket(b)) \in Nat /\ values[x] <= Sum0(values, InBucket(b)) /\ values[x] \in Nat
      BY <3>1, <3>2, SumOfNats
    <3>4. QED
      BY <1>1, <3>1, <3>3
  <2>2. PICK T \in SUBSET Latencies : T = {u \in Latencies : u <= x}
    OBVIOUS
  <2>3. UpTo(b) \in SUBSET Latencies /\ \A u \in T : u \in UpTo(b)
    BY <1>2, <2>2, BucketsInOrder DEF UpTo
  <2>4. Sum0(values, T) <= Sum0(values, UpTo(b)) /\ Sum0(values, T) \in Nat
    BY <2>3, SumWithin
  <2>5. Below(x) = Sum0(values, T)
    BY <1>8, <2>2
  <2>6. 100 * Below(x) >= t
    BY <1>1, <1>5, <1>6 DEF Candidates
  <2>7. Reaches(h, p, b)
    BY <1>3, <1>6, <1>7, <2>4, <2>5, <2>6
  <2>8. QED
    BY <1>3, <2>1, <2>7 DEF Chosen
<1>10. ASSUME NEW i \in Chosen(h, p) PROVE b <= i
  <2>1. i \in Indexes /\ i \in Nat /\ h.buckets[i] > 0 /\ Reaches(h, p, i)
    BY <1>3 DEF Chosen
  <2>2. PICK v \in InBucket(i) : values[v] > 0
    <3>1. SUFFICES ASSUME \A v \in InBucket(i) : ~(values[v] > 0) PROVE FALSE
      OBVIOUS
    <3>2. \A v \in InBucket(i) : values[v] \in Nat
      BY InBucketIs, WeighedIs
    <3>3. \A v \in InBucket(i) : values[v] = 0
      BY <3>1, <3>2
    <3>4. Sum0(values, InBucket(i)) = 0
      BY <3>3, InBucketIs, SumOfNothing
    <3>5. h.buckets[i] = Sum0(values, InBucket(i))
      BY <2>1 DEF Sketches
    <3>6. QED
      BY <2>1, <3>4, <3>5
  <2>3. PICK U \in SUBSET Latencies : U = {u \in UpTo(i) : values[u] > 0}
    BY DEF UpTo
  <2>4. v \in U
    BY <2>1, <2>2, <2>3 DEF InBucket, UpTo
  <2>5. PICK y \in U : y = Max(U) /\ \A u \in U : u <= y
    BY <2>4, EndsAre
  <2>6. PICK T \in SUBSET Latencies : T = {u \in Latencies : u <= y}
    OBVIOUS
  <2>7. UpTo(i) \in SUBSET Latencies /\ \A u \in UpTo(i) : values[u] > 0 => u \in T
    BY <2>3, <2>5, <2>6 DEF UpTo
  <2>8. Sum0(values, UpTo(i)) <= Sum0(values, T) /\ Sum0(values, T) \in Nat
    BY <2>7, SumWithin
  <2>9. Below(y) = Sum0(values, T) /\ y \in Latencies
    BY <1>8, <2>6
  <2>10. 100 * Sum0(values, UpTo(i)) >= t /\ Sum0(values, UpTo(i)) \in Nat
    BY <1>7, <2>1
  <2>11. 100 * Below(y) >= t
    BY <1>6, <2>8, <2>9, <2>10
  <2>12. y \in Candidates(p)
    BY <1>5, <1>6, <2>3, <2>9, <2>11 DEF Candidates
  <2>13. x <= y
    BY <1>1, <2>12, ExactIs
  <2>14. b <= BucketIndex(y) /\ BucketIndex(y) <= i /\ BucketIndex(y) \in Nat
    BY <1>2, <2>3, <2>9, <2>13, BucketsInOrder, BucketHolds DEF UpTo
  <2>15. QED
    BY <1>3, <2>1, <2>14
<1>11. Chosen(h, p) \in SUBSET Nat
  BY <1>3 DEF Chosen
<1>12. Min(Chosen(h, p)) = b
  BY <1>9, <1>10, <1>11, LeastIs
<1>13. QED
  BY <1>1, <1>2, <1>12

\* The lesser and the greater of two numbers.
LEMMA OfTwo ==
    ASSUME NEW a \in Nat, NEW b \in Nat
    PROVE  Min({a, b}) = (IF a <= b THEN a ELSE b) /\ Max({a, b}) = (IF a <= b THEN b ELSE a)
<1>1. CASE a <= b
  <2>1. \A x \in {a, b} : a <= x /\ x <= b
    BY <1>1
  <2>2. {a, b} \in SUBSET Nat /\ a \in {a, b} /\ b \in {a, b}
    OBVIOUS
  <2>3. Min({a, b}) = a /\ Max({a, b}) = b
    BY <2>1, <2>2, LeastIs
  <2>4. QED
    BY <1>1, <2>3
<1>2. CASE ~(a <= b)
  <2>1. \A x \in {a, b} : b <= x /\ x <= a
    BY <1>2
  <2>2. {a, b} \in SUBSET Nat /\ a \in {a, b} /\ b \in {a, b}
    OBVIOUS
  <2>3. Min({a, b}) = b /\ Max({a, b}) = a
    BY <2>1, <2>2, LeastIs
  <2>4. QED
    BY <1>2, <2>3
<1>3. QED
  BY <1>1, <1>2

\* Kept between extremes on either side of x, a figure comes no further from it.
LEMMA BetweenIsNear ==
    ASSUME NEW S, NEW lo \in Nat, NEW hi \in Nat, lo = Min(S), hi = Max(S), NEW x \in lo..hi,
           NEW m \in Nat, NEW d \in Nat, m <= 2 * x + d, 2 * x <= m + d
    PROVE  Distance(Between(m, S), 2 * x) \in 0..d
<1>1. PICK q : q = Min({2 * hi, m})
  OBVIOUS
<1>2. q = IF 2 * hi <= m THEN 2 * hi ELSE m
  <2>1. 2 * hi \in Nat
    OBVIOUS
  <2>2. QED
    BY <1>1, <2>1, OfTwo
<1>3. q \in Nat
  BY <1>2
<1>4. Between(m, S) = Max({2 * lo, q})
  BY <1>1 DEF Between
<1>5. Between(m, S) = IF 2 * lo <= q THEN q ELSE 2 * lo
  <2>1. 2 * lo \in Nat
    OBVIOUS
  <2>2. QED
    BY <1>3, <1>4, <2>1, OfTwo
<1>6. QED
  BY <1>2, <1>5 DEF Distance

\* A percentile of a sketch is the values', to within half a bucket.
LEMMA PercentileIs ==
    ASSUME NEW h, values \in Counts, Sketches(h, values), NumberOf > 0, NEW p \in 0..100
    PROVE  Sub * Distance(TwicePercentile(h, p), 2 * Exact(p)) <= Exact(p)
<1>1. PICK n \in Nat \ {0} : n = Sub
  BY SketchIs
<1>2. SomeOf(values) \in SUBSET Latencies /\ SomeOf(values) # {} /\ SomeOf(values) \in SUBSET Nat
  BY BelowIs, SketchIs DEF SomeOf
<1>3. PICK lo, hi \in Nat : lo = Min(SomeOf(values)) /\ hi = Max(SomeOf(values))
  BY <1>2, EndsAre
<1>4. PICK x \in Nat : x = Exact(p) /\ x \in SomeOf(values) /\ x \in lo..hi
  <2>1. Exact(p) \in SomeOf(values)
    BY ExactIs
  <2>2. Exact(p) \in Nat /\ lo <= Exact(p) /\ Exact(p) <= hi
    BY <1>2, <1>3, <2>1, EndsAre
  <2>3. QED
    BY <1>3, <2>1, <2>2
<1>5. Min(h.extremes) = lo /\ Max(h.extremes) = hi
  <2>1. h.extremes = {lo, hi}
    BY <1>2, <1>3 DEF Sketches, Extremes
  <2>2. lo <= hi
    BY <1>3, <1>4
  <2>3. QED
    BY <1>3, <2>1, <2>2, OfTwo
<1>6. h.count = NumberOf /\ h.count # 0
  <2>1. h.count = NumberOf
    BY SumsAre DEF Sketches, NumberOf
  <2>2. QED
    BY <2>1
<1>7. ASSUME TwicePercentile(h, p) = 2 * x
      PROVE  Sub * Distance(TwicePercentile(h, p), 2 * x) <= x
  <2>1. Distance(2 * x, 2 * x) = 0
    BY DEF Distance
  <2>2. n * 0 <= x
    OBVIOUS
  <2>3. QED
    BY <1>1, <1>7, <2>1, <2>2
<1>8. CASE p = 0
  <2>1. TwicePercentile(h, p) = 2 * Min(h.extremes)
    BY <1>6, <1>8 DEF TwicePercentile
  <2>2. x = lo
    BY <1>3, <1>4, <1>8, ExactEnds
  <2>3. QED
    BY <1>4, <1>5, <1>7, <2>1, <2>2
<1>9. CASE p = 100
  <2>1. TwicePercentile(h, p) = 2 * Max(h.extremes)
    BY <1>6, <1>9 DEF TwicePercentile
  <2>2. x = hi
    BY <1>3, <1>4, <1>9, ExactEnds
  <2>3. QED
    BY <1>4, <1>5, <1>7, <2>1, <2>2
<1>10. CASE p # 0 /\ p # 100
  <2>1. ~(p <= 0) /\ ~(p >= 100)
    BY <1>10
  <2>2. TwicePercentile(h, p) = Between(TwiceMidpoint(Min(Chosen(h, p))), h.extremes)
    BY <1>6, <2>1 DEF TwicePercentile, Chosen
  <2>3. PICK b : b = BucketIndex(x) /\ Min(Chosen(h, p)) = b
    BY <1>4, BucketOfExact
  <2>4. x \in Latencies
    BY <1>2, <1>4
  <2>5. PICK low \in Nat, width \in Nat \ {0} :
          /\ low = LowerBound(b) /\ width = Width(b)
          /\ low <= x /\ x <= low + width - 1 /\ Sub * (width - 1) <= x
    BY <2>3, <2>4, BucketHolds
  <2>6. PICK d, m \in Nat : d = width - 1 /\ m = 2 * low + width - 1
    OBVIOUS
  <2>7. TwiceMidpoint(b) = m
    BY <2>5, <2>6 DEF TwiceMidpoint
  <2>8. m <= 2 * x + d /\ 2 * x <= m + d
    BY <2>5, <2>6
  <2>9. PICK dist \in 0..d : dist = Distance(Between(m, h.extremes), 2 * x)
    BY <1>3, <1>4, <1>5, <2>8, BetweenIsNear
  <2>10. n * dist <= n * d /\ n * d <= x /\ n * dist \in Int /\ n * d \in Int
    <3>1. dist \in Int /\ d \in Int /\ dist <= d
      OBVIOUS
    <3>2. n * dist <= n * d /\ n * dist \in Int /\ n * d \in Int
      BY <3>1, Times
    <3>3. n * d <= x
      BY <1>1, <2>5, <2>6
    <3>4. QED
      BY <3>2, <3>3
  <2>11. n * dist <= x
    BY <2>10
  <2>12. TwicePercentile(h, p) = Between(m, h.extremes)
    BY <2>2, <2>3, <2>7
  <2>13. QED
    BY <1>1, <1>4, <2>9, <2>11, <2>12
<1>11. QED
  BY <1>4, <1>7, <1>8, <1>9, <1>10

\* When the workers hold nothing, the merged sketch is that of all that was recorded.
LEMMA AllShipped ==
    ASSUME SketchInv, \A w \in Recorders : sketch[w].count = 0
    PROVE  values \in Counts /\ Sketches(merged, values)
<1>1. PICK own \in Owns, main \in Counts : Recorded(own, main)
  BY DEF SketchInv
<1>2. ASSUME NEW w \in Recorders, NEW v \in Latencies PROVE own[w][v] = 0
  <2>1. PICK c \in Counts : c = own[w]
    BY DEF Owns
  <2>2. Sum0(c, Latencies) = 0
    BY <1>1, <2>1 DEF Recorded, Sketches
  <2>3. \A u \in Latencies : c[u] \in Nat
    BY WeighedIs
  <2>4. c[v] <= Sum0(c, Latencies)
    BY <2>3, SketchIs, SumOfNats
  <2>5. QED
    BY <2>1, <2>2, <2>3, <2>4
<1>3. ASSUME NEW v \in Latencies PROVE values[v] = main[v]
  <2>1. \A w \in Recorders : HeldOf(own, v)[w] = 0
    BY <1>2 DEF HeldOf
  <2>2. Sum0(HeldOf(own, v), Recorders) = 0
    BY <2>1, SketchIs, SumOfNothing
  <2>3. main[v] \in Nat /\ values[v] = main[v] + Sum0(HeldOf(own, v), Recorders)
    BY <1>1, WeighedIs DEF Recorded
  <2>4. QED
    BY <2>2, <2>3
<1>4. values \in Counts /\ Sketches(merged, main)
  BY <1>1 DEF Recorded
<1>5. values = main
  BY <1>3, <1>4 DEF Counts
<1>6. QED
  BY <1>4, <1>5

\* What the invariant says of the fleet's percentiles.
LEMMA PercentilesFromInv == SketchInv => FleetPercentiles
<1> SUFFICES ASSUME SketchInv, \A w \in Recorders : sketch[w].count = 0, NumberOf > 0
             PROVE  /\ merged.count = NumberOf
                    /\ merged.sum = SumOn([v \in Latencies |-> v * values[v]], Latencies)
                    /\ \A p \in {0, 50, 90, 95, 99, 100} :
                          Sub * Distance(TwicePercentile(merged, p), 2 * Exact(p)) <= Exact(p)
  BY DEF FleetPercentiles
<1>1. values \in Counts /\ Sketches(merged, values)
  BY AllShipped
<1>2. merged.count = NumberOf
  BY <1>1, SumsAre DEF Sketches, NumberOf
<1>3. merged.sum = SumOn([v \in Latencies |-> v * values[v]], Latencies)
  BY <1>1, SumsAre DEF Sketches, Weighed
<1>4. ASSUME NEW p \in {0, 50, 90, 95, 99, 100}
      PROVE  Sub * Distance(TwicePercentile(merged, p), 2 * Exact(p)) <= Exact(p)
  <2>1. p \in 0..100
    BY <1>4
  <2>2. QED
    BY <1>1, <2>1, PercentileIs
<1>5. QED
  BY <1>2, <1>3, <1>4

\* However the workers record and ship, for any number of them and any latencies, the merged
\* sketch has the exact count and sum once all is shipped, and each percentile is within half
\* a bucket of the exact one.
THEOREM FleetPercentilesHolds == HistogramSpec => []FleetPercentiles
BY SketchKept, PercentilesFromInv, PTL
=============================================================================
