------------------------- MODULE SavedSearchesProofs -------------------------
(***************************************************************************)
(* What holds of the saved searches a run is given, for any file and any   *)
(* scenario: what takes leave, and what an export reads back as.           *)
(***************************************************************************)
EXTENDS SavedSearches, FunctionTheorems, FiniteSetTheorems, SequenceTheorems,
        WellFoundedInduction, TLAPS

-----------------------------------------------------------------------------
(* Natural numbers, sequences and folds. *)

\* A set of numbers that is not empty has a least one.
LEMMA LeastOfSome ==
    ASSUME NEW T \in SUBSET Nat, T # {} PROVE \E n \in T : \A m \in T : n <= m
<1> DEFINE less == {ss \in Nat \X Nat : ss[1] < ss[2]}
<1>1. less = OpToRel(<, Nat)
  BY DEF OpToRel
<1>2. IsWellFoundedOn(less, Nat)
  BY <1>1, NatLessThanWellFounded
<1> HIDE DEF less
<1>3. PICK n \in T : \A m \in T : ~(<<m, n>> \in less)
  BY <1>2, WFMin
<1>4. ASSUME NEW m \in T PROVE n <= m
  <2>1. m \in Nat /\ n \in Nat /\ ~(<<m, n>> \in less)
    BY <1>3
  <2>2. ~(m < n)
    BY <2>1 DEF less
  <2>3. QED
    BY <2>1, <2>2
<1>5. QED
  BY <1>4

\* What holds of 0, and of the next whenever it holds of a number, holds of all.
LEMMA AllNats ==
    ASSUME NEW T \in SUBSET Nat, 0 \in T, \A n \in T : n + 1 \in T PROVE T = Nat
<1>1. SUFFICES ASSUME Nat \ T # {} PROVE FALSE
  OBVIOUS
<1>2. PICK n \in Nat \ T : \A m \in Nat \ T : n <= m
  BY <1>1, LeastOfSome
<1>3. n # 0 /\ n - 1 \in Nat /\ n - 1 \in T
  BY <1>2
<1>4. QED
  BY <1>2, <1>3

\* And one of numbers up to a bound has a greatest one.
LEMMA GreatestOfSome ==
    ASSUME NEW n \in Nat, NEW T \in SUBSET (1..n), T # {} PROVE \E m \in T : \A k \in T : k <= m
<1> DEFINE down == {n - k : k \in T}
<1>1. \A k \in T : k \in Nat /\ k <= n
  OBVIOUS
<1>2. down \in SUBSET Nat /\ down # {}
  <2>1. ASSUME NEW k \in T PROVE n - k \in Nat
    BY <1>1
  <2>2. down # {}
    OBVIOUS
  <2>3. QED
    BY <2>1, <2>2
<1>3. PICK d \in down : \A e \in down : d <= e
  <2> HIDE DEF down
  <2> QED
    BY <1>2, LeastOfSome
<1>4. PICK m \in T : d = n - m
  OBVIOUS
<1>5. ASSUME NEW k \in T PROVE k <= m
  <2>1. n - m <= n - k
    BY <1>3, <1>4
  <2>2. QED
    BY <1>1, <2>1
<1>6. QED
  BY <1>5

\* A sequence, whatever its elements.
IsSeq(s) == s \in Seq({s[i] : i \in DOMAIN s})

\* A sequence is a function on the places up to its length.
LEMMA SeqPlaces ==
    ASSUME NEW s, IsSeq(s)
    PROVE  /\ Len(s) \in Nat /\ DOMAIN s = 1..Len(s)
           /\ s = [i \in 1..Len(s) |-> s[i]]
BY DEF IsSeq

\* And such a function is a sequence.
LEMMA PlacesSeq ==
    ASSUME NEW n \in Nat, NEW s, s = [i \in 1..n |-> s[i]]
    PROVE  IsSeq(s) /\ Len(s) = n
<1> DEFINE S == {s[i] : i \in DOMAIN s}
<1>1. DOMAIN s = 1..n
  OBVIOUS
<1>2. \A i \in 1..n : s[i] \in S
  BY <1>1
<1>3. s \in [1..n -> S]
  BY <1>2, Zenon
<1>4. s \in Seq(S) /\ Len(s) = n
  <2> HIDE DEF S
  <2> QED
    BY <1>3
<1>5. QED
  BY <1>4 DEF IsSeq

\* What elements do not matter.
LEMMA AnySeq == ASSUME NEW S, NEW s \in Seq(S) PROVE IsSeq(s) /\ \A i \in 1..Len(s) : s[i] \in S
<1>1. Len(s) \in Nat /\ s = [i \in 1..Len(s) |-> s[i]] /\ \A i \in 1..Len(s) : s[i] \in S
  OBVIOUS
<1>2. QED
  BY <1>1, PlacesSeq

\* The empty sequence and the ones of one element.
LEMMA ShortSeqs == IsSeq(<<>>) /\ Len(<<>>) = 0 /\ \A x : IsSeq(<<x>>) /\ Len(<<x>>) = 1 /\ <<x>>[1] = x
<1>1. <<>> \in Seq({})
  OBVIOUS
<1>2. IsSeq(<<>>)
  BY <1>1, AnySeq
<1>3. ASSUME NEW x PROVE IsSeq(<<x>>) /\ Len(<<x>>) = 1 /\ <<x>>[1] = x
  <2>1. <<x>> \in Seq({x})
    OBVIOUS
  <2>2. QED
    BY <2>1, AnySeq
<1>4. QED
  BY <1>2, <1>3

\* One sequence after another.
LEMMA Joined ==
    ASSUME NEW s, NEW t, IsSeq(s), IsSeq(t)
    PROVE  /\ IsSeq(s \o t) /\ Len(s \o t) = Len(s) + Len(t)
           /\ \A i \in 1..Len(s) : (s \o t)[i] = s[i]
           /\ \A i \in 1..Len(t) : (s \o t)[Len(s) + i] = t[i]
<1> DEFINE S == {s[i] : i \in DOMAIN s} \cup {t[i] : i \in DOMAIN t}
<1>1. Len(s) \in Nat /\ DOMAIN s = 1..Len(s) /\ s = [i \in 1..Len(s) |-> s[i]]
      /\ Len(t) \in Nat /\ DOMAIN t = 1..Len(t) /\ t = [i \in 1..Len(t) |-> t[i]]
  BY SeqPlaces
<1>2. (\A i \in 1..Len(s) : s[i] \in S) /\ (\A i \in 1..Len(t) : t[i] \in S)
  BY <1>1
<1>3. s \in Seq(S) /\ t \in Seq(S)
  <2> HIDE DEF S
  <2>1. s \in [1..Len(s) -> S] /\ t \in [1..Len(t) -> S]
    BY <1>1, <1>2, Zenon
  <2>2. QED
    BY <1>1, <2>1
<1> HIDE DEF S
<1>4. s \o t \in Seq(S) /\ Len(s \o t) = Len(s) + Len(t)
  BY <1>3
<1>5. \A i \in 1..Len(s) : (s \o t)[i] = s[i]
  BY <1>1, <1>3
<1>6. \A i \in 1..Len(t) : (s \o t)[Len(s) + i] = t[i]
  BY <1>1, <1>3
<1>7. QED
  BY <1>4, <1>5, <1>6, AnySeq

\* One more at the end.
LEMMA Appended ==
    ASSUME NEW s, NEW x, IsSeq(s)
    PROVE  /\ IsSeq(Append(s, x)) /\ Len(Append(s, x)) = Len(s) + 1
           /\ \A i \in 1..Len(s) : Append(s, x)[i] = s[i]
           /\ Append(s, x)[Len(s) + 1] = x
<1> DEFINE S == {s[i] : i \in DOMAIN s} \cup {x}
<1>1. Len(s) \in Nat /\ DOMAIN s = 1..Len(s) /\ s = [i \in 1..Len(s) |-> s[i]]
  BY SeqPlaces
<1>2. (\A i \in 1..Len(s) : s[i] \in S) /\ x \in S
  BY <1>1
<1>3. s \in Seq(S)
  <2> HIDE DEF S
  <2>1. s \in [1..Len(s) -> S]
    BY <1>1, <1>2, Zenon
  <2>2. QED
    BY <1>1, <2>1
<1> HIDE DEF S
<1>4. Append(s, x) \in Seq(S) /\ Len(Append(s, x)) = Len(s) + 1
  BY <1>2, <1>3
<1>5. (\A i \in 1..Len(s) : Append(s, x)[i] = s[i]) /\ Append(s, x)[Len(s) + 1] = x
  BY <1>1, <1>2, <1>3
<1>6. QED
  BY <1>4, <1>5, AnySeq

\* A sequence of sequences, one after another.
Flat(g, ss) == g = [i \in 1..Len(ss) |-> IF i = 1 THEN ss[i] ELSE g[i - 1] \o ss[i]]

\* There is such a function of the first n of them, for every n.
LEMMA FlatExists == ASSUME NEW ss, IsSeq(ss) PROVE \E g : Flat(g, ss)
<1> DEFINE Upto(g, n) == g = [i \in 1..n |-> IF i = 1 THEN ss[i] ELSE g[i - 1] \o ss[i]]
           Good == {n \in Nat : \E g : Upto(g, n)}
<1>1. 0 \in Good
  <2>1. Upto([i \in 1..0 |-> ss[i]], 0)
    OBVIOUS
  <2>2. QED
    BY <2>1
<1>2. ASSUME NEW n \in Good PROVE n + 1 \in Good
  <2>1. PICK g : Upto(g, n)
    OBVIOUS
  <2> DEFINE last == IF n + 1 = 1 THEN ss[n + 1] ELSE g[n] \o ss[n + 1]
             h == [i \in 1..(n + 1) |-> IF i <= n THEN g[i] ELSE last]
  <2>2. n \in Nat
    OBVIOUS
  <2> HIDE DEF last
  <2>3. ASSUME NEW i \in 1..(n + 1) PROVE h[i] = IF i = 1 THEN ss[i] ELSE h[i - 1] \o ss[i]
    <3>1. CASE i <= n
      <4>1. i \in 1..n /\ h[i] = g[i] /\ (i # 1 => i - 1 \in 1..(n + 1) /\ h[i - 1] = g[i - 1])
        BY <2>2, <3>1
      <4>2. g[i] = IF i = 1 THEN ss[i] ELSE g[i - 1] \o ss[i]
        BY <2>1, <4>1
      <4>3. QED
        BY <4>1, <4>2
    <3>2. CASE i = n + 1
      <4>1. h[i] = last /\ (i # 1 => i - 1 = n /\ h[n] = g[n])
        BY <2>2, <3>2
      <4>2. QED
        BY <3>2, <4>1 DEF last
    <3>3. QED
      BY <2>2, <3>1, <3>2
  <2>4. Upto(h, n + 1)
    BY <2>3
  <2> HIDE DEF h, Upto
  <2>5. QED
    BY <2>2, <2>4
<1>3. Good = Nat
  <2> HIDE DEF Good
  <2>1. Good \in SUBSET Nat
    BY DEF Good
  <2>2. QED
    BY <1>1, <1>2, <2>1, AllNats
<1>4. Len(ss) \in Nat
  BY SeqPlaces
<1>5. QED
  BY <1>3, <1>4 DEF Flat

\* So the sequences one after another are what the function has for all of them.
LEMMA FlatIs ==
    ASSUME NEW ss, IsSeq(ss)
    PROVE  /\ ss = <<>> => FlattenSeq(ss) = <<>>
           /\ ss # <<>> => \E g : Flat(g, ss) /\ FlattenSeq(ss) = g[Len(ss)]
<1>1. PICK g : Flat(g, ss)
  BY FlatExists
<1>2. ss = <<>> => FlattenSeq(ss) = <<>>
  BY ShortSeqs DEF FlattenSeq
<1>3. ASSUME ss # <<>> PROVE \E h : Flat(h, ss) /\ FlattenSeq(ss) = h[Len(ss)]
  <2> DEFINE h == CHOOSE f : Flat(f, ss)
  <2>1. Flat(h, ss)
    BY <1>1
  <2>2. Len(ss) # 0
    BY <1>3, SeqPlaces, ShortSeqs
  <2>3. FlattenSeq(ss) = h[Len(ss)]
    BY <2>2, Zenon DEF FlattenSeq, Flat
  <2>4. QED
    BY <2>1, <2>3
<1>4. QED
  BY <1>2, <1>3
\* What is in them.
LEMMA FlatHas ==
    ASSUME NEW ss, IsSeq(ss), \A k \in 1..Len(ss) : IsSeq(ss[k])
    PROVE  /\ IsSeq(FlattenSeq(ss))
           /\ \A i \in 1..Len(FlattenSeq(ss)) : \E k \in 1..Len(ss) : \E j \in 1..Len(ss[k]) :
                FlattenSeq(ss)[i] = ss[k][j]
<1> DEFINE E == UNION {{ss[k][j] : j \in 1..Len(ss[k])} : k \in 1..Len(ss)}
<1>0. ASSUME NEW k \in 1..Len(ss) PROVE ss[k] \in Seq(E)
  <2>1. \A j \in 1..Len(ss[k]) : ss[k][j] \in E
    OBVIOUS
  <2>2. Len(ss[k]) \in Nat /\ ss[k] = [j \in 1..Len(ss[k]) |-> ss[k][j]]
    BY SeqPlaces
  <2> HIDE DEF E
  <2>3. ss[k] \in [1..Len(ss[k]) -> E]
    BY <2>1, <2>2, Zenon
  <2>4. QED
    BY <2>2, <2>3
<1>1. FlattenSeq(ss) \in Seq(E)
  <2> HIDE DEF E
  <2>1. CASE ss = <<>>
    <3>1. FlattenSeq(ss) = <<>>
      BY <2>1, FlatIs
    <3>2. QED
      BY <3>1
  <2>2. CASE ss # <<>>
    <3>1. PICK g : Flat(g, ss) /\ FlattenSeq(ss) = g[Len(ss)]
      BY <2>2, FlatIs
    <3>2. Len(ss) \in Nat /\ Len(ss) # 0
      <4>1. Len(ss) = 0 => ss = <<>>
        BY SeqPlaces
      <4>2. QED
        BY <2>2, <4>1, SeqPlaces
    <3> DEFINE Good == {n \in Nat : n + 1 <= Len(ss) => g[n + 1] \in Seq(E)}
    <3>3. 0 \in Good
      BY <1>0, <3>1, <3>2 DEF Flat
    <3>4. ASSUME NEW n \in Good PROVE n + 1 \in Good
      <4>1. n \in Nat
        OBVIOUS
      <4>2. ASSUME (n + 1) + 1 <= Len(ss) PROVE g[(n + 1) + 1] \in Seq(E)
        <5>1. n + 1 <= Len(ss) /\ (n + 1) + 1 \in 1..Len(ss) /\ (n + 1) + 1 # 1
              /\ ((n + 1) + 1) - 1 = n + 1
          BY <3>2, <4>1, <4>2
        <5>2. g[(n + 1) + 1] = g[n + 1] \o ss[(n + 1) + 1]
          BY <3>1, <5>1 DEF Flat
        <5>3. g[n + 1] \in Seq(E) /\ ss[(n + 1) + 1] \in Seq(E)
          BY <1>0, <5>1
        <5>4. QED
          BY <5>2, <5>3
      <4>3. QED
        BY <4>1, <4>2
    <3>5. Good = Nat
      <4> HIDE DEF Good
      <4>1. Good \in SUBSET Nat
        BY DEF Good
      <4>2. QED
        BY <3>3, <3>4, <4>1, AllNats
    <3>6. Len(ss) - 1 \in Nat /\ (Len(ss) - 1) + 1 = Len(ss)
      BY <3>2
    <3>7. Len(ss) - 1 \in Good
      BY <3>5, <3>6
    <3>8. QED
      BY <3>1, <3>2, <3>6, <3>7
  <2>3. QED
    BY <2>1, <2>2
<1>2. IsSeq(FlattenSeq(ss)) /\ \A i \in 1..Len(FlattenSeq(ss)) : FlattenSeq(ss)[i] \in E
  <2> HIDE DEF E
  <2>1. QED
    BY <1>1, AnySeq
<1>3. \A x \in E : \E k \in 1..Len(ss) : \E j \in 1..Len(ss[k]) : x = ss[k][j]
  OBVIOUS
<1>4. QED
  <2> HIDE DEF E
  <2>1. QED
    BY <1>2, <1>3

\* What is kept of a sequence.
Keeps(f, s, places) ==
    f = [n \in 0..Len(s) |->
            IF n = 0 THEN <<>> ELSE IF n \in places THEN Append(f[n - 1], s[n]) ELSE f[n - 1]]

\* There is such a function.
LEMMA KeepsExists == ASSUME NEW s, NEW places, IsSeq(s) PROVE \E f : Keeps(f, s, places)
<1> DEFINE Upto(f, m) ==
             f = [n \in 0..m |->
                    IF n = 0 THEN <<>> ELSE IF n \in places THEN Append(f[n - 1], s[n]) ELSE f[n - 1]]
           Good == {n \in Nat : \E g : Upto(g, n)}
<1>1. 0 \in Good
  <2> DEFINE g == [n \in 0..0 |-> <<>>]
  <2>1. Upto(g, 0)
    OBVIOUS
  <2> HIDE DEF g, Upto
  <2>2. QED
    BY <2>1
<1>2. ASSUME NEW m \in Good PROVE m + 1 \in Good
  <2>1. PICK g : Upto(g, m)
    OBVIOUS
  <2> DEFINE last == IF m + 1 \in places THEN Append(g[m], s[m + 1]) ELSE g[m]
             h == [n \in 0..(m + 1) |-> IF n <= m THEN g[n] ELSE last]
  <2>2. m \in Nat
    OBVIOUS
  <2> HIDE DEF last
  <2>3. ASSUME NEW n \in 0..(m + 1)
        PROVE  h[n] = IF n = 0 THEN <<>>
                      ELSE IF n \in places THEN Append(h[n - 1], s[n]) ELSE h[n - 1]
    <3>1. CASE n <= m
      <4>1. n \in 0..m /\ h[n] = g[n] /\ (n # 0 => n - 1 \in 0..(m + 1) /\ h[n - 1] = g[n - 1])
        BY <2>2, <3>1
      <4>2. g[n] = IF n = 0 THEN <<>>
                   ELSE IF n \in places THEN Append(g[n - 1], s[n]) ELSE g[n - 1]
        BY <2>1, <4>1
      <4>3. QED
        BY <4>1, <4>2
    <3>2. CASE n = m + 1
      <4>1. h[n] = last /\ n # 0 /\ n - 1 = m /\ h[m] = g[m]
        BY <2>2, <3>2
      <4>2. QED
        BY <3>2, <4>1 DEF last
    <3>3. QED
      BY <2>2, <3>1, <3>2
  <2>4. Upto(h, m + 1)
    BY <2>3
  <2> HIDE DEF h, Upto
  <2>5. QED
    BY <2>2, <2>4
<1>3. Good = Nat
  <2> HIDE DEF Good
  <2>1. Good \in SUBSET Nat
    BY DEF Good
  <2>2. QED
    BY <1>1, <1>2, <2>1, AllNats
<1>4. Len(s) \in Nat
  BY SeqPlaces
<1>5. QED
  BY <1>3, <1>4 DEF Keeps

\* What is kept is a sequence of what is at the places, and of all that is; from no place nothing
\* is kept.
LEMMA KeptHas ==
    ASSUME NEW s, NEW places, IsSeq(s)
    PROVE  /\ IsSeq(KeptAt(s, places))
           /\ \A i \in 1..Len(KeptAt(s, places)) : \E n \in places \cap (1..Len(s)) : KeptAt(s, places)[i] = s[n]
           /\ \A n \in places \cap (1..Len(s)) : \E i \in 1..Len(KeptAt(s, places)) : KeptAt(s, places)[i] = s[n]
<1>1. PICK h : Keeps(h, s, places)
  BY KeepsExists
<1> DEFINE f == CHOOSE g : Keeps(g, s, places)
<1>2. Keeps(f, s, places)
  BY <1>1
<1>3. KeptAt(s, places) = f[Len(s)]
  BY Zenon DEF KeptAt, Keeps
<1> HIDE DEF f
<1>4. Len(s) \in Nat
  BY SeqPlaces
<1> DEFINE Fine(t, m) ==
             /\ IsSeq(t)
             /\ \A i \in 1..Len(t) : \E n \in places \cap (1..m) : t[i] = s[n]
             /\ \A n \in places \cap (1..m) : \E i \in 1..Len(t) : t[i] = s[n]
           Good == {m \in Nat : m <= Len(s) => Fine(f[m], m)}
<1>5. 0 \in Good
  <2>1. f[0] = <<>>
    BY <1>2, <1>4 DEF Keeps
  <2>2. Fine(<<>>, 0)
    BY ShortSeqs
  <2>3. QED
    BY <2>1, <2>2
<1>6. ASSUME NEW m \in Good PROVE m + 1 \in Good
  <2>0. m \in Nat /\ m + 1 \in Nat
    OBVIOUS
  <2>1. SUFFICES ASSUME m + 1 <= Len(s) PROVE Fine(f[m + 1], m + 1)
    <3> HIDE DEF Fine
    <3>1. QED
      BY <2>0
  <2>2. m \in Nat /\ m + 1 \in 0..Len(s) /\ m + 1 # 0 /\ (m + 1) - 1 = m /\ m <= Len(s)
    BY <1>4, <2>1
  <2>3. f[m + 1] = IF m + 1 \in places THEN Append(f[m], s[m + 1]) ELSE f[m]
    <3>1. f[m + 1] = IF m + 1 = 0 THEN <<>> ELSE IF m + 1 \in places
                     THEN Append(f[(m + 1) - 1], s[m + 1]) ELSE f[(m + 1) - 1]
      BY <1>2, <2>2, Zenon DEF Keeps
    <3>2. QED
      BY <2>2, <3>1
  <2>4. Fine(f[m], m)
    BY <2>2
  <2> DEFINE t == f[m]
             x == s[m + 1]
  <2>5. IsSeq(t) /\ Len(t) \in Nat
    BY <2>4, SeqPlaces
  <2>6. \A n : n \in 1..(m + 1) <=> n \in 1..m \/ n = m + 1
    BY <2>2
  <2>7. CASE m + 1 \in places
    <3>1. f[m + 1] = Append(t, x)
      BY <2>3, <2>7
    <3>2. /\ IsSeq(Append(t, x)) /\ Len(Append(t, x)) = Len(t) + 1
          /\ \A i \in 1..Len(t) : Append(t, x)[i] = t[i]
          /\ Append(t, x)[Len(t) + 1] = x
      <4> HIDE DEF t, x
      <4> QED
        BY <2>5, Appended
    <3>3. \A i : i \in 1..(Len(t) + 1) <=> i \in 1..Len(t) \/ i = Len(t) + 1
      BY <2>5
    <3>4. \A i \in 1..Len(Append(t, x)) : \E n \in places \cap (1..(m + 1)) : Append(t, x)[i] = s[n]
      BY <2>4, <2>6, <2>7, <3>2, <3>3
    <3>5. \A n \in places \cap (1..(m + 1)) : \E i \in 1..Len(Append(t, x)) : Append(t, x)[i] = s[n]
      BY <2>4, <2>6, <2>7, <3>2, <3>3
    <3> HIDE DEF t, x
    <3>6. Fine(Append(t, x), m + 1)
      BY <3>2, <3>4, <3>5
    <3> HIDE DEF Fine
    <3>7. QED
      BY <3>1, <3>6 DEF t, x
  <2>8. CASE m + 1 \notin places
    BY <2>3, <2>4, <2>6, <2>8
  <2>9. QED
    BY <2>7, <2>8
<1>7. Good = Nat
  <2> HIDE DEF Good
  <2>1. Good \in SUBSET Nat
    BY DEF Good
  <2>2. QED
    BY <1>5, <1>6, <2>1, AllNats
<1>8. Fine(f[Len(s)], Len(s))
  BY <1>4, <1>7
<1>9. QED
  BY <1>3, <1>8

\* What the reader has after each line.
Reading(g, r, lines) ==
    g[0] = r /\ \A i \in 1..Len(lines) : g[i] = ReadLine(g[i - 1], lines[i])

\* Only one: the state after each line follows from the one before.
LEMMA ReadingIsOne ==
    ASSUME NEW r, NEW lines, IsSeq(lines), NEW g, NEW h, Reading(g, r, lines), Reading(h, r, lines)
    PROVE  \A i \in 0..Len(lines) : g[i] = h[i]
<1> DEFINE Good == {i \in Nat : i <= Len(lines) => g[i] = h[i]}
<1>1. 0 \in Good
  BY DEF Reading
<1>2. Len(lines) \in Nat
  BY SeqPlaces
<1>3. ASSUME NEW i \in Good PROVE i + 1 \in Good
  <2>1. i \in Nat
    OBVIOUS
  <2>2. ASSUME i + 1 <= Len(lines) PROVE g[i + 1] = h[i + 1]
    <3>1. i + 1 \in 1..Len(lines) /\ (i + 1) - 1 = i /\ g[i] = h[i]
      BY <1>2, <2>1, <2>2
    <3>2. g[i + 1] = ReadLine(g[(i + 1) - 1], lines[i + 1]) /\ h[i + 1] = ReadLine(h[(i + 1) - 1], lines[i + 1])
      BY <3>1, Zenon DEF Reading
    <3>3. QED
      BY <3>1, <3>2
  <2>3. QED
    BY <2>1, <2>2
<1>4. Good = Nat
  <2> HIDE DEF Good
  <2>1. Good \in SUBSET Nat
    BY DEF Good
  <2>2. QED
    BY <1>1, <1>3, <2>1, AllNats
<1>5. QED
  BY <1>2, <1>4

Read(r, lines) == FoldLeft(ReadLine, r, lines)

\* The fold of a file, by the greatest place first.
Folds(f, r, lines, n) ==
    f = [S \in SUBSET (1..n) |->
            IF S = {} THEN r ELSE LET x == Max(S) IN ReadLine(f[S \ {x}], lines[x])]

\* The greatest of the places up to one that are in a set.
LEMMA LastPlace ==
    ASSUME NEW n \in Nat, NEW S \in SUBSET (1..(n + 1)), n + 1 \in S
    PROVE  Max(S) = n + 1 /\ S \ {n + 1} \in SUBSET (1..n)
<1>1. \A x \in S : x \in Int /\ x <= n + 1
  OBVIOUS
<1>2. Max(S) \in S /\ \A x \in S : Max(S) >= x
  BY <1>1, Zenon DEF Max
<1>3. ASSUME NEW m \in S, \A x \in S : m >= x PROVE m = n + 1
  BY <1>1, <1>3
<1>4. Max(S) = n + 1
  BY <1>2, <1>3
<1>5. QED
  BY <1>4

\* Every number of lines can be folded into the reader.
LEMMA FoldsExists == ASSUME NEW r, NEW lines, NEW n \in Nat PROVE \E f : Folds(f, r, lines, n)
<1> DEFINE Good == {m \in Nat : \E f : Folds(f, r, lines, m)}
<1>1. 0 \in Good
  <2> DEFINE f == [S \in SUBSET (1..0) |-> r]
  <2>1. \A S \in SUBSET (1..0) : S = {}
    OBVIOUS
  <2>2. Folds(f, r, lines, 0)
    BY <2>1 DEF Folds
  <2> HIDE DEF f
  <2>3. QED
    BY <2>2
<1>2. ASSUME NEW m \in Good PROVE m + 1 \in Good
  <2>1. PICK f : Folds(f, r, lines, m)
    OBVIOUS
  <2>2. m \in Nat
    OBVIOUS
  <2> DEFINE h == [S \in SUBSET (1..(m + 1)) |->
                     IF m + 1 \in S THEN ReadLine(f[S \ {m + 1}], lines[m + 1]) ELSE f[S]]
  <2>3. ASSUME NEW S \in SUBSET (1..(m + 1))
        PROVE  h[S] = IF S = {} THEN r ELSE LET x == Max(S) IN ReadLine(h[S \ {x}], lines[x])
    <3>1. CASE m + 1 \in S
      <4>1. Max(S) = m + 1 /\ S \ {m + 1} \in SUBSET (1..m)
        BY <2>2, <3>1, LastPlace
      <4>2. S \ {m + 1} \in SUBSET (1..(m + 1)) /\ m + 1 \notin S \ {m + 1}
        BY <4>1
      <4>3. h[S \ {m + 1}] = f[S \ {m + 1}]
        BY <4>2
      <4>4. h[S] = ReadLine(f[S \ {m + 1}], lines[m + 1])
        BY <3>1
      <4>5. QED
        BY <3>1, <4>1, <4>3, <4>4
    <3>2. CASE m + 1 \notin S
      <4>1. S \in SUBSET (1..m)
        BY <2>2, <3>2
      <4>2. h[S] = f[S]
        BY <3>2
      <4>3. f[S] = IF S = {} THEN r ELSE LET x == Max(S) IN ReadLine(f[S \ {x}], lines[x])
        BY <2>1, <4>1 DEF Folds
      <4>4. S \ {Max(S)} \in SUBSET (1..(m + 1)) /\ m + 1 \notin S \ {Max(S)}
        BY <3>2
      <4>5. h[S \ {Max(S)}] = f[S \ {Max(S)}]
        BY <4>4
      <4>6. QED
        BY <4>2, <4>3, <4>5
    <3>3. QED
      BY <3>1, <3>2
  <2>4. Folds(h, r, lines, m + 1)
    BY <2>3 DEF Folds
  <2> HIDE DEF h
  <2>5. QED
    BY <2>2, <2>4
<1>3. Good = Nat
  <2> HIDE DEF Good
  <2>1. Good \in SUBSET Nat
    BY DEF Good
  <2>2. QED
    BY <1>1, <1>2, <2>1, AllNats
<1>4. QED
  BY <1>3

\* Folding a file is reading it line after line.
LEMMA ReadIsReading ==
    ASSUME NEW r, NEW lines, IsSeq(lines)
    PROVE  \E g : Reading(g, r, lines) /\ Read(r, lines) = g[Len(lines)]
<1>1. Len(lines) \in Nat /\ DOMAIN lines = 1..Len(lines)
  BY SeqPlaces
<1>2. \E f : Folds(f, r, lines, Len(lines))
  BY <1>1, FoldsExists
<1> DEFINE f == CHOOSE f : Folds(f, r, lines, Len(lines))
           g == [i \in 0..Len(lines) |-> f[1..i]]
<1>3. Folds(f, r, lines, Len(lines))
  BY <1>2
<1>4. Read(r, lines) = f[1..Len(lines)]
  BY <1>1, Zenon DEF Read, FoldLeft, MapThenFoldSet, Folds
<1> HIDE DEF f
<1>5. g[0] = r
  <2>1. 1..0 = {} /\ 0 \in 0..Len(lines)
    BY <1>1
  <2>2. f[{}] = r
    BY <1>3 DEF Folds
  <2>3. QED
    BY <2>1, <2>2
<1>6. ASSUME NEW i \in 1..Len(lines) PROVE g[i] = ReadLine(g[i - 1], lines[i])
  <2> DEFINE n == i - 1
             S == 1..i
  <2>1. n \in Nat /\ i = n + 1 /\ S \in SUBSET (1..(n + 1)) /\ n + 1 \in S
    BY <1>1
  <2>2. Max(S) = i
    <3> HIDE DEF n, S
    <3> QED
      BY <2>1, LastPlace
  <2>3. S \in SUBSET (1..Len(lines)) /\ S # {} /\ S \ {i} = 1..(i - 1)
    <3>1. S \in SUBSET (1..Len(lines)) /\ i \in S
      BY <1>1
    <3>2. S \ {i} = 1..(i - 1)
      BY <1>1
    <3>3. QED
      BY <3>1, <3>2
  <2>4. f[S] = ReadLine(f[S \ {i}], lines[i])
    <3> HIDE DEF S, n
    <3>1. f[S] = IF S = {} THEN r ELSE LET x == Max(S) IN ReadLine(f[S \ {x}], lines[x])
      BY <1>3, <2>3 DEF Folds
    <3>2. QED
      BY <2>2, <2>3, <3>1
  <2>5. i \in 0..Len(lines) /\ i - 1 \in 0..Len(lines)
    BY <1>1
  <2>6. g[i] = f[1..i] /\ g[i - 1] = f[1..(i - 1)]
    BY <2>5
  <2>7. QED
    BY <2>3, <2>4, <2>6
<1>7. Reading(g, r, lines)
  <2> HIDE DEF g
  <2> QED
    BY <1>5, <1>6 DEF Reading
<1>8. g[Len(lines)] = f[1..Len(lines)]
  BY <1>1
<1> HIDE DEF g
<1>9. QED
  BY <1>4, <1>7, <1>8

\* Nothing to read leaves the reader as it is, a line is read, and of two files one after the
\* other the second is read as the first left the reader.
LEMMA ReadNothing == ASSUME NEW r PROVE Read(r, <<>>) = r
<1>1. PICK g : Reading(g, r, <<>>) /\ Read(r, <<>>) = g[Len(<<>>)]
  BY ShortSeqs, ReadIsReading
<1>2. QED
  BY <1>1, ShortSeqs DEF Reading

\* Reading one run of lines after another is reading the two joined.
LEMMA ReadTwo ==
    ASSUME NEW r, NEW s, NEW t, IsSeq(s), IsSeq(t)
    PROVE  Read(r, s \o t) = Read(Read(r, s), t)
<1>1. /\ IsSeq(s \o t) /\ Len(s \o t) = Len(s) + Len(t)
      /\ \A i \in 1..Len(s) : (s \o t)[i] = s[i]
      /\ \A i \in 1..Len(t) : (s \o t)[Len(s) + i] = t[i]
  BY Joined
<1>2. Len(s) \in Nat /\ Len(t) \in Nat
  BY SeqPlaces
<1>3. PICK g : Reading(g, r, s \o t) /\ Read(r, s \o t) = g[Len(s \o t)]
  BY <1>1, ReadIsReading
<1>4. PICK f : Reading(f, r, s) /\ Read(r, s) = f[Len(s)]
  BY ReadIsReading
<1>5. Reading(g, r, s)
  <2>1. g[0] = r
    BY <1>3 DEF Reading
  <2>2. ASSUME NEW i \in 1..Len(s) PROVE g[i] = ReadLine(g[i - 1], s[i])
    <3>1. i \in 1..Len(s \o t) /\ (s \o t)[i] = s[i]
      BY <1>1, <1>2
    <3>2. g[i] = ReadLine(g[i - 1], (s \o t)[i])
      BY <1>3, <3>1 DEF Reading
    <3>3. QED
      BY <3>1, <3>2
  <2>3. QED
    BY <2>1, <2>2 DEF Reading
<1>6. g[Len(s)] = Read(r, s)
  <2>1. Len(s) \in 0..Len(s)
    BY <1>2
  <2>2. \A i \in 0..Len(s) : g[i] = f[i]
    BY <1>4, <1>5, ReadingIsOne
  <2>3. QED
    BY <1>4, <2>1, <2>2
<1> DEFINE h == [i \in 0..Len(t) |-> g[Len(s) + i]]
<1>7. Reading(h, Read(r, s), t)
  <2>1. h[0] = Read(r, s)
    <3>1. 0 \in 0..Len(t) /\ Len(s) + 0 = Len(s)
      BY <1>2
    <3>2. QED
      BY <1>6, <3>1
  <2>2. ASSUME NEW i \in 1..Len(t) PROVE h[i] = ReadLine(h[i - 1], t[i])
    <3>1. /\ Len(s) + i \in 1..Len(s \o t) /\ (Len(s) + i) - 1 = Len(s) + (i - 1)
          /\ i \in 0..Len(t) /\ i - 1 \in 0..Len(t) /\ (s \o t)[Len(s) + i] = t[i]
      BY <1>1, <1>2
    <3>2. g[Len(s) + i] = ReadLine(g[(Len(s) + i) - 1], (s \o t)[Len(s) + i])
      BY <1>3, <3>1, Zenon DEF Reading
    <3>3. QED
      BY <3>1, <3>2
  <2> HIDE DEF h
  <2>3. QED
    BY <2>1, <2>2 DEF Reading
<1>8. PICK k : Reading(k, Read(r, s), t) /\ Read(Read(r, s), t) = k[Len(t)]
  BY ReadIsReading
<1>9. h[Len(t)] = k[Len(t)]
  <2> HIDE DEF h
  <2>1. Len(t) \in 0..Len(t)
    BY <1>2
  <2>2. \A i \in 0..Len(t) : h[i] = k[i]
    BY <1>7, <1>8, ReadingIsOne
  <2>3. QED
    BY <2>1, <2>2
<1>10. h[Len(t)] = g[Len(s \o t)]
  <2>1. Len(t) \in 0..Len(t)
    BY <1>2
  <2>2. QED
    BY <1>1, <2>1
<1>11. QED
  BY <1>3, <1>8, <1>9, <1>10

\* Reading one line is one step of the reader.
LEMMA ReadOne == ASSUME NEW r, NEW l PROVE Read(r, <<l>>) = ReadLine(r, l)
<1>1. IsSeq(<<l>>) /\ Len(<<l>>) = 1 /\ <<l>>[1] = l
  BY ShortSeqs
<1>2. PICK g : Reading(g, r, <<l>>) /\ Read(r, <<l>>) = g[Len(<<l>>)]
  BY <1>1, ReadIsReading
<1>3. g[1] = ReadLine(g[1 - 1], <<l>>[1])
  <2>1. 1 \in 1..Len(<<l>>)
    BY <1>1
  <2>2. QED
    BY <1>2, <2>1, Zenon DEF Reading
<1>4. g[0] = r
  BY <1>2 DEF Reading
<1>5. QED
  BY <1>1, <1>2, <1>3, <1>4

\* The reader's state, field by field.
Reader(st, o, a, k, v, op) ==
    [stanzas |-> st, order |-> o, at |-> a, key |-> k, value |-> v, open |-> op]

\* The fields of a reader's state are what it was made of.
LEMMA ReaderFields ==
    ASSUME NEW st, NEW o, NEW a, NEW k, NEW v, NEW op, NEW r, r = Reader(st, o, a, k, v, op)
    PROVE  /\ r.stanzas = st /\ r.order = o /\ r.at = a /\ r.key = k /\ r.value = v
           /\ (r.open <=> op)
BY DEF Reader

\* A line is pending, or none is.
Pending == TRUE
Ended   == FALSE

\* A stanza's keys with one more value, the stanzas with one more, and their names.
GivenAt(st, a, k, v) == [st EXCEPT ![a] = Overlaid(@, [n \in {k} |-> Stripped(v)])]
Begun(st, n) == Overlaid([m \in {n} |-> NoKeys], st)
Named(st, o, n) == IF n \in DOMAIN st THEN o ELSE Append(o, n)

\* The end of a value: it is the key's, in the stanza it stands in.
LEMMA ClosedIs ==
    ASSUME NEW st, NEW o, NEW a, NEW k, NEW v, NEW op
    PROVE  Closed(Reader(st, o, a, k, v, op)) =
             IF k = NoName THEN Reader(st, o, a, k, v, Ended)
             ELSE Reader(GivenAt(st, a, k, v), o, a, k, v, Ended)
<1>0. PICK r : r = Reader(st, o, a, k, v, op)
  OBVIOUS
<1>1. r.stanzas = st /\ r.at = a /\ r.key = k /\ r.value = v
  BY <1>0, ReaderFields
<1>2. PICK r1 : r1 = [r EXCEPT !.open = Ended]
  OBVIOUS
<1>3. r1 = Reader(st, o, a, k, v, Ended) /\ r1.stanzas = st
  BY <1>0, <1>2 DEF Reader
<1>4. PICK new : new = Overlaid(st[a], [n \in {k} |-> Stripped(v)])
  OBVIOUS
<1>5. PICK after : after = [st EXCEPT ![a] = new]
  OBVIOUS
<1>6. after = GivenAt(st, a, k, v)
  BY <1>4, <1>5 DEF GivenAt
<1>7. [r1 EXCEPT !.stanzas = after] = Reader(after, o, a, k, v, Ended)
  BY <1>3 DEF Reader
<1>8. [r EXCEPT !.open = Ended, !.stanzas[a] = new] = [r1 EXCEPT !.stanzas[a] = new]
  BY <1>2, Zenon
<1>9. [r1 EXCEPT !.stanzas[a] = new] = [r1 EXCEPT !.stanzas = [@ EXCEPT ![a] = new]]
  BY Zenon
<1>10. [r1 EXCEPT !.stanzas = [@ EXCEPT ![a] = new]] = [r1 EXCEPT !.stanzas = after]
  BY <1>3, <1>5
<1>11. k # NoName => Closed(r) = [r EXCEPT !.open = Ended, !.stanzas[a] = new]
  BY <1>1, <1>4, Zenon DEF Closed, Ended
<1>12. k = NoName => Closed(r) = [r EXCEPT !.open = Ended]
  BY <1>1, Zenon DEF Closed, Ended
<1>13. Closed(r) = IF k = NoName THEN Reader(st, o, a, k, v, Ended) ELSE Reader(after, o, a, k, v, Ended)
  BY <1>2, <1>3, <1>7, <1>8, <1>9, <1>10, <1>11, <1>12, Zenon
<1>14. QED
  BY <1>0, <1>6, <1>13

\* A line is read: it goes on with a value, begins a stanza, or begins a value.
LEMMA GoesOn ==
    ASSUME NEW st, NEW o, NEW a, NEW k, NEW v, NEW l
    PROVE  LET grown == Reader(st, o, a, k, Append(v, Swallow(l)), Pending) IN
           ReadLine(Reader(st, o, a, k, v, Pending), l) = IF ContinuesAt(l) THEN grown ELSE Closed(grown)
<1>0. PICK r : r = Reader(st, o, a, k, v, Pending)
  OBVIOUS
<1>1. PICK more : more = Append(v, Swallow(l))
  OBVIOUS
<1>2. [r EXCEPT !.value = more] = Reader(st, o, a, k, more, Pending)
  BY <1>0 DEF Reader
<1>3. r.value = v /\ r.open
  BY <1>0 DEF Reader, Pending
<1>4. [r EXCEPT !.value = Append(@, Swallow(l))] = [r EXCEPT !.value = more]
  BY <1>1, <1>3
<1>5. PICK grown : grown = [r EXCEPT !.value = Append(@, Swallow(l))]
  OBVIOUS
<1>6. ReadLine(r, l) = IF ContinuesAt(l) THEN grown ELSE Closed(grown)
  BY <1>3, <1>5, Zenon DEF ReadLine
<1>7. QED
  BY <1>0, <1>1, <1>2, <1>4, <1>5, <1>6

\* A header, read with no line pending, begins its stanza.
LEMMA BeginsStanza ==
    ASSUME NEW st, NEW o, NEW a, NEW k, NEW v, NEW l, l.kind = "stanza"
    PROVE  ReadLine(Reader(st, o, a, k, v, Ended), l) =
             Reader(Begun(st, l.name), Named(st, o, l.name), l.name, k, v, Ended)
<1>0. PICK r : r = Reader(st, o, a, k, v, Ended)
  OBVIOUS
<1>1. PICK at : at = l.name
  OBVIOUS
<1>2. PICK order : order = IF l.name \in DOMAIN st THEN o ELSE Append(o, l.name)
  OBVIOUS
<1>3. PICK stanzas : stanzas = Overlaid([n \in {l.name} |-> NoKeys], st)
  OBVIOUS
<1>4. r.stanzas = st /\ r.order = o /\ ~r.open
  BY <1>0 DEF Reader, Ended
<1>5. [r EXCEPT !.at = at, !.order = order, !.stanzas = stanzas] = Reader(stanzas, order, at, k, v, Ended)
  <2>1. PICK r1 : r1 = [r EXCEPT !.at = at]
    OBVIOUS
  <2>2. PICK r2 : r2 = [r1 EXCEPT !.order = order]
    OBVIOUS
  <2>3. r1 = Reader(st, o, at, k, v, Ended)
    BY <1>0, <2>1 DEF Reader
  <2>4. r2 = Reader(st, order, at, k, v, Ended)
    BY <2>2, <2>3 DEF Reader
  <2>5. [r2 EXCEPT !.stanzas = stanzas] = Reader(stanzas, order, at, k, v, Ended)
    BY <2>4 DEF Reader
  <2>6. [r EXCEPT !.at = at, !.order = order, !.stanzas = stanzas] = [r2 EXCEPT !.stanzas = stanzas]
    BY <2>1, <2>2, Zenon
  <2>7. QED
    BY <2>5, <2>6
<1>6. ReadLine(r, l) = [r EXCEPT !.at = at, !.order = order, !.stanzas = stanzas]
  BY <1>1, <1>2, <1>3, <1>4, Zenon DEF ReadLine
<1>7. stanzas = Begun(st, l.name) /\ order = Named(st, o, l.name)
  BY <1>2, <1>3 DEF Begun, Named
<1>8. QED
  BY <1>0, <1>1, <1>5, <1>6, <1>7

\* Another line, read with no line pending, begins a value, and ends it unless
\* it says that it continues.
LEMMA BeginsValue ==
    ASSUME NEW st, NEW o, NEW a, NEW k, NEW v, NEW l, l.kind # "stanza"
    PROVE  LET fresh == Reader(st, o, a, l.name, <<PartOf(l)>>, Pending) IN
           ReadLine(Reader(st, o, a, k, v, Ended), l) = IF ContinuesAt(l) THEN fresh ELSE Closed(fresh)
<1>0. PICK r : r = Reader(st, o, a, k, v, Ended)
  OBVIOUS
<1>1. PICK key : key = l.name
  OBVIOUS
<1>2. PICK value : value = <<PartOf(l)>>
  OBVIOUS
<1>3. PICK fresh : fresh = [r EXCEPT !.key = key, !.value = value, !.open = Pending]
  OBVIOUS
<1>4. [r EXCEPT !.key = key, !.value = value, !.open = Pending] = Reader(st, o, a, key, value, Pending)
  <2>1. PICK r1 : r1 = [r EXCEPT !.key = key]
    OBVIOUS
  <2>2. PICK r2 : r2 = [r1 EXCEPT !.value = value]
    OBVIOUS
  <2>3. r1 = Reader(st, o, a, key, v, Ended)
    BY <1>0, <2>1 DEF Reader
  <2>4. r2 = Reader(st, o, a, key, value, Ended)
    BY <2>2, <2>3 DEF Reader
  <2>5. [r2 EXCEPT !.open = Pending] = Reader(st, o, a, key, value, Pending)
    BY <2>4 DEF Reader
  <2>6. [r EXCEPT !.key = key, !.value = value, !.open = Pending] = [r2 EXCEPT !.open = Pending]
    BY <2>1, <2>2, Zenon
  <2>7. QED
    BY <2>5, <2>6
<1>5. ~r.open
  BY <1>0 DEF Reader, Ended
<1>6. ReadLine(r, l) = IF ContinuesAt(l) THEN fresh ELSE Closed(fresh)
  BY <1>1, <1>2, <1>3, <1>5, Zenon DEF ReadLine, Pending
<1>7. QED
  BY <1>0, <1>1, <1>2, <1>3, <1>4, <1>6

-----------------------------------------------------------------------------
(* A file's searches are a sequence, whatever its lines. *)

\* The reader keeps the names of the stanzas in a sequence.
HasOrder(r) ==
    \E st, o, a, k, v : IsSeq(o) /\ r \in {Reader(st, o, a, k, v, Pending), Reader(st, o, a, k, v, Ended)}

\* Ending a value leaves them as they are.
LEMMA ClosedHasOrder == ASSUME NEW r, HasOrder(r) PROVE HasOrder(Closed(r))
<1>1. PICK st, o, a, k, v, op : r = Reader(st, o, a, k, v, op) /\ IsSeq(o)
  BY DEF HasOrder
<1>2. Closed(r) = IF k = NoName THEN Reader(st, o, a, k, v, Ended)
                  ELSE Reader(GivenAt(st, a, k, v), o, a, k, v, Ended)
  BY <1>1, ClosedIs
<1>3. QED
  BY <1>1, <1>2 DEF HasOrder

\* So does reading a line, unless a stanza begins, which adds one.
LEMMA ReadLineHasOrder == ASSUME NEW r, NEW l, HasOrder(r) PROVE HasOrder(ReadLine(r, l))
<1>1. PICK st, o, a, k, v :
        IsSeq(o) /\ (r = Reader(st, o, a, k, v, Pending) \/ r = Reader(st, o, a, k, v, Ended))
  BY DEF HasOrder
<1>2. CASE r = Reader(st, o, a, k, v, Pending)
  <2>1. PICK grown : grown = Reader(st, o, a, k, Append(v, Swallow(l)), Pending)
    OBVIOUS
  <2>2. ReadLine(r, l) = grown \/ ReadLine(r, l) = Closed(grown)
    BY <1>2, <2>1, GoesOn
  <2>3. HasOrder(grown)
    BY <1>1, <2>1 DEF HasOrder
  <2>4. QED
    BY <2>2, <2>3, ClosedHasOrder
<1>3. CASE r = Reader(st, o, a, k, v, Ended) /\ l.kind = "stanza"
  <2>1. ReadLine(r, l) = Reader(Begun(st, l.name), Named(st, o, l.name), l.name, k, v, Ended)
    BY <1>3, BeginsStanza
  <2>2. IsSeq(Named(st, o, l.name))
    BY <1>1, Appended DEF Named
  <2>3. QED
    BY <2>1, <2>2 DEF HasOrder
<1>4. CASE r = Reader(st, o, a, k, v, Ended) /\ l.kind # "stanza"
  <2>1. PICK fresh : fresh = Reader(st, o, a, l.name, <<PartOf(l)>>, Pending)
    OBVIOUS
  <2>2. ReadLine(r, l) = fresh \/ ReadLine(r, l) = Closed(fresh)
    BY <1>4, <2>1, BeginsValue
  <2>3. HasOrder(fresh)
    BY <1>1, <2>1 DEF HasOrder
  <2>4. QED
    BY <2>2, <2>3, ClosedHasOrder
<1>5. QED
  BY <1>1, <1>2, <1>3, <1>4

\* The reader before the first line, and after the last.
Fresh == Reader([n \in {"default"} |-> NoKeys], <<>>, "default", NoName, <<>>, Ended)
AllRead(lines) ==
    IF Read(Fresh, lines).open THEN Closed(Read(Fresh, lines)) ELSE Read(Fresh, lines)

\* What the parser makes of a file.
LEMMA ParsedIs ==
    ASSUME NEW lines
    PROVE  ParseConf(lines) =
             [i \in 1..Len(AllRead(lines).order) |->
                <<AllRead(lines).order[i],
                  Overlaid(AllRead(lines).stanzas["default"],
                           AllRead(lines).stanzas[AllRead(lines).order[i]])>>]
<1>1. Fresh = [stanzas |-> [n \in {"default"} |-> NoKeys], order |-> <<>>, at |-> "default",
               key |-> NoName, value |-> <<>>, open |-> FALSE]
  BY DEF Fresh, Reader, Ended
<1>2. QED
  BY <1>1, Zenon DEF ParseConf, AllRead, Read

\* Its stanzas are a sequence, so its searches are.
LEMMA SearchesAreSeq ==
    ASSUME NEW lines, IsSeq(lines)
    PROVE  IsSeq(ParseSavedSearches(lines))
<1>1. PICK g : Reading(g, Fresh, lines) /\ Read(Fresh, lines) = g[Len(lines)]
  BY ReadIsReading
<1> DEFINE Good == {i \in Nat : i <= Len(lines) => HasOrder(g[i])}
<1>2. Len(lines) \in Nat
  BY SeqPlaces
<1>3. 0 \in Good
  <2>1. HasOrder(Fresh)
    BY ShortSeqs DEF HasOrder, Fresh
  <2>2. QED
    BY <1>1, <2>1 DEF Reading
<1>4. ASSUME NEW i \in Good PROVE i + 1 \in Good
  <2>1. i \in Nat
    OBVIOUS
  <2>2. ASSUME i + 1 <= Len(lines) PROVE HasOrder(g[i + 1])
    <3>1. i + 1 \in 1..Len(lines) /\ (i + 1) - 1 = i /\ HasOrder(g[i])
      BY <1>2, <2>1, <2>2
    <3>2. g[i + 1] = ReadLine(g[(i + 1) - 1], lines[i + 1])
      BY <1>1, <3>1, Zenon DEF Reading
    <3>3. QED
      BY <3>1, <3>2, ReadLineHasOrder
  <2>3. QED
    BY <2>1, <2>2
<1>5. Good = Nat
  <2> HIDE DEF Good
  <2>1. Good \in SUBSET Nat
    BY DEF Good
  <2>2. QED
    BY <1>3, <1>4, <2>1, AllNats
<1>6. HasOrder(AllRead(lines))
  <2>1. HasOrder(Read(Fresh, lines))
    BY <1>1, <1>2, <1>5
  <2>2. QED
    BY <2>1, ClosedHasOrder DEF AllRead
<1>7. IsSeq(AllRead(lines).order)
  BY <1>6 DEF HasOrder, Reader
<1>8. PICK n \in Nat : n = Len(AllRead(lines).order)
  BY <1>7, SeqPlaces
<1>9. PICK c : c = ParseConf(lines)
  OBVIOUS
<1>10. c = [i \in 1..n |-> c[i]]
  BY <1>8, <1>9, ParsedIs
<1>11. Len(c) = n
  BY <1>8, <1>10, PlacesSeq
<1>12. ParseSavedSearches(lines) = [i \in 1..n |-> FromStanza(c[i][1], c[i][2])]
  BY <1>9, <1>11 DEF ParseSavedSearches
<1>13. PICK ss : ss = ParseSavedSearches(lines)
  OBVIOUS
<1>14. ss = [i \in 1..n |-> ss[i]]
  BY <1>12, <1>13
<1>15. QED
  BY <1>8, <1>13, <1>14, PlacesSeq

-----------------------------------------------------------------------------
(* What is written is a sequence of lines. *)

\* Attributes: pairs of a key and a sequence of lines.
AreAttrs(t) == IsSeq(t) /\ \A i \in 1..Len(t) : IsSeq(t[i][2])

\* Attributes after attributes are attributes.
LEMMA AttrsJoined == ASSUME NEW s, NEW t, AreAttrs(s), AreAttrs(t) PROVE AreAttrs(s \o t)
<1>1. /\ IsSeq(s \o t) /\ Len(s \o t) = Len(s) + Len(t)
      /\ \A i \in 1..Len(s) : (s \o t)[i] = s[i]
      /\ \A i \in 1..Len(t) : (s \o t)[Len(s) + i] = t[i]
  BY Joined DEF AreAttrs
<1>2. Len(s) \in Nat /\ Len(t) \in Nat
  BY SeqPlaces DEF AreAttrs
<1>3. ASSUME NEW i \in 1..Len(s \o t) PROVE IsSeq((s \o t)[i][2])
  <2>1. CASE i <= Len(s)
    <3>1. i \in 1..Len(s)
      BY <1>1, <1>2, <2>1
    <3>2. QED
      BY <1>1, <3>1 DEF AreAttrs
  <2>2. CASE ~(i <= Len(s))
    <3>1. PICK j \in 1..Len(t) : i = Len(s) + j
      <4>1. i - Len(s) \in 1..Len(t) /\ i = Len(s) + (i - Len(s))
        BY <1>1, <1>2, <2>2
      <4>2. QED
        BY <4>1
    <3>2. QED
      BY <1>1, <3>1 DEF AreAttrs
  <2>3. QED
    BY <2>1, <2>2
<1>4. QED
  BY <1>1, <1>3 DEF AreAttrs

\* The attribute a field gives, if it gives one, is attributes.
LEMMA GivenIsAttrs == ASSUME NEW k, NEW v, NEW is, IsSeq(v) PROVE AreAttrs(GivenAttr(k, v, is))
<1>1. PICK p : p = <<k, v>>
  OBVIOUS
<1>2. p[2] = v
  BY <1>1
<1>3. AreAttrs(<<p>>)
  <2>1. IsSeq(<<p>>) /\ Len(<<p>>) = 1 /\ <<p>>[1] = p
    BY ShortSeqs
  <2>2. QED
    BY <1>2, <2>1 DEF AreAttrs
<1>4. AreAttrs(<<>>)
  BY ShortSeqs DEF AreAttrs
<1>5. QED
  BY <1>1, <1>3, <1>4 DEF GivenAttr

\* What is written of a search: each of its attributes or nothing, in this order.
LEMMA StanzaIs ==
    ASSUME NEW s
    PROVE  ToStanza(s) =
             GivenAttr("search", s.spl, TRUE)
             \o GivenAttr("earliest", One(s.earliest), s.earliest # <<>>)
             \o GivenAttr("latest", One(s.latest), s.latest # <<>>)
             \o GivenAttr("cron", One(s.cron), s.cron # {})
             \o GivenAttr("enableSched", One(s.scheduled), TRUE)
             \o GivenAttr("disabled", One(TRUE), s.disabled)
             \o GivenAttr("regulator.skip", One(TRUE), s.skip)
             \o GivenAttr("regulator.weight", One(s.weight), s.weight # 0)
BY Zenon DEF ToStanza, GivenAttr

\* What to_stanza makes of a search is attributes.
LEMMA StanzaIsAttrs == ASSUME NEW s, IsSeq(s.spl) PROVE AreAttrs(ToStanza(s))
<1>1. \A x : IsSeq(One(x))
  BY ShortSeqs DEF One
<1>2. PICK p1 : p1 = GivenAttr("search", s.spl, TRUE)
  OBVIOUS
<1>3. PICK p2 : p2 = GivenAttr("earliest", One(s.earliest), s.earliest # <<>>)
  OBVIOUS
<1>4. PICK p3 : p3 = GivenAttr("latest", One(s.latest), s.latest # <<>>)
  OBVIOUS
<1>5. PICK p4 : p4 = GivenAttr("cron", One(s.cron), s.cron # {})
  OBVIOUS
<1>6. PICK p5 : p5 = GivenAttr("enableSched", One(s.scheduled), TRUE)
  OBVIOUS
<1>7. PICK p6 : p6 = GivenAttr("disabled", One(TRUE), s.disabled)
  OBVIOUS
<1>8. PICK p7 : p7 = GivenAttr("regulator.skip", One(TRUE), s.skip)
  OBVIOUS
<1>9. PICK p8 : p8 = GivenAttr("regulator.weight", One(s.weight), s.weight # 0)
  OBVIOUS
<1>10. /\ AreAttrs(p1) /\ AreAttrs(p2) /\ AreAttrs(p3) /\ AreAttrs(p4)
       /\ AreAttrs(p5) /\ AreAttrs(p6) /\ AreAttrs(p7) /\ AreAttrs(p8)
  BY <1>1, <1>2, <1>3, <1>4, <1>5, <1>6, <1>7, <1>8, <1>9, GivenIsAttrs
<1>11. ToStanza(s) = p1 \o p2 \o p3 \o p4 \o p5 \o p6 \o p7 \o p8
  BY <1>2, <1>3, <1>4, <1>5, <1>6, <1>7, <1>8, <1>9, StanzaIs
<1>12. QED
  BY <1>10, <1>11, AttrsJoined

\* A value's lines, and a stanza's.
LEMMA ValueIsSeq ==
    ASSUME NEW k, NEW v, IsSeq(v)
    PROVE  IsSeq(RenderValue(k, v)) /\ Len(RenderValue(k, v)) = Len(v)
<1>1. Len(v) \in Nat
  BY SeqPlaces
<1>2. PICK w : w = RenderValue(k, v)
  OBVIOUS
<1>3. w = [i \in 1..Len(v) |-> w[i]]
  BY <1>2 DEF RenderValue
<1>4. QED
  BY <1>1, <1>2, <1>3, PlacesSeq

Values(t) == [i \in 1..Len(t) |-> RenderValue(t[i][1], t[i][2])]

\* The lines of each value are a sequence.
LEMMA ValuesAreSeq ==
    ASSUME NEW t, AreAttrs(t)
    PROVE  /\ IsSeq(Values(t)) /\ Len(Values(t)) = Len(t)
           /\ \A i \in 1..Len(t) : Values(t)[i] = RenderValue(t[i][1], t[i][2]) /\ IsSeq(Values(t)[i])
<1>1. Len(t) \in Nat
  BY SeqPlaces DEF AreAttrs
<1>2. Values(t) = [i \in 1..Len(t) |-> Values(t)[i]]
  BY DEF Values
<1>3. \A i \in 1..Len(t) : Values(t)[i] = RenderValue(t[i][1], t[i][2])
  BY DEF Values
<1>4. QED
  BY <1>1, <1>2, <1>3, PlacesSeq, ValueIsSeq DEF AreAttrs

\* A stanza's lines are a sequence: its header, its values and a blank.
LEMMA StanzaIsSeq ==
    ASSUME NEW n, NEW t, AreAttrs(t)
    PROVE  /\ RenderStanza(n, t) = <<Stanza(n)>> \o FlattenSeq(Values(t)) \o <<Blank>>
           /\ IsSeq(FlattenSeq(Values(t))) /\ IsSeq(RenderStanza(n, t))
<1>1. RenderStanza(n, t) = <<Stanza(n)>> \o FlattenSeq(Values(t)) \o <<Blank>>
  BY DEF RenderStanza, Values
<1>2. IsSeq(FlattenSeq(Values(t)))
  BY ValuesAreSeq, FlatHas
<1>3. QED
  BY <1>1, <1>2, Joined, ShortSeqs

\* The last of the searches of one name.
LEMMA LastOfIs ==
    ASSUME NEW ss, IsSeq(ss), NEW n, ByName(ss, n) # {}
    PROVE  /\ LastOf(ss, n) \in ByName(ss, n) /\ LastOf(ss, n) \in 1..Len(ss)
           /\ \A j \in ByName(ss, n) : j <= LastOf(ss, n)
<1>1. Len(ss) \in Nat
  BY SeqPlaces
<1>2. PICK named : named = ByName(ss, n)
  OBVIOUS
<1>3. named \in SUBSET (1..Len(ss)) /\ named # {}
  BY <1>2 DEF ByName
<1>4. \E m \in named : \A k \in named : k <= m
  BY <1>1, <1>3, GreatestOfSome
<1>5. LastOf(ss, n) = CHOOSE i \in named : \A j \in named : j <= i
  BY <1>2 DEF LastOf
<1>6. QED
  BY <1>2, <1>3, <1>4, <1>5

\* The stanzas of some searches are some of them.
LEMMA StanzasAreSome ==
    ASSUME NEW ss, IsSeq(ss)
    PROVE  /\ IsSeq(Stanzas(ss))
           /\ \A k \in 1..Len(Stanzas(ss)) : \E i \in 1..Len(ss) : Stanzas(ss)[k] = ss[i]
<1>1. IsSeq(Firsts(ss)) /\ \A k \in 1..Len(Firsts(ss)) : \E i \in 1..Len(ss) : Firsts(ss)[k] = ss[i]
  <2>1. PICK places : places = {i \in 1..Len(ss) : \A j \in 1..(i - 1) : ss[j].name # ss[i].name}
    OBVIOUS
  <2>2. PICK firsts : firsts = KeptAt(ss, places)
    OBVIOUS
  <2>3. firsts = Firsts(ss)
    BY <2>1, <2>2, Zenon DEF Firsts
  <2>4. IsSeq(firsts) /\ \A k \in 1..Len(firsts) : \E i \in places \cap (1..Len(ss)) : firsts[k] = ss[i]
    BY <2>2, KeptHas
  <2>5. QED
    BY <2>3, <2>4
<1>2. Len(Firsts(ss)) \in Nat
  BY <1>1, SeqPlaces
<1>3. Stanzas(ss) = [k \in 1..Len(Firsts(ss)) |-> Stanzas(ss)[k]]
  BY DEF Stanzas
<1>4. IsSeq(Stanzas(ss)) /\ Len(Stanzas(ss)) = Len(Firsts(ss))
  BY <1>2, <1>3, PlacesSeq
<1>5. ASSUME NEW k \in 1..Len(Firsts(ss)) PROVE \E i \in 1..Len(ss) : Stanzas(ss)[k] = ss[i]
  <2>1. Stanzas(ss)[k] = ss[LastOf(ss, Firsts(ss)[k].name)]
    BY DEF Stanzas
  <2>2. PICK i \in 1..Len(ss) : Firsts(ss)[k] = ss[i]
    BY <1>1
  <2>3. i \in ByName(ss, Firsts(ss)[k].name)
    BY <2>2 DEF ByName
  <2>4. LastOf(ss, Firsts(ss)[k].name) \in 1..Len(ss)
    BY <2>3, LastOfIs
  <2>5. QED
    BY <2>1, <2>4
<1>6. QED
  BY <1>4, <1>5

\* A rendered file is a sequence of lines.
LEMMA RenderedAreSeq ==
    ASSUME NEW ss, IsSeq(ss), \A i \in 1..Len(ss) : IsSeq(ss[i].spl)
    PROVE  IsSeq(RenderSavedSearches(ss))
<1>1. PICK st : st = Stanzas(ss)
  OBVIOUS
<1>2. IsSeq(st) /\ \A k \in 1..Len(st) : IsSeq(st[k].spl)
  BY <1>1, StanzasAreSome
<1>3. Len(st) \in Nat
  BY <1>2, SeqPlaces
<1>4. PICK w : w = [i \in 1..Len(st) |-> RenderStanza(st[i].name, ToStanza(st[i]))]
  OBVIOUS
<1>5. IsSeq(w) /\ Len(w) = Len(st)
  <2>1. w = [i \in 1..Len(st) |-> w[i]]
    BY <1>4
  <2>2. QED
    BY <1>3, <2>1, PlacesSeq
<1>6. ASSUME NEW i \in 1..Len(w) PROVE IsSeq(w[i])
  <2>1. w[i] = RenderStanza(st[i].name, ToStanza(st[i])) /\ IsSeq(st[i].spl)
    BY <1>2, <1>4, <1>5
  <2>2. QED
    BY <2>1, StanzaIsAttrs, StanzaIsSeq
<1>7. RenderSavedSearches(ss) = FlattenSeq(w)
  BY <1>1, <1>4 DEF RenderSavedSearches
<1>8. QED
  BY <1>5, <1>6, <1>7, FlatHas


-----------------------------------------------------------------------------
(* One sequence after another, step by step. *)

\* What has been laid down after each of them.
Laid(h, ss) == h[0] = <<>> /\ \A i \in 1..Len(ss) : h[i] = h[i - 1] \o ss[i]

\* The empty sequence before another changes nothing, nor does one behind.
LEMMA EmptyFirst == ASSUME NEW s, IsSeq(s) PROVE <<>> \o s = s /\ s \o <<>> = s
<1>1. PICK S : s \in Seq(S)
  BY DEF IsSeq
<1>2. QED
  BY <1>1

\* There is such a function, and it ends with all of them.
LEMMA FlatIsLaid ==
    ASSUME NEW ss, IsSeq(ss), \A k \in 1..Len(ss) : IsSeq(ss[k])
    PROVE  \E h : Laid(h, ss) /\ FlattenSeq(ss) = h[Len(ss)]
<1>1. Len(ss) \in Nat
  BY SeqPlaces
<1>2. CASE ss = <<>>
  <2>1. PICK h : h = [i \in 0..0 |-> <<>>]
    OBVIOUS
  <2>2. h[0] = <<>> /\ Len(ss) = 0
    BY <1>2, <2>1, ShortSeqs
  <2>3. Laid(h, ss)
    BY <2>2 DEF Laid
  <2>4. QED
    BY <1>2, <2>2, <2>3, FlatIs
<1>3. CASE ss # <<>>
  <2>1. PICK g : Flat(g, ss) /\ FlattenSeq(ss) = g[Len(ss)]
    BY <1>3, FlatIs
  <2>2. PICK h : h = [i \in 0..Len(ss) |-> IF i = 0 THEN <<>> ELSE g[i]]
    OBVIOUS
  <2>3. ASSUME NEW i \in 1..Len(ss) PROVE h[i] = h[i - 1] \o ss[i]
    <3>1. h[i] = g[i]
      BY <1>1, <2>2
    <3>2. g[i] = IF i = 1 THEN ss[i] ELSE g[i - 1] \o ss[i]
      BY <2>1, Zenon DEF Flat
    <3>3. CASE i = 1
      <4>1. h[i - 1] = <<>>
        BY <1>1, <2>2, <3>3
      <4>2. <<>> \o ss[i] = ss[i]
        BY EmptyFirst
      <4>3. QED
        BY <3>1, <3>2, <3>3, <4>1, <4>2
    <3>4. CASE i # 1
      <4>1. i - 1 \in 0..Len(ss) /\ i - 1 # 0
        BY <1>1, <3>4
      <4>2. h[i - 1] = g[i - 1]
        BY <2>2, <4>1
      <4>3. QED
        BY <3>1, <3>2, <3>4, <4>2
    <3>5. QED
      BY <3>3, <3>4
  <2>4. h[0] = <<>>
    BY <1>1, <2>2
  <2>5. Len(ss) # 0
    BY <1>3, SeqPlaces
  <2>6. h[Len(ss)] = g[Len(ss)]
    BY <1>1, <2>2, <2>5
  <2>7. QED
    BY <2>1, <2>3, <2>4, <2>6 DEF Laid
<1>4. QED
  BY <1>2, <1>3

\* What has been laid down up to some place.
LaidUpto(h, ss, n) == \A i \in 1..n : h[i] = h[i - 1] \o ss[i]

\* Only one: what is laid down follows from what was there.
LEMMA LaidIsOne ==
    ASSUME NEW n \in Nat, NEW g, NEW h, g[0] = h[0], NEW ss, LaidUpto(g, ss, n), LaidUpto(h, ss, n)
    PROVE  g[n] = h[n]
<1> DEFINE Good == {i \in Nat : i <= n => g[i] = h[i]}
<1>1. 0 \in Good
  OBVIOUS
<1>2. ASSUME NEW i \in Good PROVE i + 1 \in Good
  <2>1. i \in Nat
    OBVIOUS
  <2>2. ASSUME i + 1 <= n PROVE g[i + 1] = h[i + 1]
    <3>1. i + 1 \in 1..n /\ (i + 1) - 1 = i /\ g[i] = h[i]
      BY <2>1, <2>2
    <3>2. g[i + 1] = g[(i + 1) - 1] \o ss[i + 1] /\ h[i + 1] = h[(i + 1) - 1] \o ss[i + 1]
      BY <3>1, Zenon DEF LaidUpto
    <3>3. QED
      BY <3>1, <3>2
  <2>3. QED
    BY <2>1, <2>2
<1>3. Good = Nat
  <2> HIDE DEF Good
  <2>1. Good \in SUBSET Nat
    BY DEF Good
  <2>2. QED
    BY <1>1, <1>2, <2>1, AllNats
<1>4. n \in Good
  <2> HIDE DEF Good
  <2> QED
    BY <1>3
<1>5. QED
  BY <1>4

\* One more at the end of them is one more at the end of the whole.
LEMMA FlatGrows ==
    ASSUME NEW ss, NEW x, IsSeq(ss), \A k \in 1..Len(ss) : IsSeq(ss[k]), IsSeq(x)
    PROVE  FlattenSeq(Append(ss, x)) = FlattenSeq(ss) \o x
<1>1. PICK tt : tt = Append(ss, x)
  OBVIOUS
<1>2. PICK n \in Nat : n = Len(ss)
  BY SeqPlaces
<1>3. IsSeq(tt) /\ Len(tt) = n + 1 /\ (\A i \in 1..n : tt[i] = ss[i]) /\ tt[n + 1] = x
  BY <1>1, <1>2, Appended
<1>4. ASSUME NEW k \in 1..Len(tt) PROVE IsSeq(tt[k])
  <2>1. k \in 1..n \/ k = n + 1
    BY <1>2, <1>3
  <2>2. QED
    BY <1>2, <1>3, <2>1
<1>5. PICK g : Laid(g, ss) /\ FlattenSeq(ss) = g[Len(ss)]
  BY FlatIsLaid
<1>6. PICK h : Laid(h, tt) /\ FlattenSeq(tt) = h[Len(tt)]
  BY <1>3, <1>4, FlatIsLaid
<1>7. \A i \in 1..n : g[i] = g[i - 1] \o ss[i]
  BY <1>2, <1>5, Zenon DEF Laid
<1>8. ASSUME NEW i \in 1..n PROVE h[i] = h[i - 1] \o ss[i]
  <2>1. i \in 1..Len(tt) /\ tt[i] = ss[i]
    BY <1>2, <1>3
  <2>2. h[i] = h[i - 1] \o tt[i]
    BY <1>6, <2>1, Zenon DEF Laid
  <2>3. QED
    BY <2>1, <2>2
<1>9. g[0] = h[0]
  BY <1>5, <1>6 DEF Laid
<1>10. g[n] = h[n]
  <2>1. LaidUpto(g, ss, n) /\ LaidUpto(h, ss, n)
    BY <1>7, <1>8 DEF LaidUpto
  <2>2. QED
    BY <1>9, <2>1, LaidIsOne
<1>11. h[n + 1] = h[(n + 1) - 1] \o tt[n + 1]
  <2>1. n + 1 \in 1..Len(tt)
    BY <1>2, <1>3
  <2>2. QED
    BY <1>6, <2>1, Zenon DEF Laid
<1>12. (n + 1) - 1 = n
  BY <1>2
<1>13. QED
  BY <1>1, <1>2, <1>3, <1>5, <1>6, <1>10, <1>11, <1>12

-----------------------------------------------------------------------------
(* What is written is read. *)

\* A value as the exporter has it: no line ends in a backslash, and the last of several is
\* not blank.
Clean(v) ==
    /\ IsSeq(v) /\ Len(v) # 0
    /\ \A j \in 1..Len(v) : v[j] = [text |-> v[j].text, tail |-> 0]
    /\ Len(v) > 1 => v[Len(v)] # [text |-> "", tail |-> 0]

\* Its first lines.
Start(v, i) == [j \in 1..i |-> v[j]]

\* They are all of it in the end, and grow by one line.
LEMMA StartGrows ==
    ASSUME NEW v, IsSeq(v), NEW i \in Nat
    PROVE  /\ Append(Start(v, i), v[i + 1]) = Start(v, i + 1) /\ <<v[1]>> = Start(v, 1)
           /\ Start(v, Len(v)) = v
<1>1. PICK s : s = Start(v, i)
  OBVIOUS
<1>2. s = [j \in 1..i |-> s[j]] /\ \A j \in 1..i : s[j] = v[j]
  BY <1>1 DEF Start
<1>3. IsSeq(s) /\ Len(s) = i
  BY <1>2, PlacesSeq
<1>4. PICK t : t = Append(s, v[i + 1])
  OBVIOUS
<1>5. IsSeq(t) /\ Len(t) = i + 1 /\ (\A j \in 1..i : t[j] = s[j]) /\ t[i + 1] = v[i + 1]
  BY <1>3, <1>4, Appended
<1>6. t = [j \in 1..(i + 1) |-> t[j]]
  BY <1>5, SeqPlaces
<1>7. \A j \in 1..(i + 1) : t[j] = v[j]
  <2>1. \A j \in 1..(i + 1) : j \in 1..i \/ j = i + 1
    OBVIOUS
  <2>2. QED
    BY <1>2, <1>5, <2>1
<1>8. t = Start(v, i + 1)
  BY <1>6, <1>7, Zenon DEF Start
<1>9. Start(v, Len(v)) = v
  BY SeqPlaces DEF Start
<1>10. <<v[1]>> = Start(v, 1)
  <2>1. PICK x : x = <<v[1]>>
    OBVIOUS
  <2>2. IsSeq(x) /\ Len(x) = 1 /\ x[1] = v[1]
    BY <2>1, ShortSeqs
  <2>3. x = [j \in 1..1 |-> x[j]]
    BY <2>2, SeqPlaces
  <2>4. \A j \in 1..1 : x[j] = v[j]
    BY <2>2
  <2>5. x = Start(v, 1)
    BY <2>3, <2>4, Zenon DEF Start
  <2>6. QED
    BY <2>1, <2>5
<1>11. QED
  BY <1>1, <1>4, <1>8, <1>9, <1>10

\* Nothing is stripped off it.
LEMMA CleanIsWhole == ASSUME NEW v, Clean(v) PROVE Stripped(v) = v
<1>1. Last(v) = v[Len(v)]
  BY DEF Last
<1>2. QED
  BY <1>1 DEF Stripped, Clean

\* Each of its lines, as it is written: all but the last go on, and what is kept of one is it.
LEMMA WrittenLine ==
    ASSUME NEW k, NEW v, Clean(v), NEW i \in 1..Len(v), NEW l, l = RenderValue(k, v)[i]
    PROVE  /\ ContinuesAt(l) <=> i < Len(v)
           /\ l.kind # "stanza"
           /\ i = 1 => l.name = k /\ PartOf(l) = v[i]
           /\ i # 1 => Swallow(l) = v[i]
<1>1. l = IF i = 1 THEN Attr(k, v[i].text, Continued(v, i)) ELSE More(v[i].text, Continued(v, i))
  BY DEF RenderValue
<1>2. v[i] = [text |-> v[i].text, tail |-> 0]
  BY DEF Clean
<1>3. v[i].tail = 0
  BY <1>2
<1>4. Len(v) \in Nat
  BY SeqPlaces DEF Clean
<1>5. Continued(v, i) = IF i < Len(v) THEN 1 ELSE 0
  BY <1>3, <1>4 DEF Continued
<1>6. CASE i = 1
  <2>1. l = [kind |-> "attr", name |-> k, text |-> v[i].text, tail |-> Continued(v, i)]
    BY <1>1, <1>6 DEF Attr
  <2>2. l.kind = "attr" /\ l.name = k /\ l.text = v[i].text /\ l.tail = Continued(v, i)
    BY <2>1
  <2>3. ContinuesAt(l) <=> i < Len(v)
    BY <1>5, <2>2 DEF ContinuesAt
  <2>4. PartOf(l) = [text |-> v[i].text, tail |-> 0]
    BY <1>5, <2>2 DEF PartOf, ContinuesAt
  <2>5. QED
    BY <1>2, <1>6, <2>2, <2>3, <2>4
<1>7. CASE i # 1
  <2>1. l = [kind |-> "more", name |-> NoName, text |-> v[i].text, tail |-> Continued(v, i)]
    BY <1>1, <1>7 DEF More
  <2>2. l.kind = "more" /\ l.text = v[i].text /\ l.tail = Continued(v, i)
    BY <2>1
  <2>3. ContinuesAt(l) <=> i < Len(v)
    BY <1>5, <2>2 DEF ContinuesAt
  <2>4. Swallow(l) = [text |-> v[i].text, tail |-> 0]
    BY <2>2 DEF Swallow
  <2>5. QED
    BY <1>2, <1>7, <2>2, <2>3, <2>4
<1>8. QED
  BY <1>6, <1>7

\* A value is read back, into the stanza it stands in.
LEMMA ValueIsRead ==
    ASSUME NEW st, NEW o, NEW a, NEW k0, NEW v0, NEW k, NEW v, k # NoName, Clean(v)
    PROVE  Read(Reader(st, o, a, k0, v0, Ended), RenderValue(k, v)) =
             Reader(GivenAt(st, a, k, v), o, a, k, v, Ended)
<1>1. PICK w : w = RenderValue(k, v)
  OBVIOUS
<1>2. IsSeq(v) /\ Len(v) # 0
  BY DEF Clean
<1>3. PICK n \in Nat : n = Len(v)
  BY <1>2, SeqPlaces
<1>4. IsSeq(w) /\ Len(w) = n
  BY <1>1, <1>2, <1>3, ValueIsSeq
<1>5. PICK r : r = Reader(st, o, a, k0, v0, Ended)
  OBVIOUS
<1>6. PICK g : Reading(g, r, w) /\ Read(r, w) = g[Len(w)]
  BY <1>4, ReadIsReading
<1>7. ASSUME NEW i \in Nat, i < n PROVE g[i + 1] = ReadLine(g[i], w[i + 1])
  <2>1. i + 1 \in 1..Len(w) /\ (i + 1) - 1 = i
    BY <1>4, <1>7
  <2>2. g[i + 1] = ReadLine(g[(i + 1) - 1], w[i + 1])
    BY <1>6, <2>1, Zenon DEF Reading
  <2>3. QED
    BY <2>1, <2>2
<1>8. g[0] = r
  BY <1>6 DEF Reading
<1> DEFINE Grown(i) == Reader(st, o, a, k, Start(v, i), Pending)
           Good == {i \in Nat : i < n => g[i + 1] = IF i + 1 < n THEN Grown(i + 1) ELSE Closed(Grown(i + 1))}
<1>9. 0 \in Good
  <2>1. PICK l : l = w[1]
    OBVIOUS
  <2>2. 1 \in 1..Len(v) /\ 0 < n /\ 0 + 1 = 1
    BY <1>2, <1>3
  <2>3. (ContinuesAt(l) <=> 1 < n) /\ l.kind # "stanza" /\ l.name = k /\ PartOf(l) = v[1]
    BY <1>1, <1>3, <2>1, <2>2, WrittenLine
  <2>4. PICK begun : begun = Reader(st, o, a, l.name, <<PartOf(l)>>, Pending)
    OBVIOUS
  <2>5. ReadLine(r, l) = IF ContinuesAt(l) THEN begun ELSE Closed(begun)
    BY <1>5, <2>3, <2>4, BeginsValue
  <2>6. <<v[1]>> = Start(v, 1)
    BY <1>2, StartGrows
  <2>7. begun = Grown(1)
    BY <2>3, <2>4, <2>6
  <2>8. g[0 + 1] = ReadLine(g[0], w[0 + 1])
    BY <1>7, <2>2
  <2>9. g[1] = IF 1 < n THEN Grown(1) ELSE Closed(Grown(1))
    <3> HIDE DEF Grown
    <3> QED
      BY <1>8, <2>1, <2>2, <2>3, <2>5, <2>7, <2>8
  <2> HIDE DEF Grown
  <2>10. QED
    BY <2>2, <2>9
<1>10. ASSUME NEW i \in Good PROVE i + 1 \in Good
  <2>1. i \in Nat
    OBVIOUS
  <2>2. ASSUME i + 1 < n
        PROVE  g[(i + 1) + 1] = IF (i + 1) + 1 < n THEN Grown((i + 1) + 1) ELSE Closed(Grown((i + 1) + 1))
    <3>1. PICK m \in Nat : m = (i + 1) + 1
      BY <2>1
    <3>2. PICK l : l = w[m]
      OBVIOUS
    <3>3. m \in 1..Len(v) /\ m # 1 /\ i + 1 \in Nat
      BY <1>3, <2>1, <2>2, <3>1
    <3>4. (ContinuesAt(l) <=> m < n) /\ Swallow(l) = v[m]
      BY <1>1, <1>3, <3>2, <3>3, WrittenLine
    <3>5. g[i + 1] = Grown(i + 1)
      <4> HIDE DEF Grown
      <4> QED
        BY <2>1, <2>2
    <3>6. PICK more : more = Reader(st, o, a, k, Append(Start(v, i + 1), Swallow(l)), Pending)
      OBVIOUS
    <3>7. ReadLine(Grown(i + 1), l) = IF ContinuesAt(l) THEN more ELSE Closed(more)
      BY <3>6, GoesOn
    <3>8. Append(Start(v, i + 1), v[(i + 1) + 1]) = Start(v, (i + 1) + 1)
      BY <1>2, <3>3, StartGrows
    <3>9. more = Grown(m)
      BY <3>1, <3>4, <3>6, <3>8
    <3>10. g[(i + 1) + 1] = ReadLine(g[i + 1], w[(i + 1) + 1])
      BY <1>7, <2>2, <3>3
    <3> HIDE DEF Grown
    <3>11. QED
      BY <3>1, <3>2, <3>4, <3>5, <3>7, <3>9, <3>10
  <2> HIDE DEF Grown
  <2>3. QED
    BY <2>1, <2>2
<1>11. Good = Nat
  <2> HIDE DEF Good
  <2>1. Good \in SUBSET Nat
    BY DEF Good
  <2>2. QED
    BY <1>9, <1>10, <2>1, AllNats
<1>12. PICK i \in Nat : n = i + 1
  <2>1. n - 1 \in Nat /\ n = (n - 1) + 1
    BY <1>2, <1>3
  <2>2. QED
    BY <2>1
<1>13. g[n] = Closed(Grown(n))
  <2>1. i \in Good
    <3> HIDE DEF Good
    <3> QED
      BY <1>11
  <2> HIDE DEF Grown
  <2>2. QED
    BY <1>12, <2>1
<1>14. Start(v, n) = v
  BY <1>2, <1>3, StartGrows
<1>15. Closed(Grown(n)) = Reader(GivenAt(st, a, k, v), o, a, k, v, Ended)
  BY <1>14, ClosedIs
<1>16. QED
  BY <1>1, <1>4, <1>5, <1>6, <1>13, <1>15

\* The lines of some attributes; keys with one more; a stanza's keys, when they are set.
Written(t) == FlattenSeq(Values(t))
WithKey(f, k, v) == Overlaid(f, [n \in {k} |-> v])
SetTo(st, a, f) == [st EXCEPT ![a] = f]

\* Stanza names, each with something.
IsMap(st) == st = [x \in DOMAIN st |-> st[x]]

\* Lines that give these keys to the stanza they stand in, when it has none yet.
Tells(lines, f) ==
    \A st, o, a, k, v : (IsMap(st) /\ a \in DOMAIN st /\ st[a] = NoKeys) =>
        \E k1, v1 : Read(Reader(st, o, a, k, v, Ended), lines) = Reader(SetTo(st, a, f), o, a, k1, v1, Ended)

\* No attributes have no values, and no lines.
LEMMA NothingWritten == Values(<<>>) = <<>> /\ Written(<<>>) = <<>>
<1>1. PICK w : w = Values(<<>>)
  OBVIOUS
<1>2. IsSeq(<<>>) /\ Len(<<>>) = 0
  BY ShortSeqs
<1>3. w = [i \in 1..0 |-> w[i]]
  BY <1>1, <1>2 DEF Values
<1>4. IsSeq(w) /\ Len(w) = 0
  BY <1>3, PlacesSeq
<1>5. w = <<>>
  <2>1. w \in Seq({w[i] : i \in DOMAIN w})
    BY <1>4 DEF IsSeq
  <2>2. QED
    BY <1>4, <2>1
<1>6. FlattenSeq(<<>>) = <<>>
  BY <1>2, FlatIs
<1>7. QED
  BY <1>1, <1>5, <1>6 DEF Written

\* No lines tell nothing.
LEMMA NothingTold == Tells(<<>>, NoKeys)
<1>1. SUFFICES ASSUME NEW st, NEW o, NEW a, NEW k, NEW v, IsMap(st), a \in DOMAIN st, st[a] = NoKeys
      PROVE  \E k1, v1 : Read(Reader(st, o, a, k, v, Ended), <<>>) = Reader(SetTo(st, a, NoKeys), o, a, k1, v1, Ended)
  BY DEF Tells
<1>2. SetTo(st, a, NoKeys) = st
  BY <1>1 DEF SetTo, IsMap
<1>3. Read(Reader(st, o, a, k, v, Ended), <<>>) = Reader(st, o, a, k, v, Ended)
  BY ReadNothing
<1>4. QED
  BY <1>2, <1>3

\* Lines and a value tell what the lines tell, and the value.
LEMMA ValueIsTold ==
    ASSUME NEW lines, NEW f, NEW k, NEW v, IsSeq(lines), Tells(lines, f), k # NoName, Clean(v)
    PROVE  Tells(lines \o RenderValue(k, v), WithKey(f, k, v))
<1>1. SUFFICES ASSUME NEW st, NEW o, NEW a, NEW k0, NEW v0, IsMap(st), a \in DOMAIN st, st[a] = NoKeys
      PROVE  \E k1, v1 : Read(Reader(st, o, a, k0, v0, Ended), lines \o RenderValue(k, v)) =
                           Reader(SetTo(st, a, WithKey(f, k, v)), o, a, k1, v1, Ended)
  BY DEF Tells
<1>2. PICK k1, v1 : Read(Reader(st, o, a, k0, v0, Ended), lines) = Reader(SetTo(st, a, f), o, a, k1, v1, Ended)
  BY <1>1 DEF Tells
<1>3. IsSeq(RenderValue(k, v))
  BY ValueIsSeq DEF Clean
<1>4. PICK r : r = Reader(st, o, a, k0, v0, Ended)
  OBVIOUS
<1>5. Read(r, lines \o RenderValue(k, v)) = Read(Read(r, lines), RenderValue(k, v))
  BY <1>3, ReadTwo
<1>6. Read(Reader(SetTo(st, a, f), o, a, k1, v1, Ended), RenderValue(k, v)) =
        Reader(GivenAt(SetTo(st, a, f), a, k, v), o, a, k, v, Ended)
  BY ValueIsRead
<1>7. GivenAt(SetTo(st, a, f), a, k, v) = SetTo(st, a, WithKey(f, k, v))
  <2>1. PICK s1 : s1 = SetTo(st, a, f)
    OBVIOUS
  <2>2. s1[a] = f /\ IsMap(s1) /\ DOMAIN s1 = DOMAIN st
    BY <1>1, <2>1 DEF SetTo, IsMap
  <2>3. PICK new : new = WithKey(f, k, v)
    OBVIOUS
  <2>4. GivenAt(s1, a, k, v) = [s1 EXCEPT ![a] = new]
    BY <2>2, <2>3, CleanIsWhole DEF GivenAt, WithKey
  <2>5. [s1 EXCEPT ![a] = new] = [st EXCEPT ![a] = new]
    BY <1>1, <2>1 DEF SetTo, IsMap
  <2>6. QED
    BY <2>1, <2>3, <2>4, <2>5 DEF SetTo
<1>8. QED
  BY <1>2, <1>4, <1>5, <1>6, <1>7

\* One attribute more is its value's lines more.
LEMMA WrittenGrows ==
    ASSUME NEW t, NEW k, NEW v, AreAttrs(t), IsSeq(v), NEW p, p = <<k, v>>
    PROVE  AreAttrs(t \o <<p>>) /\ Written(t \o <<p>>) = Written(t) \o RenderValue(k, v)
<1>1. p[1] = k /\ p[2] = v
  OBVIOUS
<1>2. IsSeq(<<p>>) /\ Len(<<p>>) = 1 /\ <<p>>[1] = p
  BY ShortSeqs
<1>3. PICK u : u = t \o <<p>>
  OBVIOUS
<1>4. PICK n \in Nat : n = Len(t)
  BY SeqPlaces DEF AreAttrs
<1>5. IsSeq(u) /\ Len(u) = n + 1 /\ (\A i \in 1..n : u[i] = t[i]) /\ u[n + 1] = p
  <2>0. IsSeq(t)
    BY DEF AreAttrs
  <2>1. PICK q : q = <<p>> /\ IsSeq(q) /\ Len(q) = 1 /\ q[1] = p
    BY <1>2
  <2>2. /\ IsSeq(t \o q) /\ Len(t \o q) = Len(t) + Len(q)
        /\ \A i \in 1..Len(t) : (t \o q)[i] = t[i]
        /\ \A i \in 1..Len(q) : (t \o q)[Len(t) + i] = q[i]
    BY <2>0, <2>1, Joined
  <2>3. /\ IsSeq(u) /\ Len(u) = Len(t) + Len(q)
        /\ \A i \in 1..Len(t) : u[i] = t[i]
        /\ \A i \in 1..Len(q) : u[Len(t) + i] = q[i]
    BY <1>3, <2>1, <2>2
  <2>4. 1 \in 1..Len(q)
    BY <2>1
  <2>5. u[Len(t) + 1] = q[1]
    BY <2>3, <2>4
  <2>6. QED
    BY <1>4, <2>1, <2>3, <2>5
<1>6. AreAttrs(u)
  <2>1. \A i \in 1..Len(u) : i \in 1..n \/ i = n + 1
    BY <1>5
  <2>2. QED
    BY <1>1, <1>4, <1>5, <2>1 DEF AreAttrs
<1>7. PICK w : w = Append(Values(t), RenderValue(k, v))
  OBVIOUS
<1>8. /\ IsSeq(Values(t)) /\ Len(Values(t)) = n
      /\ \A i \in 1..n : Values(t)[i] = RenderValue(t[i][1], t[i][2]) /\ IsSeq(Values(t)[i])
  BY <1>4, ValuesAreSeq
<1>9. /\ IsSeq(w) /\ Len(w) = n + 1 /\ (\A i \in 1..n : w[i] = Values(t)[i])
      /\ w[n + 1] = RenderValue(k, v)
  BY <1>7, <1>8, Appended
<1>10. w = Values(u)
  <2>1. w = [i \in 1..(n + 1) |-> w[i]]
    BY <1>9, SeqPlaces
  <2>2. ASSUME NEW i \in 1..(n + 1) PROVE w[i] = RenderValue(u[i][1], u[i][2])
    <3>1. CASE i \in 1..n
      BY <1>5, <1>8, <1>9, <3>1
    <3>2. CASE i = n + 1
      BY <1>1, <1>5, <1>9, <3>2
    <3>3. QED
      BY <3>1, <3>2
  <2>3. Values(u) = [i \in 1..(n + 1) |-> RenderValue(u[i][1], u[i][2])]
    BY <1>5 DEF Values
  <2>4. QED
    BY <2>1, <2>2, <2>3
<1>11. FlattenSeq(w) = FlattenSeq(Values(t)) \o RenderValue(k, v)
  <2>1. IsSeq(RenderValue(k, v))
    BY ValueIsSeq
  <2>2. \A i \in 1..Len(Values(t)) : IsSeq(Values(t)[i])
    BY <1>8
  <2>3. QED
    BY <1>7, <1>8, <2>1, <2>2, FlatGrows
<1>12. QED
  BY <1>3, <1>6, <1>10, <1>11 DEF Written

\* Keys with one more, when it is given and says something.
Added(f1, f, k, v, is) ==
    /\ \A x : x # k => (x \in DOMAIN f1 <=> x \in DOMAIN f) /\ (x \in DOMAIN f => f1[x] = f[x])
    /\ is /\ v # <<>> => k \in DOMAIN f1 /\ f1[k] = v
    /\ ~(is /\ v # <<>>) => (k \in DOMAIN f1 <=> k \in DOMAIN f)

\* A sequence of no length is the empty one.
LEMMA OnlyEmpty == ASSUME NEW w, IsSeq(w), Len(w) = 0 PROVE w = <<>>
<1>1. w \in Seq({w[i] : i \in DOMAIN w})
  BY DEF IsSeq
<1>2. QED
  BY <1>1

\* An attribute more is told, when it is given.
LEMMA AttrIsTold ==
    ASSUME NEW t, NEW f, NEW k, NEW v, NEW is, NEW q, q = GivenAttr(k, v, is),
           AreAttrs(t), Tells(Written(t), f), k # NoName, v = <<>> \/ Clean(v)
    PROVE  AreAttrs(t \o q) /\ \E f1 : Tells(Written(t \o q), f1) /\ Added(f1, f, k, v, is)
<1>1. IsSeq(v)
  BY ShortSeqs DEF Clean
<1>2. CASE ~is
  <2>1. q = <<>>
    BY <1>2 DEF GivenAttr
  <2>2. t \o q = t
    BY <2>1, EmptyFirst DEF AreAttrs
  <2>3. Added(f, f, k, v, is)
    BY <1>2 DEF Added
  <2>4. QED
    BY <2>2, <2>3
<1>3. CASE is
  <2>1. PICK p : p = <<k, v>>
    OBVIOUS
  <2>2. q = <<p>>
    BY <1>3, <2>1 DEF GivenAttr
  <2>3. AreAttrs(t \o q) /\ Written(t \o q) = Written(t) \o RenderValue(k, v)
    BY <1>1, <2>1, <2>2, WrittenGrows
  <2>4. IsSeq(Written(t))
    BY ValuesAreSeq, FlatHas DEF Written
  <2>5. CASE v = <<>>
    <3>1. RenderValue(k, v) = <<>>
      <4>1. Len(v) = 0
        BY <2>5, ShortSeqs
      <4>2. IsSeq(RenderValue(k, v)) /\ Len(RenderValue(k, v)) = 0
        BY <1>1, <4>1, ValueIsSeq
      <4>3. QED
        BY <4>2, OnlyEmpty
    <3>2. Written(t \o q) = Written(t)
      BY <2>3, <2>4, <3>1, EmptyFirst
    <3>3. Added(f, f, k, v, is)
      BY <2>5 DEF Added
    <3>4. QED
      BY <2>3, <3>2, <3>3
  <2>6. CASE Clean(v) /\ v # <<>>
    <3>1. Tells(Written(t \o q), WithKey(f, k, v))
      BY <2>3, <2>4, <2>6, ValueIsTold
    <3>2. PICK f1 : f1 = WithKey(f, k, v)
      OBVIOUS
    <3>3. Added(f1, f, k, v, is)
      <4>1. f1 = [x \in DOMAIN f \cup {k} |-> IF x \in {k} THEN v ELSE f[x]]
        BY <3>2 DEF WithKey, Overlaid
      <4>2. QED
        BY <1>3, <2>6, <4>1 DEF Added
    <3>4. QED
      BY <2>3, <3>1, <3>2, <3>3
  <2>7. QED
    BY <2>5, <2>6
<1>4. QED
  BY <1>2, <1>3

\* A search that can be written and read back.
IsSearch(s) ==
    /\ s = [name |-> s.name, spl |-> s.spl, earliest |-> s.earliest, latest |-> s.latest, cron |-> s.cron,
            scheduled |-> s.scheduled, disabled |-> s.disabled, skip |-> s.skip, weight |-> s.weight]
    /\ s.scheduled \in BOOLEAN /\ s.disabled \in BOOLEAN /\ s.skip \in BOOLEAN
    /\ s.spl = <<>> \/ Clean(s.spl)

\* A value of one line is clean.
LEMMA OneIsClean == ASSUME NEW x PROVE Clean(One(x)) /\ One(x) # <<>> /\ One(x)[1].text = x
<1>1. PICK l : l = [text |-> x, tail |-> 0]
  OBVIOUS
<1>2. PICK v : v = <<l>>
  OBVIOUS
<1>3. v = One(x)
  BY <1>1, <1>2 DEF One
<1>4. IsSeq(v) /\ Len(v) = 1 /\ v[1] = l
  BY <1>2, ShortSeqs
<1>5. l.text = x /\ l = [text |-> l.text, tail |-> 0]
  BY <1>1
<1>6. \A j \in 1..Len(v) : v[j] = l
  BY <1>4
<1>7. Clean(v)
  BY <1>4, <1>5, <1>6 DEF Clean
<1>8. v # <<>>
  BY <1>4, ShortSeqs
<1>9. QED
  BY <1>3, <1>4, <1>5, <1>7, <1>8

\* What a stanza has for a key, if it has it.
SaysOf(f, k, v, is) == (k \in DOMAIN f <=> is) /\ (is => f[k] = v)

\* What is said of a search.
SaidOf(f, s) ==
    /\ SaysOf(f, "search", s.spl, s.spl # <<>>)
    /\ SaysOf(f, "earliest", One(s.earliest), s.earliest # <<>>)
    /\ SaysOf(f, "latest", One(s.latest), s.latest # <<>>)
    /\ SaysOf(f, "cron", One(s.cron), s.cron # {})
    /\ SaysOf(f, "enableSched", One(s.scheduled), TRUE)
    /\ SaysOf(f, "disabled", One(TRUE), s.disabled)
    /\ SaysOf(f, "regulator.skip", One(TRUE), s.skip)
    /\ SaysOf(f, "regulator.weight", One(s.weight), s.weight # 0)

\* The stanza of a search says all of it.
LEMMA StanzaIsTold ==
    ASSUME NEW s, IsSearch(s), NoName \notin StanzaKeys
    PROVE  AreAttrs(ToStanza(s)) /\ \E f : Tells(Written(ToStanza(s)), f) /\ SaidOf(f, s)
<1>1. \A x : Clean(One(x)) /\ One(x) # <<>>
  BY OneIsClean
<1>2. s.spl = <<>> \/ Clean(s.spl)
  BY DEF IsSearch
<1>3. PICK q1 : q1 = GivenAttr("search", s.spl, TRUE)
  OBVIOUS
<1>4. PICK q2 : q2 = GivenAttr("earliest", One(s.earliest), s.earliest # <<>>)
  OBVIOUS
<1>5. PICK q3 : q3 = GivenAttr("latest", One(s.latest), s.latest # <<>>)
  OBVIOUS
<1>6. PICK q4 : q4 = GivenAttr("cron", One(s.cron), s.cron # {})
  OBVIOUS
<1>7. PICK q5 : q5 = GivenAttr("enableSched", One(s.scheduled), TRUE)
  OBVIOUS
<1>8. PICK q6 : q6 = GivenAttr("disabled", One(TRUE), s.disabled)
  OBVIOUS
<1>9. PICK q7 : q7 = GivenAttr("regulator.skip", One(TRUE), s.skip)
  OBVIOUS
<1>10. PICK q8 : q8 = GivenAttr("regulator.weight", One(s.weight), s.weight # 0)
  OBVIOUS
<1>11. ToStanza(s) = q1 \o q2 \o q3 \o q4 \o q5 \o q6 \o q7 \o q8
  BY <1>3, <1>4, <1>5, <1>6, <1>7, <1>8, <1>9, <1>10, StanzaIs
<1>12. AreAttrs(<<>>) /\ Tells(Written(<<>>), NoKeys) /\ DOMAIN NoKeys = {}
  BY ShortSeqs, NothingWritten, NothingTold DEF AreAttrs, NoKeys
<1>13. IsSeq(q1) /\ <<>> \o q1 = q1
  <2>1. IsSeq(s.spl)
    BY <1>2, ShortSeqs DEF Clean
  <2>2. AreAttrs(q1)
    BY <1>3, <2>1, GivenIsAttrs
  <2>3. IsSeq(q1)
    BY <2>2 DEF AreAttrs
  <2>4. QED
    BY <2>3, EmptyFirst
<1>14. PICK t1 : t1 = <<>> \o q1
  OBVIOUS
<1>15. "search" # NoName
  BY DEF StanzaKeys
<1>16. AreAttrs(t1) /\ \E f : Tells(Written(t1), f) /\ Added(f, NoKeys, "search", s.spl, TRUE)
  BY <1>1, <1>2, <1>3, <1>12, <1>14, <1>15, AttrIsTold
<1>17. PICK f1 : Tells(Written(t1), f1) /\ Added(f1, NoKeys, "search", s.spl, TRUE)
  BY <1>16
<1>18. PICK t2 : t2 = t1 \o q2
  OBVIOUS
<1>19. "earliest" # NoName
  BY DEF StanzaKeys
<1>20. AreAttrs(t2) /\ \E f : Tells(Written(t2), f) /\ Added(f, f1, "earliest", One(s.earliest), s.earliest # <<>>)
  BY <1>1, <1>2, <1>4, <1>12, <1>16, <1>17, <1>18, <1>19, AttrIsTold
<1>21. PICK f2 : Tells(Written(t2), f2) /\ Added(f2, f1, "earliest", One(s.earliest), s.earliest # <<>>)
  BY <1>20
<1>22. PICK t3 : t3 = t2 \o q3
  OBVIOUS
<1>23. "latest" # NoName
  BY DEF StanzaKeys
<1>24. AreAttrs(t3) /\ \E f : Tells(Written(t3), f) /\ Added(f, f2, "latest", One(s.latest), s.latest # <<>>)
  BY <1>1, <1>2, <1>5, <1>12, <1>20, <1>21, <1>22, <1>23, AttrIsTold
<1>25. PICK f3 : Tells(Written(t3), f3) /\ Added(f3, f2, "latest", One(s.latest), s.latest # <<>>)
  BY <1>24
<1>26. PICK t4 : t4 = t3 \o q4
  OBVIOUS
<1>27. "cron" # NoName
  BY DEF StanzaKeys
<1>28. AreAttrs(t4) /\ \E f : Tells(Written(t4), f) /\ Added(f, f3, "cron", One(s.cron), s.cron # {})
  BY <1>1, <1>2, <1>6, <1>12, <1>24, <1>25, <1>26, <1>27, AttrIsTold
<1>29. PICK f4 : Tells(Written(t4), f4) /\ Added(f4, f3, "cron", One(s.cron), s.cron # {})
  BY <1>28
<1>30. PICK t5 : t5 = t4 \o q5
  OBVIOUS
<1>31. "enableSched" # NoName
  BY DEF StanzaKeys
<1>32. AreAttrs(t5) /\ \E f : Tells(Written(t5), f) /\ Added(f, f4, "enableSched", One(s.scheduled), TRUE)
  BY <1>1, <1>2, <1>7, <1>12, <1>28, <1>29, <1>30, <1>31, AttrIsTold
<1>33. PICK f5 : Tells(Written(t5), f5) /\ Added(f5, f4, "enableSched", One(s.scheduled), TRUE)
  BY <1>32
<1>34. PICK t6 : t6 = t5 \o q6
  OBVIOUS
<1>35. "disabled" # NoName
  BY DEF StanzaKeys
<1>36. AreAttrs(t6) /\ \E f : Tells(Written(t6), f) /\ Added(f, f5, "disabled", One(TRUE), s.disabled)
  BY <1>1, <1>2, <1>8, <1>12, <1>32, <1>33, <1>34, <1>35, AttrIsTold
<1>37. PICK f6 : Tells(Written(t6), f6) /\ Added(f6, f5, "disabled", One(TRUE), s.disabled)
  BY <1>36
<1>38. PICK t7 : t7 = t6 \o q7
  OBVIOUS
<1>39. "regulator.skip" # NoName
  BY DEF StanzaKeys
<1>40. AreAttrs(t7) /\ \E f : Tells(Written(t7), f) /\ Added(f, f6, "regulator.skip", One(TRUE), s.skip)
  BY <1>1, <1>2, <1>9, <1>12, <1>36, <1>37, <1>38, <1>39, AttrIsTold
<1>41. PICK f7 : Tells(Written(t7), f7) /\ Added(f7, f6, "regulator.skip", One(TRUE), s.skip)
  BY <1>40
<1>42. PICK t8 : t8 = t7 \o q8
  OBVIOUS
<1>43. "regulator.weight" # NoName
  BY DEF StanzaKeys
<1>44. AreAttrs(t8) /\ \E f : Tells(Written(t8), f) /\ Added(f, f7, "regulator.weight", One(s.weight), s.weight # 0)
  BY <1>1, <1>2, <1>10, <1>12, <1>40, <1>41, <1>42, <1>43, AttrIsTold
<1>45. PICK f8 : Tells(Written(t8), f8) /\ Added(f8, f7, "regulator.weight", One(s.weight), s.weight # 0)
  BY <1>44
<1>46. ToStanza(s) = t8
  BY <1>11, <1>13, <1>14, <1>18, <1>22, <1>26, <1>30, <1>34, <1>38, <1>42
<1>47. SaysOf(f8, "search", s.spl, s.spl # <<>>)
  BY <1>1, <1>12, <1>17, <1>21, <1>25, <1>29, <1>33, <1>37, <1>41, <1>45 DEF Added, SaysOf
<1>48. SaysOf(f8, "earliest", One(s.earliest), s.earliest # <<>>)
  BY <1>1, <1>12, <1>17, <1>21, <1>25, <1>29, <1>33, <1>37, <1>41, <1>45 DEF Added, SaysOf
<1>49. SaysOf(f8, "latest", One(s.latest), s.latest # <<>>)
  BY <1>1, <1>12, <1>17, <1>21, <1>25, <1>29, <1>33, <1>37, <1>41, <1>45 DEF Added, SaysOf
<1>50. SaysOf(f8, "cron", One(s.cron), s.cron # {})
  BY <1>1, <1>12, <1>17, <1>21, <1>25, <1>29, <1>33, <1>37, <1>41, <1>45 DEF Added, SaysOf
<1>51. SaysOf(f8, "enableSched", One(s.scheduled), TRUE)
  BY <1>1, <1>12, <1>17, <1>21, <1>25, <1>29, <1>33, <1>37, <1>41, <1>45 DEF Added, SaysOf
<1>52. SaysOf(f8, "disabled", One(TRUE), s.disabled)
  <2>1. "disabled" \notin DOMAIN f5
    BY <1>12, <1>17, <1>21, <1>25, <1>29, <1>33 DEF Added
  <2>2. SaysOf(f6, "disabled", One(TRUE), s.disabled)
    BY <1>1, <1>37, <2>1 DEF Added, SaysOf
  <2>3. QED
    BY <1>41, <1>45, <2>2 DEF Added, SaysOf
<1>53. SaysOf(f8, "regulator.skip", One(TRUE), s.skip)
  <2>1. "regulator.skip" \notin DOMAIN f6
    BY <1>12, <1>17, <1>21, <1>25, <1>29, <1>33, <1>37 DEF Added
  <2>2. SaysOf(f7, "regulator.skip", One(TRUE), s.skip)
    BY <1>1, <1>41, <2>1 DEF Added, SaysOf
  <2>3. QED
    BY <1>45, <2>2 DEF Added, SaysOf
<1>54. SaysOf(f8, "regulator.weight", One(s.weight), s.weight # 0)
  <2>1. "regulator.weight" \notin DOMAIN f7
    BY <1>12, <1>17, <1>21, <1>25, <1>29, <1>33, <1>37, <1>41 DEF Added
  <2>2. QED
    BY <1>1, <1>45, <2>1 DEF Added, SaysOf
<1>55. SaidOf(f8, s)
  BY <1>47, <1>48, <1>49, <1>50, <1>51, <1>52, <1>53, <1>54 DEF SaidOf
<1>56. QED
  BY <1>46, <1>55, <1>44, <1>45

\* What is read of a stanza that says all of a search is the search.
LEMMA SearchIsBack ==
    ASSUME NEW s, IsSearch(s), NEW f, SaidOf(f, s), NEW c, c = Overlaid(NoKeys, f)
    PROVE  FromStanza(s.name, c) = s
<1>1. DOMAIN c = DOMAIN f /\ \A k \in DOMAIN f : c[k] = f[k]
  BY DEF Overlaid, NoKeys
<1>2. ASSUME NEW k, NEW v, NEW is, SaysOf(f, k, v, is) PROVE SaysOf(c, k, v, is)
  BY <1>1, <1>2 DEF SaysOf
<1>3. \A x : One(x)[1].text = x
  BY OneIsClean
<1>4. (IF "search" \in DOMAIN c THEN c["search"] ELSE <<>>) = s.spl
  BY <1>1 DEF SaidOf, SaysOf
<1>5. Get(c, "earliest", <<>>) = s.earliest
  BY <1>1, <1>3 DEF SaidOf, SaysOf, Get
<1>6. Get(c, "latest", <<>>) = s.latest
  BY <1>1, <1>3 DEF SaidOf, SaysOf, Get
<1>7. Get(c, "cron", {}) = s.cron
  <2>1. CASE s.cron = {}
    <3>1. "cron" \notin DOMAIN c
      BY <1>1, <2>1 DEF SaidOf, SaysOf
    <3>2. QED
      BY <2>1, <3>1 DEF Get
  <2>2. CASE s.cron # {}
    <3>1. "cron" \in DOMAIN c /\ c["cron"] = One(s.cron)
      BY <1>1, <2>2 DEF SaidOf, SaysOf
    <3>2. QED
      BY <1>3, <3>1 DEF Get
  <2>3. QED
    BY <2>1, <2>2
<1>8. Get(c, "enableSched", FALSE) = s.scheduled
  BY <1>1, <1>3 DEF SaidOf, SaysOf, Get, IsSearch
<1>9. Get(c, "disabled", FALSE) = s.disabled
  BY <1>1, <1>3 DEF SaidOf, SaysOf, Get, IsSearch
<1>10. Get(c, "regulator.skip", FALSE) = s.skip
  BY <1>1, <1>3 DEF SaidOf, SaysOf, Get, IsSearch
<1>11. Get(c, "regulator.weight", 0) = s.weight
  BY <1>1, <1>3 DEF SaidOf, SaysOf, Get
<1>12. QED
  BY <1>4, <1>5, <1>6, <1>7, <1>8, <1>9, <1>10, <1>11 DEF FromStanza, IsSearch

\* After some lines, the reader stands in a stanza, with these stanzas.
ReadsAs(r, lines, st, o, a) == \E k, v : Read(r, lines) = Reader(st, o, a, k, v, Ended)

\* A stanza is read back: its name is the last one, and its keys are its own.
LEMMA StanzaIsRead ==
    ASSUME NEW st, NEW o, NEW a, NEW k, NEW v, NEW n, NEW t, NEW f,
           IsMap(st), n \notin DOMAIN st, AreAttrs(t), Tells(Written(t), f)
    PROVE  ReadsAs(Reader(st, o, a, k, v, Ended), RenderStanza(n, t),
                   SetTo(Begun(st, n), n, f), Append(o, n), n)
<1>1. PICK r : r = Reader(st, o, a, k, v, Ended)
  OBVIOUS
<1>2. /\ RenderStanza(n, t) = <<Stanza(n)>> \o Written(t) \o <<Blank>>
      /\ IsSeq(Written(t))
  BY StanzaIsSeq DEF Written
<1>3. PICK l : l = Stanza(n)
  OBVIOUS
<1>4. IsSeq(<<l>>) /\ IsSeq(<<Blank>>)
  BY ShortSeqs
<1>5. PICK head : head = <<l>> \o Written(t)
  OBVIOUS
<1>6. IsSeq(head)
  BY <1>2, <1>4, <1>5, Joined
<1>7. Read(r, RenderStanza(n, t)) = ReadLine(Read(r, head), Blank)
  <2>1. RenderStanza(n, t) = head \o <<Blank>>
    BY <1>2, <1>3, <1>5
  <2>2. Read(r, head \o <<Blank>>) = Read(Read(r, head), <<Blank>>)
    BY <1>4, <1>6, ReadTwo
  <2>3. QED
    BY <2>1, <2>2, ReadOne
<1>8. Read(r, head) = Read(ReadLine(r, l), Written(t))
  <2>1. Read(r, <<l>> \o Written(t)) = Read(Read(r, <<l>>), Written(t))
    BY <1>2, <1>4, ReadTwo
  <2>2. QED
    BY <1>5, <2>1, ReadOne
<1>9. ReadLine(r, l) = Reader(Begun(st, n), Append(o, n), n, k, v, Ended)
  <2>1. l.kind = "stanza" /\ l.name = n
    BY <1>3 DEF Stanza
  <2>2. ReadLine(r, l) = Reader(Begun(st, l.name), Named(st, o, l.name), l.name, k, v, Ended)
    BY <1>1, <2>1, BeginsStanza
  <2>3. Named(st, o, n) = Append(o, n)
    BY DEF Named
  <2>4. QED
    BY <2>1, <2>2, <2>3
<1>10. PICK sb : sb = Begun(st, n)
  OBVIOUS
<1>11. IsMap(sb) /\ n \in DOMAIN sb /\ sb[n] = NoKeys
  BY <1>10 DEF Begun, Overlaid, IsMap
<1>12. PICK k1, v1 : Read(Reader(sb, Append(o, n), n, k, v, Ended), Written(t)) =
                       Reader(SetTo(sb, n, f), Append(o, n), n, k1, v1, Ended)
  BY <1>11, Zenon DEF Tells
<1>13. PICK stanzas, order : stanzas = SetTo(sb, n, f) /\ order = Append(o, n)
  OBVIOUS
<1>14. Read(r, head) = Reader(stanzas, order, n, k1, v1, Ended)
  BY <1>8, <1>9, <1>10, <1>12, <1>13
<1>15. PICK part : part = <<PartOf(Blank)>>
  OBVIOUS
<1>16. ReadLine(Reader(stanzas, order, n, k1, v1, Ended), Blank) = Reader(stanzas, order, n, NoName, part, Ended)
  <2>1. PICK b : b = Blank
    OBVIOUS
  <2>2. b.kind = "more" /\ b.name = NoName /\ b.tail = 0
    BY <2>1 DEF Blank, More
  <2>3. ~ContinuesAt(b) /\ b.kind # "stanza"
    BY <2>2 DEF ContinuesAt
  <2>4. PICK fresh : fresh = Reader(stanzas, order, n, b.name, <<PartOf(b)>>, Pending)
    OBVIOUS
  <2>5. ReadLine(Reader(stanzas, order, n, k1, v1, Ended), b) = IF ContinuesAt(b) THEN fresh ELSE Closed(fresh)
    BY <2>3, <2>4, BeginsValue
  <2>6. fresh = Reader(stanzas, order, n, NoName, part, Pending)
    BY <1>15, <2>1, <2>2, <2>4
  <2>7. Closed(fresh) = Reader(stanzas, order, n, NoName, part, Ended)
    BY <2>6, ClosedIs
  <2>8. QED
    BY <2>1, <2>3, <2>5, <2>7
<1>17. QED
  BY <1>1, <1>7, <1>10, <1>13, <1>14, <1>16 DEF ReadsAs

\* What the reader has after the stanzas of the first searches.
HasRead(st, o, e, i) ==
    /\ IsMap(st) /\ DOMAIN st = {"default"} \cup {e[j].name : j \in 1..i} /\ st["default"] = NoKeys
    /\ \A j \in 1..i : SaidOf(st[e[j].name], e[j])
    /\ IsSeq(o) /\ Len(o) = i /\ \A j \in 1..i : o[j] = e[j].name
After(r, e, i) == \E st, o, a, k, v : r = Reader(st, o, a, k, v, Ended) /\ HasRead(st, o, e, i)

\* Searches the file can hold: none is called as the stanza of everyone's defaults.
Exportable(e) ==
    /\ IsSeq(e) /\ \A i \in 1..Len(e) : IsSearch(e[i]) /\ e[i].name # "default"
    /\ \A i, j \in 1..Len(e) : e[i].name = e[j].name => i = j

\* One stanza more is one search more.
LEMMA OneMore ==
    ASSUME NEW e, Exportable(e), NoName \notin StanzaKeys, NEW i \in Nat, i + 1 \in 1..Len(e),
           NEW r, After(r, e, i)
    PROVE  After(Read(r, RenderStanza(e[i + 1].name, ToStanza(e[i + 1]))), e, i + 1)
<1>0. PICK st, o, a, k, v : r = Reader(st, o, a, k, v, Ended) /\ HasRead(st, o, e, i)
  BY DEF After
<1>1. /\ IsMap(st)
      /\ DOMAIN st = {"default"} \cup {e[j].name : j \in 1..i} /\ st["default"] = NoKeys
      /\ \A j \in 1..i : SaidOf(st[e[j].name], e[j])
      /\ IsSeq(o) /\ Len(o) = i /\ \A j \in 1..i : o[j] = e[j].name
  BY <1>0 DEF HasRead
<1>2. PICK s : s = e[i + 1]
  OBVIOUS
<1>3. PICK n : n = s.name
  OBVIOUS
<1>4. IsSearch(s) /\ n # "default"
  BY <1>2, <1>3 DEF Exportable
<1>5. ASSUME NEW j \in 1..i PROVE e[j].name # n
  <2>1. j \in 1..Len(e) /\ j # i + 1
    BY SeqPlaces DEF Exportable
  <2>2. QED
    BY <1>2, <1>3, <2>1 DEF Exportable
<1>6. n \notin DOMAIN st
  BY <1>1, <1>4, <1>5
<1>7. AreAttrs(ToStanza(s)) /\ \E f : Tells(Written(ToStanza(s)), f) /\ SaidOf(f, s)
  BY <1>4, StanzaIsTold
<1>8. PICK f : Tells(Written(ToStanza(s)), f) /\ SaidOf(f, s)
  BY <1>7
<1>9. PICK k1, v1 : Read(r, RenderStanza(n, ToStanza(s))) =
                      Reader(SetTo(Begun(st, n), n, f), Append(o, n), n, k1, v1, Ended)
  <2>1. PICK t : t = ToStanza(s)
    OBVIOUS
  <2>2. AreAttrs(t) /\ Tells(Written(t), f) /\ IsMap(st)
    BY <1>1, <1>7, <1>8, <2>1
  <2>3. ReadsAs(Reader(st, o, a, k, v, Ended), RenderStanza(n, t),
                SetTo(Begun(st, n), n, f), Append(o, n), n)
    BY <1>6, <2>2, StanzaIsRead
  <2>4. QED
    BY <1>0, <2>1, <2>3 DEF ReadsAs
<1>10. PICK sn, on : sn = SetTo(Begun(st, n), n, f) /\ on = Append(o, n)
  OBVIOUS
<1>11. /\ IsMap(sn) /\ DOMAIN sn = DOMAIN st \cup {n} /\ sn[n] = f
       /\ \A m \in DOMAIN st : sn[m] = st[m]
  <2>1. PICK sb : sb = Begun(st, n)
    OBVIOUS
  <2>2. /\ IsMap(sb) /\ DOMAIN sb = DOMAIN st \cup {n} /\ \A m \in DOMAIN st : sb[m] = st[m]
    BY <2>1 DEF Begun, Overlaid, IsMap
  <2>3. sn = [sb EXCEPT ![n] = f]
    BY <1>10, <2>1 DEF SetTo
  <2>4. QED
    BY <1>6, <2>2, <2>3 DEF IsMap
<1>12. IsSeq(on) /\ Len(on) = i + 1 /\ (\A j \in 1..i : on[j] = o[j]) /\ on[i + 1] = n
  BY <1>1, <1>10, Appended
<1>13. \A j : j \in 1..(i + 1) <=> j \in 1..i \/ j = i + 1
  OBVIOUS
<1>14. DOMAIN sn = {"default"} \cup {e[j].name : j \in 1..(i + 1)}
  BY <1>1, <1>2, <1>3, <1>11, <1>13
<1>15. sn["default"] = NoKeys
  BY <1>1, <1>11
<1>16. ASSUME NEW j \in 1..(i + 1) PROVE SaidOf(sn[e[j].name], e[j]) /\ on[j] = e[j].name
  <2>1. CASE j \in 1..i
    <3>1. e[j].name \in DOMAIN st
      BY <1>1, <2>1
    <3>2. QED
      BY <1>1, <1>11, <1>12, <2>1, <3>1
  <2>2. CASE j = i + 1
    BY <1>2, <1>3, <1>8, <1>11, <1>12, <2>2
  <2>3. QED
    BY <1>13, <2>1, <2>2
<1>17. After(Reader(sn, on, n, k1, v1, Ended), e, i + 1)
  <2>1. HasRead(sn, on, e, i + 1)
    BY <1>11, <1>12, <1>14, <1>15, <1>16 DEF HasRead
  <2>2. QED
    BY <2>1 DEF After
<1>18. QED
  BY <1>2, <1>3, <1>9, <1>10, <1>17

\* All the stanzas are read, in their order.
LEMMA AllAreRead ==
    ASSUME NEW e, Exportable(e), NoName \notin StanzaKeys, NEW w,
           w = [i \in 1..Len(e) |-> RenderStanza(e[i].name, ToStanza(e[i]))]
    PROVE  IsSeq(FlattenSeq(w)) /\ After(Read(Fresh, FlattenSeq(w)), e, Len(e))
<1>1. PICK n \in Nat : n = Len(e)
  BY SeqPlaces DEF Exportable
<1>2. IsSeq(w) /\ Len(w) = n
  <2>1. w = [i \in 1..n |-> w[i]]
    BY <1>1
  <2>2. QED
    BY <2>1, PlacesSeq
<1>3. ASSUME NEW i \in 1..n PROVE IsSeq(w[i])
  <2>1. w[i] = RenderStanza(e[i].name, ToStanza(e[i])) /\ IsSearch(e[i])
    BY <1>1 DEF Exportable
  <2>2. AreAttrs(ToStanza(e[i]))
    BY <2>1, StanzaIsTold
  <2>3. QED
    BY <2>1, <2>2, StanzaIsSeq
<1>4. PICK h : Laid(h, w) /\ FlattenSeq(w) = h[Len(w)]
  BY <1>2, <1>3, FlatIsLaid
<1> DEFINE Fine(i) == IsSeq(h[i]) /\ After(Read(Fresh, h[i]), e, i)
           Good == {i \in Nat : i <= n => Fine(i)}
<1>5. 0 \in Good
  <2>1. h[0] = <<>>
    BY <1>4 DEF Laid
  <2>2. Read(Fresh, <<>>) = Fresh
    BY ReadNothing
  <2>3. PICK st : st = [m \in {"default"} |-> NoKeys]
    OBVIOUS
  <2>4. IsMap(st) /\ DOMAIN st = {"default"} /\ st["default"] = NoKeys
    BY <2>3 DEF IsMap
  <2>5. IsSeq(<<>>) /\ Len(<<>>) = 0
    BY ShortSeqs
  <2>6. HasRead(st, <<>>, e, 0)
    BY <2>4, <2>5 DEF HasRead
  <2>7. Fresh = Reader(st, <<>>, "default", NoName, <<>>, Ended)
    BY <2>3 DEF Fresh
  <2>8. After(Fresh, e, 0)
    BY <2>6, <2>7 DEF After
  <2>9. Fine(0)
    BY <2>1, <2>2, <2>5, <2>8
  <2> HIDE DEF Fine
  <2>10. QED
    BY <2>9
<1>6. ASSUME NEW i \in Good PROVE i + 1 \in Good
  <2>1. i \in Nat
    OBVIOUS
  <2>2. ASSUME i + 1 <= n PROVE Fine(i + 1)
    <3>1. i + 1 \in 1..Len(w) /\ (i + 1) - 1 = i /\ i + 1 \in 1..Len(e) /\ i + 1 \in 1..n
      BY <1>1, <1>2, <2>1, <2>2
    <3>2. h[i + 1] = h[(i + 1) - 1] \o w[i + 1]
      BY <1>4, <3>1, Zenon DEF Laid
    <3>3. Fine(i)
      <4> HIDE DEF Fine
      <4> QED
        BY <2>1, <2>2
    <3>4. IsSeq(w[i + 1]) /\ IsSeq(h[i])
      BY <1>3, <3>1, <3>3
    <3>5. Read(Fresh, h[i] \o w[i + 1]) = Read(Read(Fresh, h[i]), w[i + 1])
      BY <3>4, ReadTwo
    <3>6. IsSeq(h[i] \o w[i + 1])
      BY <3>4, Joined
    <3>7. After(Read(Read(Fresh, h[i]), RenderStanza(e[i + 1].name, ToStanza(e[i + 1]))), e, i + 1)
      BY <2>1, <3>1, <3>3, OneMore
    <3>8. w[i + 1] = RenderStanza(e[i + 1].name, ToStanza(e[i + 1]))
      BY <3>1
    <3>9. QED
      BY <3>1, <3>2, <3>5, <3>6, <3>7, <3>8
  <2> HIDE DEF Fine
  <2>3. QED
    BY <2>1, <2>2
<1>7. Good = Nat
  <2> HIDE DEF Good
  <2>1. Good \in SUBSET Nat
    BY DEF Good
  <2>2. QED
    BY <1>5, <1>6, <2>1, AllNats
<1>8. Fine(n)
  <2> HIDE DEF Fine
  <2> QED
    BY <1>7
<1>9. QED
  BY <1>1, <1>2, <1>4, <1>8

\* All of a sequence is kept, when all of its places are.
LEMMA KeptAll ==
    ASSUME NEW s, IsSeq(s), NEW places, \A n \in 1..Len(s) : n \in places
    PROVE  KeptAt(s, places) = s
<1>1. PICK h : Keeps(h, s, places)
  BY KeepsExists
<1> DEFINE f == CHOOSE g : Keeps(g, s, places)
<1>2. Keeps(f, s, places)
  BY <1>1
<1>3. KeptAt(s, places) = f[Len(s)]
  BY Zenon DEF KeptAt, Keeps
<1> HIDE DEF f
<1>4. Len(s) \in Nat
  BY SeqPlaces
<1> DEFINE Good == {m \in Nat : m <= Len(s) => f[m] = Start(s, m)}
<1>5. 0 \in Good
  <2>1. f[0] = <<>>
    BY <1>2, <1>4 DEF Keeps
  <2>2. Start(s, 0) = <<>>
    <3>1. PICK t : t = Start(s, 0)
      OBVIOUS
    <3>2. t = [i \in 1..0 |-> t[i]]
      BY <3>1 DEF Start
    <3>3. QED
      BY <3>1, <3>2, PlacesSeq, OnlyEmpty
  <2>3. QED
    BY <2>1, <2>2
<1>6. ASSUME NEW m \in Good PROVE m + 1 \in Good
  <2>1. m \in Nat
    OBVIOUS
  <2>2. ASSUME m + 1 <= Len(s) PROVE f[m + 1] = Start(s, m + 1)
    <3>1. m + 1 \in 0..Len(s) /\ m + 1 # 0 /\ (m + 1) - 1 = m /\ m + 1 \in places /\ f[m] = Start(s, m)
      BY <1>4, <2>1, <2>2
    <3>2. f[m + 1] = IF m + 1 = 0 THEN <<>> ELSE IF m + 1 \in places
                     THEN Append(f[(m + 1) - 1], s[m + 1]) ELSE f[(m + 1) - 1]
      BY <1>2, <3>1, Zenon DEF Keeps
    <3>3. Append(Start(s, m), s[m + 1]) = Start(s, m + 1)
      BY <2>1, StartGrows
    <3>4. QED
      BY <3>1, <3>2, <3>3
  <2>3. QED
    BY <2>1, <2>2
<1>7. Good = Nat
  <2> HIDE DEF Good
  <2>1. Good \in SUBSET Nat
    BY DEF Good
  <2>2. QED
    BY <1>5, <1>6, <2>1, AllNats
<1>8. f[Len(s)] = Start(s, Len(s))
  BY <1>4, <1>7
<1>9. Start(s, Len(s)) = s
  BY StartGrows
<1>10. QED
  BY <1>3, <1>8, <1>9

\* Of searches with names of their own, each is written.
LEMMA StanzasAreAll == ASSUME NEW e, Exportable(e) PROVE Stanzas(e) = e
<1>1. IsSeq(e)
  BY DEF Exportable
<1>2. PICK n \in Nat : n = Len(e)
  BY <1>1, SeqPlaces
<1>3. PICK places : places = {i \in 1..Len(e) : \A j \in 1..(i - 1) : e[j].name # e[i].name}
  OBVIOUS
<1>4. ASSUME NEW i \in 1..Len(e) PROVE i \in places
  <2>1. ASSUME NEW j \in 1..(i - 1) PROVE e[j].name # e[i].name
    <3>1. j \in 1..Len(e) /\ j # i
      BY <1>2
    <3>2. QED
      BY <3>1 DEF Exportable
  <2>2. QED
    BY <1>3, <2>1
<1>5. Firsts(e) = e
  <2>1. Firsts(e) = KeptAt(e, places)
    BY <1>3, Zenon DEF Firsts
  <2>2. QED
    BY <1>1, <1>4, <2>1, KeptAll
<1>6. ASSUME NEW k \in 1..Len(e) PROVE e[LastOf(e, e[k].name)] = e[k]
  <2>1. k \in ByName(e, e[k].name)
    BY DEF ByName
  <2>2. LastOf(e, e[k].name) \in ByName(e, e[k].name) /\ LastOf(e, e[k].name) \in 1..Len(e)
    BY <1>1, <2>1, LastOfIs
  <2>3. PICK m \in 1..Len(e) : m = LastOf(e, e[k].name)
    BY <2>2
  <2>4. e[m].name = e[k].name
    BY <2>2, <2>3 DEF ByName
  <2>5. m = k
    BY <2>4 DEF Exportable
  <2>6. QED
    BY <2>3, <2>5
<1>7. Stanzas(e) = [k \in 1..Len(e) |-> e[LastOf(e, e[k].name)]]
  BY <1>5 DEF Stanzas
<1>8. e = [k \in 1..Len(e) |-> e[k]]
  BY <1>1, SeqPlaces
<1>9. QED
  BY <1>6, <1>7, <1>8

\* What is exported and read back is what was there.
LEMMA ExportIsRead ==
    ASSUME NEW e, Exportable(e), NoName \notin StanzaKeys
    PROVE  ParseSavedSearches(RenderSavedSearches(e)) = e
<1>1. PICK w : w = [i \in 1..Len(e) |-> RenderStanza(e[i].name, ToStanza(e[i]))]
  OBVIOUS
<1>2. RenderSavedSearches(e) = FlattenSeq(w)
  BY <1>1, StanzasAreAll DEF RenderSavedSearches
<1>3. PICK lines : lines = FlattenSeq(w)
  OBVIOUS
<1>4. After(Read(Fresh, lines), e, Len(e))
  BY <1>1, <1>3, AllAreRead
<1>5. PICK st, o, a, k, v : Read(Fresh, lines) = Reader(st, o, a, k, v, Ended) /\ HasRead(st, o, e, Len(e))
  BY <1>4 DEF After
<1>6. AllRead(lines) = Reader(st, o, a, k, v, Ended)
  <2>1. PICK r : r = Read(Fresh, lines)
    OBVIOUS
  <2>2. ~r.open
    BY <1>5, <2>1 DEF Reader, Ended
  <2>3. QED
    BY <1>5, <2>1, <2>2 DEF AllRead
<1>7. AllRead(lines).order = o /\ AllRead(lines).stanzas = st
  BY <1>6 DEF Reader
<1>8. PICK n \in Nat : n = Len(e)
  BY SeqPlaces DEF Exportable
<1>9. Len(o) = n /\ st["default"] = NoKeys
  BY <1>5, <1>8 DEF HasRead
<1>10. PICK c : c = ParseConf(lines)
  OBVIOUS
<1>11. c = [i \in 1..n |-> <<o[i], Overlaid(NoKeys, st[o[i]])>>]
  BY <1>7, <1>9, <1>10, ParsedIs
<1>12. Len(c) = n
  <2>1. c = [i \in 1..n |-> c[i]]
    BY <1>11
  <2>2. QED
    BY <2>1, PlacesSeq
<1>13. ParseSavedSearches(lines) = [i \in 1..n |-> FromStanza(c[i][1], c[i][2])]
  BY <1>10, <1>12 DEF ParseSavedSearches
<1>14. ASSUME NEW i \in 1..n PROVE FromStanza(c[i][1], c[i][2]) = e[i]
  <2>1. PICK f : f = st[e[i].name]
    OBVIOUS
  <2>2. SaidOf(f, e[i]) /\ o[i] = e[i].name
    BY <1>5, <1>8, <2>1 DEF HasRead
  <2>3. c[i][1] = e[i].name /\ c[i][2] = Overlaid(NoKeys, f)
    BY <1>11, <2>1, <2>2
  <2>4. IsSearch(e[i])
    BY <1>8 DEF Exportable
  <2>5. QED
    BY <2>2, <2>3, <2>4, SearchIsBack
<1>15. e = [i \in 1..n |-> e[i]]
  BY <1>8, SeqPlaces DEF Exportable
<1>16. QED
  BY <1>2, <1>3, <1>13, <1>14, <1>15

-----------------------------------------------------------------------------
(* The steps of a scenario, and who may write. *)

\* A step's text may be launched under a selection.
MayLaunch(step, src) == ~Writes(step.spl) \/ src.allow_side_effects

\* A step is a search's text.
LEMMA StepSays ==
    \A s, src, explicit : "spl" \in DOMAIN StepFrom(s, src, explicit)
                          /\ StepFrom(s, src, explicit).spl = s.spl
BY DEF StepFrom

\* A step written by hand is bound to a search of its name, or has no text.
LEMMA BoundSays ==
    ASSUME NEW st, NEW ss, NEW src
    PROVE  \/ BoundExplicit(st, ss, src).spl = <<>>
           \/ \E i \in ByName(ss, st.saved) : BoundExplicit(st, ss, src).spl = ss[i].spl
<1>1. CASE ByName(ss, st.saved) = {}
  BY <1>1 DEF BoundExplicit, HeldByTarget
<1>2. CASE ByName(ss, st.saved) # {}
  <2>1. PICK i \in ByName(ss, st.saved) : i = CHOOSE k \in ByName(ss, st.saved) : TRUE
    BY <1>2
  <2>2. PICK step : step = StepFrom(ss[i], src, TRUE)
    OBVIOUS
  <2>3. BoundExplicit(st, ss, src) = [step EXCEPT !.dispatch = st.dispatch]
    BY <1>2, <2>1, <2>2, Zenon DEF BoundExplicit
  <2>4. "spl" \in DOMAIN step /\ step.spl = ss[i].spl
    BY <2>2, StepSays
  <2>5. [step EXCEPT !.dispatch = st.dispatch].spl = step.spl
    BY <2>4
  <2>6. QED
    BY <2>3, <2>4, <2>5
<1>3. QED
  BY <1>1, <1>2

\* What says nothing writes nothing.
LEMMA NothingIsWritten == ~Writes(<<>>)
BY ShortSeqs DEF Writes

\* What a persona takes from the file has leave to write, or does not write.
LEMMA TakenMayLaunch ==
    ASSUME NEW ss, NEW src, IsSeq(ss)
    PROVE  /\ IsSeq(BoundSaved(ss, src))
           /\ \A j \in 1..Len(BoundSaved(ss, src)) : MayLaunch(BoundSaved(ss, src)[j], src)
<1>1. CASE ~src.from
  <2>1. BoundSaved(ss, src) = <<>>
    BY <1>1 DEF BoundSaved
  <2>2. QED
    BY <2>1, ShortSeqs
<1>2. CASE src.from
  <2> DEFINE places == {i \in 1..Len(ss) : Selected(ss[i], src) /\ PolicyFromSaved(ss[i], src).mode # "none"}
  <2>1. PICK taken : taken = TakenFrom(ss, src)
    OBVIOUS
  <2>2. taken = KeptAt(ss, places)
    BY <2>1, Zenon DEF TakenFrom
  <2>3. IsSeq(taken) /\ \A j \in 1..Len(taken) : \E i \in places : taken[j] = ss[i]
    <3> HIDE DEF places
    <3> QED
      BY <2>2, KeptHas
  <2>4. ASSUME NEW j \in 1..Len(taken) PROVE MayLaunch(StepFrom(taken[j], src, FALSE), src)
    <3>1. PICK i \in places : taken[j] = ss[i]
      BY <2>3
    <3>2. Selected(ss[i], src)
      OBVIOUS
    <3>3. ~Writes(taken[j].spl) \/ src.allow_side_effects
      BY <3>1, <3>2 DEF Selected
    <3>4. QED
      BY <3>3, StepSays DEF MayLaunch
  <2>5. PICK bound : bound = BoundSaved(ss, src)
    OBVIOUS
  <2>6. bound = [j \in 1..Len(taken) |-> StepFrom(taken[j], src, FALSE)]
    BY <1>2, <2>1, <2>5 DEF BoundSaved
  <2>7. IsSeq(bound) /\ Len(bound) = Len(taken)
    <3>1. bound = [j \in 1..Len(taken) |-> bound[j]]
      BY <2>6
    <3>2. Len(taken) \in Nat
      BY <2>3, SeqPlaces
    <3>3. QED
      BY <3>1, <3>2, PlacesSeq
  <2>8. QED
    BY <2>4, <2>5, <2>6, <2>7
<1>3. QED
  BY <1>1, <1>2

\* The steps of a scenario that nothing blocks have leave to write, or do not write: the ones
\* written by hand because a problem of one of them blocks the run, the others because they
\* were selected.
LEMMA StepsMayLaunch ==
    ASSUME NEW lines, NEW src, IsSeq(lines), IsSeq(src.steps), ~LoadScenario(lines, src).blocked
    PROVE  \A i \in 1..Len(LoadScenario(lines, src).steps) :
               MayLaunch(LoadScenario(lines, src).steps[i], src)
<1>1. PICK ss : ss = ParseSavedSearches(lines)
  OBVIOUS
<1>2. IsSeq(ss)
  BY <1>1, SearchesAreSeq
<1>3. PICK byHand : byHand = [i \in 1..Len(src.steps) |-> BoundExplicit(src.steps[i], ss, src)]
  OBVIOUS
<1>4. PICK taken : taken = BoundSaved(ss, src)
  OBVIOUS
<1>5. LoadScenario(lines, src).steps = byHand \o taken
  BY <1>1, <1>3, <1>4 DEF LoadScenario
<1>6. \A i \in 1..Len(src.steps) : ~ExplicitProblem(src.steps[i], ss, src)
  BY <1>1 DEF LoadScenario
<1>7. IsSeq(byHand) /\ Len(byHand) = Len(src.steps)
  <2>1. byHand = [i \in 1..Len(src.steps) |-> byHand[i]]
    BY <1>3
  <2>2. Len(src.steps) \in Nat
    BY SeqPlaces
  <2>3. QED
    BY <2>1, <2>2, PlacesSeq
<1>8. ASSUME NEW k \in 1..Len(byHand) PROVE MayLaunch(byHand[k], src)
  <2>1. PICK st : st = src.steps[k]
    OBVIOUS
  <2>2. byHand[k] = BoundExplicit(st, ss, src) /\ ~ExplicitProblem(st, ss, src)
    BY <1>3, <1>6, <1>7, <2>1
  <2>3. \A i \in ByName(ss, st.saved) : ~Writes(ss[i].spl) \/ src.allow_side_effects
    BY <2>2 DEF ExplicitProblem
  <2>4. QED
    BY <2>2, <2>3, BoundSays, NothingIsWritten DEF MayLaunch
<1>9. IsSeq(taken) /\ \A i \in 1..Len(taken) : MayLaunch(taken[i], src)
  BY <1>2, <1>4, TakenMayLaunch
<1>10. /\ Len(byHand \o taken) = Len(byHand) + Len(taken)
       /\ \A i \in 1..Len(byHand) : (byHand \o taken)[i] = byHand[i]
       /\ \A i \in 1..Len(taken) : (byHand \o taken)[Len(byHand) + i] = taken[i]
  BY <1>7, <1>9, Joined
<1>11. Len(byHand) \in Nat /\ Len(taken) \in Nat
  BY <1>7, <1>9, SeqPlaces
<1>12. ASSUME NEW i \in 1..Len(byHand \o taken) PROVE MayLaunch((byHand \o taken)[i], src)
  <2>1. CASE i <= Len(byHand)
    <3>1. i \in 1..Len(byHand)
      BY <1>10, <1>11, <2>1
    <3>2. QED
      BY <1>8, <1>10, <3>1
  <2>2. CASE ~(i <= Len(byHand))
    <3>1. i - Len(byHand) \in 1..Len(taken) /\ Len(byHand) + (i - Len(byHand)) = i
      BY <1>10, <1>11, <2>2
    <3>2. (byHand \o taken)[Len(byHand) + (i - Len(byHand))] = taken[i - Len(byHand)]
      BY <1>10, <3>1, Zenon
    <3>3. QED
      BY <1>9, <3>1, <3>2
  <2>3. QED
    BY <2>1, <2>2
<1>13. QED
  BY <1>5, <1>12

\* What a target lists can be written.
LEMMA ExportsAreListed ==
    ASSUME NEW e \in Exports
    PROVE  IsSeq(e) /\ \A i \in 1..Len(e) : IsSeq(e[i].spl) /\ IsListed(e[i])
<1>1. IsSequence(e) /\ \A i \in 1..Len(e) : IsListed(e[i])
  BY SavedSearchesAssumption
<1>2. IsSeq(e)
  BY <1>1, PlacesSeq DEF IsSequence
<1>3. ASSUME NEW i \in 1..Len(e) PROVE IsSeq(e[i].spl)
  <2>1. PICK spl : spl = e[i].spl
    OBVIOUS
  <2>2. IsSequence(spl)
    BY <1>1, <2>1 DEF IsListed
  <2>3. QED
    BY <2>1, <2>2, PlacesSeq DEF IsSequence
<1>4. QED
  BY <1>1, <1>2, <1>3

\* And read back, under the property's conditions.
LEMMA PlainIsExportable ==
    ASSUME NEW e \in Exports, Plain(e)
    PROVE  Exportable(e)
<1>1. IsSeq(e) /\ \A i \in 1..Len(e) : IsSeq(e[i].spl) /\ IsListed(e[i])
  BY ExportsAreListed
<1>2. ASSUME NEW i \in 1..Len(e) PROVE IsSearch(e[i])
  <2>1. PICK s : s = e[i]
    OBVIOUS
  <2>2. PICK spl : spl = s.spl
    OBVIOUS
  <2>3. IsSeq(spl) /\ IsListed(s)
    BY <1>1, <2>1, <2>2
  <2>4. \A j \in 1..Len(spl) : spl[j].tail = 0
    BY <2>1, <2>2 DEF Plain
  <2>5. \A j \in 1..Len(spl) : spl[j] = [text |-> spl[j].text, tail |-> spl[j].tail]
    BY <2>2, <2>3 DEF IsListed
  <2>6. Len(spl) > 1 => spl[Len(spl)] # [text |-> "", tail |-> 0]
    BY <2>2, <2>3 DEF IsListed
  <2>7. spl = <<>> \/ Clean(spl)
    <3>1. Len(spl) = 0 => spl = <<>>
      BY <2>3, OnlyEmpty
    <3>2. \A j \in 1..Len(spl) : spl[j] = [text |-> spl[j].text, tail |-> 0]
      BY <2>4, <2>5
    <3>3. QED
      BY <2>3, <2>6, <3>1, <3>2 DEF Clean
  <2>8. s.scheduled \in BOOLEAN /\ s.disabled \in BOOLEAN /\ s.skip \in BOOLEAN
    BY <2>3 DEF IsListed
  <2>9. QED
    BY <2>1, <2>2, <2>3, <2>7, <2>8 DEF IsSearch, IsListed
<1>3. QED
  BY <1>1, <1>2 DEF Exportable, Plain

\* What the file, the scenario and the last dispatch are, once they are there.
ConfIs == conf = NoFile \/ IsSeq(conf)
ScenarioIs ==
    \/ scenario = NoScenario
    \/ conf # NoFile /\ \E src \in Selections : scenario = LoadScenario(conf, src)
LaunchedIs ==
    \/ launched = Nothing
    \/ /\ scenario # NoScenario /\ ~scenario.blocked
       /\ \E i \in 1..Len(scenario.steps) : launched.step = scenario.steps[i]
       /\ launched.text = launched.step.spl \/ launched.step.dispatch = "saved"
OriginIs == origin # <<>> => origin \in Exports /\ conf = RenderSavedSearches(origin)
SavedInv == ConfIs /\ ScenarioIs /\ LaunchedIs /\ OriginIs

\* It holds at first.
LEMMA SavedInvInit == SavedInit => SavedInv
BY Zenon DEF SavedInit, SavedInv, ConfIs, ScenarioIs, LaunchedIs, OriginIs

\* A step keeps it.
LEMMA SavedInvStep == ASSUME SavedInv, [SavedNext]_savedVars PROVE SavedInv'
<1>1. ASSUME NEW e \in Exports, Export(e) PROVE SavedInv'
  <2>1. IsSeq(e) /\ \A i \in 1..Len(e) : IsSeq(e[i].spl)
    BY ExportsAreListed
  <2>2. IsSeq(RenderSavedSearches(e))
    BY <2>1, RenderedAreSeq
  <2>3. conf = NoFile /\ conf' = RenderSavedSearches(e) /\ scenario' = scenario /\ launched' = launched
    BY <1>1 DEF Export
  <2>4. ConfIs'
    BY <2>2, <2>3 DEF ConfIs
  <2>5. scenario = NoScenario /\ launched = Nothing
    BY <2>3 DEF SavedInv, ScenarioIs, LaunchedIs
  <2>6. ScenarioIs' /\ LaunchedIs'
    BY <2>3, <2>5, Zenon DEF ScenarioIs, LaunchedIs, Nothing
  <2>7. OriginIs'
    BY <1>1 DEF Export, OriginIs
  <2>8. QED
    BY <2>4, <2>6, <2>7 DEF SavedInv
<1>2. ASSUME NEW l \in HandWritten, WriteByHand(l) PROVE SavedInv'
  <2>1. IsSeq(l)
    BY SavedSearchesAssumption, PlacesSeq DEF IsSequence
  <2>2. conf = NoFile /\ conf' = l /\ scenario' = scenario /\ launched' = launched
    BY <1>2 DEF WriteByHand
  <2>3. ConfIs'
    BY <2>1, <2>2 DEF ConfIs
  <2>4. scenario = NoScenario /\ launched = Nothing
    BY <2>2 DEF SavedInv, ScenarioIs, LaunchedIs
  <2>5. ScenarioIs' /\ LaunchedIs'
    BY <2>2, <2>4, Zenon DEF ScenarioIs, LaunchedIs, Nothing
  <2>6. OriginIs'
    BY <1>2 DEF WriteByHand, OriginIs
  <2>7. QED
    BY <2>3, <2>5, <2>6 DEF SavedInv
<1>3. ASSUME NEW src \in Selections, Load(src) PROVE SavedInv'
  <2>1. /\ conf # NoFile /\ scenario = NoScenario /\ scenario' = LoadScenario(conf, src)
        /\ conf' = conf /\ launched' = launched
    BY <1>3 DEF Load
  <2>2. launched = Nothing
    BY <2>1 DEF SavedInv, LaunchedIs
  <2>3. ConfIs' /\ LaunchedIs'
    BY <2>1, <2>2 DEF SavedInv, ConfIs, LaunchedIs, Nothing
  <2>4. ScenarioIs'
    BY <2>1 DEF ScenarioIs
  <2>5. OriginIs'
    BY <1>3 DEF Load, SavedInv, OriginIs
  <2>6. QED
    BY <2>3, <2>4, <2>5 DEF SavedInv
<1>4. ASSUME NEW i \in 1..3, NEW now \in Moments, NEW jitter \in Jitters, DispatchStep(i, now, jitter)
      PROVE  SavedInv'
  <2>1. /\ scenario # NoScenario /\ ~scenario.blocked /\ i \in 1..Len(scenario.steps)
        /\ conf' = conf /\ scenario' = scenario
    BY <1>4 DEF DispatchStep
  <2>2. PICK text \in TextsOf(scenario.steps[i]) :
              launched' = [at |-> now, jitter |-> jitter, step |-> scenario.steps[i], text |-> text,
                           window |-> ResolveWindow(scenario.steps[i], now, jitter)]
    BY <1>4 DEF DispatchStep
  <2>3. launched'.step = scenario.steps[i] /\ launched'.text = text
    BY <2>2
  <2>4. text = scenario.steps[i].spl \/ scenario.steps[i].dispatch = "saved"
    BY DEF TextsOf
  <2>5. ConfIs' /\ ScenarioIs'
    BY <2>1 DEF SavedInv, ConfIs, ScenarioIs
  <2>6. LaunchedIs'
    BY <2>1, <2>3, <2>4 DEF LaunchedIs
  <2>7. OriginIs'
    BY <1>4 DEF DispatchStep, SavedInv, OriginIs
  <2>8. QED
    BY <2>5, <2>6, <2>7 DEF SavedInv
<1>5. ASSUME UNCHANGED savedVars PROVE SavedInv'
  BY <1>5 DEF savedVars, SavedInv, ConfIs, ScenarioIs, LaunchedIs, OriginIs, Nothing
<1>6. QED
  BY <1>1, <1>2, <1>3, <1>4, <1>5 DEF SavedNext

\* With it, what was launched had leave.
LEMMA LeaveFromInv == ASSUME SavedInv PROVE WritersNeedLeave
<1>1. SUFFICES ASSUME launched # Nothing, ~scenario.source.allow_side_effects
      PROVE  /\ ~Writes(launched.step.spl)
             /\ Writes(launched.text) => launched.step.dispatch = "saved"
  BY DEF WritersNeedLeave
<1>2. PICK i \in 1..Len(scenario.steps) : launched.step = scenario.steps[i]
  BY <1>1 DEF SavedInv, LaunchedIs
<1>3. scenario # NoScenario /\ ~scenario.blocked
  BY <1>1 DEF SavedInv, LaunchedIs
<1>4. IsSeq(conf)
  BY <1>3 DEF SavedInv, ConfIs, ScenarioIs
<1>5. PICK src \in Selections : scenario = LoadScenario(conf, src)
  BY <1>3 DEF SavedInv, ScenarioIs
<1>6. IsSeq(src.steps)
  BY SavedSearchesAssumption, PlacesSeq DEF IsSequence
<1>7. MayLaunch(scenario.steps[i], src)
  BY <1>3, <1>4, <1>5, <1>6, StepsMayLaunch
<1>8. scenario.source = src
  BY <1>5 DEF LoadScenario
<1>9. ~Writes(launched.step.spl)
  BY <1>1, <1>2, <1>7, <1>8 DEF MayLaunch
<1>10. launched.text = launched.step.spl \/ launched.step.dispatch = "saved"
  BY <1>1 DEF SavedInv, LaunchedIs
<1>11. QED
  BY <1>9, <1>10

\* Unless the scenario says so, no search is launched that writes in the file, whatever the file
\* says and however its lines break: one selected was asked, and one that a step names blocks
\* the run; what writes all the same is the target's own search, dispatched by name
\* (savedsearches.py:22-24; scenario.py:846-865).
THEOREM WritersNeedLeaveHolds == SavedSpec => []WritersNeedLeave
<1>1. SavedInit => SavedInv
  BY SavedInvInit
<1>2. SavedInv /\ [SavedNext]_savedVars => SavedInv'
  BY SavedInvStep
<1>3. SavedInv => WritersNeedLeave
  BY LeaveFromInv
<1>4. QED
  BY <1>1, <1>2, <1>3, PTL DEF SavedSpec

-----------------------------------------------------------------------------
(* The load of an export. *)

\* The end of one sequence after another is the other.
LEMMA EndOfJoined ==
    ASSUME NEW s, NEW t, IsSeq(s), IsSeq(t)
    PROVE  SubSeq(s \o t, Len(s \o t) - Len(t) + 1, Len(s \o t)) = t /\ Len(s \o t) >= Len(t)
<1>1. PICK n \in Nat : n = Len(s)
  BY SeqPlaces
<1>2. PICK m \in Nat : m = Len(t)
  BY SeqPlaces
<1>3. PICK u : u = s \o t
  OBVIOUS
<1>4. IsSeq(u) /\ Len(u) = n + m /\ \A i \in 1..m : u[n + i] = t[i]
  BY <1>1, <1>2, <1>3, Joined
<1>5. PICK v : v = SubSeq(u, n + 1, n + m)
  OBVIOUS
<1>6. PICK S : S = {t[i] : i \in 1..m}
  OBVIOUS
<1>7. /\ v \in Seq(S) /\ Len(v) = m
      /\ \A i \in 1..m : v[i] = u[(n + 1) + i - 1]
  <2>1. n + 1 \in Int /\ n + m \in Int /\ (n + m) - (n + 1) + 1 = m
    OBVIOUS
  <2>2. ASSUME NEW i \in (n + 1)..(n + m) PROVE u[i] \in S
    <3>1. i - n \in 1..m /\ n + (i - n) = i
      OBVIOUS
    <3>2. u[n + (i - n)] = t[i - n]
      BY <1>4, <3>1, Zenon
    <3>3. QED
      BY <1>6, <3>1, <3>2
  <2>3. /\ SubSeq(u, n + 1, n + m) \in Seq(S)
        /\ Len(SubSeq(u, n + 1, n + m)) = IF n + 1 <= n + m THEN (n + m) - (n + 1) + 1 ELSE 0
        /\ \A i \in 1..((n + m) - (n + 1) + 1) : SubSeq(u, n + 1, n + m)[i] = u[(n + 1) + i - 1]
    BY <2>1, <2>2, SubSeqProperties
  <2>4. Len(v) = m
    BY <1>5, <2>1, <2>3
  <2>5. QED
    BY <1>5, <2>1, <2>3, <2>4
<1>8. \A i \in 1..m : (n + 1) + i - 1 = n + i
  OBVIOUS
<1>9. v = [i \in 1..m |-> v[i]] /\ \A i \in 1..m : v[i] = t[i]
  BY <1>4, <1>7, <1>8
<1>10. v = t
  BY <1>2, <1>9, SeqPlaces
<1>11. Len(u) - Len(t) + 1 = n + 1
  BY <1>2, <1>4
<1>12. QED
  BY <1>2, <1>3, <1>4, <1>5, <1>10, <1>11

\* The steps end with those of some searches.
NotByHand == FALSE
EndsWith(steps, taken, src) ==
    /\ Len(steps) >= Len(taken)
    /\ [i \in 1..Len(taken) |-> StepFrom(taken[i], src, NotByHand)]
         = SubSeq(steps, Len(steps) - Len(taken) + 1, Len(steps))

\* What is loaded of an export, with what is selected, ends with the searches that are taken.
LEMMA LoadOfExport ==
    ASSUME NEW e, NEW src, Exportable(e), NoName \notin StanzaKeys, IsSeq(src.steps), src.from,
           NEW taken, taken = TakenFrom(e, src),
           NEW steps, steps = LoadScenario(RenderSavedSearches(e), src).steps
    PROVE  EndsWith(steps, taken, src)
<1>1. ParseSavedSearches(RenderSavedSearches(e)) = e
  BY ExportIsRead
<1>2. IsSeq(e)
  BY DEF Exportable
<1>3. PICK byHand : byHand = [i \in 1..Len(src.steps) |-> BoundExplicit(src.steps[i], e, src)]
  OBVIOUS
<1>4. PICK bound : bound = BoundSaved(e, src)
  OBVIOUS
<1>5. steps = byHand \o bound
  BY <1>1, <1>3, <1>4, Zenon DEF LoadScenario
<1>6. IsSeq(byHand) /\ Len(byHand) = Len(src.steps)
  <2>1. byHand = [i \in 1..Len(src.steps) |-> byHand[i]]
    BY <1>3
  <2>2. Len(src.steps) \in Nat
    BY SeqPlaces
  <2>3. QED
    BY <2>1, <2>2, PlacesSeq
<1>7. bound = [i \in 1..Len(taken) |-> StepFrom(taken[i], src, NotByHand)]
  BY <1>4 DEF BoundSaved, NotByHand
<1>8. IsSeq(taken)
  <2>1. PICK places : places = {i \in 1..Len(e) : Selected(e[i], src) /\ PolicyFromSaved(e[i], src).mode # "none"}
    OBVIOUS
  <2>2. taken = KeptAt(e, places)
    BY <2>1, Zenon DEF TakenFrom
  <2>3. QED
    BY <1>2, <2>2, KeptHas
<1>9. IsSeq(bound) /\ Len(bound) = Len(taken)
  <2>1. bound = [i \in 1..Len(taken) |-> bound[i]]
    BY <1>7
  <2>2. Len(taken) \in Nat
    BY <1>8, SeqPlaces
  <2>3. QED
    BY <2>1, <2>2, PlacesSeq
<1>10. /\ SubSeq(byHand \o bound, Len(byHand \o bound) - Len(bound) + 1, Len(byHand \o bound)) = bound
       /\ Len(byHand \o bound) >= Len(bound)
  BY <1>6, <1>9, EndOfJoined
<1>11. QED
  BY <1>5, <1>7, <1>9, <1>10 DEF EndsWith

\* With the invariant, the load of an export is the target's.
LEMMA SameLoadFromInv == ASSUME SavedInv PROVE ExportIsTheSameLoad
<1>1. SUFFICES ASSUME Plain(origin), scenario # NoScenario, scenario.source.from, origin # <<>>
      PROVE  LET taken == TakenFrom(origin, scenario.source)
                 tail  == SubSeq(scenario.steps, Len(scenario.steps) - Len(taken) + 1, Len(scenario.steps))
             IN  /\ Len(scenario.steps) >= Len(taken)
                 /\ [i \in 1..Len(taken) |-> StepFrom(taken[i], scenario.source, FALSE)] = tail
  BY DEF ExportIsTheSameLoad, SameLoad
<1>2. origin \in Exports /\ conf = RenderSavedSearches(origin)
  BY <1>1 DEF SavedInv, OriginIs
<1>3. PICK src \in Selections : scenario = LoadScenario(conf, src)
  BY <1>1 DEF SavedInv, ScenarioIs
<1>4. scenario.source = src
  BY <1>3 DEF LoadScenario
<1>5. IsSeq(src.steps)
  BY SavedSearchesAssumption, PlacesSeq DEF IsSequence
<1>6. NoName \notin StanzaKeys
  BY SavedSearchesAssumption
<1>7. Exportable(origin)
  BY <1>1, <1>2, PlainIsExportable
<1>8. PICK taken : taken = TakenFrom(origin, src)
  OBVIOUS
<1>9. PICK steps : steps = scenario.steps
  OBVIOUS
<1>10. steps = LoadScenario(RenderSavedSearches(origin), src).steps /\ src.from
  BY <1>1, <1>2, <1>3, <1>4, <1>9
<1>11. EndsWith(steps, taken, src)
  BY <1>5, <1>6, <1>7, <1>8, <1>10, LoadOfExport
<1>12. QED
  BY <1>4, <1>8, <1>9, <1>11, Zenon DEF EndsWith, NotByHand

\* Searches pulled off a target, written to a file and loaded from it are the load the target
\* has, however many there are, whatever they say and whatever is selected of them: what the
\* printer writes the parser reads, line by line, and the rest follows from the searches alone
\* (savedsearches.py:16-17, 105-110, 119-121).
THEOREM ExportIsTheSameLoadHolds == SavedSpec => []ExportIsTheSameLoad
<1>1. SavedInit => SavedInv
  BY SavedInvInit
<1>2. SavedInv /\ [SavedNext]_savedVars => SavedInv'
  BY SavedInvStep
<1>3. SavedInv => ExportIsTheSameLoad
  BY SameLoadFromInv
<1>4. QED
  BY <1>1, <1>2, <1>3, PTL DEF SavedSpec
=============================================================================
