----------------------------- MODULE SelectionProofs -----------------------------
(***************************************************************************)
(* Machine-checked proofs about Selection, for any channels and items, any *)
(* averages, blacklists and loads, and any number of sessions.             *)
(*                                                                         *)
(* The order of the candidates is followed through its steps: what a sort  *)
(* gives, what picking the places of a list gives, and then the tiers, the *)
(* demotion of the channels without health, and each channel once.  That   *)
(* the scores do not turn the order of the measurements is arithmetic.     *)
(***************************************************************************)
EXTENDS Selection, SequenceTheorems, FiniteSetTheorems, TLAPS

\* R orders the elements of S one after the other.
StrictOrder(S, R) ==
    /\ \A x \in S : <<x, x>> \notin R
    /\ \A x, y, z \in S : <<x, y>> \in R /\ <<y, z>> \in R => <<x, z>> \in R
    /\ \A x, y \in S : x # y => <<x, y>> \in R \/ <<y, x>> \in R

\* The m elements of S one after the other, as R has them.
Enumerates(e, m, S, R) ==
    /\ m \in Nat /\ e \in [1 .. m -> S]
    /\ \A x \in S : \E i \in 1 .. m : e[i] = x
    /\ \A i, j \in 1 .. m : i < j => <<e[i], e[j]>> \in R

\* The result has the elements of the list at the places in K, in their order.
Picks(result, at, m, list, K) ==
    /\ m \in Nat /\ at \in [1 .. m -> K]
    /\ \A k \in K : \E i \in 1 .. m : at[i] = k
    /\ \A i, j \in 1 .. m : i < j => at[i] < at[j]
    /\ result = [i \in 1 .. m |-> list[at[i]]]

-----------------------------------------------------------------------------

\* An element has at least as many before it as another that comes before it
\* has, and one more.
LEMMA RankGrows ==
    ASSUME NEW S, IsFiniteSet(S), NEW R, StrictOrder(S, R), NEW x \in S
    PROVE  /\ Rank(S, R, x) \in 0 .. Cardinality(S) - 1
           /\ \A y \in S : <<y, x>> \in R => Rank(S, R, y) < Rank(S, R, x)
<1> DEFINE before(y) == {z \in S : <<z, y>> \in R}
<1>1. \A y \in S : IsFiniteSet(before(y)) /\ Cardinality(before(y)) \in Nat
  <2>1. \A y \in S : before(y) \in SUBSET S
    OBVIOUS
  <2> HIDE DEF before
  <2>2. QED
    BY <2>1, FS_Subset, FS_CardinalityType
<1>2. Cardinality(S) \in Nat /\ Cardinality(S \ {x}) = Cardinality(S) - 1
  BY FS_CardinalityType, FS_RemoveElement
<1>3. Cardinality(before(x)) <= Cardinality(S) - 1
  <2>1. before(x) \in SUBSET (S \ {x})
    BY DEF StrictOrder
  <2>2. IsFiniteSet(S \ {x})
    BY FS_RemoveElement
  <2> HIDE DEF before
  <2>3. QED
    BY <1>2, <2>1, <2>2, FS_Subset
<1>4. ASSUME NEW y \in S, <<y, x>> \in R
      PROVE  Cardinality(before(y)) < Cardinality(before(x))
  <2>1. before(y) \in SUBSET (before(x) \ {y}) /\ y \in before(x)
    BY <1>4 DEF StrictOrder
  <2> HIDE DEF before
  <2>2. /\ IsFiniteSet(before(x) \ {y})
        /\ Cardinality(before(x) \ {y}) = Cardinality(before(x)) - 1
    BY <1>1, <2>1, FS_RemoveElement
  <2>3. Cardinality(before(y)) <= Cardinality(before(x)) - 1
    BY <2>1, <2>2, FS_Subset
  <2>4. QED
    BY <1>1, <1>4, <2>3
<1>5. \A y \in S : Rank(S, R, y) = Cardinality(before(y))
  BY DEF Rank
<1> HIDE DEF before
<1>6. QED
  BY <1>1, <1>2, <1>3, <1>4, <1>5

\* Sorting gives every element its place: no two have the same number before
\* them, so that every number is some element's.
LEMMA ListedSorts ==
    ASSUME NEW S, IsFiniteSet(S), NEW R, StrictOrder(S, R)
    PROVE  Enumerates(Listed(S, R), Cardinality(S), S, R)
<1> DEFINE n == Cardinality(S)
           rank == [x \in S |-> Rank(S, R, x)]
           list == [i \in 1 .. n |-> CHOOSE x \in S : Rank(S, R, x) = i - 1]
<1>1. n \in Nat
  BY FS_CardinalityType
<1>2. \A x \in S : Rank(S, R, x) \in 0 .. n - 1
  BY RankGrows
<1>3. \A x, y \in S : <<x, y>> \in R => Rank(S, R, x) < Rank(S, R, y)
  BY RankGrows
<1>4. \A x, y \in S : Rank(S, R, x) = Rank(S, R, y) => x = y
  <2>1. \A x \in S : Rank(S, R, x) \in Int
    BY <1>2
  <2>2. ASSUME NEW x \in S, NEW y \in S, x # y
        PROVE  Rank(S, R, x) # Rank(S, R, y)
    <3>1. <<x, y>> \in R \/ <<y, x>> \in R
      BY <2>2 DEF StrictOrder
    <3>2. QED
      BY <1>3, <2>1, <3>1
  <2>3. QED
    BY <2>2
<1>5. \A i \in 0 .. n - 1 : \E x \in S : Rank(S, R, x) = i
  <2>1. rank \in Injection(S, 0 .. n - 1)
    BY <1>2, <1>4 DEF Injection, IsInjective
  <2>2. IsFiniteSet(0 .. n - 1) /\ Cardinality(0 .. n - 1) = n
    BY <1>1, FS_Interval
  <2> HIDE DEF rank
  <2>3. rank \in Surjection(S, 0 .. n - 1)
    BY <2>1, <2>2, FS_Injection
  <2>4. QED
    BY <2>3 DEF Surjection, rank
<1>6. \A i \in 1 .. n : list[i] \in S /\ Rank(S, R, list[i]) = i - 1
  <2>1. ASSUME NEW i \in 1 .. n
        PROVE  \E x \in S : Rank(S, R, x) = i - 1
    BY <1>1, <1>5
  <2>2. QED
    BY <2>1
<1>7. Listed(S, R) = list /\ list \in [1 .. n -> S]
  BY <1>6 DEF Listed
<1> HIDE DEF list
<1>8. \A x \in S : \E i \in 1 .. n : list[i] = x
  <2>1. ASSUME NEW x \in S
        PROVE  \E i \in 1 .. n : list[i] = x
    <3>1. \E i \in 1 .. n : i - 1 = Rank(S, R, x)
      BY <1>1, <1>2
    <3>2. PICK i \in 1 .. n : i - 1 = Rank(S, R, x)
      BY <3>1
    <3>3. list[i] = x
      BY <1>4, <1>6, <3>2
    <3>4. QED
      BY <3>3
  <2>2. QED
    BY <2>1
<1>9. \A i, j \in 1 .. n : i < j => <<list[i], list[j]>> \in R
  <2>1. ASSUME NEW i \in 1 .. n, NEW j \in 1 .. n, i < j
        PROVE  <<list[i], list[j]>> \in R
    <3>1. Rank(S, R, list[i]) < Rank(S, R, list[j]) /\ list[i] # list[j]
      BY <1>1, <1>6, <2>1
    <3>2. ~(Rank(S, R, list[j]) < Rank(S, R, list[i]))
      BY <1>1, <1>6, <2>1
    <3>3. QED
      BY <1>3, <1>6, <3>1, <3>2 DEF StrictOrder
  <2>2. QED
    BY <2>1
<1>10. QED
  BY <1>1, <1>7, <1>8, <1>9 DEF Enumerates

LEMMA LessOrders ==
    ASSUME NEW K \in SUBSET Int
    PROVE  /\ StrictOrder(K, Less(K))
           /\ \A x, y \in K : <<x, y>> \in Less(K) <=> x < y
<1>1. \A x, y \in K : <<x, y>> \in Less(K) <=> x < y
  BY DEF Less, Pairs
<1>2. QED
  BY <1>1 DEF StrictOrder

\* A set of numbers has a least and a greatest.
LEMMA Extremes ==
    ASSUME NEW S \in SUBSET Int, IsFiniteSet(S), S # {}
    PROVE  /\ Smallest(S) \in S /\ \A y \in S : Smallest(S) <= y
           /\ Greatest(S) \in S /\ \A y \in S : y <= Greatest(S)
<1> DEFINE n == Cardinality(S)
           e == Listed(S, Less(S))
<1>1. StrictOrder(S, Less(S)) /\ \A x, y \in S : <<x, y>> \in Less(S) <=> x < y
  BY LessOrders
<1>2. Enumerates(e, n, S, Less(S))
  BY <1>1, ListedSorts
<1> HIDE DEF e, n
<1>3. n \in Nat /\ n > 0
  <2>1. PICK x \in S : TRUE
    OBVIOUS
  <2>2. \E i \in 1 .. n : e[i] = x
    BY <1>2 DEF Enumerates
  <2>3. n \in Nat
    BY <1>2 DEF Enumerates
  <2>4. QED
    BY <2>2, <2>3
<1>4. 1 \in 1 .. n /\ n \in 1 .. n
  BY <1>3
<1>5. \A i, j \in 1 .. n : i <= j => e[i] <= e[j]
  <2>1. \A i \in 1 .. n : e[i] \in S /\ e[i] \in Int
    BY <1>2 DEF Enumerates
  <2>2. ASSUME NEW i \in 1 .. n, NEW j \in 1 .. n, i < j
        PROVE  e[i] < e[j]
    BY <1>1, <1>2, <2>1, <2>2 DEF Enumerates
  <2>3. \A i, j \in 1 .. n : i <= j => i = j \/ i < j
    BY <1>3
  <2>4. QED
    BY <2>1, <2>2, <2>3
<1>6. \A y \in S : e[1] <= y /\ y <= e[n]
  <2>1. ASSUME NEW y \in S
        PROVE  e[1] <= y /\ y <= e[n]
    <3>1. PICK i \in 1 .. n : e[i] = y
      BY <1>2 DEF Enumerates
    <3>2. 1 <= i /\ i <= n
      BY <1>3
    <3>3. QED
      BY <1>4, <1>5, <3>1, <3>2
  <2>2. QED
    BY <2>1
<1>7. e[1] \in S /\ e[n] \in S
  BY <1>2, <1>4 DEF Enumerates
<1>8. /\ \E x \in S : \A y \in S : x <= y
      /\ \E x \in S : \A y \in S : y <= x
  BY <1>6, <1>7
<1>9. QED
  BY <1>8 DEF Smallest, Greatest

\* What picking the places in K of a list of length n gives.
LEMMA PlacesPicked ==
    ASSUME NEW n \in Nat, NEW list, DOMAIN list = 1 .. n, NEW K \in SUBSET (1 .. n)
    PROVE  \E m, at : Picks(PlacesOf(list, K), at, m, list, K)
<1> DEFINE m == Cardinality(K)
           at == Listed(K, Less(K))
<1>1. K \in SUBSET Int
  OBVIOUS
<1>2. IsFiniteSet(K)
  <2>1. IsFiniteSet(1 .. n)
    BY FS_Interval
  <2>2. QED
    BY <2>1, FS_Subset
<1>3. /\ StrictOrder(K, Less(K))
      /\ \A x, y \in K : <<x, y>> \in Less(K) <=> x < y
  BY <1>1, LessOrders
<1>4. Enumerates(at, m, K, Less(K))
  BY <1>2, <1>3, ListedSorts
<1>5. PlacesOf(list, K) = [i \in DOMAIN at |-> list[at[i]]]
  BY DEF PlacesOf
<1> HIDE DEF m, at
<1>6. /\ m \in Nat /\ at \in [1 .. m -> K] /\ DOMAIN at = 1 .. m
      /\ \A k \in K : \E i \in 1 .. m : at[i] = k
      /\ \A i, j \in 1 .. m : i < j => at[i] < at[j]
  BY <1>3, <1>4 DEF Enumerates
<1>7. Picks(PlacesOf(list, K), at, m, list, K)
  BY <1>5, <1>6 DEF Picks
<1>8. QED
  BY <1>7

\* The result is a list of length k with one of length l after it.
Joins(result, k, l, s, t, C) ==
    /\ result \in [1 .. k + l -> C]
    /\ \A i \in 1 .. k + l : result[i] = IF i <= k THEN s[i] ELSE t[i - k]

LEMMA Concatenation ==
    ASSUME NEW C, NEW k \in Nat, NEW l \in Nat,
           NEW s \in [1 .. k -> C], NEW t \in [1 .. l -> C]
    PROVE  Joins(s \o t, k, l, s, t, C)
<1>1. s \in Seq(C) /\ t \in Seq(C) /\ Len(s) = k /\ Len(t) = l
  OBVIOUS
<1>2. /\ s \o t \in Seq(C) /\ Len(s \o t) = Len(s) + Len(t)
      /\ \A i \in 1 .. Len(s) + Len(t) :
            (s \o t)[i] = IF i <= Len(s) THEN s[i] ELSE t[i - Len(s)]
  BY <1>1, ConcatProperties
<1>3. s \o t \in [1 .. k + l -> C]
  BY <1>1, <1>2, LenProperties
<1>4. QED
  BY <1>1, <1>2, <1>3 DEF Joins

\* The result has the first places of a list of length n, in their order.
FirstPlaces(result, g, m, list, n) ==
    /\ m \in Nat /\ g \in [1 .. m -> 1 .. n]
    /\ result = [i \in 1 .. m |-> list[g[i]]]
    /\ \A i, j \in 1 .. m : i < j => g[i] < g[j]
    /\ \A i \in 1 .. m, k \in 1 .. n : k < g[i] => list[k] # list[g[i]]
    /\ \A k \in 1 .. n : \E i \in 1 .. m : list[g[i]] = list[k]

\* Once keeps the first place of every element, and those in their order.
LEMMA OnceFirst ==
    ASSUME NEW n \in Nat, NEW C, NEW list \in [1 .. n -> C]
    PROVE  \E m, g : FirstPlaces(Once(list), g, m, list, n)
<1> DEFINE K == {i \in 1 .. n : \A j \in 1 .. n : j < i => list[j] # list[i]}
<1>1. DOMAIN list = 1 .. n /\ K \in SUBSET (1 .. n) /\ Once(list) = PlacesOf(list, K)
  BY DEF Once
<1>2. PICK m, g : Picks(PlacesOf(list, K), g, m, list, K)
  BY <1>1, PlacesPicked
<1> USE DEF Picks
<1>3. ASSUME NEW k \in 1 .. n
      PROVE  \E i \in 1 .. m : list[g[i]] = list[k]
  <2> DEFINE same == {j \in 1 .. n : list[j] = list[k]}
  <2>1. same \in SUBSET Int /\ same # {} /\ same \in SUBSET (1 .. n)
    OBVIOUS
  <2>2. IsFiniteSet(1 .. n)
    BY FS_Interval
  <2>3. IsFiniteSet(same)
    BY <2>1, <2>2, FS_Subset
  <2>4. Smallest(same) \in same /\ \A j \in same : Smallest(same) <= j
    <3> HIDE DEF same
    <3>1. QED
      BY <2>1, <2>3, Extremes
  <2>5. PICK j \in same : \A l \in same : j <= l
    BY <2>4
  <2>6. j \in K
    <3>1. ASSUME NEW l \in 1 .. n, l < j, list[l] = list[j]
          PROVE  FALSE
      <4>1. l \in same
        BY <2>5, <3>1
      <4>2. j <= l /\ j \in Int /\ l \in Int
        BY <2>1, <2>5, <4>1
      <4>3. QED
        BY <3>1, <4>2
    <3>2. QED
      BY <2>5, <3>1
  <2>7. PICK i \in 1 .. m : g[i] = j
    BY <1>2, <2>6
  <2>8. QED
    BY <2>5, <2>7
<1>4. /\ g \in [1 .. m -> 1 .. n]
      /\ \A i \in 1 .. m, k \in 1 .. n : k < g[i] => list[k] # list[g[i]]
  BY <1>2
<1>5. /\ m \in Nat /\ Once(list) = [i \in 1 .. m |-> list[g[i]]]
      /\ \A i, j \in 1 .. m : i < j => g[i] < g[j]
  BY <1>1, <1>2
<1> HIDE DEF K, Picks
<1>6. FirstPlaces(Once(list), g, m, list, n)
  BY <1>3, <1>4, <1>5 DEF FirstPlaces
<1>7. QED
  BY <1>6

Healthy(c) == Health(c) > 0

\* The result has all places of a list of length n, those of healthy channels
\* first, and both in their order.
DemotedPlaces(result, h, m, list, n) ==
    /\ m \in Nat /\ h \in [1 .. m -> 1 .. n]
    /\ result = [i \in 1 .. m |-> list[h[i]]]
    /\ \A k \in 1 .. n : \E i \in 1 .. m : h[i] = k
    /\ \A i, j \in 1 .. m : i < j =>
          \/ Healthy(list[h[i]]) /\ ~Healthy(list[h[j]])
          \/ (Healthy(list[h[i]]) <=> Healthy(list[h[j]])) /\ h[i] < h[j]

\* tier_and_demote drops nothing, puts the healthy first, and leaves both the
\* healthy and the others in their order.
LEMMA Demoted ==
    ASSUME NEW n \in Nat, NEW C, NEW list \in [1 .. n -> C]
    PROVE  \E m, h : DemotedPlaces(TierAndDemote(list), h, m, list, n)
<1> DEFINE K == {i \in 1 .. n : Healthy(list[i])}
           N == {i \in 1 .. n : ~Healthy(list[i])}
<1>1. /\ DOMAIN list = 1 .. n /\ K \in SUBSET (1 .. n) /\ N \in SUBSET (1 .. n)
      /\ TierAndDemote(list) = PlacesOf(list, K) \o PlacesOf(list, N)
  BY DEF TierAndDemote, Healthy
<1>2. PICK k, f : Picks(PlacesOf(list, K), f, k, list, K)
  BY <1>1, PlacesPicked
<1>3. PICK l, g : Picks(PlacesOf(list, N), g, l, list, N)
  BY <1>1, PlacesPicked
<1> USE <1>2, <1>3 DEF Picks
<1> DEFINE h == [i \in 1 .. k + l |-> IF i <= k THEN f[i] ELSE g[i - k]]
<1>4. /\ \A i \in 1 .. k : i \in 1 .. k + l /\ h[i] = f[i] /\ h[i] \in K
      /\ \A i \in 1 .. l : k + i \in 1 .. k + l /\ h[k + i] = g[i] /\ h[k + i] \in N
  OBVIOUS
<1>5. \A i \in 1 .. k + l : i \in 1 .. k \/ (i - k \in 1 .. l /\ ~(i <= k))
  OBVIOUS
<1>6. h \in [1 .. k + l -> 1 .. n]
  <2>1. \A i \in 1 .. k + l : h[i] \in 1 .. n
    BY <1>1, <1>5
  <2>2. QED
    BY <2>1
<1>7. \A x \in 1 .. n : \E i \in 1 .. k + l : h[i] = x
  <2>1. ASSUME NEW x \in 1 .. n
        PROVE  \E i \in 1 .. k + l : h[i] = x
    <3>1. CASE x \in K
      BY <1>2, <1>4, <3>1
    <3>2. CASE x \in N
      <4>1. PICK i \in 1 .. l : g[i] = x
        BY <1>3, <3>2
      <4>2. k + i \in 1 .. k + l /\ h[k + i] = x
        BY <1>4, <4>1
      <4>3. QED
        BY <4>2
    <3>3. QED
      BY <3>1, <3>2
  <2>2. QED
    BY <2>1
<1>8. TierAndDemote(list) = [i \in 1 .. k + l |-> list[h[i]]]
  <2> DEFINE A == [i \in 1 .. k |-> list[f[i]]]
             B == [i \in 1 .. l |-> list[g[i]]]
  <2>1. /\ k \in Nat /\ l \in Nat /\ A \in [1 .. k -> C] /\ B \in [1 .. l -> C]
    BY <1>1
  <2>2. /\ A \o B \in [1 .. k + l -> C]
        /\ \A i \in 1 .. k + l : (A \o B)[i] = IF i <= k THEN A[i] ELSE B[i - k]
    <3> HIDE <1>2, <1>3 DEF A, B, h, K, N, Picks
    <3>1. Joins(A \o B, k, l, A, B, C)
      BY <2>1, Concatenation
    <3>2. QED
      BY <3>1 DEF Joins
  <2>3. \A i \in 1 .. k + l : (IF i <= k THEN A[i] ELSE B[i - k]) = list[h[i]]
    BY <1>5
  <2>4. A \o B = [i \in 1 .. k + l |-> list[h[i]]]
    <3> HIDE DEF A, B, h
    <3>1. A \o B = [i \in 1 .. k + l |-> (A \o B)[i]]
      BY <2>2
    <3>2. QED
      BY <2>2, <2>3, <3>1
  <2>5. QED
    BY <1>1, <1>2, <1>3, <2>4
<1>9. ASSUME NEW i \in 1 .. k + l, NEW j \in 1 .. k + l, i < j
      PROVE  \/ Healthy(list[h[i]]) /\ ~Healthy(list[h[j]])
             \/ (Healthy(list[h[i]]) <=> Healthy(list[h[j]])) /\ h[i] < h[j]
  <2>1. CASE i \in 1 .. k /\ j \in 1 .. k
    BY <1>2, <1>4, <1>9, <2>1
  <2>2. CASE i \in 1 .. k /\ j \notin 1 .. k
    <3>1. j - k \in 1 .. l /\ h[j] = g[j - k]
      BY <1>5, <2>2
    <3>2. Healthy(list[h[i]]) /\ ~Healthy(list[h[j]])
      BY <1>4, <2>2, <3>1
    <3>3. QED
      BY <3>2
  <2>3. CASE i \notin 1 .. k
    <3>1. /\ i - k \in 1 .. l /\ h[i] = g[i - k]
          /\ j - k \in 1 .. l /\ h[j] = g[j - k]
          /\ i - k < j - k
      BY <1>5, <1>9, <2>3
    <3>2. ~Healthy(list[h[i]]) /\ ~Healthy(list[h[j]])
      BY <3>1
    <3>3. h[i] < h[j]
      BY <1>3, <3>1
    <3>4. QED
      BY <3>2, <3>3
  <2>4. QED
    BY <2>1, <2>2, <2>3
<1>10. k + l \in Nat
  OBVIOUS
<1> HIDE <1>2, <1>3 DEF h, K, N, Picks
<1>11. DemotedPlaces(TierAndDemote(list), h, k + l, list, n)
  BY <1>6, <1>7, <1>8, <1>9, <1>10 DEF DemotedPlaces
<1>12. QED
  BY <1>11
-----------------------------------------------------------------------------
(* The measurements and the scores.                                          *)

Measured ==
    \A c \in ChannelIds : /\ Speed(c) \in Nat /\ Health(c) \in Nat
                        /\ active[c] \in Int /\ stats[c].error \in Int

Speeds(tier) == {Speed(d) : d \in tier} \ {0}
Loads(tier)  == {active[d] : d \in tier}

\* The three parts of a score, and what the first two are measured by.
SpeedUnit(tier) == LargerOf(Spread(Speeds(tier)), 1)
LoadUnit(tier)  == LargerOf(Spread(Loads(tier)), 1)
SpeedPart(c, tier) ==
    CASE Speed(c) = 0             -> 8 * SpeedUnit(tier)
      [] Spread(Speeds(tier)) = 0 -> 10 * SpeedUnit(tier)
      [] OTHER                    -> 10 * (Greatest(Speeds(tier)) - Speed(c))
LoadPart(c, tier) ==
    IF Spread(Loads(tier)) = 0 THEN LoadUnit(tier) ELSE Greatest(Loads(tier)) - active[c]
Quality(c) == 3 * (100 - stats[c].error) + 20 * Health(c)

LEMMA ScoreSum ==
    ASSUME NEW c, NEW tier
    PROVE  Score(c, tier) = 20 * LoadUnit(tier) * SpeedPart(c, tier)
                              + 200 * SpeedUnit(tier) * LoadPart(c, tier)
                              + Quality(c) * SpeedUnit(tier) * LoadUnit(tier)
BY DEF Score, LoadUnit, SpeedUnit, SpeedPart, LoadPart, Quality, Speeds, Loads

LEMMA ImageFinite ==
    ASSUME NEW S, IsFiniteSet(S), NEW f, DOMAIN f = S
    PROVE  IsFiniteSet({f[x] : x \in S})
<1> DEFINE T == {f[x] : x \in S}
           g == [x \in S |-> f[x]]
<1>1. g \in Surjection(S, T)
  BY DEF Surjection
<1> HIDE DEF g, T
<1>2. IsFiniteSet(T)
  BY <1>1, FS_Surjection
<1>3. QED
  BY <1>2 DEF T

LEMMA SpreadBounds ==
    ASSUME NEW S \in SUBSET Int, IsFiniteSet(S)
    PROVE  /\ Spread(S) \in Nat
           /\ \A x \in S : /\ Greatest(S) \in Int /\ x <= Greatest(S)
                           /\ Greatest(S) - x <= Spread(S)
<1>1. CASE S = {}
  BY <1>1 DEF Spread
<1>2. CASE S # {}
  <2>1. /\ Smallest(S) \in S /\ \A y \in S : Smallest(S) <= y
        /\ Greatest(S) \in S /\ \A y \in S : y <= Greatest(S)
    BY <1>2, Extremes
  <2>2. Spread(S) = Greatest(S) - Smallest(S)
    BY <1>2 DEF Spread
  <2> DEFINE g == Greatest(S)  l == Smallest(S)
  <2>3. /\ g \in Int /\ l \in Int /\ l <= g /\ Spread(S) = g - l
        /\ \A x \in S : x \in Int /\ l <= x /\ x <= g
    BY <2>1, <2>2
  <2> HIDE DEF g, l
  <2>4. Spread(S) \in Nat /\ \A x \in S : x <= g /\ g - x <= Spread(S)
    BY <2>3
  <2>5. QED
    BY <2>3, <2>4 DEF g
<1>3. QED
  BY <1>1, <1>2

\* The parts of a score are whole numbers, and the units are positive.
LEMMA PartsAreNumbers ==
    ASSUME Measured, NEW tier \in SUBSET ChannelIds, IsFiniteSet(tier)
    PROVE  /\ Speeds(tier) \in SUBSET Int /\ IsFiniteSet(Speeds(tier))
           /\ Loads(tier) \in SUBSET Int /\ IsFiniteSet(Loads(tier))
           /\ SpeedUnit(tier) \in Nat \ {0} /\ LoadUnit(tier) \in Nat \ {0}
           /\ \A c \in tier : /\ SpeedPart(c, tier) \in Int /\ LoadPart(c, tier) \in Int
                              /\ Quality(c) \in Int
<1> DEFINE speed == [d \in tier |-> Speed(d)]
           load  == [d \in tier |-> active[d]]
<1>1. Speeds(tier) \in SUBSET Int /\ Loads(tier) \in SUBSET Int
  BY DEF Speeds, Loads, Measured
<1>2. IsFiniteSet(Speeds(tier))
  <2>1. IsFiniteSet({speed[d] : d \in tier})
    BY ImageFinite
  <2>2. Speeds(tier) \in SUBSET {speed[d] : d \in tier}
    BY DEF Speeds
  <2>3. QED
    BY <2>1, <2>2, FS_Subset
<1>3. IsFiniteSet(Loads(tier))
  <2>1. IsFiniteSet({load[d] : d \in tier})
    BY ImageFinite
  <2>2. Loads(tier) = {load[d] : d \in tier}
    BY DEF Loads
  <2>3. QED
    BY <2>1, <2>2
<1>4. SpeedUnit(tier) \in Nat \ {0} /\ LoadUnit(tier) \in Nat \ {0}
  BY <1>1, <1>2, <1>3, SpreadBounds DEF SpeedUnit, LoadUnit, LargerOf
<1>5. ASSUME NEW c \in tier
      PROVE  SpeedPart(c, tier) \in Int /\ LoadPart(c, tier) \in Int /\ Quality(c) \in Int
  <2>1. Speed(c) \in Nat /\ active[c] \in Int /\ Quality(c) \in Int
    BY DEF Measured, Quality
  <2>2. active[c] \in Loads(tier) /\ (Speed(c) # 0 => Speed(c) \in Speeds(tier))
    BY DEF Loads, Speeds
  <2>3. /\ Greatest(Loads(tier)) \in Int
        /\ Speed(c) # 0 => Greatest(Speeds(tier)) \in Int
    BY <1>1, <1>2, <1>3, <2>2, SpreadBounds
  <2>4. SpeedPart(c, tier) \in Int
    BY <1>4, <2>1, <2>3 DEF SpeedPart
  <2>5. LoadPart(c, tier) \in Int
    BY <1>4, <2>1, <2>3 DEF LoadPart
  <2>6. QED
    BY <2>1, <2>4, <2>5
<1>6. QED
  BY <1>1, <1>2, <1>3, <1>4, <1>5

LEMMA ScoreIsNumber ==
    ASSUME Measured, NEW tier \in SUBSET ChannelIds, IsFiniteSet(tier), NEW c \in tier
    PROVE  Score(c, tier) \in Int
BY PartsAreNumbers, ScoreSum

\* A measurement that is as good gives a part that is as high, and one that
\* is better a higher one, whatever the tier is normalised by.
LEMMA PartsFollow ==
    ASSUME Measured, NEW tier \in SUBSET ChannelIds, IsFiniteSet(tier),
           NEW c \in tier, NEW d \in tier, Better(c, d)
    PROVE  /\ SpeedPart(c, tier) >= SpeedPart(d, tier)
           /\ LoadPart(c, tier) >= LoadPart(d, tier)
           /\ Quality(c) >= Quality(d)
           /\ \/ SpeedPart(c, tier) > SpeedPart(d, tier)
              \/ LoadPart(c, tier) > LoadPart(d, tier)
              \/ Quality(c) > Quality(d)
<1> DEFINE S == Speeds(tier)  A == Loads(tier)
<1>1. /\ Speed(c) \in Nat \ {0} /\ Speed(d) \in Nat \ {0}
      /\ active[c] \in Int /\ active[d] \in Int
      /\ Health(c) \in Nat /\ Health(d) \in Nat
      /\ stats[c].error \in Int /\ stats[d].error \in Int
  BY DEF Measured, Better
<1>2. /\ Speed(c) \in S /\ Speed(d) \in S /\ active[c] \in A /\ active[d] \in A
  BY <1>1 DEF Speeds, Loads
<1>3. /\ S \in SUBSET Int /\ IsFiniteSet(S) /\ A \in SUBSET Int /\ IsFiniteSet(A)
      /\ SpeedUnit(tier) \in Nat /\ LoadUnit(tier) \in Nat
  BY PartsAreNumbers
<1> HIDE DEF S, A
<1>4. /\ Spread(S) \in Nat /\ Greatest(S) \in Int
      /\ Speed(c) <= Greatest(S) /\ Greatest(S) - Speed(c) <= Spread(S)
      /\ Speed(d) <= Greatest(S) /\ Greatest(S) - Speed(d) <= Spread(S)
  BY <1>2, <1>3, SpreadBounds
<1>5. /\ Spread(A) \in Nat /\ Greatest(A) \in Int
      /\ active[c] <= Greatest(A) /\ Greatest(A) - active[c] <= Spread(A)
      /\ active[d] <= Greatest(A) /\ Greatest(A) - active[d] <= Spread(A)
  BY <1>2, <1>3, SpreadBounds
<1> USE DEF S, A
<1>6. /\ SpeedPart(c, tier) >= SpeedPart(d, tier)
      /\ Speed(c) < Speed(d) => SpeedPart(c, tier) > SpeedPart(d, tier)
  BY <1>1, <1>3, <1>4 DEF SpeedPart, Better
<1>7. /\ LoadPart(c, tier) >= LoadPart(d, tier)
      /\ active[c] < active[d] => LoadPart(c, tier) > LoadPart(d, tier)
  BY <1>1, <1>3, <1>5 DEF LoadPart, Better
<1>8. /\ Quality(c) >= Quality(d)
      /\ stats[c].error < stats[d].error \/ Health(c) > Health(d) => Quality(c) > Quality(d)
  BY <1>1 DEF Quality, Better
<1>9. \/ Speed(c) < Speed(d) \/ active[c] < active[d]
      \/ stats[c].error < stats[d].error \/ Health(c) > Health(d)
  BY <1>1 DEF Better
<1>10. QED
  BY <1>6, <1>7, <1>8, <1>9

LEMMA TimesGrows ==
    ASSUME NEW a \in Nat \ {0}, NEW x \in Int, NEW y \in Int
    PROVE  /\ x <= y => a * x <= a * y
           /\ x < y => a * x < a * y
OBVIOUS

\* The better one of two channels of a tier has the higher score.
LEMMA BetterScoresHigher ==
    ASSUME Measured, NEW tier \in SUBSET ChannelIds, IsFiniteSet(tier),
           NEW c \in tier, NEW d \in tier, Better(c, d)
    PROVE  Score(c, tier) > Score(d, tier)
<1> DEFINE L == SpeedUnit(tier)  A == LoadUnit(tier)
           s == SpeedPart(c, tier)  l == LoadPart(c, tier)  q == Quality(c)
           t == SpeedPart(d, tier)  m == LoadPart(d, tier)  r == Quality(d)
<1>1. /\ L \in Nat \ {0} /\ A \in Nat \ {0}
      /\ s \in Int /\ l \in Int /\ q \in Int /\ t \in Int /\ m \in Int /\ r \in Int
  BY PartsAreNumbers
<1>2. t <= s /\ m <= l /\ r <= q /\ (t < s \/ m < l \/ r < q)
  BY <1>1, PartsFollow
<1>3. /\ Score(c, tier) = 20 * A * s + 200 * L * l + q * L * A
      /\ Score(d, tier) = 20 * A * t + 200 * L * m + r * L * A
  BY ScoreSum
<1> HIDE DEF L, A, s, l, q, t, m, r
<1>4. L * A \in Nat \ {0} /\ 20 * A \in Nat \ {0} /\ 200 * L \in Nat \ {0}
  BY <1>1
<1>5. /\ (20 * A) * t <= (20 * A) * s /\ (t < s => (20 * A) * t < (20 * A) * s)
      /\ (200 * L) * m <= (200 * L) * l /\ (m < l => (200 * L) * m < (200 * L) * l)
      /\ (L * A) * r <= (L * A) * q /\ (r < q => (L * A) * r < (L * A) * q)
  BY <1>1, <1>2, <1>4, TimesGrows
<1>6. r * L * A = (L * A) * r /\ q * L * A = (L * A) * q
  BY <1>1
<1> DEFINE a1 == (20 * A) * t  a2 == (20 * A) * s
           b1 == (200 * L) * m  b2 == (200 * L) * l
           c1 == (L * A) * r  c2 == (L * A) * q
<1>7. /\ a1 \in Int /\ a2 \in Int /\ b1 \in Int /\ b2 \in Int /\ c1 \in Int /\ c2 \in Int
      /\ Score(c, tier) = a2 + b2 + c2 /\ Score(d, tier) = a1 + b1 + c1
      /\ a1 <= a2 /\ b1 <= b2 /\ c1 <= c2 /\ (a1 < a2 \/ b1 < b2 \/ c1 < c2)
  BY <1>1, <1>2, <1>3, <1>4, <1>5, <1>6
<1> HIDE DEF a1, a2, b1, b2, c1, c2
<1>8. QED
  BY <1>7
-----------------------------------------------------------------------------
(* The tiers and what is made of them.                                       *)

LEMMA ItemsTyped ==
    \A i \in DOMAIN Items : /\ i \in Nat
                            /\ Items[i].priority \in Nat /\ Items[i].channel \in ChannelIds
<1> DEFINE T == [channel : ChannelIds, priority : Nat, model : STRING]
<1>1. Items \in Seq(T)
  BY RankingAssumption
<1> HIDE DEF T
<1>2. \A i \in DOMAIN Items : i \in Nat /\ Items[i] \in T
  BY <1>1
<1>3. QED
  BY <1>2 DEF T

\* What the entries are: channels with priorities, and finitely many.
LEMMA EntriesTyped ==
    ASSUME NEW left \in SUBSET ChannelIds
    PROVE  /\ IsFiniteSet(Entries(left))
           /\ \A x \in Entries(left) : /\ x[1] \in Nat /\ x[2] \in left
                                       /\ x = <<x[1], x[2]>>
           /\ \A i \in DOMAIN Items : Items[i].channel \in left =>
                 <<Items[i].priority, Items[i].channel>> \in Entries(left)
           /\ \A x \in Entries(left) : \E i \in DOMAIN Items :
                 Items[i].priority = x[1] /\ Items[i].channel = x[2]
<1> DEFINE places == {j \in DOMAIN Items : Items[j].channel \in left}
           entry == [i \in places |-> <<Items[i].priority, Items[i].channel>>]
<1>1. IsFiniteSet(places)
  <2>1. DOMAIN Items = 1 .. Len(Items) /\ Len(Items) \in Nat
    BY RankingAssumption, LenProperties
  <2>2. IsFiniteSet(1 .. Len(Items)) /\ places \in SUBSET (1 .. Len(Items))
    BY <2>1, FS_Interval
  <2> HIDE DEF places
  <2>3. QED
    BY <2>2, FS_Subset
<1>2. Entries(left) = {entry[i] : i \in places}
  BY DEF Entries
<1>3. IsFiniteSet({entry[i] : i \in places})
  <2> DOMAIN entry = places
    OBVIOUS
  <2> HIDE DEF entry, places
  <2>1. QED
    BY <1>1, ImageFinite
<1>4. IsFiniteSet(Entries(left))
  BY <1>2, <1>3
<1>5. QED
  BY <1>4, ItemsTyped DEF Entries

LEMMA TierTyped ==
    ASSUME NEW left \in SUBSET ChannelIds, NEW p
    PROVE  /\ Tier(p, left) \in SUBSET ChannelIds /\ IsFiniteSet(Tier(p, left))
           /\ \A x \in Entries(left) : x[1] = p => x[2] \in Tier(p, left)
<1> DEFINE of == {f \in Entries(left) : f[1] = p}
           channel == [x \in of |-> x[2]]
<1>1. IsFiniteSet(of)
  <2>1. of \in SUBSET Entries(left)
    OBVIOUS
  <2> HIDE DEF of
  <2>2. QED
    BY <2>1, EntriesTyped, FS_Subset
<1>2. Tier(p, left) = {channel[x] : x \in of}
  BY DEF Tier
<1>3. IsFiniteSet({channel[x] : x \in of})
  <2> DOMAIN channel = of
    OBVIOUS
  <2> HIDE DEF channel, of
  <2>1. QED
    BY <1>1, ImageFinite
<1>4. QED
  BY <1>2, <1>3, EntriesTyped DEF Tier

\* In a tier the higher score comes first, then the smaller identifier.
LEMMA OutranksOrders ==
    ASSUME Measured, NEW tier \in SUBSET ChannelIds, IsFiniteSet(tier)
    PROVE  /\ \A c \in tier : ~Outranks(c, c, tier)
           /\ \A c, d, e \in tier :
                 Outranks(c, d, tier) /\ Outranks(d, e, tier) => Outranks(c, e, tier)
           /\ \A c, d \in tier : c # d => Outranks(c, d, tier) \/ Outranks(d, c, tier)
<1>1. \A c \in tier : Score(c, tier) \in Int /\ c \in Nat
  BY ScoreIsNumber, RankingAssumption
<1>2. QED
  BY <1>1 DEF Outranks

LEMMA PrecedesOrders ==
    ASSUME Measured, NEW left \in SUBSET ChannelIds
    PROVE  StrictOrder(Entries(left), Precedes(left))
<1> DEFINE E == Entries(left)
           before(x, y) == \/ x[1] < y[1]
                           \/ x[1] = y[1] /\ Outranks(x[2], y[2], Tier(x[1], left))
<1>1. \A x \in E : /\ x[1] \in Nat /\ x = <<x[1], x[2]>>
                   /\ x[2] \in Tier(x[1], left)
  BY EntriesTyped, TierTyped
<1>2. \A x, y \in E : <<x, y>> \in Precedes(left) <=> before(x, y)
  BY DEF Precedes, Pairs
<1>3. \A p : Tier(p, left) \in SUBSET ChannelIds /\ IsFiniteSet(Tier(p, left))
  BY TierTyped
<1> HIDE DEF E
<1>4. \A x \in E : ~before(x, x)
  BY <1>1, <1>3, OutranksOrders
<1>5. ASSUME NEW x \in E, NEW y \in E, NEW z \in E, before(x, y), before(y, z)
      PROVE  before(x, z)
  <2>1. CASE x[1] = y[1] /\ y[1] = z[1]
    <3>1. Outranks(x[2], y[2], Tier(x[1], left)) /\ Outranks(y[2], z[2], Tier(x[1], left))
      BY <1>1, <1>5, <2>1
    <3>2. x[2] \in Tier(x[1], left) /\ y[2] \in Tier(x[1], left) /\ z[2] \in Tier(x[1], left)
      BY <1>1, <2>1
    <3>3. Outranks(x[2], z[2], Tier(x[1], left))
      BY <1>3, <3>1, <3>2, OutranksOrders
    <3>4. QED
      BY <2>1, <3>3
  <2>2. CASE ~(x[1] = y[1] /\ y[1] = z[1])
    BY <1>1, <1>5, <2>2
  <2>3. QED
    BY <2>1, <2>2
<1>6. ASSUME NEW x \in E, NEW y \in E, x # y
      PROVE  before(x, y) \/ before(y, x)
  <2>1. CASE x[1] = y[1]
    <3>1. x[2] # y[2]
      BY <1>1, <1>6, <2>1
    <3>2. x[2] \in Tier(x[1], left) /\ y[2] \in Tier(x[1], left)
      BY <1>1, <2>1
    <3>3. Outranks(x[2], y[2], Tier(x[1], left)) \/ Outranks(y[2], x[2], Tier(x[1], left))
      BY <1>3, <3>1, <3>2, OutranksOrders
    <3>4. QED
      BY <2>1, <3>3
  <2>2. CASE x[1] # y[1]
    BY <1>1, <2>2
  <2>3. QED
    BY <2>1, <2>2
<1> HIDE DEF before
<1>7. QED
  BY <1>2, <1>4, <1>5, <1>6 DEF StrictOrder, E
\* The best priority that a channel has an item of.
LEMMA TopTyped ==
    ASSUME NEW left \in SUBSET ChannelIds, NEW x \in Entries(left)
    PROVE  /\ TopPriority(x[2]) \in Nat /\ TopPriority(x[2]) <= x[1]
           /\ <<TopPriority(x[2]), x[2]>> \in Entries(left)
<1> DEFINE places == {j \in DOMAIN Items : Items[j].channel = x[2]}
           priority == [i \in places |-> Items[i].priority]
           P == {Items[i].priority : i \in places}
<1>1. PICK i \in DOMAIN Items : Items[i].priority = x[1] /\ Items[i].channel = x[2]
  BY EntriesTyped
<1>2. P \in SUBSET Nat /\ x[1] \in P
  BY <1>1, ItemsTyped
<1>3. IsFiniteSet(P)
  <2>1. DOMAIN Items = 1 .. Len(Items) /\ Len(Items) \in Nat
    BY RankingAssumption, LenProperties
  <2>2. IsFiniteSet(1 .. Len(Items)) /\ places \in SUBSET (1 .. Len(Items))
    BY <2>1, FS_Interval
  <2>3. IsFiniteSet(places)
    <3> HIDE DEF places
    <3>1. QED
      BY <2>2, FS_Subset
  <2>4. DOMAIN priority = places /\ P = {priority[j] : j \in places}
    OBVIOUS
  <2> HIDE DEF priority, places, P
  <2>5. QED
    BY <2>3, <2>4, ImageFinite
<1>4. TopPriority(x[2]) = Smallest(P)
  BY DEF TopPriority
<1>5. Smallest(P) \in P /\ \A y \in P : Smallest(P) <= y
  <2> HIDE DEF P
  <2>1. P \in SUBSET Int /\ P # {}
    BY <1>2
  <2>2. QED
    BY <1>3, <2>1, Extremes
<1>6. PICK j \in DOMAIN Items : Items[j].priority = Smallest(P) /\ Items[j].channel = x[2]
  BY <1>5
<1>7. x[2] \in left
  BY EntriesTyped
<1>8. <<Items[j].priority, Items[j].channel>> \in Entries(left)
  BY <1>6, <1>7, EntriesTyped
<1>9. QED
  BY <1>2, <1>4, <1>5, <1>6, <1>8

\* The list of the channels that are left: each that has an item once, the
\* healthy before the others, then by the best priority, then by rank.
InOrder(list, m, left) ==
    /\ m \in Nat /\ list \in [1 .. m -> left]
    /\ \A x \in Entries(left) : \E i \in 1 .. m : list[i] = x[2]
    /\ \A i, j \in 1 .. m : i < j =>
          /\ list[i] # list[j]
          /\ \/ Healthy(list[i]) /\ ~Healthy(list[j])
             \/ /\ Healthy(list[i]) <=> Healthy(list[j])
                /\ \/ TopPriority(list[i]) < TopPriority(list[j])
                   \/ /\ TopPriority(list[i]) = TopPriority(list[j])
                      /\ Outranks(list[i], list[j], Tier(TopPriority(list[i]), left))
    /\ \A i \in 1 .. m : /\ TopPriority(list[i]) \in Nat
                         /\ list[i] \in Tier(TopPriority(list[i]), left)

LEMMA OrderedInOrder ==
    ASSUME Measured, NEW left \in SUBSET ChannelIds
    PROVE  \E m : InOrder(Ordered(left), m, left)
<1> DEFINE E == Entries(left)
           n == Cardinality(E)
           e == Listed(E, Precedes(left))
           T == Tiers(left)
           top(i) == TopPriority(T[i])
<1>1. Enumerates(e, n, E, Precedes(left))
  BY EntriesTyped, PrecedesOrders, ListedSorts
<1>2. T = [i \in DOMAIN e |-> e[i][2]]
  BY DEF Tiers
<1> HIDE DEF E, n, e, T
<1>3. /\ n \in Nat /\ e \in [1 .. n -> E] /\ DOMAIN e = 1 .. n
      /\ \A x \in E : \E i \in 1 .. n : e[i] = x
      /\ \A i, j \in 1 .. n : i < j => <<e[i], e[j]>> \in Precedes(left)
  BY <1>1 DEF Enumerates
<1>4. \A x \in E : /\ x[1] \in Nat /\ x[2] \in left /\ x = <<x[1], x[2]>>
                   /\ TopPriority(x[2]) \in Nat /\ TopPriority(x[2]) <= x[1]
                   /\ <<TopPriority(x[2]), x[2]>> \in E
                   /\ x[2] \in Tier(x[1], left)
  BY EntriesTyped, TopTyped, TierTyped DEF E
<1>5. /\ T \in [1 .. n -> left]
      /\ \A i \in 1 .. n : T[i] = e[i][2] /\ e[i] \in E
  BY <1>2, <1>3, <1>4
<1>6. \A i, j \in 1 .. n : i < j =>
         \/ e[i][1] < e[j][1]
         \/ e[i][1] = e[j][1] /\ Outranks(T[i], T[j], Tier(e[i][1], left))
  <2>1. \A x, y \in E : <<x, y>> \in Precedes(left) =>
           \/ x[1] < y[1]
           \/ x[1] = y[1] /\ Outranks(x[2], y[2], Tier(x[1], left))
    BY DEF Precedes, Pairs, E
  <2>2. ASSUME NEW i \in 1 .. n, NEW j \in 1 .. n, i < j
        PROVE  \/ e[i][1] < e[j][1]
               \/ e[i][1] = e[j][1] /\ Outranks(e[i][2], e[j][2], Tier(e[i][1], left))
    BY <1>3, <1>5, <2>1, <2>2
  <2>3. QED
    BY <1>5, <2>2
<1> DEFINE D == TierAndDemote(T)  O == Ordered(left)
<1>7. PICK k, h : DemotedPlaces(D, h, k, T, n)
  BY <1>3, <1>5, Demoted
<1>8. /\ k \in Nat /\ h \in [1 .. k -> 1 .. n]
      /\ D = [i \in 1 .. k |-> T[h[i]]]
      /\ \A a \in 1 .. n : \E i \in 1 .. k : h[i] = a
      /\ \A i, j \in 1 .. k : i < j =>
            \/ Healthy(T[h[i]]) /\ ~Healthy(T[h[j]])
            \/ (Healthy(T[h[i]]) <=> Healthy(T[h[j]])) /\ h[i] < h[j]
  BY <1>7 DEF DemotedPlaces
<1>9. D \in [1 .. k -> left]
  BY <1>5, <1>8
<1>10. O = Once(D)
  BY DEF Ordered, T
<1> HIDE DEF D, O
<1>11. PICK m, g : FirstPlaces(O, g, m, D, k)
  BY <1>8, <1>9, <1>10, OnceFirst
<1>12. /\ m \in Nat /\ g \in [1 .. m -> 1 .. k]
       /\ O = [i \in 1 .. m |-> D[g[i]]]
       /\ \A i, j \in 1 .. m : i < j => g[i] < g[j]
       /\ \A i \in 1 .. m, a \in 1 .. k : a < g[i] => D[a] # D[g[i]]
       /\ \A a \in 1 .. k : \E i \in 1 .. m : D[g[i]] = D[a]
  BY <1>11 DEF FirstPlaces
<1> DEFINE at(i) == h[g[i]]
<1>13. \A i \in 1 .. m : /\ g[i] \in 1 .. k /\ at(i) \in 1 .. n
                         /\ O[i] = T[at(i)] /\ O[i] = D[g[i]]
  BY <1>8, <1>12
\* The first place of a channel is where it has its best priority.
<1>14. ASSUME NEW i \in 1 .. m
       PROVE  e[at(i)][1] = TopPriority(O[i]) /\ TopPriority(O[i]) \in Nat
  <2> DEFINE c == O[i]  p == TopPriority(c)
  <2>1. e[at(i)] \in E /\ c = e[at(i)][2] /\ at(i) \in 1 .. n /\ g[i] \in 1 .. k
    BY <1>5, <1>13
  <2>2. p \in Nat /\ e[at(i)][1] \in Nat /\ p <= e[at(i)][1] /\ <<p, c>> \in E
    BY <1>4, <2>1
  <2>3. PICK a \in 1 .. n : e[a] = <<p, c>>
    BY <1>3, <2>2
  <2>4. PICK b \in 1 .. k : h[b] = a
    BY <1>8
  <2>5. D[b] = c /\ T[a] = c
    BY <1>5, <1>8, <2>3, <2>4
  <2>6. ~(b < g[i])
    BY <1>12, <1>13, <2>5
  <2>7. CASE b = g[i]
    BY <2>2, <2>3, <2>4, <2>7
  <2>8. CASE g[i] < b
    <3>1. at(i) < a
      BY <1>8, <1>13, <2>1, <2>4, <2>5, <2>8
    <3>2. e[at(i)][1] <= e[a][1]
      BY <1>6, <2>1, <2>2, <2>3, <3>1
    <3>3. QED
      BY <2>2, <2>3, <3>2
  <2>9. QED
    BY <2>1, <2>6, <2>7, <2>8
<1>15. ASSUME NEW i \in 1 .. m, NEW j \in 1 .. m, i < j
       PROVE  /\ O[i] # O[j]
              /\ \/ Healthy(O[i]) /\ ~Healthy(O[j])
                 \/ /\ Healthy(O[i]) <=> Healthy(O[j])
                    /\ \/ TopPriority(O[i]) < TopPriority(O[j])
                       \/ /\ TopPriority(O[i]) = TopPriority(O[j])
                          /\ Outranks(O[i], O[j], Tier(TopPriority(O[i]), left))
  <2>1. g[i] < g[j]
    BY <1>12, <1>15
  <2>2. O[i] # O[j]
    BY <1>12, <1>13, <2>1
  <2>3. \/ Healthy(O[i]) /\ ~Healthy(O[j])
        \/ (Healthy(O[i]) <=> Healthy(O[j])) /\ at(i) < at(j)
    <3>1. \/ Healthy(T[h[g[i]]]) /\ ~Healthy(T[h[g[j]]])
          \/ (Healthy(T[h[g[i]]]) <=> Healthy(T[h[g[j]]])) /\ h[g[i]] < h[g[j]]
      BY <1>8, <1>13, <2>1
    <3>2. O[i] = T[h[g[i]]] /\ O[j] = T[h[g[j]]]
      BY <1>13
    <3>3. QED
      BY <3>1, <3>2
  <2>4. at(i) < at(j) =>
           \/ TopPriority(O[i]) < TopPriority(O[j])
           \/ /\ TopPriority(O[i]) = TopPriority(O[j])
              /\ Outranks(O[i], O[j], Tier(TopPriority(O[i]), left))
    BY <1>6, <1>13, <1>14
  <2>5. QED
    BY <2>2, <2>3, <2>4
<1>16. ASSUME NEW x \in E
       PROVE  \E i \in 1 .. m : O[i] = x[2]
  <2>1. PICK a \in 1 .. n : e[a] = x
    BY <1>3
  <2>2. PICK b \in 1 .. k : h[b] = a
    BY <1>8
  <2>3. PICK i \in 1 .. m : D[g[i]] = D[b]
    BY <1>12
  <2>4. D[b] = x[2]
    BY <1>5, <1>8, <2>1, <2>2
  <2>5. QED
    BY <1>13, <2>3, <2>4
<1>17. ASSUME NEW i \in 1 .. m
       PROVE  O[i] \in Tier(TopPriority(O[i]), left) /\ O[i] \in left
  <2>1. at(i) \in 1 .. n /\ O[i] = T[at(i)] /\ e[at(i)][1] = TopPriority(O[i])
    BY <1>13, <1>14
  <2>2. O[i] = e[at(i)][2] /\ e[at(i)] \in E
    BY <1>5, <2>1
  <2>3. QED
    BY <1>4, <2>1, <2>2
<1>18. O \in [1 .. m -> left]
  <2>1. O = [i \in 1 .. m |-> O[i]]
    BY <1>12
  <2>2. QED
    BY <1>17, <2>1
<1>19. InOrder(O, m, left)
  BY <1>12, <1>14, <1>15, <1>16, <1>17, <1>18 DEF InOrder, E
<1>20. QED
  BY <1>19 DEF O
-----------------------------------------------------------------------------
(* What Selection keeps.                                                     *)

StatsOf(c) == [error : 0 .. 100, latency : 0 .. Latency[c], ttft : 0 .. Latency[c],
               health : 0 .. 10]

StatsTyped ==
    /\ stats \in [ChannelIds -> UNION {StatsOf(c) : c \in ChannelIds}]
    /\ \A c \in ChannelIds : stats[c] \in StatsOf(c)

IInv ==
    /\ TypeOK
    /\ StatsTyped
    /\ IsFiniteSet(DOMAIN sticky) /\ Cardinality(DOMAIN sticky) <= MaxSessions

LEMMA InitIInv ==
    ASSUME SelectionAssumption
    PROVE  Init => IInv
<1> SUFFICES ASSUME Init
             PROVE  IInv
  OBVIOUS
<1>1. \A c \in ChannelIds : NewStats \in StatsOf(c)
  BY DEF SelectionAssumption, NewStats, StatsOf
<1>2. StatsTyped
  BY <1>1 DEF StatsTyped, Init
<1>3. DOMAIN sticky = {}
  BY DEF Init
<1>4. TypeOK
  BY <1>2, <1>3 DEF TypeOK, Init, StatsTyped, StatsOf, SelectionAssumption
<1>5. QED
  BY <1>2, <1>3, <1>4, FS_EmptySet, RankingAssumption DEF IInv

LEMMA AverageBounds ==
    ASSUME NEW limit \in Nat, NEW old \in 0 .. limit, NEW sample \in 0 .. limit
    PROVE  Average(old, sample) \in 0 .. limit
<1>1. sample + 4 * old \in 0 .. 5 * limit
  OBVIOUS
<1>2. (sample + 4 * old) \div 5 \in 0 .. limit
  BY <1>1
<1>3. QED
  BY <1>2 DEF Average

\* An answer or a probe leaves the averages of a channel in their types.
LEMMA StatsStep ==
    ASSUME SelectionAssumption, NEW c \in ChannelIds, NEW st \in StatsOf(c),
           NEW stream \in BOOLEAN
    PROVE  /\ AfterSuccess(st, Latency[c], stream) \in StatsOf(c)
           /\ AfterFailure(st) \in StatsOf(c)
           /\ AfterProbe(st, Latency[c]) \in StatsOf(c)
           /\ AfterFailedProbe(st) \in StatsOf(c)
<1>1. Latency[c] \in Nat \ {0}
  BY DEF SelectionAssumption
<1>2. /\ st.error \in 0 .. 100 /\ st.health \in 0 .. 10
      /\ st.latency \in 0 .. Latency[c] /\ st.ttft \in 0 .. Latency[c]
      /\ st = [error |-> st.error, latency |-> st.latency, ttft |-> st.ttft,
               health |-> st.health]
  BY DEF StatsOf
<1>3. (7 * st.error) \div 10 \in 0 .. 100 /\ (300 + 7 * st.error) \div 10 \in 0 .. 100
  BY <1>2
<1>4. Average(st.latency, Latency[c]) \in 0 .. Latency[c]
  BY <1>1, <1>2, AverageBounds
<1>5. Average(st.ttft, (Latency[c] + 1) \div 2) \in 0 .. Latency[c]
  <2>1. (Latency[c] + 1) \div 2 \in 0 .. Latency[c]
    BY <1>1
  <2>2. QED
    BY <1>1, <1>2, <2>1, AverageBounds
<1>6. AfterSuccess(st, Latency[c], stream) \in StatsOf(c)
  BY <1>2, <1>3, <1>4, <1>5 DEF AfterSuccess, StatsOf
<1>7. AfterFailure(st) \in StatsOf(c)
  BY <1>2, <1>3 DEF AfterFailure, StatsOf
<1>8. \A s \in StatsOf(c), h \in 0 .. 10 : [s EXCEPT !.health = h] \in StatsOf(c)
  BY DEF StatsOf
<1>9. SmallerOf(st.health + 2, 10) \in 0 .. 10 /\ LargerOf(st.health - 3, 0) \in 0 .. 10
  BY <1>2 DEF SmallerOf, LargerOf
<1>10. AfterProbe(st, Latency[c]) \in StatsOf(c)
  <2>1. AfterSuccess(st, Latency[c], FALSE) \in StatsOf(c)
    BY <1>2, <1>3, <1>4, <1>5 DEF AfterSuccess, StatsOf
  <2>2. QED
    BY <1>8, <1>9, <2>1 DEF AfterProbe
<1>11. AfterFailedProbe(st) \in StatsOf(c)
  BY <1>7, <1>8, <1>9 DEF AfterFailedProbe
<1>12. QED
  BY <1>6, <1>7, <1>10, <1>11

LEMMA OneStatChanges ==
    ASSUME StatsTyped, NEW c \in ChannelIds, NEW new \in StatsOf(c),
           stats' = [stats EXCEPT ![c] = new]
    PROVE  StatsTyped'
BY DEF StatsTyped, StatsOf

\* A session: a channel, and for how long it has not been used.
SessionType == [channel : ChannelIds, age : 0 .. SessionTTL]

StickyTyped(table) ==
    /\ DOMAIN table \in SUBSET Sessions /\ IsFiniteSet(DOMAIN table)
    /\ Cardinality(DOMAIN table) <= MaxSessions
    /\ \A s \in DOMAIN table : table[s] \in SessionType

Sticks(old, new) ==
    \A s \in DOMAIN old : old[s].age < SessionTTL => s \in DOMAIN new

\* Dropping the expired sessions drops no other.
LEMMA DropExpired ==
    ASSUME StickyTyped(sticky)
    PROVE  /\ StickyTyped(Dropped(sticky, Expired(sticky)))
           /\ Sticks(sticky, Dropped(sticky, Expired(sticky)))
<1> DEFINE new == Dropped(sticky, Expired(sticky))
<1>1. /\ DOMAIN new = DOMAIN sticky \ Expired(sticky)
      /\ \A s \in DOMAIN new : new[s] = sticky[s]
  BY DEF Dropped
<1> HIDE DEF new
<1>2. DOMAIN new \in SUBSET DOMAIN sticky
  BY <1>1
<1>3. IsFiniteSet(DOMAIN new) /\ Cardinality(DOMAIN new) <= Cardinality(DOMAIN sticky)
  BY <1>2, FS_Subset DEF StickyTyped
<1>4. Cardinality(DOMAIN new) <= MaxSessions
  <2>1. Cardinality(DOMAIN new) \in Nat /\ Cardinality(DOMAIN sticky) \in Nat
    BY <1>3, FS_CardinalityType DEF StickyTyped
  <2>2. QED
    BY <1>3, <2>1, RankingAssumption DEF StickyTyped
<1>5. StickyTyped(new)
  BY <1>1, <1>2, <1>3, <1>4 DEF StickyTyped
<1>6. Sticks(sticky, new)
  <2>1. \A s \in DOMAIN sticky : sticky[s].age \in Int
    BY RankingAssumption DEF StickyTyped, SessionType
  <2>2. QED
    BY <1>1, <2>1, RankingAssumption DEF Sticks, Expired
<1>7. QED
  BY <1>5, <1>6 DEF new

\* A table has a new session only when there is room for it.
LEMMA RememberedTyped ==
    ASSUME StickyTyped(sticky), NEW s \in Sessions, NEW c \in ChannelIds
    PROVE  StickyTyped(Remembered(s, c)) /\ Sticks(sticky, Remembered(s, c))
<1> DEFINE dropped == Dropped(sticky, Expired(sticky))
           table == IF Cardinality(DOMAIN sticky) >= MaxSessions THEN dropped ELSE sticky
           more == [t \in DOMAIN table \cup {s} |-> IF t = s THEN Session(c) ELSE table[t]]
<1>1. StickyTyped(table) /\ Sticks(sticky, table)
  BY DropExpired DEF Sticks
<1>2. Remembered(s, c) = IF Cardinality(DOMAIN table) >= MaxSessions THEN table ELSE more
  BY DEF Remembered
<1>3. ASSUME ~(Cardinality(DOMAIN table) >= MaxSessions)
      PROVE  StickyTyped(more) /\ Sticks(sticky, more)
  <2>1. DOMAIN more = DOMAIN table \cup {s}
    OBVIOUS
  <2>2. \A t \in DOMAIN more : more[t] \in SessionType
    BY <1>1, RankingAssumption DEF StickyTyped, Session, SessionType
  <2> HIDE DEF table, more
  <2>3. /\ IsFiniteSet(DOMAIN table) /\ Cardinality(DOMAIN table) \in Nat
        /\ MaxSessions \in Nat
    BY <1>1, FS_CardinalityType, RankingAssumption DEF StickyTyped
  <2>4. /\ IsFiniteSet(DOMAIN more)
        /\ Cardinality(DOMAIN more) <= Cardinality(DOMAIN table) + 1
    <3>1. /\ IsFiniteSet(DOMAIN table \cup {s})
          /\ Cardinality(DOMAIN table \cup {s}) =
                IF s \in DOMAIN table THEN Cardinality(DOMAIN table)
                ELSE Cardinality(DOMAIN table) + 1
      BY <2>3, FS_AddElement
    <3>2. QED
      BY <2>1, <2>3, <3>1
  <2>5. Cardinality(DOMAIN more) \in Nat
    BY <2>4, FS_CardinalityType
  <2>6. Cardinality(DOMAIN more) <= MaxSessions
    BY <1>3, <2>3, <2>4, <2>5
  <2>7. DOMAIN more \in SUBSET Sessions
    BY <1>1, <2>1 DEF StickyTyped
  <2>8. Sticks(sticky, more)
    BY <1>1, <2>1 DEF Sticks
  <2>9. QED
    BY <2>2, <2>4, <2>6, <2>7, <2>8 DEF StickyTyped
<1> HIDE DEF table, more
<1>4. QED
  BY <1>1, <1>2, <1>3

\* A session that is not used gets older, and stays.
LEMMA SessionsAge ==
    ASSUME StickyTyped(sticky), Tick
    PROVE  StickyTyped(sticky') /\ Sticks(sticky, sticky')
<1>1. /\ DOMAIN sticky' = DOMAIN sticky
      /\ \A s \in DOMAIN sticky :
            sticky'[s] = [sticky[s] EXCEPT !.age = SmallerOf(@ + 1, SessionTTL)]
  BY DEF Tick
<1>2. ASSUME NEW s \in DOMAIN sticky
      PROVE  sticky'[s] \in SessionType
  <2>1. sticky[s] \in SessionType /\ SessionTTL \in Nat
    BY RankingAssumption DEF StickyTyped
  <2>2. SmallerOf(sticky[s].age + 1, SessionTTL) \in 0 .. SessionTTL
    BY <2>1 DEF SmallerOf, SessionType
  <2>3. QED
    BY <1>1, <2>1, <2>2 DEF SessionType
<1>3. QED
  BY <1>1, <1>2 DEF StickyTyped, Sticks
-----------------------------------------------------------------------------
(* The steps.                                                                *)

\* The part of the invariant about the sessions.
LEMMA StickyPart ==
    TypeOK /\ IsFiniteSet(DOMAIN sticky) /\ Cardinality(DOMAIN sticky) <= MaxSessions
        => StickyTyped(sticky)
BY DEF TypeOK, StickyTyped, SessionType

\* A step that takes a sample changes the averages of one channel at most.
LEMMA AnswersKeep ==
    ASSUME SelectionAssumption, IInv, NEW c \in ChannelIds,
           \/ ProbeSucceeds(c) \/ ProbeFails(c) \/ Fail(c)
           \/ \E s \in Sessions \cup {Absent}, stream \in BOOLEAN : Succeed(s, c, stream)
    PROVE  StatsTyped' /\ samples' \in 0 .. MaxSamples
<1>1. StatsTyped /\ stats[c] \in StatsOf(c) /\ samples \in 0 .. MaxSamples
      /\ MaxSamples \in Nat
  BY DEF IInv, StatsTyped, TypeOK, SelectionAssumption
<1>2. samples' \in 0 .. MaxSamples
  <2>1. Sampled
    BY DEF ProbeSucceeds, ProbeFails, Fail, Succeed
  <2>2. QED
    BY <1>1, <2>1 DEF Sampled
<1>3. CASE ProbeSucceeds(c)
  <2>1. AfterProbe(stats[c], Latency[c]) \in StatsOf(c)
    BY <1>1, StatsStep
  <2>2. stats' = [stats EXCEPT ![c] = AfterProbe(stats[c], Latency[c])]
    BY <1>3 DEF ProbeSucceeds
  <2>3. StatsTyped'
    BY <1>1, <2>1, <2>2, OneStatChanges
  <2>4. QED
    BY <1>2, <2>3
<1>4. CASE ProbeFails(c)
  <2>1. AfterFailedProbe(stats[c]) \in StatsOf(c)
    BY <1>1, StatsStep
  <2>2. stats' = [stats EXCEPT ![c] = AfterFailedProbe(stats[c])]
    BY <1>4 DEF ProbeFails
  <2>3. StatsTyped'
    BY <1>1, <2>1, <2>2, OneStatChanges
  <2>4. QED
    BY <1>2, <2>3
<1>5. CASE Fail(c)
  <2>1. AfterFailure(stats[c]) \in StatsOf(c)
    BY <1>1, StatsStep
  <2>2. stats' = [stats EXCEPT ![c] = AfterFailure(stats[c])]
    BY <1>5 DEF Fail
  <2>3. StatsTyped'
    BY <1>1, <2>1, <2>2, OneStatChanges
  <2>4. QED
    BY <1>2, <2>3
<1>6. CASE \E s \in Sessions \cup {Absent}, stream \in BOOLEAN : Succeed(s, c, stream)
  <2>1. PICK s \in Sessions \cup {Absent}, stream \in BOOLEAN : Succeed(s, c, stream)
    BY <1>6
  <2>2. AfterSuccess(stats[c], Latency[c], stream) \in StatsOf(c)
    BY <1>1, StatsStep
  <2>3. stats' = [stats EXCEPT ![c] = AfterSuccess(stats[c], Latency[c], stream)]
    BY <2>1 DEF Succeed
  <2>4. StatsTyped'
    BY <1>1, <2>2, <2>3, OneStatChanges
  <2>5. QED
    BY <1>2, <2>4
<1>7. QED
  BY <1>3, <1>4, <1>5, <1>6

LEMMA StickyStep ==
    ASSUME SelectionAssumption, IInv, [Next]_vars
    PROVE  StickyTyped(sticky)' /\ Sticks(sticky, sticky')
<1>1. StickyTyped(sticky)
  BY StickyPart DEF IInv
<1>2. CASE UNCHANGED sticky
  BY <1>1, <1>2 DEF StickyTyped, Sticks
<1>3. ASSUME NEW s \in Sessions, NEW c \in ChannelIds, sticky' = Remembered(s, c)
      PROVE  StickyTyped(sticky)' /\ Sticks(sticky, sticky')
  <2>1. StickyTyped(sticky') /\ Sticks(sticky, sticky')
    BY <1>1, <1>3, RememberedTyped
  <2>2. QED
    BY <2>1 DEF StickyTyped
<1>4. CASE CleanupSessions
  <2>1. StickyTyped(sticky') /\ Sticks(sticky, sticky')
    BY <1>1, <1>4, DropExpired DEF CleanupSessions
  <2>2. QED
    BY <2>1 DEF StickyTyped
<1>5. CASE Tick
  <2>1. StickyTyped(sticky') /\ Sticks(sticky, sticky')
    BY <1>1, <1>5, SessionsAge
  <2>2. QED
    BY <2>1 DEF StickyTyped
<1>6. CASE Next
  <2>1. CASE \E c \in ChannelIds : \/ ProbeSucceeds(c) \/ ProbeFails(c) \/ Blacklist(c)
                                 \/ TakeOrFree(c) \/ Administer(c) \/ Fail(c)
    BY <1>2, <2>1 DEF ProbeSucceeds, ProbeFails, Blacklist, TakeOrFree,
                     Administer, Fail
  <2>2. ASSUME NEW c \in ChannelIds, NEW s \in Sessions \cup {Absent}, NEW stream \in BOOLEAN,
               Succeed(s, c, stream)
        PROVE  StickyTyped(sticky)' /\ Sticks(sticky, sticky')
    <3>1. UNCHANGED sticky \/ (s \in Sessions /\ sticky' = Remembered(s, c))
      BY <2>2 DEF Succeed
    <3>2. QED
      BY <1>2, <1>3, <3>1
  <2>3. QED
    BY <1>4, <1>5, <1>6, <2>1, <2>2 DEF Next
<1>7. QED
  BY <1>2, <1>6 DEF vars

LEMMA StepIInv ==
    ASSUME SelectionAssumption
    PROVE  IInv /\ [Next]_vars => IInv'
<1> SUFFICES ASSUME IInv, [Next]_vars
             PROVE  IInv'
  OBVIOUS
<1>1. StickyTyped(sticky)'
  BY StickyStep
<1>2. StatsTyped' /\ samples' \in 0 .. MaxSamples
  <2>1. CASE UNCHANGED <<stats, samples>>
    BY <2>1 DEF IInv, TypeOK, StatsTyped
  <2>2. CASE \E c \in ChannelIds :
                \/ ProbeSucceeds(c) \/ ProbeFails(c) \/ Fail(c)
                \/ \E s \in Sessions \cup {Absent}, stream \in BOOLEAN : Succeed(s, c, stream)
    BY <2>2, AnswersKeep
  <2>3. QED
    BY <2>1, <2>2
       DEF Next, vars, Blacklist, TakeOrFree, Administer, CleanupSessions, Tick
<1>3. /\ listed' \subseteq ChannelIds /\ active' \in [ChannelIds -> 0 .. 1]
      /\ usable' \subseteq ChannelIds
  <2>1. /\ listed \subseteq ChannelIds /\ active \in [ChannelIds -> 0 .. 1]
        /\ usable \subseteq ChannelIds
    BY DEF IInv, TypeOK
  <2>2. ASSUME NEW c \in ChannelIds, Blacklist(c)
        PROVE  listed' \subseteq ChannelIds /\ UNCHANGED <<active, usable>>
    BY <2>1, <2>2 DEF Blacklist
  <2>3. ASSUME NEW c \in ChannelIds, TakeOrFree(c)
        PROVE  active' \in [ChannelIds -> 0 .. 1] /\ UNCHANGED <<listed, usable>>
    BY <2>1, <2>3 DEF TakeOrFree
  <2>4. ASSUME NEW c \in ChannelIds, Administer(c)
        PROVE  usable' \subseteq ChannelIds /\ UNCHANGED <<listed, active>>
    BY <2>1, <2>4 DEF Administer
  <2>5. CASE UNCHANGED <<listed, active, usable>>
    BY <2>1, <2>5
  <2>6. QED
    BY <2>1, <2>2, <2>3, <2>4, <2>5
       DEF Next, vars, ProbeSucceeds, ProbeFails, Fail, Succeed, CleanupSessions, Tick
<1>4. TypeOK'
  BY <1>1, <1>2, <1>3 DEF TypeOK, StatsTyped, StatsOf, StickyTyped, SessionType
<1>5. QED
  BY <1>1, <1>2, <1>4 DEF IInv, StickyTyped

\* Averages, health, loads and sessions stay in their ranges
\* (scheduler/runtime.rs, scheduler/sticky.rs).
THEOREM TypeOKHolds ==
    ASSUME SelectionAssumption
    PROVE  Spec => []TypeOK
<1>1. Init => IInv
  BY InitIInv
<1>2. IInv /\ [Next]_vars => IInv'
  BY StepIInv
<1>3. IInv => TypeOK
  BY DEF IInv
<1>4. QED
  BY <1>1, <1>2, <1>3, PTL DEF Spec

\* The table of sessions stays within its limit, and forgets none before its
\* time, for any number of sessions (scheduler/sticky.rs:48-75).
THEOREM SessionsKeptHolds ==
    ASSUME SelectionAssumption
    PROVE  Spec => SessionsKept
<1>1. Init => IInv
  BY InitIInv
<1>2. IInv /\ [Next]_vars => IInv'
  BY StepIInv
<1>3. IInv /\ [Next]_vars => [KeepsSessions]_sticky
  BY StickyStep DEF KeepsSessions, StickyTyped, Sticks
<1>4. QED
  BY <1>1, <1>2, <1>3, PTL DEF Spec, SessionsKept

-----------------------------------------------------------------------------
(* What a request gets.                                                      *)

LEMMA InvMeasured ==
    ASSUME SelectionAssumption, IInv
    PROVE  Measured
<1>1. \A c \in ChannelIds : /\ stats[c].error \in Int /\ stats[c].health \in Nat
                          /\ stats[c].latency \in Nat /\ stats[c].ttft \in Nat
                          /\ active[c] \in Int
  <2>1. ASSUME NEW c \in ChannelIds
        PROVE  stats[c] \in StatsOf(c) /\ Latency[c] \in Nat /\ active[c] \in Int
    BY DEF IInv, StatsTyped, TypeOK, SelectionAssumption
  <2>2. QED
    BY <2>1 DEF StatsOf
<1>2. QED
  BY <1>1 DEF Measured, Speed, Health

\* An item's channel is among the entries, whatever is left.
LEMMA ItemsAmongEntries ==
    ASSUME NEW left \in SUBSET ChannelIds, NEW c \in ChannelsOf(DOMAIN Items), c \in left
    PROVE  \E x \in Entries(left) : x[2] = c
<1>1. PICK i \in DOMAIN Items : Items[i].channel = c
  BY DEF ChannelsOf
<1>2. <<Items[i].priority, Items[i].channel>> \in Entries(left)
  BY <1>1, EntriesTyped
<1>3. <<Items[i].priority, Items[i].channel>>[2] = c
  BY <1>1
<1>4. QED
  BY <1>2, <1>3

\* Lists of one and of none.
LEMMA ShortLists ==
    ASSUME NEW C
    PROVE  /\ <<>> \in [1 .. 0 -> C]
           /\ \A x \in C : <<x>> \in [1 .. 1 -> C]
           /\ \A x : <<x>>[1] = x
OBVIOUS

\* The session's channel, if the session goes back to it.
Own(s) == IF GoesBack(s) THEN {sticky[s].channel} ELSE {}

\* The list for s: its own channel, if any, and then the m channels of O.
MadeOf(list, s, O, m, k) ==
    /\ InOrder(O, m, ChannelIds \ Own(s))
    /\ k = IF GoesBack(s) THEN 1 ELSE 0
    /\ DOMAIN list = 1 .. k + m /\ Len(list) = k + m
    /\ GoesBack(s) => list[1].channel = sticky[s].channel /\ list[1].sticky
    /\ \A i \in 1 .. k + m : i > k => list[i].channel = O[i - k] /\ ~list[i].sticky

LEMMA CandidatesMade ==
    ASSUME SelectionAssumption, IInv, NEW s
    PROVE  \E O, m, k : MadeOf(Candidates(s), s, O, m, k)
<1> DEFINE left == ChannelIds \ Own(s)
           O == Ordered(left)
           head == IF GoesBack(s) THEN <<Candidate(sticky[s].channel, Absent, TRUE)>> ELSE <<>>
           tail == [i \in DOMAIN O |-> Candidate(O[i], FirstModel(O[i]), FALSE)]
           list == Candidates(s)
           k == IF GoesBack(s) THEN 1 ELSE 0
<1>1. list = head \o tail
  BY DEF Candidates, Own
<1>2. GoesBack(s) => sticky[s].channel \in ChannelIds
  BY DEF IInv, TypeOK, GoesBack, LiveSession
<1>3. PICK m : InOrder(O, m, left)
  <2>1. left \in SUBSET ChannelIds
    OBVIOUS
  <2> HIDE DEF left
  <2>2. QED
    BY <2>1, InvMeasured, OrderedInOrder
<1> HIDE DEF O, list
<1>4. m \in Nat /\ O \in [1 .. m -> left] /\ DOMAIN O = 1 .. m
  BY <1>3 DEF InOrder
<1> DEFINE C == [channel : ChannelIds, model : {Absent} \cup {FirstModel(c) : c \in ChannelIds},
                 sticky : BOOLEAN]
<1>5. k \in Nat /\ head \in [1 .. k -> C] /\ tail \in [1 .. m -> C]
  <2>1. \A c \in ChannelIds : /\ Candidate(c, FirstModel(c), FALSE) \in C
                            /\ Candidate(c, Absent, TRUE) \in C
    BY DEF Candidate
  <2>2. \A i \in 1 .. m : O[i] \in ChannelIds
    BY <1>4
  <2> HIDE DEF C
  <2>3. tail \in [1 .. m -> C]
    BY <1>4, <2>1, <2>2
  <2>4. k \in Nat /\ head \in [1 .. k -> C]
    <3>1. CASE GoesBack(s)
      <4>1. Candidate(sticky[s].channel, Absent, TRUE) \in C
        BY <1>2, <2>1, <3>1
      <4>2. QED
        BY <3>1, <4>1, ShortLists
    <3>2. CASE ~GoesBack(s)
      BY <3>2, ShortLists
    <3>3. QED
      BY <3>1, <3>2
  <2>5. QED
    BY <2>3, <2>4
<1>6. /\ list \in [1 .. k + m -> C]
      /\ \A i \in 1 .. k + m : list[i] = IF i <= k THEN head[i] ELSE tail[i - k]
  <2> HIDE DEF head, tail, k, C
  <2>1. Joins(list, k, m, head, tail, C)
    BY <1>1, <1>4, <1>5, Concatenation
  <2>2. QED
    BY <2>1 DEF Joins
<1>7. GoesBack(s) => list[1].channel = sticky[s].channel /\ list[1].sticky
  <2>1. SUFFICES ASSUME GoesBack(s)
                 PROVE  list[1].channel = sticky[s].channel /\ list[1].sticky
    OBVIOUS
  <2>2. k = 1 /\ 1 \in 1 .. k + m
    BY <1>4, <2>1
  <2>3. list[1] = head[1]
    <3> HIDE DEF head, tail, k, C
    <3>1. 1 <= k
      BY <2>2
    <3>2. QED
      BY <1>6, <2>2, <3>1
  <2>4. list[1] = Candidate(sticky[s].channel, Absent, TRUE)
    BY <2>1, <2>3, ShortLists
  <2>5. QED
    BY <2>4 DEF Candidate
<1>8. \A i \in 1 .. k + m : i > k => list[i].channel = O[i - k] /\ ~list[i].sticky
  <2>1. SUFFICES ASSUME NEW i \in 1 .. k + m, i > k
                 PROVE  list[i].channel = O[i - k] /\ ~list[i].sticky
    OBVIOUS
  <2>2. i - k \in 1 .. m /\ ~(i <= k)
    BY <1>4, <2>1
  <2>3. list[i] = Candidate(O[i - k], FirstModel(O[i - k]), FALSE)
    BY <1>4, <1>6, <2>2
  <2>4. QED
    BY <2>3 DEF Candidate
<1>9. DOMAIN list = 1 .. k + m /\ Len(list) = k + m
  BY <1>4, <1>5, <1>6
<1>10. MadeOf(list, s, O, m, k)
  BY <1>3, <1>7, <1>8, <1>9 DEF MadeOf
<1>11. QED
  BY <1>10 DEF list

LEMMA ListTriesOnce ==
    ASSUME SelectionAssumption, IInv, NEW list, NEW s, NEW O, NEW m, NEW k,
           MadeOf(list, s, O, m, k)
    PROVE  EveryChannelOnce(list) /\ SessionFirst(s, list)
<1> DEFINE left == ChannelIds \ Own(s)
           tried == {list[i].channel : i \in DOMAIN list}
<1>1. /\ m \in Nat /\ O \in [1 .. m -> left]
      /\ \A x \in Entries(left) : \E i \in 1 .. m : O[i] = x[2]
      /\ \A i, j \in 1 .. m : i < j => O[i] # O[j]
  BY DEF MadeOf, InOrder
<1>2. /\ k \in {0, 1} /\ (k = 1 <=> GoesBack(s))
      /\ DOMAIN list = 1 .. k + m /\ Len(list) = k + m /\ k + m \in Nat
  BY <1>1 DEF MadeOf
<1>3. GoesBack(s) => /\ list[1].channel = sticky[s].channel /\ list[1].sticky
                     /\ list[1].channel \in Own(s) /\ 1 \in 1 .. k + m
  BY <1>1, <1>2 DEF MadeOf, Own
<1>4. \A i \in 1 .. k + m : i > k => /\ list[i].channel = O[i - k] /\ ~list[i].sticky
                                     /\ i - k \in 1 .. m /\ list[i].channel \in left
  <2>1. SUFFICES ASSUME NEW i \in 1 .. k + m, i > k
                 PROVE  /\ list[i].channel = O[i - k] /\ ~list[i].sticky
                        /\ i - k \in 1 .. m /\ list[i].channel \in left
    OBVIOUS
  <2>2. i - k \in 1 .. m
    BY <1>1, <1>2, <2>1
  <2>3. list[i].channel = O[i - k] /\ ~list[i].sticky
    BY <2>1 DEF MadeOf
  <2>4. QED
    BY <1>1, <2>2, <2>3
<1>5. SessionFirst(s, list)
  <2>1. ASSUME NEW i \in 1 .. k + m
        PROVE  /\ list[i].sticky <=> i = 1 /\ GoesBack(s)
               /\ list[i].sticky => list[i].channel = sticky[s].channel
    <3>1. CASE i > k
      BY <1>2, <1>4, <2>1, <3>1
    <3>2. CASE ~(i > k)
      BY <1>2, <1>3, <2>1, <3>2
    <3>3. QED
      BY <3>1, <3>2
  <2>2. QED
    BY <1>2, <2>1 DEF SessionFirst, GoesBack
<1>6. ChannelsOf(DOMAIN Items) \subseteq tried
  <2>1. ASSUME NEW c \in ChannelsOf(DOMAIN Items)
        PROVE  \E i \in 1 .. k + m : list[i].channel = c
    <3>1. c \in ChannelIds
      BY ItemsTyped DEF ChannelsOf
    <3>2. CASE c \in Own(s)
      BY <1>3, <3>2 DEF Own
    <3>3. CASE c \notin Own(s)
      <4>1. left \in SUBSET ChannelIds /\ c \in left
        BY <3>1, <3>3
      <4>2. PICK x \in Entries(left) : x[2] = c
        <5> HIDE DEF left
        <5>1. QED
          BY <4>1, ItemsAmongEntries
      <4>3. PICK i \in 1 .. m : O[i] = c
        BY <1>1, <4>2
      <4>4. k + i \in 1 .. k + m /\ k + i > k /\ (k + i) - k = i
        BY <1>1, <1>2
      <4>5. list[k + i].channel = c
        BY <1>4, <4>3, <4>4
      <4>6. QED
        BY <4>4, <4>5
    <3>4. QED
      BY <3>2, <3>3
  <2>2. QED
    BY <1>2, <2>1
<1>7. \A i, j \in 1 .. k + m : i < j => list[i].channel # list[j].channel
  <2>1. ASSUME NEW i \in 1 .. k + m, NEW j \in 1 .. k + m, i < j
        PROVE  list[i].channel # list[j].channel
    <3>1. CASE i > k
      <4>1. list[i].channel = O[i - k] /\ list[j].channel = O[j - k]
            /\ i - k \in 1 .. m /\ j - k \in 1 .. m /\ i - k < j - k
        BY <1>2, <1>4, <2>1, <3>1
      <4>2. QED
        BY <1>1, <4>1
    <3>2. CASE ~(i > k)
      <4>1. i = 1 /\ GoesBack(s) /\ j > k
        BY <1>2, <2>1, <3>2
      <4>2. QED
        BY <1>3, <1>4, <4>1
    <3>3. QED
      BY <3>1, <3>2
  <2>2. QED
    BY <2>1
<1>8. Len(list) = Cardinality(tried)
  <2> DEFINE channel == [i \in 1 .. k + m |-> list[i].channel]
  <2>1. channel \in Bijection(1 .. k + m, tried)
    <3>1. channel \in Surjection(1 .. k + m, tried)
      BY <1>2 DEF Surjection
    <3>2. \A i, j \in 1 .. k + m : channel[i] = channel[j] => i = j
      BY <1>2, <1>7
    <3>3. channel \in [1 .. k + m -> tried]
      BY <1>2
    <3> HIDE DEF channel, tried
    <3>4. QED
      BY <3>1, <3>2, <3>3 DEF Bijection, Injection, IsInjective
  <2> HIDE DEF channel, tried
  <2>2. ExistsBijection(1 .. k + m, tried)
    BY <2>1 DEF ExistsBijection
  <2>3. Cardinality(tried) = k + m
    BY <1>2, <2>2, FS_CountingElements
  <2>4. QED
    BY <1>2, <2>3
<1>9. QED
  BY <1>5, <1>6, <1>8 DEF EveryChannelOnce

LEMMA ListBetterFirst ==
    ASSUME SelectionAssumption, IInv, NEW list, NEW s, NEW O, NEW m, NEW k,
           MadeOf(list, s, O, m, k)
    PROVE  BetterFirst(list)
<1> DEFINE left == ChannelIds \ Own(s)
<1>1. Measured /\ left \in SUBSET ChannelIds
  BY InvMeasured
<1>2. InOrder(O, m, left)
  BY DEF MadeOf
<1> HIDE DEF left
<1>3. ASSUME NEW i \in 1 .. m, NEW j \in 1 .. m, i < j
      PROVE  /\ Health(O[i]) = 0 => Health(O[j]) = 0
             /\ (Health(O[i]) = 0 <=> Health(O[j]) = 0) => TopPriority(O[i]) <= TopPriority(O[j])
             /\ TopPriority(O[i]) = TopPriority(O[j]) => ~Better(O[j], O[i])
  <2> DEFINE c == O[i]  d == O[j]  tier == Tier(TopPriority(c), left)
  <2>1. /\ c \in ChannelIds /\ d \in ChannelIds
        /\ TopPriority(c) \in Nat /\ TopPriority(d) \in Nat
        /\ c \in tier /\ d \in Tier(TopPriority(d), left)
        /\ \/ Healthy(c) /\ ~Healthy(d)
           \/ /\ Healthy(c) <=> Healthy(d)
              /\ \/ TopPriority(c) < TopPriority(d)
                 \/ TopPriority(c) = TopPriority(d) /\ Outranks(c, d, tier)
    BY <1>1, <1>2, <1>3 DEF InOrder
  <2> HIDE DEF c, d
  <2>2. Health(c) \in Nat /\ Health(d) \in Nat
    BY <1>1, <2>1 DEF Measured
  <2>3. ASSUME TopPriority(c) = TopPriority(d), Better(d, c)
        PROVE  FALSE
    <3>1. Health(d) >= Health(c)
      BY <2>3 DEF Better
    <3>2. Outranks(c, d, tier)
      BY <2>1, <2>2, <2>3, <3>1 DEF Healthy
    <3>3. c \in tier /\ d \in tier /\ tier \in SUBSET ChannelIds /\ IsFiniteSet(tier)
      BY <1>1, <2>1, <2>3, TierTyped
    <3> HIDE DEF tier
    <3>4. Score(c, tier) \in Int /\ Score(d, tier) \in Int
      BY <1>1, <3>3, ScoreIsNumber
    <3>5. Score(d, tier) > Score(c, tier)
      BY <1>1, <2>3, <3>3, BetterScoresHigher
    <3>6. QED
      BY <3>2, <3>4, <3>5 DEF Outranks
  <2>4. /\ Health(c) = 0 => Health(d) = 0
        /\ (Health(c) = 0 <=> Health(d) = 0) => TopPriority(c) <= TopPriority(d)
    BY <2>1, <2>2 DEF Healthy
  <2>5. QED
    BY <2>3, <2>4 DEF c, d
<1>4. m \in Nat /\ k \in {0, 1} /\ DOMAIN list = 1 .. k + m
  BY <1>2 DEF MadeOf, InOrder
<1>5. ASSUME NEW i \in 1 .. k + m, NEW j \in 1 .. k + m, i < j, ~list[i].sticky
      PROVE  /\ i - k \in 1 .. m /\ j - k \in 1 .. m /\ i - k < j - k
             /\ list[i].channel = O[i - k] /\ list[j].channel = O[j - k]
  <2>1. i > k /\ j > k
    BY <1>4, <1>5 DEF MadeOf
  <2>2. QED
    BY <1>4, <1>5, <2>1 DEF MadeOf
<1>6. \A i, j \in DOMAIN list : i < j /\ ~list[i].sticky =>
         LET c == list[i].channel  d == list[j].channel IN
         /\ Health(c) = 0 => Health(d) = 0
         /\ (Health(c) = 0 <=> Health(d) = 0) => TopPriority(c) <= TopPriority(d)
         /\ TopPriority(c) = TopPriority(d) => ~Better(d, c)
  BY <1>3, <1>4, <1>5
<1>7. QED
  BY <1>6 DEF BetterFirst

\* A request tries each channel of its route once, the one of its session first
\* if that can be used, those without health last, then by priority, and never
\* one before another of its tier that is better, for any items, measurements
\* and sessions (candidates.rs:80-208, scoring.rs:54-80).
THEOREM CandidatesInOrderHolds ==
    ASSUME SelectionAssumption
    PROVE  Spec => []CandidatesInOrder
<1>1. Init => IInv
  BY InitIInv
<1>2. IInv /\ [Next]_vars => IInv'
  BY StepIInv
<1>3. IInv => CandidatesInOrder
  <2> SUFFICES ASSUME IInv, NEW s \in DOMAIN sticky \cup {Absent}
               PROVE  /\ EveryChannelOnce(Candidates(s))
                      /\ SessionFirst(s, Candidates(s))
                      /\ BetterFirst(Candidates(s))
    BY DEF CandidatesInOrder
  <2>1. PICK O, m, k : MadeOf(Candidates(s), s, O, m, k)
    BY CandidatesMade
  <2>2. QED
    BY <2>1, ListTriesOnce, ListBetterFirst
<1>4. QED
  BY <1>1, <1>2, <1>3, PTL DEF Spec
=============================================================================
