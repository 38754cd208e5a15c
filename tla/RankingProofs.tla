---------------------------- MODULE RankingProofs ----------------------------
(***************************************************************************)
(* Proofs about Ranking, for any memories, limits, weights of rank fusion  *)
(* and scales of scores.                                                   *)
(***************************************************************************)
EXTENDS RankingInvariant, FiniteSetTheorems, TLAPS

-----------------------------------------------------------------------------
(* Sorting.                                                                *)

(* What a list is sorted by: numbers, and distinct places.                 *)
Sortable(S, score, place) ==
  /\ IsFiniteSet(S)
  /\ \A c \in S : score[c] \in Int /\ place[c] \in Int
  /\ \A c, d \in S : place[c] = place[d] => c = d

(* A sorted list of S.                                                     *)
SortOf(S, score, place, list) ==
  /\ list \in [1 .. Cardinality(S) -> S]
  /\ \A n, k \in 1 .. Cardinality(S) : n < k => Before(score, place, list[n], list[k])

LEMMA BeforeIsStrict ==
  ASSUME NEW S, NEW score, NEW place, Sortable(S, score, place)
  PROVE  /\ \A c \in S : ~ Before(score, place, c, c)
         /\ \A c, d, e \in S :
              Before(score, place, c, d) /\ Before(score, place, d, e) => Before(score, place, c, e)
         /\ \A c, d \in S : c # d => Before(score, place, c, d) \/ Before(score, place, d, c)
  BY DEF Sortable, Before

(* The place of each c of S is found by counting what comes before it.     *)
LEMMA SortExists ==
  ASSUME NEW S, NEW score, NEW place, Sortable(S, score, place)
  PROVE  \E list : SortOf(S, score, place, list)
<1> DEFINE Lower(c) == {d \in S : Before(score, place, d, c)}
           rank == [c \in S |-> Cardinality(Lower(c)) + 1]
           size == Cardinality(S)
<1>1. /\ IsFiniteSet(S) /\ size \in Nat
      /\ \A c \in S : IsFiniteSet(Lower(c)) /\ Cardinality(Lower(c)) \in Nat
  BY FS_CardinalityType, FS_Subset DEF Sortable
<1>2. ASSUME NEW c \in S, NEW d \in S, Before(score, place, c, d)
      PROVE  Cardinality(Lower(c)) < Cardinality(Lower(d))
  <2>1. Lower(c) \cup {c} \subseteq Lower(d) /\ c \notin Lower(c)
    BY <1>2, BeforeIsStrict
  <2>2. Cardinality(Lower(c) \cup {c}) = Cardinality(Lower(c)) + 1
    BY <1>1, <2>1, FS_AddElement
  <2>3. Cardinality(Lower(c) \cup {c}) <= Cardinality(Lower(d))
    BY <1>1, <2>1, FS_Subset
  <2> QED BY <1>1, <2>2, <2>3
<1>3. ASSUME NEW c \in S PROVE Cardinality(Lower(c)) + 1 <= size
  <2>1. Lower(c) \cup {c} \subseteq S /\ c \notin Lower(c)
    BY BeforeIsStrict
  <2>2. Cardinality(Lower(c) \cup {c}) = Cardinality(Lower(c)) + 1
    BY <1>1, <2>1, FS_AddElement
  <2>3. Cardinality(Lower(c) \cup {c}) <= size
    BY <1>1, <2>1, FS_Subset
  <2> QED BY <2>2, <2>3
<1>4. rank \in [S -> 1 .. size]
  <2>1. \A c \in S : Cardinality(Lower(c)) + 1 \in 1 .. size
    BY <1>1, <1>3
  <2> HIDE DEF Lower
  <2> QED BY <2>1
<1>5. \A c, d \in S : Before(score, place, c, d) => rank[c] < rank[d]
  BY <1>1, <1>2
<1> HIDE DEF rank, Lower
<1>6. \A c, d \in S : rank[c] = rank[d] => c = d
  BY <1>4, <1>5, BeforeIsStrict
<1>7. rank \in Surjection(S, 1 .. size)
  <2>1. rank \in Injection(S, 1 .. size)
    BY <1>4, <1>6 DEF Injection, IsInjective
  <2>2. IsFiniteSet(1 .. size) /\ Cardinality(1 .. size) = size
    BY <1>1, FS_Interval
  <2> QED BY <1>1, <2>1, <2>2, FS_Injection
<1>8. \A n \in 1 .. size : \E c \in S : rank[c] = n
  BY <1>7 DEF Surjection
<1> DEFINE list == [n \in 1 .. size |-> CHOOSE c \in S : rank[c] = n]
<1>9. \A n \in 1 .. size : list[n] \in S /\ rank[list[n]] = n
  BY <1>8
<1>10. list \in [1 .. size -> S]
  BY <1>9
<1> HIDE DEF list
<1>11. ASSUME NEW n \in 1 .. size, NEW k \in 1 .. size, n < k
       PROVE  Before(score, place, list[n], list[k])
  <2>1. ~ Before(score, place, list[k], list[n]) /\ list[n] # list[k]
    BY <1>4, <1>5, <1>9, <1>11
  <2> QED BY <1>9, <2>1, BeforeIsStrict
<1>12. SortOf(S, score, place, list)
  BY <1>10, <1>11 DEF SortOf
<1> QED BY <1>12

(* What sorting returns: each c of S once, in order.                       *)
LEMMA SortedByIs ==
  ASSUME NEW S, NEW score, NEW place, Sortable(S, score, place)
  PROVE  LET list == SortedBy(S, score, place) IN
         /\ SortOf(S, score, place, list)
         /\ \A n, k \in 1 .. Cardinality(S) : list[n] = list[k] => n = k
         /\ \A c \in S : \E n \in 1 .. Cardinality(S) : list[n] = c
<1> DEFINE list == SortedBy(S, score, place)
           size == Cardinality(S)
<1>1. IsFiniteSet(S) /\ size \in Nat
  BY FS_CardinalityType DEF Sortable
<1>2. SortOf(S, score, place, list)
  <2>1. \E l \in [1 .. size -> S] :
          \A n, k \in DOMAIN l : n < k => Before(score, place, l[n], l[k])
    <3>1. PICK l : SortOf(S, score, place, l)
      BY SortExists
    <3> QED BY <3>1 DEF SortOf
  <2> QED BY <2>1 DEF SortedBy, SortOf
<1> HIDE DEF list
<1>3. ASSUME NEW n \in 1 .. size, NEW k \in 1 .. size, n # k
      PROVE  list[n] # list[k]
  <2>1. /\ list[n] \in S /\ list[k] \in S
        /\ Before(score, place, list[n], list[k]) \/ Before(score, place, list[k], list[n])
    BY <1>1, <1>2, <1>3 DEF SortOf
  <2> QED BY <2>1, BeforeIsStrict
<1>4. list \in Surjection(1 .. size, S)
  <2>1. list \in Injection(1 .. size, S)
    BY <1>2, <1>3 DEF Injection, IsInjective, SortOf
  <2>2. IsFiniteSet(1 .. size) /\ Cardinality(1 .. size) = size
    BY <1>1, FS_Interval
  <2> QED BY <1>1, <2>1, <2>2, FS_Injection
<1>5. \A c \in S : \E n \in 1 .. size : list[n] = c
  BY <1>4 DEF Surjection
<1> QED BY <1>2, <1>3, <1>5 DEF list

-----------------------------------------------------------------------------
(* Arithmetic.                                                             *)

LEMMA DivIs ==
  ASSUME NEW a \in Int, NEW b \in Int, b > 0
  PROVE  a \div b \in Int /\ b * (a \div b) <= a /\ a < b * (a \div b) + b
  OBVIOUS

LEMMA ProductMonotone ==
  ASSUME NEW a \in Int, NEW b \in Int, NEW c \in Nat, a <= b PROVE a * c <= b * c
  OBVIOUS

LEMMA ProductStrict ==
  ASSUME NEW a \in Int, NEW b \in Int, NEW c \in Int, c > 0, a * c <= b * c PROVE a <= b
  OBVIOUS

LEMMA DivMonotone ==
  ASSUME NEW a \in Int, NEW c \in Int, NEW b \in Int, b > 0, a <= c
  PROVE  a \div b <= c \div b
  OBVIOUS

LEMMA DivExact ==
  ASSUME NEW a \in Int, NEW b \in Int, b > 0
  PROVE  (b * a) \div b = a
  OBVIOUS

(* The extremes of finitely many numbers: they can be sorted.              *)
LEMMA ExtremesExist ==
  ASSUME NEW S \in SUBSET Int, IsFiniteSet(S), S # {}
  PROVE  /\ Max(S) \in S /\ \A k \in S : k <= Max(S)
         /\ Min(S) \in S /\ \A k \in S : Min(S) <= k
<1> DEFINE value == [k \in S |-> k]
           size == Cardinality(S)
<1>1. Sortable(S, value, value)
  BY DEF Sortable
<1> DEFINE list == SortedBy(S, value, value)
<1>2. /\ SortOf(S, value, value, list)
      /\ \A k \in S : \E n \in 1 .. size : list[n] = k
  <2> HIDE DEF value
  <2> QED BY <1>1, SortedByIs
<1> HIDE DEF list
<1>3. size \in Nat /\ size # 0
  BY FS_CardinalityType, FS_EmptySet
<1>4. 1 \in 1 .. size /\ size \in 1 .. size
  BY <1>3
<1>5. /\ \A n \in 1 .. size : list[n] \in S
      /\ \A n, k \in 1 .. size : n < k => list[n] >= list[k]
  <2>1. \A n \in 1 .. size : list[n] \in S
    BY <1>2 DEF SortOf
  <2>2. ASSUME NEW n \in 1 .. size, NEW k \in 1 .. size, n < k
        PROVE  list[n] >= list[k]
    <3>1. Before(value, value, list[n], list[k]) /\ list[n] \in S /\ list[k] \in S
      BY <1>2, <2>1, <2>2 DEF SortOf
    <3>2. /\ value[list[n]] = list[n] /\ value[list[k]] = list[k]
          /\ list[n] \in Int /\ list[k] \in Int
      BY <3>1
    <3> HIDE DEF value
    <3>3. value[list[n]] >= value[list[k]]
      BY <3>1, <3>2 DEF Before
    <3> QED BY <3>2, <3>3
  <2> QED BY <2>1, <2>2
<1> HIDE DEF size
<1>6. ASSUME NEW k \in S PROVE list[size] <= k /\ k <= list[1]
  <2>1. PICK n \in 1 .. size : list[n] = k
    BY <1>2
  <2>2. list[1] \in S /\ list[size] \in S
    BY <1>4, <1>5
  <2> QED BY <1>3, <1>4, <1>5, <2>1, <2>2
<1>7. list[1] \in S /\ list[size] \in S
  BY <1>4, <1>5
<1>8. Max(S) \in S /\ \A k \in S : k <= Max(S)
  BY <1>6, <1>7 DEF Max
<1>9. Min(S) \in S /\ \A k \in S : Min(S) <= k
  BY <1>6, <1>7 DEF Min
<1> QED BY <1>8, <1>9

(* normalize_scores keeps the order, stays on the scale and gives the best *)
(* the whole of it, unless nothing scored.                                 *)
LEMMA NormalizedIs ==
  ASSUME NEW D, IsFiniteSet(D), D # {}, NEW score \in [D -> Nat]
  PROVE  LET scaled == Normalized(score) IN
         /\ scaled \in [D -> 0 .. Whole]
         /\ \A c, d \in D : score[c] <= score[d] => scaled[c] <= scaled[d]
         /\ \/ \E c \in D : scaled[c] = Whole
            \/ \A c \in D : score[c] = 0
<1> DEFINE scaled == Normalized(score)
           low == Min(Range(score))
           high == Max(Range(score))
           Scale(c) == ((score[c] - low) * Whole) \div (high - low)
<1>1. Range(score) # {} /\ Range(score) \in SUBSET Int /\ \A c \in D : score[c] \in Range(score)
  BY DEF Range
<1>2. IsFiniteSet(Range(score))
  <2>1. score \in Surjection(D, Range(score))
    BY DEF Surjection, Range
  <2> QED BY <2>1, FS_Surjection
<1>3. /\ high \in Range(score) /\ low \in Range(score)
      /\ \A c \in D : low <= score[c] /\ score[c] <= high
  BY <1>1, <1>2, ExtremesExist
<1>4. PICK best \in D : score[best] = high
  BY <1>3 DEF Range
<1>5. low \in Nat /\ high \in Nat /\ low <= high /\ Whole \in Nat
  BY <1>3, <1>4, RankingBounds DEF Range
<1>6. scaled = [c \in D |-> IF low = high THEN IF high > 0 THEN Whole ELSE 0 ELSE Scale(c)]
  BY DEF Normalized
<1> HIDE DEF scaled, low, high
<1>7. CASE low = high
  <2>1. \A c \in D : score[c] = high
    BY <1>3, <1>5, <1>7
  <2>2. \A c \in D : scaled[c] = IF high > 0 THEN Whole ELSE 0
    BY <1>6, <1>7
  <2>3. scaled \in [D -> 0 .. Whole]
    BY <1>5, <1>6, <1>7
  <2> QED BY <1>4, <1>5, <2>1, <2>2, <2>3 DEF scaled
<1>8. CASE low # high
  <2>1. high - low \in Int /\ high - low > 0
    BY <1>5, <1>8
  <2>2. ASSUME NEW c \in D
        PROVE  /\ score[c] - low \in Nat /\ score[c] - low <= high - low
               /\ (score[c] - low) * Whole \in Nat
               /\ (score[c] - low) * Whole <= (high - low) * Whole
    <3>1. score[c] - low \in Nat /\ score[c] - low <= high - low
      BY <1>3, <1>5
    <3> QED BY <1>5, <2>1, <3>1, ProductMonotone
  <2>3. ((high - low) * Whole) \div (high - low) = Whole
    BY <1>5, <2>1, DivExact
  <2>4. ASSUME NEW c \in D PROVE Scale(c) \in 0 .. Whole
    <3>1. 0 \div (high - low) = 0
      BY <2>1
    <3>2. Scale(c) <= Whole
      <4>1. (high - low) * Whole \in Int
        BY <1>5, <2>1
      <4>2. Scale(c) <= ((high - low) * Whole) \div (high - low)
        BY <2>1, <2>2, <4>1, DivMonotone
      <4> QED BY <2>3, <4>2
    <3>3. 0 \div (high - low) <= Scale(c)
      BY <2>1, <2>2, DivMonotone
    <3>4. Scale(c) \in Int
      BY <2>1, <2>2, DivIs
    <3> QED BY <1>5, <3>1, <3>2, <3>3, <3>4
  <2>5. ASSUME NEW c \in D, NEW d \in D, score[c] <= score[d]
        PROVE  Scale(c) <= Scale(d)
    <3>1. (score[c] - low) * Whole <= (score[d] - low) * Whole
      BY <1>5, <2>2, <2>5, ProductMonotone
    <3> QED BY <2>1, <2>2, <3>1, DivMonotone
  <2>6. Scale(best) = Whole
    BY <1>4, <2>3
  <2> HIDE DEF Scale
  <2>7. \A c \in D : scaled[c] = Scale(c)
    BY <1>6, <1>8
  <2>8. scaled \in [D -> 0 .. Whole]
    BY <1>6, <1>8, <2>4
  <2> QED BY <2>5, <2>6, <2>7, <2>8 DEF scaled
<1> QED BY <1>7, <1>8

-----------------------------------------------------------------------------
(* Lists without repetition.                                               *)

LEMMA ListIs ==
  ASSUME NEW list, Once(list)
  PROVE  /\ Len(list) \in Nat /\ DOMAIN list = 1 .. Len(list)
         /\ \A n \in 1 .. Len(list) : list[n] \in Memories
         /\ \A n, k \in 1 .. Len(list) : list[n] = list[k] => n = k
         /\ \A n \in 1 .. Len(list) : RankIn(list, list[n]) = n
         /\ \A c : Contains(list, c) <=> c \in ToSet(list)
         /\ \A c \in ToSet(list) :
              /\ c \in Memories
              /\ RankIn(list, c) \in 1 .. Len(list) /\ list[RankIn(list, c)] = c
<1>1. /\ Len(list) \in Nat /\ DOMAIN list = 1 .. Len(list)
      /\ \A n \in 1 .. Len(list) : list[n] \in Memories
  BY DEF Once
<1>2. \A n, k \in 1 .. Len(list) : list[n] = list[k] => n = k
  BY <1>1 DEF Once, IsInjective
<1>3. \A n \in 1 .. Len(list) : RankIn(list, list[n]) = n
  BY <1>1, <1>2 DEF RankIn
<1>4. \A c : Contains(list, c) <=> c \in ToSet(list)
  BY <1>1 DEF Contains, ToSet
<1>5. ASSUME NEW c \in ToSet(list)
      PROVE  /\ c \in Memories
             /\ RankIn(list, c) \in 1 .. Len(list) /\ list[RankIn(list, c)] = c
  <2>1. PICK n \in 1 .. Len(list) : list[n] = c
    BY <1>1 DEF ToSet
  <2> QED BY <1>1, <1>3, <2>1
<1> QED BY <1>1, <1>2, <1>3, <1>4, <1>5

(* There are no more ranks than memories.                                  *)
LEMMA ListIsShort ==
  ASSUME NEW list, Once(list)
  PROVE  Len(list) <= Cardinality(Memories) /\ IsFiniteSet(ToSet(list))
<1>1. /\ Len(list) \in Nat /\ DOMAIN list = 1 .. Len(list)
      /\ \A n \in 1 .. Len(list) : list[n] \in Memories
      /\ \A n, k \in 1 .. Len(list) : list[n] = list[k] => n = k
  BY ListIs
<1>2. list \in Injection(1 .. Len(list), Memories)
  BY <1>1 DEF Injection, IsInjective, Once
<1>3. Cardinality(1 .. Len(list)) = Len(list)
  BY <1>1, FS_Interval
<1>4. Len(list) <= Cardinality(Memories)
  BY <1>2, <1>3, RankingBounds, FS_Injection
<1>5. ToSet(list) \subseteq Memories
  BY ListIs
<1> QED BY <1>4, <1>5, RankingBounds, FS_Subset

(* The lists of the database.                                              *)
LEMMA RankingsAreOnce ==
  ASSUME NEW list \in SetToAllKPermutations(Memories)
  PROVE  Once(list)
<1>1. PICK S \in SUBSET Memories : list \in SetToSeqs(S)
  BY DEF SetToAllKPermutations
<1>2. /\ list \in [1 .. Cardinality(S) -> S]
      /\ \A n, k \in 1 .. Cardinality(S) : n # k => list[n] # list[k]
  BY <1>1 DEF SetToSeqs
<1>3. Cardinality(S) \in Nat
  BY RankingBounds, FS_Subset, FS_CardinalityType
<1>4. list \in Seq(Memories)
  BY <1>2, <1>3
<1> QED BY <1>2, <1>4 DEF Once, IsInjective

(* The first of S, once each and in order.                                 *)
BestOf(S, score, place, kept) ==
  /\ Once(kept)
  /\ \A n \in DOMAIN kept : kept[n] \in S
  /\ \A n, k \in DOMAIN kept : n < k => Before(score, place, kept[n], kept[k])
  /\ \A n \in DOMAIN kept : \A c \in S :
       Before(score, place, c, kept[n]) => \E k \in 1 .. n - 1 : kept[k] = c

LEMMA KeptOfSorted ==
  ASSUME NEW S \in SUBSET Memories, NEW score, NEW place, Sortable(S, score, place),
         NEW limit \in Nat, NEW kept, kept = Cut(SortedBy(S, score, place), limit)
  PROVE  BestOf(S, score, place, kept)
<1> DEFINE list == SortedBy(S, score, place)
           size == Cardinality(S)
           last == Min({limit, Len(list)})
<1>1. /\ SortOf(S, score, place, list)
      /\ \A n, k \in 1 .. size : list[n] = list[k] => n = k
      /\ \A c \in S : \E n \in 1 .. size : list[n] = c
  BY SortedByIs
<1>2. size \in Nat
  BY FS_CardinalityType DEF Sortable
<1> HIDE DEF list, size
<1>3. /\ list \in [1 .. size -> S]
      /\ \A n, k \in 1 .. size : n < k => Before(score, place, list[n], list[k])
  BY <1>1 DEF SortOf, size
<1>4. list \in Seq(Memories) /\ Len(list) = size
  BY <1>2, <1>3
<1>5. last \in Nat /\ last <= size
  <2>1. limit \in {limit, size} /\ size \in {limit, size}
    OBVIOUS
  <2>2. \E x \in {limit, size} : \A y \in {limit, size} : x <= y
    BY <1>2
  <2>3. Min({limit, size}) \in {limit, size} /\ Min({limit, size}) <= size
    BY <2>1, <2>2 DEF Min
  <2> QED BY <1>2, <1>4, <2>3
<1>6. /\ kept \in Seq(Memories) /\ DOMAIN kept = 1 .. last
      /\ \A n \in 1 .. last : kept[n] = list[n]
  <2>1. kept = SubSeq(list, 1, last)
    BY DEF Cut, list
  <2> HIDE DEF last
  <2> QED BY <1>4, <1>5, <2>1
<1> HIDE DEF last
<1>7. \A n \in 1 .. last : n \in 1 .. size
  BY <1>2, <1>5
<1>8. Once(kept)
  BY <1>1, <1>6, <1>7 DEF Once, IsInjective
<1>9. \A n \in DOMAIN kept : kept[n] \in S
  BY <1>3, <1>6, <1>7
<1>10. ASSUME NEW n \in DOMAIN kept, NEW k \in DOMAIN kept, n < k
       PROVE  Before(score, place, kept[n], kept[k])
  BY <1>3, <1>6, <1>7, <1>10
<1>11. ASSUME NEW n \in DOMAIN kept, NEW c \in S, Before(score, place, c, kept[n])
       PROVE  \E k \in 1 .. n - 1 : kept[k] = c
  <2>1. PICK k \in 1 .. size : list[k] = c
    BY <1>1
  <2>2. n \in 1 .. last /\ n \in 1 .. size /\ kept[n] = list[n] /\ list[n] \in S
    BY <1>3, <1>6, <1>7
  <2>3. ~ (n < k)
    BY <1>3, <1>11, <2>1, <2>2, BeforeIsStrict
  <2>4. n # k
    BY <1>11, <2>1, <2>2, BeforeIsStrict
  <2>5. k \in 1 .. n - 1 /\ k \in 1 .. last
    BY <1>2, <1>5, <2>2, <2>3, <2>4
  <2> QED BY <1>6, <2>1, <2>5
<1> QED BY <1>8, <1>9, <1>10, <1>11 DEF BestOf

-----------------------------------------------------------------------------
(* What the lists give.                                                    *)

LEMMA SmallerShare ==
  ASSUME NEW a \in Nat, NEW b \in Nat, NEW p \in Nat, NEW q \in Nat,
         0 < a, a < b, a * p = b * q, 0 < q
  PROVE  q < p
  OBVIOUS

(* 1 / (rrf_k + n) is more than nothing and falls with the rank n.         *)
LEMMA ShareOfRank ==
  ASSUME NEW n \in 1 .. Cardinality(Memories)
  PROVE  /\ Unit \div (RrfK + n) \in Nat \ {0}
         /\ (RrfK + n) * (Unit \div (RrfK + n)) = Unit
<1> DEFINE b == RrfK + n
<1>1. Cardinality(Memories) \in Nat
  BY RankingBounds, FS_CardinalityType
<1>2. b \in Nat /\ b > 0 /\ Unit % b = 0 /\ Unit \in Nat /\ Unit > 0
  BY <1>1, RankingBounds, RankingExact
<1> HIDE DEF b
<1>3. b * (Unit \div b) = Unit
  BY <1>2
<1>4. Unit \div b \in Nat
  BY <1>2
<1>5. Unit \div b # 0
  BY <1>2, <1>3
<1> QED BY <1>3, <1>4, <1>5 DEF b

LEMMA ShareIs ==
  ASSUME NEW list, Once(list)
  PROVE  /\ \A c : Share(list, c) \in Nat
         /\ \A c : c \notin ToSet(list) => Share(list, c) = 0
         /\ \A c \in ToSet(list) : Share(list, c) > 0
         /\ \A c, d \in ToSet(list) :
              RankIn(list, c) < RankIn(list, d) => Share(list, c) > Share(list, d)
<1>1. Cardinality(Memories) \in Nat
  BY RankingBounds, FS_CardinalityType
<1>2. \A c : c \notin ToSet(list) => Share(list, c) = 0
  BY ListIs DEF Share
<1>3. ASSUME NEW c \in ToSet(list)
      PROVE  /\ RankIn(list, c) \in 1 .. Cardinality(Memories)
             /\ Share(list, c) = Unit \div (RrfK + RankIn(list, c))
             /\ Share(list, c) \in Nat \ {0}
             /\ (RrfK + RankIn(list, c)) * Share(list, c) = Unit
  <2>1. RankIn(list, c) \in 1 .. Cardinality(Memories)
    BY <1>1, ListIs, ListIsShort
  <2>2. Share(list, c) = Unit \div (RrfK + RankIn(list, c))
    BY ListIs DEF Share
  <2> QED BY <2>1, <2>2, ShareOfRank
<1>4. ASSUME NEW c \in ToSet(list), NEW d \in ToSet(list), RankIn(list, c) < RankIn(list, d)
      PROVE  Share(list, c) > Share(list, d)
  <2>1. RrfK + RankIn(list, c) \in Nat /\ RrfK + RankIn(list, d) \in Nat
        /\ 0 < RrfK + RankIn(list, c)
        /\ RrfK + RankIn(list, c) < RrfK + RankIn(list, d)
    BY <1>1, <1>3, <1>4, RankingBounds
  <2>2. /\ Share(list, c) \in Nat /\ Share(list, d) \in Nat /\ 0 < Share(list, d)
        /\ (RrfK + RankIn(list, c)) * Share(list, c) = (RrfK + RankIn(list, d)) * Share(list, d)
    BY <1>3
  <2> QED BY <2>1, <2>2, SmallerShare
<1>5. \A c : Share(list, c) \in Nat
  BY <1>2, <1>3
<1> QED BY <1>2, <1>3, <1>4, <1>5

(* A memory ranked no lower than another gets no less.                     *)
LEMMA ShareAgrees ==
  ASSUME NEW list, Once(list), NEW c, NEW d, NoLower(list, c, d), c # d
  PROVE  /\ Share(list, c) >= Share(list, d)
         /\ d \in ToSet(list) => Share(list, c) > Share(list, d)
<1>1. CASE d \in ToSet(list)
  <2>1. c \in ToSet(list) /\ RankIn(list, c) <= RankIn(list, d)
    BY <1>1, ListIs DEF NoLower
  <2>2. /\ RankIn(list, c) \in Int /\ RankIn(list, d) \in Int
        /\ list[RankIn(list, c)] = c /\ list[RankIn(list, d)] = d
    BY <1>1, <2>1, ListIs
  <2>3. RankIn(list, c) < RankIn(list, d)
    BY <2>1, <2>2
  <2> QED BY <1>1, <2>1, <2>3, ShareIs
<1>2. CASE d \notin ToSet(list)
  BY <1>2, ShareIs
<1> QED BY <1>1, <1>2

LEMMA FoundIs ==
  ASSUME Once(vector), Once(lexical)
  PROVE  /\ Found \in SUBSET Memories
         /\ \A c : Fused(c) \in Nat
         /\ \A c \in Found : Fused(c) > 0
         /\ Sortable(Found, [c \in Found |-> Fused(c)], [c \in Found |-> Place(c)])
<1>1. Found \in SUBSET Memories /\ IsFiniteSet(Found)
  <2>1. ToSet(vector) \subseteq Memories /\ ToSet(lexical) \subseteq Memories
    BY ListIs
  <2> QED BY <2>1, RankingBounds, FS_Subset DEF Found
<1>2. \A c : Share(vector, c) \in Nat /\ Share(lexical, c) \in Nat
  BY ShareIs
<1>3. \A c : Fused(c) \in Nat
  BY <1>2 DEF Fused
<1>4. ASSUME NEW c \in Found PROVE Fused(c) > 0
  <2>1. Share(vector, c) > 0 \/ Share(lexical, c) > 0
    BY ShareIs DEF Found
  <2> QED BY <1>2, <2>1 DEF Fused
<1>5. Len(vector) \in Nat
  BY ListIs
<1>6. ASSUME NEW c \in Found
      PROVE  \/ /\ c \in ToSet(vector) /\ Place(c) \in 1 .. Len(vector)
                /\ vector[Place(c)] = c
             \/ /\ Place(c) \in Int /\ Place(c) > Len(vector)
                /\ lexical[Place(c) - Len(vector)] = c
  <2>1. CASE c \in ToSet(vector)
    BY <2>1, ListIs DEF Place
  <2>2. CASE c \notin ToSet(vector)
    <3>1. c \in ToSet(lexical)
      BY <2>2 DEF Found
    <3>2. /\ Len(lexical) \in Nat
          /\ RankIn(lexical, c) \in 1 .. Len(lexical) /\ lexical[RankIn(lexical, c)] = c
      BY <3>1, ListIs
    <3>3. Place(c) = Len(vector) + RankIn(lexical, c)
      BY <2>2, ListIs DEF Place
    <3>4. Place(c) - Len(vector) = RankIn(lexical, c)
      BY <1>5, <3>2, <3>3
    <3> QED BY <1>5, <3>2, <3>3, <3>4
  <2> QED BY <2>1, <2>2
<1>7. \A c, d \in Found : Place(c) = Place(d) => c = d
  BY <1>5, <1>6
<1>8. \A c \in Found : Place(c) \in Int
  BY <1>5, <1>6
<1> QED BY <1>1, <1>3, <1>4, <1>7, <1>8 DEF Sortable

-----------------------------------------------------------------------------
(* The inductive invariant.                                                *)

LEMMA NothingIs == Once(<<>>) /\ ToSet(<<>>) = {} /\ DOMAIN <<>> = {}
  BY DEF Once, IsInjective, ToSet

LEMMA InitInv == Init => RankInv
<1> SUFFICES ASSUME Init PROVE RankInv
  OBVIOUS
<1>1. Once(vector) /\ Once(lexical)
  BY RankingsAreOnce DEF Init
<1>2. RankingTypeOK
  BY NothingIs DEF Init, RankingTypeOK
<1> QED BY <1>1, <1>2, NothingIs
    DEF Init, RankInv, FusedLead, RelevanceKnown, BestKnown, RelevanceLeads

LEMMA FuseInv ==
  ASSUME RankInv, Fuse
  PROVE  RankInv'
<1> DEFINE score == [c \in Found |-> Fused(c)]
           place == [c \in Found |-> Place(c)]
           kept == Cut(SortedBy(Found, score, place), CandidateLimit)
           fused == [c \in ToSet(kept) |-> Fused(c)]
<1>1. /\ Once(vector) /\ Once(lexical) /\ stage = "fuse" /\ raw = <<>>
      /\ relevance = <<>>
  BY DEF RankInv, Fuse
<1>2. /\ Found \in SUBSET Memories
      /\ \A c : Fused(c) \in Nat
      /\ \A c \in Found : Fused(c) > 0
      /\ Sortable(Found, score, place)
  BY <1>1, FoundIs
<1>3. /\ candidates' = kept
      /\ relevance' = IF kept = <<>> THEN <<>> ELSE Normalized(fused)
      /\ stage' = "rerank" /\ vector' = vector /\ lexical' = lexical /\ raw' = raw
  BY DEF Fuse
<1>4. \A c, d \in Found : Before(score, place, c, d) <=>
        Fused(c) > Fused(d) \/ (Fused(c) = Fused(d) /\ Place(c) < Place(d))
  BY DEF Before
<1> HIDE DEF score, place
<1>5. CandidateLimit \in Nat /\ kept = Cut(SortedBy(Found, score, place), CandidateLimit)
  BY RankingBounds
<1> HIDE DEF kept
<1>6. /\ Once(kept)
      /\ \A n \in DOMAIN kept : kept[n] \in Found
      /\ \A n, k \in DOMAIN kept : n < k => Before(score, place, kept[n], kept[k])
      /\ \A n \in DOMAIN kept : \A c \in Found :
           Before(score, place, c, kept[n]) => \E k \in 1 .. n - 1 : kept[k] = c
  <2>1. Found \in SUBSET Memories /\ Sortable(Found, score, place)
    BY <1>2
  <2>2. BestOf(Found, score, place, kept)
    BY <1>5, <2>1, KeptOfSorted
  <2> QED BY <2>2 DEF BestOf
<1>7. ToSet(kept) \subseteq Found
  BY <1>6 DEF ToSet
<1>8. (Found = ToSet(vector) \cup ToSet(lexical)) /\ Found' = Found
      /\ \A c : Fused(c)' = Fused(c)
  BY <1>3 DEF Found, Fused, Share
<1>9. FusedLead'
  <2>1. ASSUME NEW n \in DOMAIN kept, NEW c \in Found, Fused(c) > Fused(kept[n])
        PROVE  \E k \in 1 .. n - 1 : kept[k] = c
    BY <1>4, <1>6, <2>1
  <2> QED BY <1>3, <1>6, <1>8, <2>1 DEF FusedLead
<1>10. CASE kept = <<>>
  <2>1. candidates' = <<>> /\ relevance' = <<>>
    BY <1>3, <1>10
  <2> QED BY <1>1, <1>3, <1>9, <2>1, NothingIs
      DEF RankInv, RankingTypeOK, RelevanceKnown, BestKnown, RelevanceLeads
<1>11. CASE kept # <<>>
  <2> DEFINE scaled == Normalized(fused)
  <2>1. ToSet(kept) # {} /\ IsFiniteSet(ToSet(kept))
    <3>1. kept \in Seq(Memories)
      BY <1>6 DEF Once
    <3>2. Len(kept) # 0 /\ Len(kept) \in Nat /\ DOMAIN kept = 1 .. Len(kept)
      BY <1>11, <3>1
    <3>3. kept[1] \in ToSet(kept)
      BY <3>2 DEF ToSet
    <3> QED BY <1>6, <3>3, ListIsShort
  <2>2. fused \in [ToSet(kept) -> Nat]
    BY <1>2
  <2>3. \A c \in ToSet(kept) : fused[c] = Fused(c)
    OBVIOUS
  <2> HIDE DEF fused
  <2>4. /\ scaled \in [ToSet(kept) -> 0 .. Whole]
        /\ \A c, d \in ToSet(kept) : fused[c] <= fused[d] => scaled[c] <= scaled[d]
        /\ \/ \E c \in ToSet(kept) : scaled[c] = Whole
           \/ \A c \in ToSet(kept) : fused[c] = 0
    BY <2>1, <2>2, NormalizedIs
  <2> HIDE DEF scaled
  <2>5. relevance' = scaled
    BY <1>3, <1>11 DEF scaled
  <2>6. \E c \in ToSet(kept) : scaled[c] = Whole
    <3>1. PICK c \in ToSet(kept) : TRUE
      BY <2>1
    <3>2. fused[c] > 0
      BY <1>2, <1>7, <2>3
    <3> QED BY <2>4, <3>2
  <2>7. ASSUME NEW i \in DOMAIN kept, NEW k \in DOMAIN kept, i < k
        PROVE  scaled[kept[i]] >= scaled[kept[k]]
    <3>1. Before(score, place, kept[i], kept[k]) /\ kept[i] \in Found /\ kept[k] \in Found
      BY <1>6, <2>7
    <3>2. kept[i] \in ToSet(kept) /\ kept[k] \in ToSet(kept)
      BY DEF ToSet
    <3>3. Fused(kept[k]) <= Fused(kept[i])
      BY <1>2, <1>4, <3>1
    <3>4. scaled[kept[k]] <= scaled[kept[i]]
      BY <2>3, <2>4, <3>2, <3>3
    <3>5. scaled[kept[k]] \in Int /\ scaled[kept[i]] \in Int
      BY <2>4, <3>2, RankingBounds
    <3> QED BY <3>4, <3>5
  <2>8. DOMAIN scaled = ToSet(kept) /\ \A c \in ToSet(kept) : scaled[c] \in 0 .. Whole
    BY <2>4
  <2>9. RankingTypeOK'
    BY <1>2, <1>3, <1>7, <2>5, <2>8 DEF RankingTypeOK
  <2>10. RelevanceKnown'
    BY <1>3, <2>5, <2>7, <2>8 DEF RelevanceKnown
  <2>11. BestKnown'
    BY <1>3, <2>5, <2>6, <2>8 DEF BestKnown
  <2>12. RelevanceLeads'
    BY <1>3 DEF RelevanceLeads
  <2> QED BY <1>1, <1>3, <1>6, <1>9, <2>9, <2>10, <2>11, <2>12 DEF RankInv
<1> QED BY <1>10, <1>11

(* Scores given to candidates, whether by the reranker or in its place.    *)
LEMMA ScoresNormalized ==
  ASSUME Once(candidates), candidates # <<>>, NEW score \in [ToSet(candidates) -> Nat],
         NEW scaled, scaled = Normalized(score)
  PROVE  /\ DOMAIN scaled = ToSet(candidates) /\ DOMAIN scaled # {}
         /\ ToSet(candidates) \subseteq Memories
         /\ \A c \in ToSet(candidates) : scaled[c] \in 0 .. Whole
         /\ \A c, d \in ToSet(candidates) : score[c] <= score[d] => scaled[c] <= scaled[d]
         /\ \/ \E c \in ToSet(candidates) : scaled[c] = Whole
            \/ \A c \in ToSet(candidates) : score[c] = 0
<1>1. ToSet(candidates) # {} /\ IsFiniteSet(ToSet(candidates)) /\ ToSet(candidates) \subseteq Memories
  <2>1. Len(candidates) # 0 /\ Len(candidates) \in Nat /\ DOMAIN candidates = 1 .. Len(candidates)
    BY DEF Once
  <2>2. candidates[1] \in ToSet(candidates)
    BY <2>1 DEF ToSet
  <2> QED BY <2>2, ListIs, ListIsShort
<1>2. /\ scaled \in [ToSet(candidates) -> 0 .. Whole]
      /\ \A c, d \in ToSet(candidates) : score[c] <= score[d] => scaled[c] <= scaled[d]
      /\ \/ \E c \in ToSet(candidates) : scaled[c] = Whole
         \/ \A c \in ToSet(candidates) : score[c] = 0
  BY <1>1, NormalizedIs
<1> QED BY <1>1, <1>2

LEMMA RerankInv ==
  ASSUME RankInv, Rerank
  PROVE  RankInv'
<1>1. /\ Once(vector) /\ Once(lexical) /\ Once(candidates) /\ candidates # <<>>
      /\ raw' \in [ToSet(candidates) -> 0 .. MaxRaw] /\ relevance' = Normalized(raw')
      /\ stage' = "weigh" /\ candidates' = candidates
      /\ vector' = vector /\ lexical' = lexical
  BY DEF RankInv, Rerank
<1>2. raw' \in [ToSet(candidates) -> Nat]
  BY <1>1, RankingBounds
<1>3. /\ DOMAIN relevance' = ToSet(candidates) /\ DOMAIN relevance' # {}
      /\ ToSet(candidates) \subseteq Memories
      /\ \A c \in ToSet(candidates) : relevance'[c] \in 0 .. Whole
      /\ \/ \E c \in ToSet(candidates) : relevance'[c] = Whole
         \/ \A c \in ToSet(candidates) : raw'[c] = 0
  BY <1>1, <1>2, ScoresNormalized
<1>4. raw' # <<>> /\ DOMAIN raw' = ToSet(candidates)
  <2>1. DOMAIN raw' # {} /\ DOMAIN raw' = ToSet(candidates)
    BY <1>1, <1>3
  <2> QED BY <2>1, NothingIs
<1>5. RankingTypeOK'
  BY <1>1, <1>3 DEF RankingTypeOK
<1>6. RelevanceKnown'
  BY <1>1, <1>3, <1>4 DEF RelevanceKnown
<1>7. BestKnown'
  BY <1>1, <1>3, <1>4 DEF BestKnown
<1> QED BY <1>1, <1>5, <1>6, <1>7 DEF RankInv, FusedLead, RelevanceLeads

LEMMA RerankFailsInv ==
  ASSUME RankInv, RerankFails
  PROVE  RankInv'
<1> DEFINE score == Fallback(candidates)
<1>1. /\ Once(vector) /\ Once(lexical) /\ Once(candidates) /\ candidates # <<>>
      /\ raw' = raw /\ relevance' = Normalized(score)
      /\ stage' = "weigh" /\ candidates' = candidates
      /\ vector' = vector /\ lexical' = lexical
  BY DEF RankInv, RerankFails
<1>2. /\ Len(candidates) \in Nat /\ DOMAIN candidates = 1 .. Len(candidates)
      /\ \A n \in 1 .. Len(candidates) : RankIn(candidates, candidates[n]) = n
      /\ \A c \in ToSet(candidates) : RankIn(candidates, c) \in 1 .. Len(candidates)
  BY <1>1, ListIs
<1>3. ASSUME NEW c \in ToSet(candidates)
      PROVE  /\ score[c] = 5 * Len(candidates) - RankIn(candidates, c) + 1
             /\ score[c] \in Nat /\ score[c] > 0
  <2>1. score[c] = 5 * Len(candidates) - RankIn(candidates, c) + 1
    BY DEF Fallback
  <2> HIDE DEF score
  <2> QED BY <1>2, <2>1
<1>4. score \in [ToSet(candidates) -> Nat]
  <2>1. score = [c \in ToSet(candidates) |-> score[c]]
    BY DEF Fallback
  <2> HIDE DEF score
  <2> QED BY <1>3, <2>1
<1> HIDE DEF score
<1>5. /\ DOMAIN relevance' = ToSet(candidates) /\ DOMAIN relevance' # {}
      /\ ToSet(candidates) \subseteq Memories
      /\ \A c \in ToSet(candidates) : relevance'[c] \in 0 .. Whole
      /\ \A c, d \in ToSet(candidates) : score[c] <= score[d] => relevance'[c] <= relevance'[d]
      /\ \/ \E c \in ToSet(candidates) : relevance'[c] = Whole
         \/ \A c \in ToSet(candidates) : score[c] = 0
  BY <1>1, <1>4, ScoresNormalized
<1>6. ASSUME NEW i \in DOMAIN candidates, NEW k \in DOMAIN candidates, i < k
      PROVE  relevance'[candidates[i]] >= relevance'[candidates[k]]
  <2>1. candidates[i] \in ToSet(candidates) /\ candidates[k] \in ToSet(candidates)
    BY DEF ToSet
  <2>2. score[candidates[k]] <= score[candidates[i]]
    BY <1>2, <1>3, <1>6, <2>1
  <2>3. relevance'[candidates[k]] <= relevance'[candidates[i]]
    BY <1>5, <2>1, <2>2
  <2>4. relevance'[candidates[k]] \in Int /\ relevance'[candidates[i]] \in Int
    BY <1>5, <2>1, RankingBounds
  <2> QED BY <2>3, <2>4
<1>7. RankingTypeOK'
  BY <1>1, <1>5 DEF RankingTypeOK
<1>8. RelevanceKnown'
  BY <1>1, <1>5, <1>6 DEF RelevanceKnown
<1>9. BestKnown'
  BY <1>1, <1>3, <1>5 DEF BestKnown
<1> QED BY <1>1, <1>7, <1>8, <1>9 DEF RankInv, FusedLead, RelevanceLeads

LEMMA RerankSkippedInv ==
  ASSUME RankInv, RerankSkipped
  PROVE  RankInv'
BY DEF RankInv, RerankSkipped, RankingTypeOK, FusedLead, RelevanceKnown, BestKnown, RelevanceLeads

(* The weights: a third of the scale of relevance outweighs the rest.      *)
LEMMA RelevanceOutweighs ==
  ASSUME NEW r \in 0 .. Whole, NEW s \in 0 .. Whole, 3 * (r - s) > Whole,
         NEW a \in 0 .. Whole, NEW b \in 0 .. Whole, NEW f \in {0, Whole}, NEW g \in {0, Whole}
  PROVE  Score(r, a, f) > Score(s, b, g)
  BY RankingBounds DEF Score

LEMMA WeighInv ==
  ASSUME RankInv, Weigh
  PROVE  RankInv'
<1> DEFINE found == ToSet(candidates)
           Weight(c) == IF c \in affine' THEN Whole ELSE 0
           score == [c \in found |-> Score(relevance[c], activation'[c], Weight(c))]
           place == [c \in found |-> RankIn(candidates, c)]
           kept == Cut(SortedBy(found, score, place), TopK)
<1>1. /\ Once(vector) /\ Once(lexical) /\ Once(candidates) /\ stage = "weigh"
      /\ DOMAIN relevance = found /\ \A c \in found : relevance[c] \in 0 .. Whole
      /\ BestKnown
  BY DEF RankInv, Weigh, RelevanceKnown, RankingTypeOK
<1>2. /\ activation' \in [found -> Activations]
      /\ final' = score /\ candidates' = kept /\ stage' = "done"
      /\ vector' = vector /\ lexical' = lexical /\ raw' = raw /\ relevance' = relevance
  BY DEF Weigh
<1>3. found \in SUBSET Memories /\ IsFiniteSet(found)
  BY <1>1, ListIs, ListIsShort
<1>4. \A c \in found : activation'[c] \in 0 .. Whole
  BY <1>2, RankingBounds
<1>5. \A c \in found : score[c] \in Int
  <2>1. ASSUME NEW c \in found PROVE Score(relevance[c], activation'[c], Weight(c)) \in Int
    <3>1. relevance[c] \in Int /\ activation'[c] \in Int /\ Weight(c) \in Int
      BY <1>1, <1>4, RankingBounds
    <3> HIDE DEF Weight
    <3> QED BY <3>1 DEF Score
  <2> HIDE DEF found, Weight
  <2> QED BY <2>1
<1>6. Sortable(found, score, place)
  <2>1. \A c \in found : RankIn(candidates, c) \in Int /\ candidates[RankIn(candidates, c)] = c
    BY <1>1, ListIs
  <2>2. \A c \in found : place[c] = RankIn(candidates, c)
    OBVIOUS
  <2> HIDE DEF found, score, place
  <2> QED BY <1>3, <1>5, <2>1, <2>2 DEF Sortable
<1>7. ASSUME NEW c \in found, NEW d \in found, 3 * (relevance[c] - relevance[d]) > Whole
      PROVE  Before(score, place, c, d)
  <2>1. /\ relevance[c] \in 0 .. Whole /\ relevance[d] \in 0 .. Whole
        /\ activation'[c] \in 0 .. Whole /\ activation'[d] \in 0 .. Whole
        /\ Weight(c) \in {0, Whole} /\ Weight(d) \in {0, Whole}
    BY <1>1, <1>4
  <2>2. Score(relevance[c], activation'[c], Weight(c)) > Score(relevance[d], activation'[d], Weight(d))
    <3> HIDE DEF Weight
    <3> QED BY <1>7, <2>1, RelevanceOutweighs
  <2>3. score[c] > score[d]
    <3> HIDE DEF Weight, found
    <3> QED BY <2>2
  <2> QED BY <2>3 DEF Before
<1> HIDE DEF score, place
<1>8. TopK \in Nat /\ kept = Cut(SortedBy(found, score, place), TopK)
  BY RankingBounds
<1> HIDE DEF kept
<1>9. /\ Once(kept)
      /\ \A n \in DOMAIN kept : kept[n] \in found
      /\ \A n \in DOMAIN kept : \A c \in found :
           Before(score, place, c, kept[n]) => \E k \in 1 .. n - 1 : kept[k] = c
  <2> HIDE DEF found
  <2>1. found \in SUBSET Memories
    BY <1>3
  <2>2. BestOf(found, score, place, kept)
    BY <1>6, <1>8, <2>1, KeptOfSorted
  <2> QED BY <2>2 DEF BestOf
<1>10. DOMAIN score = found
  BY DEF score
<1>11. IsInjective(kept) /\ ToSet(kept) \subseteq found
  BY <1>9 DEF Once, ToSet
<1>12. RelevanceLeads'
  <2> HIDE DEF found
  <2>1. ASSUME NEW c \in found, NEW n \in DOMAIN kept,
               3 * (relevance[c] - relevance[kept[n]]) > Whole
        PROVE  \E k \in 1 .. n - 1 : kept[k] = c
    BY <1>7, <1>9, <2>1
  <2> QED BY <1>2, <1>10, <1>11, <2>1 DEF RelevanceLeads
<1>13. RankingTypeOK'
  <2> HIDE DEF found
  <2> QED BY <1>1, <1>2, <1>3, <1>11 DEF RankingTypeOK
<1>14. BestKnown'
  BY <1>1, <1>2 DEF BestKnown
<1> QED BY <1>1, <1>2, <1>9, <1>12, <1>13, <1>14 DEF RankInv, FusedLead, RelevanceKnown

LEMMA StutterInv ==
  ASSUME RankInv, UNCHANGED vars
  PROVE  RankInv'
<1>1. /\ stage' = stage /\ vector' = vector /\ lexical' = lexical /\ candidates' = candidates
      /\ raw' = raw /\ relevance' = relevance /\ final' = final
  BY DEF vars
<1>2. FusedLead'
  <2>1. Found' = Found /\ \A c : Fused(c)' = Fused(c)
    BY <1>1 DEF Found, Fused, Share
  <2> QED BY <1>1, <2>1 DEF RankInv, FusedLead
<1> QED BY <1>1, <1>2 DEF RankInv, RankingTypeOK, RelevanceKnown, BestKnown, RelevanceLeads

(* The inductive invariant of a search: what each step knows of the lists  *)
(* and the scores of the steps before it.                                  *)
THEOREM RankInvariant == Spec => []RankInv
<1>1. RankInv /\ [Next]_vars => RankInv'
  BY FuseInv, RerankInv, RerankFailsInv, RerankSkippedInv, WeighInv, StutterInv DEF Next, Done
<1> QED BY InitInv, <1>1, PTL DEF Spec

-----------------------------------------------------------------------------
(* What it implies.                                                        *)

(* Candidates and relevance are of memories, and relevance stays on its    *)
(* scale, whatever was normalised.  (normalize_scores)                     *)
THEOREM RankingTypeCorrect == Spec => []RankingTypeOK
<1>1. RankInv => RankingTypeOK
  BY DEF RankInv
<1> QED BY <1>1, RankInvariant, PTL

LEMMA LeadersAgree == RankInv => FusionAgrees
<1> SUFFICES ASSUME RankInv, stage = "rerank",
                    NEW d \in ToSet(candidates), NEW c \in Memories \ {d},
                    NoLower(vector, c, d), NoLower(lexical, c, d)
             PROVE  /\ Contains(candidates, c)
                    /\ RankIn(candidates, c) < RankIn(candidates, d)
  BY DEF FusionAgrees
<1>1. Once(vector) /\ Once(lexical) /\ Once(candidates) /\ FusedLead
  BY DEF RankInv
<1>2. PICK n \in DOMAIN candidates : candidates[n] = d
  BY DEF ToSet
<1>3. d \in Found
  BY <1>1, <1>2 DEF FusedLead
<1>4. /\ Share(vector, c) >= Share(vector, d) /\ Share(lexical, c) >= Share(lexical, d)
      /\ d \in ToSet(vector) => Share(vector, c) > Share(vector, d)
      /\ d \in ToSet(lexical) => Share(lexical, c) > Share(lexical, d)
  BY <1>1, ShareAgrees
<1>5. /\ Share(vector, c) \in Nat /\ Share(vector, d) \in Nat
      /\ Share(lexical, c) \in Nat /\ Share(lexical, d) \in Nat
  BY <1>1, ShareIs
<1>6. Fused(c) > Fused(d)
  BY <1>3, <1>4, <1>5 DEF Fused, Found
<1>7. c \in Found
  <2>1. c \in ToSet(vector) \/ c \in ToSet(lexical)
    BY <1>1, <1>3, ListIs DEF NoLower, Found
  <2> QED BY <2>1 DEF Found
<1>8. PICK k \in 1 .. n - 1 : candidates[k] = c
  BY <1>1, <1>2, <1>6, <1>7 DEF FusedLead
<1>9. Len(candidates) \in Nat /\ n \in 1 .. Len(candidates) /\ k \in 1 .. Len(candidates) /\ k < n
  BY <1>1, <1>2, <1>8, ListIs
<1>10. RankIn(candidates, c) = k /\ RankIn(candidates, d) = n
  BY <1>1, <1>2, <1>8, <1>9, ListIs
<1> QED BY <1>8, <1>9, <1>10 DEF Contains

(* Fusion keeps what both rankings agree on, for any rrf_k and any cut.    *)
(* (reciprocal_rank_fusion)                                                *)
THEOREM FusionAlwaysAgrees == Spec => []FusionAgrees
  BY LeadersAgree, RankInvariant, PTL

(* A relevance a third of the scale higher always comes first, whatever    *)
(* was activated and whose workspace it is.  (the final sort of search)    *)
THEOREM RelevanceAlwaysLeads == Spec => []RelevanceLeads
<1>1. RankInv => RelevanceLeads
  BY DEF RankInv
<1> QED BY <1>1, RankInvariant, PTL

(* Without the reranker relevance falls along the fused order.             *)
(* (the fallback of rerank_results)                                        *)
THEOREM FallbackAlwaysKeepsOrder == Spec => []FallbackKeepsOrder
<1>1. RankInv => FallbackKeepsOrder
  BY DEF RankInv, RelevanceKnown, FallbackKeepsOrder
<1> QED BY <1>1, RankInvariant, PTL

(* The best candidate is scored 1.0 unless the reranker gave all nothing.  *)
(* (normalize_scores)                                                      *)
THEOREM BestAlwaysWhole == Spec => []BestIsWhole
<1>1. RankInv => BestIsWhole
  BY DEF RankInv, BestKnown, BestIsWhole
<1> QED BY <1>1, RankInvariant, PTL
=============================================================================
