--------------------------- MODULE RetrievalProofs ---------------------------
(***************************************************************************)
(* Proofs about Retrieval, for any chunks, rankings, similarities, limits   *)
(* and numbers of results.                                                 *)
(*                                                                         *)
(* Arranged, which every sort goes through, lists a finite set in a given  *)
(* order: Arrangement shows it by counting, the rest of the lemmas about   *)
(* sorting from it.  FusionRespectsAgreement is then a fact about the list *)
(* that Fuse makes; the invariant only says that the list is still that.   *)
(* SlotsFilled is about the end of mmr_select, and needs a balance at each *)
(* turn: SlotsAccountedFor.  IdentifierMatchesComeFirst needs to know why  *)
(* each match that _dedup dropped was dropped (MatchesKept), and that the  *)
(* selection never has to pass over a match (MatchesSelected): for that    *)
(* the limit per document must not bind after _dedup, and a match must be  *)
(* worth more than any other chunk, which is RelevanceOutweighs.           *)
(***************************************************************************)
EXTENDS Retrieval, FiniteSetTheorems, SequenceTheorems, TLAPS

(* R puts the elements of S in one order. *)
Orders(R, S) ==
  /\ \A x \in S : <<x, x>> \notin R
  /\ \A x, y \in S : x = y \/ <<x, y>> \in R \/ <<y, x>> \in R
  /\ \A x, y, z \in S : <<x, y>> \in R /\ <<y, z>> \in R => <<x, z>> \in R

-----------------------------------------------------------------------------
(* Sorting. *)

(* Arranged lists every element of a finite set once, in the order given:  *)
(* an element's place is the number of those before it.                    *)
LEMMA Arrangement ==
  ASSUME NEW S, IsFiniteSet(S), NEW R, Orders(R, S)
  PROVE  /\ Cardinality(S) \in Nat
         /\ Arranged(S, R) \in [1..Cardinality(S) -> S]
         /\ \A x \in S : \E n \in 1..Cardinality(S) : Arranged(S, R)[n] = x
         /\ \A n, m \in 1..Cardinality(S) :
              n < m => <<Arranged(S, R)[n], Arranged(S, R)[m]>> \in R
<1> DEFINE below(x) == {y \in S : <<y, x>> \in R}
           rank == [x \in S |-> Cardinality(below(x))]
<1>0. PICK N \in Nat : N = Cardinality(S)
  BY FS_CardinalityType
<1>1. \A x \in S : IsFiniteSet(below(x)) /\ Cardinality(below(x)) \in 0..(N - 1)
  <2> SUFFICES ASSUME NEW x \in S
               PROVE  IsFiniteSet(below(x)) /\ Cardinality(below(x)) \in 0..(N - 1)
    OBVIOUS
  <2>1. below(x) \in SUBSET (S \ {x})
    BY DEF Orders
  <2>2. IsFiniteSet(S \ {x}) /\ Cardinality(S \ {x}) = N - 1
    BY <1>0, FS_RemoveElement
  <2>3. IsFiniteSet(below(x)) /\ Cardinality(below(x)) <= N - 1
    BY <2>1, <2>2, FS_Subset
  <2>4. Cardinality(below(x)) \in Nat
    BY <2>3, FS_CardinalityType
  <2> QED
    BY <2>3, <2>4
<1>2. ASSUME NEW x \in S, NEW y \in S, <<x, y>> \in R
      PROVE  rank[x] < rank[y]
  <2>1. below(x) \in SUBSET below(y) /\ x \in below(y) /\ x \notin below(x)
    BY <1>2 DEF Orders
  <2>2. Cardinality(below(x)) <= Cardinality(below(y))
        /\ Cardinality(below(x)) # Cardinality(below(y))
    BY <1>1, <2>1, FS_Subset
  <2> QED
    BY <1>1, <2>2
<1>3. rank \in Injection(S, 0..(N - 1))
  <2>1. rank \in [S -> 0..(N - 1)]
    BY <1>1
  <2>2. \A x, y \in S : rank[x] \in 0..(N - 1) /\ rank[y] \in 0..(N - 1)
    BY <2>1
  <2>3. \A x, y \in S : rank[x] = rank[y] => x = y
    <3> SUFFICES ASSUME NEW x \in S, NEW y \in S, rank[x] = rank[y], x # y
                 PROVE  FALSE
      OBVIOUS
    <3>1. rank[x] \in Int /\ rank[y] \in Int /\ rank[x] = rank[y]
      BY <2>2
    <3>2. <<x, y>> \in R \/ <<y, x>> \in R
      BY DEF Orders
    <3>3. rank[x] < rank[y] \/ rank[y] < rank[x]
      BY <1>2, <3>2
    <3> HIDE DEF rank
    <3> QED
      BY <3>1, <3>3
  <2> QED
    BY <2>1, <2>3 DEF Injection, IsInjective
<1>4. rank \in Surjection(S, 0..(N - 1))
  <2>1. 0 \in Int /\ N - 1 \in Int
    OBVIOUS
  <2>2. IsFiniteSet(0..(N - 1)) /\ Cardinality(0..(N - 1)) = N
    BY <2>1, FS_Interval
  <2> HIDE DEF rank
  <2> QED
    BY <1>0, <1>3, <2>2, FS_Injection
<1>5. \A n \in 1..N : \E x \in S : rank[x] = n - 1
  <2> HIDE DEF rank
  <2> SUFFICES ASSUME NEW n \in 1..N
               PROVE  \E x \in S : rank[x] = n - 1
    OBVIOUS
  <2>1. n - 1 \in 0..(N - 1)
    OBVIOUS
  <2> QED
    BY <1>4, <2>1 DEF Surjection
<1>6. Arranged(S, R) = [n \in 1..N |-> CHOOSE x \in S : Cardinality(below(x)) = n - 1]
  BY <1>0 DEF Arranged
<1>7. \A n \in 1..N : Arranged(S, R)[n] \in S /\ rank[Arranged(S, R)[n]] = n - 1
  BY <1>5, <1>6
<1>8. ASSUME NEW x \in S
      PROVE  \E n \in 1..N : Arranged(S, R)[n] = x
  <2>1. rank[x] + 1 \in 1..N /\ rank[x] \in Int
    BY <1>1
  <2>2. rank[Arranged(S, R)[rank[x] + 1]] = rank[x] /\ Arranged(S, R)[rank[x] + 1] \in S
    <3> HIDE DEF rank
    <3> QED
      BY <1>7, <2>1
  <2> HIDE DEF rank
  <2> QED
    BY <1>3, <2>1, <2>2 DEF Injection, IsInjective
<1>9. ASSUME NEW n \in 1..N, NEW m \in 1..N, n < m
      PROVE  <<Arranged(S, R)[n], Arranged(S, R)[m]>> \in R
  <2> DEFINE x == Arranged(S, R)[n]
             y == Arranged(S, R)[m]
  <2>1. x \in S /\ y \in S /\ rank[x] = n - 1 /\ rank[y] = m - 1
    BY <1>7
  <2> HIDE DEF x, y, rank
  <2>2. x # y /\ ~(rank[y] < rank[x])
    BY <1>9, <2>1
  <2>3. <<x, y>> \in R
    BY <1>2, <2>1, <2>2 DEF Orders
  <2> QED
    BY <2>3 DEF x, y
<1>10. Arranged(S, R) \in [1..N -> S]
  BY <1>6, <1>7
<1> HIDE DEF below, rank
<1> QED
  BY <1>0, <1>8, <1>9, <1>10

(* Naturals in their order. *)
LEMMA AscendingFacts ==
  ASSUME NEW S \in SUBSET Nat, IsFiniteSet(S)
  PROVE  /\ Cardinality(S) \in Nat
         /\ Ascending(S) \in [1..Cardinality(S) -> S]
         /\ \A x \in S : \E n \in 1..Cardinality(S) : Ascending(S)[n] = x
         /\ \A n, m \in 1..Cardinality(S) : n < m => Ascending(S)[n] < Ascending(S)[m]
<1> DEFINE R == {p \in S \X S : p[1] < p[2]}
<1>1. \A x, y \in S : <<x, y>> \in R <=> x < y
  OBVIOUS
<1>2. Orders(R, S)
  <2> HIDE DEF R
  <2> QED
    BY <1>1 DEF Orders
<1>3. Ascending(S) = Arranged(S, R)
  BY DEF Ascending
<1> HIDE DEF R
<1>4. /\ Cardinality(S) \in Nat
      /\ Arranged(S, R) \in [1..Cardinality(S) -> S]
      /\ \A x \in S : \E n \in 1..Cardinality(S) : Arranged(S, R)[n] = x
      /\ \A n, m \in 1..Cardinality(S) :
           n < m => <<Arranged(S, R)[n], Arranged(S, R)[m]>> \in R
  BY <1>2, Arrangement
<1> QED
  BY <1>1, <1>3, <1>4

Item == [chunk : Chunks, score : Nat]

(* Sorted places the items of a list anew: a higher score, or the same and *)
(* an earlier place, comes first.                                          *)
LEMMA SortedFacts ==
  ASSUME NEW s \in Seq(Item)
  PROVE  /\ Sorted(s) \in Seq(Item) /\ Len(Sorted(s)) = Len(s)
         /\ \E p \in [1..Len(s) -> 1..Len(s)] :
              /\ \A n \in 1..Len(s) : Sorted(s)[n] = s[p[n]]
              /\ \A x \in 1..Len(s) : \E n \in 1..Len(s) : p[n] = x
              /\ \A n, m \in 1..Len(s) : n < m => <<p[n], p[m]>> \in HigherFirst(s)
<1>0. PICK N \in Nat : Len(s) = N
  BY LenProperties
<1>1. IsFiniteSet(1..N) /\ Cardinality(1..N) = N
  <2>1. 1 \in Int /\ N \in Int
    OBVIOUS
  <2> QED
    BY <2>1, FS_Interval
<1>2. \A n \in 1..N : s[n] \in Item /\ s[n].score \in Nat
  <2>1. s \in [1..N -> Item]
    BY <1>0, LenProperties
  <2> QED
    BY <2>1 DEF Item
<1>3. \A x, y \in 1..N : <<x, y>> \in HigherFirst(s) <=>
        s[x].score > s[y].score \/ (s[x].score = s[y].score /\ x < y)
  BY <1>0 DEF HigherFirst
<1>4. Orders(HigherFirst(s), 1..N)
  <2> DEFINE height == [n \in 1..N |-> s[n].score]
  <2>1. \A x \in 1..N : height[x] \in Nat
    BY <1>2
  <2>2. \A x, y \in 1..N : <<x, y>> \in HigherFirst(s) <=>
          height[x] > height[y] \/ (height[x] = height[y] /\ x < y)
    BY <1>3
  <2> HIDE DEF height
  <2>3. \A x \in 1..N : <<x, x>> \notin HigherFirst(s)
    BY <2>1, <2>2
  <2>4. ASSUME NEW x \in 1..N, NEW y \in 1..N
        PROVE  x = y \/ <<x, y>> \in HigherFirst(s) \/ <<y, x>> \in HigherFirst(s)
    <3>1. x \in Int /\ y \in Int /\ height[x] \in Int /\ height[y] \in Int
      BY <2>1
    <3>2. \/ x = y
          \/ height[x] > height[y] \/ (height[x] = height[y] /\ x < y)
          \/ height[y] > height[x] \/ (height[y] = height[x] /\ y < x)
      BY <3>1
    <3> QED
      BY <2>2, <3>2
  <2>5. ASSUME NEW x \in 1..N, NEW y \in 1..N, NEW z \in 1..N,
               <<x, y>> \in HigherFirst(s), <<y, z>> \in HigherFirst(s)
        PROVE  <<x, z>> \in HigherFirst(s)
    <3>1. x \in Int /\ y \in Int /\ z \in Int
      OBVIOUS
    <3>2. height[x] \in Int /\ height[y] \in Int /\ height[z] \in Int
      BY <2>1
    <3>3. height[x] > height[y] \/ (height[x] = height[y] /\ x < y)
      BY <2>2, <2>5
    <3>4. height[y] > height[z] \/ (height[y] = height[z] /\ y < z)
      BY <2>2, <2>5
    <3>5. height[x] > height[z] \/ (height[x] = height[z] /\ x < z)
      BY <3>1, <3>2, <3>3, <3>4
    <3> QED
      BY <2>2, <3>5
  <2> QED
    BY <2>3, <2>4, <2>5 DEF Orders
<1> DEFINE p == Arranged(1..N, HigherFirst(s))
<1>5. /\ p \in [1..N -> 1..N]
      /\ \A x \in 1..N : \E n \in 1..N : p[n] = x
      /\ \A n, m \in 1..N : n < m => <<p[n], p[m]>> \in HigherFirst(s)
  <2> HIDE DEF p
  <2>1. /\ Arranged(1..N, HigherFirst(s)) \in [1..Cardinality(1..N) -> 1..N]
        /\ \A x \in 1..N : \E n \in 1..Cardinality(1..N) :
             Arranged(1..N, HigherFirst(s))[n] = x
        /\ \A n, m \in 1..Cardinality(1..N) :
             n < m => <<Arranged(1..N, HigherFirst(s))[n], Arranged(1..N, HigherFirst(s))[m]>>
                        \in HigherFirst(s)
    BY <1>1, <1>4, Arrangement
  <2> QED
    BY <1>1, <2>1 DEF p
<1>6. Sorted(s) = [n \in 1..N |-> s[p[n]]]
  BY <1>0 DEF Sorted
<1> HIDE DEF p
<1>7. Sorted(s) \in [1..N -> Item]
  BY <1>2, <1>5, <1>6
<1>8. Sorted(s) \in Seq(Item) /\ Len(Sorted(s)) = N
  BY <1>7, IsASeq, LenProperties, SeqDef
<1>9. \A n \in 1..N : Sorted(s)[n] = s[p[n]]
  BY <1>6
<1> QED
  BY <1>0, <1>5, <1>8, <1>9

-----------------------------------------------------------------------------
(* Fusion. *)

(* A product keeps the order. *)
LEMMA ProductMonotonic ==
  ASSUME NEW m \in Nat, NEW n \in Nat, NEW c \in Nat, m <= n
  PROVE  m * c <= n * c /\ c * m <= c * n
  OBVIOUS

(* A greater divisor leaves a smaller quotient, if both divide. *)
LEMMA QuotientFalls ==
  ASSUME NEW u \in Nat \ {0}, NEW m \in Nat \ {0}, NEW n \in Nat \ {0}, m < n,
         u % m = 0, u % n = 0
  PROVE  /\ u \div m \in Nat /\ u \div n \in Nat
         /\ u \div n < u \div m
<1>1. PICK x \in Nat : x = u \div m /\ u = m * x
  OBVIOUS
<1>2. PICK y \in Nat : y = u \div n /\ u = n * y
  OBVIOUS
<1>3. ASSUME x <= y
      PROVE  FALSE
  <2>1. m * x <= m * y /\ m * y <= n * y
    BY <1>3, ProductMonotonic
  <2>2. m * y = n * y
    BY <1>1, <1>2, <2>1
  <2>3. n * y = m * y + (n - m) * y
    OBVIOUS
  <2>4. (n - m) * y = 0
    BY <2>2, <2>3
  <2>5. y # 0
    BY <1>2
  <2>6. n - m \in Nat \ {0}
    OBVIOUS
  <2> QED
    BY <2>4, <2>5, <2>6
<1> QED
  BY <1>1, <1>2, <1>3

(* A ranking of chunks is no longer than there are chunks; the rank of one  *)
(* in it is its place.                                                      *)
LEMMA RankFacts ==
  ASSUME NEW lane \in Seq(Chunks), IsInjective(lane), NEW c \in Chunks, Contains(lane, c)
  PROVE  /\ RankIn(lane, c) \in 1..Len(lane) /\ lane[RankIn(lane, c)] = c
         /\ RankIn(lane, c) \in 1..Cardinality(Chunks)
<1>0. PICK N \in Nat : Len(lane) = N /\ DOMAIN lane = 1..N /\ lane \in [1..N -> Chunks]
  BY LenProperties
<1>1. RankIn(lane, c) \in 1..N /\ lane[RankIn(lane, c)] = c
  BY <1>0 DEF RankIn, Contains
<1>2. lane \in Injection(1..N, Chunks)
  BY <1>0 DEF Injection, IsInjective
<1>3. IsFiniteSet(1..N) /\ Cardinality(1..N) = N
  <2>1. 1 \in Int /\ N \in Int
    OBVIOUS
  <2> QED
    BY <2>1, FS_Interval
<1>4. N <= Cardinality(Chunks) /\ Cardinality(Chunks) \in Nat
  <2>1. Cardinality(1..N) <= Cardinality(Chunks)
    BY <1>2, ChunksAssumption, FS_Injection
  <2> QED
    BY <1>3, <2>1, ChunksAssumption, FS_CardinalityType
<1> QED
  BY <1>0, <1>1, <1>4

(* What a ranking gives a chunk: less the further down it is.               *)
LEMMA WeightFacts ==
  ASSUME NEW lane \in Seq(Chunks), IsInjective(lane), NEW c \in Chunks
  PROVE  /\ Weight(lane, c) \in Nat /\ Reach \in Nat /\ Weight(lane, c) <= Reach
         /\ \A d \in Chunks : /\ Contains(lane, c) /\ Contains(lane, d)
                              /\ RankIn(lane, c) < RankIn(lane, d)
                              => Weight(lane, d) < Weight(lane, c)
         /\ ~Contains(lane, c) => Weight(lane, c) = 0
<1>0. \A rank \in 1..Cardinality(Chunks) :
         Constant + rank \in Nat \ {0} /\ Unit % (Constant + rank) = 0
  <2>1. Cardinality(Chunks) \in Nat
    BY ChunksAssumption, FS_CardinalityType
  <2> QED
    BY <2>1, UnitAssumption
<1>1. \A m, n \in 1..Cardinality(Chunks) :
        m < n => /\ Unit \div (Constant + m) \in Nat
                 /\ Unit \div (Constant + n) < Unit \div (Constant + m)
  <2> SUFFICES ASSUME NEW m \in 1..Cardinality(Chunks), NEW n \in 1..Cardinality(Chunks), m < n
               PROVE  /\ Unit \div (Constant + m) \in Nat
                      /\ Unit \div (Constant + n) < Unit \div (Constant + m)
    OBVIOUS
  <2>1. m \in Int /\ n \in Int /\ Constant + m < Constant + n
    BY UnitAssumption
  <2> DEFINE x == Constant + m
             y == Constant + n
  <2>2. x \in Nat \ {0} /\ y \in Nat \ {0} /\ x < y /\ Unit % x = 0 /\ Unit % y = 0
    BY <1>0, <2>1
  <2> HIDE DEF x, y
  <2>3. Unit \div x \in Nat /\ Unit \div y < Unit \div x
    BY <2>2, QuotientFalls, UnitAssumption
  <2> QED
    BY <2>3 DEF x, y
<1>2. Reach \in Nat
  <2>1. Constant + 1 \in Nat \ {0} /\ Unit \in Nat
    BY UnitAssumption
  <2> DEFINE x == Constant + 1
  <2>2. Unit \div x \in Nat
    <3>1. x \in Nat \ {0}
      BY <2>1
    <3> HIDE DEF x
    <3> QED
      BY <2>1, <3>1
  <2> QED
    BY <2>2 DEF Reach
<1>3. CASE ~Contains(lane, c)
  BY <1>2, <1>3 DEF Weight
<1>4. CASE Contains(lane, c)
  <2> DEFINE m == RankIn(lane, c)
  <2>1. m \in 1..Cardinality(Chunks) /\ Weight(lane, c) = Unit \div (Constant + m)
    BY <1>4, RankFacts DEF Weight
  <2>2. 1 \in 1..Cardinality(Chunks)
    <3>1. Cardinality(Chunks) \in Nat
      BY ChunksAssumption, FS_CardinalityType
    <3> HIDE DEF m
    <3> QED
      BY <2>1, <3>1
  <2>3. Weight(lane, c) <= Reach
    <3>1. CASE m = 1
      BY <1>2, <2>1, <3>1 DEF Reach
    <3>2. CASE m # 1
      <4>1. 1 < m
        <5> HIDE DEF m
        <5> QED
          BY <2>1, <3>2
      <4>2. Unit \div (Constant + m) < Reach
        BY <1>1, <2>1, <2>2, <4>1 DEF Reach
      <4>3. Unit \div (Constant + m) \in Int
        <5>1. Constant + m \in Nat \ {0}
          BY <1>0, <2>1
        <5> HIDE DEF m
        <5> QED
          BY <5>1, UnitAssumption
      <4> HIDE DEF m
      <4> QED
        BY <1>2, <2>1, <4>2, <4>3
    <3> QED
      BY <3>1, <3>2
  <2>4. Weight(lane, c) \in Nat
    <3>1. Constant + m \in Nat \ {0}
      BY <1>0, <2>1
    <3> DEFINE x == Constant + m
    <3>2. Unit \div x \in Nat
      <4>1. x \in Nat \ {0}
        BY <3>1
      <4> HIDE DEF x
      <4> QED
        BY <4>1, UnitAssumption
    <3> QED
      BY <2>1, <3>2
  <2>5. ASSUME NEW d \in Chunks, Contains(lane, d), m < RankIn(lane, d)
        PROVE  Weight(lane, d) < Weight(lane, c)
    <3>1. RankIn(lane, d) \in 1..Cardinality(Chunks)
          /\ Weight(lane, d) = Unit \div (Constant + RankIn(lane, d))
      BY <2>5, RankFacts DEF Weight
    <3> HIDE DEF m
    <3> QED
      BY <1>1, <2>1, <2>5, <3>1
  <2> QED
    BY <1>2, <1>4, <2>3, <2>4, <2>5
<1> QED
  BY <1>3, <1>4

(* Fusion lists each chunk of either ranking once. *)
LEMMA FirstSeenFacts ==
  ASSUME NEW lanes,
         lanes[1] \in Seq(Chunks), IsInjective(lanes[1]),
         lanes[2] \in Seq(Chunks), IsInjective(lanes[2])
  PROVE  /\ FirstSeen(lanes) \in Seq(Chunks)
         /\ \A c \in Chunks : (\E i \in 1..Len(FirstSeen(lanes)) : FirstSeen(lanes)[i] = c)
                              <=> Contains(lanes[1], c) \/ Contains(lanes[2], c)
         /\ \A i, j \in 1..Len(FirstSeen(lanes)) :
              FirstSeen(lanes)[i] = FirstSeen(lanes)[j] => i = j
<1> DEFINE s == lanes[1]
           t == lanes[2]
           S == {i \in DOMAIN t : ~Contains(s, t[i])}
           new == Ascending(S)
           u == [n \in DOMAIN new |-> t[new[n]]]
<1>0. PICK N \in Nat : Len(s) = N /\ DOMAIN s = 1..N /\ s \in [1..N -> Chunks]
  BY LenProperties
<1>1. PICK M \in Nat : Len(t) = M /\ DOMAIN t = 1..M /\ t \in [1..M -> Chunks]
  BY LenProperties
<1>2. IsFiniteSet(S) /\ S \in SUBSET Nat
  <2>1. 1 \in Int /\ M \in Int
    OBVIOUS
  <2>2. S \in SUBSET (1..M) /\ IsFiniteSet(1..M)
    BY <1>1, <2>1, FS_Interval
  <2>3. IsFiniteSet(S)
    BY <2>2, FS_Subset
  <2> QED
    BY <2>2, <2>3
<1>3. PICK K \in Nat : K = Cardinality(S)
  BY <1>2, FS_CardinalityType
<1>4. /\ new \in [1..K -> S]
      /\ \A x \in S : \E n \in 1..K : new[n] = x
      /\ \A n, m \in 1..K : n < m => new[n] < new[m]
  <2>1. /\ Ascending(S) \in [1..Cardinality(S) -> S]
        /\ \A x \in S : \E n \in 1..Cardinality(S) : Ascending(S)[n] = x
        /\ \A n, m \in 1..Cardinality(S) : n < m => Ascending(S)[n] < Ascending(S)[m]
    <3> HIDE DEF S
    <3> QED
      BY <1>2, AscendingFacts
  <2> HIDE DEF S
  <2> QED
    BY <1>3, <2>1
<1>5. u \in [1..K -> Chunks] /\ \A n \in 1..K : u[n] = t[new[n]] /\ new[n] \in S
  <2> HIDE DEF new
  <2>1. \A n \in 1..K : new[n] \in S
    BY <1>4
  <2>2. \A i \in S : t[i] \in Chunks
    BY <1>1
  <2> HIDE DEF S
  <2> QED
    BY <1>4, <2>1, <2>2
<1>6. u \in Seq(Chunks) /\ Len(u) = K
  <2> HIDE DEF u
  <2> QED
    BY <1>5, SeqDef, LenProperties
<1>7. FirstSeen(lanes) = s \o u
  BY DEF FirstSeen
<1>8. /\ s \o u \in Seq(Chunks) /\ Len(s \o u) = N + K
      /\ \A i \in 1..(N + K) : (s \o u)[i] = IF i <= N THEN s[i] ELSE u[i - N]
  <2> HIDE DEF u
  <2> QED
    BY <1>0, <1>6, ConcatProperties
<1> DEFINE F == FirstSeen(lanes)
<1>9. /\ F \in Seq(Chunks) /\ Len(F) = N + K
      /\ \A i \in 1..(N + K) : F[i] = IF i <= N THEN s[i] ELSE u[i - N]
  BY <1>7, <1>8
<1>10. \A i \in 1..N : i \in 1..(N + K) /\ F[i] = s[i]
  <2> HIDE DEF F, u
  <2> QED
    BY <1>9
<1>11. \A n \in 1..K : N + n \in 1..(N + K) /\ F[N + n] = u[n]
  <2> HIDE DEF F, u
  <2> QED
    BY <1>9
<1>12. \A i \in 1..(N + K) : i \in 1..N \/ \E n \in 1..K : i = N + n
  <2> SUFFICES ASSUME NEW i \in 1..(N + K), i \notin 1..N
               PROVE  i - N \in 1..K /\ i = N + (i - N)
    OBVIOUS
  <2> QED
    OBVIOUS
<1> HIDE DEF F
<1>13. ASSUME NEW c \in Chunks
       PROVE  (\E i \in 1..(N + K) : F[i] = c) <=> Contains(s, c) \/ Contains(t, c)
  <2>1. ASSUME NEW i \in 1..(N + K), F[i] = c
        PROVE  Contains(s, c) \/ Contains(t, c)
    <3>1. CASE i \in 1..N
      BY <1>0, <1>10, <2>1, <3>1 DEF Contains
    <3>2. CASE \E n \in 1..K : i = N + n
      <4>1. PICK n \in 1..K : i = N + n
        BY <3>2
      <4>2. t[new[n]] = c /\ new[n] \in 1..M
        BY <1>1, <1>5, <1>11, <2>1, <4>1
      <4> QED
        BY <1>1, <4>2 DEF Contains
    <3> QED
      BY <1>12, <3>1, <3>2
  <2>2. ASSUME Contains(s, c)
        PROVE  \E i \in 1..(N + K) : F[i] = c
    <3>1. PICK i \in 1..N : s[i] = c
      BY <1>0, <2>2 DEF Contains
    <3> QED
      BY <1>10, <3>1
  <2>3. ASSUME Contains(t, c), ~Contains(s, c)
        PROVE  \E i \in 1..(N + K) : F[i] = c
    <3>1. PICK i \in 1..M : t[i] = c
      BY <1>1, <2>3 DEF Contains
    <3>2. i \in S
      BY <1>1, <2>3, <3>1
    <3>3. PICK n \in 1..K : new[n] = i
      <4> HIDE DEF S, new
      <4> QED
        BY <1>4, <3>2
    <3>4. F[N + n] = c
      BY <1>5, <1>11, <3>1, <3>3
    <3> QED
      BY <1>11, <3>4
  <2> QED
    BY <2>1, <2>2, <2>3
<1>14. ASSUME NEW i \in 1..(N + K), NEW j \in 1..(N + K), F[i] = F[j]
       PROVE  i = j
  <2>1. CASE i \in 1..N /\ j \in 1..N
    BY <1>0, <1>10, <1>14, <2>1 DEF IsInjective
  <2>2. ASSUME NEW n \in 1..K
        PROVE  u[n] \in Chunks /\ ~Contains(s, u[n])
    BY <1>5, <2>2
  <2>3. ASSUME NEW n \in 1..K, NEW m \in 1..N
        PROVE  u[n] # s[m]
    BY <1>0, <2>2, <2>3 DEF Contains
  <2>4. ASSUME NEW n \in 1..K, NEW m \in 1..K, u[n] = u[m]
        PROVE  n = m
    <3>1. t[new[n]] = t[new[m]] /\ new[n] \in 1..M /\ new[m] \in 1..M
      BY <1>1, <1>5, <2>4
    <3>2. new[n] = new[m]
      BY <1>1, <3>1 DEF IsInjective
    <3>3. ~(n < m) /\ ~(m < n)
      <4>1. new[n] \in Int
        BY <3>1
      <4> HIDE DEF new, S
      <4> QED
        BY <1>4, <3>2, <4>1
    <3> QED
      BY <3>3
  <2>5. CASE \E n, m \in 1..K : i = N + n /\ j = N + m
    <3> HIDE DEF u
    <3> QED
      BY <1>11, <1>14, <2>4, <2>5
  <2>6. CASE i \in 1..N /\ \E m \in 1..K : j = N + m
    <3>1. PICK m \in 1..K : j = N + m
      BY <2>6
    <3>2. F[i] = s[i] /\ F[j] = u[m]
      BY <1>10, <1>11, <2>6, <3>1
    <3> QED
      BY <1>14, <2>3, <2>6, <3>2
  <2>7. CASE j \in 1..N /\ \E m \in 1..K : i = N + m
    <3>1. PICK m \in 1..K : i = N + m
      BY <2>7
    <3>2. F[j] = s[j] /\ F[i] = u[m]
      BY <1>10, <1>11, <2>7, <3>1
    <3> QED
      BY <1>14, <2>3, <2>7, <3>2
  <2> QED
    BY <1>12, <2>1, <2>5, <2>6, <2>7
<1> QED
  BY <1>9, <1>13, <1>14 DEF F

(* No list is cut to nothing. *)
LEMMA LimitFacts ==
  ASSUME input \in Inputs
  PROVE  /\ Limit \in Nat \ {0}
         /\ input.k \in Nat /\ input.mode \in {"retrieve", "merge"}
         /\ input.matches \subseteq Chunks
         /\ \A l \in 1..2 : input.lanes[l] \in Seq(Chunks) /\ IsInjective(input.lanes[l])
<1>1. /\ input.k \in Nat /\ input.mode \in {"retrieve", "merge"}
      /\ input.matches \subseteq Chunks
      /\ \A l \in 1..2 : input.lanes[l] \in Seq(Chunks) /\ IsInjective(input.lanes[l])
  BY InputsAssumption
<1> QED
  BY <1>1, LimitsAssumption DEF Limit, Greatest

(* Cut keeps the front of a list. *)
LEMMA CutFacts ==
  ASSUME NEW S, NEW s \in Seq(S), Limit \in Nat \ {0}
  PROVE  /\ Cut(s) \in Seq(S) /\ Len(Cut(s)) <= Len(s)
         /\ \A i \in 1..Len(Cut(s)) : i \in 1..Len(s) /\ Cut(s)[i] = s[i]
<1>0. PICK N \in Nat : Len(s) = N /\ s \in [1..N -> S]
  BY LenProperties
<1>1. PICK L \in Nat : L = Least(N, Limit) /\ L <= N
  BY DEF Least
<1>2. Cut(s) = SubSeq(s, 1, L)
  BY <1>0, <1>1 DEF Cut
<1>3. \A i \in 1..L : i \in 1..N /\ s[i] \in S
  BY <1>0, <1>1
<1>4. 1 \in Int /\ L \in Int
  OBVIOUS
<1>5. /\ SubSeq(s, 1, L) \in Seq(S)
      /\ Len(SubSeq(s, 1, L)) = IF 1 <= L THEN L - 1 + 1 ELSE 0
      /\ \A i \in 1..(L - 1 + 1) : SubSeq(s, 1, L)[i] = s[1 + i - 1]
  BY <1>3, <1>4, SubSeqProperties
<1>6. (IF 1 <= L THEN L - 1 + 1 ELSE 0) = L /\ L - 1 + 1 = L /\ \A i \in 1..L : 1 + i - 1 = i
  OBVIOUS
<1>7. Len(SubSeq(s, 1, L)) = L /\ \A i \in 1..L : SubSeq(s, 1, L)[i] = s[i]
  BY <1>5, <1>6
<1> QED
  BY <1>0, <1>1, <1>2, <1>3, <1>5, <1>7

(* The lanes are rankings, cut or not. *)
LEMMA LanesFacts ==
  ASSUME input \in Inputs, NEW l \in 1..2
  PROVE  Lanes[l] \in Seq(Chunks) /\ IsInjective(Lanes[l])
<1> DEFINE s == input.lanes[l]
<1>1. s \in Seq(Chunks) /\ IsInjective(s) /\ Limit \in Nat \ {0}
  BY LimitFacts
<1>2. Lanes[l] = s \/ Lanes[l] = Cut(s)
  BY DEF Lanes
<1>3. CASE Lanes[l] = Cut(s)
  <2>1. Cut(s) \in Seq(Chunks) /\ \A i \in 1..Len(Cut(s)) : i \in 1..Len(s) /\ Cut(s)[i] = s[i]
    BY <1>1, CutFacts
  <2>2. DOMAIN Cut(s) = 1..Len(Cut(s)) /\ DOMAIN s = 1..Len(s)
    BY <1>1, <2>1, LenProperties
  <2> HIDE DEF s
  <2>3. IsInjective(Cut(s))
    BY <1>1, <2>1, <2>2 DEF IsInjective
  <2> QED
    BY <1>3, <2>1, <2>3
<1> QED
  BY <1>1, <1>2, <1>3

(* No chunk is in the list twice. *)
Distinct(items) ==
  \A i, j \in 1..Len(items) : items[i].chunk = items[j].chunk => i = j

Agreed(a, b) ==
  /\ a # b
  /\ \A l \in 1..2 : Contains(Lanes[l], b) =>
       Contains(Lanes[l], a) /\ RankIn(Lanes[l], a) < RankIn(Lanes[l], b)

(* A chunk that both rankings place behind another scores less. *)
LEMMA AgreedScoresMore ==
  ASSUME input \in Inputs, NEW a \in Chunks, NEW b \in Chunks,
         Contains(Lanes[1], b) \/ Contains(Lanes[2], b)
  PROVE  /\ FusedScore(Lanes, b) \in Nat /\ FusedScore(Lanes, b) <= 2 * Reach
         /\ Agreed(a, b) => FusedScore(Lanes, b) < FusedScore(Lanes, a)
<1>1. \A l \in 1..2 : \A c \in Chunks :
        /\ Weight(Lanes[l], c) \in Nat /\ Weight(Lanes[l], c) <= Reach
        /\ ~Contains(Lanes[l], c) => Weight(Lanes[l], c) = 0
  BY LanesFacts, WeightFacts
<1>2. ASSUME Agreed(a, b), NEW l \in 1..2, Contains(Lanes[l], b)
      PROVE  Weight(Lanes[l], b) < Weight(Lanes[l], a)
  <2>1. Contains(Lanes[l], a) /\ RankIn(Lanes[l], a) < RankIn(Lanes[l], b)
    BY <1>2 DEF Agreed
  <2> QED
    BY <1>2, <2>1, LanesFacts, WeightFacts
<1>3. 1 \in 1..2 /\ 2 \in 1..2
  OBVIOUS
<1> DEFINE x == Weight(Lanes[1], b)
           y == Weight(Lanes[2], b)
           v == Weight(Lanes[1], a)
           w == Weight(Lanes[2], a)
<1>4. x \in Nat /\ y \in Nat /\ v \in Nat /\ w \in Nat /\ x <= Reach /\ y <= Reach
  BY <1>1, <1>3
<1>5. Reach \in Nat
  BY LanesFacts, WeightFacts, <1>3
<1>6. ASSUME Agreed(a, b)
      PROVE  (x < v /\ (y < w \/ y = 0)) \/ (y < w /\ x = 0)
  BY <1>1, <1>2, <1>3, <1>6
<1>7. FusedScore(Lanes, b) = x + y /\ FusedScore(Lanes, a) = v + w
  BY DEF FusedScore
<1> HIDE DEF x, y, v, w
<1>8. x + y \in Nat /\ x + y <= 2 * Reach
  BY <1>4, <1>5
<1>9. ASSUME Agreed(a, b)
      PROVE  x + y < v + w
  BY <1>4, <1>6, <1>9
<1> QED
  BY <1>7, <1>8, <1>9

Fused == Cut(Sorted(Scored(FirstSeen(Lanes))))

(* The fused list: distinct chunks, each behind those that both rankings   *)
(* place before it.                                                        *)
LEMMA FusedFacts ==
  ASSUME input \in Inputs
  PROVE  /\ Fused \in Seq(Item) /\ Distinct(Fused)
         /\ \A i \in 1..Len(Fused) : Fused[i].score <= 2 * Reach
         /\ \A a, b \in Chunks : \A i \in 1..Len(Fused) :
              Agreed(a, b) /\ Fused[i].chunk = b
                => \E j \in 1..Len(Fused) : j < i /\ Fused[j].chunk = a
<1> DEFINE F == FirstSeen(Lanes)
           s == Scored(F)
           t == Sorted(s)
<1>1. /\ F \in Seq(Chunks)
      /\ \A c \in Chunks : (\E i \in 1..Len(F) : F[i] = c)
                           <=> Contains(Lanes[1], c) \/ Contains(Lanes[2], c)
      /\ \A i, j \in 1..Len(F) : F[i] = F[j] => i = j
  BY LanesFacts, FirstSeenFacts
<1>2. PICK N \in Nat : Len(F) = N /\ DOMAIN F = 1..N /\ F \in [1..N -> Chunks]
  BY <1>1, LenProperties
<1>3. \A i \in 1..N : Contains(Lanes[1], F[i]) \/ Contains(Lanes[2], F[i])
  <2> HIDE DEF F
  <2> QED
    BY <1>1, <1>2
<1>4. \A i \in 1..N : FusedScore(Lanes, F[i]) \in Nat /\ FusedScore(Lanes, F[i]) <= 2 * Reach
  <2> HIDE DEF F
  <2> QED
    BY <1>2, <1>3, AgreedScoresMore
<1>5. /\ s \in [1..N -> Item]
      /\ \A i \in 1..N : s[i].chunk = F[i] /\ s[i].score = FusedScore(Lanes, F[i])
  <2> HIDE DEF F
  <2> QED
    BY <1>2, <1>4 DEF Scored, Item
<1>20. \A i \in 1..N : s[i].score \in Nat /\ s[i].score \in Int
  <2> HIDE DEF s
  <2> QED
    BY <1>5 DEF Item
<1>6. s \in Seq(Item) /\ Len(s) = N
  <2> HIDE DEF s
  <2> QED
    BY <1>5, SeqDef, LenProperties
<1>7. /\ t \in Seq(Item) /\ Len(t) = N
      /\ \E p \in [1..N -> 1..N] :
           /\ \A n \in 1..N : t[n] = s[p[n]]
           /\ \A x \in 1..N : \E n \in 1..N : p[n] = x
           /\ \A n, m \in 1..N : n < m => <<p[n], p[m]>> \in HigherFirst(s)
  <2> HIDE DEF s
  <2> QED
    BY <1>6, SortedFacts
<1>8. PICK p \in [1..N -> 1..N] :
        /\ \A n \in 1..N : t[n] = s[p[n]]
        /\ \A x \in 1..N : \E n \in 1..N : p[n] = x
        /\ \A n, m \in 1..N : n < m => <<p[n], p[m]>> \in HigherFirst(s)
  BY <1>7
<1>9. \A x, y \in 1..N : <<x, y>> \in HigherFirst(s) =>
        s[x].score >= s[y].score /\ (s[x].score > s[y].score \/ x < y)
  <2> SUFFICES ASSUME NEW x \in 1..N, NEW y \in 1..N, <<x, y>> \in HigherFirst(s)
               PROVE  s[x].score >= s[y].score /\ (s[x].score > s[y].score \/ x < y)
    OBVIOUS
  <2>1. s[x].score > s[y].score \/ (s[x].score = s[y].score /\ x < y)
    <3> HIDE DEF s
    <3> QED
      BY DEF HigherFirst
  <2>2. s[x].score \in Int /\ s[y].score \in Int
    <3> HIDE DEF s
    <3> QED
      BY <1>20
  <2> QED
    BY <2>1, <2>2
<1>10. \A n, m \in 1..N : p[n] = p[m] => n = m
  <2> SUFFICES ASSUME NEW n \in 1..N, NEW m \in 1..N, p[n] = p[m], n < m \/ m < n
               PROVE  FALSE
    OBVIOUS
  <2>1. <<p[n], p[n]>> \in HigherFirst(s)
    BY <1>8
  <2>2. p[n] \in 1..N
    BY <1>8
  <2>3. s[p[n]].score > s[p[n]].score \/ p[n] < p[n]
    <3> HIDE DEF s
    <3> QED
      BY <1>9, <2>1, <2>2
  <2>4. s[p[n]].score \in Int /\ p[n] \in Int
    <3> HIDE DEF s
    <3> QED
      BY <1>20, <2>2
  <2> QED
    BY <2>3, <2>4
<1>11. \A n, m \in 1..N : t[n].chunk = t[m].chunk => n = m
  <2> SUFFICES ASSUME NEW n \in 1..N, NEW m \in 1..N, t[n].chunk = t[m].chunk
               PROVE  n = m
    OBVIOUS
  <2>1. p[n] \in 1..N /\ p[m] \in 1..N
    BY <1>8
  <2> HIDE DEF t, s, F
  <2>2. F[p[n]] = F[p[m]]
    BY <1>5, <1>8, <2>1
  <2> QED
    BY <1>1, <1>2, <1>10, <2>1, <2>2
<1>12. \A n \in 1..N : t[n].score <= 2 * Reach
  <2> SUFFICES ASSUME NEW n \in 1..N
               PROVE  t[n].score <= 2 * Reach
    OBVIOUS
  <2>1. p[n] \in 1..N
    BY <1>8
  <2> HIDE DEF t, s, F
  <2> QED
    BY <1>4, <1>5, <1>8, <2>1
<1>13. ASSUME NEW a \in Chunks, NEW b \in Chunks, NEW i \in 1..N,
              Agreed(a, b), t[i].chunk = b
       PROVE  \E j \in 1..N : j < i /\ t[j].chunk = a
  <2>1. p[i] \in 1..N /\ F[p[i]] = b /\ s[p[i]].score = FusedScore(Lanes, b)
    <3>1. p[i] \in 1..N
      BY <1>8
    <3> HIDE DEF t, s, F
    <3>2. t[i] = s[p[i]] /\ s[p[i]].chunk = F[p[i]]
          /\ s[p[i]].score = FusedScore(Lanes, F[p[i]])
      BY <1>5, <1>8, <3>1
    <3> QED
      BY <1>13, <3>1, <3>2
  <2>2. Contains(Lanes[1], b) \/ Contains(Lanes[2], b)
    <3> HIDE DEF F
    <3> QED
      BY <1>3, <2>1
  <2>3. Contains(Lanes[1], a) \/ Contains(Lanes[2], a)
    BY <1>13, <2>2 DEF Agreed
  <2>4. PICK x \in 1..N : F[x] = a
    <3> HIDE DEF F
    <3> QED
      BY <1>1, <1>2, <2>3
  <2>5. PICK j \in 1..N : p[j] = x
    BY <1>8
  <2>6. t[j].chunk = a /\ s[p[j]].score = FusedScore(Lanes, a)
    <3> HIDE DEF t, s, F
    <3> QED
      BY <1>5, <1>8, <2>4, <2>5
  <2>7. FusedScore(Lanes, b) < FusedScore(Lanes, a)
        /\ FusedScore(Lanes, b) \in Int /\ FusedScore(Lanes, a) \in Int
    BY <1>13, <2>2, <2>3, AgreedScoresMore
  <2>8. ~(i < j)
    <3> SUFFICES ASSUME i < j
                 PROVE  FALSE
      OBVIOUS
    <3>1. <<p[i], p[j]>> \in HigherFirst(s) /\ p[j] \in 1..N
      BY <1>8
    <3>2. s[p[i]].score >= s[p[j]].score
      <4> HIDE DEF s
      <4> QED
        BY <1>9, <2>1, <3>1
    <3> HIDE DEF s, t, F
    <3> QED
      BY <2>1, <2>6, <2>7, <3>2
  <2>9. i # j
    <3> HIDE DEF t
    <3> QED
      BY <1>13, <2>6 DEF Agreed
  <2> QED
    BY <2>6, <2>8, <2>9
<1> DEFINE r == Cut(t)
<1>14. /\ r \in Seq(Item) /\ Len(r) <= N
       /\ \A i \in 1..Len(r) : i \in 1..N /\ r[i] = t[i]
  <2> HIDE DEF t
  <2>1. Limit \in Nat \ {0}
    BY LimitFacts
  <2>2. /\ Cut(t) \in Seq(Item) /\ Len(Cut(t)) <= Len(t)
        /\ \A i \in 1..Len(Cut(t)) : i \in 1..Len(t) /\ Cut(t)[i] = t[i]
    <3>1. t \in Seq(Item)
      BY <1>7
    <3> QED
      BY <2>1, <3>1, CutFacts
  <2> QED
    BY <1>7, <2>2
<1>15. PICK L \in Nat : Len(r) = L
  <2> HIDE DEF r
  <2> QED
    BY <1>14, LenProperties
<1>16. Fused = r
  BY DEF Fused
<1> HIDE DEF r, t, s, F
<1>17. ASSUME NEW a \in Chunks, NEW b \in Chunks, NEW i \in 1..L,
              Agreed(a, b), r[i].chunk = b
       PROVE  \E j \in 1..L : j < i /\ r[j].chunk = a
  <2>1. i \in 1..N /\ t[i].chunk = b
    BY <1>14, <1>15, <1>17
  <2>2. PICK j \in 1..N : j < i /\ t[j].chunk = a
    BY <1>13, <1>17, <2>1
  <2>3. j \in 1..L
    BY <2>2
  <2> QED
    BY <1>14, <1>15, <2>2, <2>3
<1>18. \A i, j \in 1..L : r[i].chunk = r[j].chunk => i = j
  BY <1>11, <1>14, <1>15
<1>19. \A i \in 1..L : r[i].score <= 2 * Reach
  BY <1>12, <1>14, <1>15
<1> QED
  BY <1>14, <1>15, <1>16, <1>17, <1>18, <1>19 DEF Distinct

-----------------------------------------------------------------------------
(* The inductive invariants. *)

ChunksOf(items) == {items[i].chunk : i \in 1..Len(items)}
Bounded(items) == \A i \in 1..Len(items) : items[i].score <= Unit + 2 * Reach
Docs == {Doc(c) : c \in Chunks}
Taken(items, d) == Cardinality(OfDoc(items, d))

(* The lists in hand: no chunk twice, no score above what a match of the   *)
(* best rank in both rankings has.                                         *)
InHand ==
  /\ corpus \in Corpora /\ input \in Inputs
  /\ stage \in {"fuse", "inject", "dedup", "mmr", "done"}
  /\ list \in Seq(Item) /\ Distinct(list) /\ Bounded(list)
  /\ remaining \in Seq(Item) /\ Distinct(remaining) /\ Bounded(remaining)
  /\ selected \in Seq(Item) /\ Distinct(selected) /\ Bounded(selected)
  /\ ChunksOf(remaining) \cap ChunksOf(selected) = {}
  /\ stage = "dedup" => ChunksOf(remaining) \cap ChunksOf(list) = {}
  /\ stage \in {"fuse", "inject", "dedup"} => selected = << >>
  /\ stage = "fuse" => list = << >> /\ remaining = << >>
  /\ stage \in {"inject", "dedup"} => input.mode = "retrieve"
  /\ stage = "inject" \/ (stage = "mmr" /\ input.mode = "merge") => list = Fused

(* While selecting: what a document has lost from the candidates it has in *)
(* the results, or the results hold all of it that they may.               *)
SlotsAccountedFor ==
  stage \in {"mmr", "done"} =>
    /\ Len(selected) <= input.k
    /\ \A d \in Docs :
         /\ Taken(selected, d) <= MaxPerDoc
         /\ Taken(selected, d) + Taken(remaining, d) <= Taken(list, d)
         /\ \/ Taken(selected, d) + Taken(remaining, d) = Taken(list, d)
            \/ Taken(selected, d) = MaxPerDoc
    /\ stage = "done" => remaining = << >> \/ Len(selected) = input.k

(* Scores tell the matches from the others. *)
ToldApart(items) ==
  \A i \in 1..Len(items) :
    /\ items[i].chunk \in input.matches => Unit <= items[i].score
    /\ items[i].chunk \notin input.matches => items[i].score <= 2 * Reach

MatchesLead(items) ==
  \A i, j \in 1..Len(items) :
    i < j /\ items[j].chunk \in input.matches => items[i].chunk \in input.matches

(* Why a match is not listed when those of S are. *)
Explains(S, c) ==
  \/ MaxPerDoc <= Cardinality({r \in S : Doc(r) = Doc(c)})
  \/ \E r \in S : Title(r) = Title(c) /\ Doc(r) # Doc(c)

Explained(c) == Explains(ChunksOf(list) \cap input.matches, c)

WithinLimits == \A d \in Docs : Taken(list, d) <= MaxPerDoc

(* While removing duplicates: only matches are kept while matches are to    *)
(* come, and none is dropped without a reason.                              *)
MatchesKept ==
  stage = "dedup" =>
    /\ ToldApart(list) /\ ToldApart(remaining) /\ MatchesLead(remaining) /\ WithinLimits
    /\ ChunksOf(remaining) \cap input.matches # {} => ChunksOf(list) \subseteq input.matches
    /\ \A c \in input.matches : \/ c \in ChunksOf(remaining) \cup ChunksOf(list)
                                \/ Explained(c)

(* While selecting: nothing but matches is selected while one remains.      *)
MatchesSelected ==
  stage \in {"mmr", "done"} /\ input.mode = "retrieve" =>
    /\ ToldApart(remaining) /\ WithinLimits
    /\ ChunksOf(list) = ChunksOf(selected) \cup ChunksOf(remaining)
    /\ \A c \in input.matches : \/ c \in ChunksOf(list) \/ Explained(c)
                                \/ ChunksOf(list) \subseteq input.matches
    /\ MatchesLead(selected)
    /\ \/ ChunksOf(selected) \subseteq input.matches
       \/ ChunksOf(remaining) \cap input.matches = {}

-----------------------------------------------------------------------------
(* Lists of items. *)

(* The items of a document are finitely many. *)
LEMMA TakenFacts ==
  ASSUME NEW s \in Seq(Item), NEW d
  PROVE  /\ IsFiniteSet(OfDoc(s, d)) /\ Taken(s, d) \in Nat
         /\ \A i \in 1..Len(s) : Doc(s[i].chunk) = d => 0 < Taken(s, d)
<1>0. PICK N \in Nat : Len(s) = N /\ DOMAIN s = 1..N
  BY LenProperties
<1>1. 1 \in Int /\ N \in Int
  OBVIOUS
<1>2. OfDoc(s, d) \in SUBSET (1..N) /\ IsFiniteSet(1..N)
  BY <1>0, <1>1, FS_Interval DEF OfDoc
<1>3. IsFiniteSet(OfDoc(s, d)) /\ Taken(s, d) \in Nat
  BY <1>2, FS_Subset, FS_CardinalityType DEF Taken
<1>4. ASSUME NEW i \in 1..N, Doc(s[i].chunk) = d
      PROVE  0 < Taken(s, d)
  <2>1. i \in OfDoc(s, d)
    BY <1>0, <1>4 DEF OfDoc
  <2>2. Taken(s, d) # 0
    BY <1>3, <2>1, FS_EmptySet DEF Taken
  <2> QED
    BY <1>3, <2>2
<1> QED
  BY <1>0, <1>3, <1>4

(* An empty list has nothing. *)
LEMMA EmptyFacts ==
  /\ << >> \in Seq(Item) /\ Distinct(<< >>) /\ Bounded(<< >>) /\ ToldApart(<< >>)
  /\ MatchesLead(<< >>) /\ ChunksOf(<< >>) = {} /\ \A d : Taken(<< >>, d) = 0
<1>1. << >> \in Seq(Item) /\ Len(<< >>) = 0
  BY EmptySeq
<1>2. 1..Len(<< >>) = {} /\ DOMAIN << >> = {}
  BY <1>1, LenProperties
<1>3. \A d : OfDoc(<< >>, d) = {}
  BY <1>2 DEF OfDoc
<1>4. \A d : Taken(<< >>, d) = 0
  BY <1>3, FS_EmptySet DEF Taken
<1>5. ChunksOf(<< >>) = {}
  BY <1>2 DEF ChunksOf
<1>6. Distinct(<< >>) /\ Bounded(<< >>) /\ ToldApart(<< >>) /\ MatchesLead(<< >>)
  BY <1>2 DEF Distinct, Bounded, ToldApart, MatchesLead
<1> QED
  BY <1>1, <1>4, <1>5, <1>6

(* An item added at the end. *)
LEMMA Appended ==
  ASSUME NEW s \in Seq(Item), NEW e \in Item
  PROVE  /\ Append(s, e) \in Seq(Item) /\ Len(Append(s, e)) = Len(s) + 1
         /\ Append(s, e)[Len(s) + 1] = e
         /\ \A i \in 1..Len(s) : Append(s, e)[i] = s[i]
         /\ \A i \in 1..(Len(s) + 1) : i \in 1..Len(s) \/ i = Len(s) + 1
         /\ ChunksOf(Append(s, e)) = ChunksOf(s) \cup {e.chunk}
         /\ Distinct(s) /\ e.chunk \notin ChunksOf(s) => Distinct(Append(s, e))
         /\ \A d : Taken(Append(s, e), d) =
                     IF Doc(e.chunk) = d THEN Taken(s, d) + 1 ELSE Taken(s, d)
<1> DEFINE t == Append(s, e)
<1>0. PICK N \in Nat : Len(s) = N /\ DOMAIN s = 1..N
  BY LenProperties
<1>1. /\ t \in Seq(Item) /\ Len(t) = N + 1
      /\ \A i \in 1..N : t[i] = s[i]
      /\ t[N + 1] = e
  BY <1>0, AppendProperties
<1>2. DOMAIN t = 1..(N + 1)
  BY <1>1, LenProperties
<1> HIDE DEF t
<1>3. \A i \in 1..(N + 1) : i \in 1..N \/ i = N + 1
  OBVIOUS
<1>4. N + 1 \in 1..(N + 1) /\ N + 1 \notin 1..N /\ \A i \in 1..N : i \in 1..(N + 1)
  OBVIOUS
<1>5. ChunksOf(t) = ChunksOf(s) \cup {e.chunk}
  <2>1. \A i \in 1..(N + 1) : t[i].chunk \in ChunksOf(s) \cup {e.chunk}
    BY <1>0, <1>1, <1>3 DEF ChunksOf
  <2>2. \A i \in 1..N : s[i].chunk = t[i].chunk /\ i \in 1..(N + 1)
    BY <1>1, <1>4
  <2>3. e.chunk = t[N + 1].chunk
    BY <1>1
  <2>4. ChunksOf(t) = {t[i].chunk : i \in 1..(N + 1)} /\ ChunksOf(s) = {s[i].chunk : i \in 1..N}
    BY <1>0, <1>1 DEF ChunksOf
  <2> QED
    BY <1>4, <2>1, <2>2, <2>3, <2>4
<1>6. ASSUME Distinct(s), e.chunk \notin ChunksOf(s)
      PROVE  Distinct(t)
  <2>1. \A i \in 1..N : t[i].chunk = s[i].chunk /\ s[i].chunk # e.chunk
    BY <1>0, <1>1, <1>6 DEF ChunksOf
  <2>2. t[N + 1].chunk = e.chunk
    BY <1>1
  <2>3. \A i, j \in 1..N : s[i].chunk = s[j].chunk => i = j
    BY <1>0, <1>6 DEF Distinct
  <2>4. \A i, j \in 1..(N + 1) : t[i].chunk = t[j].chunk => i = j
    BY <1>3, <2>1, <2>2, <2>3
  <2> QED
    BY <1>1, <2>4 DEF Distinct
<1>7. ASSUME NEW d
      PROVE  Taken(t, d) = IF Doc(e.chunk) = d THEN Taken(s, d) + 1 ELSE Taken(s, d)
  <2>1. OfDoc(t, d) = IF Doc(e.chunk) = d THEN OfDoc(s, d) \cup {N + 1} ELSE OfDoc(s, d)
    <3>1. \A i \in 1..N : i \in OfDoc(t, d) <=> i \in OfDoc(s, d)
      BY <1>0, <1>1, <1>2, <1>4 DEF OfDoc
    <3>2. N + 1 \in OfDoc(t, d) <=> Doc(e.chunk) = d
      BY <1>1, <1>2, <1>4 DEF OfDoc
    <3>3. OfDoc(t, d) \subseteq 1..(N + 1) /\ OfDoc(s, d) \subseteq 1..N
      BY <1>0, <1>2 DEF OfDoc
    <3>4. \A i : i \in OfDoc(t, d) <=> i \in OfDoc(s, d) \/ (i = N + 1 /\ Doc(e.chunk) = d)
      BY <1>3, <1>4, <3>1, <3>2, <3>3
    <3> QED
      BY <3>4
  <2>2. IsFiniteSet(OfDoc(s, d)) /\ N + 1 \notin OfDoc(s, d)
    BY <1>0, <1>4, TakenFacts DEF OfDoc
  <2>3. Cardinality(OfDoc(s, d) \cup {N + 1}) = Cardinality(OfDoc(s, d)) + 1
    BY <2>2, FS_AddElement
  <2> QED
    BY <2>1, <2>3 DEF Taken
<1> QED
  BY <1>0, <1>1, <1>3, <1>5, <1>6, <1>7 DEF t

(* Removing an element moves those behind it up by one. *)
LEMMA RemoveAtFacts ==
  ASSUME NEW S, NEW s \in Seq(S), NEW i \in Nat, 1 <= i, i <= Len(s)
  PROVE  /\ RemoveAt(s, i) \in Seq(S)
         /\ Len(RemoveAt(s, i)) = Len(s) - 1
         /\ \A j \in 1..(Len(s) - 1) : RemoveAt(s, i)[j] = IF j < i THEN s[j] ELSE s[j + 1]
<1>1. Len(s) \in Nat /\ s \in [1..Len(s) -> S]
  BY LenProperties
<1> DEFINE front == SubSeq(s, 1, i - 1)
           rear == SubSeq(s, i + 1, Len(s))
<1>2. /\ front \in Seq(S) /\ Len(front) = i - 1
      /\ \A j \in 1..(i - 1) : front[j] = s[j]
  BY <1>1, SubSeqProperties
<1>3. /\ rear \in Seq(S) /\ Len(rear) = Len(s) - i
      /\ \A j \in 1..(Len(s) - i) : rear[j] = s[i + j]
  <2>1. i + 1 \in Int /\ Len(s) \in Int /\ \A j \in (i + 1)..Len(s) : s[j] \in S
    BY <1>1
  <2>2. /\ rear \in Seq(S)
        /\ Len(rear) = IF i + 1 <= Len(s) THEN Len(s) - (i + 1) + 1 ELSE 0
        /\ \A j \in 1..(Len(s) - (i + 1) + 1) : rear[j] = s[(i + 1) + j - 1]
    BY <2>1, SubSeqProperties
  <2> HIDE DEF rear
  <2>3. Len(rear) = Len(s) - i
    <3>1. PICK n \in Nat : Len(s) = n
      BY <1>1
    <3>2. i <= n /\ Len(rear) = IF i + 1 <= n THEN n - (i + 1) + 1 ELSE 0
      BY <2>2, <3>1
    <3>3. Len(rear) = n - i
      BY <3>2
    <3> QED BY <3>1, <3>3
  <2>4. \A j \in 1..(Len(s) - i) : rear[j] = s[i + j]
    <3> TAKE j \in 1..(Len(s) - i)
    <3>1. j \in 1..(Len(s) - (i + 1) + 1) /\ (i + 1) + j - 1 = i + j
      BY <1>1
    <3> QED
      BY <2>2, <3>1
  <2> QED
    BY <2>2, <2>3, <2>4
<1> HIDE DEF front, rear
<1>4. /\ front \o rear \in Seq(S) /\ Len(front \o rear) = Len(s) - 1
      /\ \A j \in 1..(Len(s) - 1) :
           (front \o rear)[j] = IF j <= i - 1 THEN front[j] ELSE rear[j - (i - 1)]
  <2>1. /\ front \o rear \in Seq(S)
        /\ Len(front \o rear) = Len(front) + Len(rear)
        /\ \A j \in 1..(Len(front) + Len(rear)) :
             (front \o rear)[j] = IF j <= Len(front) THEN front[j] ELSE rear[j - Len(front)]
    BY <1>2, <1>3, ConcatProperties
  <2>2. Len(front) = i - 1 /\ Len(front) + Len(rear) = Len(s) - 1
    BY <1>1, <1>2, <1>3
  <2> QED
    BY <2>1, <2>2
<1>5. ASSUME NEW j \in 1..(Len(s) - 1)
      PROVE  (front \o rear)[j] = IF j < i THEN s[j] ELSE s[j + 1]
  <2>1. CASE j < i
    BY <1>1, <1>2, <1>4, <2>1
  <2>2. CASE ~(j < i)
    <3>1. j - (i - 1) \in 1..(Len(s) - i) /\ i + (j - (i - 1)) = j + 1
      BY <1>1, <2>2
    <3> QED
      BY <1>3, <1>4, <2>2, <3>1
  <2> QED
    BY <2>1, <2>2
<1> QED
  BY <1>4, <1>5 DEF RemoveAt, front, rear

(* t is s without its i-th item. *)
Without(t, s, i) ==
  /\ t \in Seq(Item) /\ Len(t) = Len(s) - 1
  /\ \A j \in 1..(Len(s) - 1) : t[j] = IF j < i THEN s[j] ELSE s[j + 1]

(* An item taken out: the others stay. *)
LEMMA TakenOut ==
  ASSUME NEW s \in Seq(Item), Distinct(s), NEW i \in 1..Len(s), NEW t, Without(t, s, i)
  PROVE  /\ \A j \in 1..Len(t) : \E m \in 1..Len(s) : t[j] = s[m]
         /\ ChunksOf(t) = ChunksOf(s) \ {s[i].chunk}
         /\ Distinct(t)
         /\ \A d : Taken(t, d) =
                     IF Doc(s[i].chunk) = d THEN Taken(s, d) - 1 ELSE Taken(s, d)
<1>0. PICK N \in Nat : Len(s) = N /\ DOMAIN s = 1..N
  BY LenProperties
<1>1. i \in 1..N /\ N - 1 \in Nat
  BY <1>0
<1>2. /\ t \in Seq(Item) /\ Len(t) = N - 1
      /\ \A j \in 1..(N - 1) : t[j] = IF j < i THEN s[j] ELSE s[j + 1]
  BY <1>0 DEF Without
<1>3. DOMAIN t = 1..(N - 1)
  BY <1>2, LenProperties
<1> DEFINE from == [j \in 1..(N - 1) |-> IF j < i THEN j ELSE j + 1]
<1>4. /\ from \in [1..(N - 1) -> 1..N]
      /\ \A j, m \in 1..(N - 1) : from[j] = from[m] => j = m
      /\ \A j \in 1..(N - 1) : from[j] # i
  BY <1>1
<1>5. ASSUME NEW m \in 1..N, m # i
      PROVE  \E j \in 1..(N - 1) : from[j] = m
  <2>1. CASE m < i
    <3>1. m \in 1..(N - 1) /\ from[m] = m
      BY <1>1, <2>1
    <3> QED
      BY <3>1
  <2>2. CASE i < m
    <3>1. m - 1 \in 1..(N - 1) /\ ~(m - 1 < i) /\ m - 1 + 1 = m
      BY <1>1, <2>2
    <3>2. from[m - 1] = m
      BY <3>1
    <3> QED
      BY <3>1, <3>2
  <2> QED
    BY <1>1, <1>5, <2>1, <2>2
<1>6. \A j \in 1..(N - 1) : t[j] = s[from[j]]
  BY <1>2
<1> HIDE DEF from
<1>7. \A j \in 1..(N - 1) : \E m \in 1..N : t[j] = s[m]
  BY <1>4, <1>6
<1>8. \A m, n \in 1..N : s[m].chunk = s[n].chunk => m = n
  BY <1>0 DEF Distinct
<1>9. ChunksOf(t) = ChunksOf(s) \ {s[i].chunk}
  <2>1. \A j \in 1..(N - 1) : t[j].chunk \in {s[m].chunk : m \in 1..N} \ {s[i].chunk}
    BY <1>1, <1>4, <1>6, <1>8
  <2>2. ASSUME NEW m \in 1..N, s[m].chunk # s[i].chunk
        PROVE  s[m].chunk \in {t[j].chunk : j \in 1..(N - 1)}
    <3>1. PICK j \in 1..(N - 1) : from[j] = m
      BY <1>5, <2>2
    <3> QED
      BY <1>6, <3>1
  <2>3. ChunksOf(t) = {t[j].chunk : j \in 1..(N - 1)} /\ ChunksOf(s) = {s[m].chunk : m \in 1..N}
    BY <1>0, <1>2 DEF ChunksOf
  <2> QED
    BY <2>1, <2>2, <2>3
<1>10. Distinct(t)
  <2>1. \A j, m \in 1..(N - 1) : t[j].chunk = t[m].chunk => j = m
    BY <1>4, <1>6, <1>8
  <2> QED
    BY <1>2, <2>1 DEF Distinct
<1>11. ASSUME NEW d
       PROVE  Taken(t, d) = IF Doc(s[i].chunk) = d THEN Taken(s, d) - 1 ELSE Taken(s, d)
  <2> DEFINE P == OfDoc(t, d)
             Q == OfDoc(s, d) \ {i}
             f == [j \in P |-> from[j]]
  <2>1. P \subseteq 1..(N - 1) /\ \A j \in 1..(N - 1) : j \in P <=> Doc(t[j].chunk) = d
    BY <1>3 DEF OfDoc
  <2>2. Q \subseteq 1..N /\ \A m \in 1..N : m \in Q <=> m # i /\ Doc(s[m].chunk) = d
    BY <1>0 DEF OfDoc
  <2>3. IsFiniteSet(P) /\ IsFiniteSet(OfDoc(s, d)) /\ Cardinality(OfDoc(s, d)) \in Nat
    BY <1>2, TakenFacts DEF Taken
  <2> HIDE DEF P, Q
  <2>4. f \in [P -> Q]
    BY <1>4, <1>6, <2>1, <2>2
  <2>5. \A j, m \in P : f[j] = f[m] => j = m
    BY <1>4, <2>1
  <2>6. \A m \in Q : \E j \in P : f[j] = m
    <3> SUFFICES ASSUME NEW m \in Q
                 PROVE  \E j \in P : f[j] = m
      OBVIOUS
    <3>1. m \in 1..N /\ m # i /\ Doc(s[m].chunk) = d
      BY <2>2
    <3>2. PICK j \in 1..(N - 1) : from[j] = m
      BY <1>5, <3>1
    <3>3. j \in P
      BY <1>6, <2>1, <3>1, <3>2
    <3> QED
      BY <3>2, <3>3
  <2>7. ExistsBijection(P, Q)
    <3> HIDE DEF f
    <3>1. f \in Bijection(P, Q)
      BY <2>4, <2>5, <2>6 DEF Bijection, Injection, Surjection, IsInjective
    <3> QED
      BY <3>1 DEF ExistsBijection
  <2>8. Cardinality(Q) = Cardinality(P)
    BY <2>3, <2>7, FS_Bijection
  <2>9. i \in OfDoc(s, d) <=> Doc(s[i].chunk) = d
    BY <1>0, <1>1 DEF OfDoc
  <2>10. Cardinality(Q) = IF i \in OfDoc(s, d) THEN Cardinality(OfDoc(s, d)) - 1
                                              ELSE Cardinality(OfDoc(s, d))
    BY <2>3, FS_RemoveElement DEF Q
  <2> QED
    BY <2>8, <2>9, <2>10 DEF Taken, P
<1> QED
  BY <1>0, <1>2, <1>7, <1>9, <1>10, <1>11

(* mmr_select's pop and _dedup's next turn. *)
LEMMA RemovalFacts ==
  ASSUME NEW s \in Seq(Item), NEW i \in 1..Len(s)
  PROVE  Without(RemoveAt(s, i), s, i) /\ Without(Tail(s), s, 1) /\ Head(s) = s[1]
         /\ 1 \in 1..Len(s)
<1>0. PICK N \in Nat : Len(s) = N
  BY LenProperties
<1>1. i \in Nat /\ 1 <= i /\ i <= N /\ 1 \in 1..N
  BY <1>0
<1>2. /\ RemoveAt(s, i) \in Seq(Item) /\ Len(RemoveAt(s, i)) = N - 1
      /\ \A j \in 1..(N - 1) : RemoveAt(s, i)[j] = IF j < i THEN s[j] ELSE s[j + 1]
  BY <1>0, <1>1, RemoveAtFacts
<1>3. s # << >>
  <2>1. N # 0
    BY <1>1
  <2> QED
    BY <1>0, <2>1, EmptySeq
<1>4. /\ Tail(s) \in Seq(Item) /\ Len(Tail(s)) = N - 1
      /\ \A j \in 1..(N - 1) : Tail(s)[j] = s[j + 1]
  BY <1>0, <1>3, HeadTailProperties
<1>5. \A j \in 1..(N - 1) : ~(j < 1)
  OBVIOUS
<1>6. Head(s) = s[1]
  BY <1>3
<1>7. \A j \in 1..(N - 1) : Tail(s)[j] = IF j < 1 THEN s[j] ELSE s[j + 1]
  BY <1>4, <1>5
<1>8. Without(RemoveAt(s, i), s, i)
  BY <1>0, <1>2 DEF Without
<1>9. Without(Tail(s), s, 1)
  BY <1>0, <1>4, <1>7 DEF Without
<1> QED
  BY <1>0, <1>1, <1>6, <1>8, <1>9

-----------------------------------------------------------------------------
(* Values. *)

(* The first of a finite set, in an order. *)
LEMMA FirstInOrder ==
  ASSUME NEW S, IsFiniteSet(S), S # {}, NEW R, Orders(R, S)
  PROVE  \E x \in S : \A y \in S : y = x \/ <<x, y>> \in R
<1> DEFINE A == Arranged(S, R)
<1>1. PICK N \in Nat : N = Cardinality(S)
  BY FS_CardinalityType
<1>2. /\ A \in [1..N -> S]
      /\ \A x \in S : \E n \in 1..N : A[n] = x
      /\ \A n, m \in 1..N : n < m => <<A[n], A[m]>> \in R
  <2>1. /\ Arranged(S, R) \in [1..Cardinality(S) -> S]
        /\ \A x \in S : \E n \in 1..Cardinality(S) : Arranged(S, R)[n] = x
        /\ \A n, m \in 1..Cardinality(S) :
             n < m => <<Arranged(S, R)[n], Arranged(S, R)[m]>> \in R
    BY Arrangement
  <2> QED
    BY <1>1, <2>1
<1>3. N # 0
  BY <1>1, FS_EmptySet
<1> HIDE DEF A
<1>4. 1 \in 1..N /\ A[1] \in S /\ \A n \in 1..N : n = 1 \/ 1 < n
  BY <1>2, <1>3
<1>5. \A y \in S : y = A[1] \/ <<A[1], y>> \in R
  BY <1>2, <1>4
<1> QED
  BY <1>4, <1>5

(* The greatest of a finite set of integers. *)
LEMMA GreatestElement ==
  ASSUME NEW S \in SUBSET Int, IsFiniteSet(S), S # {}
  PROVE  \E x \in S : \A y \in S : y <= x
<1> DEFINE R == {p \in S \X S : p[1] > p[2]}
<1>1. \A x, y \in S : <<x, y>> \in R <=> x > y
  OBVIOUS
<1> HIDE DEF R
<1>2. Orders(R, S)
  <2>1. \A x \in S : <<x, x>> \notin R
    BY <1>1
  <2>2. \A x, y \in S : x = y \/ x > y \/ y > x
    OBVIOUS
  <2>3. \A x, y \in S : x = y \/ <<x, y>> \in R \/ <<y, x>> \in R
    BY <1>1, <2>2
  <2>4. \A x, y, z \in S : x > y /\ y > z => x > z
    OBVIOUS
  <2>5. \A x, y, z \in S : <<x, y>> \in R /\ <<y, z>> \in R => <<x, z>> \in R
    BY <1>1, <2>4
  <2> QED
    BY <2>1, <2>3, <2>5 DEF Orders
<1>3. PICK x \in S : \A y \in S : y = x \/ <<x, y>> \in R
  BY <1>2, FirstInOrder
<1>4. ASSUME NEW y \in S
      PROVE  y <= x
  <2>1. x \in Int /\ y \in Int
    OBVIOUS
  <2>2. y = x \/ x > y
    BY <1>1, <1>3
  <2> QED
    BY <2>1, <2>2
<1> QED
  BY <1>4

(* The score that relevance is relative to. *)
LEMMA TopScoreFacts ==
  ASSUME list \in Seq(Item), Bounded(list)
  PROVE  TopScore \in Nat /\ TopScore <= Unit + 2 * Reach /\ Reach \in Nat
<1> DEFINE scores == {list[i].score : i \in DOMAIN list}
<1>0. Reach \in Nat /\ Unit \in Nat \ {0}
  <2>1. Constant + 1 \in Nat \ {0} /\ Unit \in Nat \ {0}
    BY UnitAssumption
  <2> DEFINE x == Constant + 1
  <2>2. Unit \div x \in Nat
    <3>1. x \in Nat \ {0}
      BY <2>1
    <3> HIDE DEF x
    <3> QED
      BY <2>1, <3>1
  <2> QED
    BY <2>1, <2>2 DEF Reach
<1>1. DOMAIN list = 1..Len(list) /\ list \in [1..Len(list) -> Item]
  BY LenProperties
<1>2. \A x \in scores : x \in 0..(Unit + 2 * Reach) /\ x \in Int
  <2> SUFFICES ASSUME NEW i \in 1..Len(list)
               PROVE  list[i].score \in 0..(Unit + 2 * Reach) /\ list[i].score \in Int
    BY <1>1
  <2>1. list[i].score \in Nat
    BY <1>1 DEF Item
  <2>2. list[i].score <= Unit + 2 * Reach
    BY DEF Bounded
  <2> QED
    BY <1>0, <2>1, <2>2
<1>3. IsFiniteSet(scores)
  <2>1. 0 \in Int /\ Unit + 2 * Reach \in Int
    BY <1>0
  <2>2. scores \in SUBSET (0..(Unit + 2 * Reach)) /\ IsFiniteSet(0..(Unit + 2 * Reach))
    BY <1>2, <2>1, FS_Interval
  <2> HIDE DEF scores
  <2> QED
    BY <2>2, FS_Subset
<1>4. TopScore = IF scores = {} \/ scores = {0} THEN Unit
                 ELSE CHOOSE s \in scores : \A t \in scores : t <= s
  BY DEF TopScore
<1> HIDE DEF scores
<1>5. CASE scores = {} \/ scores = {0}
  BY <1>0, <1>4, <1>5
<1>6. CASE ~(scores = {} \/ scores = {0})
  <2>1. \E s \in scores : \A t \in scores : t <= s
    BY <1>2, <1>3, <1>6, GreatestElement
  <2>2. TopScore \in scores
    BY <1>4, <1>6, <2>1
  <2> QED
    BY <1>0, <1>2, <2>2
<1> QED
  BY <1>5, <1>6

(* A penalty is a similarity. *)
LEMMA PenaltyFacts ==
  ASSUME selected \in Seq(Item), NEW c \in Chunks
  PROVE  Penalty(c) \in Int /\ -20 <= Penalty(c) /\ Penalty(c) <= 20
<1> DEFINE similarities == {Similarity(c, selected[i].chunk) : i \in DOMAIN selected}
<1>1. \A d \in Chunks : Similarity(c, d) \in -20..20
  <2> SUFFICES ASSUME NEW d \in Chunks
               PROVE  Similarity(c, d) \in -20..20
    OBVIOUS
  <2>1. Cosine[<<c, d>>] \in -20..20
    BY CosineAssumption
  <2> QED
    BY <2>1 DEF Similarity, Greatest
<1>2. \A x \in similarities : x \in -20..20 /\ x \in Int /\ -20 <= x /\ x <= 20
  <2> SUFFICES ASSUME NEW i \in DOMAIN selected
               PROVE  Similarity(c, selected[i].chunk) \in -20..20
    <3>1. \A x \in -20..20 : x \in Int /\ -20 <= x /\ x <= 20
      OBVIOUS
    <3> QED
      BY <3>1
  <2>1. DOMAIN selected = 1..Len(selected) /\ selected \in [1..Len(selected) -> Item]
    BY LenProperties
  <2>2. selected[i] \in Item
    BY <2>1
  <2>3. selected[i].chunk \in Chunks
    BY <2>2 DEF Item
  <2> QED
    BY <1>1, <2>3
<1>3. IsFiniteSet(similarities)
  <2>1. -20 \in Int /\ 20 \in Int
    OBVIOUS
  <2>2. similarities \in SUBSET (-20..20) /\ IsFiniteSet(-20..20)
    BY <1>2, <2>1, FS_Interval
  <2> HIDE DEF similarities
  <2> QED
    BY <2>2, FS_Subset
<1>4. Penalty(c) = IF similarities = {} THEN 0
                   ELSE CHOOSE s \in similarities : \A t \in similarities : t <= s
  BY DEF Penalty
<1> HIDE DEF similarities
<1>5. CASE similarities = {}
  BY <1>4, <1>5
<1>6. CASE similarities # {}
  <2>1. \E s \in similarities : \A t \in similarities : t <= s
    <3>1. similarities \in SUBSET Int
      BY <1>2
    <3> QED
      BY <1>3, <1>6, <3>1, GreatestElement
  <2>2. Penalty(c) \in similarities
    BY <1>4, <1>6, <2>1
  <2> QED
    BY <1>2, <2>2
<1> QED
  BY <1>5, <1>6

(* Best is a candidate of the greatest value. *)
LEMMA BestFacts ==
  ASSUME list \in Seq(Item), Bounded(list), selected \in Seq(Item),
         remaining \in Seq(Item), Eligible # {}
  PROVE  /\ Best \in Eligible /\ Best \in 1..Len(remaining)
         /\ \A j \in Eligible : Value(remaining[Best]) >= Value(remaining[j])
<1>0. PICK N \in Nat : Len(remaining) = N /\ DOMAIN remaining = 1..N
                       /\ remaining \in [1..N -> Item]
  BY LenProperties
<1>1. Eligible \in SUBSET (1..N) /\ IsFiniteSet(Eligible)
  <2>1. 1 \in Int /\ N \in Int
    OBVIOUS
  <2>2. Eligible \in SUBSET (1..N) /\ IsFiniteSet(1..N)
    BY <1>0, <2>1, FS_Interval DEF Eligible
  <2> QED
    BY <2>2, FS_Subset
<1> DEFINE v == [i \in Eligible |-> Value(remaining[i])]
           R == {p \in Eligible \X Eligible :
                   v[p[1]] > v[p[2]] \/ (v[p[1]] = v[p[2]] /\ p[1] < p[2])}
<1>2. \A i \in Eligible : v[i] \in Int /\ i \in Int
  <2> SUFFICES ASSUME NEW i \in Eligible
               PROVE  Value(remaining[i]) \in Int /\ i \in Int
    OBVIOUS
  <2>1. i \in 1..N
    BY <1>1
  <2>2. remaining[i].score \in Int /\ remaining[i].chunk \in Chunks
    BY <1>0, <2>1 DEF Item
  <2>3. Penalty(remaining[i].chunk) \in Int /\ TopScore \in Int
    BY <2>2, PenaltyFacts, TopScoreFacts
  <2> QED
    BY <2>1, <2>2, <2>3, LambdaAssumption DEF Value
<1>3. \A i, j \in Eligible : <<i, j>> \in R <=> v[i] > v[j] \/ (v[i] = v[j] /\ i < j)
  <2> HIDE DEF v
  <2> QED
    OBVIOUS
<1>9. \A i \in Eligible : v[i] = Value(remaining[i])
  OBVIOUS
<1> HIDE DEF v, R
<1>4. Orders(R, Eligible)
  <2>1. ASSUME NEW x \in Eligible
        PROVE  <<x, x>> \notin R
    <3>1. v[x] \in Int /\ x \in Int
      BY <1>2
    <3> QED
      BY <1>3, <3>1
  <2>2. ASSUME NEW x \in Eligible, NEW y \in Eligible
        PROVE  x = y \/ <<x, y>> \in R \/ <<y, x>> \in R
    <3>1. v[x] \in Int /\ x \in Int /\ v[y] \in Int /\ y \in Int
      BY <1>2
    <3> QED
      BY <1>3, <3>1
  <2>3. ASSUME NEW x \in Eligible, NEW y \in Eligible, NEW z \in Eligible,
               <<x, y>> \in R, <<y, z>> \in R
        PROVE  <<x, z>> \in R
    <3>1. v[x] \in Int /\ x \in Int /\ v[y] \in Int /\ y \in Int /\ v[z] \in Int /\ z \in Int
      BY <1>2
    <3>2. /\ v[x] > v[y] \/ (v[x] = v[y] /\ x < y)
          /\ v[y] > v[z] \/ (v[y] = v[z] /\ y < z)
      BY <1>3, <2>3
    <3>3. v[x] > v[z] \/ (v[x] = v[z] /\ x < z)
      BY <3>1, <3>2
    <3> QED
      BY <1>3, <3>3
  <2> QED
    BY <2>1, <2>2, <2>3 DEF Orders
<1>5. PICK x \in Eligible : \A y \in Eligible : y = x \/ <<x, y>> \in R
  BY <1>1, <1>4, FirstInOrder
<1> DEFINE First(i) == \A j \in Eligible :
             \/ Value(remaining[i]) > Value(remaining[j])
             \/ Value(remaining[i]) = Value(remaining[j]) /\ i <= j
<1>6. First(x)
  <2> SUFFICES ASSUME NEW y \in Eligible
               PROVE  v[x] > v[y] \/ (v[x] = v[y] /\ x <= y)
    BY <1>9
  <2>1. x \in Int /\ y \in Int
    BY <1>2
  <2>2. y = x \/ v[x] > v[y] \/ (v[x] = v[y] /\ x < y)
    BY <1>3, <1>5
  <2> QED
    BY <2>1, <2>2
<1>7. Best = CHOOSE i \in Eligible : First(i)
  BY DEF Best
<1>8. Best \in Eligible /\ First(Best)
  <2> HIDE DEF First
  <2> QED
    BY <1>6, <1>7
<1>10. ASSUME NEW j \in Eligible
       PROVE  Value(remaining[Best]) >= Value(remaining[j])
  <2>1. /\ Value(remaining[Best]) \in Int
        /\ \/ Value(remaining[Best]) > Value(remaining[j])
           \/ Value(remaining[Best]) = Value(remaining[j])
    <3>1. Value(remaining[Best]) \in Int
      BY <1>2, <1>8, <1>9
    <3> QED
      BY <1>8, <3>1
  <2>2. Value(remaining[j]) \in Int
    BY <1>2, <1>9
  <2> QED
    BY <2>1, <2>2
<1> QED
  BY <1>0, <1>1, <1>8, <1>10

-----------------------------------------------------------------------------
(* Injection. *)

(* Sorting keeps the items, and brings the matches to the front.           *)
LEMMA SortedKeeps ==
  ASSUME NEW s \in Seq(Item), Reach \in Nat, Unit \in Nat
  PROVE  /\ Sorted(s) \in Seq(Item)
         /\ ChunksOf(Sorted(s)) = ChunksOf(s)
         /\ Distinct(s) => Distinct(Sorted(s))
         /\ Bounded(s) => Bounded(Sorted(s))
         /\ ToldApart(s) => ToldApart(Sorted(s))
         /\ ToldApart(s) /\ 2 * Reach < Unit => MatchesLead(Sorted(s))
<1> DEFINE t == Sorted(s)
<1>0. PICK N \in Nat : Len(s) = N /\ DOMAIN s = 1..N /\ s \in [1..N -> Item]
  BY LenProperties
<1>1. /\ Sorted(s) \in Seq(Item) /\ Len(Sorted(s)) = Len(s)
      /\ \E p \in [1..Len(s) -> 1..Len(s)] :
           /\ \A n \in 1..Len(s) : Sorted(s)[n] = s[p[n]]
           /\ \A x \in 1..Len(s) : \E n \in 1..Len(s) : p[n] = x
           /\ \A n, m \in 1..Len(s) : n < m => <<p[n], p[m]>> \in HigherFirst(s)
  BY SortedFacts
<1>2. t \in Seq(Item) /\ Len(t) = N
  BY <1>0, <1>1
<1>3. PICK p \in [1..N -> 1..N] :
        /\ \A n \in 1..N : t[n] = s[p[n]]
        /\ \A x \in 1..N : \E n \in 1..N : p[n] = x
        /\ \A n, m \in 1..N : n < m => <<p[n], p[m]>> \in HigherFirst(s)
  BY <1>0, <1>1
<1> HIDE DEF t
<1>4. \A x \in 1..N : s[x].score \in Int /\ s[x].score \in Nat
  BY <1>0 DEF Item
<1>5. \A x, y \in 1..N : <<x, y>> \in HigherFirst(s) =>
        s[x].score > s[y].score \/ (s[x].score = s[y].score /\ x < y)
  BY <1>0 DEF HigherFirst
<1>6. \A n \in 1..N : p[n] \in 1..N /\ t[n] = s[p[n]]
  BY <1>3
<1>7. \A n, m \in 1..N : n < m => s[p[n]].score >= s[p[m]].score /\ p[n] # p[m]
  <2> SUFFICES ASSUME NEW n \in 1..N, NEW m \in 1..N, n < m
               PROVE  s[p[n]].score >= s[p[m]].score /\ p[n] # p[m]
    OBVIOUS
  <2> DEFINE x == p[n]
             y == p[m]
  <2>1. <<x, y>> \in HigherFirst(s) /\ x \in 1..N /\ y \in 1..N
    BY <1>3
  <2> HIDE DEF x, y
  <2>2. s[x].score > s[y].score \/ (s[x].score = s[y].score /\ x < y)
    BY <1>5, <2>1
  <2>3. s[x].score \in Int /\ s[y].score \in Int /\ x \in Int
    BY <1>4, <2>1
  <2>4. s[x].score >= s[y].score /\ x # y
    BY <2>2, <2>3
  <2> QED
    BY <2>4 DEF x, y
<1>8. ChunksOf(t) = ChunksOf(s)
  <2>1. ChunksOf(t) = {t[n].chunk : n \in 1..N} /\ ChunksOf(s) = {s[n].chunk : n \in 1..N}
    BY <1>0, <1>2 DEF ChunksOf
  <2>2. \A n \in 1..N : t[n].chunk \in {s[x].chunk : x \in 1..N}
    BY <1>6
  <2>3. \A x \in 1..N : s[x].chunk \in {t[n].chunk : n \in 1..N}
    <3> SUFFICES ASSUME NEW x \in 1..N
                 PROVE  s[x].chunk \in {t[n].chunk : n \in 1..N}
      OBVIOUS
    <3>1. PICK n \in 1..N : p[n] = x
      BY <1>3
    <3>2. t[n].chunk = s[x].chunk
      BY <1>6, <3>1
    <3> QED
      BY <3>2
  <2> QED
    BY <2>1, <2>2, <2>3
<1>9. ASSUME Distinct(s)
      PROVE  Distinct(t)
  <2>1. \A x, y \in 1..N : s[x].chunk = s[y].chunk => x = y
    BY <1>0, <1>9 DEF Distinct
  <2>2. ASSUME NEW n \in 1..N, NEW m \in 1..N, t[n].chunk = t[m].chunk
        PROVE  n = m
    <3>1. p[n] = p[m]
      BY <1>6, <2>1, <2>2
    <3>2. ~(n < m) /\ ~(m < n)
      BY <1>7, <3>1
    <3> QED
      BY <3>2
  <2> QED
    BY <1>2, <2>2 DEF Distinct
<1>10. ASSUME Bounded(s)
       PROVE  Bounded(t)
  BY <1>0, <1>2, <1>6, <1>10 DEF Bounded
<1>11. ASSUME ToldApart(s)
       PROVE  ToldApart(t)
  BY <1>0, <1>2, <1>6, <1>11 DEF ToldApart
<1>12. ASSUME ToldApart(s), 2 * Reach < Unit
       PROVE  MatchesLead(t)
  <2> SUFFICES ASSUME NEW n \in 1..N, NEW m \in 1..N, n < m,
                      t[m].chunk \in input.matches, t[n].chunk \notin input.matches
               PROVE  FALSE
    BY <1>2 DEF MatchesLead
  <2>1. Unit <= s[p[m]].score /\ s[p[n]].score <= 2 * Reach
    BY <1>0, <1>6, <1>12 DEF ToldApart
  <2>2. s[p[n]].score \in Int /\ s[p[m]].score \in Int /\ s[p[n]].score >= s[p[m]].score
    BY <1>4, <1>6, <1>7
  <2> QED
    BY <1>12, <2>1, <2>2
<1> QED
  BY <1>2, <1>8, <1>9, <1>10, <1>11, <1>12 DEF t

(* Injection adds the matches that are missing and raises the others by 1. *)
LEMMA InjectedFacts ==
  ASSUME input \in Inputs, list \in Seq(Item), Distinct(list),
         \A i \in 1..Len(list) : list[i].score <= 2 * Reach, Reach \in Nat
  PROVE  /\ Injected \in Seq(Item) /\ Distinct(Injected) /\ Bounded(Injected)
         /\ ToldApart(Injected) /\ input.matches \subseteq ChunksOf(Injected)
<1> DEFINE S == {c \in input.matches : ~InList(c)}
           new == Ascending(S)
           s == [i \in DOMAIN list |-> Boosted(list[i])]
           u == [i \in DOMAIN new |-> [chunk |-> new[i], score |-> Unit]]
<1>0. Unit \in Nat /\ input.matches \subseteq Chunks
  BY LimitFacts, UnitAssumption
<1>1. PICK N \in Nat : Len(list) = N /\ DOMAIN list = 1..N /\ list \in [1..N -> Item]
  BY LenProperties
<1>2. IsFiniteSet(S) /\ S \in SUBSET Nat /\ S \subseteq Chunks
  <2>1. S \in SUBSET Chunks
    BY <1>0
  <2> HIDE DEF S
  <2> QED
    BY <2>1, ChunksAssumption, FS_Subset
<1>3. PICK K \in Nat : K = Cardinality(S)
  BY <1>2, FS_CardinalityType
<1>4. /\ new \in [1..K -> S]
      /\ \A x \in S : \E n \in 1..K : new[n] = x
      /\ \A n, m \in 1..K : n < m => new[n] < new[m]
  <2>1. /\ Ascending(S) \in [1..Cardinality(S) -> S]
        /\ \A x \in S : \E n \in 1..Cardinality(S) : Ascending(S)[n] = x
        /\ \A n, m \in 1..Cardinality(S) : n < m => Ascending(S)[n] < Ascending(S)[m]
    <3> HIDE DEF S
    <3> QED
      BY <1>2, AscendingFacts
  <2> HIDE DEF S
  <2> QED
    BY <1>3, <2>1
<1>5. \A c : c \in S <=> c \in input.matches /\ \A i \in 1..N : list[i].chunk # c
  BY <1>1 DEF InList
<1>6. /\ u \in [1..K -> Item]
      /\ \A n \in 1..K : u[n].chunk = new[n] /\ u[n].score = Unit /\ new[n] \in S
  <2> HIDE DEF new, S
  <2> QED
    BY <1>0, <1>2, <1>4 DEF Item
<1>7. /\ s \in [1..N -> Item]
      /\ \A i \in 1..N : /\ s[i].chunk = list[i].chunk
                         /\ s[i].score = IF list[i].chunk \in input.matches
                                         THEN list[i].score + Unit ELSE list[i].score
  <2>1. ASSUME NEW i \in 1..N
        PROVE  /\ Boosted(list[i]) \in Item
               /\ Boosted(list[i]).chunk = list[i].chunk
               /\ Boosted(list[i]).score = IF list[i].chunk \in input.matches
                                           THEN list[i].score + Unit ELSE list[i].score
    <3>1. list[i] \in Item
      BY <1>1
    <3> QED
      BY <1>0, <3>1 DEF Boosted, Item
  <2> QED
    BY <1>1, <2>1
<1>8. \A i \in 1..N : list[i].score \in Nat /\ list[i].score <= 2 * Reach
  BY <1>1 DEF Item
<1> HIDE DEF S, new, s, u
<1>9. s \in Seq(Item) /\ Len(s) = N /\ u \in Seq(Item) /\ Len(u) = K
  BY <1>6, <1>7, SeqDef, LenProperties
<1>10. Injected = s \o u
  BY DEF Injected, s, u, new, S
<1> DEFINE t == Injected
<1>11. /\ t \in Seq(Item) /\ Len(t) = N + K
       /\ \A i \in 1..(N + K) : t[i] = IF i <= N THEN s[i] ELSE u[i - N]
  BY <1>9, <1>10, ConcatProperties
<1> HIDE DEF t
<1>12. \A i \in 1..N : i \in 1..(N + K) /\ t[i] = s[i]
  BY <1>11
<1>13. \A n \in 1..K : N + n \in 1..(N + K) /\ t[N + n] = u[n]
  BY <1>11
<1>14. \A i \in 1..(N + K) : i \in 1..N \/ \E n \in 1..K : i = N + n
  <2> SUFFICES ASSUME NEW i \in 1..(N + K), i \notin 1..N
               PROVE  i - N \in 1..K /\ i = N + (i - N)
    OBVIOUS
  <2> QED
    OBVIOUS
<1>15. \A n \in 1..K : u[n].chunk \in input.matches /\ \A i \in 1..N : s[i].chunk # u[n].chunk
  BY <1>5, <1>6, <1>7
<1>16. Distinct(t)
  <2>1. \A i, j \in 1..N : s[i].chunk = s[j].chunk => i = j
    BY <1>1, <1>7 DEF Distinct
  <2>2. ASSUME NEW n \in 1..K, NEW m \in 1..K, u[n].chunk = u[m].chunk
        PROVE  n = m
    <3>3. new[n] = new[m] /\ new[n] \in S /\ new[m] \in S
      BY <1>6, <2>2
    <3>1. \A x \in S : ~(x < x)
      <4>1. \A x \in Nat : ~(x < x)
        OBVIOUS
      <4> QED
        BY <1>2, <4>1
    <3>2. ~(n < m) /\ ~(m < n)
      BY <1>4, <3>1, <3>3
    <3> QED
      BY <3>2
  <2>3. ASSUME NEW i \in 1..(N + K), NEW j \in 1..(N + K), t[i].chunk = t[j].chunk
        PROVE  i = j
    <3>1. CASE i \in 1..N /\ j \in 1..N
      BY <1>12, <2>1, <2>3, <3>1
    <3>2. CASE i \in 1..N /\ j \notin 1..N
      <4>1. PICK m \in 1..K : j = N + m
        BY <1>14, <3>2
      <4>2. t[i] = s[i] /\ t[j] = u[m]
        BY <1>12, <1>13, <3>2, <4>1
      <4> QED
        BY <1>15, <2>3, <3>2, <4>2
    <3>3. CASE i \notin 1..N /\ j \in 1..N
      <4>1. PICK m \in 1..K : i = N + m
        BY <1>14, <3>3
      <4>2. t[j] = s[j] /\ t[i] = u[m]
        BY <1>12, <1>13, <3>3, <4>1
      <4> QED
        BY <1>15, <2>3, <3>3, <4>2
    <3>4. CASE i \notin 1..N /\ j \notin 1..N
      <4>1. PICK n \in 1..K : i = N + n
        BY <1>14, <3>4
      <4>2. PICK m \in 1..K : j = N + m
        BY <1>14, <3>4
      <4>3. t[i] = u[n] /\ t[j] = u[m]
        BY <1>13, <4>1, <4>2
      <4> QED
        BY <2>2, <2>3, <4>1, <4>2, <4>3
    <3> QED
      BY <3>1, <3>2, <3>3, <3>4
  <2> QED
    BY <1>11, <2>3 DEF Distinct
<1>17. ASSUME NEW i \in 1..(N + K)
       PROVE  /\ t[i].score <= Unit + 2 * Reach
              /\ t[i].chunk \in input.matches => Unit <= t[i].score
              /\ t[i].chunk \notin input.matches => t[i].score <= 2 * Reach
  <2>1. CASE i \in 1..N
    <3>1. list[i].score \in Nat /\ list[i].score <= 2 * Reach
      BY <1>8, <2>1
    <3>2. /\ t[i].chunk = list[i].chunk
          /\ t[i].score = IF list[i].chunk \in input.matches
                          THEN list[i].score + Unit ELSE list[i].score
      BY <1>7, <1>12, <2>1
    <3>3. CASE list[i].chunk \in input.matches
      <4>1. t[i].score = list[i].score + Unit
        BY <3>2, <3>3
      <4> QED
        BY <1>0, <3>1, <3>2, <3>3, <4>1
    <3>4. CASE list[i].chunk \notin input.matches
      <4>1. t[i].score = list[i].score
        BY <3>2, <3>4
      <4> QED
        BY <1>0, <3>1, <3>2, <3>4, <4>1
    <3> QED
      BY <3>3, <3>4
  <2>2. CASE i \notin 1..N
    <3>1. PICK n \in 1..K : i = N + n
      BY <1>14, <2>2
    <3>2. t[i].score = Unit /\ t[i].chunk \in input.matches
      BY <1>6, <1>13, <1>15, <3>1
    <3> QED
      BY <1>0, <3>2
  <2> QED
    BY <2>1, <2>2
<1>18. ASSUME NEW c \in input.matches
       PROVE  c \in ChunksOf(t)
  <2>1. ASSUME NEW i \in 1..(N + K), t[i].chunk = c
        PROVE  c \in ChunksOf(t)
    BY <1>11, <2>1 DEF ChunksOf
  <2>2. CASE c \in S
    <3>1. PICK n \in 1..K : new[n] = c
      BY <1>4, <2>2
    <3>2. t[N + n].chunk = c /\ N + n \in 1..(N + K)
      BY <1>6, <1>13, <3>1
    <3> QED
      BY <2>1, <3>2
  <2>3. CASE c \notin S
    <3>1. PICK i \in 1..N : list[i].chunk = c
      BY <1>5, <2>3
    <3>2. t[i].chunk = c /\ i \in 1..(N + K)
      BY <1>7, <1>12, <3>1
    <3> QED
      BY <2>1, <3>2
  <2> QED
    BY <2>2, <2>3
<1>19. Bounded(t)
  BY <1>11, <1>17 DEF Bounded
<1>20. ToldApart(t)
  BY <1>11, <1>17 DEF ToldApart
<1> QED
  BY <1>11, <1>16, <1>18, <1>19, <1>20 DEF t

-----------------------------------------------------------------------------
(* The lists in hand. *)

(* Two rankings together give a chunk no more than a match gets.            *)
LEMMA ReachFacts == Reach \in Nat /\ Unit \in Nat \ {0} /\ 2 * Reach <= Unit
<1>1. PICK x \in Nat \ {0, 1} : x = Constant + 1
  BY UnitAssumption
<1>2. Unit \div x \in Nat /\ x * (Unit \div x) <= Unit /\ Unit \in Nat
  BY UnitAssumption
<1>3. Reach \in Nat /\ x * Reach <= Unit
  BY <1>1, <1>2 DEF Reach
<1>4. 2 * Reach <= x * Reach
  <2>1. 2 \in Nat /\ 2 <= x
    OBVIOUS
  <2> QED
    BY <1>3, <2>1, ProductMonotonic
<1>5. x * Reach \in Nat /\ 2 * Reach \in Nat
  BY <1>3
<1> HIDE DEF Reach
<1> QED
  BY <1>2, <1>3, <1>4, <1>5, UnitAssumption

(* What depends on the variables that never change.                        *)
LEMMA Unmoved ==
  ASSUME UNCHANGED <<corpus, input>>
  PROVE  /\ Fused' = Fused /\ Limit' = Limit /\ Docs' = Docs
         /\ \A c : Doc(c)' = Doc(c) /\ Title(c)' = Title(c)
<1>1. input' = input /\ corpus' = corpus
  OBVIOUS
<1>2. Limit' = Limit
  BY <1>1 DEF Limit
<1>3. Lanes' = Lanes
  BY <1>1, <1>2 DEF Lanes, Cut
<1>4. Fused' = Fused
  BY <1>2, <1>3 DEF Fused, Cut, Scored
<1> QED
  BY <1>1, <1>2, <1>4 DEF Docs, Doc, Title

LEMMA InHandInit == Init => InHand
  BY EmptyFacts DEF Init, InHand

LEMMA InHandNext == InHand /\ [Next]_vars => InHand'
<1> SUFFICES ASSUME InHand, [Next]_vars
             PROVE  InHand'
  OBVIOUS
<1>0. Reach \in Nat /\ Unit \in Nat \ {0} /\ input \in Inputs
  BY ReachFacts DEF InHand
<1>1. CASE Fuse
  <2>1. list' = Fused
    BY <1>1 DEF Fuse, Fused
  <2>2. /\ Fused \in Seq(Item) /\ Distinct(Fused)
        /\ \A i \in 1..Len(Fused) : Fused[i].score <= 2 * Reach
    BY <1>0, FusedFacts
  <2>3. Bounded(Fused)
    <3> SUFFICES ASSUME NEW i \in 1..Len(Fused)
                 PROVE  Fused[i].score <= Unit + 2 * Reach
      BY DEF Bounded
    <3>1. Fused \in [1..Len(Fused) -> Item]
      BY <2>2, LenProperties
    <3>2. Fused[i].score \in Int /\ Fused[i].score <= 2 * Reach
      BY <2>2, <3>1 DEF Item
    <3> QED
      BY <1>0, <3>2
  <2>4. UNCHANGED <<corpus, input>> /\ Fused' = Fused
    BY <1>1, Unmoved DEF Fuse, Goto
  <2>5. stage = "fuse" /\ selected = << >> /\ remaining = << >> /\ selected' = << >>
    BY <1>1 DEF Fuse, InHand
  <2>6. \/ input.mode = "retrieve" /\ stage' = "inject" /\ remaining' = << >>
        \/ input.mode # "retrieve" /\ stage' = "mmr" /\ remaining' = list'
    BY <1>1, <2>5 DEF Fuse, Goto
  <2>7. ChunksOf(<< >>) = {}
    BY EmptyFacts
  <2> QED
    BY <2>1, <2>2, <2>3, <2>4, <2>5, <2>6, <2>7, EmptyFacts DEF InHand
<1>2. CASE Inject
  <2>1. /\ stage = "inject" /\ input.mode = "retrieve" /\ list = Fused /\ selected = << >>
        /\ list \in Seq(Item) /\ Distinct(list)
    BY <1>2 DEF Inject, InHand
  <2>2. \A i \in 1..Len(list) : list[i].score <= 2 * Reach
    BY <1>0, <2>1, FusedFacts
  <2>3. Injected \in Seq(Item) /\ Distinct(Injected) /\ Bounded(Injected)
    BY <1>0, <2>1, <2>2, InjectedFacts
  <2>4. /\ Sorted(Injected) \in Seq(Item) /\ Distinct(Sorted(Injected))
        /\ Bounded(Sorted(Injected))
    BY <1>0, <2>3, SortedKeeps
  <2>5. /\ remaining' = Sorted(Injected) /\ list' = << >> /\ selected' = << >>
        /\ stage' = "dedup" /\ UNCHANGED <<corpus, input>>
    BY <1>2, <2>1 DEF Inject, Goto
  <2> QED
    BY <2>1, <2>4, <2>5, EmptyFacts DEF InHand
<1>3. CASE Keep
  <2>1. /\ stage = "dedup" /\ remaining # << >> /\ remaining' = Tail(remaining)
        /\ list' = (IF IsDuplicate(Head(remaining).chunk) THEN list
                    ELSE Append(list, Head(remaining)))
        /\ UNCHANGED <<corpus, input, stage, selected>>
    BY <1>3 DEF Keep, Unfinished
  <2>2. PICK N \in Nat : Len(remaining) = N /\ remaining \in [1..N -> Item]
    BY LenProperties DEF InHand
  <2>3. N # 0
    BY <2>1, <2>2, EmptySeq DEF InHand
  <2>4. 1 \in 1..N
    BY <2>3
  <2>5. Without(Tail(remaining), remaining, 1) /\ Head(remaining) = remaining[1]
    BY <2>2, <2>4, RemovalFacts DEF InHand
  <2>6. /\ \A j \in 1..Len(remaining') : \E m \in 1..N : remaining'[j] = remaining[m]
        /\ ChunksOf(remaining') = ChunksOf(remaining) \ {remaining[1].chunk}
        /\ Distinct(remaining')
    BY <2>1, <2>2, <2>4, <2>5, TakenOut DEF InHand
  <2>7. remaining' \in Seq(Item) /\ Bounded(remaining')
    BY <2>1, <2>2, <2>5, <2>6 DEF Without, Bounded, InHand
  <2>8. remaining[1] \in Item /\ remaining[1].chunk \in ChunksOf(remaining)
        /\ remaining[1].score <= Unit + 2 * Reach
    BY <2>2, <2>4 DEF ChunksOf, Bounded, InHand
  <2> DEFINE e == remaining[1]
  <2>9. CASE list' = list
    BY <2>1, <2>6, <2>7, <2>9 DEF InHand
  <2>10. CASE list' = Append(list, e)
    <3>1. list \in Seq(Item) /\ Distinct(list) /\ Bounded(list) /\ e.chunk \notin ChunksOf(list)
      BY <2>1, <2>8 DEF InHand
    <3>2. /\ list' \in Seq(Item) /\ Len(list') = Len(list) + 1 /\ list'[Len(list) + 1] = e
          /\ \A i \in 1..Len(list) : list'[i] = list[i]
          /\ \A i \in 1..(Len(list) + 1) : i \in 1..Len(list) \/ i = Len(list) + 1
          /\ ChunksOf(list') = ChunksOf(list) \cup {e.chunk} /\ Distinct(list')
      BY <2>8, <2>10, <3>1, Appended
    <3>3. Bounded(list')
      BY <2>8, <3>1, <3>2 DEF Bounded
    <3>4. ChunksOf(remaining') \cap ChunksOf(list') = {}
      BY <2>1, <2>6, <3>2 DEF InHand
    <3> QED
      BY <2>1, <2>6, <2>7, <3>2, <3>3, <3>4 DEF InHand
  <2> QED
    BY <2>1, <2>5, <2>9, <2>10
<1>4. CASE Deduplicated
  <2>1. /\ stage = "dedup" /\ remaining' = list /\ list' = list /\ selected' = selected
        /\ selected = << >> /\ input.mode = "retrieve"
        /\ stage' = "mmr" /\ UNCHANGED <<corpus, input>>
    BY <1>4 DEF Deduplicated, Goto, InHand
  <2> QED
    BY <2>1, EmptyFacts DEF InHand
<1>5. CASE Select
  <2>1. /\ stage = "mmr" /\ Eligible # {}
        /\ selected' = Append(selected, remaining[Best])
        /\ remaining' = RemoveAt(remaining, Best)
        /\ UNCHANGED <<corpus, input, stage, list>>
    BY <1>5 DEF Select
  <2>2. Best \in 1..Len(remaining)
    BY <2>1, BestFacts DEF InHand
  <2>3. Without(remaining', remaining, Best)
    BY <2>1, <2>2, RemovalFacts DEF InHand
  <2>4. /\ \A j \in 1..Len(remaining') : \E m \in 1..Len(remaining) : remaining'[j] = remaining[m]
        /\ ChunksOf(remaining') = ChunksOf(remaining) \ {remaining[Best].chunk}
        /\ Distinct(remaining')
    BY <2>2, <2>3, TakenOut DEF InHand
  <2>5. remaining' \in Seq(Item) /\ Bounded(remaining')
    BY <2>3, <2>4 DEF Without, Bounded, InHand
  <2> DEFINE e == remaining[Best]
  <2>6. e \in Item /\ e.chunk \in ChunksOf(remaining) /\ e.score <= Unit + 2 * Reach
    <3>1. remaining \in [1..Len(remaining) -> Item]
      BY LenProperties DEF InHand
    <3> QED
      BY <2>2, <3>1 DEF ChunksOf, Bounded, InHand
  <2> HIDE DEF e
  <2>7. /\ selected \in Seq(Item) /\ Distinct(selected) /\ Bounded(selected)
        /\ e.chunk \notin ChunksOf(selected) /\ selected' = Append(selected, e)
    BY <2>1, <2>6 DEF InHand, e
  <2>8. /\ selected' \in Seq(Item) /\ Len(selected') = Len(selected) + 1
        /\ selected'[Len(selected) + 1] = e
        /\ \A i \in 1..Len(selected) : selected'[i] = selected[i]
        /\ \A i \in 1..(Len(selected) + 1) : i \in 1..Len(selected) \/ i = Len(selected) + 1
        /\ ChunksOf(selected') = ChunksOf(selected) \cup {e.chunk} /\ Distinct(selected')
    BY <2>6, <2>7, Appended
  <2>9. Bounded(selected')
    BY <2>6, <2>7, <2>8 DEF Bounded
  <2>10. ChunksOf(remaining') \cap ChunksOf(selected') = {}
    BY <2>4, <2>8 DEF InHand, e
  <2>11. Fused' = Fused
    BY <2>1, Unmoved
  <2> QED
    BY <2>1, <2>4, <2>5, <2>8, <2>9, <2>10, <2>11 DEF InHand
<1>6. CASE Skip
  <2>1. /\ stage = "mmr" /\ remaining # << >> /\ remaining' = Tail(remaining)
        /\ UNCHANGED <<corpus, input, stage, list, selected>>
    BY <1>6 DEF Skip, More
  <2>2. PICK N \in Nat : Len(remaining) = N
    BY LenProperties DEF InHand
  <2>3. N # 0
    BY <2>1, <2>2, EmptySeq DEF InHand
  <2>4. 1 \in 1..N
    BY <2>3
  <2>5. Without(Tail(remaining), remaining, 1)
    BY <2>2, <2>4, RemovalFacts DEF InHand
  <2>6. /\ \A j \in 1..Len(remaining') : \E m \in 1..N : remaining'[j] = remaining[m]
        /\ ChunksOf(remaining') = ChunksOf(remaining) \ {remaining[1].chunk}
        /\ Distinct(remaining')
    BY <2>1, <2>2, <2>4, <2>5, TakenOut DEF InHand
  <2>7. remaining' \in Seq(Item) /\ Bounded(remaining')
    BY <2>1, <2>2, <2>5, <2>6 DEF Without, Bounded, InHand
  <2>8. Fused' = Fused
    BY <2>1, Unmoved
  <2> QED
    BY <2>1, <2>6, <2>7, <2>8 DEF InHand
<1>7. CASE Return
  <2>1. stage = "mmr" /\ stage' = "done" /\ UNCHANGED <<corpus, input, list, remaining, selected>>
    BY <1>7 DEF Return, Goto
  <2> QED
    BY <2>1 DEF InHand
<1>8. CASE UNCHANGED vars
  <2>1. UNCHANGED <<corpus, input, stage, list, remaining, selected>>
    BY <1>8 DEF vars
  <2>2. Fused' = Fused
    BY <2>1, Unmoved
  <2> QED
    BY <2>1, <2>2 DEF InHand
<1> QED
  BY <1>1, <1>2, <1>3, <1>4, <1>5, <1>6, <1>7, <1>8 DEF Next

-----------------------------------------------------------------------------
(* The slots. *)

LEMMA TakenMoves ==
  ASSUME corpus' = corpus
  PROVE  /\ Docs' = Docs
         /\ \A d : /\ Taken(list, d)' = Taken(list', d)
                   /\ Taken(remaining, d)' = Taken(remaining', d)
                   /\ Taken(selected, d)' = Taken(selected', d)
  BY DEF Docs, Taken, OfDoc, Doc

LEMMA SlotsNext == InHand /\ SlotsAccountedFor /\ [Next]_vars => SlotsAccountedFor'
<1> SUFFICES ASSUME InHand, SlotsAccountedFor, [Next]_vars
             PROVE  SlotsAccountedFor'
  OBVIOUS
<1> USE DEF InHand
<1>0. MaxPerDoc \in Nat \ {0} /\ input.k \in Nat
  BY LimitFacts, LimitsAssumption
<1>1. ASSUME UNCHANGED <<corpus, input>>, selected' = << >>, remaining' = list',
             list' \in Seq(Item), stage' = "mmr"
      PROVE  SlotsAccountedFor'
  <2>1. \A d : Taken(<< >>, d) = 0 /\ Len(<< >>) = 0
    BY EmptyFacts, EmptySeq
  <2>2. \A d : Taken(list', d) \in Nat
    BY <1>1, TakenFacts
  <2>3. Len(selected') <= input.k
    BY <1>0, <1>1, <2>1
  <2>4. ASSUME NEW d
        PROVE  /\ Taken(selected', d) <= MaxPerDoc
               /\ Taken(selected', d) + Taken(remaining', d) <= Taken(list', d)
               /\ Taken(selected', d) + Taken(remaining', d) = Taken(list', d)
    <3>1. Taken(selected', d) = 0 /\ Taken(remaining', d) = Taken(list', d)
      BY <1>1, <2>1
    <3>2. Taken(list', d) \in Nat
      BY <2>2
    <3> QED
      BY <1>0, <3>1, <3>2
  <2> QED
    BY <1>1, <2>3, <2>4, TakenMoves DEF SlotsAccountedFor
<1>2. CASE Fuse
  <2>1. list' \in Seq(Item) /\ selected' = << >>
    <3>1. InHand'
      BY InHandNext
    <3> QED
      BY <1>2, <3>1 DEF Fuse
  <2>2. CASE input.mode = "retrieve"
    BY <1>2, <2>2 DEF Fuse, Goto, SlotsAccountedFor
  <2>3. CASE input.mode # "retrieve"
    BY <1>1, <1>2, <2>1, <2>3 DEF Fuse, Goto
  <2> QED
    BY <2>2, <2>3
<1>3. CASE Inject
  BY <1>3 DEF Inject, Goto, SlotsAccountedFor
<1>4. CASE Keep
  BY <1>4 DEF Keep, SlotsAccountedFor
<1>5. CASE Deduplicated
  BY <1>1, <1>5 DEF Deduplicated, Goto
<1>6. ASSUME stage = "mmr"
      PROVE  /\ Len(selected) \in Nat /\ Len(selected) <= input.k
             /\ \A d : /\ Taken(selected, d) \in Nat /\ Taken(remaining, d) \in Nat
                       /\ Taken(list, d) \in Nat
             /\ \A d \in Docs :
                  /\ Taken(selected, d) <= MaxPerDoc
                  /\ Taken(selected, d) + Taken(remaining, d) <= Taken(list, d)
                  /\ \/ Taken(selected, d) + Taken(remaining, d) = Taken(list, d)
                     \/ Taken(selected, d) = MaxPerDoc
  BY <1>6, TakenFacts, LenProperties DEF SlotsAccountedFor
<1>7. CASE Select
  <2>1. /\ stage = "mmr" /\ Eligible # {} /\ Len(selected) < input.k
        /\ selected' = Append(selected, remaining[Best])
        /\ remaining' = RemoveAt(remaining, Best)
        /\ UNCHANGED <<corpus, input, stage, list>>
    BY <1>7 DEF Select, More
  <2>2. Best \in 1..Len(remaining) /\ Best \in Eligible
    BY <2>1, BestFacts
  <2> DEFINE e == remaining[Best]
             o == Doc(e.chunk)
  <2>3. e \in Item
    <3>1. remaining \in [1..Len(remaining) -> Item]
      BY LenProperties
    <3> QED
      BY <2>2, <3>1
  <2>4. Without(remaining', remaining, Best)
    BY <2>1, <2>2, RemovalFacts
  <2>5. \A d : Taken(remaining', d) = IF o = d THEN Taken(remaining, d) - 1
                                               ELSE Taken(remaining, d)
    BY <2>2, <2>4, TakenOut
  <2>6. \A d : Taken(selected', d) = IF o = d THEN Taken(selected, d) + 1
                                              ELSE Taken(selected, d)
    <3> HIDE DEF e
    <3>1. selected' = Append(selected, e)
      BY <2>1 DEF e
    <3> QED
      BY <2>3, <3>1, Appended
  <2>7. Taken(selected, o) < MaxPerDoc
    BY <2>2 DEF Eligible, WithinCap, Taken
  <2>8. Len(selected') = Len(selected) + 1
    <3> HIDE DEF e
    <3>1. selected' = Append(selected, e)
      BY <2>1 DEF e
    <3> QED
      BY <2>3, <3>1, Appended
  <2> HIDE DEF e, o
  <2>9. Len(selected') <= input.k
    BY <1>0, <1>6, <2>1, <2>8
  <2>10. ASSUME NEW d \in Docs
         PROVE  /\ Taken(selected', d) <= MaxPerDoc
                /\ Taken(selected', d) + Taken(remaining', d) <= Taken(list, d)
                /\ \/ Taken(selected', d) + Taken(remaining', d) = Taken(list, d)
                   \/ Taken(selected', d) = MaxPerDoc
    <3>1. /\ Taken(selected, d) \in Nat /\ Taken(remaining, d) \in Nat /\ Taken(list, d) \in Nat
          /\ Taken(selected, d) <= MaxPerDoc
          /\ Taken(selected, d) + Taken(remaining, d) <= Taken(list, d)
          /\ \/ Taken(selected, d) + Taken(remaining, d) = Taken(list, d)
             \/ Taken(selected, d) = MaxPerDoc
      BY <1>6, <2>1
    <3>2. CASE o = d
      <4>1. /\ Taken(selected', d) = Taken(selected, d) + 1
            /\ Taken(remaining', d) = Taken(remaining, d) - 1
            /\ Taken(selected, d) < MaxPerDoc
        BY <2>5, <2>6, <2>7, <3>2
      <4> QED
        BY <1>0, <3>1, <4>1
    <3>3. CASE o # d
      <4>1. /\ Taken(selected', d) = Taken(selected, d)
            /\ Taken(remaining', d) = Taken(remaining, d)
        BY <2>5, <2>6, <3>3
      <4> QED
        BY <3>1, <4>1
    <3> QED
      BY <3>2, <3>3
  <2> QED
    BY <2>1, <2>9, <2>10, TakenMoves DEF SlotsAccountedFor
<1>8. CASE Skip
  <2>1. /\ stage = "mmr" /\ remaining # << >> /\ remaining' = Tail(remaining) /\ Eligible = {}
        /\ UNCHANGED <<corpus, input, stage, list, selected>>
    BY <1>8 DEF Skip, More
  <2>2. PICK N \in Nat : Len(remaining) = N /\ DOMAIN remaining = 1..N
                         /\ remaining \in [1..N -> Item]
    BY LenProperties
  <2>3. N # 0
    BY <2>1, <2>2, EmptySeq
  <2>4. 1 \in 1..N
    BY <2>3
  <2>5. Without(remaining', remaining, 1) /\ 1 \in 1..Len(remaining)
    BY <2>1, <2>2, <2>4, RemovalFacts
  <2> DEFINE o == Doc(remaining[1].chunk)
  <2>6. \A d : Taken(remaining', d) = IF o = d THEN Taken(remaining, d) - 1
                                               ELSE Taken(remaining, d)
    BY <2>5, TakenOut
  <2>7. ~(Taken(selected, o) < MaxPerDoc)
    BY <2>1, <2>2, <2>4 DEF Eligible, WithinCap, Taken
  <2> HIDE DEF o
  <2>8. ASSUME NEW d \in Docs
        PROVE  /\ Taken(selected, d) <= MaxPerDoc
               /\ Taken(selected, d) + Taken(remaining', d) <= Taken(list, d)
               /\ \/ Taken(selected, d) + Taken(remaining', d) = Taken(list, d)
                  \/ Taken(selected, d) = MaxPerDoc
    <3>1. /\ Taken(selected, d) \in Nat /\ Taken(remaining, d) \in Nat /\ Taken(list, d) \in Nat
          /\ Taken(selected, d) <= MaxPerDoc
          /\ Taken(selected, d) + Taken(remaining, d) <= Taken(list, d)
          /\ \/ Taken(selected, d) + Taken(remaining, d) = Taken(list, d)
             \/ Taken(selected, d) = MaxPerDoc
      BY <1>6, <2>1
    <3>2. CASE o = d
      <4>1. /\ Taken(remaining', d) = Taken(remaining, d) - 1
            /\ ~(Taken(selected, d) < MaxPerDoc)
        BY <2>6, <2>7, <3>2
      <4> QED
        BY <1>0, <3>1, <4>1
    <3>3. CASE o # d
      <4>1. Taken(remaining', d) = Taken(remaining, d)
        BY <2>6, <3>3
      <4> QED
        BY <3>1, <4>1
    <3> QED
      BY <3>2, <3>3
  <2>9. Len(selected') <= input.k /\ selected' = selected
    BY <1>6, <2>1
  <2> QED
    BY <2>1, <2>8, <2>9, TakenMoves DEF SlotsAccountedFor
<1>9. CASE Return
  <2>1. /\ stage = "mmr" /\ stage' = "done"
        /\ UNCHANGED <<corpus, input, list, remaining, selected>>
        /\ remaining = << >> \/ ~(Len(selected) < input.k)
    BY <1>9 DEF Return, Goto, More
  <2>2. remaining = << >> \/ Len(selected) = input.k
    <3>1. Len(selected) \in Nat /\ Len(selected) <= input.k
      BY <1>6, <2>1
    <3> QED
      BY <1>0, <2>1, <3>1
  <2> QED
    BY <1>6, <2>1, <2>2, TakenMoves DEF SlotsAccountedFor
<1>10. CASE UNCHANGED vars
  <2>1. UNCHANGED <<corpus, input, stage, list, remaining, selected>>
    BY <1>10 DEF vars
  <2> QED
    BY <2>1, TakenMoves DEF SlotsAccountedFor
<1> QED
  BY <1>2, <1>3, <1>4, <1>5, <1>7, <1>8, <1>9, <1>10 DEF Next

(* At the end a document has all its candidates in the results, or its     *)
(* limit of them, or the results are full.                                 *)
LEMMA SlotsImplied == InHand /\ SlotsAccountedFor => SlotsFilled
<1> SUFFICES ASSUME InHand, SlotsAccountedFor, stage = "done", NEW d \in Docs
             PROVE  /\ Taken(selected, d) <= Least(MaxPerDoc, Taken(list, d))
                    /\ \/ Len(selected) = input.k
                       \/ /\ Len(selected) < input.k
                          /\ Taken(selected, d) = Least(MaxPerDoc, Taken(list, d))
  BY DEF SlotsFilled, Taken, Docs
<1>1. /\ Taken(selected, d) <= MaxPerDoc
      /\ Taken(selected, d) + Taken(remaining, d) <= Taken(list, d)
      /\ \/ Taken(selected, d) + Taken(remaining, d) = Taken(list, d)
         \/ Taken(selected, d) = MaxPerDoc
      /\ Len(selected) <= input.k
      /\ remaining = << >> \/ Len(selected) = input.k
  BY DEF SlotsAccountedFor
<1>2. /\ Taken(selected, d) \in Nat /\ Taken(remaining, d) \in Nat /\ Taken(list, d) \in Nat
      /\ Len(selected) \in Nat
  BY TakenFacts, LenProperties DEF InHand
<1>3. MaxPerDoc \in Nat /\ input.k \in Nat
  BY LimitFacts, LimitsAssumption DEF InHand
<1>4. Taken(selected, d) <= Least(MaxPerDoc, Taken(list, d))
  BY <1>1, <1>2, <1>3 DEF Least
<1>5. CASE Len(selected) = input.k
  BY <1>4, <1>5
<1>6. CASE Len(selected) # input.k
  <2>1. Taken(remaining, d) = 0
    BY <1>1, <1>6, EmptyFacts
  <2>2. Taken(selected, d) = Least(MaxPerDoc, Taken(list, d))
    BY <1>1, <1>2, <1>3, <2>1 DEF Least
  <2>3. Len(selected) < input.k
    BY <1>1, <1>2, <1>3, <1>6
  <2> QED
    BY <1>4, <2>2, <2>3
<1> QED
  BY <1>5, <1>6

-----------------------------------------------------------------------------
(* Identifier matches. *)

LEMMA Outweighed ==
  ASSUME RelevanceOutweighs, NEW s \in Nat, NEW t \in Nat, NEW T \in Nat,
         NEW P \in Int, NEW Q \in Int,
         Unit <= s, t <= 2 * Reach, T <= Unit + 2 * Reach,
         -20 <= P, P <= 20, -20 <= Q, Q <= 20
  PROVE  Lambda * 20 * t - (10 - Lambda) * Q * T < Lambda * 20 * s - (10 - Lambda) * P * T
<1>1. PICK a \in Nat : a = Lambda * 20
  BY LambdaAssumption
<1>2. PICK b \in Nat : b = 10 - Lambda
  BY LambdaAssumption
<1>3. PICK u \in Nat : u = Unit
  BY UnitAssumption
<1>4. PICK w \in Nat : w = 2 * Reach /\ w <= u
  BY <1>3, ReachFacts
<1>5. b * 40 * (u + w) < a * (u - w)
  BY <1>1, <1>2, <1>3, <1>4 DEF RelevanceOutweighs
<1>6. u - w \in Nat /\ s - t \in Nat /\ u - w <= s - t
  BY <1>3, <1>4
<1>7. a * (u - w) <= a * (s - t)
  BY <1>6, ProductMonotonic
<1>8. b * 40 * T <= b * 40 * (u + w)
  <2>1. b * 40 \in Nat /\ u + w \in Nat /\ T <= u + w
    BY <1>3, <1>4
  <2> QED
    BY <2>1, ProductMonotonic
<1>9. b * T * (P - Q) <= b * T * 40
  <2>1. PICK n \in Nat : n = b * T
    OBVIOUS
  <2>2. n * (40 - (P - Q)) \in Nat
    <3>1. 40 - (P - Q) \in Nat
      OBVIOUS
    <3> QED
      BY <3>1
  <2>3. n * (40 - (P - Q)) = n * 40 - n * (P - Q)
    OBVIOUS
  <2>4. n * 40 \in Int /\ n * (P - Q) \in Int
    OBVIOUS
  <2>5. n * (P - Q) <= n * 40
    BY <2>2, <2>3, <2>4
  <2> QED
    BY <2>1, <2>5
<1>10. b * T * 40 = b * 40 * T /\ b * T * (P - Q) = b * P * T - b * Q * T
       /\ a * (s - t) = a * s - a * t
  OBVIOUS
<1>11. /\ b * P * T \in Int /\ b * Q * T \in Int /\ a * s \in Int /\ a * t \in Int
       /\ b * 40 * T \in Int /\ b * 40 * (u + w) \in Int /\ a * (u - w) \in Int
  BY <1>6
<1>12. b * P * T - b * Q * T < a * s - a * t
  BY <1>5, <1>7, <1>8, <1>9, <1>10, <1>11
<1>13. a * t - b * Q * T < a * s - b * P * T
  BY <1>11, <1>12
<1> QED
  BY <1>1, <1>2, <1>13

(* In particular a match scores more. *)
LEMMA MatchesScoreMore ==
  ASSUME RelevanceOutweighs
  PROVE  2 * Reach < Unit
<1>1. PICK a \in Nat : a = Lambda * 20
  BY LambdaAssumption
<1>2. PICK b \in Nat : b = (10 - Lambda) * 40
  BY LambdaAssumption
<1>3. PICK w \in Nat : w = 2 * Reach /\ w <= Unit /\ Unit \in Nat
  BY ReachFacts
<1>4. b * (Unit + w) < a * (Unit - w)
  BY <1>1, <1>2, <1>3 DEF RelevanceOutweighs
<1>5. b * (Unit + w) \in Nat
  BY <1>3
<1>6. w # Unit
  <2> SUFFICES ASSUME w = Unit
               PROVE  FALSE
    OBVIOUS
  <2>1. a * (Unit - w) = 0
    BY <1>3
  <2> QED
    BY <1>4, <1>5, <2>1
<1> QED
  BY <1>3, <1>6

(* The chunks of a list are finitely many. *)
LEMMA ChunksFinite ==
  ASSUME NEW s \in Seq(Item)
  PROVE  ChunksOf(s) \subseteq Chunks /\ IsFiniteSet(ChunksOf(s))
<1>1. s \in [1..Len(s) -> Item]
  BY LenProperties
<1>2. ChunksOf(s) \in SUBSET Chunks
  BY <1>1 DEF ChunksOf, Item
<1> QED
  BY <1>2, ChunksAssumption, FS_Subset

(* More matches listed explain as much. *)
LEMMA ExplainsMore ==
  ASSUME NEW S, NEW T, IsFiniteSet(T), S \subseteq T, NEW c, Explains(S, c)
  PROVE  Explains(T, c)
<1> DEFINE P == {r \in S : Doc(r) = Doc(c)}
           Q == {r \in T : Doc(r) = Doc(c)}
<1>1. P \in SUBSET Q /\ Q \in SUBSET T
  OBVIOUS
<1> HIDE DEF P, Q
<1>2. IsFiniteSet(Q) /\ IsFiniteSet(P)
  BY <1>1, FS_Subset
<1>3. Cardinality(P) <= Cardinality(Q) /\ Cardinality(P) \in Nat /\ Cardinality(Q) \in Nat
  BY <1>1, <1>2, FS_Subset, FS_CardinalityType
<1>4. MaxPerDoc \in Nat
  BY LimitsAssumption
<1>5. MaxPerDoc <= Cardinality(P) => MaxPerDoc <= Cardinality(Q)
  BY <1>3, <1>4
<1>6. MaxPerDoc <= Cardinality(P) \/ \E r \in S : Title(r) = Title(c) /\ Doc(r) # Doc(c)
  BY DEF Explains, P
<1>7. MaxPerDoc <= Cardinality(Q) \/ \E r \in T : Title(r) = Title(c) /\ Doc(r) # Doc(c)
  BY <1>5, <1>6
<1> QED
  BY <1>7 DEF Explains, Q

(* A duplicate among matches is explained by them. *)
LEMMA DuplicateExplained ==
  ASSUME list \in Seq(Item), Distinct(list), NEW c, IsDuplicate(c)
  PROVE  Explains(ChunksOf(list), c)
<1>0. DOMAIN list = 1..Len(list)
  BY LenProperties
<1>1. CASE TitleTaken(list, c)
  BY <1>0, <1>1 DEF TitleTaken, Explains, ChunksOf
<1>2. CASE ~TitleTaken(list, c)
  <2> DEFINE P == OfDoc(list, Doc(c))
             Q == {r \in ChunksOf(list) : Doc(r) = Doc(c)}
             f == [i \in P |-> list[i].chunk]
  <2>1. IsFiniteSet(Q)
    <3>1. IsFiniteSet(ChunksOf(list)) /\ Q \in SUBSET ChunksOf(list)
      BY ChunksFinite
    <3> HIDE DEF Q
    <3> QED
      BY <3>1, FS_Subset
  <2>2. f \in [P -> Q]
    BY <1>0 DEF ChunksOf, OfDoc
  <2>3. \A i, j \in P : f[i] = f[j] => i = j
    BY <1>0 DEF OfDoc, Distinct
  <2>4. f \in Injection(P, Q)
    <3> HIDE DEF P, Q, f
    <3> QED
      BY <2>2, <2>3 DEF Injection, IsInjective
  <2>5. Cardinality(P) <= Cardinality(Q) /\ IsFiniteSet(P)
    <3> HIDE DEF P, Q, f
    <3> QED
      BY <2>1, <2>4, FS_Injection
  <2>6. Cardinality(P) >= MaxPerDoc
    BY <1>2 DEF IsDuplicate
  <2>7. Cardinality(P) \in Nat /\ Cardinality(Q) \in Nat /\ MaxPerDoc \in Nat
    BY <2>1, <2>5, FS_CardinalityType, LimitsAssumption
  <2>8. MaxPerDoc <= Cardinality(Q)
    <3> HIDE DEF P, Q
    <3> QED
      BY <2>5, <2>6, <2>7
  <2> QED
    BY <2>8 DEF Explains
<1> QED
  BY <1>1, <1>2

LEMMA MatchesMove ==
  ASSUME UNCHANGED <<corpus, input>>
  PROVE  /\ ToldApart(list)' = ToldApart(list') /\ ToldApart(remaining)' = ToldApart(remaining')
         /\ MatchesLead(remaining)' = MatchesLead(remaining')
         /\ MatchesLead(selected)' = MatchesLead(selected')
         /\ WithinLimits' = (\A d \in Docs : Taken(list', d) <= MaxPerDoc)
         /\ \A c : Explained(c)' = Explains(ChunksOf(list') \cap input.matches, c)
<1>1. input' = input /\ corpus' = corpus
  OBVIOUS
<1>2. WithinLimits' = (\A d \in Docs : Taken(list', d) <= MaxPerDoc)
  BY <1>1 DEF WithinLimits, Docs, Taken, OfDoc, Doc
<1>3. \A c : Explained(c)' = Explains(ChunksOf(list') \cap input.matches, c)
  BY <1>1 DEF Explained, Explains, Doc, Title, ChunksOf
<1>4. /\ ToldApart(list)' = ToldApart(list') /\ ToldApart(remaining)' = ToldApart(remaining')
      /\ MatchesLead(remaining)' = MatchesLead(remaining')
      /\ MatchesLead(selected)' = MatchesLead(selected')
  BY <1>1 DEF ToldApart, MatchesLead
<1> QED
  BY <1>2, <1>3, <1>4

(* One turn of _dedup. *)
LEMMA KeepKeepsMatches ==
  ASSUME InHand, MatchesKept, Keep
  PROVE  MatchesKept'
<1> DEFINE e == remaining[1]
           M == input.matches
<1>1. /\ stage = "dedup" /\ remaining # << >> /\ remaining' = Tail(remaining)
      /\ list' = (IF IsDuplicate(Head(remaining).chunk) THEN list
                  ELSE Append(list, Head(remaining)))
      /\ UNCHANGED <<corpus, input, stage, selected>>
  BY DEF Keep, Unfinished
<1>2. PICK N \in Nat : Len(remaining) = N /\ remaining \in [1..N -> Item]
  BY LenProperties DEF InHand
<1>3. N # 0
  BY <1>1, <1>2, EmptySeq DEF InHand
<1>4. 1 \in 1..N /\ N - 1 \in Nat
  BY <1>3
<1>5. Without(remaining', remaining, 1) /\ Head(remaining) = e
  BY <1>1, <1>2, <1>4, RemovalFacts DEF InHand
<1>6. /\ ChunksOf(remaining') = ChunksOf(remaining) \ {e.chunk}
      /\ Len(remaining') = N - 1
      /\ \A j \in 1..(N - 1) : remaining'[j] = remaining[j + 1] /\ j + 1 \in 1..N /\ 1 < j + 1
  <2>1. 1 \in 1..Len(remaining)
    BY <1>2, <1>4
  <2>2. ChunksOf(remaining') = ChunksOf(remaining) \ {e.chunk}
    BY <1>5, <2>1, TakenOut DEF InHand
  <2>3. \A j \in 1..(N - 1) : ~(j < 1) /\ j + 1 \in 1..N /\ 1 < j + 1
    OBVIOUS
  <2> QED
    BY <1>2, <1>5, <2>2, <2>3 DEF Without
<1>7. /\ ToldApart(list) /\ ToldApart(remaining) /\ MatchesLead(remaining)
      /\ \A d \in Docs : Taken(list, d) <= MaxPerDoc
      /\ ChunksOf(remaining) \cap M # {} => ChunksOf(list) \subseteq M
      /\ \A c \in M : \/ c \in ChunksOf(remaining) \/ c \in ChunksOf(list)
                      \/ Explains(ChunksOf(list) \cap M, c)
  BY <1>1 DEF MatchesKept, WithinLimits, Explained
<1>8. e \in Item /\ e.chunk \in ChunksOf(remaining)
      /\ (e.chunk \in M => Unit <= e.score) /\ (e.chunk \notin M => e.score <= 2 * Reach)
  BY <1>2, <1>4, <1>7 DEF ChunksOf, ToldApart
<1>9. ToldApart(remaining') /\ MatchesLead(remaining')
  <2>1. ToldApart(remaining')
    BY <1>2, <1>6, <1>7 DEF ToldApart
  <2>2. ASSUME NEW i \in 1..(N - 1), NEW j \in 1..(N - 1), i < j, remaining'[j].chunk \in M
        PROVE  remaining'[i].chunk \in M
    <3>1. i + 1 \in 1..N /\ j + 1 \in 1..N /\ i + 1 < j + 1
      BY <2>2
    <3>2. remaining[j + 1].chunk \in M
      BY <1>6, <2>2
    <3>3. remaining[i + 1].chunk \in M
      BY <1>2, <1>7, <3>1, <3>2 DEF MatchesLead
    <3> QED
      BY <1>6, <3>3
  <2>3. MatchesLead(remaining')
    BY <1>6, <2>2 DEF MatchesLead
  <2> QED
    BY <2>1, <2>3
<1>10. ChunksOf(remaining') \cap M # {} => e.chunk \in M /\ ChunksOf(list) \subseteq M
  <2> SUFFICES ASSUME ChunksOf(remaining') \cap M # {}
               PROVE  e.chunk \in M /\ ChunksOf(list) \subseteq M
    OBVIOUS
  <2>1. PICK c : c \in ChunksOf(remaining') /\ c \in M
    OBVIOUS
  <2>2. PICK j \in 1..(N - 1) : remaining'[j].chunk = c
    BY <1>6, <2>1 DEF ChunksOf
  <2>3. remaining[j + 1].chunk \in M /\ j + 1 \in 1..N /\ 1 < j + 1
    BY <1>6, <2>1, <2>2
  <2>4. e.chunk \in M
    BY <1>2, <1>4, <1>7, <2>3 DEF MatchesLead
  <2>5. c \in ChunksOf(remaining)
    BY <1>6, <2>1
  <2> QED
    BY <1>7, <2>1, <2>4, <2>5
<1> HIDE DEF e, M
<1>11. \/ list' = list /\ IsDuplicate(e.chunk)
       \/ list' = Append(list, e) /\ ~IsDuplicate(e.chunk)
  BY <1>1, <1>5
<1>12. /\ ToldApart(list') /\ \A d \in Docs : Taken(list', d) <= MaxPerDoc
       /\ ChunksOf(list) \subseteq ChunksOf(list')
       /\ ChunksOf(list') \subseteq ChunksOf(list) \cup {e.chunk}
       /\ list' \in Seq(Item)
  <2>1. CASE list' = list
    BY <1>7, <2>1 DEF InHand
  <2>2. CASE list' = Append(list, e) /\ ~IsDuplicate(e.chunk)
    <3>1. /\ list' \in Seq(Item) /\ Len(list') = Len(list) + 1 /\ list'[Len(list) + 1] = e
          /\ \A i \in 1..Len(list) : list'[i] = list[i]
          /\ \A i \in 1..(Len(list) + 1) : i \in 1..Len(list) \/ i = Len(list) + 1
          /\ ChunksOf(list') = ChunksOf(list) \cup {e.chunk}
          /\ \A d : Taken(list', d) =
                      IF Doc(e.chunk) = d THEN Taken(list, d) + 1 ELSE Taken(list, d)
      BY <1>8, <2>2, Appended DEF InHand
    <3>2. ToldApart(list')
      <4> SUFFICES ASSUME NEW i \in 1..Len(list')
                   PROVE  /\ list'[i].chunk \in input.matches => Unit <= list'[i].score
                          /\ list'[i].chunk \notin input.matches => list'[i].score <= 2 * Reach
        BY DEF ToldApart
      <4>1. CASE i \in 1..Len(list)
        BY <1>7, <3>1, <4>1 DEF ToldApart
      <4>2. CASE i = Len(list) + 1
        BY <1>8, <3>1, <4>2 DEF M
      <4> QED
        BY <3>1, <4>1, <4>2
    <3>3. ASSUME NEW d \in Docs
          PROVE  Taken(list', d) <= MaxPerDoc
      <4>1. Taken(list, d) \in Nat /\ MaxPerDoc \in Nat
        BY TakenFacts, LimitsAssumption DEF InHand
      <4>2. ~(Taken(list, Doc(e.chunk)) >= MaxPerDoc)
        BY <2>2 DEF IsDuplicate, Taken
      <4> QED
        BY <1>7, <3>1, <4>1, <4>2
    <3> QED
      BY <3>1, <3>2, <3>3
  <2> QED
    BY <1>11, <2>1, <2>2
<1>13. ChunksOf(remaining') \cap M # {} => ChunksOf(list') \subseteq M
  BY <1>10, <1>12
<1>14. ASSUME NEW c, Explains(ChunksOf(list) \cap M, c)
       PROVE  Explains(ChunksOf(list') \cap M, c)
  <2>1. IsFiniteSet(ChunksOf(list'))
    BY <1>12, ChunksFinite
  <2> DEFINE S == ChunksOf(list) \cap M
             T == ChunksOf(list') \cap M
  <2>2. S \subseteq T /\ T \in SUBSET ChunksOf(list') /\ Explains(S, c)
    BY <1>12, <1>14
  <2> HIDE DEF S, T
  <2>3. Explains(T, c)
    BY <2>1, <2>2, FS_Subset, ExplainsMore
  <2> QED
    BY <2>3 DEF T
<1>15. ASSUME NEW c \in M
       PROVE  \/ c \in ChunksOf(remaining') \/ c \in ChunksOf(list')
              \/ Explains(ChunksOf(list') \cap M, c)
  <2>1. CASE c \in ChunksOf(list) \/ Explains(ChunksOf(list) \cap M, c)
    BY <1>12, <1>14, <2>1
  <2>2. CASE c \in ChunksOf(remaining) /\ c # e.chunk
    BY <1>6, <2>2
  <2>3. CASE c = e.chunk
    <3>1. CASE list' = Append(list, e)
      <4>1. c \in ChunksOf(list')
        BY <1>8, <2>3, <3>1, Appended DEF InHand
      <4> QED
        BY <4>1
    <3>2. CASE list' = list /\ IsDuplicate(e.chunk)
      <4>1. ChunksOf(list) \cap M = ChunksOf(list)
        BY <1>7, <1>8, <2>3
      <4>2. Explains(ChunksOf(list), c)
        BY <2>3, <3>2, DuplicateExplained DEF InHand
      <4> QED
        BY <3>2, <4>1, <4>2
    <3> QED
      BY <1>11, <3>1, <3>2
  <2> QED
    BY <1>7, <2>1, <2>2, <2>3
<1>16. UNCHANGED <<corpus, input>> /\ stage' = "dedup"
  BY <1>1
<1> QED
  BY <1>9, <1>12, <1>13, <1>15, <1>16, MatchesMove DEF MatchesKept, M

(* After _dedup no document is over its limit: every candidate may be taken. *)
LEMMA AllEligible ==
  ASSUME InHand, SlotsAccountedFor, MatchesSelected, stage = "mmr", input.mode = "retrieve"
  PROVE  Eligible = 1..Len(remaining)
<1>1. DOMAIN remaining = 1..Len(remaining) /\ remaining \in [1..Len(remaining) -> Item]
  BY LenProperties DEF InHand
<1>2. ASSUME NEW j \in 1..Len(remaining)
      PROVE  WithinCap(remaining[j])
  <2> DEFINE d == Doc(remaining[j].chunk)
  <2>1. d \in Docs
    BY <1>1 DEF Docs, Item
  <2>2. 0 < Taken(remaining, d) /\ Taken(remaining, d) \in Nat
    BY TakenFacts DEF InHand
  <2>3. Taken(list, d) <= MaxPerDoc
    BY <2>1 DEF MatchesSelected, WithinLimits
  <2>4. Taken(selected, d) + Taken(remaining, d) <= Taken(list, d)
    BY <2>1 DEF SlotsAccountedFor
  <2>5. Taken(selected, d) \in Nat /\ Taken(list, d) \in Nat /\ MaxPerDoc \in Nat
    BY TakenFacts, LimitsAssumption DEF InHand
  <2> HIDE DEF d
  <2>6. Taken(selected, d) < MaxPerDoc
    BY <2>2, <2>3, <2>4, <2>5
  <2> QED
    BY <2>6 DEF WithinCap, Taken, d
<1> QED
  BY <1>1, <1>2 DEF Eligible

(* While a match remains the best candidate is one. *)
LEMMA BestIsMatch ==
  ASSUME InHand, SlotsAccountedFor, MatchesSelected, RelevanceOutweighs,
         stage = "mmr", input.mode = "retrieve", Eligible # {},
         remaining[Best].chunk \notin input.matches
  PROVE  ChunksOf(remaining) \cap input.matches = {}
<1> SUFFICES ASSUME NEW m \in 1..Len(remaining), remaining[m].chunk \in input.matches
             PROVE  FALSE
  BY DEF ChunksOf
<1>1. /\ Best \in 1..Len(remaining)
      /\ Value(remaining[Best]) >= Value(remaining[m])
  BY AllEligible, BestFacts DEF InHand
<1> DEFINE i == remaining[m]
           j == remaining[Best]
<1>2. /\ i \in Item /\ i.chunk \in Chunks /\ i.score \in Nat
      /\ j \in Item /\ j.chunk \in Chunks /\ j.score \in Nat
  <2>1. remaining \in [1..Len(remaining) -> Item]
    BY LenProperties DEF InHand
  <2> QED
    BY <1>1, <2>1 DEF Item
<1>3. Unit <= i.score /\ j.score <= 2 * Reach
  BY <1>1 DEF MatchesSelected, ToldApart
<1>4. TopScore \in Nat /\ TopScore <= Unit + 2 * Reach
  BY TopScoreFacts DEF InHand
<1> HIDE DEF i, j
<1>6. /\ Penalty(i.chunk) \in Int /\ -20 <= Penalty(i.chunk) /\ Penalty(i.chunk) <= 20
      /\ Penalty(j.chunk) \in Int /\ -20 <= Penalty(j.chunk) /\ Penalty(j.chunk) <= 20
  BY <1>2, PenaltyFacts DEF InHand
<1>7. Lambda * 20 * j.score - (10 - Lambda) * Penalty(j.chunk) * TopScore
        < Lambda * 20 * i.score - (10 - Lambda) * Penalty(i.chunk) * TopScore
  BY <1>2, <1>3, <1>4, <1>6, Outweighed
<1>8. Value(j) < Value(i) /\ Value(j) \in Int /\ Value(i) \in Int
  <2>1. /\ Value(i) = Lambda * 20 * i.score - (10 - Lambda) * Penalty(i.chunk) * TopScore
        /\ Value(j) = Lambda * 20 * j.score - (10 - Lambda) * Penalty(j.chunk) * TopScore
    BY DEF Value
  <2>2. /\ Lambda * 20 * i.score - (10 - Lambda) * Penalty(i.chunk) * TopScore \in Int
        /\ Lambda * 20 * j.score - (10 - Lambda) * Penalty(j.chunk) * TopScore \in Int
    <3>1. \A a, b, p, t \in Int : a * 20 * b - (10 - a) * p * t \in Int
      OBVIOUS
    <3>2. /\ Lambda \in Int /\ i.score \in Int /\ j.score \in Int /\ TopScore \in Int
          /\ Penalty(i.chunk) \in Int /\ Penalty(j.chunk) \in Int
      BY <1>2, <1>4, <1>6, LambdaAssumption
    <3> QED
      BY <3>1, <3>2
  <2> QED
    BY <1>7, <2>1, <2>2
<1>9. Value(j) >= Value(i)
  BY <1>1 DEF i, j
<1> QED
  BY <1>8, <1>9

(* One turn of mmr_select. *)
LEMMA SelectKeepsMatches ==
  ASSUME InHand, SlotsAccountedFor, MatchesSelected, RelevanceOutweighs, Select,
         input.mode = "retrieve"
  PROVE  MatchesSelected'
<1> DEFINE e == remaining[Best]
           M == input.matches
<1>1. /\ stage = "mmr" /\ Eligible # {}
      /\ selected' = Append(selected, e)
      /\ remaining' = RemoveAt(remaining, Best)
      /\ UNCHANGED <<corpus, input, stage, list>>
  BY DEF Select
<1>2. Best \in 1..Len(remaining)
  BY <1>1, BestFacts DEF InHand
<1>3. Without(remaining', remaining, Best)
  BY <1>1, <1>2, RemovalFacts DEF InHand
<1>4. /\ \A j \in 1..Len(remaining') : \E m \in 1..Len(remaining) : remaining'[j] = remaining[m]
      /\ ChunksOf(remaining') = ChunksOf(remaining) \ {e.chunk}
  BY <1>2, <1>3, TakenOut DEF InHand
<1>5. e \in Item /\ e.chunk \in ChunksOf(remaining)
  <2>1. remaining \in [1..Len(remaining) -> Item]
    BY LenProperties DEF InHand
  <2> QED
    BY <1>2, <2>1 DEF ChunksOf
<1>6. e.chunk \in M \/ ChunksOf(remaining) \cap M = {}
  BY <1>1, BestIsMatch
<1> HIDE DEF e, M
<1>7. PICK N \in Nat : Len(selected) = N
  BY LenProperties DEF InHand
<1>8. /\ selected' \in Seq(Item) /\ Len(selected') = N + 1 /\ selected'[N + 1] = e
      /\ \A i \in 1..N : selected'[i] = selected[i]
      /\ \A i \in 1..(N + 1) : i \in 1..N \/ i = N + 1
      /\ ChunksOf(selected') = ChunksOf(selected) \cup {e.chunk}
  BY <1>1, <1>5, <1>7, Appended DEF InHand
<1>9. /\ ToldApart(remaining) /\ \A d \in Docs : Taken(list, d) <= MaxPerDoc
      /\ ChunksOf(list) = ChunksOf(selected) \cup ChunksOf(remaining)
      /\ \A c \in M : \/ c \in ChunksOf(list) \/ Explains(ChunksOf(list) \cap M, c)
                      \/ ChunksOf(list) \subseteq M
      /\ MatchesLead(selected)
      /\ ChunksOf(selected) \subseteq M \/ ChunksOf(remaining) \cap M = {}
  BY <1>1 DEF MatchesSelected, WithinLimits, Explained, M
<1>10. ToldApart(remaining')
  BY <1>4, <1>9 DEF ToldApart
<1>11. ChunksOf(list) = ChunksOf(selected') \cup ChunksOf(remaining')
  BY <1>4, <1>5, <1>8, <1>9
<1>12. ChunksOf(selected') \subseteq M \/ ChunksOf(remaining') \cap M = {}
  BY <1>4, <1>6, <1>8, <1>9
<1>13. MatchesLead(selected')
  <2> SUFFICES ASSUME NEW i \in 1..(N + 1), NEW j \in 1..(N + 1), i < j,
                      selected'[j].chunk \in M
               PROVE  selected'[i].chunk \in M
    BY <1>8 DEF MatchesLead, M
  <2>1. i \in 1..N
    OBVIOUS
  <2>2. CASE j \in 1..N
    <3>1. selected[j].chunk \in M
      BY <1>8, <2>2
    <3>2. selected[i].chunk \in M
      BY <1>7, <1>9, <2>1, <2>2, <3>1 DEF MatchesLead, M
    <3> QED
      BY <1>8, <2>1, <3>2
  <2>3. CASE j = N + 1
    <3>1. e.chunk \in M
      BY <1>8, <2>3
    <3>2. ChunksOf(selected) \subseteq M
      BY <1>5, <1>9, <3>1
    <3>3. selected[i].chunk \in ChunksOf(selected)
      BY <1>7, <2>1 DEF ChunksOf
    <3> QED
      BY <1>8, <2>1, <3>2, <3>3
  <2> QED
    BY <1>8, <2>2, <2>3
<1>14. UNCHANGED <<corpus, input, list, stage>>
  BY <1>1
<1>16. /\ WithinLimits' /\ \A c \in M : \/ c \in ChunksOf(list)
                                        \/ Explained(c)' \/ ChunksOf(list) \subseteq M
  BY <1>9, <1>14, MatchesMove DEF M
<1> QED
  BY <1>10, <1>11, <1>12, <1>13, <1>14, <1>16, MatchesMove DEF MatchesSelected, M

LEMMA MatchesNext ==
  InHand /\ SlotsAccountedFor /\ MatchesKept /\ MatchesSelected /\ RelevanceOutweighs
    /\ [Next]_vars => MatchesKept' /\ MatchesSelected'
<1> SUFFICES ASSUME InHand, SlotsAccountedFor, MatchesKept, MatchesSelected,
                    RelevanceOutweighs, [Next]_vars
             PROVE  MatchesKept' /\ MatchesSelected'
  OBVIOUS
<1>0. input \in Inputs /\ Reach \in Nat /\ Unit \in Nat
  BY ReachFacts DEF InHand
<1>1. CASE Fuse
  <2>1. \/ stage' = "inject"
        \/ stage' = "mmr" /\ input'.mode # "retrieve"
    BY <1>1 DEF Fuse, Goto
  <2> QED
    BY <2>1 DEF MatchesKept, MatchesSelected
<1>2. CASE Inject
  <2>1. /\ stage = "inject" /\ list = Fused /\ list \in Seq(Item) /\ Distinct(list)
        /\ remaining' = Sorted(Injected) /\ list' = << >>
        /\ stage' = "dedup" /\ UNCHANGED <<corpus, input>>
    BY <1>2 DEF Inject, Goto, InHand
  <2>2. \A i \in 1..Len(list) : list[i].score <= 2 * Reach
    BY <1>0, <2>1, FusedFacts
  <2>3. /\ Injected \in Seq(Item) /\ ToldApart(Injected)
        /\ input.matches \subseteq ChunksOf(Injected)
    BY <1>0, <2>1, <2>2, InjectedFacts
  <2>4. /\ ToldApart(Sorted(Injected)) /\ MatchesLead(Sorted(Injected))
        /\ ChunksOf(Sorted(Injected)) = ChunksOf(Injected)
    BY <1>0, <2>3, SortedKeeps, MatchesScoreMore
  <2>5. ToldApart(list') /\ ChunksOf(list') = {} /\ \A d : Taken(list', d) = 0
    BY <2>1, EmptyFacts
  <2>6. \A d \in Docs : Taken(list', d) <= MaxPerDoc
    BY <2>5, LimitsAssumption
  <2> QED
    BY <2>1, <2>3, <2>4, <2>5, <2>6, MatchesMove DEF MatchesKept, MatchesSelected
<1>3. CASE Keep
  <2>1. stage' = "dedup"
    BY <1>3 DEF Keep
  <2> QED
    BY <1>3, <2>1, KeepKeepsMatches DEF MatchesSelected
<1>4. CASE Deduplicated
  <2>1. /\ stage = "dedup" /\ remaining' = list /\ list' = list /\ selected' = << >>
        /\ stage' = "mmr" /\ UNCHANGED <<corpus, input>>
    BY <1>4 DEF Deduplicated, Goto, InHand
  <2>2. /\ ToldApart(list) /\ \A d \in Docs : Taken(list, d) <= MaxPerDoc
        /\ ChunksOf(remaining) \cap input.matches # {} => ChunksOf(list) \subseteq input.matches
        /\ \A c \in input.matches : \/ c \in ChunksOf(remaining) \/ c \in ChunksOf(list)
                                    \/ Explains(ChunksOf(list) \cap input.matches, c)
    BY <2>1 DEF MatchesKept, WithinLimits, Explained
  <2>3. \A c \in input.matches : \/ c \in ChunksOf(list')
                                 \/ Explains(ChunksOf(list') \cap input.matches, c)
                                 \/ ChunksOf(list') \subseteq input.matches
    BY <2>1, <2>2
  <2>4. MatchesLead(selected') /\ ChunksOf(selected') = {}
    BY <2>1, EmptyFacts
  <2>5. ToldApart(remaining') /\ \A d \in Docs : Taken(list', d) <= MaxPerDoc
    BY <2>1, <2>2
  <2>6. ChunksOf(list') = ChunksOf(selected') \cup ChunksOf(remaining')
    BY <2>1, <2>4
  <2> QED
    BY <2>1, <2>3, <2>4, <2>5, <2>6, MatchesMove DEF MatchesKept, MatchesSelected
<1>5. CASE Select
  <2>1. stage' = "mmr" /\ input' = input
    BY <1>5 DEF Select
  <2>2. CASE input.mode = "retrieve"
    BY <1>5, <2>1, <2>2, SelectKeepsMatches DEF MatchesKept
  <2>3. CASE input.mode # "retrieve"
    BY <2>1, <2>3 DEF MatchesKept, MatchesSelected
  <2> QED
    BY <2>2, <2>3
<1>6. CASE Skip
  <2>1. /\ stage = "mmr" /\ stage' = "mmr" /\ input' = input
        /\ remaining # << >> /\ Eligible = {}
    BY <1>6 DEF Skip, More
  <2>2. input.mode # "retrieve"
    <3> SUFFICES ASSUME input.mode = "retrieve"
                 PROVE  FALSE
      OBVIOUS
    <3>1. 1..Len(remaining) = {}
      BY <2>1, AllEligible
    <3>2. PICK N \in Nat : Len(remaining) = N
      BY LenProperties DEF InHand
    <3>3. N = 0
      BY <3>1, <3>2
    <3> QED
      BY <2>1, <3>2, <3>3, EmptySeq DEF InHand
  <2> QED
    BY <2>1, <2>2 DEF MatchesKept, MatchesSelected
<1>7. CASE Return
  <2>1. /\ stage = "mmr" /\ stage' = "done"
        /\ UNCHANGED <<corpus, input, list, remaining, selected>>
    BY <1>7 DEF Return, Goto
  <2> QED
    BY <2>1, MatchesMove DEF MatchesKept, MatchesSelected, WithinLimits, Explained
<1>8. CASE UNCHANGED vars
  <2>1. UNCHANGED <<corpus, input, stage, list, remaining, selected>>
    BY <1>8 DEF vars
  <2> QED
    BY <2>1, MatchesMove DEF MatchesKept, MatchesSelected, WithinLimits, Explained
<1> QED
  BY <1>1, <1>2, <1>3, <1>4, <1>5, <1>6, <1>7, <1>8 DEF Next

(* A result that is no match: no match was left when it was chosen, so all *)
(* that are listed are in the results, and before it.                      *)
LEMMA MatchesImplied == InHand /\ MatchesSelected => IdentifierMatchesComeFirst
<1> SUFFICES ASSUME InHand, MatchesSelected, stage = "done", input.mode = "retrieve",
                    NEW i \in DOMAIN selected, selected[i].chunk \notin input.matches
             PROVE  /\ \A j \in DOMAIN selected : j > i => selected[j].chunk \notin input.matches
                    /\ \A c \in input.matches \ Results :
                         Explains(Results \cap input.matches, c)
  <2>1. \A c : Explains(Results \cap input.matches, c) =>
          \/ Cardinality({r \in Results \cap input.matches : Doc(r) = Doc(c)}) >= MaxPerDoc
          \/ \E r \in Results \cap input.matches : Title(r) = Title(c) /\ Doc(r) # Doc(c)
    BY DEF Explains
  <2> QED
    BY <2>1 DEF IdentifierMatchesComeFirst
<1>1. DOMAIN selected = 1..Len(selected) /\ Len(selected) \in Nat
  BY LenProperties DEF InHand
<1>2. Results = ChunksOf(selected)
  BY <1>1 DEF Results, ChunksOf
<1>3. /\ ChunksOf(list) = ChunksOf(selected) \cup ChunksOf(remaining)
      /\ \A c \in input.matches : \/ c \in ChunksOf(list)
                                  \/ Explains(ChunksOf(list) \cap input.matches, c)
                                  \/ ChunksOf(list) \subseteq input.matches
      /\ MatchesLead(selected)
      /\ \/ ChunksOf(selected) \subseteq input.matches
         \/ ChunksOf(remaining) \cap input.matches = {}
  BY DEF MatchesSelected, Explained
<1>4. selected[i].chunk \in ChunksOf(selected)
  BY <1>1 DEF ChunksOf
<1>5. ChunksOf(remaining) \cap input.matches = {}
  BY <1>3, <1>4
<1>6. ChunksOf(list) \cap input.matches = Results \cap input.matches
  BY <1>2, <1>3, <1>5
<1>7. \A c \in input.matches \ Results : Explains(Results \cap input.matches, c)
  BY <1>3, <1>4, <1>6
<1>8. \A j \in DOMAIN selected : j > i => selected[j].chunk \notin input.matches
  <2> SUFFICES ASSUME NEW j \in DOMAIN selected, j > i, selected[j].chunk \in input.matches
               PROVE  FALSE
    OBVIOUS
  <2>1. i \in 1..Len(selected) /\ j \in 1..Len(selected) /\ i < j
    BY <1>1
  <2> QED
    BY <1>3, <2>1 DEF MatchesLead
<1> QED
  BY <1>7, <1>8

-----------------------------------------------------------------------------
(* The theorems. *)

LEMMA AgreementImplied == InHand => FusionRespectsAgreement
<1> SUFFICES ASSUME InHand, stage = "inject" \/ (stage = "mmr" /\ input.mode = "merge"),
                    NEW a \in Chunks, NEW b \in Chunks, InList(b),
                    \A l \in 1..2 : Contains(Lanes[l], b) =>
                      Contains(Lanes[l], a) /\ RankIn(Lanes[l], a) < RankIn(Lanes[l], b)
             PROVE  /\ InList(a)
                    /\ a # b => (CHOOSE i \in DOMAIN list : list[i].chunk = a)
                                  < (CHOOSE i \in DOMAIN list : list[i].chunk = b)
  BY DEF FusionRespectsAgreement
<1>1. /\ list = Fused /\ Distinct(list) /\ DOMAIN list = 1..Len(list)
      /\ \A x, y \in Chunks : \A i \in 1..Len(list) :
           Agreed(x, y) /\ list[i].chunk = y
             => \E j \in 1..Len(list) : j < i /\ list[j].chunk = x
  BY FusedFacts, LenProperties DEF InHand
<1>2. CASE a = b
  BY <1>2
<1>3. CASE a # b
  <2>1. Agreed(a, b)
    BY <1>3 DEF Agreed
  <2>2. PICK i \in 1..Len(list) : list[i].chunk = b
    BY <1>1 DEF InList
  <2>3. PICK j \in 1..Len(list) : j < i /\ list[j].chunk = a
    BY <1>1, <2>1, <2>2
  <2>4. (CHOOSE m \in DOMAIN list : list[m].chunk = b) = i
    BY <1>1, <2>2 DEF Distinct
  <2>5. (CHOOSE m \in DOMAIN list : list[m].chunk = a) = j
    BY <1>1, <2>3 DEF Distinct
  <2>6. InList(a)
    BY <1>1, <2>3 DEF InList
  <2> QED
    BY <2>3, <2>4, <2>5, <2>6
<1> QED
  BY <1>2, <1>3

LEMMA TypeImplied == InHand /\ SlotsAccountedFor => TypeOK
<1> SUFFICES ASSUME InHand, SlotsAccountedFor
             PROVE  TypeOK
  OBVIOUS
<1>0. Reach \in Nat /\ Unit \in Nat /\ 2 * Reach <= Unit /\ input.k \in Nat
  BY ReachFacts, LimitFacts DEF InHand
<1>1. ASSUME NEW items \in Seq(Item), Bounded(items), NEW i \in DOMAIN items
      PROVE  items[i].chunk \in Chunks /\ items[i].score \in 0..(2 * Unit)
  <2>1. DOMAIN items = 1..Len(items) /\ items \in [1..Len(items) -> Item]
    BY LenProperties
  <2>2. items[i].chunk \in Chunks /\ items[i].score \in Nat
        /\ items[i].score <= Unit + 2 * Reach
    BY <1>1, <2>1 DEF Bounded, Item
  <2> QED
    BY <1>0, <2>2
<1>2. \A items \in {list, remaining, selected} : \A i \in DOMAIN items :
         items[i].chunk \in Chunks /\ items[i].score \in 0..(2 * Unit)
  BY <1>1 DEF InHand
<1>3. PICK N \in Nat : Len(selected) = N /\ DOMAIN selected = 1..N
  BY LenProperties DEF InHand
<1>4. N <= input.k
  <2>1. CASE stage \in {"mmr", "done"}
    BY <1>3, <2>1 DEF SlotsAccountedFor
  <2>2. CASE stage \notin {"mmr", "done"}
    <3>1. selected = << >>
      BY <2>2 DEF InHand
    <3>2. N = 0
      BY <1>3, <3>1, EmptySeq
    <3> QED
      BY <1>0, <3>2
  <2> QED
    BY <2>1, <2>2
<1>5. Cardinality(Results) = N
  <2> DEFINE f == [i \in 1..N |-> selected[i].chunk]
  <2>1. f \in Bijection(1..N, Results)
    BY <1>3 DEF Bijection, Injection, Surjection, IsInjective, Results, Distinct, InHand
  <2>2. IsFiniteSet(1..N) /\ Cardinality(1..N) = N
    <3>1. 1 \in Int /\ N \in Int
      OBVIOUS
    <3> QED
      BY <3>1, FS_Interval
  <2>3. ExistsBijection(1..N, Results)
    BY <2>1 DEF ExistsBijection
  <2> QED
    BY <2>2, <2>3, FS_Bijection
<1>6. stage \in {"fuse", "inject", "dedup", "mmr", "done"}
  BY DEF InHand
<1> QED
  BY <1>2, <1>3, <1>4, <1>5, <1>6 DEF TypeOK

(* The lists hold distinct chunks, and every candidate is accounted for.   *)
THEOREM Invariance == Spec => [](InHand /\ SlotsAccountedFor)
<1>1. Init => InHand /\ SlotsAccountedFor
  <2>1. Init => SlotsAccountedFor
    BY DEF Init, SlotsAccountedFor
  <2> QED
    BY <2>1, InHandInit
<1>2. InHand /\ SlotsAccountedFor /\ [Next]_vars => (InHand /\ SlotsAccountedFor)'
  BY InHandNext, SlotsNext
<1> QED
  BY <1>1, <1>2, PTL DEF Spec

(* The type invariant: the results are distinct chunks, no more of them    *)
(* than were asked for.                                                    *)
THEOREM TypeCorrect == Spec => []TypeOK
<1> QED
  BY Invariance, TypeImplied, PTL

(* Fusion respects the rankings where they agree (reciprocal_rank_fusion). *)
THEOREM AgreementRespected == Spec => []FusionRespectsAgreement
<1> QED
  BY Invariance, AgreementImplied, PTL

(* No slot is left unused, and no document crowds out the others           *)
(* (mmr_select).                                                           *)
THEOREM NoSlotLost == Spec => []SlotsFilled
<1> QED
  BY Invariance, SlotsImplied, PTL

(* Where relevance outweighs diversity, as it does in the configuration    *)
(* the service ships, matches come first whatever the rankings and the     *)
(* similarities.                                                           *)
THEOREM MatchesFirst ==
  ASSUME RelevanceOutweighs
  PROVE  Spec => []IdentifierMatchesComeFirst
<1> DEFINE Inv == InHand /\ SlotsAccountedFor /\ MatchesKept /\ MatchesSelected
<1>1. Init => Inv
  <2>1. Init => SlotsAccountedFor /\ MatchesKept /\ MatchesSelected
    BY DEF Init, SlotsAccountedFor, MatchesKept, MatchesSelected
  <2> QED
    BY <2>1, InHandInit
<1>2. Inv /\ [Next]_vars => Inv'
  BY InHandNext, SlotsNext, MatchesNext
<1>3. Inv => IdentifierMatchesComeFirst
  BY MatchesImplied
<1> QED
  BY <1>1, <1>2, <1>3, PTL DEF Spec
=============================================================================
