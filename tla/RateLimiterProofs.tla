-------------------------- MODULE RateLimiterProofs --------------------------
(***************************************************************************)
(* Proofs about RateLimiter for every set of keys, rate and bound, and     *)
(* about the RequestGate in front of the service.                          *)
(*                                                                         *)
(* NoMoreThanTheRate is not inductive: a bucket that says it holds tokens  *)
(* it was never given would admit too many calls later.  RateBalance adds  *)
(* what the bucket holds, and what its time since updatedAt will bring, to *)
(* what it has spent; a clock set back only takes from the second.         *)
(* RetryAfterIsHonest needs PromiseFunded: what the bucket holds and what  *)
(* comes in until the promised instant buy a call.  KeepsTheMostRecentKeys *)
(* speaks of the set of keys; which of them goes next is in their order,   *)
(* so RecentOrder ties the whole order of the map to that of the calls.    *)
(***************************************************************************)
EXTENDS RequestGate, SequenceTheorems, TLAPS

Refill(from, to) == Greatest(0, to - from) * Capacity

OrderMatches ==
  /\ order \in Seq(Callers)
  /\ Tracked = ToSet(order)

RateBalance ==
  \A k \in Tracked :
    buckets[k].tokens + Refill(buckets[k].updatedAt, now) + admitted[k] * Window
      <= Full + elapsed[k] * Capacity

PromiseFunded ==
  \A k \in Tracked : promise[k] # NoPromise =>
    /\ buckets[k].updatedAt <= now
    /\ Window <= buckets[k].tokens + Refill(buckets[k].updatedAt, promise[k])

IInv == TypeOK /\ OrderMatches /\ RateBalance /\ PromiseFunded

-----------------------------------------------------------------------------
(* Arithmetic. *)

(* A product distributes over one more unit. *)
LEMMA StepOfProduct ==
  ASSUME NEW m \in Int, NEW n \in Int
  PROVE  (m + 1) * n = m * n + n
  OBVIOUS

(* A full bucket serves a call. *)
LEMMA FullIsEnough == Full \in Nat /\ Window <= Full
  BY LimitsAssumption DEF Full

(* Multiplying by the capacity preserves the order. *)
LEMMA ProductMonotonic ==
  ASSUME NEW m \in Int, NEW n \in Int, NEW c \in Nat, m <= n
  PROVE  m * c <= n * c
  OBVIOUS

(* What a span of time brings: nothing backwards, a Capacity per tick.     *)
LEMMA RefillFacts ==
  ASSUME NEW a \in Nat, NEW b \in Nat
  PROVE  /\ Refill(a, b) \in Nat
         /\ Refill(a, a) = 0
         /\ Refill(a, b + 1) <= Refill(a, b) + Capacity
         /\ \A c \in Nat : b <= c => Refill(a, b) <= Refill(a, c)
<1>1. Greatest(0, b - a) \in Nat /\ Greatest(0, a - a) = 0
  BY DEF Greatest
<1>2. Refill(a, b) \in Nat /\ Refill(a, a) = 0
  BY <1>1, LimitsAssumption DEF Refill
<1>3. Refill(a, b + 1) <= Refill(a, b) + Capacity
  <2>1. Greatest(0, (b + 1) - a) \in Nat
        /\ Greatest(0, (b + 1) - a) <= Greatest(0, b - a) + 1
    BY DEF Greatest
  <2>2. Greatest(0, (b + 1) - a) * Capacity <= (Greatest(0, b - a) + 1) * Capacity
    BY <1>1, <2>1, ProductMonotonic, LimitsAssumption
  <2>3. (Greatest(0, b - a) + 1) * Capacity = Greatest(0, b - a) * Capacity + Capacity
    BY <1>1, StepOfProduct, LimitsAssumption
  <2> QED
    BY <2>2, <2>3 DEF Refill
<1>4. ASSUME NEW c \in Nat, b <= c
      PROVE  Refill(a, b) <= Refill(a, c)
  <2>1. Greatest(0, c - a) \in Nat /\ Greatest(0, b - a) <= Greatest(0, c - a)
    BY <1>4 DEF Greatest
  <2> QED
    BY <1>1, <2>1, ProductMonotonic, LimitsAssumption DEF Refill
<1> QED
  BY <1>2, <1>3, <1>4

(* Consecutive spans that run forwards add up. *)
LEMMA RefillAdds ==
  ASSUME NEW a \in Nat, NEW b \in Nat, NEW c \in Nat, a <= b, b <= c
  PROVE  Refill(a, c) = Refill(a, b) + Refill(b, c)
<1>1. /\ Greatest(0, c - a) = c - a
      /\ Greatest(0, b - a) = b - a
      /\ Greatest(0, c - b) = c - b
  BY DEF Greatest
<1>2. (c - a) * Capacity = (b - a) * Capacity + (c - b) * Capacity
  BY LimitsAssumption
<1> QED
  BY <1>1, <1>2 DEF Refill

(* Rounding up covers the dividend. *)
LEMMA CeilingCovers ==
  ASSUME NEW a \in Nat, NEW b \in Nat \ {0}
  PROVE  Ceiling(a, b) \in Int /\ a <= Ceiling(a, b) * b
<1>1. a + b - 1 \in Nat
  OBVIOUS
<1>2. (a + b - 1) \div b \in Int
  BY <1>1
<1>3. a + b - 1 = b * ((a + b - 1) \div b) + ((a + b - 1) % b) /\ (a + b - 1) % b \in 0..(b - 1)
  BY <1>1
<1> QED
  BY <1>1, <1>2, <1>3 DEF Ceiling

-----------------------------------------------------------------------------
(* The order of the keys. *)

(* Appending adds one element. *)
LEMMA AppendAdds ==
  ASSUME NEW S, NEW s \in Seq(S), NEW e \in S
  PROVE  Append(s, e) \in Seq(S) /\ ToSet(Append(s, e)) = ToSet(s) \cup {e}
  BY AppendProperties, LenProperties DEF ToSet

(* Dropping the head adds none. *)
LEMMA TailTakes ==
  ASSUME NEW S, NEW s \in Seq(S), s # << >>
  PROVE  Tail(s) \in Seq(S) /\ ToSet(Tail(s)) \subseteq ToSet(s)
<1>1. Tail(s) \in Seq(S) /\ Len(Tail(s)) = Len(s) - 1
      /\ \A i \in 1..Len(Tail(s)) : Tail(s)[i] = s[i + 1]
  BY HeadTailProperties
<1>2. DOMAIN Tail(s) = 1..(Len(s) - 1) /\ DOMAIN s = 1..Len(s) /\ Len(s) \in Nat
  BY <1>1, LenProperties
<1> QED
  BY <1>1, <1>2 DEF ToSet

(* Removing an element moves those behind it up by one. *)
LEMMA RemoveAtFacts ==
  ASSUME NEW S, NEW s \in Seq(S), NEW i \in Nat, 1 <= i, i <= Len(s)
  PROVE  /\ RemoveAt(s, i) \in Seq(S)
         /\ Len(RemoveAt(s, i)) = Len(s) - 1
         /\ \A j \in 1..(Len(s) - 1) : RemoveAt(s, i)[j] = IF j < i THEN s[j] ELSE s[j + 1]
<1>1. Len(s) \in Nat /\ s \in [1..Len(s) -> S]
  BY LenProperties
<1> DEFINE front == SubSeq(s, 1, i - 1)
           rear == SubSeq(s, i + 1, Len(s))
<1>2. /\ front \in Seq(S) /\ Len(front) = i - 1
      /\ \A j \in 1..(i - 1) : front[j] = s[j]
  BY <1>1, SubSeqProperties
<1>3. /\ rear \in Seq(S) /\ Len(rear) = Len(s) - i
      /\ \A j \in 1..(Len(s) - i) : rear[j] = s[i + j]
  <2>1. i + 1 \in Int /\ Len(s) \in Int /\ \A j \in (i + 1)..Len(s) : s[j] \in S
    BY <1>1
  <2>2. /\ rear \in Seq(S)
        /\ Len(rear) = IF i + 1 <= Len(s) THEN Len(s) - (i + 1) + 1 ELSE 0
        /\ \A j \in 1..(Len(s) - (i + 1) + 1) : rear[j] = s[(i + 1) + j - 1]
    BY <2>1, SubSeqProperties
  <2> HIDE DEF rear
  <2>3. Len(rear) = Len(s) - i
    <3>1. PICK n \in Nat : Len(s) = n
      BY <1>1
    <3>2. i <= n /\ Len(rear) = IF i + 1 <= n THEN n - (i + 1) + 1 ELSE 0
      BY <2>2, <3>1
    <3>3. Len(rear) = n - i
      BY <3>2
    <3> QED BY <3>1, <3>3
  <2>4. \A j \in 1..(Len(s) - i) : rear[j] = s[i + j]
    <3> TAKE j \in 1..(Len(s) - i)
    <3>1. j \in 1..(Len(s) - (i + 1) + 1) /\ (i + 1) + j - 1 = i + j
      BY <1>1
    <3> QED
      BY <2>2, <3>1
  <2> QED
    BY <2>2, <2>3, <2>4
<1> HIDE DEF front, rear
<1>4. /\ front \o rear \in Seq(S) /\ Len(front \o rear) = Len(s) - 1
      /\ \A j \in 1..(Len(s) - 1) :
           (front \o rear)[j] = IF j <= i - 1 THEN front[j] ELSE rear[j - (i - 1)]
  <2>1. /\ front \o rear \in Seq(S)
        /\ Len(front \o rear) = Len(front) + Len(rear)
        /\ \A j \in 1..(Len(front) + Len(rear)) :
             (front \o rear)[j] = IF j <= Len(front) THEN front[j] ELSE rear[j - Len(front)]
    BY <1>2, <1>3, ConcatProperties
  <2>2. Len(front) = i - 1 /\ Len(front) + Len(rear) = Len(s) - 1
    BY <1>1, <1>2, <1>3
  <2> QED
    BY <2>1, <2>2
<1>5. ASSUME NEW j \in 1..(Len(s) - 1)
      PROVE  (front \o rear)[j] = IF j < i THEN s[j] ELSE s[j + 1]
  <2>1. CASE j < i
    BY <1>1, <1>2, <1>4, <2>1
  <2>2. CASE ~(j < i)
    <3>1. j - (i - 1) \in 1..(Len(s) - i) /\ i + (j - (i - 1)) = j + 1
      BY <1>1, <2>2
    <3> QED
      BY <1>3, <1>4, <2>2, <3>1
  <2> QED
    BY <2>1, <2>2
<1> QED
  BY <1>4, <1>5 DEF RemoveAt, front, rear

(* It drops no other element, and brings none. *)
LEMMA RemoveAtTakes ==
  ASSUME NEW S, NEW s \in Seq(S), NEW i \in DOMAIN s
  PROVE  RemoveAt(s, i) \in Seq(S) /\ ToSet(RemoveAt(s, i)) \subseteq ToSet(s)
<1>1. DOMAIN s = 1..Len(s) /\ Len(s) \in Nat
  BY LenProperties
<1>2. /\ RemoveAt(s, i) \in Seq(S)
      /\ Len(RemoveAt(s, i)) = Len(s) - 1
      /\ \A j \in 1..(Len(s) - 1) : RemoveAt(s, i)[j] = IF j < i THEN s[j] ELSE s[j + 1]
  <2>1. i \in Nat /\ 1 <= i /\ i <= Len(s)
    BY <1>1
  <2> QED BY <2>1, RemoveAtFacts
<1>3. DOMAIN RemoveAt(s, i) = 1..(Len(s) - 1)
  BY <1>2, LenProperties
<1>4. ASSUME NEW j \in 1..(Len(s) - 1)
      PROVE  RemoveAt(s, i)[j] \in ToSet(s)
  <2>1. j \in DOMAIN s /\ j + 1 \in DOMAIN s
    BY <1>1
  <2> QED
    BY <1>2, <2>1 DEF ToSet
<1> QED
  BY <1>2, <1>3, <1>4 DEF ToSet

(* A call leaves its key tracked, and tracks no other that was not.        *)
LEMMA OrderAfterFacts ==
  ASSUME OrderMatches, NEW k \in Callers
  PROVE  /\ OrderAfter(k) \in Seq(Callers)
         /\ k \in ToSet(OrderAfter(k))
         /\ ToSet(OrderAfter(k)) \subseteq Tracked \cup {k}
<1>1. CASE k \in Tracked
  <2>1. Place(k) \in DOMAIN order
    BY <1>1 DEF Place, OrderMatches, ToSet
  <2>2. /\ RemoveAt(order, Place(k)) \in Seq(Callers)
        /\ ToSet(RemoveAt(order, Place(k))) \subseteq Tracked
    BY <2>1, RemoveAtTakes DEF OrderMatches
  <2>3. OrderAfter(k) = Append(RemoveAt(order, Place(k)), k)
    BY <1>1 DEF OrderAfter, MovedToEnd
  <2>4. /\ OrderAfter(k) \in Seq(Callers)
        /\ ToSet(OrderAfter(k)) = ToSet(RemoveAt(order, Place(k))) \cup {k}
    BY <2>2, <2>3, AppendAdds
  <2> QED
    BY <2>2, <2>4
<1>2. CASE k \notin Tracked /\ Len(order) >= MaxKeys
  <2> DEFINE rest == Tail(order)
  <2>1. order # << >>
    BY <1>2, EmptySeq, LimitsAssumption
  <2>2. rest \in Seq(Callers) /\ ToSet(rest) \subseteq Tracked
    BY <2>1, TailTakes DEF OrderMatches
  <2>3. OrderAfter(k) = Append(rest, k)
    BY <1>2 DEF OrderAfter
  <2> HIDE DEF rest
  <2>4. /\ OrderAfter(k) \in Seq(Callers)
        /\ ToSet(OrderAfter(k)) = ToSet(rest) \cup {k}
    BY <2>2, <2>3, AppendAdds
  <2> QED
    BY <2>2, <2>4
<1>3. CASE k \notin Tracked /\ ~(Len(order) >= MaxKeys)
  BY <1>3, AppendAdds DEF OrderAfter, OrderMatches
<1> QED
  BY <1>1, <1>2, <1>3

(* A key moved to the end leaves the others in their order. *)
MovedBack(s, q) == Append(RemoveAt(s, q), s[q])

LEMMA MovedToTheEnd ==
  ASSUME NEW S, NEW s \in Seq(S), IsInjective(s), NEW q \in Nat, 1 <= q, q <= Len(s)
  PROVE  /\ MovedBack(s, q) \in Seq(S) /\ IsInjective(MovedBack(s, q))
         /\ Len(MovedBack(s, q)) = Len(s) /\ MovedBack(s, q)[Len(s)] = s[q]
         /\ \A j \in 1..(Len(s) - 1) : MovedBack(s, q)[j] = IF j < q THEN s[j] ELSE s[j + 1]
<1>1. PICK n \in Nat : Len(s) = n
  BY LenProperties
<1>2. DOMAIN s = 1..n /\ s \in [1..n -> S] /\ q \in 1..n /\ s[q] \in S
  BY <1>1, LenProperties
<1> DEFINE rest == RemoveAt(s, q)
           t == MovedBack(s, q)
<1>3. /\ rest \in Seq(S) /\ Len(rest) = n - 1
      /\ \A j \in 1..(n - 1) : rest[j] = IF j < q THEN s[j] ELSE s[j + 1]
  BY <1>1, RemoveAtFacts
<1>4. t = Append(rest, s[q])
  BY DEF MovedBack
<1> HIDE DEF rest, t
<1>5. /\ t \in Seq(S) /\ Len(t) = (n - 1) + 1 /\ t[(n - 1) + 1] = s[q]
      /\ \A j \in 1..(n - 1) : t[j] = rest[j]
  BY <1>2, <1>3, <1>4, AppendProperties
<1>6. Len(t) = n /\ t[n] = s[q] /\ DOMAIN t = 1..n
  BY <1>1, <1>5, LenProperties
<1> DEFINE from(j) == IF j = n THEN q ELSE IF j < q THEN j ELSE j + 1
<1>7. ASSUME NEW j \in 1..n
      PROVE  from(j) \in 1..n /\ t[j] = s[from(j)]
  <2>1. CASE j = n
    BY <1>2, <1>6, <2>1
  <2>2. CASE j # n
    <3>1. j \in 1..(n - 1) /\ (j < q => j \in 1..n) /\ j + 1 \in 1..n
      BY <1>1, <2>2
    <3> QED BY <1>3, <1>5, <2>2, <3>1
  <2> QED BY <2>1, <2>2
<1>8. ASSUME NEW a \in 1..n, NEW b \in 1..n, t[a] = t[b]
      PROVE  a = b
  <2>1. from(a) = from(b)
    <3>1. from(a) \in 1..n /\ from(b) \in 1..n /\ s[from(a)] = s[from(b)]
      BY <1>7, <1>8
    <3> HIDE DEF from
    <3> QED BY <1>2, <3>1 DEF IsInjective
  <2> QED BY <1>1, <2>1
<1>9. IsInjective(t)
  BY <1>6, <1>8 DEF IsInjective
<1> QED BY <1>1, <1>3, <1>5, <1>6, <1>9 DEF t

(* The keys by their last call begin with those forgotten, the oldest      *)
(* first, and end with the order of the map.                               *)
RecentOrder ==
  /\ recency \in Seq(Callers) /\ IsInjective(recency)
  /\ Len(order) = Least(MaxKeys, Len(recency))
  /\ \A i \in 1..Len(order) : order[i] = recency[Len(recency) - Len(order) + i]

(* Appending to a recency without its first occurrence of a key moves the  *)
(* key to the end.                                                         *)
LEMMA RecencyFacts ==
  ASSUME RecentOrder, NEW k \in Callers, NEW q \in 1..Len(recency), recency[q] = k
  PROVE  Append(RemoveFirst(recency, k), k) = MovedBack(recency, q)
<1>1. DOMAIN recency = 1..Len(recency) /\ Len(recency) \in Nat
  BY LenProperties DEF RecentOrder
<1>2. {i \in 1..Len(recency) : recency[i] = k} = {q}
  BY <1>1 DEF RecentOrder, IsInjective
<1>3. Min({q}) = q
  <2>1. q \in Int /\ \A x \in {q} : x = q
    OBVIOUS
  <2> QED BY <2>1 DEF Min
<1>4. SelectInSeq(recency, LAMBDA v : v = k) = q
  BY <1>2, <1>3 DEF SelectInSeq
<1> QED BY <1>4 DEF RemoveFirst, MovedBack

(* A call keeps the two orders in step. *)
LEMMA WriteRecent ==
  ASSUME OrderMatches, RecentOrder, NEW k \in Callers, NEW t, Write(k, t)
  PROVE  RecentOrder'
<1> DEFINE L == Len(recency)
           m == Len(order)
<1>1. /\ order \in Seq(Callers) /\ recency \in Seq(Callers) /\ IsInjective(recency)
      /\ DOMAIN order = 1..m /\ DOMAIN recency = 1..L /\ m \in Nat /\ L \in Nat
      /\ MaxKeys \in Nat \ {0}
      /\ m = Least(MaxKeys, L) /\ m <= L /\ m <= MaxKeys
      /\ L = Len(recency) /\ m = Len(order) /\ (m = MaxKeys \/ m = L)
  BY LenProperties, LimitsAssumption DEF OrderMatches, RecentOrder, Least
<1> HIDE DEF L, m
<1>2. /\ order' = OrderAfter(k)
      /\ recency' = Append(RemoveFirst(recency, k), k)
  BY DEF Write
<1>0. /\ m \in Nat /\ L \in Nat /\ MaxKeys \in Nat /\ 1 <= MaxKeys /\ m <= L
      /\ (m = MaxKeys \/ (m = L /\ L <= MaxKeys))
  <2>1. m \in Nat /\ L \in Nat /\ MaxKeys \in Nat /\ 1 <= MaxKeys /\ m = Least(MaxKeys, L)
    BY <1>1, LimitsAssumption
  <2> QED BY <2>1 DEF Least
<1>3. \A i \in 1..m : order[i] = recency[L - m + i] /\ L - m + i \in 1..L
  BY <1>1 DEF RecentOrder
<1>4. IsInjective(order)
  <2> SUFFICES ASSUME NEW a \in 1..m, NEW b \in 1..m, order[a] = order[b] PROVE a = b
    BY <1>1 DEF IsInjective
  <2>1. recency[L - m + a] = recency[L - m + b] /\ L - m + a \in 1..L /\ L - m + b \in 1..L
    BY <1>3
  <2>2. L - m + a = L - m + b
    BY <1>1, <2>1 DEF RecentOrder, IsInjective
  <2> QED BY <1>1, <2>2
<1>5. CASE k \in Tracked
  <2>1. PICK p \in 1..m : order[p] = k
    BY <1>1, <1>5 DEF OrderMatches, ToSet
  <2>2. Place(k) = p
    BY <1>1, <1>4, <2>1 DEF Place, IsInjective
  <2> DEFINE q == L - m + p
  <2>3. q \in 1..L /\ recency[q] = k
    BY <1>3, <2>1
  <2>4. order' = MovedBack(order, p)
    BY <1>2, <1>5, <2>1, <2>2 DEF OrderAfter, MovedToEnd, MovedBack
  <2>5. recency' = MovedBack(recency, q)
    BY <1>1, <1>2, <2>3, RecencyFacts
  <2>6. /\ order' \in Seq(Callers) /\ Len(order') = m /\ order'[m] = k
        /\ \A j \in 1..(m - 1) : order'[j] = IF j < p THEN order[j] ELSE order[j + 1]
    <3>1. p \in Nat /\ 1 <= p /\ p <= Len(order)
      BY <1>1
    <3>2. /\ MovedBack(order, p) \in Seq(Callers) /\ Len(MovedBack(order, p)) = Len(order)
          /\ MovedBack(order, p)[Len(order)] = order[p]
          /\ \A j \in 1..(Len(order) - 1) :
               MovedBack(order, p)[j] = IF j < p THEN order[j] ELSE order[j + 1]
      BY <1>1, <1>4, <3>1, MovedToTheEnd
    <3> QED BY <1>1, <2>1, <2>4, <3>2
  <2>7. /\ recency' \in Seq(Callers) /\ IsInjective(recency') /\ Len(recency') = L /\ recency'[L] = k
        /\ \A j \in 1..(L - 1) : recency'[j] = IF j < q THEN recency[j] ELSE recency[j + 1]
    <3>1. q \in Nat /\ 1 <= q /\ q <= Len(recency)
      BY <1>1, <2>3
    <3> HIDE DEF q
    <3>2. /\ MovedBack(recency, q) \in Seq(Callers) /\ IsInjective(MovedBack(recency, q))
          /\ Len(MovedBack(recency, q)) = Len(recency) /\ MovedBack(recency, q)[Len(recency)] = recency[q]
          /\ \A j \in 1..(Len(recency) - 1) :
               MovedBack(recency, q)[j] = IF j < q THEN recency[j] ELSE recency[j + 1]
      BY <1>1, <3>1, MovedToTheEnd
    <3> QED BY <1>1, <2>3, <2>5, <3>2
  <2>8. ASSUME NEW i \in 1..m PROVE order'[i] = recency'[L - m + i]
    <3>1. CASE i = m
      BY <1>1, <2>6, <2>7, <3>1
    <3>2. CASE i < m
      <4>1. /\ i \in 1..(m - 1) /\ i + 1 \in 1..m /\ L - m + i \in 1..(L - 1)
            /\ L - m + i + 1 = L - m + (i + 1)
            /\ (i < p <=> L - m + i < q)
        BY <1>0, <3>2
      <4>2. order[i] = recency[L - m + i] /\ order[i + 1] = recency[L - m + (i + 1)]
        BY <1>3, <4>1
      <4> HIDE DEF q
      <4> QED BY <2>6, <2>7, <4>1, <4>2
    <3> QED BY <1>1, <3>1, <3>2
  <2> QED BY <1>1, <2>6, <2>7, <2>8 DEF RecentOrder
<1>6. CASE k \notin Tracked /\ \E q \in 1..L : recency[q] = k
  <2>1. PICK q \in 1..L : recency[q] = k
    BY <1>6
  <2>2. ~(L - m < q)
    <3> SUFFICES ASSUME L - m < q PROVE FALSE
      OBVIOUS
    <3>1. q - (L - m) \in 1..m /\ L - m + (q - (L - m)) = q
      BY <1>0
    <3>2. order[q - (L - m)] = k
      BY <1>3, <2>1, <3>1
    <3> QED BY <1>1, <1>6, <3>1, <3>2 DEF OrderMatches, ToSet
  <2>3. m = MaxKeys /\ 1 <= m
    BY <1>0, <2>2
  <2>4. recency' = MovedBack(recency, q)
    BY <1>1, <1>2, <2>1, RecencyFacts
  <2>5. /\ recency' \in Seq(Callers) /\ IsInjective(recency') /\ Len(recency') = L /\ recency'[L] = k
        /\ \A j \in 1..(L - 1) : recency'[j] = IF j < q THEN recency[j] ELSE recency[j + 1]
    <3>1. q \in Nat /\ 1 <= q /\ q <= Len(recency)
      BY <1>1
    <3>2. /\ MovedBack(recency, q) \in Seq(Callers) /\ IsInjective(MovedBack(recency, q))
          /\ Len(MovedBack(recency, q)) = Len(recency) /\ MovedBack(recency, q)[Len(recency)] = recency[q]
          /\ \A j \in 1..(Len(recency) - 1) :
               MovedBack(recency, q)[j] = IF j < q THEN recency[j] ELSE recency[j + 1]
      BY <1>1, <3>1, MovedToTheEnd
    <3> QED BY <1>1, <2>1, <2>4, <3>2
  <2> DEFINE rest == Tail(order)
  <2>6. order' = Append(rest, k)
    BY <1>1, <1>2, <1>6, <2>3 DEF OrderAfter
  <2>7. /\ rest \in Seq(Callers) /\ Len(rest) = m - 1
        /\ \A i \in 1..(m - 1) : rest[i] = order[i + 1]
    <3>1. order # << >>
      BY <1>1, <2>3, EmptySeq
    <3> QED BY <1>1, <3>1, HeadTailProperties
  <2> HIDE DEF rest
  <2>8. /\ Len(order') = m /\ order'[m] = k
        /\ \A i \in 1..(m - 1) : order'[i] = order[i + 1]
    BY <1>1, <2>3, <2>6, <2>7, AppendProperties
  <2>9. ASSUME NEW i \in 1..m PROVE order'[i] = recency'[L - m + i]
    <3>1. CASE i = m
      BY <1>1, <2>5, <2>8, <3>1
    <3>2. CASE i < m
      <4>1. /\ i \in 1..(m - 1) /\ i + 1 \in 1..m /\ L - m + i \in 1..(L - 1)
            /\ L - m + i + 1 = L - m + (i + 1) /\ ~(L - m + i < q)
        BY <1>0, <2>2, <3>2
      <4>2. order[i + 1] = recency[L - m + (i + 1)]
        BY <1>3, <4>1
      <4> QED BY <2>5, <2>8, <4>1, <4>2
    <3> QED BY <1>1, <3>1, <3>2
  <2> QED BY <1>1, <2>5, <2>8, <2>9 DEF RecentOrder
<1>7. CASE k \notin Tracked /\ ~\E q \in 1..L : recency[q] = k
  <2>1. recency' = Append(recency, k)
    BY <1>1, <1>2, <1>7 DEF RemoveFirst
  <2>2. /\ recency' \in Seq(Callers) /\ Len(recency') = L + 1 /\ recency'[L + 1] = k
        /\ \A j \in 1..L : recency'[j] = recency[j]
    BY <1>1, <2>1, AppendProperties
  <2>3. IsInjective(recency')
    <3>1. DOMAIN recency' = 1..(L + 1)
      BY <2>2, LenProperties
    <3> SUFFICES ASSUME NEW a \in 1..(L + 1), NEW b \in 1..(L + 1), recency'[a] = recency'[b]
                 PROVE  a = b
      BY <3>1 DEF IsInjective
    <3>2. CASE a \in 1..L /\ b \in 1..L
      BY <1>1, <2>2, <3>2 DEF RecentOrder, IsInjective
    <3>3. CASE ~(a \in 1..L /\ b \in 1..L)
      BY <1>1, <1>7, <2>2, <3>3
    <3> QED BY <3>2, <3>3
  <2>4. CASE m >= MaxKeys
    <3> DEFINE rest == Tail(order)
    <3>1. order' = Append(rest, k)
      BY <1>1, <1>2, <1>7, <2>4 DEF OrderAfter
    <3>2. /\ rest \in Seq(Callers) /\ Len(rest) = m - 1
          /\ \A i \in 1..(m - 1) : rest[i] = order[i + 1]
      <4>1. order # << >>
        BY <1>1, <2>4, EmptySeq
      <4> QED BY <1>1, <4>1, HeadTailProperties
    <3> HIDE DEF rest
    <3>3. /\ Len(order') = m /\ order'[m] = k
          /\ \A i \in 1..(m - 1) : order'[i] = order[i + 1]
      BY <1>1, <2>4, <3>1, <3>2, AppendProperties
    <3>4. ASSUME NEW i \in 1..m PROVE order'[i] = recency'[L + 1 - m + i]
      <4>1. CASE i = m
        BY <1>0, <2>2, <3>3, <4>1
      <4>2. CASE i < m
        <5>1. /\ i \in 1..(m - 1) /\ i + 1 \in 1..m /\ L - m + (i + 1) \in 1..L
              /\ L + 1 - m + i = L - m + (i + 1)
          BY <1>0, <4>2
        <5>2. order[i + 1] = recency[L - m + (i + 1)]
          BY <1>3, <5>1
        <5> QED BY <2>2, <3>3, <5>1, <5>2
      <4> QED BY <1>1, <4>1, <4>2
    <3>5. m = Least(MaxKeys, L + 1)
      BY <1>0, <2>4 DEF Least
    <3>6. /\ Len(recency') = L + 1 /\ Len(order') = m
          /\ \A i \in 1..m : order'[i] = recency'[L + 1 - m + i]
      BY <2>2, <3>3, <3>4
    <3>7. Len(order') = Least(MaxKeys, Len(recency'))
      BY <3>5, <3>6
    <3>8. \A i \in 1..Len(order') : order'[i] = recency'[Len(recency') - Len(order') + i]
      <4>1. \A i \in 1..m : Len(recency') - Len(order') + i = L + 1 - m + i
        BY <1>0, <3>6
      <4>2. Len(order') = m /\ \A i \in 1..m : order'[i] = recency'[L + 1 - m + i]
        BY <3>6
      <4> QED BY <4>1, <4>2
    <3> QED BY <2>2, <2>3, <3>7, <3>8 DEF RecentOrder
  <2>5. CASE ~(m >= MaxKeys)
    <3>1. m = L /\ m + 1 = Least(MaxKeys, L + 1)
      BY <1>0, <2>5 DEF Least
    <3>2. order' = Append(order, k)
      BY <1>1, <1>2, <1>7, <2>5 DEF OrderAfter
    <3>3. /\ Len(order') = m + 1 /\ order'[m + 1] = k
          /\ \A i \in 1..m : order'[i] = order[i]
      BY <1>1, <3>2, AppendProperties
    <3>4. ASSUME NEW i \in 1..(m + 1)
          PROVE  order'[i] = recency'[i] /\ (L + 1) - (m + 1) + i = i
      BY <1>0, <1>3, <2>2, <3>1, <3>3
    <3> QED BY <1>1, <2>2, <2>3, <3>1, <3>3, <3>4 DEF RecentOrder
  <2> QED BY <2>4, <2>5
<1> QED BY <1>5, <1>6, <1>7

-----------------------------------------------------------------------------
(* Preservation of the invariant. *)

(* The limiter starts in the invariant. *)
LEMMA InitIInv == Init => IInv
<1> SUFFICES ASSUME Init
             PROVE  IInv
  OBVIOUS
<1>1. Tracked = {} /\ ToSet(order) = {} /\ order \in Seq(Callers)
  BY EmptySeq DEF Init, Tracked, ToSet
<1> QED
  BY <1>1 DEF Init, IInv, TypeOK, OrderMatches, RateBalance, PromiseFunded, NoPromise

(* What a bucket holds when a call finds it: never more than a full one,   *)
(* nor than it held plus what came in since.                               *)
LEMMA PresentFacts ==
  ASSUME IInv, NEW k \in Callers
  PROVE  /\ Present(k) \in 0..Full
         /\ k \in Tracked =>
              /\ Present(k) <= buckets[k].tokens + Refill(buckets[k].updatedAt, now)
              /\ \/ Present(k) = Full
                 \/ Present(k) = buckets[k].tokens + Refill(buckets[k].updatedAt, now)
         /\ k \notin Tracked => Present(k) = Full
<1>1. CASE k \notin Tracked
  BY <1>1, FullIsEnough DEF Present
<1>2. CASE k \in Tracked
  <2>1. buckets[k].tokens \in 0..Full /\ buckets[k].updatedAt \in Nat /\ now \in Nat
    BY <1>2 DEF IInv, TypeOK
  <2>2. Refill(buckets[k].updatedAt, now) \in Nat
    BY <2>1, RefillFacts
  <2>3. Present(k) = Least(Full, buckets[k].tokens + Refill(buckets[k].updatedAt, now))
    BY <1>2 DEF Present, Refilled, Refill
  <2> QED
    BY <1>2, <2>1, <2>2, <2>3, FullIsEnough DEF Least
<1> QED
  BY <1>1, <1>2

(* Writing a bucket back: the keys tracked, and what a call leaves alone.  *)
LEMMA WriteFacts ==
  ASSUME IInv, NEW k \in Callers, NEW t \in 0..Full, Write(k, t)
  PROVE  /\ OrderMatches'
         /\ k \in Tracked' /\ Tracked' \subseteq Tracked \cup {k} /\ Tracked' \subseteq Callers
         /\ buckets'[k].tokens = t /\ buckets'[k].updatedAt = now
         /\ \A j \in Tracked' \ {k} : buckets'[j] = buckets[j]
         /\ elapsed' = [j \in Callers |-> IF j \in Tracked \cap Tracked' THEN elapsed[j] ELSE 0]
         /\ now' = now /\ setBacks' = setBacks
<1>1. /\ OrderAfter(k) \in Seq(Callers)
      /\ k \in ToSet(OrderAfter(k))
      /\ ToSet(OrderAfter(k)) \subseteq Tracked \cup {k}
  BY OrderAfterFacts DEF IInv
<1>2. /\ order' = OrderAfter(k)
      /\ buckets' = [j \in ToSet(OrderAfter(k)) |->
                       IF j = k THEN [tokens |-> t, updatedAt |-> now] ELSE buckets[j]]
  BY DEF Write
<1>3. Tracked' = ToSet(OrderAfter(k))
  BY <1>2 DEF Tracked
<1>4. OrderMatches'
  BY <1>1, <1>2, <1>3 DEF OrderMatches
<1>5. Tracked \subseteq Callers
  BY DEF IInv, TypeOK
<1> QED
  BY <1>1, <1>2, <1>3, <1>4, <1>5 DEF Write

(* Products of the history's counters are integers. *)
LEMMA CountersType ==
  ASSUME TypeOK, NEW j \in Callers
  PROVE  /\ admitted[j] \in Nat /\ elapsed[j] \in Nat
         /\ admitted[j] * Window \in Nat /\ elapsed[j] * Capacity \in Nat
<1>1. admitted[j] \in Nat /\ elapsed[j] \in Nat
  BY DEF TypeOK
<1>2. admitted[j] * Window \in Nat
  BY <1>1, LimitsAssumption
<1>3. elapsed[j] * Capacity \in Nat
  BY <1>1, LimitsAssumption
<1> QED
  BY <1>1, <1>2, <1>3

(* A call let through: it is paid for out of what the bucket holds. *)
LEMMA AllowIInv ==
  ASSUME IInv, NEW k \in Callers, Allow(k)
  PROVE  IInv'
<1> DEFINE t == Present(k) - Window
<1>1. Present(k) \in 0..Full /\ t \in 0..Full /\ Full \in Nat
  BY PresentFacts, FullIsEnough, LimitsAssumption DEF Allow
<1>2. /\ OrderMatches'
      /\ k \in Tracked' /\ Tracked' \subseteq Tracked \cup {k} /\ Tracked' \subseteq Callers
      /\ buckets'[k].tokens = t /\ buckets'[k].updatedAt = now
      /\ \A j \in Tracked' \ {k} : buckets'[j] = buckets[j]
      /\ elapsed' = [j \in Callers |-> IF j \in Tracked \cap Tracked' THEN elapsed[j] ELSE 0]
      /\ now' = now /\ setBacks' = setBacks
  BY <1>1, WriteFacts DEF Allow
<1>3. admitted' = [j \in Callers |->
                    (IF j \in Tracked \cap Tracked' THEN admitted[j] ELSE 0)
                    + (IF j = k THEN 1 ELSE 0)]
      /\ promise' = [promise EXCEPT ![k] = NoPromise]
  BY DEF Allow
<1>4. TypeOK'
  BY <1>1, <1>2, <1>3 DEF IInv, TypeOK
<1>5. RateBalance'
  <2> SUFFICES ASSUME NEW j \in Tracked'
               PROVE  buckets'[j].tokens + Refill(buckets'[j].updatedAt, now)
                        + admitted'[j] * Window <= Full + elapsed'[j] * Capacity
    BY <1>2 DEF RateBalance, Refill, Full
  <2>1. CASE j = k /\ k \in Tracked
    <3> DEFINE held == buckets[k].tokens + Refill(buckets[k].updatedAt, now)
    <3>1. admitted'[k] = admitted[k] + 1 /\ elapsed'[k] = elapsed[k]
      BY <1>2, <1>3, <2>1 DEF IInv, TypeOK
    <3>2. (admitted[k] + 1) * Window = admitted[k] * Window + Window
      BY StepOfProduct, CountersType, LimitsAssumption DEF IInv
    <3>3. held + admitted[k] * Window <= Full + elapsed[k] * Capacity /\ Present(k) <= held
      BY <2>1, PresentFacts DEF IInv, RateBalance
    <3>4. Refill(now, now) = 0
      BY RefillFacts DEF IInv, TypeOK
    <3>5. admitted[k] * Window \in Nat /\ elapsed[k] * Capacity \in Nat
      BY CountersType DEF IInv
    <3>6. held \in Nat
      <4>1. buckets[k].tokens \in Nat /\ buckets[k].updatedAt \in Nat /\ now \in Nat
        BY <2>1, FullIsEnough DEF IInv, TypeOK
      <4>2. Refill(buckets[k].updatedAt, now) \in Nat
        BY <4>1, RefillFacts
      <4> QED
        BY <4>1, <4>2
    <3> HIDE DEF held
    <3> QED
      BY <1>1, <1>2, <2>1, <3>1, <3>2, <3>3, <3>4, <3>5, <3>6, LimitsAssumption
  <2>2. CASE j = k /\ k \notin Tracked
    <3>1. admitted'[k] = 1 /\ elapsed'[k] = 0
      BY <1>2, <1>3, <2>2
    <3>2. Refill(now, now) = 0 /\ Present(k) = Full
      BY <2>2, RefillFacts, PresentFacts DEF IInv, TypeOK
    <3> QED
      BY <1>1, <1>2, <2>2, <3>1, <3>2, LimitsAssumption
  <2>3. CASE j # k
    <3>1. j \in Tracked /\ j \in Callers
      BY <1>2, <2>3
    <3>2. admitted'[j] = admitted[j] /\ elapsed'[j] = elapsed[j]
      BY <1>2, <1>3, <2>3, <3>1, CountersType DEF IInv
    <3> QED
      BY <1>2, <2>3, <3>1, <3>2 DEF IInv, RateBalance
  <2> QED
    BY <2>1, <2>2, <2>3
<1>6. PromiseFunded'
  BY <1>2, <1>3 DEF IInv, TypeOK, PromiseFunded, Refill, NoPromise
<1> QED
  BY <1>2, <1>4, <1>5, <1>6 DEF IInv

(* Whole seconds until a token is there: enough of them. *)
LEMMA RetryAfterCovers ==
  ASSUME NEW t \in Nat, t < Window
  PROVE  /\ RetryAfter(t) \in Nat
         /\ Window <= t + (RetryAfter(t) * TicksPerSecond) * Capacity
<1> DEFINE rate == Capacity * TicksPerSecond
           n == Ceiling(Window - t, rate)
<1>1. rate \in Nat \ {0} /\ Window - t \in Nat
  BY LimitsAssumption
<1>2. n \in Int /\ Window - t <= n * rate
  BY <1>1, CeilingCovers
<1>3. RetryAfter(t) = Greatest(1, n)
  BY DEF RetryAfter
<1> HIDE DEF n
<1>4. RetryAfter(t) \in Nat /\ n <= RetryAfter(t)
  BY <1>2, <1>3 DEF Greatest
<1>5. n * rate <= RetryAfter(t) * rate
  BY <1>1, <1>2, <1>4, ProductMonotonic
<1>6. RetryAfter(t) * rate = (RetryAfter(t) * TicksPerSecond) * Capacity
  BY <1>4, LimitsAssumption
<1>7. RetryAfter(t) * rate \in Nat /\ n * rate \in Int
  BY <1>1, <1>2, <1>4
<1> QED
  BY <1>1, <1>2, <1>4, <1>5, <1>6, <1>7, LimitsAssumption

(* A refusal changes no balance; it promises what the bucket can keep.     *)
LEMMA DenyIInv ==
  ASSUME IInv, NEW k \in Callers, Deny(k)
  PROVE  IInv'
<1> DEFINE t == Present(k)
<1>1. t \in 0..Full /\ t < Window /\ k \in Tracked
  BY PresentFacts, FullIsEnough, LimitsAssumption DEF Deny
<1>2. /\ OrderMatches'
      /\ k \in Tracked' /\ Tracked' \subseteq Tracked \cup {k} /\ Tracked' \subseteq Callers
      /\ buckets'[k].tokens = t /\ buckets'[k].updatedAt = now
      /\ \A j \in Tracked' \ {k} : buckets'[j] = buckets[j]
      /\ elapsed' = [j \in Callers |-> IF j \in Tracked \cap Tracked' THEN elapsed[j] ELSE 0]
      /\ now' = now /\ setBacks' = setBacks
  BY <1>1, WriteFacts DEF Deny
<1>3. /\ admitted' = admitted
      /\ promise' = [promise EXCEPT ![k] = IF @ = NoPromise THEN ServedBy(k)
                                           ELSE Least(@, ServedBy(k))]
  BY DEF Deny
<1>4. /\ buckets[k].tokens \in 0..Full /\ buckets[k].updatedAt \in Nat /\ now \in Nat
      /\ promise[k] \in Nat \cup {NoPromise}
  BY <1>1 DEF IInv, TypeOK
<1>5. RetryAfter(t) \in Nat /\ ServedBy(k) \in Nat /\ now <= ServedBy(k)
      /\ Window <= t + (RetryAfter(t) * TicksPerSecond) * Capacity
  <2>1. RetryAfter(t) \in Nat /\ Window <= t + (RetryAfter(t) * TicksPerSecond) * Capacity
    BY <1>1, FullIsEnough, RetryAfterCovers
  <2>2. RetryAfter(t) * TicksPerSecond \in Nat
    BY <2>1, LimitsAssumption
  <2> QED
    BY <1>4, <2>1, <2>2 DEF ServedBy
<1>6. /\ promise'[k] \in Nat
      /\ \/ promise'[k] = ServedBy(k)
         \/ promise[k] # NoPromise /\ promise'[k] = promise[k]
  BY <1>3, <1>4, <1>5 DEF Least, IInv, TypeOK
<1>7. TypeOK'
  <2>1. promise' \in [Callers -> Nat \cup {NoPromise}]
    BY <1>3, <1>6 DEF IInv, TypeOK
  <2> QED
    BY <1>1, <1>2, <1>3, <2>1 DEF IInv, TypeOK
<1>8. RateBalance'
  <2> SUFFICES ASSUME NEW j \in Tracked'
               PROVE  buckets'[j].tokens + Refill(buckets'[j].updatedAt, now)
                        + admitted[j] * Window <= Full + elapsed'[j] * Capacity
    BY <1>2, <1>3 DEF RateBalance, Refill, Full
  <2>1. j \in Tracked /\ j \in Callers /\ elapsed'[j] = elapsed[j]
    BY <1>1, <1>2
  <2>2. CASE j = k
    <3>1. /\ t <= buckets[k].tokens + Refill(buckets[k].updatedAt, now)
          /\ buckets[k].tokens + Refill(buckets[k].updatedAt, now) + admitted[k] * Window
               <= Full + elapsed[k] * Capacity
      BY <1>1, PresentFacts DEF IInv, RateBalance
    <3>2. Refill(now, now) = 0 /\ Refill(buckets[k].updatedAt, now) \in Nat
      BY <1>4, RefillFacts
    <3>3. admitted[k] * Window \in Nat /\ elapsed[k] * Capacity \in Nat
      BY CountersType DEF IInv
    <3> QED
      BY <1>1, <1>2, <1>4, <2>1, <2>2, <3>1, <3>2, <3>3, FullIsEnough
  <2>3. CASE j # k
    BY <1>2, <2>1, <2>3 DEF IInv, RateBalance
  <2> QED
    BY <2>2, <2>3
<1>9. PromiseFunded'
  <2> SUFFICES ASSUME NEW j \in Tracked', promise'[j] # NoPromise
               PROVE  /\ buckets'[j].updatedAt <= now
                      /\ Window <= buckets'[j].tokens + Refill(buckets'[j].updatedAt, promise'[j])
    BY <1>2 DEF PromiseFunded, Refill
  <2>1. CASE j # k
    BY <1>2, <1>3, <2>1 DEF IInv, TypeOK, PromiseFunded
  <2>2. CASE j = k /\ promise'[k] = ServedBy(k)
    <3>1. Refill(now, ServedBy(k)) = (RetryAfter(t) * TicksPerSecond) * Capacity
      <4>1. RetryAfter(t) * TicksPerSecond \in Nat
        BY <1>5, LimitsAssumption
      <4>2. Greatest(0, ServedBy(k) - now) = RetryAfter(t) * TicksPerSecond
        BY <1>4, <4>1 DEF Greatest, ServedBy
      <4> QED
        BY <4>2 DEF Refill
    <3> QED
      BY <1>2, <1>4, <1>5, <2>2, <3>1
  <2>3. CASE j = k /\ promise[k] # NoPromise /\ promise'[k] = promise[k]
    <3>1. /\ buckets[k].updatedAt <= now
          /\ Window <= buckets[k].tokens + Refill(buckets[k].updatedAt, promise[k])
      BY <1>1, <2>3 DEF IInv, PromiseFunded
    <3>2. t = buckets[k].tokens + Refill(buckets[k].updatedAt, now)
      <4>1. t = Full \/ t = buckets[k].tokens + Refill(buckets[k].updatedAt, now)
        BY <1>1, PresentFacts
      <4>2. t # Full
        BY <1>1, FullIsEnough, LimitsAssumption
      <4> QED
        BY <4>1, <4>2
    <3>3. promise[k] \in Nat
      BY <1>4, <2>3
    <3>4. now <= promise[k]
      <4> SUFFICES ASSUME ~(now <= promise[k])
                   PROVE  FALSE
        OBVIOUS
      <4>1. Refill(buckets[k].updatedAt, promise[k]) <= Refill(buckets[k].updatedAt, now)
        <5>1. promise[k] <= now /\ now \in Nat /\ buckets[k].updatedAt \in Nat
          BY <1>4, <3>3
        <5> QED
          BY <3>3, <5>1, RefillFacts
      <4>2. /\ Refill(buckets[k].updatedAt, promise[k]) \in Nat
            /\ Refill(buckets[k].updatedAt, now) \in Nat
        BY <1>4, <3>3, RefillFacts
      <4> QED
        BY <1>1, <1>4, <3>1, <3>2, <4>1, <4>2, LimitsAssumption
    <3>5. Refill(buckets[k].updatedAt, promise[k])
            = Refill(buckets[k].updatedAt, now) + Refill(now, promise[k])
      BY <1>4, <3>1, <3>3, <3>4, RefillAdds
    <3>6. /\ Refill(buckets[k].updatedAt, now) \in Nat
          /\ Refill(now, promise[k]) \in Nat
      BY <1>4, <3>3, RefillFacts
    <3> QED
      BY <1>2, <1>4, <2>3, <3>1, <3>2, <3>5, <3>6, LimitsAssumption
  <2> QED
    BY <1>6, <2>1, <2>2, <2>3
<1> QED
  BY <1>2, <1>7, <1>8, <1>9 DEF IInv

(* The clock advances: what comes in is what the elapsed ticks allow. *)
LEMMA TickIInv ==
  ASSUME IInv, Tick
  PROVE  IInv'
<1>1. /\ now' = now + 1 /\ now \in Nat /\ UNCHANGED <<buckets, order, admitted, promise>>
      /\ elapsed' = [k \in Callers |-> IF k \in Tracked THEN elapsed[k] + 1 ELSE elapsed[k]]
      /\ Tracked' = Tracked /\ Tracked \subseteq Callers
  BY DEF IInv, TypeOK, Tick, limiterVars, Tracked
<1>2. TypeOK' /\ OrderMatches'
  BY <1>1 DEF IInv, TypeOK, OrderMatches, Tick, Full, Tracked
<1>3. RateBalance'
  <2> SUFFICES ASSUME NEW k \in Tracked
               PROVE  buckets[k].tokens + Refill(buckets[k].updatedAt, now + 1)
                        + admitted[k] * Window <= Full + (elapsed[k] + 1) * Capacity
    BY <1>1 DEF RateBalance, Refill, Full
  <2>1. /\ buckets[k].tokens \in 0..Full /\ buckets[k].updatedAt \in Nat /\ elapsed[k] \in Nat
        /\ admitted[k] * Window \in Nat /\ elapsed[k] * Capacity \in Nat
    BY <1>1, CountersType DEF IInv, TypeOK
  <2>2. (elapsed[k] + 1) * Capacity = elapsed[k] * Capacity + Capacity
    BY <2>1, StepOfProduct, LimitsAssumption
  <2>3. /\ Refill(buckets[k].updatedAt, now + 1) <= Refill(buckets[k].updatedAt, now) + Capacity
        /\ Refill(buckets[k].updatedAt, now + 1) \in Nat
        /\ Refill(buckets[k].updatedAt, now) \in Nat
    <3>1. now \in Nat /\ now + 1 \in Nat
      BY <1>1
    <3>2. Refill(buckets[k].updatedAt, now + 1) \in Nat
      BY <2>1, <3>1, RefillFacts
    <3> QED
      BY <2>1, <3>1, <3>2, RefillFacts
  <2>4. buckets[k].tokens + Refill(buckets[k].updatedAt, now) + admitted[k] * Window
          <= Full + elapsed[k] * Capacity
    BY DEF IInv, RateBalance
  <2> QED
    BY <2>1, <2>2, <2>3, <2>4, FullIsEnough, LimitsAssumption
<1>4. PromiseFunded'
  BY <1>1 DEF IInv, TypeOK, PromiseFunded, Refill, Tracked
<1> QED
  BY <1>2, <1>3, <1>4 DEF IInv

(* The clock is set back: what comes in can only shrink. *)
LEMMA SetBackIInv ==
  ASSUME IInv, SetBack
  PROVE  IInv'
<1>1. /\ now' \in Nat /\ now' <= now /\ now \in Nat /\ UNCHANGED <<buckets, order, admitted, elapsed>>
      /\ promise' = [k \in Callers |-> NoPromise]
      /\ Tracked' = Tracked /\ Tracked \subseteq Callers
  BY DEF IInv, TypeOK, SetBack, limiterVars, Tracked
<1>2. TypeOK' /\ OrderMatches'
  BY <1>1 DEF IInv, TypeOK, OrderMatches, SetBack, Full, Tracked
<1>3. RateBalance'
  <2> SUFFICES ASSUME NEW k \in Tracked
               PROVE  buckets[k].tokens + Refill(buckets[k].updatedAt, now')
                        + admitted[k] * Window <= Full + elapsed[k] * Capacity
    BY <1>1 DEF RateBalance, Refill, Full
  <2>1. buckets[k].tokens \in 0..Full /\ buckets[k].updatedAt \in Nat
        /\ admitted[k] * Window \in Nat /\ elapsed[k] * Capacity \in Nat
    BY <1>1, CountersType DEF IInv, TypeOK
  <2>2. /\ Refill(buckets[k].updatedAt, now') <= Refill(buckets[k].updatedAt, now)
        /\ Refill(buckets[k].updatedAt, now') \in Nat
        /\ Refill(buckets[k].updatedAt, now) \in Nat
    BY <1>1, <2>1, RefillFacts
  <2>3. buckets[k].tokens + Refill(buckets[k].updatedAt, now) + admitted[k] * Window
          <= Full + elapsed[k] * Capacity
    BY DEF IInv, RateBalance
  <2> QED
    BY <2>1, <2>2, <2>3, FullIsEnough
<1>4. PromiseFunded'
  BY <1>1 DEF PromiseFunded, NoPromise
<1> QED
  BY <1>2, <1>3, <1>4 DEF IInv

-----------------------------------------------------------------------------
(* The theorems. *)

(* The strengthened invariant holds throughout. *)
THEOREM Invariance == Spec => []IInv
<1>1. ASSUME IInv, [Next]_vars
      PROVE  IInv'
  <2>1. CASE \E k \in Callers : Allow(k) \/ Deny(k)
    BY <1>1, <2>1, AllowIInv, DenyIInv
  <2>2. CASE Tick
    BY <1>1, <2>2, TickIInv
  <2>3. CASE SetBack
    BY <1>1, <2>3, SetBackIInv
  <2>4. CASE UNCHANGED vars
    BY <1>1, <2>4 DEF vars, IInv, TypeOK, OrderMatches, RateBalance, PromiseFunded,
                      Refill, Tracked, Full
  <2> QED
    BY <1>1, <2>1, <2>2, <2>3, <2>4 DEF Next
<1> QED
  BY <1>1, InitIInv, PTL DEF Spec

(* Type correctness (ratelimit.py:24-27, 57-84). *)
THEOREM TypeCorrect == Spec => []TypeOK
<1>1. IInv => TypeOK
  BY DEF IInv
<1> QED
  BY <1>1, Invariance, PTL

(* No key is admitted more than the rate allows, for every rate, number of *)
(* keys and pattern of calls, with the clock set back as often as it may.  *)
THEOREM RateBounded == Spec => []NoMoreThanTheRate
<1>1. IInv => NoMoreThanTheRate
  <2> SUFFICES ASSUME IInv, NEW k \in Tracked
               PROVE  admitted[k] * Window <= Full + elapsed[k] * Capacity
    BY DEF NoMoreThanTheRate
  <2>1. buckets[k].tokens \in 0..Full /\ Refill(buckets[k].updatedAt, now) \in Nat
    BY RefillFacts DEF IInv, TypeOK
  <2>2. admitted[k] * Window \in Nat /\ elapsed[k] * Capacity \in Nat
    BY CountersType DEF IInv, TypeOK
  <2> QED
    BY <2>1, <2>2, FullIsEnough DEF IInv, RateBalance
<1> QED
  BY <1>1, Invariance, PTL

(* Retry-After is honoured: whoever waits as long as told is served.       *)
THEOREM RetryHonoured == Spec => []RetryAfterIsHonest
<1>1. IInv => RetryAfterIsHonest
  <2> SUFFICES ASSUME IInv, NEW k \in Callers, promise[k] # NoPromise, now >= promise[k]
               PROVE  Present(k) >= Window
    BY DEF RetryAfterIsHonest
  <2>1. CASE k \notin Tracked
    BY <2>1, PresentFacts, FullIsEnough, LimitsAssumption
  <2>2. CASE k \in Tracked
    <3>1. /\ buckets[k].tokens \in 0..Full /\ buckets[k].updatedAt \in Nat /\ now \in Nat
          /\ promise[k] \in Nat
      BY <2>2 DEF IInv, TypeOK
    <3>2. Window <= buckets[k].tokens + Refill(buckets[k].updatedAt, promise[k])
      BY <2>2 DEF IInv, PromiseFunded
    <3>3. /\ Refill(buckets[k].updatedAt, promise[k]) <= Refill(buckets[k].updatedAt, now)
          /\ Refill(buckets[k].updatedAt, promise[k]) \in Nat
          /\ Refill(buckets[k].updatedAt, now) \in Nat
      BY <3>1, RefillFacts
    <3>4. \/ Present(k) = Full
          \/ Present(k) = buckets[k].tokens + Refill(buckets[k].updatedAt, now)
      BY <2>2, PresentFacts
    <3> QED
      BY <3>1, <3>2, <3>3, <3>4, FullIsEnough, LimitsAssumption
  <2> QED
    BY <2>1, <2>2
<1> QED
  BY <1>1, Invariance, PTL

(* The limiter remembers exactly the keys that called last, for any number *)
(* of keys and any max_keys (ratelimit.py:67-73, 92-95).                   *)
THEOREM MostRecentKept == Spec => []KeepsTheMostRecentKeys
<1>1. Init => RecentOrder
  <2> SUFFICES ASSUME Init PROVE RecentOrder
    OBVIOUS
  <2>1. recency = << >> /\ order = << >> /\ Len(<< >>) = 0 /\ DOMAIN << >> = {}
    BY EmptySeq DEF Init
  <2>2. recency \in Seq(Callers)
    BY <2>1
  <2>3. Least(MaxKeys, 0) = 0
    BY LimitsAssumption DEF Least
  <2> QED BY <2>1, <2>2, <2>3 DEF RecentOrder, IsInjective
<1>2. IInv /\ RecentOrder /\ [Next]_vars => RecentOrder'
  <2> SUFFICES ASSUME IInv, RecentOrder, [Next]_vars PROVE RecentOrder'
    OBVIOUS
  <2>1. ASSUME NEW k \in Callers, Allow(k) \/ Deny(k) PROVE RecentOrder'
    <3>1. Write(k, Present(k) - Window) \/ Write(k, Present(k))
      BY <2>1 DEF Allow, Deny
    <3> QED BY <3>1, WriteRecent DEF IInv
  <2>2. CASE Tick \/ SetBack \/ UNCHANGED vars
    <3>1. UNCHANGED <<order, recency>>
      BY <2>2 DEF Tick, SetBack, vars, limiterVars
    <3> QED BY <3>1 DEF RecentOrder
  <2> QED BY <2>1, <2>2 DEF Next
<1>3. IInv /\ RecentOrder => KeepsTheMostRecentKeys
  <2> SUFFICES ASSUME IInv, RecentOrder PROVE KeepsTheMostRecentKeys
    OBVIOUS
  <2> DEFINE L == Len(recency)
             m == Len(order)
             last == {n \in 1..L : n > L - MaxKeys}
  <2>1. /\ DOMAIN order = 1..m /\ DOMAIN recency = 1..L /\ m \in Nat /\ L \in Nat
        /\ MaxKeys \in Nat /\ m = Least(MaxKeys, L) /\ L = Len(recency)
        /\ \A i \in 1..m : order[i] = recency[L - m + i]
    BY LenProperties, LimitsAssumption DEF IInv, OrderMatches, RecentOrder
  <2> HIDE DEF L, m
  <2>0. /\ m \in Nat /\ L \in Nat /\ MaxKeys \in Nat /\ m <= L
        /\ (m = MaxKeys \/ (m = L /\ L <= MaxKeys))
    <3>1. m \in Nat /\ L \in Nat /\ MaxKeys \in Nat /\ m = Least(MaxKeys, L)
      BY <2>1
    <3> QED BY <3>1 DEF Least
  <2>2. \A n \in 1..L : n > L - MaxKeys <=> n - (L - m) \in 1..m
    BY <2>0
  <2>3. \A i \in 1..m : L - m + i \in last /\ order[i] = recency[L - m + i]
    <3> TAKE i \in 1..m
    <3>1. L - m + i \in 1..L /\ L - m + i > L - MaxKeys
      BY <2>0
    <3> QED BY <2>1, <3>1
  <2>4. \A n \in last : n - (L - m) \in 1..m /\ recency[n] = order[n - (L - m)]
    <3> TAKE n \in last
    <3>1. n - (L - m) \in 1..m /\ L - m + (n - (L - m)) = n
      BY <2>0, <2>2
    <3> QED BY <2>1, <3>1
  <2>5. {order[i] : i \in 1..m} = {recency[n] : n \in last}
    <3> HIDE DEF last
    <3> QED BY <2>3, <2>4
  <2>6. Tracked = {order[i] : i \in 1..m}
    BY <2>1 DEF IInv, OrderMatches, ToSet, m
  <2> QED BY <2>1, <2>5, <2>6 DEF KeepsTheMostRecentKeys
<1>4. Spec => []RecentOrder
  BY <1>1, <1>2, Invariance, PTL DEF Spec
<1> QED BY <1>3, <1>4, Invariance, PTL

-----------------------------------------------------------------------------
(***************************************************************************)
(* The gate.  A call is a call of the limiter, so RequestGate implements   *)
(* RateLimiter and what is proved above holds behind it.  What a protected *)
(* service spends in all is then tied to the one bucket it has: Account    *)
(* says that nothing else is ever tracked, so that the bucket is never     *)
(* dropped and has counted every call since the service started.           *)
(***************************************************************************)
GateTypes == protected \in BOOLEAN /\ provided \in Nat /\ uptime \in Nat

Account ==
  protected =>
    /\ Tracked \subseteq {Principal}
    /\ Principal \in Tracked => provided <= admitted[Principal] /\ elapsed[Principal] <= uptime
    /\ Principal \notin Tracked => provided = 0

allVars == <<vars, gateVars>>

(* Every request has a bucket; an authorized one of a protected service,   *)
(* the bearer's.                                                           *)
LEMMA BucketFacts ==
  ASSUME NEW q \in Requests
  PROVE  /\ Bucket(q) \in Callers
         /\ protected /\ Charged(q) => Bucket(q) = Principal
<1>1. q \in Request /\ Principal \in Callers
  BY RequestsAssumption
<1>2. q.host \in Callers /\ q.bearer \in BOOLEAN
  BY <1>1 DEF Request
<1> QED
  BY <1>1, <1>2 DEF Bucket, Charged, Authorized

(* A step of the gate is a step of the limiter. *)
LEMMA GateStep ==
  ASSUME [GateNext]_allVars
  PROVE  [Next]_vars
<1>1. ASSUME NEW q \in Requests, Pass(q) \/ Throttle(q)
      PROVE  Next
  <2>1. Allow(Bucket(q)) \/ Deny(Bucket(q))
    BY <1>1 DEF Pass, Throttle
  <2> QED
    BY <2>1, BucketFacts DEF Next
<1>2. CASE GateTick
  BY <1>2 DEF GateTick, Next
<1>3. CASE GateSetBack
  BY <1>3 DEF GateSetBack, Next
<1>4. CASE UNCHANGED allVars
  BY <1>4 DEF allVars
<1> QED
  BY <1>1, <1>2, <1>3, <1>4 DEF GateNext

(* The gate calls the limiter as RateLimiter specifies: what is proved of  *)
(* the limiter by itself holds of the one in the service (main.py:212-218).*)
THEOREM GateImplementsLimiter == GateSpec => Spec
<1>1. GateInit => Init
  BY DEF GateInit
<1>2. [GateNext]_allVars => [Next]_vars
  BY GateStep
<1> QED
  BY <1>1, <1>2, PTL DEF GateSpec, Spec, allVars

-----------------------------------------------------------------------------
(* A call leaves the bearer's bucket tracked, and no other if no other was. *)
LEMMA OnlyThePrincipal ==
  ASSUME IInv, Tracked \subseteq {Principal}, NEW tokens, Write(Principal, tokens)
  PROVE  Tracked' = {Principal}
<1>1. Principal \in Callers
  BY RequestsAssumption
<1>2. /\ Principal \in ToSet(OrderAfter(Principal))
      /\ ToSet(OrderAfter(Principal)) \subseteq Tracked \cup {Principal}
  BY <1>1, OrderAfterFacts DEF IInv
<1>3. Tracked' = ToSet(OrderAfter(Principal))
  BY DEF Write, Tracked
<1> QED
  BY <1>2, <1>3

(* Letting a call through keeps the account. *)
LEMMA PassAccount ==
  ASSUME IInv, GateTypes, Account, NEW q \in Requests, Pass(q)
  PROVE  Account'
<1> SUFFICES ASSUME protected'
             PROVE  Account'
  BY DEF Account
<1>1. protected /\ Charged(q) /\ Allow(Bucket(q)) /\ uptime' = uptime
  BY DEF Pass
<1>2. Allow(Principal) /\ Principal \in Callers
  BY <1>1, BucketFacts
<1>3. Tracked' = {Principal}
  <2>1. Write(Principal, Present(Principal) - Window) /\ Tracked \subseteq {Principal}
    BY <1>1, <1>2 DEF Allow, Account
  <2> QED
    BY <2>1, OnlyThePrincipal
<1>4. provided' \in Nat /\ provided' <= provided + 1
  BY DEF Pass, GateTypes
<1>5. /\ admitted'[Principal] = (IF Principal \in Tracked THEN admitted[Principal] ELSE 0) + 1
      /\ elapsed'[Principal] = IF Principal \in Tracked THEN elapsed[Principal] ELSE 0
  BY <1>2, <1>3 DEF Allow, Write
<1>6. admitted[Principal] \in Nat /\ elapsed[Principal] \in Nat
  BY <1>2 DEF IInv, TypeOK
<1>7. provided' <= admitted'[Principal] /\ elapsed'[Principal] <= uptime'
  <2>1. CASE Principal \in Tracked
    BY <1>1, <1>4, <1>5, <1>6, <2>1 DEF Account, GateTypes
  <2>2. CASE Principal \notin Tracked
    BY <1>1, <1>4, <1>5, <1>6, <2>2 DEF Account, GateTypes
  <2> QED
    BY <2>1, <2>2
<1> QED
  BY <1>3, <1>7 DEF Account

(* So does a refusal: a bucket that is not there is full. *)
LEMMA ThrottleAccount ==
  ASSUME IInv, GateTypes, Account, NEW q \in Requests, Throttle(q)
  PROVE  Account'
<1> SUFFICES ASSUME protected'
             PROVE  Account'
  BY DEF Account
<1>1. protected /\ Charged(q) /\ Deny(Bucket(q)) /\ UNCHANGED <<provided, uptime>>
  BY DEF Throttle, gateVars
<1>2. Deny(Principal) /\ Principal \in Callers
  BY <1>1, BucketFacts
<1>3. Tracked' = {Principal}
  <2>1. Write(Principal, Present(Principal)) /\ Tracked \subseteq {Principal}
    BY <1>1, <1>2 DEF Deny, Account
  <2> QED
    BY <2>1, OnlyThePrincipal
<1>4. Principal \in Tracked
  <2>1. Present(Principal) < Window
    BY <1>2 DEF Deny
  <2>2. Full \in Nat /\ Window <= Full /\ Window \in Nat
    BY FullIsEnough, LimitsAssumption
  <2> QED
    BY <2>1, <2>2 DEF Present
<1>5. UNCHANGED admitted /\ elapsed'[Principal] = elapsed[Principal]
  BY <1>2, <1>3, <1>4 DEF Deny, Write
<1> QED
  BY <1>1, <1>3, <1>4, <1>5 DEF Account

(* The account is kept by every step. *)
LEMMA AccountKept ==
  ASSUME IInv, GateTypes, Account, [GateNext]_allVars
  PROVE  GateTypes' /\ Account'
<1>1. GateTypes'
  BY DEF GateTypes, GateNext, Pass, Throttle, GateTick, GateSetBack, allVars, gateVars
<1>2. ASSUME NEW q \in Requests, Pass(q) \/ Throttle(q)
      PROVE  Account'
  BY <1>2, PassAccount, ThrottleAccount
<1>3. CASE GateTick
  <2>1. /\ UNCHANGED <<buckets, admitted, protected, provided>>
        /\ elapsed' = [k \in Callers |-> IF k \in Tracked THEN elapsed[k] + 1 ELSE elapsed[k]]
        /\ uptime' = IF protected THEN uptime + 1 ELSE uptime
    BY <1>3 DEF GateTick, Tick, limiterVars
  <2>2. Principal \in Callers /\ elapsed[Principal] \in Nat
    BY RequestsAssumption DEF IInv, TypeOK
  <2>3. Tracked' = Tracked
    BY <2>1 DEF Tracked
  <2> QED
    BY <1>1, <2>1, <2>2, <2>3 DEF Account, GateTypes
<1>4. CASE GateSetBack
  <2>1. UNCHANGED <<buckets, admitted, elapsed, protected, provided, uptime>>
    BY <1>4 DEF GateSetBack, SetBack, limiterVars, gateVars
  <2> QED
    BY <1>1, <2>1 DEF Account, Tracked
<1>5. CASE UNCHANGED allVars
  BY <1>1, <1>5 DEF allVars, vars, gateVars, Account, Tracked
<1> QED
  BY <1>1, <1>2, <1>3, <1>4, <1>5 DEF GateNext

(* The rate of the one bucket bounds what the service spends. *)
LEMMA AccountBounds ==
  ASSUME IInv, GateTypes, Account, NoMoreThanTheRate
  PROVE  BearersShareOneRate
<1> SUFFICES ASSUME protected
             PROVE  provided * Window <= Full + uptime * Capacity
  BY DEF BearersShareOneRate
<1>1. Window \in Nat /\ Capacity \in Nat /\ Full \in Nat
  BY LimitsAssumption, FullIsEnough
<1>2. provided \in Nat /\ uptime \in Nat
  BY DEF GateTypes
<1>3. CASE Principal \in Tracked
  <2>1. /\ provided <= admitted[Principal]
        /\ elapsed[Principal] <= uptime
    BY <1>3 DEF Account
  <2>2. Principal \in Callers /\ admitted[Principal] \in Nat /\ elapsed[Principal] \in Nat
    BY RequestsAssumption DEF IInv, TypeOK
  <2>3. provided * Window <= admitted[Principal] * Window
    BY <1>1, <1>2, <2>1, <2>2, ProductMonotonic
  <2>4. elapsed[Principal] * Capacity <= uptime * Capacity
    BY <1>1, <1>2, <2>1, <2>2, ProductMonotonic
  <2>5. admitted[Principal] * Window <= Full + elapsed[Principal] * Capacity
    BY <1>3 DEF NoMoreThanTheRate
  <2>6. /\ provided * Window \in Nat /\ admitted[Principal] * Window \in Nat
        /\ elapsed[Principal] * Capacity \in Nat /\ uptime * Capacity \in Nat
    BY <1>1, <1>2, <2>2
  <2> QED
    BY <1>1, <2>3, <2>4, <2>5, <2>6
<1>4. CASE Principal \notin Tracked
  <2>1. provided = 0
    BY <1>4 DEF Account
  <2>2. 0 * Window = 0 /\ uptime * Capacity \in Nat
    BY <1>1, <1>2
  <2> QED
    BY <1>1, <2>1, <2>2
<1> QED
  BY <1>3, <1>4

(* A bearer's holders together stay within one caller's rate, for any      *)
(* number of hosts, keys remembered and limits, and whatever the clock     *)
(* does (main.py:184-227).                                                 *)
THEOREM OneRateForTheBearer == GateSpec => []BearersShareOneRate
<1>1. GateInit => GateTypes /\ Account
  BY DEF GateInit, Init, GateTypes, Account, Tracked
<1>2. IInv /\ GateTypes /\ Account /\ [GateNext]_allVars => GateTypes' /\ Account'
  BY AccountKept
<1>3. IInv /\ GateTypes /\ Account /\ NoMoreThanTheRate => BearersShareOneRate
  BY AccountBounds
<1>4. GateSpec => []IInv /\ []NoMoreThanTheRate
  BY GateImplementsLimiter, Invariance, RateBounded, PTL
<1> QED
  BY <1>1, <1>2, <1>3, <1>4, PTL DEF GateSpec, allVars
=============================================================================
