---------------------------- MODULE RateLimiter -----------------------------
(***************************************************************************)
(* The token-bucket limiter of app/ratelimit.py.  allow runs whole under   *)
(* self._lock, so one call is one step, whichever thread makes it.         *)
(*                                                                         *)
(* Units.  A bucket refills Capacity tokens every Window ticks.  Tokens    *)
(* are counted in units of 1/Window of a token: a call costs Window units, *)
(* a full bucket holds Capacity * Window, and a tick brings Capacity       *)
(* units, so the arithmetic is exact (the code's is in floats).            *)
(*                                                                         *)
(* The clock is time.time: it advances, and it can be set back (the code   *)
(* then counts no time as elapsed, line 74, and restarts from the earlier  *)
(* instant, line 76).                                                      *)
(***************************************************************************)
EXTENDS Integers, Sequences, FiniteSets, SequencesExt

CONSTANTS
  Callers,          \* caller keys
  Capacity,         \* requests
  Window,           \* window_seconds, in ticks
  TicksPerSecond,
  MaxKeys,          \* max_keys
  MaxTime,          \* bound: the clock's range is 0..MaxTime
  MaxSetBacks       \* bound: times the clock is set back

ASSUME LimitsAssumption ==
  /\ Capacity \in Nat \ {0} /\ Window \in Nat \ {0}
  /\ TicksPerSecond \in Nat \ {0} /\ MaxKeys \in Nat \ {0}
ASSUME ClockBoundsAssumption == MaxTime \in Nat /\ MaxSetBacks \in Nat

VARIABLES
  buckets,      \* self._buckets: key -> [tokens, updatedAt]
  order,        \* the keys of the OrderedDict, least recently used first
  now,          \* self.clock()
  setBacks      \* times the clock was set back

(***************************************************************************)
(* History variables, per key: calls admitted and ticks gone by since the  *)
(* key's bucket was made; the earliest instant a refusal promised a token  *)
(* at, until that token is taken or the clock set back; and every key by   *)
(* its last call, oldest first.                                            *)
(***************************************************************************)
VARIABLES admitted, elapsed, promise, recency

limiterVars == <<buckets, order>>
historyVars == <<admitted, elapsed, promise, recency>>
vars == <<buckets, order, now, setBacks, admitted, elapsed, promise, recency>>

Tracked == DOMAIN buckets
Full == Capacity * Window
NoPromise == -1

Least(a, b) == IF a <= b THEN a ELSE b
Greatest(a, b) == IF a >= b THEN a ELSE b
Ceiling(a, b) == (a + b - 1) \div b

Init ==
  /\ buckets = << >>
  /\ order = << >>
  /\ now = 0
  /\ setBacks = 0
  /\ admitted = [k \in Callers |-> 0]
  /\ elapsed = [k \in Callers |-> 0]
  /\ promise = [k \in Callers |-> NoPromise]
  /\ recency = << >>

-----------------------------------------------------------------------------
(* What the bucket holds once refilled up to the present.                  *)

(* Slip: a clock set back is counted as time gone by. *)
RefilledAbsolute(b) ==
  Least(Full, b.tokens + (IF now < b.updatedAt THEN b.updatedAt - now ELSE now - b.updatedAt)
                         * Capacity)

Refilled(b) == Least(Full, b.tokens + Greatest(0, now - b.updatedAt) * Capacity)

(* OrderedDict.move_to_end. *)
Place(k) == CHOOSE i \in DOMAIN order : order[i] = k
MovedToEnd(k) == Append(RemoveAt(order, Place(k)), k)

(* Slip: a known key keeps its place in the order. *)
OrderKeepsPlace(k) ==
  IF k \in Tracked THEN order
  ELSE Append(IF Len(order) >= MaxKeys THEN Tail(order) ELSE order, k)

(* _evict_oldest_if_full for a new key, move_to_end for a known one.  One  *)
(* eviction makes room: the map never holds more than MaxKeys.             *)
OrderAfter(k) ==
  IF k \in Tracked THEN MovedToEnd(k)
  ELSE Append(IF Len(order) >= MaxKeys THEN Tail(order) ELSE order, k)

(* The bucket as it stands when the call is decided. *)
Present(k) == IF k \in Tracked THEN Refilled(buckets[k]) ELSE Full

(* Slip: rounded down, the promise comes due too early. *)
RetryAfterFloor(tokens) == Greatest(1, (Window - tokens) \div (Capacity * TicksPerSecond))

(* Whole seconds until the deficit is refilled, at least one. *)
RetryAfter(tokens) == Greatest(1, Ceiling(Window - tokens, Capacity * TicksPerSecond))

(* The bucket written back, the order, and what the history keeps. *)
Write(k, tokens) ==
  /\ order' = OrderAfter(k)
  /\ buckets' = [j \in ToSet(OrderAfter(k)) |->
                   IF j = k THEN [tokens |-> tokens, updatedAt |-> now] ELSE buckets[j]]
  /\ elapsed' = [j \in Callers |-> IF j \in Tracked \cap Tracked' THEN elapsed[j] ELSE 0]
  /\ recency' = Append(RemoveFirst(recency, k), k)
  /\ UNCHANGED <<now, setBacks>>

Allow(k) ==
  /\ Present(k) >= Window
  /\ Write(k, Present(k) - Window)
  /\ admitted' = [j \in Callers |->
                    (IF j \in Tracked \cap Tracked' THEN admitted[j] ELSE 0)
                    + (IF j = k THEN 1 ELSE 0)]
  /\ promise' = [promise EXCEPT ![k] = NoPromise]

ServedBy(k) == now + RetryAfter(Present(k)) * TicksPerSecond

Deny(k) ==
  /\ Present(k) < Window
  /\ Write(k, Present(k))
  /\ promise' = [promise EXCEPT ![k] = IF @ = NoPromise THEN ServedBy(k)
                                       ELSE Least(@, ServedBy(k))]
  /\ UNCHANGED admitted   \* a new key is not refused: nothing is evicted

Tick ==
  /\ now < MaxTime
  /\ now' = now + 1
  /\ elapsed' = [k \in Callers |-> IF k \in Tracked THEN elapsed[k] + 1 ELSE elapsed[k]]
  /\ UNCHANGED <<limiterVars, setBacks, admitted, promise, recency>>

SetBack ==
  /\ setBacks < MaxSetBacks
  /\ \E earlier \in 0..(now - 1) : now' = earlier
  /\ setBacks' = setBacks + 1
  /\ promise' = [k \in Callers |-> NoPromise]
  /\ UNCHANGED <<limiterVars, admitted, elapsed, recency>>

Next == \/ \E k \in Callers : Allow(k) \/ Deny(k)
        \/ Tick
        \/ SetBack

Spec == Init /\ [][Next]_vars

-----------------------------------------------------------------------------
TypeOK ==
  /\ Tracked \subseteq Callers
  /\ \A k \in Tracked : buckets[k].tokens \in 0..Full /\ buckets[k].updatedAt \in Nat
  /\ now \in Nat /\ setBacks \in Nat
  /\ admitted \in [Callers -> Nat] /\ elapsed \in [Callers -> Nat]
  /\ promise \in [Callers -> Nat \cup {NoPromise}]

(* From the making of its bucket on, a key is admitted no more than        *)
(* Capacity calls plus what the ticks since then refill, setting the clock *)
(* back included, however the calls are spread (ratelimit.py:57-84).       *)
NoMoreThanTheRate ==
  \A k \in Tracked : admitted[k] * Window <= Full + elapsed[k] * Capacity

(* A refused caller that waits as long as it was told is served, even if   *)
(* it kept asking in the meantime, if its bucket was dropped, or if other  *)
(* keys called: the earliest promise stands (ratelimit.py:60-63).          *)
RetryAfterIsHonest ==
  \A k \in Callers :
    promise[k] # NoPromise /\ now >= promise[k] => Present(k) >= Window

(* The limiter remembers exactly the MaxKeys keys that called last: what   *)
(* is evicted, and gets a full bucket when it comes back, is always the    *)
(* least recently used key (ratelimit.py:92-95).                           *)
KeepsTheMostRecentKeys ==
  Tracked = {recency[i] : i \in {n \in DOMAIN recency : n > Len(recency) - MaxKeys}}
=============================================================================
