--------------------------- MODULE SemanticCache ----------------------------
(***************************************************************************)
(* The semantic answer cache of app/cache.py, shared by the worker         *)
(* threads.  A step is one critical section under self._lock, or the code  *)
(* between two of them: SemanticCache.get reads the clock, takes the lock  *)
(* to drop what has expired, takes it again to copy the candidates, and    *)
(* scores the copy with the lock released, so other threads insert, evict  *)
(* and let time pass between any two of these.                             *)
(*                                                                         *)
(* An entry's key is the number n of its "e<n>" key.  self.entries is an   *)
(* OrderedDict; keys are handed out in increasing order and an entry is    *)
(* never moved, so the order of the keys is the insertion order.           *)
(*                                                                         *)
(* The cache is enabled and has no path, as app/deps.py builds it: _load   *)
(* and _persist return at once.                                            *)
(***************************************************************************)
EXTENDS Integers, FiniteSets

CONSTANTS
  Threads,
  Vectors,      \* question embeddings
  Scopes,       \* cache scopes
  Questions,    \* what the callers ask and store: [vec, scope] records
  Score,        \* cosine_similarity, [Vectors \X Vectors -> 0..100]
  Threshold,    \* similarity_threshold, on the same scale
  TTL,          \* ttl_seconds, in ticks
  MaxEntries,   \* max_entries
  MaxSets,      \* bound: calls of set in a behaviour
  MaxTime       \* bound: ticks in a behaviour

ASSUME ScoreAssumption == Score \in [Vectors \X Vectors -> 0..100]
ASSUME QuestionsAssumption == Questions \subseteq [vec : Vectors, scope : Scopes]
ASSUME BoundsAssumption ==
  /\ Threshold \in 0..100
  /\ TTL \in Nat /\ MaxEntries \in Nat \ {0}
  /\ MaxSets \in Nat /\ MaxTime \in Nat

VARIABLES
  entries,      \* self.entries, a function on the live keys
  nextKey,      \* the next value of self._sequence
  now,          \* what self.clock() returns
  pc,           \* per thread: where it is in get
  query,        \* per thread: the arguments of get
  readAt,       \* per thread: `now` in _evict_expired
  candidates,   \* per thread: the copy of the entries of the scope
  hit           \* per thread: what get returned, while pc is "returned"

(* History variables: everything ever inserted, by order of insertion;     *)
(* and, per thread, the best entry at the instant the candidates were      *)
(* copied, until they have been scored.                                    *)
VARIABLES inserted, found

shared == <<entries, nextKey, now, inserted>>
local == <<pc, query, readAt, candidates, hit, found>>
vars == <<entries, nextKey, now, pc, query, readAt, candidates, hit, inserted, found>>

NoEntry == [answer |-> "none"]
NoQuery == [scope |-> "none"]

Init ==
  /\ entries = << >>
  /\ nextKey = 1
  /\ now = 0
  /\ pc = [t \in Threads |-> "idle"]
  /\ query = [t \in Threads |-> NoQuery]
  /\ readAt = [t \in Threads |-> 0]
  /\ candidates = [t \in Threads |-> << >>]
  /\ hit = [t \in Threads |-> NoEntry]
  /\ inserted = << >>
  /\ found = [t \in Threads |-> NoEntry]

Keys == DOMAIN entries
Only(f, keys) == [k \in keys |-> f[k]]

-----------------------------------------------------------------------------
(* get                                                                     *)

(* _evict_expired reads the clock before it takes the lock. *)
Get(t, q) ==
  /\ pc[t] = "idle"
  /\ pc' = [pc EXCEPT ![t] = "evicting"]
  /\ query' = [query EXCEPT ![t] = q]
  /\ readAt' = [readAt EXCEPT ![t] = now]
  /\ UNCHANGED <<shared, candidates, hit, found>>

(* Slip: one tick too many. *)
ExpiredLate(k, at) == at - entries[k].createdAt > TTL + 1

Expired(k, at) == at - entries[k].createdAt > TTL

EvictExpired(t) ==
  /\ pc[t] = "evicting"
  /\ entries' = Only(entries, {k \in Keys : ~Expired(k, readAt[t])})
  /\ pc' = [pc EXCEPT ![t] = "reading"]
  /\ UNCHANGED <<nextKey, now, inserted, query, readAt, candidates, hit, found>>

(* Slip: every scope's entries are candidates. *)
CandidatesOfAnyScope(s) == Only(entries, Keys)

Candidates(s) == Only(entries, {k \in Keys : entries[k].scope = s})

Oldest(keys) == CHOOSE k \in keys : \A j \in keys : k <= j

(* Slip: the scan stops at the first candidate over the threshold. *)
BestOfFirst(cands, v) ==
  LET over == {k \in DOMAIN cands : Score[<<v, cands[k].vec>>] >= Threshold}
  IN IF over = {} THEN NoEntry ELSE cands[Oldest(over)]

(* Slip: the nearest candidate is taken, however far it is. *)
BestOfAny(cands, v) ==
  LET best == {k \in DOMAIN cands : \A j \in DOMAIN cands :
                                      Score[<<v, cands[j].vec>>] <= Score[<<v, cands[k].vec>>]}
  IN IF cands = << >> THEN NoEntry ELSE cands[Oldest(best)]

(* The loop of get: the best score at or above the threshold; of equals,   *)
(* the oldest entry, because a later one must score strictly more.         *)
Best(cands, v) ==
  LET over == {k \in DOMAIN cands : Score[<<v, cands[k].vec>>] >= Threshold}
      best == {k \in over : \A j \in over :
                              Score[<<v, cands[j].vec>>] <= Score[<<v, cands[k].vec>>]}
  IN IF over = {} THEN NoEntry ELSE cands[Oldest(best)]

Snapshot(t) ==
  /\ pc[t] = "reading"
  /\ LET copy == Candidates(query[t].scope)
     IN /\ candidates' = [candidates EXCEPT ![t] = copy]
        /\ found' = [found EXCEPT ![t] = Best(copy, query[t].vec)]
  /\ pc' = [pc EXCEPT ![t] = "scoring"]
  /\ UNCHANGED <<shared, query, readAt, hit>>

ScoreCandidates(t) ==
  /\ pc[t] = "scoring"
  /\ hit' = [hit EXCEPT ![t] = Best(candidates[t], query[t].vec)]
  /\ pc' = [pc EXCEPT ![t] = "returned"]
  /\ candidates' = [candidates EXCEPT ![t] = << >>]
  /\ found' = [found EXCEPT ![t] = NoEntry]
  /\ UNCHANGED <<shared, query, readAt>>

(* The caller has used what get returned. *)
Consume(t) ==
  /\ pc[t] = "returned"
  /\ pc' = [pc EXCEPT ![t] = "idle"]
  /\ query' = [query EXCEPT ![t] = NoQuery]
  /\ readAt' = [readAt EXCEPT ![t] = 0]
  /\ hit' = [hit EXCEPT ![t] = NoEntry]
  /\ UNCHANGED <<shared, candidates, found>>

-----------------------------------------------------------------------------
(* set                                                                     *)

(* Slip: keys derived from the number of live entries. *)
KeyFromLength == Cardinality(Keys) + 1

NewKey == nextKey

(* Slip: the bound is tested before the insertion it is for. *)
NewestPlusOne(keys) == {k \in keys : Cardinality({j \in keys : j > k}) <= MaxEntries}

(* What `while len > max_entries: popitem(last=False)` leaves. *)
Newest(keys) == {k \in keys : Cardinality({j \in keys : j > k}) < MaxEntries}

(* The answer is told apart by the order of the insertions. *)
Set(t, q) ==
  /\ pc[t] = "idle"
  /\ nextKey <= MaxSets
  /\ LET entry == [vec |-> q.vec, scope |-> q.scope, answer |-> nextKey, createdAt |-> now]
         with == [k \in Keys \cup {NewKey} |-> IF k = NewKey THEN entry ELSE entries[k]]
     IN /\ entries' = Only(with, Newest(DOMAIN with))
        /\ inserted' = [k \in 1..nextKey |-> IF k = nextKey THEN entry ELSE inserted[k]]
  /\ nextKey' = nextKey + 1
  /\ UNCHANGED <<now, local>>

Tick ==
  /\ now < MaxTime
  /\ now' = now + 1
  /\ UNCHANGED <<entries, nextKey, inserted, local>>

Next ==
  \/ \E t \in Threads, q \in Questions : Get(t, q) \/ Set(t, q)
  \/ \E t \in Threads : EvictExpired(t) \/ Snapshot(t) \/ ScoreCandidates(t) \/ Consume(t)
  \/ Tick

Spec == Init /\ [][Next]_vars

-----------------------------------------------------------------------------
Entry == [vec : Vectors, scope : Scopes, answer : Nat, createdAt : Nat]

(* Includes that entries are capped (cache.py:20-21) whenever the lock is  *)
(* free.                                                                   *)
TypeOK ==
  /\ Keys \subseteq 1..(nextKey - 1) /\ Cardinality(Keys) <= MaxEntries
  /\ \A k \in Keys : entries[k] \in Entry
  /\ nextKey \in Nat \ {0} /\ now \in Nat
  /\ pc \in [Threads -> {"idle", "evicting", "reading", "scoring", "returned"}]
  /\ query \in [Threads -> Questions \cup {NoQuery}]
  /\ readAt \in [Threads -> Nat]
  /\ \A t \in Threads : \A k \in DOMAIN candidates[t] : candidates[t][k] \in Entry
  /\ hit \in [Threads -> Entry \cup {NoEntry}] /\ found \in [Threads -> Entry \cup {NoEntry}]

Returned(t) == pc[t] = "returned" /\ hit[t] # NoEntry

(* An answer is served only to the scope it was stored under, whatever     *)
(* was inserted or evicted while the lookup ran (cache.py:98-99).          *)
ScopeIsolation ==
  \A t \in Threads : Returned(t) => inserted[hit[t].answer].scope = query[t].scope

(* The entry served had not outlived its TTL when the lookup began, even   *)
(* though expiry, copy and scoring are three separate steps.               *)
FreshWhenAsked ==
  \A t \in Threads : Returned(t) => readAt[t] - inserted[hit[t].answer].createdAt <= TTL

(* Nothing is lost before its time: an insertion no longer in the cache    *)
(* has expired, or MaxEntries younger ones followed it (cache.py:82-84,    *)
(* eviction oldest-first and keys that collide with no live entry).        *)
NothingLostEarly ==
  \A n \in DOMAIN inserted :
    \/ \E k \in Keys : entries[k] = inserted[n]
    \/ now - inserted[n].createdAt > TTL
    \/ nextKey - 1 - n >= MaxEntries

(* An entry stored at an earlier instant than the lookup's clock reading   *)
(* and still there when it returns is not passed over for nothing, or for  *)
(* a worse match.                                                          *)
NoMissedHit ==
  \A t \in Threads : pc[t] = "returned" =>
    \A k \in Keys :
      LET score == Score[<<query[t].vec, entries[k].vec>>]
      IN entries[k].createdAt < readAt[t] /\ entries[k].scope = query[t].scope
         /\ score >= Threshold
           => hit[t] # NoEntry /\ Score[<<query[t].vec, hit[t].vec>>] >= score

(***************************************************************************)
(* The cache implements the abstract store: the instant of a lookup is the *)
(* copy of the candidates.                                                 *)
(***************************************************************************)
Strip(e) == IF e = NoEntry THEN e ELSE [vec |-> e.vec, scope |-> e.scope, answer |-> e.answer]

LookupOf(t) ==
  CASE pc[t] = "idle" -> NoQuery
    [] pc[t] \in {"evicting", "reading"} -> query[t]
    [] pc[t] = "scoring" -> Strip(found[t])
    [] pc[t] = "returned" -> Strip(hit[t])

Store == INSTANCE AnswerStore WITH
  Clients <- Threads,
  Answers <- 1..MaxSets,
  Similar <- {p \in Vectors \X Vectors : Score[p] >= Threshold},
  kept <- {Strip(entries[k]) : k \in Keys},
  lookup <- [t \in Threads |-> LookupOf(t)]

(* Every behaviour of the cache is one of the abstract store: lookups and  *)
(* insertions by different threads look atomic, and a lookup misses only   *)
(* when nothing servable was in the cache at one instant during it.        *)
ImplementsStore == Store!Spec
=============================================================================
