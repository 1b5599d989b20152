------------------------ MODULE SemanticCacheProofs -------------------------
(***************************************************************************)
(* Proofs about SemanticCache for every set of threads, embeddings, scopes *)
(* and questions, every similarity, threshold, TTL and capacity.           *)
(*                                                                         *)
(* A lookup reads the clock, evicts, copies and scores in separate steps,  *)
(* so what it returns is known only through what it holds at each stage:   *)
(* after its eviction every live entry is fresh at the instant it read     *)
(* (whatever comes in later is younger still); its copy holds fresh        *)
(* entries of its scope, and all those as old as the lookup; what it       *)
(* returns is the best of them.  NothingLostEarly needs that no thread's   *)
(* clock reading is ahead of the clock.                                    *)
(***************************************************************************)
EXTENDS SemanticCache, FiniteSetTheorems, WellFoundedInduction, TLAPS

(* What was inserted, and that the cache holds some of it, unchanged. *)
InsertedWell ==
  /\ DOMAIN inserted = 1..(nextKey - 1)
  /\ \A n \in DOMAIN inserted :
       inserted[n] \in Entry /\ inserted[n].answer = n /\ inserted[n].createdAt <= now

EntriesWell ==
  /\ Keys \subseteq DOMAIN inserted /\ Cardinality(Keys) <= MaxEntries
  /\ \A k \in Keys : entries[k] = inserted[k]

Clocks ==
  /\ nextKey \in Nat \ {0} /\ nextKey <= MaxSets + 1 /\ now \in Nat
  /\ pc \in [Threads -> {"idle", "evicting", "reading", "scoring", "returned"}]
  /\ query \in [Threads -> Questions \cup {NoQuery}]
  /\ readAt \in [Threads -> Nat]
  /\ DOMAIN candidates = Threads
  /\ hit \in [Threads -> Entry \cup {NoEntry}] /\ found \in [Threads -> Entry \cup {NoEntry}]

(* A dropped insertion has expired or was pushed out. *)
DroppedInTime ==
  \A n \in DOMAIN inserted :
    \/ n \in Keys
    \/ now - inserted[n].createdAt > TTL
    \/ nextKey - 1 - n >= MaxEntries

(* An insertion thread t may be served, as to scope and age. *)
Eligible(t, e) == e.scope = query[t].scope /\ readAt[t] - e.createdAt <= TTL

(* One that thread t's copy must hold. *)
Due(t, e) == e.createdAt < readAt[t] /\ e.scope = query[t].scope

Holding(t) ==
  /\ IF pc[t] = "idle" THEN query[t] = NoQuery ELSE query[t] \in Questions
  /\ readAt[t] <= now
  /\ pc[t] # "returned" => hit[t] = NoEntry
  /\ pc[t] # "scoring" => candidates[t] = << >> /\ found[t] = NoEntry

WhileReading(t) ==
  pc[t] = "reading" => \A k \in Keys : readAt[t] - inserted[k].createdAt <= TTL

WhileScoring(t) ==
  pc[t] = "scoring" =>
    /\ \A k \in DOMAIN candidates[t] :
         k \in DOMAIN inserted /\ candidates[t][k] = inserted[k] /\ Eligible(t, inserted[k])
    /\ \A k \in Keys : Due(t, inserted[k]) => k \in DOMAIN candidates[t]
    /\ found[t] = Best(candidates[t], query[t].vec)

WhenReturned(t) ==
  pc[t] = "returned" =>
    /\ hit[t] # NoEntry =>
         \E n \in DOMAIN inserted : hit[t] = inserted[n] /\ Eligible(t, inserted[n])
    /\ \A k \in Keys :
         Due(t, inserted[k]) /\ Score[<<query[t].vec, inserted[k].vec>>] >= Threshold
           => /\ hit[t] # NoEntry
              /\ Score[<<query[t].vec, hit[t].vec>>] >= Score[<<query[t].vec, inserted[k].vec>>]

LookupWell(t) == Holding(t) /\ WhileReading(t) /\ WhileScoring(t) /\ WhenReturned(t)

SharedWell == Clocks /\ InsertedWell /\ EntriesWell /\ DroppedInTime

IInv == SharedWell /\ \A t \in Threads : LookupWell(t)

-----------------------------------------------------------------------------
(* Sets of naturals. *)

LEMMA LeastElement ==
  ASSUME NEW S \in SUBSET Nat, S # {}
  PROVE  \E k \in S : \A j \in S : k <= j
<1> DEFINE R == {p \in Nat \X Nat : p[1] < p[2]}
<1>1. IsWellFoundedOn(R, Nat)
  BY NatLessThanWellFounded DEF OpToRel
<1>2. \E k \in S : \A j \in S : <<j, k>> \notin R
  <2> HIDE DEF R
  <2> QED BY <1>1, WFMin
<1>3. \A k, j \in S : <<j, k>> \notin R => k <= j
  OBVIOUS
<1> QED BY <1>2, <1>3

(* Oldest picks it. *)
LEMMA OldestFacts ==
  ASSUME NEW S \in SUBSET Nat, S # {}
  PROVE  Oldest(S) \in S /\ \A j \in S : Oldest(S) <= j
  BY LeastElement DEF Oldest

(* A function into the naturals up to a bound attains a maximum. *)
LEMMA GreatestValue ==
  ASSUME NEW S, S # {}, NEW f, \A k \in S : f[k] \in 0..100
  PROVE  \E k \in S : \A j \in S : f[j] <= f[k]
<1> DEFINE Gaps == {100 - f[k] : k \in S}
<1>1. Gaps \in SUBSET Nat /\ Gaps # {}
  OBVIOUS
<1>2. PICK g \in Gaps : \A h \in Gaps : g <= h
  <2> HIDE DEF Gaps
  <2> QED
    BY <1>1, LeastElement
<1>3. PICK k \in S : g = 100 - f[k]
  BY <1>2
<1>4. ASSUME NEW j \in S
      PROVE  f[j] <= f[k]
  <2>1. g <= 100 - f[j]
    BY <1>2
  <2>2. 100 - f[k] <= 100 - f[j]
    BY <1>3, <2>1
  <2>3. f[j] \in Int /\ f[k] \in Int
    OBVIOUS
  <2> QED
    BY <2>2, <2>3
<1> QED
  BY <1>4

(* What the eviction of the oldest leaves, for a set one entry too large   *)
(* at most (cache.py:82-84).                                               *)
LEMMA NewestFacts ==
  ASSUME NEW S \in SUBSET Nat, S # {}, IsFiniteSet(S), Cardinality(S) <= MaxEntries + 1
  PROVE  /\ Cardinality(S) <= MaxEntries => Newest(S) = S
         /\ Cardinality(S) > MaxEntries => Newest(S) = S \ {Oldest(S)}
         /\ Newest(S) \subseteq S
         /\ Cardinality(Newest(S)) <= MaxEntries
<1> DEFINE Younger(k) == {j \in S : j > k}
<1>1. MaxEntries \in Nat \ {0} /\ Cardinality(S) \in Nat
  BY BoundsAssumption, FS_CardinalityType
<1>2. Oldest(S) \in S /\ \A j \in S : Oldest(S) <= j
  BY OldestFacts
<1>3. ASSUME NEW k \in S
      PROVE  Cardinality(Younger(k)) \in Nat /\ Cardinality(Younger(k)) <= Cardinality(S) - 1
  <2>1. Younger(k) \in SUBSET (S \ {k})
    OBVIOUS
  <2>2. IsFiniteSet(S \ {k}) /\ Cardinality(S \ {k}) = Cardinality(S) - 1
    BY FS_RemoveElement
  <2>3. IsFiniteSet(Younger(k)) /\ Cardinality(Younger(k)) <= Cardinality(S \ {k})
    BY <2>1, <2>2, FS_Subset
  <2> QED
    BY <2>2, <2>3, FS_CardinalityType
<1>4. ASSUME NEW k \in S, k # Oldest(S)
      PROVE  Cardinality(Younger(k)) <= Cardinality(S) - 2
  <2> DEFINE Rest == (S \ {k}) \ {Oldest(S)}
  <2>1. Younger(k) \in SUBSET Rest
    <3>1. \A j \in S : j \in Nat /\ Oldest(S) \in Nat /\ Oldest(S) <= j
      BY <1>2
    <3>2. ~(Oldest(S) > k)
      BY <3>1
    <3> QED
      BY <3>2
  <2>2. IsFiniteSet(S \ {k}) /\ Cardinality(S \ {k}) = Cardinality(S) - 1
    BY FS_RemoveElement
  <2>3. IsFiniteSet(Rest) /\ Cardinality(Rest) = Cardinality(S) - 2
    <3>1. Oldest(S) \in S \ {k}
      BY <1>2, <1>4
    <3>2. IsFiniteSet(Rest) /\ Cardinality(Rest) = Cardinality(S \ {k}) - 1
      BY <2>2, <3>1, FS_RemoveElement
    <3> QED
      BY <1>1, <2>2, <3>2
  <2>4. Cardinality(Younger(k)) <= Cardinality(Rest)
    BY <2>1, <2>3, FS_Subset
  <2> QED
    BY <2>3, <2>4
<1>5. Cardinality(Younger(Oldest(S))) = Cardinality(S) - 1
  <2>1. \A j \in S : j > Oldest(S) <=> j # Oldest(S)
    <3>1. \A j \in S : j \in Nat /\ Oldest(S) \in Nat /\ Oldest(S) <= j
      BY <1>2
    <3> QED
      BY <3>1
  <2>2. Younger(Oldest(S)) = S \ {Oldest(S)}
    BY <2>1
  <2> QED
    BY <1>2, <2>2, FS_RemoveElement
<1>6. ASSUME Cardinality(S) <= MaxEntries
      PROVE  Newest(S) = S
  <2>1. \A k \in S : Cardinality(Younger(k)) < MaxEntries
    <3> HIDE DEF Younger
    <3> QED
      BY <1>1, <1>3, <1>6
  <2> QED
    BY <2>1 DEF Newest
<1>7. ASSUME Cardinality(S) > MaxEntries
      PROVE  Newest(S) = S \ {Oldest(S)}
  <2>1. ~(Cardinality(Younger(Oldest(S))) < MaxEntries)
    <3> HIDE DEF Younger
    <3> QED
      BY <1>1, <1>5, <1>7
  <2>2. \A k \in S \ {Oldest(S)} : Cardinality(Younger(k)) < MaxEntries
    <3> HIDE DEF Younger
    <3> QED
      BY <1>1, <1>3, <1>4
  <2> QED
    BY <2>1, <2>2 DEF Newest
<1>8. Cardinality(Newest(S)) <= MaxEntries
  <2>1. Cardinality(S \ {Oldest(S)}) = Cardinality(S) - 1
    BY <1>2, FS_RemoveElement
  <2> QED
    BY <1>1, <1>6, <1>7, <2>1
<1>9. Newest(S) \subseteq S
  BY DEF Newest
<1> QED
  BY <1>6, <1>7, <1>8, <1>9

(* What the loop of get selects (cache.py:97-107): nothing when no         *)
(* candidate reaches the threshold, else a candidate that does and that no *)
(* other candidate beats.                                                  *)
LEMMA BestFacts ==
  ASSUME NEW cands, DOMAIN cands \in SUBSET Nat, NEW v \in Vectors,
         \A k \in DOMAIN cands : cands[k].vec \in Vectors
  PROVE  \/ /\ Best(cands, v) = NoEntry
            /\ \A k \in DOMAIN cands : ~(Score[<<v, cands[k].vec>>] >= Threshold)
         \/ \E k \in DOMAIN cands :
              /\ Best(cands, v) = cands[k]
              /\ Score[<<v, cands[k].vec>>] >= Threshold
              /\ \A j \in DOMAIN cands :
                   Score[<<v, cands[j].vec>>] >= Threshold
                     => Score[<<v, cands[j].vec>>] <= Score[<<v, cands[k].vec>>]
<1> DEFINE score == [k \in DOMAIN cands |-> Score[<<v, cands[k].vec>>]]
           over == {k \in DOMAIN cands : Score[<<v, cands[k].vec>>] >= Threshold}
           best == {k \in over : \A j \in over :
                                   Score[<<v, cands[j].vec>>] <= Score[<<v, cands[k].vec>>]}
<1>1. Best(cands, v) = IF over = {} THEN NoEntry ELSE cands[Oldest(best)]
  BY DEF Best
<1>2. CASE over = {}
  BY <1>1, <1>2
<1>3. CASE over # {}
  <2>1. \A k \in over : score[k] \in 0..100
    BY ScoreAssumption
  <2>2. PICK k \in over : \A j \in over : score[j] <= score[k]
    <3> HIDE DEF over, score
    <3> QED
      BY <1>3, <2>1, GreatestValue
  <2>3. best # {} /\ best \in SUBSET Nat
    BY <2>2
  <2>4. Oldest(best) \in best
    <3> HIDE DEF best
    <3> QED
      BY <2>3, OldestFacts
  <2> QED
    BY <1>1, <1>3, <2>4
<1> QED
  BY <1>2, <1>3

-----------------------------------------------------------------------------
(* The invariant. *)

(* Nothing served is mistaken for a miss, and no question for none. *)
LEMMA Shapes ==
  /\ NoEntry \notin Entry
  /\ NoQuery \notin Questions
<1>1. DOMAIN NoEntry = {"answer"} /\ DOMAIN NoQuery = {"scope"}
  BY DEF NoEntry, NoQuery
<1>2. \A e \in Entry : "vec" \in DOMAIN e
  BY DEF Entry
<1>3. \A q \in Questions : "vec" \in DOMAIN q
  BY QuestionsAssumption
<1> QED
  BY <1>1, <1>2, <1>3

LEMMA InitIInv == Init => IInv
<1> SUFFICES ASSUME Init PROVE IInv
  OBVIOUS
<1>1. Keys = {} /\ DOMAIN inserted = {}
  BY DEF Init, Keys
<1>2. Cardinality(Keys) = 0
  BY <1>1, FS_EmptySet
<1>3. Clocks /\ InsertedWell /\ EntriesWell /\ DroppedInTime
  BY <1>1, <1>2, BoundsAssumption
  DEF Init, Clocks, InsertedWell, EntriesWell, DroppedInTime
<1>4. \A t \in Threads : LookupWell(t)
  BY DEF Init, LookupWell, Holding, WhileReading, WhileScoring, WhenReturned
<1> QED
  BY <1>3, <1>4 DEF IInv, SharedWell

(* A lookup is not disturbed while its thread does not move: whatever      *)
(* comes into the cache meanwhile is no older than its clock reading, and  *)
(* what was inserted stays inserted.                                       *)
LEMMA LookupStays ==
  ASSUME SharedWell, NEW t \in Threads, LookupWell(t),
         UNCHANGED <<pc[t], query[t], readAt[t], candidates[t], hit[t], found[t]>>,
         now' \in Nat, now <= now',
         \A n \in DOMAIN inserted : n \in DOMAIN inserted' /\ inserted'[n] = inserted[n],
         \A k \in Keys' : \/ k \in Keys
                          \/ /\ inserted'[k].createdAt \in Nat
                             /\ readAt[t] <= inserted'[k].createdAt
  PROVE  LookupWell(t)'
<1>1. readAt[t] \in Nat /\ now \in Nat /\ TTL \in Nat
  BY BoundsAssumption DEF SharedWell, Clocks
<1>2. \A k \in Keys' : k \in Keys => k \in DOMAIN inserted /\ inserted'[k] = inserted[k]
  BY DEF SharedWell, EntriesWell
<1>3. \A k \in Keys' : \/ k \in Keys /\ inserted'[k] = inserted[k]
                       \/ /\ readAt[t] - inserted'[k].createdAt <= TTL
                          /\ ~(inserted'[k].createdAt < readAt[t])
  BY <1>1, <1>2
<1>4. Holding(t)'
  BY <1>1 DEF LookupWell, Holding
<1>5. WhileReading(t)'
  BY <1>3 DEF LookupWell, WhileReading
<1>6. WhileScoring(t)'
  BY <1>3 DEF LookupWell, WhileScoring, Eligible, Due
<1>7. WhenReturned(t)'
  BY <1>3 DEF LookupWell, WhenReturned, Eligible, Due
<1> QED
  BY <1>4, <1>5, <1>6, <1>7 DEF LookupWell

(* A step that leaves the shared state alone and moves one thread. *)
LEMMA OneThreadMoves ==
  ASSUME IInv, UNCHANGED shared, NEW t \in Threads, Clocks', LookupWell(t)',
         \A u \in Threads \ {t} :
           UNCHANGED <<pc[u], query[u], readAt[u], candidates[u], hit[u], found[u]>>
  PROVE  IInv'
<1>1. UNCHANGED <<entries, nextKey, now, inserted>> /\ Keys' = Keys
  BY DEF shared, Keys
<1>2. SharedWell'
  BY <1>1 DEF IInv, SharedWell, InsertedWell, EntriesWell, DroppedInTime
<1>3. ASSUME NEW u \in Threads \ {t}
      PROVE  LookupWell(u)'
  BY <1>1, <1>3, LookupStays DEF IInv, SharedWell, Clocks
<1> QED
  BY <1>2, <1>3 DEF IInv

LEMMA GetIInv ==
  ASSUME IInv, NEW t \in Threads, NEW q \in Questions, Get(t, q)
  PROVE  IInv'
<1>1. /\ Clocks' /\ UNCHANGED shared
      /\ pc'[t] = "evicting" /\ query'[t] = q /\ readAt'[t] = now /\ now' = now
      /\ hit'[t] = hit[t] /\ candidates'[t] = candidates[t] /\ found'[t] = found[t]
  BY DEF Get, IInv, SharedWell, Clocks, shared
<1>2. pc[t] = "idle" /\ LookupWell(t) /\ now \in Nat
  BY DEF Get, IInv, SharedWell, Clocks
<1>3. LookupWell(t)'
  BY <1>1, <1>2 DEF LookupWell, Holding, WhileReading, WhileScoring, WhenReturned
<1>4. \A u \in Threads \ {t} :
        UNCHANGED <<pc[u], query[u], readAt[u], candidates[u], hit[u], found[u]>>
  BY DEF Get, IInv, SharedWell, Clocks
<1> QED
  BY <1>1, <1>3, <1>4, OneThreadMoves

(* The copies are entries, so Best speaks of them. *)
LEMMA CopyFacts ==
  ASSUME SharedWell, NEW cands, NEW v \in Vectors,
         \A k \in DOMAIN cands : k \in DOMAIN inserted /\ cands[k] = inserted[k]
  PROVE  /\ DOMAIN cands \in SUBSET Nat
         /\ \A k \in DOMAIN cands : cands[k] \in Entry /\ cands[k].vec \in Vectors
         /\ Best(cands, v) \in Entry \cup {NoEntry}
<1>1. DOMAIN inserted \subseteq Nat /\ \A k \in DOMAIN inserted : inserted[k] \in Entry
  BY DEF SharedWell, InsertedWell, Clocks
<1>2. /\ DOMAIN cands \in SUBSET Nat
      /\ \A k \in DOMAIN cands : cands[k] \in Entry /\ cands[k].vec \in Vectors
  BY <1>1 DEF Entry
<1>3. Best(cands, v) = NoEntry \/ \E k \in DOMAIN cands : Best(cands, v) = cands[k]
  BY <1>2, BestFacts
<1> QED
  BY <1>2, <1>3

LEMMA SnapshotIInv ==
  ASSUME IInv, NEW t \in Threads, Snapshot(t)
  PROVE  IInv'
<1> DEFINE copy == Candidates(query[t].scope)
<1>1. /\ UNCHANGED shared
      /\ pc'[t] = "scoring" /\ candidates'[t] = copy
      /\ found'[t] = Best(copy, query[t].vec)
      /\ query'[t] = query[t] /\ readAt'[t] = readAt[t] /\ hit'[t] = hit[t]
  BY DEF Snapshot, IInv, SharedWell, Clocks, shared
<1>2. /\ pc[t] = "reading" /\ SharedWell /\ LookupWell(t) /\ EntriesWell
      /\ now' = now /\ inserted' = inserted /\ entries' = entries
  BY DEF Snapshot, IInv, SharedWell, shared
<1>3. /\ DOMAIN copy = {k \in Keys : inserted[k].scope = query[t].scope}
      /\ \A k \in DOMAIN copy : k \in DOMAIN inserted /\ copy[k] = inserted[k]
  BY <1>2 DEF Candidates, Only, EntriesWell
<1>4. WhileScoring(t)'
  <2> HIDE DEF copy
  <2> QED
    BY <1>1, <1>2, <1>3 DEF LookupWell, WhileReading, WhileScoring, Eligible, Due, Keys
<1>5. Clocks'
  <2>1. query[t].vec \in Vectors
    BY <1>2, QuestionsAssumption DEF LookupWell, Holding
  <2>2. Best(copy, query[t].vec) \in Entry \cup {NoEntry}
    <3> HIDE DEF copy
    <3> QED
      BY <1>2, <1>3, <2>1, CopyFacts
  <2> QED
    BY <2>2 DEF Snapshot, IInv, SharedWell, Clocks, shared
<1>6. LookupWell(t)'
  BY <1>1, <1>2, <1>4 DEF LookupWell, Holding, WhileReading, WhenReturned
<1>7. \A u \in Threads \ {t} :
        UNCHANGED <<pc[u], query[u], readAt[u], candidates[u], hit[u], found[u]>>
  BY DEF Snapshot, IInv, SharedWell, Clocks
<1> QED
  BY <1>1, <1>5, <1>6, <1>7, OneThreadMoves

LEMMA ScoreIInv ==
  ASSUME IInv, NEW t \in Threads, ScoreCandidates(t)
  PROVE  IInv'
<1> DEFINE best == Best(candidates[t], query[t].vec)
<1>1. /\ UNCHANGED shared
      /\ pc'[t] = "returned" /\ hit'[t] = best
      /\ candidates'[t] = << >> /\ found'[t] = NoEntry
      /\ query'[t] = query[t] /\ readAt'[t] = readAt[t]
  BY DEF ScoreCandidates, IInv, SharedWell, Clocks, shared
<1>2. /\ pc[t] = "scoring" /\ LookupWell(t) /\ SharedWell
      /\ now' = now /\ inserted' = inserted /\ entries' = entries
  BY DEF ScoreCandidates, IInv, shared
<1>3. /\ \A k \in DOMAIN candidates[t] :
           k \in DOMAIN inserted /\ candidates[t][k] = inserted[k] /\ Eligible(t, inserted[k])
      /\ \A k \in Keys : Due(t, inserted[k]) => k \in DOMAIN candidates[t]
  BY <1>2 DEF LookupWell, WhileScoring
<1>4. query[t].vec \in Vectors
  BY <1>2, QuestionsAssumption DEF LookupWell, Holding
<1>5. /\ DOMAIN candidates[t] \in SUBSET Nat
      /\ \A k \in DOMAIN candidates[t] :
           candidates[t][k] \in Entry /\ candidates[t][k].vec \in Vectors
      /\ best \in Entry \cup {NoEntry}
  BY <1>2, <1>3, <1>4, CopyFacts
<1>6. WhenReturned(t)'
  <2>1. CASE /\ best = NoEntry
             /\ \A k \in DOMAIN candidates[t] :
                  ~(Score[<<query[t].vec, candidates[t][k].vec>>] >= Threshold)
    <3>1. \A k \in Keys : Due(t, inserted[k]) =>
             ~(Score[<<query[t].vec, inserted[k].vec>>] >= Threshold)
      BY <1>3, <2>1
    <3> HIDE DEF best
    <3> QED
      BY <1>1, <1>2, <2>1, <3>1 DEF WhenReturned, Due, Keys
  <2>2. ASSUME NEW b \in DOMAIN candidates[t],
               best = candidates[t][b],
               \A j \in DOMAIN candidates[t] :
                 Score[<<query[t].vec, candidates[t][j].vec>>] >= Threshold
                   => Score[<<query[t].vec, candidates[t][j].vec>>]
                        <= Score[<<query[t].vec, candidates[t][b].vec>>]
        PROVE  WhenReturned(t)'
    <3>1. best = inserted[b] /\ b \in DOMAIN inserted /\ Eligible(t, inserted[b])
      BY <1>3, <2>2
    <3>2. best # NoEntry
      BY <1>5, <2>2, Shapes
    <3>3. ASSUME NEW k \in Keys, Due(t, inserted[k]),
                 Score[<<query[t].vec, inserted[k].vec>>] >= Threshold
          PROVE  Score[<<query[t].vec, best.vec>>] >= Score[<<query[t].vec, inserted[k].vec>>]
      <4>1. k \in DOMAIN candidates[t] /\ candidates[t][k] = inserted[k]
        BY <1>3, <3>3
      <4>2. Score[<<query[t].vec, inserted[k].vec>>] <= Score[<<query[t].vec, best.vec>>]
        BY <2>2, <3>3, <4>1
      <4>3. inserted[k].vec \in Vectors /\ best.vec \in Vectors
        BY <1>5, <2>2, <4>1
      <4>4. /\ Score[<<query[t].vec, inserted[k].vec>>] \in Int
            /\ Score[<<query[t].vec, best.vec>>] \in Int
        BY <1>4, <4>3, ScoreAssumption
      <4> QED
        BY <4>2, <4>4
    <3> HIDE DEF best
    <3> QED
      BY <1>1, <1>2, <3>1, <3>2, <3>3 DEF WhenReturned, Eligible, Due, Keys
  <2> QED
    BY <1>4, <1>5, <2>1, <2>2, BestFacts
<1>7. LookupWell(t)'
  BY <1>1, <1>2, <1>6 DEF LookupWell, Holding, WhileReading, WhileScoring
<1>8. \A u \in Threads \ {t} :
        UNCHANGED <<pc[u], query[u], readAt[u], candidates[u], hit[u], found[u]>>
  BY DEF ScoreCandidates, IInv, SharedWell, Clocks
<1>9. Clocks'
  BY <1>5 DEF ScoreCandidates, IInv, SharedWell, Clocks, shared
<1> QED
  BY <1>1, <1>7, <1>8, <1>9, OneThreadMoves

LEMMA ConsumeIInv ==
  ASSUME IInv, NEW t \in Threads, Consume(t)
  PROVE  IInv'
<1>1. /\ Clocks' /\ UNCHANGED shared
      /\ pc'[t] = "idle" /\ query'[t] = NoQuery /\ readAt'[t] = 0 /\ hit'[t] = NoEntry
      /\ candidates'[t] = candidates[t] /\ found'[t] = found[t]
  BY DEF Consume, IInv, SharedWell, Clocks, shared
<1>2. pc[t] = "returned" /\ LookupWell(t) /\ now' = now /\ now \in Nat
  BY DEF Consume, IInv, SharedWell, Clocks, shared
<1>3. LookupWell(t)'
  BY <1>1, <1>2 DEF LookupWell, Holding, WhileReading, WhileScoring, WhenReturned
<1>4. \A u \in Threads \ {t} :
        UNCHANGED <<pc[u], query[u], readAt[u], candidates[u], hit[u], found[u]>>
  BY DEF Consume, IInv, SharedWell, Clocks
<1> QED
  BY <1>1, <1>3, <1>4, OneThreadMoves

LEMMA KeysFinite ==
  ASSUME SharedWell
  PROVE  IsFiniteSet(Keys) /\ Cardinality(Keys) \in Nat /\ Cardinality(Keys) <= MaxEntries
<1>1. Keys \in SUBSET (1..(nextKey - 1)) /\ nextKey - 1 \in Int
  BY DEF SharedWell, Clocks, InsertedWell, EntriesWell
<1>2. IsFiniteSet(1..(nextKey - 1))
  BY <1>1, FS_Interval
<1>3. IsFiniteSet(Keys)
  BY <1>1, <1>2, FS_Subset
<1> QED
  BY <1>3, FS_CardinalityType DEF SharedWell, EntriesWell

(* EvictExpired drops only what has outlived its TTL, and leaves the       *)
(* thread with nothing older.                                              *)
LEMMA EvictIInv ==
  ASSUME IInv, NEW t \in Threads, EvictExpired(t)
  PROVE  IInv'
<1>1. /\ pc[t] = "evicting" /\ SharedWell /\ LookupWell(t)
      /\ UNCHANGED <<nextKey, now, inserted, query, readAt, candidates, hit, found>>
      /\ pc' = [pc EXCEPT ![t] = "reading"]
  BY DEF EvictExpired, IInv
<1>2. /\ Keys' = {k \in Keys : ~Expired(k, readAt[t])}
      /\ \A k \in Keys' : entries'[k] = entries[k]
  BY DEF EvictExpired, Only, Keys
<1>3. /\ Keys \subseteq DOMAIN inserted /\ DOMAIN inserted = 1..(nextKey - 1)
      /\ nextKey \in Nat /\ now \in Nat /\ readAt[t] \in Nat /\ readAt[t] <= now
      /\ TTL \in Nat /\ MaxEntries \in Nat
      /\ \A k \in Keys : entries[k] = inserted[k]
      /\ \A n \in DOMAIN inserted : inserted[n].createdAt \in Nat
  BY <1>1, BoundsAssumption
  DEF SharedWell, Clocks, InsertedWell, EntriesWell, LookupWell, Holding, Entry
<1>4. Clocks' /\ InsertedWell'
  BY <1>1 DEF SharedWell, Clocks, InsertedWell
<1>5. EntriesWell'
  <2>1. IsFiniteSet(Keys) /\ Cardinality(Keys) \in Nat /\ Cardinality(Keys) <= MaxEntries
    BY <1>1, KeysFinite
  <2>2. Keys' \in SUBSET Keys
    BY <1>2
  <2>3. Cardinality(Keys') <= Cardinality(Keys) /\ Cardinality(Keys') \in Nat
    BY <2>1, <2>2, FS_Subset, FS_CardinalityType
  <2> QED
    BY <1>1, <1>2, <1>3, <2>1, <2>2, <2>3 DEF EntriesWell
<1>6. DroppedInTime'
  <2> SUFFICES ASSUME NEW n \in DOMAIN inserted, n \notin Keys'
               PROVE  now - inserted[n].createdAt > TTL \/ nextKey - 1 - n >= MaxEntries
    BY <1>1 DEF DroppedInTime
  <2>1. CASE n \in Keys
    <3>1. readAt[t] - inserted[n].createdAt > TTL
      BY <1>2, <1>3, <2>1 DEF Expired
    <3>2. inserted[n].createdAt \in Nat
      BY <1>3
    <3> QED
      BY <1>3, <3>1, <3>2
  <2>2. CASE n \notin Keys
    BY <1>1, <2>2 DEF SharedWell, DroppedInTime
  <2> QED
    BY <2>1, <2>2
<1>7. LookupWell(t)'
  <2>1. \A k \in Keys' : readAt[t] - inserted[k].createdAt <= TTL
    <3> SUFFICES ASSUME NEW k \in Keys'
                 PROVE  readAt[t] - inserted[k].createdAt <= TTL
      OBVIOUS
    <3>1. ~(readAt[t] - inserted[k].createdAt > TTL)
      BY <1>2, <1>3 DEF Expired
    <3>2. inserted[k].createdAt \in Nat
      BY <1>2, <1>3
    <3> QED
      BY <1>3, <3>1, <3>2
  <2>2. pc'[t] = "reading"
    BY <1>1 DEF SharedWell, Clocks
  <2> QED
    BY <1>1, <2>1, <2>2 DEF LookupWell, Holding, WhileReading, WhileScoring, WhenReturned
<1>8. ASSUME NEW u \in Threads \ {t}
      PROVE  LookupWell(u)'
  <2>1. UNCHANGED <<pc[u], query[u], readAt[u], candidates[u], hit[u], found[u]>>
    BY <1>1 DEF SharedWell, Clocks
  <2>2. LookupWell(u)
    BY DEF IInv
  <2> QED
    BY <1>1, <1>2, <1>3, <2>1, <2>2, LookupStays
<1> QED
  BY <1>4, <1>5, <1>6, <1>7, <1>8 DEF IInv, SharedWell

(* What Set leaves in the cache: the newest of what was there and the new  *)
(* entry.                                                                  *)
LEMMA SetFacts ==
  ASSUME SharedWell, NEW t \in Threads, NEW q \in Questions, Set(t, q)
  PROVE  LET entry == [vec |-> q.vec, scope |-> q.scope, answer |-> nextKey, createdAt |-> now]
             all == Keys \cup {nextKey}
         IN /\ entry \in Entry
            /\ nextKey \notin DOMAIN inserted /\ nextKey' = nextKey + 1 /\ nextKey <= MaxSets
            /\ DOMAIN inserted' = 1..nextKey
            /\ DOMAIN inserted' = DOMAIN inserted \cup {nextKey}
            /\ \A n \in DOMAIN inserted : inserted'[n] = inserted[n]
            /\ inserted'[nextKey] = entry
            /\ all \in SUBSET Nat /\ all \subseteq DOMAIN inserted'
            /\ IsFiniteSet(all) /\ Cardinality(all) <= MaxEntries + 1
            /\ Keys' = Newest(all)
            /\ \A k \in Keys' : entries'[k] = inserted'[k]
<1> DEFINE entry == [vec |-> q.vec, scope |-> q.scope, answer |-> nextKey, createdAt |-> now]
           all == Keys \cup {nextKey}
           with == [k \in all |-> IF k = nextKey THEN entry ELSE entries[k]]
<1>1. /\ nextKey \in Nat \ {0} /\ now \in Nat /\ MaxEntries \in Nat
      /\ DOMAIN inserted = 1..(nextKey - 1) /\ Keys \subseteq DOMAIN inserted
      /\ \A k \in Keys : entries[k] = inserted[k]
      /\ Cardinality(Keys) <= MaxEntries
  BY BoundsAssumption DEF SharedWell, Clocks, InsertedWell, EntriesWell
<1>2. /\ nextKey <= MaxSets /\ nextKey' = nextKey + 1
      /\ entries' = Only(with, Newest(DOMAIN with))
      /\ inserted' = [k \in 1..nextKey |-> IF k = nextKey THEN entry ELSE inserted[k]]
  BY DEF Set, NewKey
<1>3. entry \in Entry
  BY <1>1, QuestionsAssumption DEF Entry
<1>4. /\ nextKey \notin DOMAIN inserted
      /\ DOMAIN inserted' = 1..nextKey
      /\ DOMAIN inserted' = DOMAIN inserted \cup {nextKey}
      /\ \A n \in DOMAIN inserted : inserted'[n] = inserted[n]
      /\ inserted'[nextKey] = entry
  <2> HIDE DEF entry, with
  <2> QED
    BY <1>1, <1>2
<1>5. all \in SUBSET Nat /\ all \subseteq DOMAIN inserted'
  BY <1>1, <1>4
<1>6. IsFiniteSet(all) /\ Cardinality(all) <= MaxEntries + 1
  <2>1. IsFiniteSet(Keys) /\ Cardinality(Keys) \in Nat /\ Cardinality(Keys) <= MaxEntries
    BY KeysFinite
  <2>2. /\ IsFiniteSet(all)
        /\ Cardinality(all) = Cardinality(Keys) \/ Cardinality(all) = Cardinality(Keys) + 1
    BY <2>1, FS_AddElement
  <2> HIDE DEF all
  <2> QED
    BY <1>1, <2>1, <2>2
<1>7. Newest(all) \subseteq all
  BY DEF Newest
<1>8. Keys' = Newest(all) /\ \A k \in Newest(all) : entries'[k] = with[k]
  <2> HIDE DEF all, entry
  <2> QED
    BY <1>2 DEF Only, Keys
<1>9. \A k \in all : with[k] = inserted'[k]
  <2> HIDE DEF entry
  <2> QED
    BY <1>1, <1>4
<1> HIDE DEF entry, all, with
<1>10. \A k \in Keys' : entries'[k] = inserted'[k]
  BY <1>7, <1>8, <1>9
<1> QED
  BY <1>2, <1>3, <1>4, <1>5, <1>6, <1>8, <1>10 DEF entry, all

(* Set drops nothing early: what the eviction takes has MaxEntries younger *)
(* entries in the cache.                                                   *)
LEMMA SetIInv ==
  ASSUME IInv, NEW t \in Threads, NEW q \in Questions, Set(t, q)
  PROVE  IInv'
<1> DEFINE entry == [vec |-> q.vec, scope |-> q.scope, answer |-> nextKey, createdAt |-> now]
           all == Keys \cup {nextKey}
<1>1. /\ SharedWell /\ UNCHANGED <<now, pc, query, readAt, candidates, hit, found>>
  BY DEF IInv, Set, local
<1>2. /\ entry \in Entry
      /\ nextKey \notin DOMAIN inserted /\ nextKey' = nextKey + 1 /\ nextKey <= MaxSets
      /\ DOMAIN inserted' = 1..nextKey
      /\ DOMAIN inserted' = DOMAIN inserted \cup {nextKey}
      /\ \A n \in DOMAIN inserted : inserted'[n] = inserted[n]
      /\ inserted'[nextKey] = entry
      /\ all \in SUBSET Nat /\ all \subseteq DOMAIN inserted'
      /\ IsFiniteSet(all) /\ Cardinality(all) <= MaxEntries + 1
      /\ Keys' = Newest(all)
      /\ \A k \in Keys' : entries'[k] = inserted'[k]
  BY <1>1, SetFacts
<1>3. entry.answer = nextKey /\ entry.createdAt = now
  OBVIOUS
<1>4. nextKey \in all
  OBVIOUS
<1> HIDE DEF entry
<1>5. /\ nextKey \in Nat \ {0} /\ now \in Nat /\ MaxEntries \in Nat \ {0} /\ MaxSets \in Nat
      /\ DOMAIN inserted = 1..(nextKey - 1)
      /\ \A n \in DOMAIN inserted : inserted[n].createdAt \in Nat
  BY <1>1, BoundsAssumption DEF SharedWell, Clocks, InsertedWell, Entry
<1>6. Clocks'
  BY <1>1, <1>2, <1>5 DEF SharedWell, Clocks
<1>7. InsertedWell'
  <2>1. DOMAIN inserted' = 1..(nextKey' - 1)
    BY <1>2, <1>5
  <2>2. ASSUME NEW n \in DOMAIN inserted'
        PROVE  inserted'[n] \in Entry /\ inserted'[n].answer = n /\ inserted'[n].createdAt <= now'
    <3>1. CASE n \in DOMAIN inserted
      BY <1>1, <1>2, <3>1 DEF SharedWell, InsertedWell
    <3>2. CASE n = nextKey
      BY <1>1, <1>2, <1>3, <1>5, <3>2
    <3> QED
      BY <1>2, <3>1, <3>2
  <2> QED
    BY <2>1, <2>2 DEF InsertedWell
<1>8. EntriesWell'
  <2>1. Newest(all) \subseteq all /\ Cardinality(Newest(all)) <= MaxEntries
    <3> HIDE DEF all
    <3> QED
      BY <1>2, <1>4, NewestFacts
  <2> QED
    BY <1>2, <2>1 DEF EntriesWell
<1>9. DroppedInTime'
  <2> SUFFICES ASSUME NEW n \in DOMAIN inserted', n \notin Keys'
               PROVE  \/ now - inserted'[n].createdAt > TTL
                      \/ nextKey' - 1 - n >= MaxEntries
    BY <1>1 DEF DroppedInTime
  <2>1. CASE n \in all
    <3> DEFINE younger == {j \in all : j > n}
    <3>1. ~(Cardinality(younger) < MaxEntries)
      BY <1>2, <2>1 DEF Newest
    <3>2. n \in Nat /\ n <= nextKey
      BY <1>2, <1>5
    <3>3. younger \in SUBSET ((n + 1)..nextKey)
      BY <1>2, <1>5, <3>2
    <3>4. IsFiniteSet((n + 1)..nextKey) /\ Cardinality((n + 1)..nextKey) = nextKey - n
      <4>1. n + 1 \in Int /\ nextKey \in Int
        BY <1>5, <3>2
      <4>2. IsFiniteSet((n + 1)..nextKey)
            /\ Cardinality((n + 1)..nextKey)
                 = IF n + 1 > nextKey THEN 0 ELSE nextKey - (n + 1) + 1
        BY <4>1, FS_Interval
      <4> QED
        BY <1>5, <3>2, <4>2
    <3>5. Cardinality(younger) <= nextKey - n /\ Cardinality(younger) \in Nat
      BY <3>3, <3>4, FS_Subset, FS_CardinalityType
    <3> HIDE DEF younger
    <3> QED
      BY <1>2, <1>5, <3>1, <3>2, <3>5
  <2>2. CASE n \notin all
    <3>1. n \in DOMAIN inserted /\ n \notin Keys /\ inserted'[n] = inserted[n] /\ n \in Nat
      BY <1>2, <1>5, <2>2
    <3>2. now - inserted[n].createdAt > TTL \/ nextKey - 1 - n >= MaxEntries
      BY <1>1, <3>1 DEF SharedWell, DroppedInTime
    <3> QED
      BY <1>2, <1>5, <3>1, <3>2
  <2> QED
    BY <2>1, <2>2
<1>10. ASSUME NEW u \in Threads
       PROVE  LookupWell(u)'
  <2>1. LookupWell(u) /\ now' \in Nat /\ now <= now'
    BY <1>1, <1>5 DEF IInv
  <2>2. readAt[u] <= now
    BY <2>1 DEF LookupWell, Holding
  <2>3. ASSUME NEW k \in Keys'
        PROVE  \/ k \in Keys
               \/ inserted'[k].createdAt \in Nat /\ readAt[u] <= inserted'[k].createdAt
    <3>1. k \in all
      BY <1>2 DEF Newest
    <3> QED
      BY <1>2, <1>3, <1>5, <2>2, <3>1
  <2>4. UNCHANGED <<pc[u], query[u], readAt[u], candidates[u], hit[u], found[u]>>
    BY <1>1
  <2>5. \A n \in DOMAIN inserted : n \in DOMAIN inserted' /\ inserted'[n] = inserted[n]
    BY <1>2
  <2> QED
    BY <1>1, <2>1, <2>3, <2>4, <2>5, LookupStays
<1> QED
  BY <1>6, <1>7, <1>8, <1>9, <1>10 DEF IInv, SharedWell

LEMMA TickIInv ==
  ASSUME IInv, Tick
  PROVE  IInv'
<1>1. /\ SharedWell /\ now \in Nat /\ now' = now + 1
      /\ UNCHANGED <<entries, nextKey, inserted, pc, query, readAt, candidates, hit, found>>
      /\ Keys' = Keys
  BY DEF IInv, SharedWell, Clocks, Tick, local, Keys
<1>2. \A n \in DOMAIN inserted : inserted[n].createdAt \in Nat
  BY <1>1 DEF SharedWell, InsertedWell, Entry
<1>3. Clocks' /\ EntriesWell'
  BY <1>1 DEF SharedWell, Clocks, EntriesWell
<1>4. InsertedWell'
  BY <1>1, <1>2 DEF SharedWell, InsertedWell
<1>5. DroppedInTime'
  BY <1>1, <1>2, BoundsAssumption DEF SharedWell, DroppedInTime
<1>6. ASSUME NEW u \in Threads
      PROVE  LookupWell(u)'
  <2>1. LookupWell(u) /\ now' \in Nat /\ now <= now'
    BY <1>1 DEF IInv
  <2> QED
    BY <1>1, <2>1, LookupStays
<1> QED
  BY <1>3, <1>4, <1>5, <1>6 DEF IInv, SharedWell

(* The strengthened invariant holds throughout. *)
THEOREM Invariance == Spec => []IInv
<1>1. ASSUME IInv, [Next]_vars
      PROVE  IInv'
  <2>1. CASE \E t \in Threads, q \in Questions : Get(t, q) \/ Set(t, q)
    BY <1>1, <2>1, GetIInv, SetIInv
  <2>2. CASE \E t \in Threads : EvictExpired(t) \/ Snapshot(t) \/ ScoreCandidates(t) \/ Consume(t)
    BY <1>1, <2>2, EvictIInv, SnapshotIInv, ScoreIInv, ConsumeIInv
  <2>3. CASE Tick
    BY <1>1, <2>3, TickIInv
  <2>4. CASE UNCHANGED vars
    BY <1>1, <2>4
    DEF vars, IInv, SharedWell, Clocks, InsertedWell, EntriesWell, DroppedInTime,
        LookupWell, Holding, WhileReading, WhileScoring, WhenReturned, Eligible, Due, Keys
  <2> QED
    BY <1>1, <2>1, <2>2, <2>3, <2>4 DEF Next
<1> QED
  BY <1>1, InitIInv, PTL DEF Spec

-----------------------------------------------------------------------------
(* The theorems. *)

(* Type correctness, and that entries are capped whenever the lock is free *)
(* (cache.py:20-21, 82-84).                                                *)
THEOREM TypeCorrect == Spec => []TypeOK
<1>1. ASSUME IInv
      PROVE  TypeOK
  <2>1. SharedWell
    BY <1>1 DEF IInv
  <2>2. Keys \subseteq 1..(nextKey - 1) /\ \A k \in Keys : entries[k] \in Entry
    BY <2>1 DEF SharedWell, InsertedWell, EntriesWell
  <2>3. ASSUME NEW t \in Threads, NEW k \in DOMAIN candidates[t]
        PROVE  candidates[t][k] \in Entry
    <3>1. CASE pc[t] = "scoring"
      <4>1. k \in DOMAIN inserted /\ candidates[t][k] = inserted[k]
        BY <1>1, <2>3, <3>1 DEF IInv, LookupWell, WhileScoring
      <4> QED
        BY <2>1, <4>1 DEF SharedWell, InsertedWell
    <3>2. CASE pc[t] # "scoring"
      BY <1>1, <2>3, <3>2 DEF IInv, LookupWell, Holding
    <3> QED
      BY <3>1, <3>2
  <2> QED
    BY <2>1, <2>2, <2>3 DEF TypeOK, SharedWell, Clocks, EntriesWell
<1> QED
  BY <1>1, Invariance, PTL

(* An answer served is one that was stored, and it names which.            *)
LEMMA ServedWasInserted ==
  ASSUME IInv, NEW t \in Threads, Returned(t)
  PROVE  hit[t] = inserted[hit[t].answer] /\ Eligible(t, inserted[hit[t].answer])
<1>1. PICK n \in DOMAIN inserted : hit[t] = inserted[n] /\ Eligible(t, inserted[n])
  BY DEF Returned, IInv, LookupWell, WhenReturned
<1>2. inserted[n].answer = n
  BY DEF IInv, SharedWell, InsertedWell
<1> QED
  BY <1>1, <1>2

(* No answer leaves its scope, whatever the other threads do while a       *)
(* lookup runs (cache.py:98-99).                                           *)
THEOREM ScopesIsolated == Spec => []ScopeIsolation
<1>1. IInv => ScopeIsolation
  BY ServedWasInserted DEF ScopeIsolation, Eligible
<1> QED
  BY <1>1, Invariance, PTL

(* No answer is served that had expired when it was asked for              *)
(* (cache.py:56-65, 90).                                                   *)
THEOREM ServedFresh == Spec => []FreshWhenAsked
<1>1. IInv => FreshWhenAsked
  BY ServedWasInserted DEF FreshWhenAsked, Eligible
<1> QED
  BY <1>1, Invariance, PTL

(* Nothing is dropped before its time or its turn (cache.py:82-84).        *)
THEOREM KeptUntilDue == Spec => []NothingLostEarly
<1>1. IInv => NothingLostEarly
  BY DEF IInv, SharedWell, DroppedInTime, EntriesWell, NothingLostEarly
<1> QED
  BY <1>1, Invariance, PTL

(* No lookup misses, or answers with less than the best of, what was there *)
(* before it began and is there when it returns (cache.py:90-107).         *)
THEOREM NoHitMissed == Spec => []NoMissedHit
<1>1. ASSUME IInv
      PROVE  NoMissedHit
  <2>1. \A k \in Keys : entries[k] = inserted[k]
    BY <1>1 DEF IInv, SharedWell, EntriesWell
  <2> QED
    BY <1>1, <2>1 DEF NoMissedHit, IInv, LookupWell, WhenReturned, Due
<1> QED
  BY <1>1, Invariance, PTL

-----------------------------------------------------------------------------
(* The cache implements the abstract store. *)

Kept == {Strip(entries[k]) : k \in Keys}
View == [t \in Threads |-> LookupOf(t)]

LEMMA StripFacts ==
  /\ Strip(NoEntry) = NoEntry
  /\ \A e \in Entry : Strip(e) = [vec |-> e.vec, scope |-> e.scope, answer |-> e.answer]
  BY Shapes DEF Strip

(* A step of one thread changes its own lookup only. *)
LEMMA ViewMoves ==
  ASSUME NEW t \in Threads,
         \A u \in Threads \ {t} : UNCHANGED <<pc[u], query[u], hit[u], found[u]>>
  PROVE  View' = [View EXCEPT ![t] = LookupOf(t)']
<1>1. \A u \in Threads \ {t} : LookupOf(u)' = LookupOf(u)
  BY DEF LookupOf
<1> QED
  BY <1>1 DEF View

(* Each key shows as an entry of its own in the abstract store. *)
LEMMA ShownFacts ==
  ASSUME NEW stored, NEW S, IsFiniteSet(S),
         \A k \in S : stored[k] \in Entry /\ stored[k].answer = k
  PROVE  Cardinality({Strip(stored[k]) : k \in S}) = Cardinality(S)
<1> DEFINE T == {Strip(stored[k]) : k \in S}
           strip == [k \in S |-> Strip(stored[k])]
<1>1. \A k \in S : Strip(stored[k]).answer = k
  BY StripFacts
<1>2. strip \in Bijection(S, T)
  <2>1. strip \in [S -> T]
    OBVIOUS
  <2>2. \A a, b \in S : strip[a] = strip[b] => a = b
    BY <1>1
  <2>3. \A e \in T : \E k \in S : strip[k] = e
    OBVIOUS
  <2> HIDE DEF strip, T
  <2> QED
    BY <2>1, <2>2, <2>3 DEF Bijection, Injection, IsInjective, Surjection
<1> HIDE DEF strip, T
<1>3. ExistsBijection(S, T)
  BY <1>2 DEF ExistsBijection
<1>4. Cardinality(T) = Cardinality(S)
  BY <1>3, FS_Bijection
<1> QED
  BY <1>4 DEF T

LEMMA InitStore == Init => Store!Init
<1> SUFFICES ASSUME Init PROVE Store!Init
  OBVIOUS
<1>1. Keys = {}
  BY DEF Init, Keys
<1>2. \A t \in Threads : LookupOf(t) = NoQuery
  BY DEF Init, LookupOf
<1> QED
  BY <1>1, <1>2 DEF Store!Init, Store!NoQuery, NoQuery

(* The beginning of a lookup is the question. *)
LEMMA GetAsks ==
  ASSUME IInv, NEW t \in Threads, NEW q \in Questions, Get(t, q)
  PROVE  Store!Ask(t, q) /\ q \in Store!Query
<1>1. LookupOf(t) = NoQuery /\ LookupOf(t)' = q
  BY DEF Get, IInv, SharedWell, Clocks, LookupOf, LookupWell, Holding
<1>2. View' = [View EXCEPT ![t] = q]
  <2>1. \A u \in Threads \ {t} : UNCHANGED <<pc[u], query[u], hit[u], found[u]>>
    BY DEF Get, IInv, SharedWell, Clocks
  <2> QED
    BY <1>1, <2>1, ViewMoves
<1>3. Kept' = Kept
  BY DEF Get, shared, Kept, Keys
<1>4. q \in Store!Query
  BY QuestionsAssumption DEF Store!Query
<1> QED
  BY <1>1, <1>2, <1>3, <1>4 DEF Store!Ask, Store!NoQuery, NoQuery, View, Kept

(* The eviction of what has expired forgets it. *)
LEMMA EvictForgets ==
  ASSUME IInv, NEW t \in Threads, EvictExpired(t)
  PROVE  \E gone \in SUBSET Kept : Store!Forget(gone)
<1>1. Kept' \subseteq Kept
  <2>1. Keys' \subseteq Keys /\ \A k \in Keys' : entries'[k] = entries[k]
    BY DEF EvictExpired, Only, Keys
  <2>2. \A e \in Kept' : \E k \in Keys' : e = Strip(entries'[k])
    BY DEF Kept, Strip, NoEntry
  <2> QED
    BY <2>1, <2>2 DEF Kept
<1>2. View' = View
  <2>1. \A u \in Threads \ {t} : UNCHANGED <<pc[u], query[u], hit[u], found[u]>>
    BY DEF EvictExpired, IInv, SharedWell, Clocks
  <2>2. LookupOf(t)' = LookupOf(t)
    BY DEF EvictExpired, IInv, SharedWell, Clocks, LookupOf
  <2>3. View' = [View EXCEPT ![t] = View[t]]
    BY <2>1, <2>2, ViewMoves DEF View
  <2> QED
    BY <2>3 DEF View
<1>3. Kept' = Kept \ (Kept \ Kept')
  BY <1>1
<1> QED
  BY <1>2, <1>3 DEF Store!Forget, View, Kept

(* The instant of the copy is the hit or the miss. *)
LEMMA SnapshotAnswers ==
  ASSUME IInv, NEW t \in Threads, Snapshot(t)
  PROVE  Store!Miss(t) \/ \E e \in Kept : Store!Hit(t, e)
<1> DEFINE copy == Candidates(query[t].scope)
           best == Best(copy, query[t].vec)
<1>1. /\ SharedWell /\ LookupWell(t) /\ pc[t] = "reading" /\ query[t] \in Questions
      /\ \A k \in Keys : entries[k] = inserted[k] /\ k \in DOMAIN inserted
      /\ \A k \in Keys : inserted[k] \in Entry
  BY DEF Snapshot, IInv, LookupWell, Holding, SharedWell, EntriesWell, InsertedWell
<1>2. query[t] \in Store!Query /\ query[t].vec \in Vectors
  BY <1>1, QuestionsAssumption DEF Store!Query
<1>3. /\ DOMAIN copy = {k \in Keys : entries[k].scope = query[t].scope}
      /\ \A k \in DOMAIN copy : copy[k] = entries[k]
  BY DEF Candidates, Only
<1>4. LookupOf(t) = query[t] /\ LookupOf(t)' = Strip(best)
  BY <1>1 DEF Snapshot, SharedWell, Clocks, LookupOf
<1>5. View' = [View EXCEPT ![t] = Strip(best)] /\ View[t] = query[t]
  <2>1. \A u \in Threads \ {t} : UNCHANGED <<pc[u], query[u], hit[u], found[u]>>
    BY DEF Snapshot, IInv, SharedWell, Clocks
  <2> QED
    BY <1>4, <2>1, ViewMoves DEF View
<1>6. Kept' = Kept
  BY DEF Snapshot, shared, Kept, Keys
<1>7. DOMAIN copy \in SUBSET Nat /\ \A k \in DOMAIN copy : copy[k].vec \in Vectors
  <2>1. \A k \in DOMAIN copy : k \in DOMAIN inserted /\ copy[k] = inserted[k]
    BY <1>1, <1>3
  <2> HIDE DEF copy
  <2> QED
    BY <1>1, <1>2, <2>1, CopyFacts
<1>8. CASE /\ best = NoEntry
           /\ \A k \in DOMAIN copy : ~(Score[<<query[t].vec, copy[k].vec>>] >= Threshold)
  <2>1. ASSUME NEW e \in Store!Servable(query[t])
        PROVE  FALSE
    <3>1. /\ e \in Kept /\ e.scope = query[t].scope
          /\ Score[<<query[t].vec, e.vec>>] >= Threshold
      BY <2>1 DEF Store!Servable, Kept
    <3>2. PICK k \in Keys : e = Strip(entries[k])
      BY <3>1 DEF Kept
    <3>3. e.scope = entries[k].scope /\ e.vec = entries[k].vec
      BY <1>1, <3>2, StripFacts
    <3> HIDE DEF copy
    <3> QED
      BY <1>3, <1>8, <3>1, <3>3
  <2>2. Store!Servable(query[t]) = {}
    BY <2>1
  <2>3. View' = [View EXCEPT ![t] = NoEntry]
    BY <1>5, <1>8, StripFacts
  <2> QED
    BY <1>2, <1>5, <1>6, <2>2, <2>3 DEF Store!Miss, Store!NoEntry, NoEntry, View, Kept
<1>9. ASSUME NEW b \in DOMAIN copy, best = copy[b],
             Score[<<query[t].vec, copy[b].vec>>] >= Threshold
      PROVE  \E e \in Kept : Store!Hit(t, e)
  <2> HIDE DEF copy, best
  <2>1. /\ b \in Keys /\ entries[b].scope = query[t].scope /\ best = entries[b]
        /\ best \in Entry
    BY <1>1, <1>3, <1>9
  <2>2. /\ Strip(best) \in Kept /\ Strip(best).scope = query[t].scope
        /\ Strip(best).vec = best.vec /\ best.vec \in Vectors
    BY <2>1, StripFacts DEF Kept, Entry
  <2>3. <<query[t].vec, best.vec>> \in {p \in Vectors \X Vectors : Score[p] >= Threshold}
    BY <1>2, <1>9, <2>2
  <2>4. Strip(best) \in Store!Servable(query[t])
    BY <2>2, <2>3 DEF Store!Servable, Kept
  <2> QED
    BY <1>2, <1>5, <1>6, <2>2, <2>4 DEF Store!Hit, View, Kept
<1> HIDE DEF copy, best
<1>10. \/ /\ best = NoEntry
          /\ \A k \in DOMAIN copy : ~(Score[<<query[t].vec, copy[k].vec>>] >= Threshold)
       \/ \E b \in DOMAIN copy :
            best = copy[b] /\ Score[<<query[t].vec, copy[b].vec>>] >= Threshold
  BY <1>2, <1>7, BestFacts DEF best
<1> QED
  BY <1>8, <1>9, <1>10 DEF copy, best

(* Scoring the copy finds what was found at the instant it was taken. *)
LEMMA ScoreStutters ==
  ASSUME IInv, NEW t \in Threads, ScoreCandidates(t)
  PROVE  UNCHANGED <<Kept, View>>
<1>1. found[t] = Best(candidates[t], query[t].vec)
  BY DEF ScoreCandidates, IInv, LookupWell, WhileScoring
<1>2. LookupOf(t)' = LookupOf(t)
  BY <1>1 DEF ScoreCandidates, IInv, SharedWell, Clocks, LookupOf
<1>3. \A u \in Threads \ {t} : UNCHANGED <<pc[u], query[u], hit[u], found[u]>>
  BY DEF ScoreCandidates, IInv, SharedWell, Clocks
<1>4. View' = View
  BY <1>2, <1>3, ViewMoves DEF View
<1> QED
  BY <1>4 DEF ScoreCandidates, shared, Kept, Keys

LEMMA ConsumeConsumes ==
  ASSUME IInv, NEW t \in Threads, Consume(t)
  PROVE  Store!Consume(t)
<1>1. /\ pc[t] = "returned" /\ SharedWell
      /\ hit[t] # NoEntry => \E n \in DOMAIN inserted : hit[t] = inserted[n]
  BY DEF Consume, IInv, LookupWell, WhenReturned
<1>2. View[t] = Strip(hit[t])
  BY <1>1 DEF View, LookupOf
<1>3. Strip(hit[t]) \in Store!Entry \cup {NoEntry}
  <2>1. CASE hit[t] = NoEntry
    BY <2>1, StripFacts
  <2>2. ASSUME NEW n \in DOMAIN inserted, hit[t] = inserted[n]
        PROVE  Strip(hit[t]) \in Store!Entry
    <3>1. hit[t] \in Entry /\ hit[t].answer \in 1..MaxSets
      BY <1>1, <2>2, BoundsAssumption DEF SharedWell, InsertedWell, Clocks
    <3> QED
      BY <3>1, StripFacts DEF Store!Entry, Entry
  <2> QED
    BY <1>1, <2>1, <2>2
<1>4. LookupOf(t)' = NoQuery
  BY DEF Consume, IInv, SharedWell, Clocks, LookupOf
<1>5. \A u \in Threads \ {t} : UNCHANGED <<pc[u], query[u], hit[u], found[u]>>
  BY DEF Consume, IInv, SharedWell, Clocks
<1>6. View' = [View EXCEPT ![t] = NoQuery]
  BY <1>4, <1>5, ViewMoves
<1>7. Kept' = Kept
  BY DEF Consume, shared, Kept, Keys
<1> QED
  BY <1>2, <1>3, <1>6, <1>7
  DEF Store!Consume, Store!NoEntry, Store!NoQuery, NoEntry, NoQuery, View, Kept

(* An insertion keeps the entry, and pushes one out when the store is full *)
(* and only then.                                                          *)
LEMMA SetKeeps ==
  ASSUME IInv, NEW t \in Threads, NEW q \in Questions, Set(t, q)
  PROVE  \E e \in Store!Entry : Store!Keep(e)
<1> DEFINE entry == [vec |-> q.vec, scope |-> q.scope, answer |-> nextKey, createdAt |-> now]
           all == Keys \cup {nextKey}
           shown == {Strip(inserted'[k]) : k \in all}
<1>1. SharedWell /\ MaxEntries \in Nat \ {0} /\ nextKey \in Nat \ {0}
  BY BoundsAssumption DEF IInv, SharedWell, Clocks
<1>2. /\ entry \in Entry
      /\ nextKey \notin DOMAIN inserted /\ nextKey <= MaxSets
      /\ \A n \in DOMAIN inserted : inserted'[n] = inserted[n]
      /\ inserted'[nextKey] = entry
      /\ all \in SUBSET Nat /\ all \subseteq DOMAIN inserted'
      /\ IsFiniteSet(all) /\ Cardinality(all) <= MaxEntries + 1
      /\ Keys' = Newest(all)
      /\ \A k \in Keys' : entries'[k] = inserted'[k]
  BY <1>1, SetFacts
<1>3. entry.answer = nextKey /\ nextKey \in all /\ all = Keys \cup {nextKey}
  OBVIOUS
<1>4. SharedWell'
  BY SetIInv DEF IInv
<1> HIDE DEF entry, all
<1>5. Strip(entry) \in Store!Entry
  <2>1. entry.answer \in 1..MaxSets
    BY <1>1, <1>2, <1>3, BoundsAssumption
  <2> QED
    BY <1>2, <2>1, StripFacts DEF Store!Entry, Entry
<1>6. Kept = {Strip(inserted[k]) : k \in Keys} /\ Keys \subseteq DOMAIN inserted
  BY <1>1 DEF Kept, SharedWell, EntriesWell
<1>7. shown = Kept \cup {Strip(entry)}
  BY <1>2, <1>3, <1>6
<1>8. Cardinality(shown) = Cardinality(all)
  <2>1. \A k \in all : inserted'[k] \in Entry /\ inserted'[k].answer = k
    BY <1>2, <1>4 DEF SharedWell, InsertedWell
  <2> HIDE DEF shown
  <2>2. Cardinality({Strip(inserted'[k]) : k \in all}) = Cardinality(all)
    BY <1>2, <2>1, ShownFacts
  <2> QED
    BY <2>2 DEF shown
<1>9. Kept' = {Strip(inserted'[k]) : k \in Newest(all)}
  BY <1>2 DEF Kept, Strip, NoEntry
<1>10. View' = View
  BY DEF Set, local, View, LookupOf
<1>11. Cardinality(all) \in Nat
  BY <1>2, FS_CardinalityType
<1>12. /\ Cardinality(all) <= MaxEntries => Newest(all) = all
       /\ Cardinality(all) > MaxEntries => Newest(all) = all \ {Oldest(all)}
  BY <1>2, <1>3, NewestFacts
<1>13. CASE Cardinality(all) <= MaxEntries
  <2>1. Kept' = shown
    BY <1>9, <1>12, <1>13
  <2> HIDE DEF shown
  <2>2. /\ Cardinality(Kept \cup {Strip(entry)}) <= MaxEntries
        /\ Kept' = Kept \cup {Strip(entry)}
    BY <1>7, <1>8, <1>13, <2>1
  <2>3. Store!Keep(Strip(entry))
    BY <1>10, <2>2 DEF Store!Keep, Store!Cardinality, Cardinality, View, Kept
  <2> QED
    BY <1>5, <2>3
<1>14. CASE Cardinality(all) > MaxEntries
  <2> DEFINE out == Oldest(all)
  <2>1. out \in all /\ \A j \in all : out <= j
    BY <1>2, <1>3, OldestFacts
  <2>2. Newest(all) = all \ {out}
    BY <1>12, <1>14
  <2>3. out \in Keys /\ out # nextKey
    <3>1. Keys # {}
      <4> SUFFICES ASSUME Keys = {} PROVE FALSE
        OBVIOUS
      <4>1. all = {nextKey}
        BY <1>3
      <4>2. Cardinality(all) = 1
        BY <4>1, FS_Singleton
      <4> QED
        BY <1>1, <1>14, <4>2
    <3>2. PICK k \in Keys : TRUE
      BY <3>1
    <3>3. k \in 1..(nextKey - 1) /\ k \in all
      BY <1>1, <1>3, <3>2 DEF SharedWell, InsertedWell, EntriesWell
    <3>4. out <= k /\ out \in Nat
      BY <1>2, <2>1, <3>3
    <3> HIDE DEF out
    <3>5. out # nextKey
      BY <1>1, <3>3, <3>4
    <3> QED
      BY <1>3, <2>1, <3>5
  <2> HIDE DEF out
  <2>4. \A k \in all : Strip(inserted'[k]).answer = k
    BY <1>2, <1>4, StripFacts DEF SharedWell, InsertedWell
  <2>5. Kept' = shown \ {Strip(inserted'[out])}
    <3>1. ASSUME NEW e \in Kept'
          PROVE  e \in shown /\ e # Strip(inserted'[out])
      <4>1. PICK k \in all \ {out} : e = Strip(inserted'[k])
        BY <1>9, <2>2, <3>1
      <4> QED
        BY <2>1, <2>4, <4>1
    <3>2. ASSUME NEW e \in shown, e # Strip(inserted'[out])
          PROVE  e \in Kept'
      BY <1>9, <2>2, <3>2
    <3> HIDE DEF shown
    <3> QED
      BY <3>1, <3>2
  <2>6. Strip(inserted'[out]) \in Kept \ {Strip(entry)}
    <3>1. inserted'[out] = inserted[out] /\ Strip(inserted[out]) \in Kept
      BY <1>2, <1>6, <2>3
    <3>2. Strip(entry).answer = nextKey /\ Strip(inserted'[out]).answer = out
      BY <1>2, <1>3, <2>1, <2>4
    <3> QED
      BY <2>3, <3>1, <3>2
  <2> HIDE DEF shown
  <2>7. /\ ~(Cardinality(Kept \cup {Strip(entry)}) <= MaxEntries)
        /\ Kept' = (Kept \cup {Strip(entry)}) \ {Strip(inserted'[out])}
    BY <1>1, <1>7, <1>8, <1>11, <1>14, <2>5
  <2>8. Store!Keep(Strip(entry))
    BY <1>10, <2>6, <2>7 DEF Store!Keep, Store!Cardinality, Cardinality, View, Kept
  <2> QED
    BY <1>5, <2>8
<1> QED
  BY <1>1, <1>11, <1>13, <1>14

(* Each step maps to one of the store's, or to none. *)
LEMMA NextStore ==
  ASSUME IInv, [Next]_vars
  PROVE  [Store!Next]_(Store!vars)
<1>1. CASE \E t \in Threads, q \in Questions : Get(t, q) \/ Set(t, q)
  BY <1>1, GetAsks, SetKeeps DEF Store!Next
<1>2. CASE \E t \in Threads : EvictExpired(t) \/ Snapshot(t) \/ Consume(t)
  BY <1>2, EvictForgets, SnapshotAnswers, ConsumeConsumes DEF Store!Next, Kept
<1>3. CASE \E t \in Threads : ScoreCandidates(t)
  BY <1>3, ScoreStutters DEF Store!vars, Kept, View
<1>4. CASE Tick
  BY <1>4 DEF Tick, local, Store!vars, Kept, View, LookupOf, Keys
<1>5. CASE UNCHANGED vars
  BY <1>5 DEF vars, Store!vars, LookupOf, Keys
<1> QED
  BY <1>1, <1>2, <1>3, <1>4, <1>5 DEF Next

(* Lookups and insertions by any number of threads look atomic, and a      *)
(* lookup misses only when nothing servable was there at one instant of it *)
(* (cache.py:56-107).                                                      *)
THEOREM CacheImplementsStore == Spec => ImplementsStore
  BY InitStore, NextStore, Invariance, PTL DEF Spec, ImplementsStore, Store!Spec
=============================================================================
