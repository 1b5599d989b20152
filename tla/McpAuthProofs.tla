---------------------------- MODULE McpAuthProofs ----------------------------
(***************************************************************************)
(* McpAuth, proved for every set of connections, keys, key sets, tokens    *)
(* and tools, every cache lifetime and any clock adjustment: types, how    *)
(* long a withdrawn key lives, why a good token may be refused, and whose  *)
(* name a call is recorded in.  And Discovery, for every way to write the  *)
(* resource URL: how a client comes by a token in the first place.         *)
(***************************************************************************)
EXTENDS McpAuth, Discovery, SequenceTheorems, TLAPS

(* The cached set and the published one disagree only about keys that were *)
(* published or withdrawn after the fetch: no longer ago than the cached   *)
(* set is old, by a clock that never was set back.                         *)
CacheTracksProvider ==
  jwks # NoKeys =>
    \A k \in Keys :
      (k \in ToSet(jwks) <=> k \in ToSet(published)) \/ since[k] <= age + setBack

(* Keys on their way disagree with the published ones only about keys that *)
(* changed since the answer; these changed after the fetch began, which is *)
(* the time the set will be stamped with.                                  *)
ResponseTracksProvider ==
  /\ response # NoKeys => Blocked
  /\ \A k \in changed : response # NoKeys /\ since[k] <= pending + setBack
  /\ response # NoKeys =>
       \A k \in Keys : (k \in ToSet(response) <=> k \in ToSet(published)) \/ k \in changed

(* What a request let through holds is its caller's.                       *)
HeldBy(r) ==
  /\ stage[r] = "fetching" => mode = "jwt"
  /\ stage[r] \in {"accepted", "tool", "done"} => claims[r] = Caller(r)
  /\ stage[r] \in {"tool", "done"} => call[r].subject = Caller(r)
  /\ stage[r] = "done" =>
       /\ \E outcome \in {"ok", "error"} :
            records[r] = (IF call[r].tool = "search_docs"
                          THEN <<Record("search", Caller(r), outcome)>> ELSE << >>)
                         \o <<Record(call[r].tool, Caller(r), outcome)>>
       /\ call[r].tool = "ask" =>
            scope[r] = IF Caller(r) = None THEN <<"*">> ELSE <<"mcp", Caller(r)>>

HistoriesTyped == DOMAIN records = Requests /\ DOMAIN scope = Requests

IInv ==
  /\ TypeOK /\ CacheTracksProvider /\ ResponseTracksProvider
  /\ HistoriesTyped /\ \A r \in Requests : HeldBy(r)

-----------------------------------------------------------------------------
(* Two records, one after the other. *)
LEMMA TwoInOrder ==
  ASSUME NEW x, NEW y
  PROVE  <<x>> \o <<y>> = <<x, y>>
<1>1. <<x>> \in Seq({x, y}) /\ <<y>> \in Seq({x, y}) /\ <<x, y>> \in Seq({x, y})
  OBVIOUS
<1>2. /\ <<x>> \o <<y>> \in Seq({x, y})
      /\ Len(<<x>> \o <<y>>) = 2
      /\ \A i \in 1..2 : (<<x>> \o <<y>>)[i] = IF i <= 1 THEN <<x>>[i] ELSE <<y>>[i - 1]
  BY <1>1, ConcatProperties
<1>3. \A i \in 1..2 : (<<x>> \o <<y>>)[i] = <<x, y>>[i]
  BY <1>2
<1>4. Len(<<x, y>>) = 2
  OBVIOUS
<1> QED BY <1>1, <1>2, <1>3, <1>4, SeqEqual

(* A key that a set yields is in the set. *)
LEMMA FoundKeyIsThere ==
  ASSUME NEW keys \in Seq(Keys), NEW kid \in Keys \cup {None}, NEW k \in Keys,
         FoundKey(keys, kid) = k
  PROVE  k \in ToSet(keys)
<1>1. CASE kid = None /\ keys # << >>
  <2>1. 1 \in DOMAIN keys
    BY <1>1
  <2> QED BY <1>1, <2>1 DEF FoundKey, ToSet
<1>2. CASE ~(kid = None /\ keys # << >>)
  BY <1>2, KeysAssumption DEF FoundKey
<1> QED BY <1>1, <1>2

(* A token that names a key of the set, and otherwise fits, verifies. *)
LEMMA GoodVerifies ==
  ASSUME NEW keys \in Seq(Keys), NEW t \in Tokens, Good(t), t.key \in ToSet(keys)
  PROVE  Verified(t, keys)
<1>1. t.key \in Keys
  BY TokensAssumption DEF Token
<1>2. t.kid # None
  BY <1>1, KeysAssumption DEF Good
<1> QED BY <1>2 DEF Good, Verified, FoundKey

(* The saturating age. *)
LEMMA OlderBounds ==
  ASSUME NEW n \in Int, n <= Cap
  PROVE  Older(n) \in Int /\ n <= Older(n) /\ Older(n) <= n + 1 /\ Older(n) <= Cap
         /\ (n < Cap => Older(n) = n + 1) /\ (n = Cap => Older(n) = Cap)
BY AgesAssumption DEF Older, Cap

LEMMA InitIInv == Init => IInv
<1> SUFFICES ASSUME Init PROVE IInv
  OBVIOUS
<1>1. TypeOK
  BY AgesAssumption DEF Init, TypeOK, Cap, Stages
<1>2. CacheTracksProvider /\ ResponseTracksProvider
  BY DEF Init, CacheTracksProvider, ResponseTracksProvider
<1>3. HistoriesTyped
  BY DEF Init, HistoriesTyped
<1>4. \A r \in Requests : HeldBy(r)
  BY DEF Init, HeldBy
<1> QED BY <1>1, <1>2, <1>3, <1>4 DEF IInv

-----------------------------------------------------------------------------
(* Types.                                                                  *)

LEMMA DecideTyped ==
  ASSUME TypeOK, NEW r \in Requests, NEW t \in Tokens, NEW keys,
         Begun(r), Decide(r, t, keys)
  PROVE  /\ stage' \in [Requests -> Stages] /\ claims' \in [Requests -> Subjects \cup {None}]
         /\ stage'[r] \in {"401", "403", "accepted"}
         /\ \A q \in Requests \ {r} : stage'[q] = stage[q] /\ claims'[q] = claims[q]
         /\ stage'[r] \in {"401", "403"} => claims'[r] = None
<1>1. t.sub \in Subjects \cup {None}
  BY TokensAssumption DEF Token
<1> QED BY <1>1 DEF Decide, Refuse, Enter, Context, TypeOK, Begun, Stages

LEMMA ArrivalTyped ==
  ASSUME TypeOK, NEW r \in Requests, NEW t \in Tokens,
         Unverified(r, t) \/ Unreadable(r, t) \/ VerifyCached(r, t) \/ Fetch(r, t)
  PROVE  TypeOK'
<1> USE DEF TypeOK, Arrive, Stages
<1>0. /\ token' \in [Requests -> Tokens \cup {NoToken}] /\ token'[r] \in Tokens
      /\ \A q \in Requests \ {r} : token'[q] = token[q]
  BY DEF Unverified, Unreadable, VerifyCached, Fetch
<1>1. CASE Unverified(r, t)
  BY <1>0, <1>1 DEF Unverified, Enter, Refuse, Context, worldVars
<1>2. CASE Unreadable(r, t)
  BY <1>0, <1>2 DEF Unreadable, Refuse, worldVars
<1>3. CASE VerifyCached(r, t)
  <2>1. /\ stage' \in [Requests -> Stages] /\ claims' \in [Requests -> Subjects \cup {None}]
        /\ stage'[r] \in {"401", "403", "accepted"}
        /\ \A q \in Requests \ {r} : stage'[q] = stage[q] /\ claims'[q] = claims[q]
        /\ stage'[r] \in {"401", "403"} => claims'[r] = None
    BY <1>3, DecideTyped DEF VerifyCached, Begun
  <2> QED BY <1>0, <1>3, <2>1 DEF VerifyCached, worldVars
<1>4. CASE Fetch(r, t)
  BY <1>0, <1>4, AgesAssumption DEF Fetch, worldVars, Cap
<1> QED BY <1>1, <1>2, <1>3, <1>4

LEMMA ProgressTyped ==
  ASSUME TypeOK, NEW r \in Requests, Progress(r)
  PROVE  TypeOK'
<1> USE DEF TypeOK, Stages, Progress
<1>1. CASE FetchAnswered(r)
  <2>1. /\ stage' \in [Requests -> Stages] /\ claims' \in [Requests -> Subjects \cup {None}]
        /\ stage'[r] \in {"401", "403", "accepted"}
        /\ \A q \in Requests \ {r} : stage'[q] = stage[q] /\ claims'[q] = claims[q]
        /\ stage'[r] \in {"401", "403"} => claims'[r] = None
    BY <1>1, DecideTyped DEF FetchAnswered, Begun
  <2>2. 0 \in (-setBack)..Cap
    BY AgesAssumption DEF Cap
  <2> QED BY <1>1, <2>1, <2>2 DEF FetchAnswered, FetchEnds, providerVars
<1>2. CASE FetchFailed(r)
  BY <1>2, AgesAssumption DEF FetchFailed, FetchEnds, Refuse, providerVars, Cap
<1>3. CASE CallTool(r)
  BY <1>3 DEF CallTool, Subject, Context, worldVars, cacheVars
<1>4. CASE ToolEnds(r)
  BY <1>4 DEF ToolEnds, worldVars, cacheVars
<1>5. CASE Respond(r)
  BY <1>5 DEF Respond, Context, worldVars, cacheVars
<1> QED BY <1>1, <1>2, <1>3, <1>4, <1>5

LEMMA WorldTyped ==
  ASSUME TypeOK, ProviderAnswers \/ Rotate \/ Outage \/ Tick \/ SetBack
  PROVE  TypeOK'
<1> USE DEF TypeOK, requestVars
<1>1. CASE Rotate
  BY <1>1, AgesAssumption DEF Rotate, cacheVars, Cap
<1>2. CASE Outage
  BY <1>2 DEF Outage, cacheVars
<1>3. CASE Tick
  <2>1. \A n \in Int : n <= Cap => Older(n) \in Int /\ n <= Older(n) /\ Older(n) <= Cap
    BY OlderBounds
  <2>2. age' \in (-setBack)..Cap /\ pending' \in (-setBack)..Cap
    BY <1>3, <2>1, AgesAssumption DEF Tick, Cap
  <2>3. since' \in [Keys -> 0..Cap]
    BY <1>3, <2>1, AgesAssumption DEF Tick, Cap
  <2> QED BY <1>3, <2>2, <2>3 DEF Tick
<1>4. CASE SetBack
  BY <1>4, AgesAssumption DEF SetBack, Cap
<1>5. CASE ProviderAnswers
  BY <1>5 DEF ProviderAnswers, worldVars
<1> QED BY <1>1, <1>2, <1>3, <1>4, <1>5

LEMMA NextTyped == TypeOK /\ [Next]_vars => TypeOK'
<1> SUFFICES ASSUME TypeOK, [Next]_vars PROVE TypeOK'
  OBVIOUS
<1>1. CASE Next
  BY <1>1, ArrivalTyped, ProgressTyped, WorldTyped DEF Next, Verify
<1>2. CASE UNCHANGED vars
  BY <1>2 DEF TypeOK, vars
<1> QED BY <1>1, <1>2

(* The verifier, its requests and the provider stay within their types. *)
THEOREM TypeCorrect == Spec => []TypeOK
<1>1. Init => TypeOK
  BY InitIInv DEF IInv
<1> QED BY <1>1, NextTyped, PTL DEF Spec

-----------------------------------------------------------------------------
(* The cached keys.                                                        *)

LEMMA StepTracks ==
  ASSUME TypeOK, CacheTracksProvider, ResponseTracksProvider, [Next]_vars
  PROVE  CacheTracksProvider'
<1> USE DEF CacheTracksProvider
<1>1. CASE \E r \in Requests : FetchAnswered(r)
  BY <1>1 DEF FetchAnswered, providerVars, ResponseTracksProvider
<1>2. CASE Rotate
  <2> SUFFICES ASSUME jwks' # NoKeys, NEW k \in Keys
               PROVE  (k \in ToSet(jwks') <=> k \in ToSet(published')) \/ since'[k] <= age' + setBack'
    OBVIOUS
  <2>1. jwks' = jwks /\ age' = age /\ setBack' = setBack /\ 0 <= age + setBack
    BY <1>2 DEF Rotate, cacheVars, TypeOK
  <2>2. CASE k \in ToSet(published) <=> k \in ToSet(published')
    <3>1. since'[k] = since[k]
      BY <1>2, <2>2 DEF Rotate, TypeOK
    <3> QED BY <2>1, <2>2, <3>1
  <2>3. CASE ~(k \in ToSet(published) <=> k \in ToSet(published'))
    <3>1. since'[k] = 0
      BY <1>2, <2>3 DEF Rotate, TypeOK
    <3> QED BY <2>1, <3>1
  <2> QED BY <2>2, <2>3
<1>3. CASE Tick
  <2> SUFFICES ASSUME jwks' # NoKeys, NEW k \in Keys
               PROVE  (k \in ToSet(jwks') <=> k \in ToSet(published')) \/ since'[k] <= age' + setBack'
    OBVIOUS
  <2>1. jwks' = jwks /\ published' = published /\ setBack' = setBack
    BY <1>3 DEF Tick
  <2>2. /\ age \in Int /\ age <= Cap /\ since[k] \in Int /\ since[k] <= Cap
        /\ setBack \in Int /\ 0 <= setBack /\ Cap \in Int
    BY AgesAssumption DEF TypeOK, Cap
  <2>3. since'[k] = Older(since[k]) /\ age' = Older(age)
    BY <1>3 DEF Tick
  <2>4. since[k] <= age + setBack => since'[k] <= age' + setBack'
    <3>1. /\ Older(age) \in Int /\ (age < Cap => Older(age) = age + 1) /\ (age = Cap => Older(age) = Cap)
      BY <2>2, OlderBounds
    <3>2. Older(since[k]) \in Int /\ Older(since[k]) <= since[k] + 1 /\ Older(since[k]) <= Cap
      BY <2>2, OlderBounds
    <3> QED BY <2>1, <2>2, <2>3, <3>1, <3>2
  <2> QED BY <2>1, <2>4
<1>4. CASE SetBack
  <2>1. PICK by \in 1..(MaxSetBack - setBack) : setBack' = setBack + by /\ age' = age - by
    BY <1>4 DEF SetBack
  <2>2. age' + setBack' = age + setBack
    BY <2>1, AgesAssumption DEF TypeOK
  <2> QED BY <1>4, <2>2 DEF SetBack
<1>5. ASSUME NEW r \in Requests,
             Verify(r) \/ FetchFailed(r) \/ CallTool(r) \/ ToolEnds(r) \/ Respond(r)
      PROVE  CacheTracksProvider'
  BY <1>5 DEF Verify, Unverified, Unreadable, VerifyCached, Fetch, Arrive, FetchFailed, CallTool,
              ToolEnds, Respond, cacheVars, providerVars, worldVars
<1>6. CASE ProviderAnswers \/ Outage \/ UNCHANGED vars
  BY <1>6 DEF ProviderAnswers, Outage, vars, cacheVars, worldVars
<1> QED BY <1>1, <1>2, <1>3, <1>4, <1>5, <1>6 DEF Next, Progress

LEMMA ResponseStepTracks ==
  ASSUME TypeOK, ResponseTracksProvider, [Next]_vars
  PROVE  ResponseTracksProvider'
<1> USE DEF ResponseTracksProvider
<1>1. CASE \E r \in Requests : FetchAnswered(r) \/ FetchFailed(r)
  BY <1>1 DEF FetchAnswered, FetchFailed, FetchEnds
<1>2. CASE \E r \in Requests : Verify(r)
  <2>1. PICK r \in Requests, t \in Tokens :
          Unverified(r, t) \/ Unreadable(r, t) \/ VerifyCached(r, t) \/ Fetch(r, t)
    BY <1>2 DEF Verify
  <2>2. response = NoKeys /\ changed = {}
    BY <2>1 DEF Unverified, Unreadable, VerifyCached, Fetch, Arrive
  <2>3. response' = response /\ changed' = changed
    BY <2>1 DEF Unverified, Unreadable, VerifyCached, Fetch, Arrive, worldVars
  <2> QED BY <2>2, <2>3
<1>3. ASSUME NEW r \in Requests, CallTool(r) \/ ToolEnds(r) \/ Respond(r)
      PROVE  ResponseTracksProvider'
  <2>1. \A q \in Requests : stage[q] = "fetching" => stage'[q] = "fetching"
    BY <1>3 DEF CallTool, ToolEnds, Respond, TypeOK
  <2>2. Blocked => Blocked'
    BY <2>1 DEF Blocked
  <2> QED BY <1>3, <2>2 DEF CallTool, ToolEnds, Respond, cacheVars, worldVars
<1>4. CASE ProviderAnswers
  BY <1>4 DEF ProviderAnswers, requestVars, worldVars, Blocked
<1>5. CASE Rotate
  <2>1. /\ response' = response /\ pending' = pending /\ setBack' = setBack
        /\ Blocked' = Blocked /\ 0 <= pending + setBack
    BY <1>5 DEF Rotate, cacheVars, requestVars, Blocked, TypeOK
  <2>2. CASE response = NoKeys
    BY <1>5, <2>1, <2>2 DEF Rotate
  <2>3. CASE response # NoKeys
    <3>1. changed' = changed \cup
            {k \in Keys : (k \in ToSet(published)) # (k \in ToSet(published'))}
      BY <1>5, <2>3 DEF Rotate
    <3>2. \A k \in Keys : since'[k] = since[k] \/ since'[k] = 0
      BY <1>5 DEF Rotate, TypeOK
    <3>3. ASSUME NEW k \in changed'
          PROVE  since'[k] <= pending' + setBack'
      <4>1. CASE k \in changed
        BY <2>1, <3>2, <4>1 DEF TypeOK
      <4>2. CASE k \notin changed
        <5>1. k \in Keys /\ ~(k \in ToSet(published) <=> k \in ToSet(published'))
          BY <3>1, <4>2
        <5>2. since'[k] = 0
          BY <1>5, <5>1 DEF Rotate, TypeOK
        <5> QED BY <2>1, <5>2
      <4> QED BY <4>1, <4>2
    <3>4. ASSUME NEW k \in Keys
          PROVE  (k \in ToSet(response') <=> k \in ToSet(published')) \/ k \in changed'
      BY <2>1, <2>3, <3>1
    <3> QED BY <2>1, <2>3, <3>3, <3>4
  <2> QED BY <2>2, <2>3
<1>6. CASE Tick
  <2>1. /\ response' = response /\ changed' = changed /\ published' = published
        /\ setBack' = setBack /\ Blocked' = Blocked
    BY <1>6 DEF Tick, requestVars, Blocked
  <2>2. ASSUME NEW k \in changed PROVE since'[k] <= pending' + setBack'
    <3>1. k \in Keys /\ Blocked /\ since[k] <= pending + setBack
      BY DEF TypeOK
    <3>2. since'[k] = Older(since[k]) /\ pending' = Older(pending)
      BY <1>6, <3>1 DEF Tick
    <3>3. /\ pending \in Int /\ pending <= Cap /\ since[k] \in Int /\ since[k] <= Cap
          /\ setBack \in Int /\ 0 <= setBack /\ Cap \in Int
      BY <3>1, AgesAssumption DEF TypeOK, Cap
    <3>4. /\ Older(pending) \in Int /\ (pending < Cap => Older(pending) = pending + 1)
          /\ (pending = Cap => Older(pending) = Cap)
      BY <3>3, OlderBounds
    <3>5. Older(since[k]) \in Int /\ Older(since[k]) <= since[k] + 1 /\ Older(since[k]) <= Cap
      BY <3>3, OlderBounds
    <3> QED BY <2>1, <3>1, <3>2, <3>3, <3>4, <3>5
  <2> QED BY <2>1, <2>2
<1>7. CASE SetBack
  <2>1. PICK by \in 1..(MaxSetBack - setBack) :
          setBack' = setBack + by /\ pending' = IF Blocked THEN pending - by ELSE 0
    BY <1>7 DEF SetBack
  <2>2. /\ response' = response /\ changed' = changed /\ published' = published
        /\ since' = since /\ Blocked' = Blocked
    BY <1>7 DEF SetBack, requestVars, Blocked
  <2>3. Blocked => pending' + setBack' = pending + setBack
    BY <2>1, AgesAssumption DEF TypeOK
  <2> QED BY <2>2, <2>3
<1>8. CASE Outage \/ UNCHANGED vars
  BY <1>8 DEF Outage, vars, cacheVars, requestVars, Blocked
<1> QED BY <1>1, <1>2, <1>3, <1>4, <1>5, <1>6, <1>7, <1>8 DEF Next, Progress

TrackingInv == TypeOK /\ CacheTracksProvider /\ ResponseTracksProvider

LEMMA TrackingHolds == Spec => []TrackingInv
<1>1. Init => TrackingInv
  BY InitIInv DEF IInv, TrackingInv
<1>2. TrackingInv /\ [Next]_vars => TrackingInv'
  BY NextTyped, StepTracks, ResponseStepTracks DEF TrackingInv
<1> QED BY <1>1, <1>2, PTL DEF Spec

(* Only these two steps decide on a token in mode "jwt", beside the ones   *)
(* that refuse it unread or for want of an answer.                         *)
LEMMA OnlyVerdicts ==
  ASSUME TypeOK, [Next]_vars, NEW r \in Requests, Begun(r), ~Begun(r)'
  PROVE  \/ \E t \in Tokens : (VerifyCached(r, t) \/ Unverified(r, t) \/ Unreadable(r, t))
                              /\ token'[r] = t
         \/ FetchAnswered(r) /\ token'[r] = token[r] /\ token[r] \in Tokens
         \/ FetchFailed(r)
<1> USE DEF TypeOK, Begun
<1>1. ASSUME NEW q \in Requests, Verify(q) PROVE q = r
  <2> SUFFICES ASSUME q # r PROVE stage'[r] = stage[r]
    OBVIOUS
  <2> QED BY <1>1 DEF Verify, Unverified, Unreadable, VerifyCached, Fetch, Arrive, Decide, Refuse, Enter
<1>2. ASSUME NEW q \in Requests, Progress(q) PROVE q = r
  <2> SUFFICES ASSUME q # r PROVE stage'[r] = stage[r]
    OBVIOUS
  <2> QED BY <1>2 DEF Progress, FetchAnswered, FetchFailed, CallTool, ToolEnds, Respond, Decide, Refuse, Enter
<1>3. CASE ProviderAnswers \/ Rotate \/ Outage \/ Tick \/ SetBack \/ UNCHANGED vars
  BY <1>3 DEF ProviderAnswers, Rotate, Outage, Tick, SetBack, vars, requestVars
<1>4. CASE Verify(r)
  BY <1>4 DEF Verify, Arrive, Unverified, Unreadable, VerifyCached, Fetch
<1>5. CASE Progress(r)
  BY <1>5 DEF Progress, FetchAnswered, CallTool, ToolEnds, Respond
<1> QED BY <1>1, <1>2, <1>3, <1>4, <1>5 DEF Next

(* A withdrawn key is accepted for less than a cache lifetime, whatever    *)
(* fetches fail, however the keys rotate; a clock set back adds no more    *)
(* than what it was set back by, and an answer overtaken by the withdrawal *)
(* decides one request more.                                               *)
THEOREM WithdrawnKeysDie == Spec => WithdrawnKeysAgeOut
<1> DEFINE A == \A r \in Requests :
       Begun(r) /\ stage'[r] \in {"accepted", "403"} /\ mode = "jwt"
         => LET k == token'[r].key
            IN  k \in ToSet(published) \/ Recent(k) \/ Overtaken(r, k)
<1>1. ASSUME TrackingInv, [Next]_vars PROVE A
  <2> SUFFICES ASSUME NEW r \in Requests, Begun(r), stage'[r] \in {"accepted", "403"}, mode = "jwt"
               PROVE  \/ token'[r].key \in ToSet(published) \/ Recent(token'[r].key)
                      \/ Overtaken(r, token'[r].key)
    OBVIOUS
  <2>1. /\ TypeOK /\ CacheTracksProvider /\ ResponseTracksProvider
        /\ \A t \in Tokens : t.key \in Keys /\ t.kid \in Keys \cup {None}
    BY <1>1, TokensAssumption DEF TrackingInv, Token
  <2>2. ~Begun(r)'
    BY DEF Begun
  <2>3. CASE \E t \in Tokens : VerifyCached(r, t) /\ token'[r] = t
    <3>1. PICK t \in Tokens : VerifyCached(r, t) /\ token'[r] = t
      BY <2>3
    <3>2. Fresh /\ Verified(t, jwks) /\ jwks \in Seq(Keys)
      BY <2>1, <3>1, KeysAssumption
      DEF VerifyCached, Arrive, Decide, Refuse, Enter, TypeOK, Stages, Fresh
    <3>3. t.key \in ToSet(jwks)
      BY <2>1, <3>2, FoundKeyIsThere DEF Verified
    <3>4. t.key \in ToSet(published) \/ since[t.key] <= age + setBack
      BY <2>1, <3>2, <3>3 DEF CacheTracksProvider, Fresh
    <3> QED BY <2>1, <3>1, <3>2, <3>4, AgesAssumption DEF Recent, Fresh, TypeOK, Cap
  <2>4. CASE FetchAnswered(r) /\ token'[r] = token[r] /\ token[r] \in Tokens
    <3>1. /\ Verified(token[r], response) /\ response \in Seq(Keys) /\ response # NoKeys
          /\ stage[r] = "fetching"
      BY <2>1, <2>4, KeysAssumption DEF FetchAnswered, Decide, Refuse, Enter, TypeOK, Stages
    <3>2. token[r].key \in ToSet(response)
      BY <2>1, <2>4, <3>1, FoundKeyIsThere DEF Verified
    <3> QED BY <2>1, <2>4, <3>1, <3>2 DEF ResponseTracksProvider, Overtaken
  <2>5. CASE FetchFailed(r) \/ \E t \in Tokens : Unverified(r, t) \/ Unreadable(r, t)
    BY <2>1, <2>5 DEF FetchFailed, Unverified, Unreadable, Refuse, TypeOK
  <2> QED BY <1>1, <2>1, <2>2, <2>3, <2>4, <2>5, OnlyVerdicts
<1>2. TrackingInv /\ [Next]_vars => [A]_vars
  BY <1>1
<1> QED BY <1>2, TrackingHolds, PTL DEF Spec, WithdrawnKeysAgeOut

(* A good token of a published key is refused only by a verification that  *)
(* got no answer from the provider, or while the set that decides is older *)
(* than the key.                                                           *)
THEOREM RefusalsHaveCause == Spec => RefusedForCause
<1> DEFINE A == \A r \in Requests :
       Begun(r) /\ stage'[r] = "401" /\ Good(token'[r]) /\ token'[r].key \in ToSet(published)
         => \/ stage[r] = "fetching" /\ ~up
            \/ Recent(token'[r].key) \/ Overtaken(r, token'[r].key)
<1>1. ASSUME TrackingInv, [Next]_vars PROVE A
  <2> SUFFICES ASSUME NEW r \in Requests, Begun(r), stage'[r] = "401", Good(token'[r]),
                      token'[r].key \in ToSet(published)
               PROVE  \/ stage[r] = "fetching" /\ ~up
                      \/ Recent(token'[r].key) \/ Overtaken(r, token'[r].key)
    OBVIOUS
  <2>1. /\ TypeOK /\ CacheTracksProvider /\ ResponseTracksProvider
        /\ \A t \in Tokens : t.key \in Keys /\ t.kid \in Keys \cup {None}
    BY <1>1, TokensAssumption DEF TrackingInv, Token
  <2>2. ~Begun(r)'
    BY DEF Begun
  <2>3. CASE \E t \in Tokens : VerifyCached(r, t) /\ token'[r] = t
    <3>1. PICK t \in Tokens : VerifyCached(r, t) /\ token'[r] = t
      BY <2>3
    <3>2. Fresh /\ ~Verified(t, jwks) /\ jwks \in Seq(Keys)
      BY <2>1, <3>1, KeysAssumption
      DEF VerifyCached, Arrive, Decide, Refuse, Enter, TypeOK, Stages, Fresh
    <3>3. t.key \notin ToSet(jwks)
      BY <3>1, <3>2, GoodVerifies
    <3>4. since[t.key] <= age + setBack
      BY <2>1, <3>1, <3>2, <3>3 DEF CacheTracksProvider, Fresh
    <3> QED BY <2>1, <3>1, <3>2, <3>4, AgesAssumption DEF Recent, Fresh, TypeOK, Cap
  <2>4. CASE FetchAnswered(r) /\ token'[r] = token[r] /\ token[r] \in Tokens
    <3>1. /\ ~Verified(token[r], response) /\ response \in Seq(Keys) /\ response # NoKeys
          /\ stage[r] = "fetching"
      BY <2>1, <2>4, KeysAssumption DEF FetchAnswered, Decide, Refuse, Enter, TypeOK, Stages
    <3>2. token[r].key \notin ToSet(response)
      BY <2>4, <3>1, GoodVerifies
    <3> QED BY <2>1, <2>4, <3>1, <3>2 DEF ResponseTracksProvider, Overtaken
  <2>5. CASE FetchFailed(r)
    BY <2>5 DEF FetchFailed
  <2>6. CASE \E t \in Tokens : (Unverified(r, t) \/ Unreadable(r, t)) /\ token'[r] = t
    BY <2>1, <2>6 DEF Unverified, Unreadable, Enter, Refuse, Good, TypeOK
  <2> QED BY <1>1, <2>1, <2>2, <2>3, <2>4, <2>5, <2>6, OnlyVerdicts
<1>2. TrackingInv /\ [Next]_vars => [A]_vars
  BY <1>1
<1> QED BY <1>2, TrackingHolds, PTL DEF Spec, RefusedForCause

-----------------------------------------------------------------------------
(* Attribution.                                                            *)

LEMMA DecideHolds ==
  ASSUME TypeOK, NEW r \in Requests, NEW t \in Tokens, NEW keys, mode = "jwt",
         Decide(r, t, keys), token'[r] = t, mode' = mode
  PROVE  HeldBy(r)'
BY DEF Decide, Refuse, Enter, Context, HeldBy, Caller, TypeOK

(* What an action of r leaves alone in q. *)
LEMMA OthersHold ==
  ASSUME TypeOK, NEW r \in Requests, NEW q \in Requests \ {r}, HeldBy(q), HistoriesTyped,
         Verify(r) \/ Progress(r)
  PROVE  HeldBy(q)'
<1>1. CASE Verify(r)
  <2>1. /\ stage'[q] = stage[q] /\ token'[q] = token[q] /\ claims'[q] = claims[q]
        /\ call' = call /\ records' = records /\ scope' = scope /\ mode' = mode
    BY <1>1 DEF Verify, Unverified, Unreadable, VerifyCached, Fetch, Arrive, Decide, Refuse, Enter,
                Context, TypeOK
  <2> QED BY <2>1 DEF HeldBy, Caller
<1>2. CASE FetchAnswered(r) \/ FetchFailed(r)
  <2>1. /\ stage'[q] = stage[q] /\ token'[q] = token[q] /\ claims'[q] = claims[q]
        /\ call' = call /\ records' = records /\ scope' = scope /\ mode' = mode
    BY <1>2 DEF FetchAnswered, FetchFailed, Decide, Refuse, Enter, Context, TypeOK
  <2> QED BY <2>1 DEF HeldBy, Caller
<1>3. CASE CallTool(r) \/ ToolEnds(r) \/ Respond(r)
  <2>1. /\ stage'[q] = stage[q] /\ token'[q] = token[q] /\ claims'[q] = claims[q]
        /\ call'[q] = call[q] /\ records'[q] = records[q] /\ scope'[q] = scope[q] /\ mode' = mode
    BY <1>3 DEF CallTool, ToolEnds, Respond, Context, TypeOK, HistoriesTyped
  <2> QED BY <2>1 DEF HeldBy, Caller
<1> QED BY <1>1, <1>2, <1>3 DEF Progress

LEMMA StepHolds ==
  ASSUME TypeOK, NEW r \in Requests, HeldBy(r), HistoriesTyped, Verify(r) \/ Progress(r)
  PROVE  HeldBy(r)'
<1>1. ASSUME NEW t \in Tokens, Unverified(r, t) \/ Unreadable(r, t) \/ Fetch(r, t)
      PROVE  HeldBy(r)'
  BY <1>1 DEF Unverified, Unreadable, Fetch, Arrive, Refuse, Enter, Context, HeldBy, Caller, TypeOK
<1>2. ASSUME NEW t \in Tokens, VerifyCached(r, t)
      PROVE  HeldBy(r)'
  BY <1>2, DecideHolds DEF VerifyCached, Arrive, TypeOK
<1>3. CASE FetchAnswered(r)
  BY <1>3, DecideHolds DEF FetchAnswered, HeldBy, TypeOK
<1>4. CASE FetchFailed(r)
  BY <1>4 DEF FetchFailed, Refuse, HeldBy, TypeOK
<1>5. CASE CallTool(r)
  BY <1>5 DEF CallTool, Subject, Context, HeldBy, Caller, TypeOK
<1>6. CASE ToolEnds(r)
  <2>1. /\ claims[r] = Caller(r) /\ call[r].subject = Caller(r) /\ call' = call
        /\ claims' = claims /\ token' = token /\ mode' = mode /\ stage'[r] = "done"
    BY <1>6 DEF ToolEnds, HeldBy, TypeOK
  <2>2. PICK outcome \in {"ok", "error"} : records'[r] = Emitted(r, outcome)
    BY <1>6 DEF ToolEnds, HistoriesTyped
  <2>3. scope'[r] = IF call[r].tool = "ask" THEN CallerScope(r) ELSE None
    BY <1>6 DEF ToolEnds, HistoriesTyped
  <2> QED BY <2>1, <2>2, <2>3 DEF HeldBy, Caller, Emitted, CallerScope, Subject, Context
<1>7. CASE Respond(r)
  BY <1>7 DEF Respond, HeldBy, TypeOK
<1> QED BY <1>1, <1>2, <1>3, <1>4, <1>5, <1>6, <1>7 DEF Verify, Progress

LEMMA NextIInv == IInv /\ [Next]_vars => IInv'
<1> SUFFICES ASSUME IInv, [Next]_vars PROVE IInv'
  OBVIOUS
<1>0. TypeOK /\ CacheTracksProvider /\ ResponseTracksProvider /\ HistoriesTyped /\ \A r \in Requests : HeldBy(r)
  BY DEF IInv
<1>1. TypeOK' /\ CacheTracksProvider' /\ ResponseTracksProvider'
  BY <1>0, NextTyped, StepTracks, ResponseStepTracks
<1>2. HistoriesTyped'
  <2>1. CASE \E r \in Requests : Verify(r) \/ Progress(r)
    BY <1>0, <2>1 DEF HistoriesTyped, Verify, Unverified, Unreadable, VerifyCached, Fetch, Arrive,
         Progress, FetchAnswered, FetchFailed, CallTool, ToolEnds, Respond
  <2>2. CASE ProviderAnswers \/ Rotate \/ Outage \/ Tick \/ SetBack \/ UNCHANGED vars
    BY <1>0, <2>2 DEF HistoriesTyped, ProviderAnswers, Rotate, Outage, Tick, SetBack, vars, requestVars
  <2> QED BY <2>1, <2>2 DEF Next
<1>3. \A r \in Requests : HeldBy(r)'
  <2>1. ASSUME NEW q \in Requests, Verify(q) \/ Progress(q), NEW r \in Requests
        PROVE  HeldBy(r)'
    BY <1>0, <2>1, OthersHold, StepHolds
  <2>2. CASE ProviderAnswers \/ Rotate \/ Outage \/ Tick \/ SetBack \/ UNCHANGED vars
    BY <1>0, <2>2 DEF HeldBy, Caller, ProviderAnswers, Rotate, Outage, Tick, SetBack, vars, requestVars
  <2> QED BY <2>1, <2>2 DEF Next
<1> QED BY <1>1, <1>2, <1>3 DEF IInv

(* Every call that ended is recorded in its caller's name, and asked under *)
(* its caller's scope, however many calls run at once.                     *)
THEOREM CallsKeepTheirNames == Spec => []CallsAreAttributed
<1>1. IInv => CallsAreAttributed
  <2> SUFFICES ASSUME IInv, NEW r \in Requests, stage[r] = "done"
               PROVE  /\ records[r] # << >> /\ Last(records[r]).tool = call[r].tool
                      /\ Len(records[r]) = IF call[r].tool = "search_docs" THEN 2 ELSE 1
                      /\ \A i \in DOMAIN records[r] :
                           /\ records[r][i].subject = Caller(r)
                           /\ records[r][i].outcome = Last(records[r]).outcome
                      /\ call[r].tool = "ask" =>
                           scope[r] = IF Caller(r) = None THEN <<"*">> ELSE <<"mcp", Caller(r)>>
    BY DEF CallsAreAttributed
  <2>1. HeldBy(r)
    BY DEF IInv
  <2>2. PICK outcome \in {"ok", "error"} :
          records[r] = (IF call[r].tool = "search_docs"
                        THEN <<Record("search", Caller(r), outcome)>> ELSE << >>)
                       \o <<Record(call[r].tool, Caller(r), outcome)>>
    BY <2>1 DEF HeldBy
  <2>3. CASE call[r].tool = "search_docs"
    <3>1. records[r] = <<Record("search", Caller(r), outcome)>>
                       \o <<Record(call[r].tool, Caller(r), outcome)>>
      BY <2>2, <2>3
    <3>2. records[r] = <<Record("search", Caller(r), outcome), Record(call[r].tool, Caller(r), outcome)>>
      BY <3>1, TwoInOrder
    <3> QED BY <2>1, <2>3, <3>2 DEF HeldBy, Last, Record
  <2>4. CASE call[r].tool # "search_docs"
    <3>1. records[r] = <<Record(call[r].tool, Caller(r), outcome)>>
      BY <2>2, <2>4
    <3> QED BY <2>1, <2>4, <3>1 DEF HeldBy, Last, Record
  <2> QED BY <2>3, <2>4
<1>2. Spec => []IInv
  BY InitIInv, NextIInv, PTL DEF Spec
<1> QED BY <1>1, <1>2, PTL

-----------------------------------------------------------------------------
(* Discovery. *)

(* What the client has been given is what the deployment says of itself;   *)
(* it was challenged, or got lost, for a reason.                           *)
GivenAsPublished ==
  /\ settings \in [resource : Configured, mounted : BOOLEAN, mode : {"off", "jwt"},
                   override : BOOLEAN, scoped : BOOLEAN]
  /\ bearer # Nothing => bearer = [aud |-> Resource, scoped |-> settings.scoped]
  /\ step = "challenged" => url = ChallengeUrl /\ (settings.mode = "jwt" \/ settings.scoped)
  /\ step = "told" => metadata = Metadata
  /\ DiscoveryLeadsToAcceptance

(* The canonical resource URL always has a path. *)
LEMMA ResourceHasPath ==
  ASSUME GivenAsPublished
  PROVE  Resource.path # << >>
<1> DEFINE u == settings.resource
           base == IF u = Unset THEN URL(Local, << >>, FALSE) ELSE [u EXCEPT !.slash = FALSE]
<1>1. u \in Configured
  BY DEF GivenAsPublished
<1>2. base.path # << >> \/ [base EXCEPT !.path = <<"mcp">>].path = <<"mcp">>
  <2>1. CASE u = Unset
    BY <2>1 DEF URL
  <2>2. CASE u # Unset
    <3>1. u \in [origin : STRING, path : Seq(STRING), slash : BOOLEAN]
      BY <1>1, <2>2, ConfiguredAssumption
    <3> QED BY <2>2, <3>1
  <2> QED BY <2>1, <2>2
<1> HIDE DEF base
<1>3. Resource = IF base.path = << >> THEN [base EXCEPT !.path = <<"mcp">>] ELSE base
  BY DEF Resource, CanonicalResourceUrl, base
<1>4. <<"mcp">> # << >>
  OBVIOUS
<1> QED BY <1>2, <1>3, <1>4

(* So the document that a challenge names is served, in mode "jwt". *)
LEMMA ChallengeIsServed ==
  ASSUME GivenAsPublished, settings.mode = "jwt"
  PROVE  Served(ChallengeUrl.path)
<1>1. ChallengeUrl.path = WellKnown \o Resource.path
  BY DEF ChallengeUrl, URL
<1> QED BY <1>1, ResourceHasPath DEF Served, WellKnownPaths

(* The token issued for the document is accepted where it can be. *)
LEMMA IssuedIsAccepted ==
  ASSUME GivenAsPublished, bearer # Nothing, ~Accepts(bearer)
  PROVE  \/ settings.mode = "jwt" /\ settings.override
         \/ settings.mode = "off" /\ settings.scoped
<1>1. bearer.aud = Resource /\ bearer.scoped = settings.scoped
  BY DEF GivenAsPublished
<1>2. settings.mode \in {"off", "jwt"}
  BY DEF GivenAsPublished
<1> QED BY <1>1, <1>2 DEF Accepts, Audience

(* However the resource URL is written, whatever is mounted where, a       *)
(* client that follows the challenge or the bare path gets in, but for the *)
(* two configurations that rule it out (mcp_auth.py:60-85,                 *)
(* mcp_server.py:52-60, 282-289).                                          *)
THEOREM ClientsGetIn == DiscoverySpec => []DiscoveryLeadsToAcceptance
<1>1. DiscoveryInit => GivenAsPublished
  BY DEF DiscoveryInit, GivenAsPublished, DiscoveryLeadsToAcceptance
<1>2. GivenAsPublished /\ [DiscoveryNext]_discoveryVars => GivenAsPublished'
  <2> SUFFICES ASSUME GivenAsPublished, [DiscoveryNext]_discoveryVars
               PROVE  GivenAsPublished'
    OBVIOUS
  <2> USE DEF GivenAsPublished, DiscoveryLeadsToAcceptance, Resource, ChallengeUrl, Metadata
  <2>1. CASE Call
    <3>1. CASE Accepts(bearer) /\ step' = "served" /\ UNCHANGED url
      BY <2>1, <3>1 DEF Call
    <3>2. CASE ~Accepts(bearer) /\ bearer = Nothing /\ step' = "challenged" /\ url' = ChallengeUrl
      BY <2>1, <3>2 DEF Call, Accepts
    <3>3. CASE ~Accepts(bearer) /\ bearer # Nothing /\ step' = "refused" /\ UNCHANGED url
      <4>1. \/ settings.mode = "jwt" /\ settings.override
            \/ settings.mode = "off" /\ settings.scoped
        BY <3>3, IssuedIsAccepted
      <4> QED BY <2>1, <3>3, <4>1 DEF Call
    <3> QED BY <2>1, <3>1, <3>2, <3>3 DEF Call
  <2>2. CASE Discover
    <3>1. CASE Served(url.path) /\ Told
      BY <2>2, <3>1 DEF Discover, Told
    <3>2. CASE ~Served(url.path) /\ step' = "lost" /\ UNCHANGED metadata
      <4>1. settings.mode # "jwt"
        BY <2>2, <3>2, ChallengeIsServed DEF Discover
      <4>2. settings.mode = "off" /\ settings.scoped
        BY <2>2, <4>1 DEF Discover
      <4> QED BY <2>2, <3>2, <4>2 DEF Discover
    <3> QED BY <2>2, <3>1, <3>2 DEF Discover
  <2>3. CASE Probe
    BY <2>3 DEF Probe, Told
  <2>4. CASE Authorize
    BY <2>4 DEF Authorize
  <2>5. CASE UNCHANGED discoveryVars
    BY <2>5 DEF discoveryVars
  <2> QED BY <2>1, <2>2, <2>3, <2>4, <2>5 DEF DiscoveryNext
<1>3. GivenAsPublished => DiscoveryLeadsToAcceptance
  BY DEF GivenAsPublished
<1> QED BY <1>1, <1>2, <1>3, PTL DEF DiscoverySpec
=============================================================================
