------------------------------- MODULE McpAuth -------------------------------
(***************************************************************************)
(* Bearer verification and tool calls of the MCP surface: app/mcp_auth.py, *)
(* the tools of app/mcp_server.py and their audit records (app/audit.py).  *)
(*                                                                         *)
(* The middleware verifies on the event loop and fetches the JWKS there    *)
(* with a blocking client: while one verification waits for the identity   *)
(* provider no other request begins or is answered.  Tools run in worker   *)
(* threads and go on.  Verification is therefore one step, or two with a   *)
(* fetch between them; the world moves on meanwhile, also between the      *)
(* provider's answer and its arrival.                                      *)
(*                                                                         *)
(* Times are kept relative to the present.  The clock advances, and may be *)
(* set back by MaxSetBack ticks in all.  Ages saturate at Cap, past which  *)
(* no comparison tells them apart.                                         *)
(***************************************************************************)
EXTENDS Integers, Sequences, SequencesExt

CONSTANTS
  Requests,         \* connections, with one request in progress each
  Keys,             \* signing keys, which are also their ids
  KeySets,          \* what the provider may publish: sequences of keys
  Tokens,           \* bearer tokens, see Token
  Subjects,         \* values of `sub`
  Tools,            \* registered tools
  Modes,            \* MCP_AUTH_MODE
  CacheAge,         \* jwks_cache_seconds, in ticks
  MaxSetBack        \* bound: ticks the clock may be set back by, in all

None == "none"

(***************************************************************************)
(* What the checks tell apart in a token: whether it has a header naming   *)
(* an allowed algorithm, the key that signed it and the key id it names,   *)
(* whether iss, aud and exp are right, the required scopes, the subject.   *)
(* No bearer at all is a token that is not readable.                       *)
(***************************************************************************)
Token == [readable : BOOLEAN, key : Keys, kid : Keys \cup {None}, fits : BOOLEAN,
          scoped : BOOLEAN, sub : Subjects \cup {None}]

ASSUME KeysAssumption == None \notin Keys /\ KeySets \subseteq Seq(Keys) /\ KeySets # {}
ASSUME TokensAssumption == Tokens \subseteq Token /\ None \notin Subjects
ASSUME AgesAssumption == CacheAge \in Nat \ {0} /\ MaxSetBack \in Nat
ASSUME ModesAssumption == Modes \subseteq {"off", "jwt"}

VARIABLES
  mode,             \* the verifier's mode
  jwks,             \* self.jwks: NoKeys or a sequence of keys
  age,              \* self.clock() - self._jwks_fetched_at
  pending,          \* self.clock() - `now` of the fetch in progress
  response,         \* of that fetch: the keys on their way, NoKeys before that
  stage, token,     \* per request: where it is, and its bearer
  claims,           \* CURRENT_CLAIMS: the subject, per context
  call,             \* per request: the tool called and the subject its record will name
  records,          \* per request: the audit records it left
  scope             \* per request: the cache scope its ask used

(* The identity provider and the clock; `since` is how long ago each key   *)
(* was last published or withdrawn, `setBack` by how much the clock was.   *)
VARIABLES published, up, since, setBack

(* History: the keys published or withdrawn after the provider answered    *)
(* the fetch in progress, while its answer is on the way.                  *)
VARIABLE changed

cacheVars == <<jwks, age, pending, response>>
requestVars == <<stage, token, claims, call, records, scope>>
providerVars == <<published, up, since, setBack>>
worldVars == <<published, up, since, setBack, changed>>
vars == <<mode, jwks, age, pending, response, stage, token, claims, call, records, scope,
          published, up, since, setBack, changed>>

NoKeys == <<None>>
NoToken == [sub |-> None]
NoCall == [tool |-> None]
Cap == CacheAge + MaxSetBack
Older(n) == IF n < Cap THEN n + 1 ELSE n

Init ==
  /\ mode \in Modes
  /\ jwks = NoKeys /\ age = Cap /\ pending = 0 /\ response = NoKeys
  /\ stage = [r \in Requests |-> "idle"]
  /\ token = [r \in Requests |-> NoToken]
  /\ claims = [r \in Requests |-> None]
  /\ call = [r \in Requests |-> NoCall]
  /\ records = [r \in Requests |-> << >>]
  /\ scope = [r \in Requests |-> None]
  /\ published \in KeySets
  /\ up \in BOOLEAN
  /\ since = [k \in Keys |-> Cap]
  /\ setBack = 0 /\ changed = {}

-----------------------------------------------------------------------------
(* Verification.                                                           *)

(* The event loop waits in _fetch_jwks. *)
Blocked == \E r \in Requests : stage[r] = "fetching"

(* Slip: a key set once fetched is kept. *)
FreshForEver == jwks # NoKeys

Fresh == jwks # NoKeys /\ age < CacheAge

(* _find_key: the first key if the token names none, else the one named. *)
FoundKey(keys, kid) ==
  IF kid = None /\ keys # << >> THEN keys[1]
  ELSE IF kid \in ToSet(keys) THEN kid ELSE None

Verified(t, keys) == FoundKey(keys, t.kid) = t.key /\ t.fits

(* The slot of the context variable that a request's task, and the worker  *)
(* thread that gets a copy of its context, reads.                          *)
(* Slip: one module-level variable for every request. *)
SharedContext(r) == CHOOSE q \in Requests : TRUE

Context(r) == r

Refuse(r, status) == stage' = [stage EXCEPT ![r] = status] /\ UNCHANGED claims

Enter(r, subject) ==
  /\ stage' = [stage EXCEPT ![r] = "accepted"]
  /\ claims' = [claims EXCEPT ![Context(r)] = subject]

(* What the middleware does once the key set is in hand. *)
Decide(r, t, keys) ==
  \/ ~Verified(t, keys) /\ Refuse(r, "401")
  \/ Verified(t, keys) /\ ~t.scoped /\ Refuse(r, "403")
  \/ Verified(t, keys) /\ t.scoped /\ Enter(r, t.sub)

(* A request arrives with bearer t. *)
Arrive(r, t) ==
  /\ stage[r] = "idle" /\ ~Blocked
  /\ token' = [token EXCEPT ![r] = t]
  /\ UNCHANGED <<mode, jwks, age, response, call, records, scope, worldVars>>

(* Mode "off" verifies nothing and hands out empty claims; they lack the   *)
(* scopes, where the deployment requires some.                             *)
Unverified(r, t) ==
  /\ Arrive(r, t) /\ mode = "off"
  /\ Enter(r, None) \/ Refuse(r, "403")
  /\ UNCHANGED pending

Unreadable(r, t) ==
  /\ Arrive(r, t) /\ mode = "jwt" /\ ~t.readable
  /\ Refuse(r, "401")
  /\ UNCHANGED pending

VerifyCached(r, t) ==
  /\ Arrive(r, t) /\ mode = "jwt" /\ t.readable /\ Fresh
  /\ Decide(r, t, jwks)
  /\ UNCHANGED pending

(* `now` is read before the fetch: it is what the set will be stamped with. *)
Fetch(r, t) ==
  /\ Arrive(r, t) /\ mode = "jwt" /\ t.readable /\ ~Fresh
  /\ stage' = [stage EXCEPT ![r] = "fetching"]
  /\ pending' = 0
  /\ UNCHANGED claims

(* The provider answers with the keys it publishes at that instant.        *)
ProviderAnswers ==
  /\ Blocked /\ up /\ response = NoKeys
  /\ response' = published
  /\ UNCHANGED <<mode, jwks, age, pending, requestVars, worldVars>>

FetchEnds == pending' = 0 /\ response' = NoKeys /\ changed' = {}

(* Slip: the set is stamped with the time of its arrival. *)
FetchStampedOnArrival(r) ==
  /\ stage[r] = "fetching" /\ response # NoKeys
  /\ jwks' = response /\ age' = 0
  /\ Decide(r, token[r], response)
  /\ FetchEnds
  /\ UNCHANGED <<mode, token, call, records, scope, providerVars>>

FetchAnswered(r) ==
  /\ stage[r] = "fetching" /\ response # NoKeys
  /\ jwks' = response /\ age' = pending
  /\ Decide(r, token[r], response)
  /\ FetchEnds
  /\ UNCHANGED <<mode, token, call, records, scope, providerVars>>

(* Slip: a provider that does not answer counts as one without keys. *)
FetchFailedAsEmpty(r) ==
  /\ stage[r] = "fetching" /\ ~up
  /\ jwks' = << >> /\ age' = pending
  /\ Refuse(r, "401")
  /\ FetchEnds
  /\ UNCHANGED <<mode, token, call, records, scope, providerVars>>

(* The exception is caught in verify_token; the cache stays as it was. *)
FetchFailed(r) ==
  /\ stage[r] = "fetching" /\ ~up
  /\ Refuse(r, "401")
  /\ FetchEnds
  /\ UNCHANGED <<mode, jwks, age, token, call, records, scope, providerVars>>

-----------------------------------------------------------------------------
(* Tools, each under its audit wrapper.                                    *)

Subject(r) == claims[Context(r)]

(* The wrapper notes who calls, then runs the body. *)
CallTool(r) ==
  /\ stage[r] = "accepted"
  /\ \E tool \in Tools : call' = [call EXCEPT ![r] = [tool |-> tool, subject |-> Subject(r)]]
  /\ stage' = [stage EXCEPT ![r] = "tool"]
  /\ UNCHANGED <<mode, cacheVars, token, claims, records, scope, worldVars>>

Record(tool, subject, outcome) == [tool |-> tool, subject |-> subject, outcome |-> outcome]

(* search_docs calls search through its own wrapper: two records, the      *)
(* inner one first.                                                        *)
Emitted(r, outcome) ==
  (IF call[r].tool = "search_docs" THEN <<Record("search", Subject(r), outcome)>> ELSE << >>)
  \o <<Record(call[r].tool, call[r].subject, outcome)>>

(* The body of ask asks again who the caller is, for the cache scope. *)
CallerScope(r) == IF Subject(r) = None THEN <<"*">> ELSE <<"mcp", Subject(r)>>

ToolEnds(r) ==
  /\ stage[r] = "tool"
  /\ \E outcome \in {"ok", "error"} : records' = [records EXCEPT ![r] = Emitted(r, outcome)]
  /\ scope' = [scope EXCEPT ![r] = IF call[r].tool = "ask" THEN CallerScope(r) ELSE None]
  /\ stage' = [stage EXCEPT ![r] = "done"]
  /\ UNCHANGED <<mode, cacheVars, token, claims, call, worldVars>>

(* Slip: the context variable is not reset. *)
RespondKeepsClaims(r) ==
  /\ stage[r] \in {"401", "403", "done"} /\ ~Blocked
  /\ stage' = [stage EXCEPT ![r] = "idle"]
  /\ token' = [token EXCEPT ![r] = NoToken]
  /\ call' = [call EXCEPT ![r] = NoCall]
  /\ records' = [records EXCEPT ![r] = << >>]
  /\ scope' = [scope EXCEPT ![r] = None]
  /\ UNCHANGED <<mode, cacheVars, claims, worldVars>>

(* The response leaves; `finally` resets the context variable. *)
Respond(r) ==
  /\ stage[r] \in {"401", "403", "done"} /\ ~Blocked
  /\ stage' = [stage EXCEPT ![r] = "idle"]
  /\ claims' = [claims EXCEPT ![Context(r)] = IF stage[r] = "done" THEN None ELSE @]
  /\ token' = [token EXCEPT ![r] = NoToken]
  /\ call' = [call EXCEPT ![r] = NoCall]
  /\ records' = [records EXCEPT ![r] = << >>]
  /\ scope' = [scope EXCEPT ![r] = None]
  /\ UNCHANGED <<mode, cacheVars, worldVars>>

-----------------------------------------------------------------------------
(* The identity provider rotates its keys, fails and recovers; time.       *)

Rotate ==
  /\ \E keys \in KeySets \ {published} :
       /\ published' = keys
       /\ since' = [k \in Keys |->
            IF k \in ToSet(published) <=> k \in ToSet(keys) THEN since[k] ELSE 0]
       /\ changed' = IF response = NoKeys THEN changed
                     ELSE changed \cup {k \in Keys : (k \in ToSet(published)) # (k \in ToSet(keys))}
  /\ UNCHANGED <<mode, cacheVars, requestVars, up, setBack>>

Outage ==
  /\ up' = ~up
  /\ UNCHANGED <<mode, cacheVars, requestVars, published, since, setBack, changed>>

Tick ==
  /\ age' = Older(age) /\ pending' = IF Blocked THEN Older(pending) ELSE 0
  /\ since' = [k \in Keys |-> Older(since[k])]
  /\ UNCHANGED <<mode, jwks, response, requestVars, published, up, setBack, changed>>

SetBack ==
  /\ \E by \in 1..(MaxSetBack - setBack) :
       /\ setBack' = setBack + by
       /\ age' = age - by
       /\ pending' = IF Blocked THEN pending - by ELSE 0
  /\ UNCHANGED <<mode, jwks, response, requestVars, published, up, since, changed>>

Verify(r) ==
  \E t \in Tokens : Unverified(r, t) \/ Unreadable(r, t) \/ VerifyCached(r, t) \/ Fetch(r, t)
Progress(r) == FetchAnswered(r) \/ FetchFailed(r) \/ CallTool(r) \/ ToolEnds(r) \/ Respond(r)

Next ==
  \/ \E r \in Requests : Verify(r) \/ Progress(r)
  \/ ProviderAnswers \/ Rotate \/ Outage \/ Tick \/ SetBack

Spec == Init /\ [][Next]_vars

(* The clock runs; nothing is assumed of clients or of the provider.       *)
FairSpec == Spec /\ WF_vars(Tick)

-----------------------------------------------------------------------------
Stages == {"idle", "fetching", "401", "403", "accepted", "tool", "done"}

(* Includes that only a request let through carries claims. *)
TypeOK ==
  /\ mode \in Modes
  /\ jwks \in KeySets \cup {NoKeys} /\ response \in KeySets \cup {NoKeys}
  /\ age \in (-setBack)..Cap /\ pending \in (-setBack)..Cap
  /\ stage \in [Requests -> Stages]
  /\ token \in [Requests -> Tokens \cup {NoToken}]
  /\ claims \in [Requests -> Subjects \cup {None}]
  /\ call \in [Requests -> [tool : Tools, subject : Subjects \cup {None}] \cup {NoCall}]
  /\ published \in KeySets /\ up \in BOOLEAN
  /\ since \in [Keys -> 0..Cap] /\ setBack \in 0..MaxSetBack /\ changed \subseteq Keys
  /\ \A r \in Requests :
       /\ stage[r] # "idle" => token[r] \in Tokens
       /\ stage[r] \in {"idle", "fetching", "401", "403"} => claims[r] = None

Begun(r) == stage[r] \in {"idle", "fetching"}

(* A key's standing changed less than a cache lifetime ago; a clock set    *)
(* back lengthens that by as much as it was set back.                      *)
Recent(k) == since[k] < CacheAge + setBack

(* A key's standing changed while the answer that decides on r was on its  *)
(* way.                                                                    *)
Overtaken(r, k) == stage[r] = "fetching" /\ k \in changed

(* A token is accepted only if its key is published, or was until less     *)
(* than jwks_cache_seconds ago, or was withdrawn while the provider's      *)
(* answer to this very verification was on its way: through failed and     *)
(* slow fetches, rotations during them, and clock adjustments, no          *)
(* withdrawn key lives longer (mcp_auth.py:190-198).                       *)
WithdrawnKeysAgeOut ==
  [][\A r \in Requests :
       Begun(r) /\ stage'[r] \in {"accepted", "403"} /\ mode = "jwt"
         => LET k == token'[r].key
            IN  k \in ToSet(published) \/ Recent(k) \/ Overtaken(r, k)]_vars

(* A token that passes every check of its own and names the published key  *)
(* that signed it.                                                         *)
Good(t) == t.readable /\ t.fits /\ t.kid = t.key

(* Such a token is refused only while the provider does not answer this    *)
(* very verification, or because its key is too new for the cached set or  *)
(* for the answer on its way: an outage that is over leaves nothing behind *)
(* (mcp_auth.py:159-173, 190-198).                                         *)
RefusedForCause ==
  [][\A r \in Requests :
       Begun(r) /\ stage'[r] = "401" /\ Good(token'[r]) /\ token'[r].key \in ToSet(published)
         => \/ stage[r] = "fetching" /\ ~up
            \/ Recent(token'[r].key) \/ Overtaken(r, token'[r].key)]_vars

Refused(t) ==
  \E r \in Requests : Begun(r) /\ stage'[r] = "401" /\ token'[r] = t

(* Once the provider answers and keeps publishing a key, good tokens of    *)
(* that key are before long never refused again, however it rotated its    *)
(* keys and failed before (mcp_auth.py:192-200).                           *)
KeysComeIntoUse ==
  \A t \in {u \in Tokens : Good(u)} :
    <>[](up /\ t.key \in ToSet(published)) => <>[][~Refused(t)]_vars

Caller(r) == IF mode = "off" THEN None ELSE token[r].sub

(* Concurrent calls are not confused with one another: every call that     *)
(* ended, also one that raised, has left its record in the name of its     *)
(* token's subject, two for the alias, and an ask used that subject's      *)
(* cache scope (audit.py:134-171, mcp_server.py:172-185,                   *)
(* tests/test_mcp_identity.py).                                            *)
CallsAreAttributed ==
  \A r \in Requests : stage[r] = "done" =>
    /\ records[r] # << >> /\ Last(records[r]).tool = call[r].tool
    /\ Len(records[r]) = IF call[r].tool = "search_docs" THEN 2 ELSE 1
    /\ \A i \in DOMAIN records[r] :
         /\ records[r][i].subject = Caller(r)
         /\ records[r][i].outcome = Last(records[r]).outcome
    /\ call[r].tool = "ask" =>
         scope[r] = IF Caller(r) = None THEN <<"*">> ELSE <<"mcp", Caller(r)>>
=============================================================================
