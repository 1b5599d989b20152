---------------------------- MODULE PipelineProofs ---------------------------
(***************************************************************************)
(* Proofs about AnswerPipeline for every number of requests, every set of  *)
(* origins, questions and configurations, and every capacity.              *)
(*                                                                         *)
(* The two invariants speak of what is delivered.  Fit ties each request's *)
(* stage to what it holds, so that what reaches "answered" is known at the *)
(* stage before; KeptFits says the same of the entries in the cache.       *)
(***************************************************************************)
EXTENDS AnswerPipeline, Sequences, TLAPS

(* An answer fit to deliver: made for this scope, and honest. *)
Sound(a, scope) == a \in Answer /\ CacheScope(a.by) = scope /\ Honest(a)

ScopeOf(r) == CacheScope(request[r].origin)

(* What a draft may be on its way through the gate. *)
Drafted(r) == answer[r] \in Answer /\ answer[r].by = request[r].origin

AfterMiss == {"route", "expand", "embed_phrasings", "generate", "judge", "regenerate",
              "store", "canned"}

FitLookup(r) ==
  /\ stage[r] \in {"idle", "embed"} => lookup[r] = Store!NoQuery
  /\ stage[r] = "lookup" =>
       lookup[r] \in Store!Query /\ lookup[r].scope = ScopeOf(r)
  /\ stage[r] \in AfterMiss => lookup[r] = Store!NoEntry
  /\ stage[r] = "failed" => lookup[r] \in {Store!NoQuery, Store!NoEntry}
  /\ stage[r] = "answered" =>
       \/ lookup[r] = Store!NoEntry
       \/ lookup[r] \in Store!Entry /\ Sound(lookup[r].answer, ScopeOf(r))

FitAnswer(r) ==
  /\ stage[r] \in {"judge", "regenerate"} => Drafted(r) /\ ~answer[r].caveat
  /\ stage[r] \in {"judge", "regenerate"} => settings.grounding
  /\ stage[r] = "regenerate" => answer[r].score = "low"
  /\ stage[r] = "store" => Drafted(r) /\ Honest(answer[r])
  /\ stage[r] = "answered" /\ lookup[r] = Store!NoEntry => Drafted(r) /\ Honest(answer[r])

Fit(r) ==
  /\ inCall[r] # "idle" => AtCall(r)
  /\ stage[r] # "idle" => request[r] # NoRequest
  /\ FitLookup(r)
  /\ FitAnswer(r)

Typed ==
  /\ settings \in [router : BOOLEAN, openai : BOOLEAN, grounding : BOOLEAN]
  /\ TypeOK
  /\ lookup \in [Requests -> {Store!NoQuery, Store!NoEntry} \cup Store!Query \cup Store!Entry]
  /\ inCall \in [Requests -> {"idle", "call", "probe"}]

KeptFits == \A e \in kept : Sound(e.answer, e.scope)

IInv == Typed /\ (\A r \in Requests : Fit(r)) /\ KeptFits

-----------------------------------------------------------------------------
(* The pipeline implements the breaker. *)

(* The breaker starts as it should. *)
LEMMA InitBreaker == Init => Breaker!Init
  BY DEF Init

(* Each step is one of the breaker's or leaves it alone. *)
LEMMA NextBreaker == [Next]_vars => [Breaker!Next]_(Breaker!vars)
<1> SUFFICES ASSUME [Next]_vars
             PROVE  Breaker!Next \/ UNCHANGED Breaker!vars
  OBVIOUS
<1>1. ASSUME NEW r \in Requests, Arrive(r)
      PROVE  UNCHANGED Breaker!vars
  BY <1>1 DEF Arrive, Start, breakerVars, Breaker!vars
<1>2. ASSUME NEW r \in Requests, Progress(r)
      PROVE  Breaker!Next \/ UNCHANGED Breaker!vars
  <2>1. CASE Enter(r) \/ Refused(r) \/ Raises(r)
    BY <2>1 DEF Enter, Refused, Raises, Breaker!Next, Breaker!BeforeCall
  <2>2. CASE \/ EmbedQuestion(r) \/ RouteByLabel(r) \/ ExpandQuery(r) \/ EmbedPhrasings(r)
             \/ Generate(r) \/ Regenerate(r)
    BY <2>2 DEF EmbedQuestion, RouteByLabel, ExpandQuery, EmbedPhrasings, Generate,
                Regenerate, Returns, Breaker!Next
  <2>3. CASE \/ CacheHit(r) \/ CacheMiss(r) \/ RouteLocally(r) \/ ExpandLocally(r)
             \/ Judge(r) \/ StoreAnswer(r) \/ Finish(r)
    BY <2>3 DEF CacheHit, CacheMiss, RouteLocally, ExpandLocally, Judge, StoreAnswer,
                Finish, breakerVars, Breaker!vars
  <2> QED
    BY <1>2, <2>1, <2>2, <2>3 DEF Progress
<1>3. CASE Expire
  BY <1>3 DEF Expire, breakerVars, Breaker!vars
<1>4. CASE Tick
  BY <1>4 DEF Tick, Breaker!Next
<1>5. CASE UNCHANGED vars
  BY <1>5 DEF vars, Breaker!vars
<1> QED
  BY <1>1, <1>2, <1>3, <1>4, <1>5 DEF Next

-----------------------------------------------------------------------------
(* The pipeline's own invariant. *)

(* The four kinds of lookup state are told apart by their shape. *)
LEMMA Shapes ==
  /\ Store!NoEntry \notin Store!Entry /\ Store!NoQuery \notin Store!Entry
  /\ Store!NoQuery # Store!NoEntry
  /\ Store!NoQuery \notin Store!Query /\ Store!NoEntry \notin Store!Query
  /\ \A e \in Store!Entry : e \notin Store!Query
  /\ \A o \in Origins, q \in Questions, h \in Histories \cup {None} :
       [origin |-> o, question |-> q, history |-> h] # NoRequest
<1>1. DOMAIN Store!NoEntry = {"answer"} /\ DOMAIN Store!NoQuery = {"scope"}
  BY DEF Store!NoEntry, Store!NoQuery
<1>2. /\ \A e \in Store!Entry : DOMAIN e = {"vec", "scope", "answer"}
      /\ \A q \in Store!Query : DOMAIN q = {"vec", "scope"}
  BY DEF Store!Entry, Store!Query
<1>3. \A o \in Origins, q \in Questions, h \in Histories \cup {None} :
        [origin |-> o, question |-> q, history |-> h] # NoRequest
  <2>1. DOMAIN NoRequest = {"origin"}
    BY DEF NoRequest
  <2>2. \A o, q, h : DOMAIN [origin |-> o, question |-> q, history |-> h]
                        = {"origin", "question", "history"}
    OBVIOUS
  <2> QED
    BY <2>1, <2>2
<1> QED
  BY <1>1, <1>2, <1>3

(* A request whose own state does not change stays fit. *)
LEMMA FitFrame ==
  ASSUME NEW r, Fit(r), settings' = settings, stage'[r] = stage[r], request'[r] = request[r],
         answer'[r] = answer[r], lookup'[r] = lookup[r], inCall'[r] = inCall[r]
  PROVE  Fit(r)'
  BY DEF Fit, FitLookup, FitAnswer, AtCall, NeedsLabel, Drafted, Sound, Honest, ScopeOf

(* The service starts in the invariant. *)
LEMMA InitIInv == Init => IInv
  BY SettingsAssumption, Shapes
     DEF Init, IInv, Typed, TypeOK, Fit, FitLookup, FitAnswer, KeptFits, Stages, AfterMiss,
         NoRequest, NoAnswer, Breaker!Init, Store!Init

(* A step of r touches the state of no other request. *)
OnlyMoves(r) ==
  /\ settings' = settings
  /\ \A q \in Requests \ {r} :
       /\ stage'[q] = stage[q] /\ request'[q] = request[q] /\ answer'[q] = answer[q]
       /\ lookup'[q] = lookup[q] /\ inCall'[q] = inCall[q]

(* So of IInv' only r's own part is left to show. *)
LEMMA StepIInv ==
  ASSUME IInv, NEW r \in Requests, OnlyMoves(r), Typed', Fit(r)', KeptFits'
  PROVE  IInv'
<1>1. ASSUME NEW q \in Requests
      PROVE  Fit(q)'
  <2>1. CASE q = r
    BY <2>1
  <2>2. CASE q # r
    BY <2>2, FitFrame DEF IInv, OnlyMoves
  <2> QED
    BY <2>1, <2>2
<1> QED
  BY <1>1 DEF IInv

(* The breaker's bookkeeping of a caller keeps its type. *)
LEMMA BreakerTyped ==
  ASSUME Typed, NEW r \in Requests,
         Breaker!Admit(r) \/ Breaker!Probe(r) \/ Breaker!Succeed(r) \/ Breaker!Fail(r)
         \/ Breaker!Refuse(r)
  PROVE  /\ inCall' \in [Requests -> {"idle", "call", "probe"}]
         /\ \A q \in Requests \ {r} : inCall'[q] = inCall[q]
         /\ Breaker!Succeed(r) \/ Breaker!Fail(r) => inCall[r] # "idle" /\ inCall'[r] = "idle"
         /\ Breaker!Refuse(r) => inCall[r] = "idle" /\ inCall' = inCall
  BY DEF Typed, Breaker!Admit, Breaker!Probe, Breaker!Succeed, Breaker!Fail, Breaker!Refuse,
         Breaker!vars

(* A request arrives. *)
LEMMA ArriveIInv ==
  ASSUME IInv, NEW r \in Requests, Arrive(r)
  PROVE  IInv'
<1> PICK o \in Origins, q \in Questions, h \in Histories \cup {None} : Start(r, o, q, h)
  BY DEF Arrive
<1>1. OnlyMoves(r)
  BY DEF Start, Goto, OnlyMoves, breakerVars, storeVars, IInv, Typed, TypeOK
<1>2. Typed'
  BY DEF Start, Goto, breakerVars, storeVars, IInv, Typed, TypeOK, Stages
<1>3. Fit(r)'
  BY Shapes DEF Start, Goto, breakerVars, storeVars, IInv, Typed, TypeOK, Fit, FitLookup,
                FitAnswer, AtCall, NeedsLabel, AfterMiss, NoRequest
<1>4. KeptFits'
  BY DEF Start, storeVars, IInv, KeptFits, Sound, Honest
<1> QED
  BY <1>1, <1>2, <1>3, <1>4, StepIInv

(* A call enters the breaker, is refused, or fails. *)
LEMMA GateIInv ==
  ASSUME IInv, NEW r \in Requests, Enter(r) \/ Refused(r) \/ Raises(r)
  PROVE  IInv'
<1>1. /\ Breaker!Admit(r) \/ Breaker!Probe(r) \/ Breaker!Refuse(r) \/ Breaker!Fail(r)
      /\ AtCall(r)
      /\ UNCHANGED <<settings, request, answer, kept, lookup>>
      /\ \/ UNCHANGED stage
         \/ Goto(r, "failed") /\ (Breaker!Refuse(r) \/ Breaker!Fail(r))
  BY DEF Enter, Refused, Raises, requestVars, storeVars, IInv, Fit, Breaker!Fail
<1>2. inCall' \in [Requests -> {"idle", "call", "probe"}]
      /\ (\A q \in Requests \ {r} : inCall'[q] = inCall[q])
      /\ (stage' # stage => inCall'[r] = "idle")
  BY <1>1, BreakerTyped DEF IInv
<1>3. OnlyMoves(r)
  BY <1>1, <1>2 DEF Goto, OnlyMoves, IInv, Typed, TypeOK
<1>4. Typed'
  BY <1>1, <1>2 DEF Goto, IInv, Typed, TypeOK, Stages
<1>5. Fit(r)'
  <2>1. CASE UNCHANGED stage
    BY <1>1, <2>1 DEF IInv, Fit, FitLookup, FitAnswer, AtCall, NeedsLabel, Drafted, Sound,
                      Honest, ScopeOf
  <2>2. CASE stage' # stage
    <3>1. stage'[r] = "failed" /\ inCall'[r] = "idle"
      BY <1>1, <1>2, <2>2 DEF Goto, IInv, Typed, TypeOK
    <3>2. stage[r] \in {"embed", "route", "expand", "embed_phrasings", "generate", "regenerate"}
      BY <1>1 DEF AtCall
    <3>3. lookup[r] \in {Store!NoQuery, Store!NoEntry} /\ request[r] # NoRequest
      BY <3>2 DEF IInv, Fit, FitLookup, AfterMiss
    <3> QED
      BY <1>1, <3>1, <3>3 DEF Fit, FitLookup, FitAnswer, AfterMiss
  <2> QED
    BY <2>1, <2>2
<1>6. KeptFits'
  BY <1>1 DEF IInv, KeptFits, Sound, Honest
<1> QED
  BY <1>3, <1>4, <1>5, <1>6, StepIInv

(* A call returned: the caller is outside the breaker again. *)
LEMMA ReturnsFacts ==
  ASSUME IInv, NEW r \in Requests, NEW at, Returns(r, at)
  PROVE  /\ inCall' \in [Requests -> {"idle", "call", "probe"}]
         /\ (\A q \in Requests \ {r} : inCall'[q] = inCall[q])
         /\ inCall'[r] = "idle" /\ stage[r] = at /\ settings' = settings
  BY BreakerTyped DEF Returns, IInv

(* The question is embedded and looked up. *)
LEMMA EmbedIInv ==
  ASSUME IInv, NEW r \in Requests, EmbedQuestion(r)
  PROVE  IInv'
<1> DEFINE query == [vec |-> request[r].question, scope |-> ScopeOf(r)]
<1>1. /\ inCall' \in [Requests -> {"idle", "call", "probe"}]
      /\ (\A q \in Requests \ {r} : inCall'[q] = inCall[q])
      /\ inCall'[r] = "idle" /\ stage[r] = "embed" /\ settings' = settings
  BY ReturnsFacts DEF EmbedQuestion
<1>2. /\ stage' = [stage EXCEPT ![r] = "lookup"]
      /\ lookup' = [lookup EXCEPT ![r] = query]
      /\ kept' = kept /\ request' = request /\ answer' = answer
  BY DEF EmbedQuestion, Goto, Store!Ask, ScopeOf
<1>3. request[r] \in [origin : Origins, question : Questions, history : Histories \cup {None}]
  BY <1>1 DEF IInv, Typed, TypeOK, Fit
<1>4. query \in Store!Query
  BY <1>3 DEF Store!Query, ScopeOf
<1>5. OnlyMoves(r)
  BY <1>1, <1>2 DEF OnlyMoves, IInv, Typed, TypeOK
<1>6. Typed'
  BY <1>1, <1>2, <1>4 DEF IInv, Typed, TypeOK, Stages
<1>7. Fit(r)'
  BY <1>1, <1>2, <1>4 DEF IInv, Typed, TypeOK, Fit, FitLookup, FitAnswer, AfterMiss, ScopeOf
<1>8. KeptFits'
  BY <1>1, <1>2 DEF IInv, KeptFits, Sound, Honest
<1> QED
  BY <1>5, <1>6, <1>7, <1>8, StepIInv

(* A hit delivers an entry of the scope; a miss goes on to the router. *)
LEMMA LookupIInv ==
  ASSUME IInv, NEW r \in Requests, CacheHit(r) \/ CacheMiss(r)
  PROVE  IInv'
<1>1. CASE CacheHit(r)
  <2>1. PICK e \in kept : Store!Hit(r, e)
    BY <1>1 DEF CacheHit
  <2>2. /\ stage[r] = "lookup" /\ stage' = [stage EXCEPT ![r] = "answered"]
        /\ lookup' = [lookup EXCEPT ![r] = e] /\ kept' = kept
        /\ UNCHANGED <<settings, request, answer, inCall>>
    BY <1>1, <2>1 DEF CacheHit, Goto, breakerVars, Store!Hit
  <2>3. e \in Store!Entry /\ e.scope = ScopeOf(r) /\ Sound(e.answer, ScopeOf(r))
    BY <2>1, <2>2 DEF Store!Hit, Store!Servable, IInv, Typed, TypeOK, KeptFits, Fit, FitLookup
  <2>4. OnlyMoves(r)
    BY <2>2 DEF OnlyMoves, IInv, Typed, TypeOK
  <2>5. Typed'
    BY <2>2, <2>3 DEF IInv, Typed, TypeOK, Stages
  <2>6. Fit(r)'
    BY <2>2, <2>3, Shapes DEF IInv, Typed, TypeOK, Fit, FitLookup, FitAnswer, AfterMiss,
                              ScopeOf, AtCall, Sound, Honest
  <2>7. KeptFits'
    BY <2>2 DEF IInv, KeptFits, Sound, Honest
  <2> QED
    BY <2>4, <2>5, <2>6, <2>7, StepIInv
<1>2. CASE CacheMiss(r)
  <2>1. /\ stage[r] = "lookup" /\ stage' = [stage EXCEPT ![r] = "route"]
        /\ lookup' = [lookup EXCEPT ![r] = Store!NoEntry] /\ kept' = kept
        /\ UNCHANGED <<settings, request, answer, inCall>>
    BY <1>2 DEF CacheMiss, Goto, breakerVars, Store!Miss
  <2>2. OnlyMoves(r)
    BY <2>1 DEF OnlyMoves, IInv, Typed, TypeOK
  <2>3. Typed'
    BY <2>1 DEF IInv, Typed, TypeOK, Stages
  <2>4. Fit(r)'
    BY <2>1 DEF IInv, Typed, TypeOK, Fit, FitLookup, FitAnswer, AfterMiss, AtCall
  <2>5. KeptFits'
    BY <2>1 DEF IInv, KeptFits, Sound, Honest
  <2> QED
    BY <2>2, <2>3, <2>4, <2>5, StepIInv
<1> QED
  BY <1>1, <1>2

(* Routing, expansion and retrieval hold no answer yet. *)
LEMMA PrepareIInv ==
  ASSUME IInv, NEW r \in Requests,
         RouteLocally(r) \/ RouteByLabel(r) \/ ExpandLocally(r) \/ ExpandQuery(r)
         \/ EmbedPhrasings(r)
  PROVE  IInv'
<1>1. /\ stage[r] \in {"route", "expand", "embed_phrasings"}
      /\ \E next \in {"expand", "canned", "embed_phrasings", "generate"} : Goto(r, next)
      /\ UNCHANGED <<settings, request, answer, kept, lookup>>
  BY DEF RouteLocally, RouteByLabel, ExpandLocally, ExpandQuery, EmbedPhrasings, Routed,
         Returns, storeVars
<1>2. /\ inCall' \in [Requests -> {"idle", "call", "probe"}]
      /\ (\A q \in Requests \ {r} : inCall'[q] = inCall[q])
      /\ inCall'[r] = "idle"
  <2>1. CASE RouteLocally(r) \/ ExpandLocally(r)
    BY <2>1 DEF RouteLocally, ExpandLocally, breakerVars, IInv, Typed, Fit, AtCall
  <2>2. CASE RouteByLabel(r) \/ ExpandQuery(r) \/ EmbedPhrasings(r)
    BY <2>2, ReturnsFacts DEF RouteByLabel, ExpandQuery, EmbedPhrasings
  <2> QED
    BY <2>1, <2>2
<1>3. PICK next \in {"expand", "canned", "embed_phrasings", "generate"} :
        stage' = [stage EXCEPT ![r] = next]
  BY <1>1 DEF Goto
<1>4. OnlyMoves(r)
  BY <1>1, <1>2, <1>3 DEF OnlyMoves, IInv, Typed, TypeOK
<1>5. Typed'
  BY <1>1, <1>2, <1>3 DEF IInv, Typed, TypeOK, Stages
<1>6. Fit(r)'
  BY <1>1, <1>2, <1>3 DEF IInv, Typed, TypeOK, Fit, FitLookup, FitAnswer, AfterMiss
<1>7. KeptFits'
  BY <1>1 DEF IInv, KeptFits, Sound, Honest
<1> QED
  BY <1>4, <1>5, <1>6, <1>7, StepIInv

(* The first draft, and the second: with no caveat, and the second with    *)
(* the first one's verdict until it is judged itself.                      *)
LEMMA DraftIInv ==
  ASSUME IInv, NEW r \in Requests, Generate(r) \/ Regenerate(r)
  PROVE  IInv'
<1>1. /\ inCall' \in [Requests -> {"idle", "call", "probe"}]
      /\ (\A q \in Requests \ {r} : inCall'[q] = inCall[q])
      /\ inCall'[r] = "idle" /\ stage[r] \in {"generate", "regenerate"} /\ settings' = settings
  BY ReturnsFacts DEF Generate, Regenerate
<1>2. /\ lookup' = lookup /\ kept' = kept /\ request' = request /\ lookup[r] = Store!NoEntry
      /\ request[r] # NoRequest
  BY <1>1 DEF Generate, Regenerate, storeVars, IInv, Fit, FitLookup, AfterMiss
<1>3. request[r] \in [origin : Origins, question : Questions, history : Histories \cup {None}]
  BY <1>2 DEF IInv, Typed, TypeOK
<1>4. \E a \in Answer, next \in {"judge", "store"} :
        /\ answer' = [answer EXCEPT ![r] = a] /\ stage' = [stage EXCEPT ![r] = next]
        /\ a.by = request[r].origin /\ ~a.caveat
        /\ next = "judge" => settings.grounding
        /\ next = "store" => Honest(a)
  <2>1. CASE Generate(r)
    <3> DEFINE a == [by |-> request[r].origin, history |-> request[r].history,
                     text |-> "first", caveat |-> FALSE, score |-> None, judged |-> None]
               next == IF settings.grounding THEN "judge" ELSE "store"
    <3>1. answer' = [answer EXCEPT ![r] = a] /\ stage' = [stage EXCEPT ![r] = next]
      BY <2>1 DEF Generate, Goto
    <3>2. a \in Answer
      BY <1>3 DEF Answer, Texts, Scores
    <3>3. next = "store" => Honest(a)
      BY DEF Honest
    <3> HIDE DEF a
    <3>4. a.by = request[r].origin /\ ~a.caveat
      BY DEF a
    <3> QED
      BY <3>1, <3>2, <3>3, <3>4
  <2>2. CASE Regenerate(r)
    <3> DEFINE a == Redraft(answer[r])
    <3>1. answer' = [answer EXCEPT ![r] = a] /\ stage' = [stage EXCEPT ![r] = "judge"]
          /\ stage[r] = "regenerate"
      BY <2>2, ReturnsFacts DEF Regenerate, Goto, IInv, Typed, TypeOK
    <3>2. Drafted(r) /\ ~answer[r].caveat /\ settings.grounding
      BY <3>1 DEF IInv, Fit, FitAnswer
    <3>3. a \in Answer /\ a.by = request[r].origin /\ ~a.caveat
      BY <3>2 DEF Drafted, Redraft, Answer, Texts
    <3> QED
      BY <3>1, <3>2, <3>3
  <2> QED
    BY <2>1, <2>2
<1>5. PICK a \in Answer, next \in {"judge", "store"} :
        /\ answer' = [answer EXCEPT ![r] = a] /\ stage' = [stage EXCEPT ![r] = next]
        /\ a.by = request[r].origin /\ ~a.caveat
        /\ next = "judge" => settings.grounding
        /\ next = "store" => Honest(a)
  BY <1>4
<1>6. OnlyMoves(r)
  BY <1>1, <1>2, <1>5 DEF OnlyMoves, IInv, Typed, TypeOK
<1>7. Typed'
  BY <1>1, <1>2, <1>5 DEF IInv, Typed, TypeOK, Stages
<1>8. answer'[r] = a /\ stage'[r] = next
  BY <1>5 DEF IInv, Typed, TypeOK
<1>9. Fit(r)'
  BY <1>1, <1>2, <1>5, <1>8 DEF Fit, FitLookup, FitAnswer, AfterMiss, Drafted, Honest
<1>10. KeptFits'
  BY <1>1, <1>2 DEF IInv, KeptFits, Sound, Honest
<1> QED
  BY <1>6, <1>7, <1>9, <1>10, StepIInv

(* The gate: the verdict is on the text at hand. *)
LEMMA JudgeIInv ==
  ASSUME IInv, NEW r \in Requests, Judge(r)
  PROVE  IInv'
<1>1. PICK score \in Scores :
        /\ answer' = [answer EXCEPT ![r] = Judged(@, score)]
        /\ Goto(r, IF score = "low" /\ answer[r].text = "first" THEN "regenerate" ELSE "store")
  BY DEF Judge
<1> DEFINE a == Judged(answer[r], score)
           next == IF score = "low" /\ answer[r].text = "first" THEN "regenerate" ELSE "store"
<1>2. /\ stage[r] = "judge" /\ UNCHANGED <<settings, request, kept, lookup, inCall>>
      /\ answer' = [answer EXCEPT ![r] = a] /\ stage' = [stage EXCEPT ![r] = next]
      /\ answer'[r] = a /\ stage'[r] = next
  BY <1>1 DEF Judge, Goto, breakerVars, storeVars, IInv, Typed, TypeOK
<1>3. Drafted(r) /\ settings.grounding /\ lookup[r] = Store!NoEntry /\ request[r] # NoRequest
      /\ inCall[r] = "idle"
  BY <1>2 DEF IInv, Fit, FitLookup, FitAnswer, AfterMiss, AtCall
<1>4. /\ a \in Answer /\ a.by = request[r].origin /\ a.score = score /\ a.judged = a.text
      /\ a.text = answer[r].text
      /\ a.caveat = (score = "low" /\ answer[r].text = "strict")
  BY <1>3 DEF Drafted, Judged, Answer
<1>5. answer[r].text \in {"first", "strict"} /\ score \in {"low", "high"}
  BY <1>3 DEF Drafted, Answer, Texts, Scores
<1>6. OnlyMoves(r)
  BY <1>2 DEF OnlyMoves, IInv, Typed, TypeOK
<1>7. Typed'
  BY <1>2, <1>4 DEF IInv, Typed, TypeOK, Stages
<1>8. next \in {"regenerate", "store"}
      /\ (next = "regenerate" => score = "low" /\ ~a.caveat)
      /\ (next = "store" => Honest(a))
  BY <1>3, <1>4, <1>5 DEF Honest
<1> HIDE DEF a, next
<1>9. Fit(r)'
  BY <1>2, <1>3, <1>4, <1>8 DEF Fit, FitLookup, FitAnswer, AfterMiss, Drafted, Honest
<1>10. KeptFits'
  BY <1>2 DEF IInv, KeptFits, Sound, Honest
<1> QED
  BY <1>6, <1>7, <1>9, <1>10, StepIInv

(* What is cached is the answer about to be delivered, under its scope. *)
LEMMA StoreIInv ==
  ASSUME IInv, NEW r \in Requests, StoreAnswer(r)
  PROVE  IInv'
<1> DEFINE e == [vec |-> request[r].question, scope |-> ScopeOf(r), answer |-> answer[r]]
<1>1. /\ stage[r] = "store" /\ stage' = [stage EXCEPT ![r] = "answered"] /\ stage'[r] = "answered"
      /\ UNCHANGED <<settings, request, answer, lookup, inCall>>
      /\ kept' \subseteq kept \cup {e}
  BY DEF StoreAnswer, Goto, breakerVars, Store!Keep, ScopeOf, IInv, Typed, TypeOK
<1>2. /\ Drafted(r) /\ Honest(answer[r]) /\ lookup[r] = Store!NoEntry /\ request[r] # NoRequest
      /\ inCall[r] = "idle"
  BY <1>1 DEF IInv, Fit, FitLookup, FitAnswer, AfterMiss, AtCall
<1>3. request[r] \in [origin : Origins, question : Questions, history : Histories \cup {None}]
  BY <1>2 DEF IInv, Typed, TypeOK
<1>4. e \in Store!Entry /\ Sound(e.answer, e.scope)
  BY <1>2, <1>3 DEF Store!Entry, Drafted, Sound, ScopeOf
<1> HIDE DEF e
<1>5. OnlyMoves(r)
  BY <1>1 DEF OnlyMoves, IInv, Typed, TypeOK
<1>6. Typed'
  BY <1>1, <1>4 DEF IInv, Typed, TypeOK, Stages
<1>7. Fit(r)'
  BY <1>1, <1>2 DEF Fit, FitLookup, FitAnswer, AfterMiss, Drafted, Honest
<1>8. KeptFits'
  BY <1>1, <1>4 DEF IInv, KeptFits, Sound, Honest
<1> QED
  BY <1>5, <1>6, <1>7, <1>8, StepIInv

(* The request is over; its slot is as at the start. *)
LEMMA FinishIInv ==
  ASSUME IInv, NEW r \in Requests, Finish(r)
  PROVE  IInv'
<1>1. /\ stage' = [stage EXCEPT ![r] = "idle"] /\ request' = [request EXCEPT ![r] = NoRequest]
      /\ answer' = [answer EXCEPT ![r] = NoAnswer] /\ kept' = kept
      /\ UNCHANGED <<settings, inCall>>
      /\ stage[r] \in {"answered", "canned", "failed"}
  BY DEF Finish, Goto, storeVars, breakerVars, Store!Consume
<1>2. lookup' \in [Requests -> {Store!NoQuery, Store!NoEntry} \cup Store!Query \cup Store!Entry]
      /\ lookup'[r] = Store!NoQuery /\ (\A q \in Requests \ {r} : lookup'[q] = lookup[q])
  BY DEF Finish, storeVars, Store!Consume, IInv, Typed
<1>3. inCall[r] = "idle"
  BY <1>1 DEF IInv, Fit, AtCall
<1>4. OnlyMoves(r)
  BY <1>1, <1>2 DEF OnlyMoves, IInv, Typed, TypeOK
<1>5. Typed'
  BY <1>1, <1>2 DEF IInv, Typed, TypeOK, Stages
<1>6. Fit(r)'
  BY <1>1, <1>2, <1>3 DEF Fit, FitLookup, FitAnswer, AfterMiss, IInv, Typed, TypeOK
<1>7. KeptFits'
  BY <1>1 DEF IInv, KeptFits, Sound, Honest
<1> QED
  BY <1>4, <1>5, <1>6, <1>7, StepIInv

(* Entries expire and the clock runs: no request moves. *)
LEMMA EnvironmentIInv ==
  ASSUME IInv, Expire \/ Tick \/ UNCHANGED vars
  PROVE  IInv'
<1>1. UNCHANGED <<settings, stage, request, answer, lookup, inCall>> /\ kept' \subseteq kept
  BY DEF Expire, Tick, vars, requestVars, storeVars, breakerVars, Store!Forget, Breaker!Tick
<1>2. Typed'
  BY <1>1 DEF IInv, Typed, TypeOK
<1>3. ASSUME NEW r \in Requests
      PROVE  Fit(r)'
  BY <1>1, FitFrame DEF IInv
<1>4. KeptFits'
  BY <1>1 DEF IInv, KeptFits, Sound, Honest
<1> QED
  BY <1>2, <1>3, <1>4 DEF IInv

-----------------------------------------------------------------------------
(* The theorems. *)

(* The strengthened invariant holds throughout. *)
THEOREM Invariance == Spec => []IInv
<1>1. ASSUME IInv, [Next]_vars
      PROVE  IInv'
  <2>1. ASSUME NEW r \in Requests, Arrive(r) \/ Progress(r)
        PROVE  IInv'
    BY <1>1, <2>1, ArriveIInv, GateIInv, EmbedIInv, LookupIInv, PrepareIInv, DraftIInv,
       JudgeIInv, StoreIInv, FinishIInv DEF Progress
  <2>2. CASE Expire \/ Tick \/ UNCHANGED vars
    BY <1>1, <2>2, EnvironmentIInv
  <2> QED
    BY <1>1, <2>1, <2>2 DEF Next
<1> QED
  BY <1>1, InitIInv, PTL DEF Spec

(* Type correctness (pipeline.py:57-183). *)
THEOREM TypeCorrect == Spec => []TypeOK
<1>1. IInv => TypeOK
  BY DEF IInv, Typed
<1> QED
  BY <1>1, Invariance, PTL

(* A request leaves its call only with the result recorded: where it       *)
(* moves, it was in no call, or records the result as it moves.            *)
LEMMA MovesOutsideCalls ==
  ASSUME IInv, NEW r \in Requests, Arrive(r) \/ Progress(r)
  PROVE  \A q \in Requests : stage'[q] # stage[q] => inCall'[q] = "idle"
<1>1. /\ stage \in [Requests -> Stages] /\ inCall \in [Requests -> {"idle", "call", "probe"}]
      /\ inCall[r] # "idle" => AtCall(r)
  BY DEF IInv, Typed, TypeOK, Fit
<1>2. CASE Enter(r)
  BY <1>2 DEF Enter, requestVars
<1>3. CASE Refused(r)
  BY <1>1, <1>3 DEF Refused, Goto, Breaker!Refuse, Breaker!vars
<1>4. CASE Raises(r)
  BY <1>1, <1>4 DEF Raises, Goto, Breaker!Fail
<1>5. CASE \/ EmbedQuestion(r) \/ RouteByLabel(r) \/ ExpandQuery(r) \/ EmbedPhrasings(r)
           \/ Generate(r) \/ Regenerate(r)
  <2>1. inCall'[r] = "idle"
    BY <1>1, <1>5 DEF EmbedQuestion, RouteByLabel, ExpandQuery, EmbedPhrasings, Generate,
                      Regenerate, Returns, Breaker!Succeed
  <2>2. \E next : stage' = [stage EXCEPT ![r] = next]
    BY <1>5 DEF EmbedQuestion, RouteByLabel, Routed, ExpandQuery, EmbedPhrasings, Generate,
                Regenerate, Goto
  <2> QED
    BY <1>1, <2>1, <2>2
<1>6. CASE \/ Arrive(r) \/ CacheHit(r) \/ CacheMiss(r) \/ RouteLocally(r) \/ ExpandLocally(r)
           \/ Judge(r) \/ StoreAnswer(r) \/ Finish(r)
  <2>1. ~AtCall(r) /\ inCall' = inCall
    BY <1>6 DEF Arrive, Start, CacheHit, CacheMiss, RouteLocally, ExpandLocally, Judge,
                StoreAnswer, Finish, AtCall, breakerVars
  <2>2. \E next : stage' = [stage EXCEPT ![r] = next]
    BY <1>6 DEF Arrive, Start, CacheHit, CacheMiss, RouteLocally, Routed, ExpandLocally, Judge,
                StoreAnswer, Finish, Goto
  <2> QED
    BY <1>1, <2>1, <2>2
<1> QED
  BY <1>2, <1>3, <1>4, <1>5, <1>6 DEF Progress

(* The result of every provider call is recorded before its request goes   *)
(* on, and what is proved of CircuitBreaker holds of the pipeline's        *)
(* breaker, whatever the requests do (pipeline.py:48-54, 76, 124,          *)
(* resilience.py:49-57).                                                   *)
THEOREM PipelineImplementsBreaker == Spec => ImplementsBreaker
<1> DEFINE A == \A r \in Requests : stage'[r] # stage[r] => inCall'[r] = "idle"
<1>1. ASSUME IInv, [Next]_vars
      PROVE  A
  BY <1>1, MovesOutsideCalls DEF Next, Expire, Tick, requestVars, vars
<1>2. IInv /\ [Next]_vars => [A]_vars
  BY <1>1
<1>3. Spec => CallsAreRecorded
  BY <1>2, Invariance, PTL DEF Spec, CallsAreRecorded
<1>4. Spec => Breaker!Spec
  BY InitBreaker, NextBreaker, PTL DEF Spec, Breaker!Spec
<1> QED
  BY <1>3, <1>4 DEF ImplementsBreaker

(* Origins that share a cache scope are one audience. *)
LEMMA ScopesSeparate ==
  ASSUME NEW o1 \in Origins, NEW o2 \in Origins, CacheScope(o1) = CacheScope(o2)
  PROVE  SameAudience(o1, o2)
<1>1. /\ o1.surface \in {"http", "mcp", "slack"} /\ o2.surface \in {"http", "mcp", "slack"}
      /\ o1.surface = "slack" => o1.principal = None
      /\ o2.surface = "slack" => o2.principal = None
  BY OriginsAssumption DEF None
<1>2. \A p : <<"mcp", p>> # <<"*">> /\ <<"mcp", p>> # <<"http:bearer">>
  <2>1. \A p : Len(<<"mcp", p>>) = 2
    OBVIOUS
  <2> QED
    BY <2>1
<1>3. <<"http:bearer">> # <<"*">>
  OBVIOUS
<1>4. \A p1, p2 : <<"mcp", p1>> = <<"mcp", p2>> => p1 = p2
  OBVIOUS
<1> QED
  BY <1>1, <1>2, <1>3, <1>4, OriginsAssumption DEF CacheScope, GlobalScope, SameAudience, None

(* No answer crosses to another audience, for every set of origins, and    *)
(* any number of concurrent requests and cached entries.                   *)
THEOREM AudiencesSeparate == Spec => []NoCrossAudienceAnswer
<1>1. IInv => NoCrossAudienceAnswer
  <2> SUFFICES ASSUME IInv, NEW r \in Requests, stage[r] = "answered"
               PROVE  SameAudience(Delivered(r).by, request[r].origin)
    BY DEF NoCrossAudienceAnswer
  <2>1. request[r].origin \in Origins
    BY DEF IInv, Typed, TypeOK, Fit
  <2>2. CASE Cached(r)
    <3>1. lookup[r] \in Store!Entry /\ Sound(lookup[r].answer, ScopeOf(r))
      BY <2>2, Shapes DEF Cached, IInv, Fit, FitLookup
    <3>2. lookup[r].answer.by \in Origins
          /\ CacheScope(lookup[r].answer.by) = CacheScope(request[r].origin)
      BY <3>1 DEF Sound, Answer, ScopeOf
    <3> QED
      BY <2>1, <2>2, <3>2, ScopesSeparate DEF Delivered
  <2>3. CASE ~Cached(r)
    <3>1. answer[r].by = request[r].origin
      BY <2>3 DEF Cached, IInv, Fit, FitLookup, FitAnswer, Drafted
    <3> QED
      BY <2>1, <2>3, <3>1, ScopesSeparate DEF Delivered
  <2> QED
    BY <2>2, <2>3
<1> QED
  BY <1>1, Invariance, PTL

(* The caveat goes with the failing text and only with it, in what is      *)
(* delivered and in what is cached.                                        *)
THEOREM CaveatIsHonest == Spec => []CaveatExactlyWhenUnverified
<1>1. IInv => CaveatExactlyWhenUnverified
  <2> SUFFICES ASSUME IInv
               PROVE  CaveatExactlyWhenUnverified
    OBVIOUS
  <2>1. ASSUME NEW r \in Requests, stage[r] = "answered"
        PROVE  Honest(Delivered(r))
    BY <2>1, Shapes DEF IInv, Fit, FitLookup, FitAnswer, Sound, Delivered, Cached
  <2> QED
    BY <2>1 DEF IInv, KeptFits, Sound, CaveatExactlyWhenUnverified
<1> QED
  BY <1>1, Invariance, PTL
=============================================================================
