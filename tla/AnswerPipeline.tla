--------------------------- MODULE AnswerPipeline ---------------------------
(***************************************************************************)
(* answer_question of app/pipeline.py, run by concurrent requests that     *)
(* share one circuit breaker and one answer cache.                         *)
(*                                                                         *)
(* A request is at a stage.  At a stage whose work is a provider call made *)
(* through deps.breaker.call it first passes the breaker (Enter, or        *)
(* Refused), then the call returns or raises; the other requests' steps    *)
(* come in between.  The breaker is module CircuitBreaker, the cache       *)
(* module AnswerStore, which SemanticCache implements.  Retrieval, fusion, *)
(* reranking and MMR read an index that never changes: they are part of    *)
(* the step that precedes them.                                            *)
(***************************************************************************)
EXTENDS Integers, FiniteSets

CONSTANTS
  Requests,         \* request slots: worker threads
  Origins,          \* who asks: [surface, principal] records
  Questions,        \* question texts
  BlankQuestions,   \* of these, the blank ones
  SmalltalkQuestions, \* and those SMALLTALK_RE matches
  Histories,        \* prior turns an HTTP client sends
  Configurations,   \* [router, openai, grounding] settings
  Similar,          \* pairs of questions the cache takes for each other
  MaxEntries, Threshold, Cooldown

Principals == {o.principal : o \in Origins}

(* The HTTP surface knows one principal, the static bearer's holder, and   *)
(* the Slack adapter none (main.py:92-100, slack.py:88-93).                *)
ASSUME OriginsAssumption ==
  /\ Origins \subseteq [surface : {"http", "mcp", "slack"}, principal : Principals]
  /\ \A o1, o2 \in Origins :
       /\ o1.surface = "http" /\ o2.surface = "http"
       /\ o1.principal # "none" /\ o2.principal # "none"
       => o1.principal = o2.principal
  /\ \A o \in Origins : o.surface = "slack" => o.principal = "none"
ASSUME SettingsAssumption ==
  Configurations \subseteq [router : BOOLEAN, openai : BOOLEAN, grounding : BOOLEAN]

VARIABLES
  settings,         \* the configuration, fixed at startup
  stage,            \* per request: where it is in answer_question
  request,          \* per request: its origin, question and history
  answer            \* per request: the answer in the making

(* The breaker's variables and the store's. *)
VARIABLES state, failureCount, openedFor, inCall, failureRun, quietFor
VARIABLES kept, lookup

breakerVars == <<state, failureCount, openedFor, inCall, failureRun, quietFor>>
storeVars == <<kept, lookup>>
requestVars == <<stage, request, answer>>
vars == <<settings, stage, request, answer, state, failureCount, openedFor,
          inCall, failureRun, quietFor, kept, lookup>>

None == "none"
NoRequest == [origin |-> None]
NoAnswer == [text |-> None]

(***************************************************************************)
(* An answer, with what the properties need of its making: who asked for   *)
(* it with which history, which prompt produced the text, and the score    *)
(* the grounding result carries and the text that score was given to.      *)
(***************************************************************************)
Texts == {"first", "strict"}
Scores == {"low", "high"}
Answer ==
  [by : Origins, history : Histories \cup {None}, text : Texts, caveat : BOOLEAN,
   score : Scores \cup {None}, judged : Texts \cup {None}]

-----------------------------------------------------------------------------
(* Cache scopes: app/main.py cache_scope_for for HTTP, the verified token  *)
(* subject for MCP, the default for in-process adapters.                   *)
GlobalScope == <<"*">>

(* Slip: every caller gets the default partition. *)
ScopeIgnoresPrincipal(o) == GlobalScope

CacheScope(o) ==
  IF o.principal = None THEN GlobalScope
  ELSE CASE o.surface = "http" -> <<"http:bearer">>
         [] o.surface = "mcp" -> <<"mcp", o.principal>>
         [] o.surface = "slack" -> GlobalScope

Breaker == INSTANCE CircuitBreaker WITH Callers <- Requests
Store == INSTANCE AnswerStore WITH
  Clients <- Requests, Vectors <- Questions, Answers <- Answer,
  Scopes <- {CacheScope(o) : o \in Origins}

Init ==
  /\ settings \in Configurations
  /\ stage = [r \in Requests |-> "idle"]
  /\ request = [r \in Requests |-> NoRequest]
  /\ answer = [r \in Requests |-> NoAnswer]
  /\ Breaker!Init
  /\ Store!Init

Goto(r, next) == stage' = [stage EXCEPT ![r] = next]

(* The handlers of /v1/ask, the MCP ask tool and the adapters' AskFn. *)
Start(r, o, q, h) ==
  /\ stage[r] = "idle"
  /\ request' = [request EXCEPT ![r] = [origin |-> o, question |-> q, history |-> h]]
  /\ Goto(r, "embed")
  /\ UNCHANGED <<settings, answer, breakerVars, storeVars>>

(* The response, or the exception, leaves the service. *)
Finish(r) ==
  /\ stage[r] \in {"answered", "canned", "failed"}
  /\ Goto(r, "idle")
  /\ request' = [request EXCEPT ![r] = NoRequest]
  /\ answer' = [answer EXCEPT ![r] = NoAnswer]
  /\ IF lookup[r] = Store!NoQuery THEN UNCHANGED storeVars ELSE Store!Consume(r)
  /\ UNCHANGED <<settings, breakerVars>>

-----------------------------------------------------------------------------
(* Provider calls.                                                         *)

NeedsLabel(r) ==
  settings.router /\ settings.openai /\ request[r].question \notin BlankQuestions

(* The request stands at a provider call that goes through the breaker. *)
AtCall(r) ==
  \/ stage[r] \in {"embed", "embed_phrasings", "generate", "regenerate"}
  \/ stage[r] = "route" /\ NeedsLabel(r)
  \/ stage[r] = "expand" /\ settings.openai

Enter(r) ==
  /\ AtCall(r)
  /\ Breaker!Admit(r) \/ Breaker!Probe(r)
  /\ UNCHANGED <<settings, requestVars, storeVars>>

(* Slip: the caller waits for the breaker instead of failing. *)
RefusedWaits(r) ==
  /\ AtCall(r)
  /\ Breaker!Refuse(r)
  /\ UNCHANGED <<settings, requestVars, storeVars>>

Refused(r) ==
  /\ AtCall(r)
  /\ Breaker!Refuse(r)
  /\ Goto(r, "failed")
  /\ UNCHANGED <<settings, request, answer, storeVars>>

(* Slip: the exception leaves the breaker unrecorded. *)
RaisesUnrecorded(r) ==
  /\ inCall[r] # "idle"
  /\ Goto(r, "failed")
  /\ UNCHANGED <<settings, request, answer, breakerVars, storeVars>>

(* The call raises; nothing in answer_question catches it. *)
Raises(r) ==
  /\ Breaker!Fail(r)
  /\ Goto(r, "failed")
  /\ UNCHANGED <<settings, request, answer, storeVars>>

(* The call returns, at stage `at`. *)
Returns(r, at) == stage[r] = at /\ Breaker!Succeed(r) /\ UNCHANGED settings

(* The question's embedding is what the cache is asked with. *)
EmbedQuestion(r) ==
  /\ Returns(r, "embed")
  /\ Store!Ask(r, [vec |-> request[r].question, scope |-> CacheScope(request[r].origin)])
  /\ Goto(r, "lookup")
  /\ UNCHANGED <<request, answer>>

CacheHit(r) ==
  /\ stage[r] = "lookup"
  /\ \E e \in kept : Store!Hit(r, e)
  /\ Goto(r, "answered")
  /\ UNCHANGED <<settings, request, answer, breakerVars>>

CacheMiss(r) ==
  /\ stage[r] = "lookup"
  /\ Store!Miss(r)
  /\ Goto(r, "route")
  /\ UNCHANGED <<settings, request, answer, breakerVars>>

-----------------------------------------------------------------------------
(* Routing and expansion.                                                  *)

Intents == {"knowledge", "smalltalk", "unsupported"}

LocalIntent(q) ==
  CASE ~settings.router -> "knowledge"
    [] settings.router /\ q \in BlankQuestions -> "unsupported"
    [] settings.router /\ q \in SmalltalkQuestions \ BlankQuestions -> "smalltalk"
    [] OTHER -> "knowledge"

Routed(r, intent) == Goto(r, IF intent = "knowledge" THEN "expand" ELSE "canned")

RouteLocally(r) ==
  /\ stage[r] = "route" /\ ~NeedsLabel(r)
  /\ Routed(r, LocalIntent(request[r].question))
  /\ UNCHANGED <<settings, request, answer, breakerVars, storeVars>>

(* The model labels the question; another word than a label falls back. *)
RouteByLabel(r) ==
  /\ Returns(r, "route")
  /\ \E label \in Intents \cup {LocalIntent(request[r].question)} : Routed(r, label)
  /\ UNCHANGED <<request, answer, storeVars>>

ExpandLocally(r) ==
  /\ stage[r] = "expand" /\ ~settings.openai
  /\ Goto(r, "embed_phrasings")
  /\ UNCHANGED <<settings, request, answer, breakerVars, storeVars>>

ExpandQuery(r) ==
  /\ Returns(r, "expand")
  /\ Goto(r, "embed_phrasings")
  /\ UNCHANGED <<request, answer, storeVars>>

(* Then retrieval, fusion, reranking and MMR. *)
EmbedPhrasings(r) ==
  /\ Returns(r, "embed_phrasings")
  /\ Goto(r, "generate")
  /\ UNCHANGED <<request, answer, storeVars>>

-----------------------------------------------------------------------------
(* Generation and the grounding gate.                                      *)

Generate(r) ==
  /\ Returns(r, "generate")
  /\ answer' = [answer EXCEPT ![r] =
       [by |-> request[r].origin, history |-> request[r].history, text |-> "first",
        caveat |-> FALSE, score |-> None, judged |-> None]]
  /\ Goto(r, IF settings.grounding THEN "judge" ELSE "store")
  /\ UNCHANGED <<request, storeVars>>

(* The new text replaces the old; `grounding` still holds the old verdict. *)
Redraft(a) == [a EXCEPT !.text = "strict"]

(* Slip: the second draft is not judged again. *)
RegenerateUnjudged(r) ==
  /\ Returns(r, "regenerate")
  /\ answer' = [answer EXCEPT ![r] = Redraft(@)]
  /\ Goto(r, "store")
  /\ UNCHANGED <<request, storeVars>>

Regenerate(r) ==
  /\ Returns(r, "regenerate")
  /\ answer' = [answer EXCEPT ![r] = Redraft(@)]
  /\ Goto(r, "judge")
  /\ UNCHANGED <<request, storeVars>>

(* The verdict on the current text; a low one on the second draft brings   *)
(* the caveat.                                                             *)
Judged(a, score) ==
  [a EXCEPT !.score = score, !.judged = a.text,
            !.caveat = score = "low" /\ a.text = "strict"]

(* The built-in judges do not raise: an error of theirs is a score of 0. *)
Judge(r) ==
  /\ stage[r] = "judge"
  /\ \E score \in Scores :
       /\ answer' = [answer EXCEPT ![r] = Judged(@, score)]
       /\ Goto(r, IF score = "low" /\ answer[r].text = "first" THEN "regenerate" ELSE "store")
  /\ UNCHANGED <<settings, request, breakerVars, storeVars>>

StoreAnswer(r) ==
  /\ stage[r] = "store"
  /\ Store!Keep([vec |-> request[r].question, scope |-> CacheScope(request[r].origin),
                 answer |-> answer[r]])
  /\ Goto(r, "answered")
  /\ UNCHANGED <<settings, request, answer, breakerVars>>

-----------------------------------------------------------------------------
(* The environment: cached answers expire, the breaker's clock runs.       *)
Expire ==
  /\ \E gone \in SUBSET kept \ {{}} : Store!Forget(gone)
  /\ UNCHANGED <<settings, requestVars, breakerVars>>

Tick == Breaker!Tick /\ UNCHANGED <<settings, requestVars, storeVars>>

Progress(r) ==
  \/ Enter(r) \/ Refused(r) \/ Raises(r)
  \/ EmbedQuestion(r) \/ CacheHit(r) \/ CacheMiss(r)
  \/ RouteLocally(r) \/ RouteByLabel(r) \/ ExpandLocally(r) \/ ExpandQuery(r)
  \/ EmbedPhrasings(r) \/ Generate(r) \/ Judge(r) \/ Regenerate(r) \/ StoreAnswer(r)
  \/ Finish(r)

(* Only /v1/ask takes a history; the MCP tool and the Slack adapter send   *)
(* none.                                                                   *)
Arrive(r) ==
  \E o \in Origins, q \in Questions :
    \E h \in IF o.surface = "http" THEN Histories ELSE {None} : Start(r, o, q, h)

Next ==
  \/ \E r \in Requests : Arrive(r) \/ Progress(r)
  \/ Expire
  \/ Tick

Spec == Init /\ [][Next]_vars

(***************************************************************************)
(* Fairness: a worker thread keeps running its request; provider calls     *)
(* end (client timeouts).  DemandSpec adds that requests keep arriving and *)
(* the clock runs.                                                         *)
(***************************************************************************)
FairSpec == Spec /\ \A r \in Requests : WF_vars(Progress(r))
DemandSpec == FairSpec /\ WF_vars(Tick) /\ \A r \in Requests : WF_vars(Arrive(r))

-----------------------------------------------------------------------------
Stages == {"idle", "embed", "lookup", "route", "expand", "embed_phrasings", "generate",
           "judge", "regenerate", "store", "answered", "canned", "failed"}

TypeOK ==
  /\ settings \in Configurations
  /\ stage \in [Requests -> Stages]
  /\ request \in [Requests -> [origin : Origins, question : Questions, history : Histories \cup {None}]
                               \cup {NoRequest}]
  /\ answer \in [Requests -> Answer \cup {NoAnswer}]
  /\ kept \subseteq Store!Entry

Cached(r) == lookup[r] \in Store!Entry
Delivered(r) == IF Cached(r) THEN lookup[r].answer ELSE answer[r]

SameAudience(o1, o2) ==
  /\ o1.principal = o2.principal
  /\ o1.principal # None => o1.surface = o2.surface

(* An answer reaches only the audience it was made for: no cache hit       *)
(* crosses verified identities, on any surface (cache.py:11-18,            *)
(* main.py:85-101, mcp_server.py:172-177).                                 *)
NoCrossAudienceAnswer ==
  \A r \in Requests :
    stage[r] = "answered" => SameAudience(Delivered(r).by, request[r].origin)

(* What the gate promises of an answer: the verdict is on its own text,    *)
(* and it carries the caveat exactly when that verdict is low.             *)
Honest(a) ==
  IF settings.grounding
  THEN a.judged = a.text /\ (a.caveat <=> a.score = "low")
  ELSE a.judged = None /\ ~a.caveat

(* Every answer delivered, fresh or replayed from the cache, and every     *)
(* answer the cache holds carries the caveat iff the text delivered failed *)
(* the gate (pipeline.py:145-174, tests/test_grounding_gate.py).           *)
CaveatExactlyWhenUnverified ==
  /\ \A r \in Requests : stage[r] = "answered" => Honest(Delivered(r))
  /\ \A e \in kept : Honest(e.answer)

(* No request goes on, or ends, with a call of its own still in the        *)
(* breaker; one left there would be a stutter in Breaker!Spec.             *)
CallsAreRecorded ==
  [][\A r \in Requests : stage'[r] # stage[r] => inCall'[r] = "idle"]_vars

(* Every provider call that enters the breaker has its result recorded     *)
(* before its request goes on or ends, and the breaker is driven in no     *)
(* other way: what is proved of CircuitBreaker holds of the pipeline's     *)
(* breaker (resilience.py:49-57, pipeline.py:48-54, 76, 124).              *)
ImplementsBreaker == Breaker!Spec /\ CallsAreRecorded

(* Every request ends, with an answer or an error, whatever the breaker    *)
(* and the other requests do.                                              *)
EveryRequestEnds == \A r \in Requests : stage[r] # "idle" ~> stage[r] = "idle"

GeneratorReturns(r) ==
  RouteByLabel(r) \/ ExpandQuery(r) \/ Generate(r) \/ Regenerate(r)
GeneratorFails(r) ==
  stage[r] \in {"route", "expand", "generate", "regenerate"} /\ Raises(r)
AnyGeneratorReturns == \E r \in Requests : GeneratorReturns(r)
AnyGeneratorFails == \E r \in Requests : GeneratorFails(r)

(* What docs/ARCHITECTURE.md:136-138 promises: in a provider outage, here  *)
(* the generator failing on every call while calls keep being made, the    *)
(* breaker opens.                                                          *)
GeneratorOutageOpensBreaker ==
  <>[][~AnyGeneratorReturns]_vars /\ []<><<AnyGeneratorFails>>_vars
    => <>(state # "closed")

(* What tests/test_history.py:1 promises: the history of a request reaches *)
(* the model that answers it.                                              *)
HistoryReachesTheModel ==
  \A r \in Requests :
    stage[r] = "answered" => Delivered(r).history = request[r].history
=============================================================================
