---------------------------- MODULE RequestGate -----------------------------
(***************************************************************************)
(* What a call of /v1 passes before its handler runs (app/main.py): the    *)
(* bearer check, then the rate limiter, then the limit on the question's   *)
(* length.  The bearer check and the choice of the bucket read only the    *)
(* request and the settings, and allow runs under the limiter's lock, so a *)
(* call is one step.  A call refused by the bearer check changes nothing,  *)
(* and has no action here.                                                 *)
(*                                                                         *)
(* The limiter is enabled, as by default.  What the handlers then do is    *)
(* the business of AnswerPipeline; here it matters whether they reach a    *)
(* provider, which is what the rate and the length limit are there for.    *)
(***************************************************************************)
EXTENDS RateLimiter

CONSTANTS
  Principal,    \* the bucket of the configured bearer; the other Callers are hosts
  Requests      \* what callers send

Request == [host : Callers \ {Principal}, bearer : BOOLEAN, oversized : BOOLEAN,
            route : {"ask", "search", "feedback"}]

ASSUME RequestsAssumption == Principal \in Callers /\ Requests \subseteq Request

VARIABLES
  protected     \* API_AUTH_TOKEN is set

(* History variables of a protected service: handlers that reached a       *)
(* provider, and ticks since it started.                                   *)
VARIABLES provided, uptime

gateVars == <<protected, provided, uptime>>

GateInit ==
  /\ Init
  /\ protected \in BOOLEAN
  /\ provided = 0
  /\ uptime = 0

-----------------------------------------------------------------------------
(* require_api_auth: `bearer` says that the header holds the token. *)
Authorized(q) == protected => q.bearer

(* rate_limit_key *)
Bucket(q) == IF protected /\ q.bearer THEN Principal ELSE q.host

(* Slip: the limiter is asked first. *)
ChargedBeforeAuth(q) == TRUE

(* The router's dependencies run in their order: a call that is refused    *)
(* with 401 is not charged.                                                *)
Charged(q) == Authorized(q)

(* enforce_question_length is the first thing ask_route and search_route   *)
(* do, after the call has been charged; feedback_route needs no provider.  *)
ReachesProvider(q) == Authorized(q) /\ q.route # "feedback" /\ ~q.oversized

Pass(q) ==
  /\ Charged(q) /\ Allow(Bucket(q))
  /\ provided' = IF protected /\ ReachesProvider(q) THEN provided + 1 ELSE provided
  /\ UNCHANGED <<protected, uptime>>

(* 429, with the Retry-After the limiter gave. *)
Throttle(q) ==
  /\ Charged(q) /\ Deny(Bucket(q))
  /\ UNCHANGED gateVars

GateTick ==
  /\ Tick
  /\ uptime' = IF protected THEN uptime + 1 ELSE uptime
  /\ UNCHANGED <<protected, provided>>

GateSetBack == SetBack /\ UNCHANGED gateVars

GateNext ==
  \/ \E q \in Requests : Pass(q) \/ Throttle(q)
  \/ GateTick
  \/ GateSetBack

GateSpec == GateInit /\ [][GateNext]_<<vars, gateVars>>

-----------------------------------------------------------------------------
(* With a bearer configured, all its holders together reach the providers  *)
(* no more often than one caller may, from the start of the service on:    *)
(* calls without it, however many and from however many hosts, neither     *)
(* reach a provider nor make the limiter forget what the holders have      *)
(* spent (main.py:184-227, docs/THREAT-MODEL.md:182).                      *)
BearersShareOneRate ==
  protected => provided * Window <= Full + uptime * Capacity
=============================================================================
