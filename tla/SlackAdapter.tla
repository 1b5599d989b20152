---------------------------- MODULE SlackAdapter ----------------------------
(***************************************************************************)
(* The Slack adapter, app/channels/slack.py: the events webhook, its       *)
(* duplicate filter, and the background tasks that answer.                 *)
(*                                                                         *)
(* slack_events does not await anything between reading the body and       *)
(* returning, so on the event loop a delivery is handled in one step.      *)
(* process_event awaits three times (post the placeholder, ask, edit it);  *)
(* other deliveries and tasks run while it waits.  Both Slack calls go     *)
(* through the adapter's own circuit breaker, entered before the await and *)
(* left after it.                                                          *)
(*                                                                         *)
(* The platform (external) sends an event, and sends it again with a retry *)
(* header until a timely acknowledgement reaches it.  Deliveries may be    *)
(* lost, delayed and overtaken; an acknowledgement may be lost or late.    *)
(***************************************************************************)
EXTENDS Integers, FiniteSets

CONSTANTS
  Events,             \* event ids
  MaxRetries,         \* bound: retries the platform makes of an event
  SignatureMaxAge,    \* SIGNATURE_MAX_AGE_SECONDS, in ticks
  SeenTTL,            \* SeenEventSet.ttl_seconds, in ticks
  Threshold, Cooldown, \* the breaker's
  MaxTime             \* bound: ticks in a behaviour

ASSUME BoundsAssumption ==
  /\ MaxRetries \in Nat /\ SignatureMaxAge \in Nat
  /\ SeenTTL \in Nat /\ MaxTime \in Nat

VARIABLES
  now,        \* time.time()
  kind,       \* per event: what its payload is to the handler
  sent,       \* per event: deliveries the platform has sent
  acked,      \* the events whose acknowledgement reached it in time
  network,    \* deliveries under way
  seen,       \* SeenEventSet._items: event id -> seen at
  task,       \* per delivery: where its process_event is
  posted      \* the deliveries whose placeholder is in the channel

VARIABLES state, failureCount, openedFor, inCall, failureRun, quietFor

(* History variable: when a delivery's task started. *)
VARIABLE startedAt

platformVars == <<kind, sent, acked, network>>
taskVars == <<task, posted, startedAt>>
breakerVars == <<state, failureCount, openedFor, inCall, failureRun, quietFor>>
vars == <<now, kind, sent, acked, network, seen, task, posted, startedAt, state, failureCount,
          openedFor, inCall, failureRun, quietFor>>

(* "ignored": of a bot, with a subtype, or in a channel not allowed;       *)
(* "blank": without text.                                                  *)
Kinds == {"question", "blank", "ignored"}

(* A delivery is known by its event and its x_slack_retry_num, 0 for none. *)
Deliveries == [event : Events, retry : 0..MaxRetries]
NotStarted == -1

Breaker == INSTANCE CircuitBreaker WITH Callers <- Deliveries

Init ==
  /\ now = 0
  /\ kind \in [Events -> Kinds]
  /\ sent = [e \in Events |-> 0]
  /\ acked = {}
  /\ network = {}
  /\ seen = << >>
  /\ task = [d \in Deliveries |-> "none"]
  /\ posted = {}
  /\ startedAt = [d \in Deliveries |-> NotStarted]
  /\ Breaker!Init

-----------------------------------------------------------------------------
(* The platform and the network.                                           *)

Send(e) ==
  /\ sent[e] <= MaxRetries
  /\ e \notin acked
  /\ network' = network \cup {[event |-> e, retry |-> sent[e], signedAt |-> now]}
  /\ sent' = [sent EXCEPT ![e] = @ + 1]
  /\ UNCHANGED <<now, kind, acked, seen, taskVars, breakerVars>>

Lose(m) ==
  /\ m \in network
  /\ network' = network \ {m}
  /\ UNCHANGED <<now, kind, sent, acked, seen, taskVars, breakerVars>>

-----------------------------------------------------------------------------
(* slack_events                                                            *)

Authentic(m) == now - m.signedAt <= SignatureMaxAge

(* SeenEventSet._evict. *)
Unexpired == [e \in {x \in DOMAIN seen : now - seen[x] <= SeenTTL} |-> seen[e]]

(* Slip: an event is remembered only when a retry of it comes in. *)
RememberedOnRetry(m) ==
  IF m.retry = 0 THEN Unexpired
  ELSE [e \in DOMAIN Unexpired \cup {m.event} |->
          IF e \in DOMAIN Unexpired THEN Unexpired[e] ELSE now]

(* SeenEventSet.add: an event already there keeps its time. *)
Remembered(m) ==
  [e \in DOMAIN Unexpired \cup {m.event} |->
     IF e \in DOMAIN Unexpired THEN Unexpired[e] ELSE now]

(* Slip: whatever carries a retry header is taken for a duplicate. *)
DuplicateAnyRetry(m) == m.retry > 0

Duplicate(m) == m.retry > 0 /\ m.event \in DOMAIN Unexpired

Delivery(m) == [event |-> m.event, retry |-> m.retry]

(* The response is on its way; it may come too late, or not at all. *)
Acknowledge(m) == acked' = acked \/ acked' = acked \cup {m.event}

Receive(m) ==
  /\ m \in network
  /\ network' = network \ {m}
  /\ UNCHANGED <<now, kind, sent, breakerVars>>

(* 401: a stale signature. *)
Reject(m) ==
  /\ Receive(m)
  /\ ~Authentic(m)
  /\ UNCHANGED <<acked, seen, taskVars>>

Deduplicate(m) ==
  /\ Receive(m)
  /\ Authentic(m) /\ Duplicate(m)
  /\ seen' = Remembered(m)
  /\ Acknowledge(m)
  /\ UNCHANGED taskVars

Ignore(m) ==
  /\ Receive(m)
  /\ Authentic(m) /\ ~Duplicate(m) /\ kind[m.event] = "ignored"
  /\ seen' = Remembered(m)
  /\ Acknowledge(m)
  /\ UNCHANGED taskVars

(* The task is queued; it returns at once when the text is blank. *)
Accept(m) ==
  /\ Receive(m)
  /\ Authentic(m) /\ ~Duplicate(m) /\ kind[m.event] # "ignored"
  /\ seen' = Remembered(m)
  /\ Acknowledge(m)
  /\ task' = [task EXCEPT ![Delivery(m)] = IF kind[m.event] = "blank" THEN "blank" ELSE "post"]
  /\ startedAt' = [startedAt EXCEPT ![Delivery(m)] = now]
  /\ UNCHANGED posted

Handle(m) == Reject(m) \/ Deduplicate(m) \/ Ignore(m) \/ Accept(m)

-----------------------------------------------------------------------------
(* process_event; _api_call for its two Slack calls.                       *)

Become(d, stage) == task' = [task EXCEPT ![d] = stage]

EnterBreaker(d) ==
  /\ task[d] \in {"post", "edit"}
  /\ Breaker!Admit(d) \/ Breaker!Probe(d)
  /\ UNCHANGED <<now, platformVars, seen, taskVars>>

(* CircuitBreakerOpen ends the task. *)
Refused(d) ==
  /\ task[d] \in {"post", "edit"}
  /\ Breaker!Refuse(d)
  /\ Become(d, "dead")
  /\ UNCHANGED <<now, platformVars, seen, posted, startedAt>>

(* Slip: the call that raises is not recorded, as a CancelledError would   *)
(* not be if __exit__ looked for Exception only.                           *)
SlackCallRaisesUnrecorded(d) ==
  /\ task[d] \in {"post", "edit"} /\ inCall[d] # "idle"
  /\ Become(d, "dead")
  /\ UNCHANGED <<now, platformVars, seen, posted, startedAt, breakerVars>>

(* A timeout, an HTTP error, ok: false or a cancellation; __exit__ records *)
(* each of them.                                                           *)
SlackCallRaises(d) ==
  /\ task[d] \in {"post", "edit"}
  /\ Breaker!Fail(d)
  /\ Become(d, "dead")
  /\ UNCHANGED <<now, platformVars, seen, posted, startedAt>>

PlaceholderPosted(d) ==
  /\ task[d] = "post"
  /\ Breaker!Succeed(d)
  /\ posted' = posted \cup {d}
  /\ Become(d, "ask")
  /\ UNCHANGED <<now, platformVars, seen, startedAt>>

AskReturns(d) ==
  /\ task[d] = "ask"
  /\ Become(d, "edit")
  /\ UNCHANGED <<now, platformVars, seen, posted, startedAt, breakerVars>>

(* The core raises: the provider fails, its breaker is open, the question  *)
(* is too long.  Nothing catches it.                                       *)
AskRaises(d) ==
  /\ task[d] = "ask"
  /\ Become(d, "dead")
  /\ UNCHANGED <<now, platformVars, seen, posted, startedAt, breakerVars>>

AnswerShown(d) ==
  /\ task[d] = "edit"
  /\ Breaker!Succeed(d)
  /\ Become(d, "answered")
  /\ UNCHANGED <<now, platformVars, seen, posted, startedAt>>

(* Slip: on a Slack error the task tries again. *)
ProcessEventRetries(d) ==
  \/ EnterBreaker(d)
  \/ /\ task[d] \in {"post", "edit"} /\ Breaker!Fail(d)
     /\ UNCHANGED <<now, platformVars, seen, taskVars>>
  \/ PlaceholderPosted(d) \/ AskReturns(d) \/ AskRaises(d) \/ AnswerShown(d)

ProcessEvent(d) ==
  \/ EnterBreaker(d) \/ Refused(d) \/ SlackCallRaises(d)
  \/ PlaceholderPosted(d) \/ AskReturns(d) \/ AskRaises(d) \/ AnswerShown(d)

Tick ==
  /\ now < MaxTime
  /\ now' = now + 1
  /\ Breaker!Tick
  /\ UNCHANGED <<platformVars, seen, taskVars>>

Next ==
  \/ \E e \in Events : Send(e)
  \/ \E m \in network : Lose(m) \/ Handle(m)
  \/ \E d \in Deliveries : ProcessEvent(d)
  \/ Tick

Spec == Init /\ [][Next]_vars

(***************************************************************************)
(* Fairness: the event loop runs its tasks; a Slack call ends (timeout of  *)
(* 10 s, slack.py:232) and so does the core's answer.                      *)
(***************************************************************************)
FairSpec == Spec /\ \A d \in Deliveries : WF_vars(ProcessEvent(d))

-----------------------------------------------------------------------------
Ended == {"none", "blank", "answered", "dead"}

TypeOK ==
  /\ now \in 0..MaxTime
  /\ kind \in [Events -> Kinds]
  /\ sent \in [Events -> 0..(MaxRetries + 1)]
  /\ acked \subseteq Events
  /\ network \subseteq [event : Events, retry : 0..MaxRetries, signedAt : 0..now]
  /\ DOMAIN seen \subseteq Events /\ \A e \in DOMAIN seen : seen[e] \in 0..now
  /\ task \in [Deliveries -> Ended \cup {"post", "ask", "edit"}]
  /\ posted \subseteq {d \in Deliveries : task[d] \in {"ask", "edit", "answered", "dead"}}
  /\ startedAt \in [Deliveries -> {NotStarted} \cup 0..now]

Started(d) == startedAt[d] # NotStarted

(* The tasks that hold back the retries to come: the event's first and     *)
(* those of its retries.  That of an original which came after a retry had *)
(* its task does not: the event keeps the time it has in the set.          *)
Leads(d) ==
  /\ Started(d)
  /\ \/ d.retry > 0
     \/ \A other \in Deliveries :
          other.event = d.event /\ Started(other) => startedAt[d] <= startedAt[other]

(* Retries are answered once: a retry starts a task only if more than the  *)
(* TTL has gone by since the event's first task and since the task of any  *)
(* other retry, those of the same tick included (slack.py:66-85, 122-123,  *)
(* docs/adapters.md:109-114).  It is about retries, as the code is: an     *)
(* original that comes after its own retry is answered again (124-125).    *)
RetriesAnsweredOnce ==
  [][\A d, other \in Deliveries :
       /\ ~Started(d) /\ Started(d)' /\ d.retry > 0
       /\ Leads(other) /\ other.event = d.event
       => now - startedAt[other] > SeenTTL]_vars

(* Once the platform is told that an event is in hand, a task for it has   *)
(* been started: no acknowledgement, not even the one given to a dropped   *)
(* retry, loses a question (slack.py:122-136).                             *)
AcknowledgedIsStarted ==
  \A e \in acked : kind[e] # "ignored" => \E d \in Deliveries : d.event = e /\ Started(d)

(* No task goes on, or ends, with a call of its own still in the breaker:  *)
(* the breaker's specification lets a caller out only by recording its     *)
(* result, but it also lets one stay in for ever.                          *)
CallsAreRecorded ==
  [][\A d \in Deliveries : task'[d] # task[d] => inCall'[d] = "idle"]_vars

(* Every Slack call that enters the adapter's breaker has its result       *)
(* recorded before its task goes on or ends, across the awaits, errors and *)
(* cancellations included, and the breaker is driven in no other way: what *)
(* is proved of CircuitBreaker holds of it (slack.py:231,                  *)
(* resilience.py:37-47).                                                  *)
ImplementsBreaker == Breaker!Spec /\ CallsAreRecorded

(* Every task that starts ends. *)
TasksEnd == \A d \in Deliveries : task[d] \notin Ended ~> task[d] \in Ended
=============================================================================
