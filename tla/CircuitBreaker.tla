--------------------------- MODULE CircuitBreaker ---------------------------
(***************************************************************************)
(* The circuit breaker of app/resilience.py, shared by every worker thread *)
(* (the pipeline's breaker) or by every background task of the event loop  *)
(* (the Slack adapter's).                                                  *)
(*                                                                         *)
(* Each of the three critical sections under self._lock is one atomic      *)
(* step; the guarded call runs between two of them with the lock released, *)
(* so the other callers' steps interleave with it.  CircuitBreaker.call    *)
(* and the context manager take the same three sections.                   *)
(*                                                                         *)
(* Time.  The code only ever compares clock() - opened_at with             *)
(* cooldown_seconds, so the model keeps that difference, saturating at     *)
(* Cooldown, instead of two absolute times: the state space is finite with *)
(* no bound on the length of a behaviour.  The clock does not run back.    *)
(***************************************************************************)
EXTENDS Integers

CONSTANTS
  Callers,    \* worker threads (or tasks) that share the breaker
  Threshold,  \* failure_threshold
  Cooldown    \* cooldown_seconds, in ticks

ASSUME ThresholdAssumption == Threshold \in Nat \ {0}
ASSUME CooldownAssumption == Cooldown \in Nat

VARIABLES
  state,         \* self.state
  failureCount,  \* self.failure_count
  openedFor,     \* clock() - self.opened_at, NotOpened when opened_at is None
  inCall         \* per caller: where it is in CircuitBreaker.call

(***************************************************************************)
(* History variables: they record what happened and guard no step.         *)
(***************************************************************************)
VARIABLES
  failureRun,    \* failures recorded since the last recorded success,
                 \* saturating at Threshold
  quietFor       \* ticks since the last recorded failure, saturating at
                 \* Cooldown

breakerVars == <<state, failureCount, openedFor>>
historyVars == <<failureRun, quietFor>>
vars == <<state, failureCount, openedFor, inCall, failureRun, quietFor>>

NotOpened == -1

(* "idle": outside the breaker.  "call": admitted while closed.  "probe":  *)
(* admitted by the transition to half_open.                                *)
Positions == {"idle", "call", "probe"}

AtMost(n, bound) == IF n < bound THEN n ELSE bound

Init ==
  /\ state = "closed"
  /\ failureCount = 0
  /\ openedFor = NotOpened
  /\ inCall = [c \in Callers |-> "idle"]
  /\ failureRun = 0
  /\ quietFor = Cooldown

-----------------------------------------------------------------------------
(* _before_call, one disjunct per way out of it.                           *)

CooldownOver == openedFor # NotOpened /\ openedFor >= Cooldown

Admit(c) ==
  /\ inCall[c] = "idle"
  /\ state = "closed"
  /\ inCall' = [inCall EXCEPT ![c] = "call"]
  /\ UNCHANGED <<breakerVars, historyVars>>

Probe(c) ==
  /\ inCall[c] = "idle"
  /\ state = "open"
  /\ CooldownOver
  /\ inCall' = [inCall EXCEPT ![c] = "probe"]
  /\ state' = "half_open"
  /\ UNCHANGED <<failureCount, openedFor, historyVars>>

(* CircuitBreakerOpen is raised: nothing changes, the caller stays outside. *)
Refuse(c) ==
  /\ inCall[c] = "idle"
  /\ \/ state = "half_open"
     \/ state = "open" /\ ~CooldownOver
  /\ UNCHANGED vars

BeforeCall(c) == Admit(c) \/ Probe(c) \/ Refuse(c)

-----------------------------------------------------------------------------
(* The two ways a guarded call ends.  Neither looks at how the caller was  *)
(* admitted, nor at when.                                                  *)

(* Slip: the success resets the count and forgets the state. *)
RecordSuccessKeepsState ==
  /\ failureCount' = 0
  /\ UNCHANGED <<state, openedFor>>

RecordSuccess ==
  /\ state' = "closed"
  /\ failureCount' = 0
  /\ openedFor' = NotOpened

(* Slip: > for >= at the threshold. *)
CountFailureOpensLate ==
  /\ failureCount' = failureCount + 1
  /\ IF failureCount' > Threshold
     THEN state' = "open" /\ openedFor' = 0
     ELSE UNCHANGED <<state, openedFor>>

CountFailure ==
  /\ failureCount' = failureCount + 1
  /\ IF failureCount' >= Threshold
     THEN state' = "open" /\ openedFor' = 0
     ELSE UNCHANGED <<state, openedFor>>

(* Slip: a failed probe reopens the breaker on the old stamp. *)
FailProbeKeepsStamp ==
  state' = "open" /\ failureCount' = Threshold /\ UNCHANGED openedFor

(* Slip: a failed probe is not recorded at all. *)
FailProbeDropped == UNCHANGED breakerVars

(* Slip: a failed probe gives the provider a clean slate. *)
FailProbeForgives ==
  state' = "closed" /\ failureCount' = 0 /\ openedFor' = NotOpened

FailProbe == state' = "open" /\ openedFor' = 0 /\ failureCount' = Threshold

RecordFailure == IF state = "half_open" THEN FailProbe ELSE CountFailure

Succeed(c) ==
  /\ inCall[c] # "idle"
  /\ RecordSuccess
  /\ inCall' = [inCall EXCEPT ![c] = "idle"]
  /\ failureRun' = 0
  /\ UNCHANGED quietFor

Fail(c) ==
  /\ inCall[c] # "idle"
  /\ RecordFailure
  /\ inCall' = [inCall EXCEPT ![c] = "idle"]
  /\ failureRun' = AtMost(failureRun + 1, Threshold)
  /\ quietFor' = 0

(* self.clock() advances. *)
Tick ==
  /\ openedFor' = IF openedFor = NotOpened THEN NotOpened
                  ELSE AtMost(openedFor + 1, Cooldown)
  /\ quietFor' = AtMost(quietFor + 1, Cooldown)
  /\ UNCHANGED <<state, failureCount, inCall, failureRun>>

Next ==
  \/ \E c \in Callers : BeforeCall(c) \/ Succeed(c) \/ Fail(c)
  \/ Tick

Spec == Init /\ [][Next]_vars

(***************************************************************************)
(* Fairness.  The clock runs; a guarded call ends, one way or the other,   *)
(* because the clients that make it time out (10 s in slack.py:232, the    *)
(* OpenAI client's own default in providers.py); and requests keep         *)
(* arriving, which is an assumption on the callers, needed because only a  *)
(* caller can move the breaker out of "open".                              *)
(***************************************************************************)
CallsEnd == \A c \in Callers : WF_vars(Succeed(c) \/ Fail(c))
RequestsArrive == \A c \in Callers : WF_vars(BeforeCall(c))
FairSpec == Spec /\ WF_vars(Tick) /\ CallsEnd /\ RequestsArrive

-----------------------------------------------------------------------------
TypeOK ==
  /\ state \in {"closed", "open", "half_open"}
  /\ failureCount \in Nat
  /\ openedFor \in {NotOpened} \cup 0..Cooldown
  /\ inCall \in [Callers -> Positions]
  /\ failureRun \in 0..Threshold
  /\ quietFor \in 0..Cooldown

(* The breaker stops admitting calls freely exactly when the last          *)
(* Threshold results recorded, in the order the lock was taken and         *)
(* whichever callers they came from, are all failures: concurrent results  *)
(* neither lose a failure nor trip it early (resilience.py:31-34).         *)
OpenExactlyOnFailureRun == (state # "closed") <=> (failureRun = Threshold)

(* Half-open is never stranded: only a recorded result leaves that state   *)
(* and nobody else is admitted in it, so the caller whose probe entered it *)
(* must still be in flight (resilience.py:69-75, 86-90).                   *)
HalfOpenHasProbe == (state = "half_open") => \E c \in Callers : inCall[c] = "probe"

Admitted(c) == inCall[c] = "idle" /\ inCall'[c] # "idle"

(* While the last Threshold results are failures, whoever is admitted is   *)
(* admitted at least Cooldown after the last of them was recorded, stale   *)
(* results and failed probes included: every failure restarts the wait.    *)
FailFastDuringCooldown ==
  [][\A c \in Callers : Admitted(c) /\ failureRun = Threshold => quietFor = Cooldown]_vars

SomeFailure == \E c \in Callers : Fail(c)
SomeSuccess == \E c \in Callers : Succeed(c)

(* Once the provider stops failing, the breaker closes for good. *)
RecoveryCloses == <>[][~SomeFailure]_vars => <>[](state = "closed")

(* Once nothing succeeds any more, the breaker stops admitting freely, for *)
(* good: what it does for one kind of call used alone.                     *)
OutageOpens == <>[][~SomeSuccess]_vars => <>[](state # "closed")

(* What resilience.py:70-71 says of the half-open state: a probe is in     *)
(* flight, and everyone else keeps failing fast until it resolves.         *)
FailFastUntilProbeResolves ==
  [][(\E d \in Callers : inCall[d] = "probe") => \A c \in Callers : ~Admitted(c)]_vars
=============================================================================
