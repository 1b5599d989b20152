----------------------- MODULE CircuitBreakerProofs -------------------------
(***************************************************************************)
(* Proofs about CircuitBreaker for every set of callers, every threshold   *)
(* and every cooldown.                                                     *)
(*                                                                         *)
(* OpenExactlyOnFailureRun and FailFastDuringCooldown are not inductive:   *)
(* the first needs to know that failure_count is the failure run while the *)
(* breaker is closed and at least Threshold otherwise; the second that     *)
(* opened_at is the time of the last recorded failure while it is not.     *)
(***************************************************************************)
EXTENDS CircuitBreaker, TLAPS

ClosedCountsTheRun ==
  state = "closed" =>
    /\ openedFor = NotOpened
    /\ failureCount = failureRun
    /\ failureCount < Threshold

OpenStampsLastFailure ==
  state # "closed" =>
    /\ openedFor = quietFor
    /\ failureRun = Threshold
    /\ failureCount >= Threshold

IInv ==
  /\ TypeOK
  /\ ClosedCountsTheRun
  /\ OpenStampsLastFailure
  /\ HalfOpenHasProbe

-----------------------------------------------------------------------------
(* Saturating addition: its range, and that it agrees with the plain sum   *)
(* below the bound.                                                        *)
LEMMA AtMostRange ==
  ASSUME NEW bound \in Nat, NEW n \in 0..bound
  PROVE  /\ AtMost(n + 1, bound) \in 0..bound
         /\ n < bound => AtMost(n + 1, bound) = n + 1
         /\ n = bound => AtMost(n + 1, bound) = bound
  BY DEF AtMost

(* The breaker starts in the invariant. *)
LEMMA InitIInv == Init => IInv
  BY ThresholdAssumption, CooldownAssumption
     DEF Init, IInv, TypeOK, ClosedCountsTheRun, OpenStampsLastFailure,
         HalfOpenHasProbe, Positions, NotOpened

(* Admissions: a call, a probe, or a refusal. *)
LEMMA BeforeCallIInv ==
  ASSUME IInv, NEW c \in Callers, BeforeCall(c)
  PROVE  IInv'
<1> USE ThresholdAssumption, CooldownAssumption
<1> DEFINE Rest == ClosedCountsTheRun /\ OpenStampsLastFailure
<1>1. CASE Admit(c)
  <2>1. TypeOK'
    BY <1>1 DEF IInv, TypeOK, Admit, Positions, breakerVars, historyVars
  <2>2. Rest'
    BY <1>1 DEF IInv, Admit, breakerVars, historyVars, ClosedCountsTheRun,
                OpenStampsLastFailure
  <2>3. HalfOpenHasProbe'
    BY <1>1 DEF Admit, breakerVars, HalfOpenHasProbe
  <2> QED BY <2>1, <2>2, <2>3 DEF IInv
<1>2. CASE Probe(c)
  <2>1. TypeOK'
    BY <1>2 DEF IInv, TypeOK, Probe, Positions, historyVars
  <2>2. Rest'
    BY <1>2 DEF IInv, Probe, historyVars, ClosedCountsTheRun, OpenStampsLastFailure
  <2>3. inCall'[c] = "probe"
    BY <1>2 DEF IInv, TypeOK, Probe
  <2> QED BY <2>1, <2>2, <2>3 DEF IInv, HalfOpenHasProbe
<1>3. CASE Refuse(c)
  BY <1>3 DEF Refuse, vars, IInv, TypeOK, ClosedCountsTheRun, OpenStampsLastFailure,
              HalfOpenHasProbe
<1> QED BY <1>1, <1>2, <1>3 DEF BeforeCall

(* A recorded success closes the breaker from every state. *)
LEMMA SucceedIInv ==
  ASSUME IInv, NEW c \in Callers, Succeed(c)
  PROVE  IInv'
  BY ThresholdAssumption, CooldownAssumption
     DEF IInv, TypeOK, ClosedCountsTheRun, OpenStampsLastFailure, HalfOpenHasProbe,
         Succeed, RecordSuccess, Positions, NotOpened

(* A recorded failure: a failed probe, one that opens the breaker, one that *)
(* restamps it, or one below the threshold.                                 *)
LEMMA FailIInv ==
  ASSUME IInv, NEW c \in Callers, Fail(c)
  PROVE  IInv'
<1> USE ThresholdAssumption, CooldownAssumption
<1>0. failureRun' \in 0..Threshold
  BY AtMostRange DEF IInv, TypeOK, Fail
<1>1. /\ inCall' \in [Callers -> Positions]
      /\ quietFor' = 0
      /\ failureRun' = AtMost(failureRun + 1, Threshold)
  BY DEF IInv, TypeOK, Fail, Positions
<1>2. CASE state = "half_open"
  <2>1. state' = "open" /\ openedFor' = 0 /\ failureCount' = Threshold
    BY <1>2 DEF Fail, RecordFailure, FailProbe
  <2>2. failureRun' = Threshold
    BY <1>1, <1>2, AtMostRange DEF IInv, OpenStampsLastFailure
  <2> QED
    BY <1>0, <1>1, <2>1, <2>2
       DEF IInv, TypeOK, ClosedCountsTheRun, OpenStampsLastFailure, HalfOpenHasProbe
<1>3. CASE state # "half_open"
  <2>1. CountFailure
    BY <1>3 DEF Fail, RecordFailure
  <2>2. CASE failureCount' >= Threshold
    <3>1. state' = "open" /\ openedFor' = 0 /\ failureCount' \in Nat
      BY <2>1, <2>2 DEF CountFailure, IInv, TypeOK
    <3>2. failureRun' = Threshold
      <4>1. failureRun = Threshold \/ failureRun + 1 = Threshold
        BY <2>1, <2>2 DEF IInv, TypeOK, ClosedCountsTheRun, OpenStampsLastFailure,
                          CountFailure
      <4> QED BY <4>1, <1>1 DEF AtMost, IInv, TypeOK
    <3> QED
      BY <1>0, <1>1, <2>2, <3>1, <3>2
         DEF IInv, TypeOK, ClosedCountsTheRun, OpenStampsLastFailure, HalfOpenHasProbe
  <2>3. CASE ~(failureCount' >= Threshold)
    <3>1. /\ failureCount' = failureCount + 1
          /\ UNCHANGED <<state, openedFor>>
      BY <2>1, <2>3 DEF CountFailure
    <3>2. state = "closed"
      BY <2>3, <3>1 DEF IInv, TypeOK, OpenStampsLastFailure
    <3>3. failureRun' = failureRun + 1
      BY <1>1, <2>3, <3>1, <3>2 DEF AtMost, IInv, TypeOK, ClosedCountsTheRun
    <3> QED
      BY <1>0, <1>1, <2>3, <3>1, <3>2, <3>3
         DEF IInv, TypeOK, ClosedCountsTheRun, OpenStampsLastFailure, HalfOpenHasProbe
  <2> QED BY <2>2, <2>3
<1> QED BY <1>2, <1>3

(* Time passing moves the stamp and the history together. *)
LEMMA TickIInv == IInv /\ Tick => IInv'
<1> SUFFICES ASSUME IInv, Tick PROVE IInv'
  OBVIOUS
<1> USE ThresholdAssumption, CooldownAssumption
<1>1. quietFor' \in 0..Cooldown
  BY AtMostRange DEF IInv, TypeOK, Tick
<1>2. openedFor' \in {NotOpened} \cup 0..Cooldown
  BY AtMostRange DEF IInv, TypeOK, Tick
<1>3. (openedFor = quietFor /\ quietFor \in Nat) => openedFor' = quietFor'
  BY DEF Tick, NotOpened
<1> QED
  BY <1>1, <1>2, <1>3
     DEF IInv, TypeOK, ClosedCountsTheRun, OpenStampsLastFailure, HalfOpenHasProbe, Tick

LEMMA StutterIInv == IInv /\ UNCHANGED vars => IInv'
  BY DEF IInv, TypeOK, ClosedCountsTheRun, OpenStampsLastFailure, HalfOpenHasProbe, vars

(* IInv holds in every reachable state. *)
THEOREM Invariance == Spec => []IInv
<1>1. Init => IInv
  BY InitIInv
<1>2. IInv /\ [Next]_vars => IInv'
  BY BeforeCallIInv, SucceedIInv, FailIInv, TickIInv, StutterIInv DEF Next
<1> QED BY <1>1, <1>2, PTL DEF Spec

-----------------------------------------------------------------------------
(* Every variable keeps its type; in particular, opened_at is None or in   *)
(* the past.                                                               *)
THEOREM TypeCorrect == Spec => []TypeOK
<1>1. IInv => TypeOK
  BY DEF IInv
<1> QED BY <1>1, Invariance, PTL

(* The breaker is off "closed" exactly on a run of Threshold failures,     *)
(* however the results of concurrent calls interleave.                     *)
THEOREM OpensOnFailureRun == Spec => []OpenExactlyOnFailureRun
<1>1. IInv => OpenExactlyOnFailureRun
  BY ThresholdAssumption
     DEF IInv, TypeOK, ClosedCountsTheRun, OpenStampsLastFailure, OpenExactlyOnFailureRun
<1> QED BY <1>1, Invariance, PTL

(* The half-open state always has its probe in flight, so it cannot become *)
(* a state that refuses everyone and that nobody can leave.                *)
THEOREM NeverStranded == Spec => []HalfOpenHasProbe
<1>1. IInv => HalfOpenHasProbe
  BY DEF IInv
<1> QED BY <1>1, Invariance, PTL

(* During a failure run nobody is admitted until Cooldown has passed since *)
(* the last recorded failure.                                              *)
THEOREM FailsFast == Spec => FailFastDuringCooldown
<1> DEFINE Quiet == \A c \in Callers :
                      Admitted(c) /\ failureRun = Threshold => quietFor = Cooldown
<1>1. IInv /\ [Next]_vars => [Quiet]_vars
  <2> SUFFICES ASSUME IInv, Next, NEW c \in Callers, Admitted(c), failureRun = Threshold
               PROVE  quietFor = Cooldown
    BY DEF vars
  <2> USE ThresholdAssumption, CooldownAssumption
  <2>1. state # "closed"
    BY DEF IInv, TypeOK, ClosedCountsTheRun
  <2>2. PICK d \in Callers : BeforeCall(d) \/ Succeed(d) \/ Fail(d) \/ Tick
    BY DEF Next
  <2>3. CASE BeforeCall(d)
    <3>1. Probe(d)
      BY <2>1, <2>3 DEF BeforeCall, Admit, Refuse, vars, Admitted
    <3> QED
      BY <2>1, <3>1 DEF Probe, CooldownOver, IInv, TypeOK, OpenStampsLastFailure
  <2>4. CASE Succeed(d) \/ Fail(d)
    BY <2>4 DEF Succeed, Fail, Admitted, IInv, TypeOK
  <2>5. CASE Tick
    BY <2>5 DEF Tick, Admitted
  <2> QED BY <2>2, <2>3, <2>4, <2>5
<1> QED BY <1>1, Invariance, PTL DEF Spec, FailFastDuringCooldown
=============================================================================
