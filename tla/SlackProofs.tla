---------------------------- MODULE SlackProofs -----------------------------
(***************************************************************************)
(* Proofs about SlackAdapter for every set of events, every number of      *)
(* retries, every TTL and signature age, and every breaker.                *)
(*                                                                         *)
(* RetriesAnsweredOnce is about starts in the past, the code's decision    *)
(* about the set of seen events: they are tied by LeaderIsSeen (within the *)
(* TTL of a task that leads, its event is in the set, and no older than    *)
(* the task) and SeenIsAStart (what is in the set was put there by a       *)
(* task's start).  No delivery starts twice because the platform numbers   *)
(* its retries (NetworkWell).                                              *)
(***************************************************************************)
EXTENDS SlackAdapter, SlackRender, SequenceTheorems, WellFoundedInduction, TLAPS

NetworkWell ==
  /\ \A m \in network : m.retry < sent[m.event] /\ ~Started(Delivery(m))
  /\ \A m1, m2 \in network : Delivery(m1) = Delivery(m2) => m1 = m2

StartsWell ==
  \A d \in Deliveries :
    IF Started(d) THEN d.retry < sent[d.event] ELSE task[d] = "none"

SeenIsAStart ==
  \A e \in DOMAIN seen : kind[e] # "ignored" =>
    \E d \in Deliveries : d.event = e /\ startedAt[d] = seen[e]

LeaderIsSeen ==
  \A d \in Deliveries : Leads(d) /\ now - startedAt[d] <= SeenTTL =>
    d.event \in DOMAIN seen /\ startedAt[d] <= seen[d.event]

(* Who is in the breaker is at one of its two calls. *)
CallsWell ==
  /\ DOMAIN inCall = Deliveries
  /\ \A d \in Deliveries : inCall[d] # "idle" => task[d] \in {"post", "edit"}

IInv ==
  /\ TypeOK /\ NetworkWell /\ StartsWell /\ SeenIsAStart /\ LeaderIsSeen
  /\ AcknowledgedIsStarted /\ CallsWell

-----------------------------------------------------------------------------
(* The adapter implements the breaker. *)

LEMMA InitBreaker == Init => Breaker!Init
  BY DEF Init

(* Each step is one of the breaker's or leaves it alone. *)
LEMMA NextBreaker == [Next]_vars => [Breaker!Next]_(Breaker!vars)
<1> SUFFICES ASSUME [Next]_vars
             PROVE  Breaker!Next \/ UNCHANGED Breaker!vars
  OBVIOUS
<1>1. CASE \E e \in Events : Send(e)
  BY <1>1 DEF Send, breakerVars, Breaker!vars
<1>2. CASE \E m \in network : Lose(m)
  BY <1>2 DEF Lose, breakerVars, Breaker!vars
<1>3. CASE \E m \in network : Handle(m)
  BY <1>3 DEF Handle, Reject, Deduplicate, Ignore, Accept, Receive, breakerVars, Breaker!vars
<1>4. ASSUME NEW d \in Deliveries, ProcessEvent(d)
      PROVE  Breaker!Next \/ UNCHANGED Breaker!vars
  <2>1. CASE EnterBreaker(d) \/ Refused(d) \/ SlackCallRaises(d)
    BY <2>1 DEF EnterBreaker, Refused, SlackCallRaises, Breaker!Next, Breaker!BeforeCall
  <2>2. CASE PlaceholderPosted(d) \/ AnswerShown(d)
    BY <2>2 DEF PlaceholderPosted, AnswerShown, Breaker!Next
  <2>3. CASE AskReturns(d) \/ AskRaises(d)
    BY <2>3 DEF AskReturns, AskRaises, breakerVars, Breaker!vars
  <2> QED
    BY <1>4, <2>1, <2>2, <2>3 DEF ProcessEvent
<1>5. CASE Tick
  BY <1>5 DEF Tick, Breaker!Next
<1>6. CASE UNCHANGED vars
  BY <1>6 DEF vars, Breaker!vars
<1> QED
  BY <1>1, <1>2, <1>3, <1>4, <1>5, <1>6 DEF Next

-----------------------------------------------------------------------------
(* The invariant. *)

LEMMA InitIInv == Init => IInv
<1> SUFFICES ASSUME Init PROVE IInv
  OBVIOUS
<1>1. \A d \in Deliveries : ~Started(d) /\ d.event \in Events
  BY DEF Init, Started, Deliveries
<1>2. TypeOK
  BY BoundsAssumption DEF Init, TypeOK, Ended
<1>3. NetworkWell /\ StartsWell
  BY <1>1 DEF Init, NetworkWell, StartsWell
<1>4. SeenIsAStart /\ LeaderIsSeen
  BY <1>1 DEF Init, SeenIsAStart, LeaderIsSeen, Leads
<1>5. AcknowledgedIsStarted /\ CallsWell
  BY <1>1 DEF Init, AcknowledgedIsStarted, CallsWell, Breaker!Init
<1> QED
  BY <1>2, <1>3, <1>4, <1>5 DEF IInv

(* A message and its delivery. *)
LEMMA DeliveryFacts ==
  ASSUME TypeOK, NEW m \in network
  PROVE  /\ m.event \in Events /\ m.retry \in 0..MaxRetries /\ m.signedAt \in 0..now
         /\ Delivery(m) \in Deliveries
         /\ Delivery(m).event = m.event /\ Delivery(m).retry = m.retry
  BY DEF TypeOK, Delivery, Deliveries

LEMMA DeliveryType ==
  ASSUME NEW d \in Deliveries
  PROVE  d.event \in Events /\ d.retry \in 0..MaxRetries
         /\ d = [event |-> d.event, retry |-> d.retry]
  BY DEF Deliveries

(* While nothing starts, the past is as it was: what happens to the        *)
(* network and the tasks does not touch it.                                *)
LEMMA PastStays ==
  ASSUME IInv, UNCHANGED <<now, kind, seen, startedAt>>
  PROVE  /\ SeenIsAStart' /\ LeaderIsSeen'
         /\ \A d \in Deliveries : Started(d)' <=> Started(d)
<1>1. \A d \in Deliveries : (Started(d)' <=> Started(d)) /\ (Leads(d)' <=> Leads(d))
  BY DEF Started, Leads
<1> QED
  BY <1>1 DEF IInv, SeenIsAStart, LeaderIsSeen

(* The tasks and the breaker stay as they are. *)
LEMMA CallsStay ==
  ASSUME IInv, UNCHANGED <<task, inCall>>
  PROVE  CallsWell'
  BY DEF IInv, CallsWell

LEMMA SendIInv ==
  ASSUME IInv, NEW e \in Events, Send(e)
  PROVE  IInv'
<1> DEFINE new == [event |-> e, retry |-> sent[e], signedAt |-> now]
<1>1. /\ UNCHANGED <<now, kind, seen, startedAt, acked, task, posted>>
      /\ network' = network \cup {new} /\ sent' = [sent EXCEPT ![e] = @ + 1]
      /\ sent[e] <= MaxRetries /\ sent[e] \in Nat
      /\ TypeOK /\ NetworkWell /\ StartsWell
  BY BoundsAssumption DEF IInv, TypeOK, Send, taskVars
<1>2. /\ SeenIsAStart' /\ LeaderIsSeen'
      /\ \A d \in Deliveries : Started(d)' <=> Started(d)
  BY <1>1, PastStays
<1>3. new \in [event : Events, retry : 0..MaxRetries, signedAt : 0..now]
  BY <1>1 DEF TypeOK
<1>4. sent' \in [Events -> 0..(MaxRetries + 1)]
      /\ \A x \in Events : sent[x] \in Nat /\ sent'[x] \in Nat /\ sent[x] <= sent'[x]
  BY <1>1, BoundsAssumption DEF TypeOK
<1>5. TypeOK'
  BY <1>1, <1>3, <1>4 DEF TypeOK
<1>6. Delivery(new) \in Deliveries /\ Delivery(new).event = e /\ Delivery(new).retry = sent[e]
  BY <1>1, <1>3 DEF Delivery, Deliveries
<1>7. ~Started(Delivery(new))
  <2> SUFFICES ASSUME Started(Delivery(new)) PROVE FALSE
    OBVIOUS
  <2>1. Delivery(new).retry < sent[Delivery(new).event]
    BY <1>1, <1>6 DEF StartsWell
  <2> QED
    BY <1>1, <1>6, <2>1
<1>8. \A m \in network : m.retry # sent[e] \/ m.event # e
  <2> SUFFICES ASSUME NEW m \in network, m.retry = sent[e], m.event = e
               PROVE  FALSE
    OBVIOUS
  <2>1. m.retry < sent[m.event]
    BY <1>1 DEF NetworkWell
  <2> QED
    BY <1>1, <2>1
<1>9. NetworkWell'
  <2>1. ASSUME NEW m \in network'
        PROVE  m.retry < sent'[m.event] /\ ~Started(Delivery(m))'
    <3>1. CASE m \in network
      <4>1. m.retry < sent[m.event] /\ ~Started(Delivery(m)) /\ m.event \in Events
            /\ m.retry \in Nat /\ Delivery(m) \in Deliveries
        BY <1>1, <3>1, DeliveryFacts DEF NetworkWell
      <4>2. Started(Delivery(m))' <=> Started(Delivery(m))
        BY <1>2, <4>1 DEF Started, Delivery
      <4> QED
        BY <1>4, <4>1, <4>2
    <3>2. CASE m = new
      <4>1. m.event = e /\ m.retry = sent[e] /\ sent'[e] = sent[e] + 1
        BY <1>1, <3>2 DEF TypeOK
      <4>2. ~Started(Delivery(m))'
        BY <1>1, <1>7, <3>2 DEF Started, Delivery
      <4> QED
        BY <1>1, <4>1, <4>2
    <3> QED
      BY <1>1, <2>1, <3>1, <3>2
  <2>2. ASSUME NEW m1 \in network', NEW m2 \in network', Delivery(m1) = Delivery(m2)
        PROVE  m1 = m2
    <3>1. m1.event = m2.event /\ m1.retry = m2.retry
      BY <2>2 DEF Delivery
    <3>2. new.event = e /\ new.retry = sent[e]
      OBVIOUS
    <3> QED
      BY <1>1, <1>8, <2>2, <3>1, <3>2 DEF NetworkWell
  <2> QED
    BY <2>1, <2>2 DEF NetworkWell, Delivery
<1>10. StartsWell'
  <2> SUFFICES ASSUME NEW d \in Deliveries
               PROVE  IF Started(d)' THEN d.retry < sent'[d.event] ELSE task'[d] = "none"
    BY DEF StartsWell
  <2>1. d.event \in Events /\ d.retry \in Nat
    BY DeliveryType
  <2> QED
    BY <1>1, <1>2, <1>4, <2>1 DEF StartsWell
<1>11. AcknowledgedIsStarted'
  BY <1>1, <1>2 DEF IInv, AcknowledgedIsStarted
<1>12. CallsWell'
  BY <1>1, CallsStay DEF Send, breakerVars
<1> QED
  BY <1>2, <1>5, <1>9, <1>10, <1>11, <1>12 DEF IInv

(* A message leaves the network and nothing starts. *)
LEMMA NetworkShrinks ==
  ASSUME IInv, NEW m \in network, network' = network \ {m},
         UNCHANGED <<sent, startedAt, task>>
  PROVE  NetworkWell' /\ StartsWell'
  BY DEF IInv, NetworkWell, StartsWell, Started, Delivery

LEMMA LoseIInv ==
  ASSUME IInv, NEW m \in network, Lose(m) \/ Reject(m)
  PROVE  IInv'
<1>1. /\ UNCHANGED <<now, kind, sent, acked, seen, task, posted, startedAt>>
      /\ network' = network \ {m}
  BY DEF Lose, Reject, Receive, taskVars
<1>2. NetworkWell' /\ StartsWell'
  BY <1>1, NetworkShrinks
<1>3. /\ SeenIsAStart' /\ LeaderIsSeen'
      /\ \A d \in Deliveries : Started(d)' <=> Started(d)
  BY <1>1, PastStays
<1>4. TypeOK' /\ AcknowledgedIsStarted'
  BY <1>1, <1>3 DEF IInv, TypeOK, AcknowledgedIsStarted
<1>5. CallsWell'
  BY <1>1, CallsStay DEF Lose, Reject, Receive, breakerVars
<1> QED
  BY <1>2, <1>3, <1>4, <1>5 DEF IInv

(* What SeenEventSet.add leaves (slack.py:70-85). *)
LEMMA RememberedFacts ==
  ASSUME TypeOK, NEW m \in network, seen' = Remembered(m)
  PROVE  /\ DOMAIN seen' \subseteq Events /\ \A e \in DOMAIN seen' : seen'[e] \in 0..now
         /\ m.event \in DOMAIN seen'
         /\ \A e \in DOMAIN seen' :
              \/ e \in DOMAIN seen /\ seen'[e] = seen[e]
              \/ e = m.event /\ e \notin DOMAIN Unexpired /\ seen'[e] = now
         /\ \A e \in DOMAIN seen : now - seen[e] <= SeenTTL =>
              e \in DOMAIN seen' /\ seen'[e] = seen[e]
<1>1. /\ DOMAIN Unexpired = {x \in DOMAIN seen : now - seen[x] <= SeenTTL}
      /\ \A e \in DOMAIN Unexpired : Unexpired[e] = seen[e]
  BY DEF Unexpired
<1>2. /\ DOMAIN seen' = DOMAIN Unexpired \cup {m.event}
      /\ \A e \in DOMAIN seen' : seen'[e] = IF e \in DOMAIN Unexpired THEN Unexpired[e] ELSE now
  BY DEF Remembered
<1>3. m.event \in Events /\ now \in Nat
  BY DeliveryFacts DEF TypeOK
<1>4. DOMAIN seen \subseteq Events /\ \A e \in DOMAIN seen : seen[e] \in 0..now
  BY DEF TypeOK
<1> QED
  BY <1>1, <1>2, <1>3, <1>4

(* While nothing starts, remembering an event again keeps the set of seen  *)
(* events true to the starts: it forgets only what is past the TTL, and    *)
(* what it adds is of an event that no task is for.                        *)
LEMMA RememberIInv ==
  ASSUME IInv, NEW m \in network, seen' = Remembered(m), UNCHANGED <<now, kind, startedAt>>,
         Duplicate(m) \/ kind[m.event] = "ignored"
  PROVE  SeenIsAStart' /\ LeaderIsSeen'
<1>1. /\ m.event \in DOMAIN seen'
      /\ \A e \in DOMAIN seen' :
              \/ e \in DOMAIN seen /\ seen'[e] = seen[e]
              \/ e = m.event /\ e \notin DOMAIN Unexpired /\ seen'[e] = now
      /\ \A e \in DOMAIN seen : now - seen[e] <= SeenTTL =>
              e \in DOMAIN seen' /\ seen'[e] = seen[e]
  BY RememberedFacts DEF IInv
<1>2. \A d \in Deliveries : (Started(d)' <=> Started(d)) /\ (Leads(d)' <=> Leads(d))
  BY DEF Started, Leads
<1>3. SeenIsAStart'
  BY <1>1 DEF IInv, SeenIsAStart, Duplicate
<1>4. LeaderIsSeen'
  <2> SUFFICES ASSUME NEW d \in Deliveries, Leads(d), now - startedAt[d] <= SeenTTL
               PROVE  d.event \in DOMAIN seen' /\ startedAt[d] <= seen'[d.event]
    BY <1>2 DEF LeaderIsSeen
  <2>1. d.event \in DOMAIN seen /\ startedAt[d] <= seen[d.event]
    BY DEF IInv, LeaderIsSeen
  <2>2. seen[d.event] \in Nat /\ now \in Nat /\ startedAt[d] \in Int
    BY <2>1 DEF IInv, TypeOK, NotStarted
  <2>3. now - seen[d.event] <= SeenTTL
    BY <2>1, <2>2, BoundsAssumption
  <2> QED
    BY <1>1, <2>1, <2>3
<1> QED
  BY <1>3, <1>4

LEMMA DeduplicateIInv ==
  ASSUME IInv, NEW m \in network, Deduplicate(m) \/ Ignore(m)
  PROVE  IInv'
<1>1. /\ UNCHANGED <<now, kind, sent, task, posted, startedAt>>
      /\ network' = network \ {m} /\ seen' = Remembered(m)
      /\ acked' = acked \/ acked' = acked \cup {m.event}
      /\ Duplicate(m) \/ kind[m.event] = "ignored"
  BY DEF Deduplicate, Ignore, Receive, Acknowledge, taskVars
<1>2. NetworkWell' /\ StartsWell'
  BY <1>1, NetworkShrinks
<1>3. SeenIsAStart' /\ LeaderIsSeen'
  BY <1>1, RememberIInv
<1>4. TypeOK /\ m.event \in Events
  BY DeliveryFacts DEF IInv
<1>5. TypeOK'
  <2>1. DOMAIN seen' \subseteq Events /\ \A e \in DOMAIN seen' : seen'[e] \in 0..now
    BY <1>1, <1>4, RememberedFacts
  <2> QED
    BY <1>1, <1>4, <2>1 DEF TypeOK
<1>6. AcknowledgedIsStarted'
  <2> SUFFICES ASSUME NEW e \in acked', kind[e] # "ignored"
               PROVE  \E d \in Deliveries : d.event = e /\ Started(d)
    BY <1>1 DEF AcknowledgedIsStarted, Started
  <2>1. CASE e \in acked
    BY <2>1 DEF IInv, AcknowledgedIsStarted
  <2>2. CASE e = m.event
    <3>1. e \in DOMAIN seen
      BY <1>1, <2>2 DEF Duplicate, Unexpired
    <3>2. PICK d \in Deliveries : d.event = e /\ startedAt[d] = seen[e]
      BY <3>1 DEF IInv, SeenIsAStart
    <3>3. seen[e] \in Nat
      BY <1>4, <3>1 DEF TypeOK
    <3> QED
      BY <3>2, <3>3 DEF Started, NotStarted
  <2> QED
    BY <1>1, <2>1, <2>2
<1>7. CallsWell'
  BY <1>1, CallsStay DEF Deduplicate, Ignore, Receive, breakerVars
<1> QED
  BY <1>2, <1>3, <1>5, <1>6, <1>7 DEF IInv

(* A task starts only for an event that is not in hand: within the TTL of  *)
(* a task that leads, its event is in the set and no older.                *)
LEMMA AcceptPast ==
  ASSUME IInv, NEW m \in network, Accept(m)
  PROVE  /\ SeenIsAStart' /\ LeaderIsSeen'
         /\ \A d \in Deliveries : Started(d)' <=> Started(d) \/ d = Delivery(m)
         /\ \A d \in Deliveries :
              Leads(d) /\ d.event = m.event /\ m.retry > 0 => now - startedAt[d] > SeenTTL
<1> DEFINE n == Delivery(m)
<1>1. /\ now' = now /\ kind' = kind /\ seen' = Remembered(m)
      /\ startedAt' = [startedAt EXCEPT ![n] = now]
      /\ kind[m.event] # "ignored" /\ ~Duplicate(m)
  BY DEF Accept, Receive
<1>2. /\ TypeOK /\ n \in Deliveries /\ n.event = m.event /\ n.retry = m.retry
      /\ m.event \in Events /\ m.retry \in Nat /\ now \in Nat /\ SeenTTL \in Nat
      /\ \A d \in Deliveries : startedAt[d] \in {NotStarted} \cup 0..now
  BY DeliveryFacts, BoundsAssumption DEF IInv, TypeOK
<1>3. ~Started(n)
  BY DEF IInv, NetworkWell
<1> HIDE DEF n
<1>4. /\ startedAt'[n] = now
      /\ \A d \in Deliveries \ {n} : startedAt'[d] = startedAt[d]
  BY <1>1, <1>2 DEF TypeOK
<1>5. \A d \in Deliveries : Started(d)' <=> Started(d) \/ d = n
  BY <1>2, <1>4 DEF Started, NotStarted
<1>6. \A d \in Deliveries : Started(d) => d # n /\ startedAt[d] \in Nat /\ startedAt[d] <= now
  BY <1>2, <1>3 DEF Started, NotStarted
<1>7. ASSUME NEW d \in Deliveries \ {n}, Leads(d)'
      PROVE  Leads(d)
  BY <1>4, <1>5, <1>6, <1>7 DEF Leads
<1>8. /\ m.event \in DOMAIN seen'
      /\ \A e \in DOMAIN seen' :
              \/ e \in DOMAIN seen /\ seen'[e] = seen[e]
              \/ e = m.event /\ e \notin DOMAIN Unexpired /\ seen'[e] = now
      /\ \A e \in DOMAIN seen : now - seen[e] <= SeenTTL =>
              e \in DOMAIN seen' /\ seen'[e] = seen[e]
  BY <1>1, <1>2, RememberedFacts
<1>9. ASSUME NEW d \in Deliveries, Leads(d), now - startedAt[d] <= SeenTTL
      PROVE  /\ d.event \in DOMAIN seen /\ startedAt[d] <= seen[d.event]
             /\ now - seen[d.event] <= SeenTTL
  <2>1. d.event \in DOMAIN seen /\ startedAt[d] <= seen[d.event]
    BY <1>9 DEF IInv, LeaderIsSeen
  <2>2. seen[d.event] \in Nat /\ startedAt[d] \in Nat
    BY <1>2, <1>6, <1>9, <2>1 DEF TypeOK, Leads
  <2> QED
    BY <1>2, <1>9, <2>1, <2>2
<1>10. ASSUME NEW d \in Deliveries, Leads(d), d.event = m.event, m.retry > 0
       PROVE  now - startedAt[d] > SeenTTL
  <2> SUFFICES ASSUME now - startedAt[d] <= SeenTTL
               PROVE  FALSE
    BY <1>2, <1>6, <1>10 DEF Leads
  <2>1. m.event \in DOMAIN Unexpired
    BY <1>9, <1>10 DEF Unexpired
  <2> QED
    BY <1>1, <1>10, <2>1 DEF Duplicate
<1>11. ASSUME Leads(n)'
       PROVE  seen'[m.event] = now
  <2>1. CASE m.event \notin DOMAIN Unexpired
    BY <1>1, <2>1 DEF Remembered
  <2>2. CASE m.event \in DOMAIN Unexpired
    <3>1. m.retry = 0 /\ m.event \in DOMAIN seen /\ seen'[m.event] = seen[m.event]
      BY <1>1, <1>2, <2>2 DEF Duplicate, Unexpired, Remembered
    <3>2. PICK d \in Deliveries : d.event = m.event /\ startedAt[d] = seen[m.event]
      BY <1>1, <3>1 DEF IInv, SeenIsAStart
    <3>3. seen[m.event] \in 0..now /\ Started(d)
      BY <1>2, <3>1, <3>2 DEF TypeOK, Started, NotStarted
    <3>4. d # n /\ Started(d)' /\ startedAt'[d] = startedAt[d]
      BY <1>4, <1>5, <1>6, <3>3
    <3>5. startedAt'[n] <= startedAt'[d]
      BY <1>2, <1>11, <3>1, <3>2, <3>4 DEF Leads
    <3> QED
      BY <1>2, <1>4, <3>1, <3>2, <3>3, <3>4, <3>5
  <2> QED
    BY <2>1, <2>2
<1>12. SeenIsAStart'
  <2> SUFFICES ASSUME NEW e \in DOMAIN seen', kind[e] # "ignored"
               PROVE  \E d \in Deliveries : d.event = e /\ startedAt'[d] = seen'[e]
    BY <1>1 DEF SeenIsAStart
  <2>1. CASE e \in DOMAIN seen /\ seen'[e] = seen[e]
    <3>1. PICK d \in Deliveries : d.event = e /\ startedAt[d] = seen[e]
      BY <2>1 DEF IInv, SeenIsAStart
    <3>2. Started(d)
      BY <1>2, <2>1, <3>1 DEF TypeOK, Started, NotStarted
    <3> QED
      BY <1>4, <1>6, <2>1, <3>1, <3>2
  <2>2. CASE e = m.event /\ seen'[e] = now
    BY <1>2, <1>4, <2>2
  <2> QED
    BY <1>8, <2>1, <2>2
<1>13. LeaderIsSeen'
  <2> SUFFICES ASSUME NEW d \in Deliveries, Leads(d)', now - startedAt'[d] <= SeenTTL
               PROVE  d.event \in DOMAIN seen' /\ startedAt'[d] <= seen'[d.event]
    BY <1>1 DEF LeaderIsSeen
  <2>1. CASE d = n
    BY <1>2, <1>4, <1>8, <1>11, <2>1
  <2>2. CASE d # n
    <3>1. Leads(d) /\ startedAt'[d] = startedAt[d]
      BY <1>4, <1>7, <2>2
    <3>2. /\ d.event \in DOMAIN seen /\ startedAt[d] <= seen[d.event]
          /\ now - seen[d.event] <= SeenTTL
      BY <1>9, <3>1
    <3> QED
      BY <1>8, <3>1, <3>2
  <2> QED
    BY <2>1, <2>2
<1> QED
  BY <1>5, <1>10, <1>12, <1>13 DEF n

LEMMA AcceptIInv ==
  ASSUME IInv, NEW m \in network, Accept(m)
  PROVE  IInv'
<1> DEFINE n == Delivery(m)
           first == IF kind[m.event] = "blank" THEN "blank" ELSE "post"
<1>1. /\ now' = now /\ kind' = kind /\ sent' = sent /\ posted' = posted /\ seen' = Remembered(m)
      /\ network' = network \ {m}
      /\ startedAt' = [startedAt EXCEPT ![n] = now] /\ task' = [task EXCEPT ![n] = first]
      /\ acked' = acked \/ acked' = acked \cup {m.event}
  BY DEF Accept, Receive, Acknowledge
<1>2. /\ TypeOK /\ n \in Deliveries /\ n.event = m.event /\ n.retry = m.retry
      /\ m.event \in Events /\ now \in Nat /\ first \in {"blank", "post"}
  BY DeliveryFacts DEF IInv, TypeOK
<1>3. /\ SeenIsAStart' /\ LeaderIsSeen'
      /\ \A d \in Deliveries : Started(d)' <=> Started(d) \/ d = n
  BY AcceptPast
<1>4. ~Started(n) /\ m.retry < sent[m.event] /\ task[n] = "none"
  BY <1>2 DEF IInv, NetworkWell, StartsWell
<1> HIDE DEF first
<1>5. \A x \in network \ {m} : Delivery(x) \in Deliveries /\ Delivery(x) # n
  BY <1>2, DeliveryFacts DEF IInv, NetworkWell
<1> HIDE DEF n
<1>6. NetworkWell'
  <2>1. ASSUME NEW x \in network'
        PROVE  x.retry < sent'[x.event] /\ ~Started(Delivery(x))'
    <3>1. x \in network /\ Delivery(x) \in Deliveries /\ Delivery(x) # n
      BY <1>1, <1>5
    <3>2. x.retry < sent[x.event] /\ ~Started(Delivery(x))
      BY <3>1 DEF IInv, NetworkWell
    <3>3. startedAt'[Delivery(x)] = startedAt[Delivery(x)]
      BY <1>1, <1>2, <3>1 DEF TypeOK
    <3> QED
      BY <1>1, <3>2, <3>3 DEF Started, Delivery
  <2> QED
    BY <1>1, <2>1 DEF IInv, NetworkWell, Delivery
<1>7. StartsWell'
  BY <1>1, <1>2, <1>3, <1>4 DEF IInv, StartsWell, TypeOK
<1>8. TypeOK'
  <2>1. DOMAIN seen' \subseteq Events /\ \A e \in DOMAIN seen' : seen'[e] \in 0..now
    BY <1>1, <1>2, RememberedFacts
  <2>2. startedAt' \in [Deliveries -> {NotStarted} \cup 0..now]
    BY <1>1, <1>2 DEF TypeOK
  <2>3. /\ task' \in [Deliveries -> Ended \cup {"post", "ask", "edit"}]
        /\ posted' \subseteq {d \in Deliveries : task'[d] \in {"ask", "edit", "answered", "dead"}}
    BY <1>1, <1>2, <1>4 DEF TypeOK, Ended
  <2> QED
    BY <1>1, <1>2, <2>1, <2>2, <2>3 DEF TypeOK
<1>9. AcknowledgedIsStarted'
  BY <1>1, <1>2, <1>3 DEF IInv, AcknowledgedIsStarted
<1>10. CallsWell'
  <2>1. inCall' = inCall
    BY DEF Accept, Receive, breakerVars
  <2> QED
    BY <1>1, <1>2, <1>4, <2>1 DEF IInv, CallsWell, TypeOK
<1> QED
  BY <1>3, <1>6, <1>7, <1>8, <1>9, <1>10 DEF IInv

(* A task leaves its call only with the result recorded. *)
LEMMA ProcessEventCalls ==
  ASSUME IInv, NEW d \in Deliveries, ProcessEvent(d)
  PROVE  /\ CallsWell'
         /\ \A x \in Deliveries : task'[x] # task[x] => inCall'[x] = "idle"
<1> USE DEF Become
<1>1. /\ task \in [Deliveries -> Ended \cup {"post", "ask", "edit"}] /\ DOMAIN inCall = Deliveries
      /\ \A x \in Deliveries : inCall[x] # "idle" => task[x] \in {"post", "edit"}
  BY DEF IInv, CallsWell, TypeOK
<1>2. CASE EnterBreaker(d)
  BY <1>1, <1>2 DEF EnterBreaker, taskVars, Breaker!Admit, Breaker!Probe, CallsWell
<1>3. CASE Refused(d)
  BY <1>1, <1>3 DEF Refused, Breaker!Refuse, Breaker!vars, CallsWell
<1>4. CASE SlackCallRaises(d)
  BY <1>1, <1>4 DEF SlackCallRaises, Breaker!Fail, CallsWell
<1>5. CASE PlaceholderPosted(d) \/ AnswerShown(d)
  BY <1>1, <1>5 DEF PlaceholderPosted, AnswerShown, Breaker!Succeed, CallsWell
<1>6. CASE AskReturns(d) \/ AskRaises(d)
  BY <1>1, <1>6 DEF AskReturns, AskRaises, breakerVars, CallsWell
<1> QED
  BY <1>2, <1>3, <1>4, <1>5, <1>6 DEF ProcessEvent

LEMMA ProcessEventIInv ==
  ASSUME IInv, NEW d \in Deliveries, ProcessEvent(d)
  PROVE  IInv'
<1>1. UNCHANGED <<now, kind, sent, acked, network, seen, startedAt>>
  BY DEF ProcessEvent, EnterBreaker, Refused, SlackCallRaises, PlaceholderPosted, AskReturns,
         AskRaises, AnswerShown, platformVars, taskVars
<1>2. /\ task[d] # "none" /\ task[d] \in {"post", "ask", "edit"}
      /\ task' = task \/ \E stage \in {"dead", "ask", "edit", "answered"} :
                           task' = [task EXCEPT ![d] = stage]
  BY DEF ProcessEvent, EnterBreaker, Refused, SlackCallRaises, PlaceholderPosted, AskReturns,
         AskRaises, AnswerShown, Become, taskVars
<1>3. \/ posted' = posted
      \/ posted' = posted \cup {d} /\ task' = [task EXCEPT ![d] = "ask"]
  BY DEF ProcessEvent, EnterBreaker, Refused, SlackCallRaises, PlaceholderPosted, AskReturns,
         AskRaises, AnswerShown, Become, taskVars
<1>4. /\ SeenIsAStart' /\ LeaderIsSeen'
      /\ \A x \in Deliveries : Started(x)' <=> Started(x)
  BY <1>1, PastStays
<1>5. TypeOK'
  <2>1. task' \in [Deliveries -> Ended \cup {"post", "ask", "edit"}]
    BY <1>2 DEF IInv, TypeOK, Ended
  <2>2. posted' \subseteq {x \in Deliveries : task'[x] \in {"ask", "edit", "answered", "dead"}}
    BY <1>2, <1>3 DEF IInv, TypeOK
  <2> QED
    BY <1>1, <2>1, <2>2 DEF IInv, TypeOK
<1>6. NetworkWell' /\ AcknowledgedIsStarted'
  BY <1>1 DEF IInv, NetworkWell, AcknowledgedIsStarted, Started, Delivery
<1>7. StartsWell'
  BY <1>1, <1>2, <1>4 DEF IInv, StartsWell, TypeOK
<1> QED
  BY <1>4, <1>5, <1>6, <1>7, ProcessEventCalls DEF IInv

LEMMA TickIInv ==
  ASSUME IInv, Tick
  PROVE  IInv'
<1>1. /\ now' = now + 1 /\ now \in Nat /\ now < MaxTime
      /\ UNCHANGED <<kind, sent, acked, network, seen, task, posted, startedAt>>
  BY BoundsAssumption DEF IInv, TypeOK, Tick, platformVars, taskVars
<1>2. \A d \in Deliveries : (Started(d)' <=> Started(d)) /\ (Leads(d)' <=> Leads(d))
  BY <1>1 DEF Started, Leads
<1>3. TypeOK'
  <2>1. 0..now \subseteq 0..now' /\ now' \in 0..MaxTime
    BY <1>1, BoundsAssumption
  <2>2. network' \subseteq [event : Events, retry : 0..MaxRetries, signedAt : 0..now']
    BY <1>1, <2>1 DEF IInv, TypeOK
  <2>3. startedAt' \in [Deliveries -> {NotStarted} \cup 0..now']
    BY <1>1, <2>1 DEF IInv, TypeOK
  <2> QED
    BY <1>1, <2>1, <2>2, <2>3 DEF IInv, TypeOK
<1>4. LeaderIsSeen'
  <2> SUFFICES ASSUME NEW d \in Deliveries, Leads(d)', now' - startedAt'[d] <= SeenTTL
               PROVE  d.event \in DOMAIN seen' /\ startedAt'[d] <= seen'[d.event]
    BY DEF LeaderIsSeen
  <2>1. startedAt[d] \in Int /\ startedAt'[d] = startedAt[d]
    BY <1>1 DEF IInv, TypeOK, NotStarted
  <2>2. Leads(d) /\ now - startedAt[d] <= SeenTTL
    BY <1>1, <1>2, <2>1, BoundsAssumption
  <2> QED
    BY <1>1, <2>2 DEF IInv, LeaderIsSeen
<1>5. NetworkWell' /\ StartsWell' /\ SeenIsAStart' /\ AcknowledgedIsStarted'
  BY <1>1, <1>2 DEF IInv, NetworkWell, StartsWell, SeenIsAStart, AcknowledgedIsStarted, Started,
                    Delivery
<1>6. CallsWell'
  BY <1>1, CallsStay DEF Tick, Breaker!Tick
<1> QED
  BY <1>3, <1>4, <1>5, <1>6 DEF IInv

-----------------------------------------------------------------------------
(* The theorems. *)

(* The strengthened invariant holds throughout. *)
THEOREM Invariance == Spec => []IInv
<1>1. ASSUME IInv, [Next]_vars
      PROVE  IInv'
  <2>1. CASE \E e \in Events : Send(e)
    BY <1>1, <2>1, SendIInv
  <2>2. CASE \E m \in network : Lose(m) \/ Handle(m)
    BY <1>1, <2>2, LoseIInv, DeduplicateIInv, AcceptIInv DEF Handle
  <2>3. CASE \E d \in Deliveries : ProcessEvent(d)
    BY <1>1, <2>3, ProcessEventIInv
  <2>4. CASE Tick
    BY <1>1, <2>4, TickIInv
  <2>5. CASE UNCHANGED vars
    BY <1>1, <2>5
    DEF vars, IInv, TypeOK, NetworkWell, StartsWell, SeenIsAStart, LeaderIsSeen,
        AcknowledgedIsStarted, CallsWell, Started, Leads, Delivery
  <2> QED
    BY <1>1, <2>1, <2>2, <2>3, <2>4, <2>5 DEF Next
<1> QED
  BY <1>1, InitIInv, PTL DEF Spec

(* Type correctness: the tasks' stages and what they have posted           *)
(* (slack.py:118-190).                                                     *)
THEOREM TypeCorrect == Spec => []TypeOK
<1>1. IInv => TypeOK
  BY DEF IInv
<1> QED
  BY <1>1, Invariance, PTL

(* A delivery's task starts only where it is accepted. *)
LEMMA OnlyAccepted ==
  ASSUME IInv, [Next]_vars, NEW d \in Deliveries, ~Started(d), Started(d)'
  PROVE  \E m \in network : Accept(m) /\ d = Delivery(m)
<1>1. CASE startedAt' = startedAt
  BY <1>1 DEF Started
<1>2. ASSUME NEW m \in network, Accept(m)
      PROVE  d = Delivery(m)
  BY <1>2, AcceptPast
<1>3. CASE \E e \in Events : Send(e)
  BY <1>1, <1>3 DEF Send, taskVars
<1>4. ASSUME NEW m \in network, Lose(m) \/ Handle(m)
      PROVE  Accept(m) \/ startedAt' = startedAt
  BY <1>4 DEF Handle, Lose, Reject, Deduplicate, Ignore, taskVars
<1>5. CASE \E x \in Deliveries : ProcessEvent(x)
  BY <1>1, <1>5 DEF ProcessEvent, EnterBreaker, Refused, SlackCallRaises, PlaceholderPosted,
                    AskReturns, AskRaises, AnswerShown, taskVars
<1>6. CASE Tick \/ UNCHANGED vars
  BY <1>1, <1>6 DEF Tick, taskVars, vars
<1> QED
  BY <1>1, <1>2, <1>3, <1>4, <1>5, <1>6 DEF Next

(* A retry starts a task only if the TTL has gone by since the event's     *)
(* first task and since the task of any other retry, however the           *)
(* deliveries overtake each other (slack.py:66-85, 122-136).  An original  *)
(* that comes after its own retry is not a retry, and is answered again.   *)
THEOREM RetriesOnce == Spec => RetriesAnsweredOnce
<1> DEFINE A == \A d, other \in Deliveries :
                  /\ ~Started(d) /\ Started(d)' /\ d.retry > 0
                  /\ Leads(other) /\ other.event = d.event
                  => now - startedAt[other] > SeenTTL
<1>1. ASSUME IInv, [Next]_vars
      PROVE  A
  <2> SUFFICES ASSUME NEW d \in Deliveries, NEW other \in Deliveries,
                      ~Started(d), Started(d)', d.retry > 0, Leads(other), other.event = d.event
               PROVE  now - startedAt[other] > SeenTTL
    OBVIOUS
  <2>1. PICK m \in network : Accept(m) /\ d = Delivery(m)
    BY <1>1, OnlyAccepted
  <2>2. d.event = m.event /\ d.retry = m.retry
    BY <2>1 DEF Delivery
  <2> QED
    BY <1>1, <2>1, <2>2, AcceptPast
<1>2. IInv /\ [Next]_vars => [A]_vars
  BY <1>1
<1> QED
  BY <1>2, Invariance, PTL DEF Spec, RetriesAnsweredOnce

(* No acknowledgement, not even of a dropped retry, loses a question       *)
(* (slack.py:122-136).                                                     *)
THEOREM AcknowledgedStarted == Spec => []AcknowledgedIsStarted
<1>1. IInv => AcknowledgedIsStarted
  BY DEF IInv
<1> QED
  BY <1>1, Invariance, PTL

(* Whatever the tasks do across their awaits, each of their Slack calls is *)
(* recorded before the task goes on or ends, and the adapter's breaker is  *)
(* the circuit breaker (slack.py:172-194, 224-242, resilience.py:37-47).   *)
THEOREM SlackImplementsBreaker == Spec => ImplementsBreaker
<1> DEFINE A == \A d \in Deliveries : task'[d] # task[d] => inCall'[d] = "idle"
<1>1. ASSUME IInv, [Next]_vars
      PROVE  A
  <2>1. CASE task' = task
    BY <2>1
  <2>2. CASE \E d \in Deliveries : ProcessEvent(d)
    BY <1>1, <2>2, ProcessEventCalls
  <2>3. ASSUME NEW m \in network, Accept(m)
        PROVE  A
    <3>1. /\ inCall' = inCall
          /\ \E first : task' = [task EXCEPT ![Delivery(m)] = first]
      BY <2>3 DEF Accept, Receive, breakerVars
    <3>2. Delivery(m) \in Deliveries /\ ~Started(Delivery(m))
      BY <1>1, DeliveryFacts DEF IInv, NetworkWell
    <3>3. inCall[Delivery(m)] = "idle"
      BY <1>1, <3>2 DEF IInv, StartsWell, CallsWell
    <3> QED
      BY <1>1, <3>1, <3>2, <3>3 DEF IInv, TypeOK
  <2>4. CASE \E e \in Events : Send(e)
    BY <2>1, <2>4 DEF Send, taskVars
  <2>5. ASSUME NEW m \in network, Lose(m) \/ Handle(m)
        PROVE  Accept(m) \/ task' = task
    BY <2>5 DEF Handle, Lose, Reject, Deduplicate, Ignore, taskVars
  <2>6. CASE Tick \/ UNCHANGED vars
    BY <2>1, <2>6 DEF Tick, taskVars, vars
  <2> QED
    BY <1>1, <2>1, <2>2, <2>3, <2>4, <2>5, <2>6 DEF Next
<1>2. IInv /\ [Next]_vars => [A]_vars
  BY <1>1
<1>3. Spec => CallsAreRecorded
  BY <1>2, Invariance, PTL DEF Spec, CallsAreRecorded
<1>4. Spec => Breaker!Spec
  BY InitBreaker, NextBreaker, PTL DEF Spec, Breaker!Spec
<1> QED
  BY <1>3, <1>4 DEF ImplementsBreaker

-----------------------------------------------------------------------------
(* _split_text *)

(* What is left is the end of the answer. *)
Before(text) == Len(answer) - Len(text)

EndOfAnswer(text) ==
  /\ text \in Seq(Nat) /\ Len(text) <= Len(answer)
  /\ \A i \in 1..Len(text) : text[i] = Before(text) + i

Shown(c) == \E n \in 1..Len(parts) : \E i \in 1..Len(parts[n]) : parts[n][i] = c

InOrder ==
  \A n \in 1..Len(parts) : \A i \in 1..Len(parts[n]) :
    \A m \in 1..Len(parts) : \A j \in 1..Len(parts[m]) :
      n < m \/ (n = m /\ i < j) => parts[n][i] < parts[m][j]

(* While splitting: the parts are of the answer before what is left, and   *)
(* what is neither in them nor left is not visible.                        *)
SplitSoFar ==
  /\ answer \in Answers /\ splitting \in BOOLEAN
  /\ EndOfAnswer(remaining)
  /\ parts \in Seq(Seq(Nat)) /\ InOrder
  /\ \A n \in 1..Len(parts) :
       /\ Len(parts[n]) <= Limit
       /\ n < Len(parts) \/ splitting => Len(parts[n]) >= MinPart
       /\ splitting => \A i \in 1..Len(parts[n]) : parts[n][i] <= Before(remaining)
  /\ \A c \in 1..Len(answer) :
       Visible(c) => Shown(c) \/ (splitting /\ c > Before(remaining))

LEMMA LeastElement ==
  ASSUME NEW S \in SUBSET Nat, S # {}
  PROVE  \E k \in S : \A j \in S : k <= j
<1> DEFINE R == {p \in Nat \X Nat : p[1] < p[2]}
<1>1. IsWellFoundedOn(R, Nat)
  BY NatLessThanWellFounded DEF OpToRel
<1>2. \E k \in S : \A j \in S : <<j, k>> \notin R
  <2> HIDE DEF R
  <2> QED BY <1>1, WFMin
<1>3. \A k, j \in S : <<j, k>> \notin R => k <= j
  OBVIOUS
<1> QED BY <1>2, <1>3

LEMMA MinFacts ==
  ASSUME NEW S \in SUBSET Nat, S # {}
  PROVE  Min(S) \in S /\ \A j \in S : Min(S) <= j
  BY LeastElement DEF Min

LEMMA MaxFacts ==
  ASSUME NEW bound \in Nat, NEW S \in SUBSET 0..bound, S # {}
  PROVE  Max(S) \in S
<1> DEFINE Gaps == {bound - k : k \in S}
<1>1. Gaps \in SUBSET Nat /\ Gaps # {}
  <2>1. \A k \in S : k \in 0..bound
    OBVIOUS
  <2>2. \A k \in S : bound - k \in Nat
    BY <2>1
  <2> QED BY <2>2
<1>2. PICK g \in Gaps : \A h \in Gaps : g <= h
  <2> HIDE DEF Gaps
  <2> QED BY <1>1, LeastElement
<1>3. PICK k \in S : g = bound - k
  BY <1>2
<1>4. ASSUME NEW j \in S PROVE k >= j
  <2>1. bound - k <= bound - j
    BY <1>2, <1>3
  <2>2. k \in Int /\ j \in Int
    OBVIOUS
  <2> QED BY <2>1, <2>2
<1> QED BY <1>4 DEF Max

(* A part is of decent size and within the limit. *)
LEMMA BoundaryFacts == Boundary \in MinPart..Limit
<1>1. Limit \in Nat /\ MinPart \in 1..Limit
  BY RenderAssumption
<1>2. CASE Breaks = {} \/ Max(Breaks) < MinPart
  BY <1>1, <1>2 DEF Boundary
<1>3. CASE Breaks # {} /\ ~(Max(Breaks) < MinPart)
  <2>1. Breaks \in SUBSET 0..Limit
    BY <1>1 DEF Breaks
  <2>2. Max(Breaks) \in 0..Limit
    BY <1>1, <1>3, <2>1, MaxFacts
  <2> QED BY <1>1, <1>3, <2>2 DEF Boundary
<1> QED BY <1>2, <1>3

LEMMA AnswerFacts ==
  ASSUME answer \in Answers
  PROVE  Len(answer) \in Nat /\ DOMAIN answer = 1..Len(answer)
  BY RenderAssumption

(* The end of an end of the answer. *)
LEMMA EndOfEnd ==
  ASSUME answer \in Answers, NEW text, EndOfAnswer(text), NEW b \in Nat, b <= Len(text)
  PROVE  LET rest == SubSeq(text, b + 1, Len(text))
         IN EndOfAnswer(rest) /\ Len(rest) = Len(text) - b /\ Before(rest) = Before(text) + b
<1> DEFINE rest == SubSeq(text, b + 1, Len(text))
<1>1. /\ text \in Seq(Nat) /\ Len(text) \in Nat /\ Len(answer) \in Nat
      /\ \A i \in 1..Len(text) : text[i] \in Nat /\ text[i] = Before(text) + i
  BY AnswerFacts DEF EndOfAnswer
<1>2. /\ rest \in Seq(Nat)
      /\ Len(rest) = IF b + 1 <= Len(text) THEN Len(text) - (b + 1) + 1 ELSE 0
      /\ \A i \in 1..(Len(text) - (b + 1) + 1) : rest[i] = text[(b + 1) + i - 1]
  <2>1. b + 1 \in Int /\ Len(text) \in Int /\ \A i \in (b + 1)..Len(text) : text[i] \in Nat
    BY <1>1
  <2> QED BY <2>1, SubSeqProperties
<1> HIDE DEF rest
<1>3. Len(rest) = Len(text) - b
  BY <1>1, <1>2
<1>4. Before(rest) = Before(text) + b
  BY <1>1, <1>3 DEF Before
<1>5. ASSUME NEW i \in 1..Len(rest) PROVE rest[i] = Before(rest) + i
  <2>1. i \in Nat /\ b + i \in 1..Len(text) /\ (b + 1) + i - 1 = b + i
    BY <1>1, <1>3
  <2>2. rest[i] = text[b + i]
    BY <1>1, <1>2, <1>3, <2>1
  <2>3. text[b + i] = Before(text) + (b + i)
    BY <1>1, <2>1
  <2>4. Before(text) \in Int
    BY <1>1 DEF Before
  <2> QED BY <1>4, <2>1, <2>2, <2>3, <2>4
<1>6. Len(rest) <= Len(answer)
  BY <1>1, <1>3 DEF EndOfAnswer
<1>7. EndOfAnswer(rest)
  BY <1>2, <1>5, <1>6 DEF EndOfAnswer
<1> QED BY <1>3, <1>4, <1>7 DEF rest

(* lstrip leaves an end of the answer, and drops nothing visible. *)
LEMMA LStrippedFacts ==
  ASSUME answer \in Answers, NEW text, EndOfAnswer(text)
  PROVE  /\ EndOfAnswer(LStripped(text)) /\ Len(LStripped(text)) <= Len(text)
         /\ \A c \in 1..Len(answer) :
              Visible(c) /\ c > Before(text) =>
                LStripped(text) # << >> /\ c > Before(LStripped(text))
<1> DEFINE visible == {i \in DOMAIN text : Visible(text[i])}
<1>1. /\ text \in Seq(Nat) /\ Len(text) \in Nat /\ Len(answer) \in Nat /\ Len(text) <= Len(answer)
      /\ \A i \in 1..Len(text) : text[i] = Before(text) + i
  BY AnswerFacts DEF EndOfAnswer
<1>2. ASSUME NEW c \in 1..Len(answer), Visible(c), c > Before(text)
      PROVE  c - Before(text) \in visible
  <2>1. c - Before(text) \in 1..Len(text)
    BY <1>1, <1>2 DEF Before
  <2>2. text[c - Before(text)] = c
    BY <1>1, <2>1 DEF Before
  <2> QED BY <1>1, <1>2, <2>1, <2>2
<1>3. CASE visible = {}
  <2>1. LStripped(text) = << >>
    BY <1>3 DEF LStripped
  <2>2. EndOfAnswer(<< >>)
    BY <1>1 DEF EndOfAnswer
  <2> HIDE DEF visible
  <2> QED BY <1>1, <1>2, <1>3, <2>1, <2>2
<1>4. CASE visible # {}
  <2> DEFINE first == Min(visible)
  <2>1. LStripped(text) = SubSeq(text, first, Len(text))
    BY <1>4 DEF LStripped
  <2>2. first \in visible /\ \A j \in visible : first <= j
    <3>1. visible \in SUBSET Nat
      BY <1>1
    <3> HIDE DEF visible
    <3> QED BY <1>4, <3>1, MinFacts
  <2>3. first \in 1..Len(text)
    BY <1>1, <2>2
  <2> HIDE DEF visible, first
  <2>4. PICK b \in Nat : b = first - 1 /\ b < Len(text)
    BY <1>1, <2>3
  <2>5. first = b + 1
    BY <2>3, <2>4
  <2>6. /\ EndOfAnswer(LStripped(text)) /\ Before(LStripped(text)) = Before(text) + b
        /\ Len(LStripped(text)) = Len(text) - b
    BY <1>1, <2>1, <2>4, <2>5, EndOfEnd
  <2>7. LStripped(text) # << >>
    BY <1>1, <2>4, <2>6
  <2>8. ASSUME NEW c \in 1..Len(answer), Visible(c), c > Before(text)
        PROVE  c > Before(LStripped(text))
    <3>1. first <= c - Before(text)
      BY <1>2, <2>2, <2>8
    <3>2. Before(text) \in Int /\ c \in Int
      BY <1>1 DEF Before
    <3> QED BY <2>4, <2>5, <2>6, <3>1, <3>2
  <2> QED BY <1>1, <2>4, <2>6, <2>7, <2>8
<1> QED BY <1>3, <1>4

(* A new part that continues in order, where Parts are those there were.   *)
LEMMA PartAdded ==
  ASSUME SplitSoFar, splitting, NEW part \in Seq(Nat), parts' = Append(parts, part),
         \A i \in 1..Len(part) : part[i] = Before(remaining) + i,
         Len(part) <= Limit
  PROVE  /\ parts' \in Seq(Seq(Nat)) /\ InOrder'
         /\ Len(parts') = Len(parts) + 1
         /\ \A n \in 1..Len(parts') :
              /\ Len(parts'[n]) <= Limit
              /\ n < Len(parts') => Len(parts'[n]) >= MinPart
              /\ \A i \in 1..Len(parts'[n]) : parts'[n][i] <= Before(remaining) + Len(part)
         /\ parts'[Len(parts')] = part
         /\ \A c \in Nat :
              Shown(c) \/ (Before(remaining) < c /\ c <= Before(remaining) + Len(part)) => Shown(c)'
<1> DEFINE last == Len(parts) + 1
           before == Before(remaining)
<1>1. /\ parts \in Seq(Seq(Nat)) /\ Len(parts) \in Nat /\ Len(part) \in Nat
      /\ Limit \in Nat /\ MinPart \in Nat
  BY RenderAssumption DEF SplitSoFar
<1>2. before \in Nat
  BY AnswerFacts DEF SplitSoFar, EndOfAnswer, Before
<1>3. /\ parts' \in Seq(Seq(Nat)) /\ Len(parts') = last /\ parts'[last] = part
      /\ \A n \in 1..Len(parts) : parts'[n] = parts[n]
  BY <1>1, AppendProperties
<1> HIDE DEF before
<1>4. /\ \A n \in 1..Len(parts) : \A i \in 1..Len(parts[n]) : parts[n][i] <= before
      /\ \A i \in 1..Len(part) : part[i] = before + i
      /\ \A n \in 1..Len(parts) : Len(parts[n]) \in Nat /\ \A i \in 1..Len(parts[n]) : parts[n][i] \in Nat
  <2>1. ASSUME NEW n \in 1..Len(parts)
        PROVE  Len(parts[n]) \in Nat /\ \A i \in 1..Len(parts[n]) : parts[n][i] \in Nat
    <3>1. parts[n] \in Seq(Nat)
      BY <1>1
    <3> QED BY <3>1
  <2>2. \A n \in 1..Len(parts) : \A i \in 1..Len(parts[n]) : parts[n][i] <= before
    BY DEF SplitSoFar, before
  <2>3. \A i \in 1..Len(part) : part[i] = before + i
    BY DEF before
  <2> QED BY <2>1, <2>2, <2>3
<1>5. InOrder'
  <2> SUFFICES ASSUME NEW n \in 1..Len(parts'), NEW i \in 1..Len(parts'[n]),
                      NEW m \in 1..Len(parts'), NEW j \in 1..Len(parts'[m]),
                      n < m \/ (n = m /\ i < j)
               PROVE  parts'[n][i] < parts'[m][j]
    BY DEF InOrder
  <2>1. CASE m \in 1..Len(parts)
    <3>1. n \in 1..Len(parts)
      BY <1>1, <2>1
    <3>2. parts'[n] = parts[n] /\ parts'[m] = parts[m]
      BY <1>3, <2>1, <3>1
    <3> QED BY <2>1, <3>1, <3>2 DEF SplitSoFar, InOrder
  <2>2. CASE m = last /\ n \in 1..Len(parts)
    <3>1. parts'[n] = parts[n] /\ parts'[m] = part
      BY <1>3, <2>2
    <3>2. parts[n][i] <= before /\ parts[n][i] \in Nat /\ part[j] = before + j /\ j \in Nat /\ j >= 1
      BY <1>1, <1>4, <2>2, <3>1
    <3> QED BY <1>2, <3>1, <3>2
  <2>3. CASE m = last /\ n = last
    <3>1. parts'[n] = part /\ parts'[m] = part /\ i < j
      BY <1>1, <1>3, <2>3
    <3>2. part[i] = before + i /\ part[j] = before + j /\ i \in Nat /\ j \in Nat
      BY <1>1, <1>4, <3>1
    <3> QED BY <1>2, <3>1, <3>2
  <2>4. m \in 1..Len(parts) \/ m = last
    BY <1>1, <1>3
  <2>5. n \in 1..Len(parts) \/ n = last
    BY <1>1, <1>3
  <2> QED BY <2>1, <2>2, <2>3, <2>4, <2>5
<1>6. ASSUME NEW n \in 1..last
      PROVE  /\ Len(parts'[n]) <= Limit
             /\ n < last => Len(parts'[n]) >= MinPart
             /\ \A i \in 1..Len(parts'[n]) : parts'[n][i] <= before + Len(part)
  <2>1. CASE n \in 1..Len(parts)
    <3>1. parts'[n] = parts[n]
      BY <1>3, <2>1
    <3>2. Len(parts[n]) <= Limit /\ Len(parts[n]) >= MinPart
      BY <2>1 DEF SplitSoFar
    <3>3. \A i \in 1..Len(parts[n]) : parts[n][i] <= before + Len(part)
      <4> TAKE i \in 1..Len(parts[n])
      <4>1. parts[n][i] <= before /\ parts[n][i] \in Nat
        BY <1>4, <2>1
      <4> QED BY <1>1, <1>2, <4>1
    <3> QED BY <3>1, <3>2, <3>3
  <2>2. CASE n = last
    <3>1. parts'[n] = part
      BY <1>3, <2>2
    <3>2. \A i \in 1..Len(part) : part[i] <= before + Len(part)
      <4> TAKE i \in 1..Len(part)
      <4>1. part[i] = before + i /\ i \in Nat /\ i <= Len(part)
        BY <1>1, <1>4
      <4> QED BY <1>1, <1>2, <4>1
    <3> QED BY <1>1, <2>2, <3>1, <3>2
  <2> QED BY <1>1, <2>1, <2>2
<1>7. ASSUME NEW c \in Nat, Shown(c) \/ (before < c /\ c <= before + Len(part))
      PROVE  Shown(c)'
  <2>1. CASE Shown(c)
    <3>1. PICK n \in 1..Len(parts) : \E i \in 1..Len(parts[n]) : parts[n][i] = c
      BY <2>1 DEF Shown
    <3>2. n \in 1..Len(parts') /\ parts'[n] = parts[n]
      BY <1>1, <1>3, <3>1
    <3> QED BY <3>1, <3>2 DEF Shown
  <2>2. CASE before < c /\ c <= before + Len(part)
    <3>1. c - before \in 1..Len(part)
      BY <1>1, <1>2, <2>2
    <3>2. part[c - before] = c
      <4>1. part[c - before] = before + (c - before)
        BY <1>4, <3>1
      <4> QED BY <1>2, <4>1
    <3>3. last \in 1..Len(parts')
      BY <1>1, <1>3
    <3> QED BY <1>3, <3>1, <3>2, <3>3 DEF Shown
  <2> QED BY <1>7, <2>1, <2>2
<1> QED BY <1>3, <1>5, <1>6, <1>7 DEF before

LEMMA SplitStep == SplitSoFar /\ [RenderNext]_renderVars => SplitSoFar'
<1> SUFFICES ASSUME SplitSoFar, [RenderNext]_renderVars
             PROVE  SplitSoFar'
  OBVIOUS
<1>1. /\ answer \in Answers /\ EndOfAnswer(remaining) /\ remaining \in Seq(Nat)
      /\ Len(remaining) \in Nat /\ Len(answer) \in Nat /\ Len(remaining) <= Len(answer)
      /\ Limit \in Nat /\ MinPart \in 1..Limit /\ Before(remaining) \in Nat
      /\ \A i \in 1..Len(remaining) : remaining[i] = Before(remaining) + i
  BY AnswerFacts, RenderAssumption DEF SplitSoFar, EndOfAnswer, Before
<1>2. CASE CutPart
  <2>1. PICK b \in MinPart..Limit : b = Boundary
    BY BoundaryFacts
  <2> DEFINE part == SubSeq(remaining, 1, b)
             rest == SubSeq(remaining, b + 1, Len(remaining))
  <2>2. /\ splitting /\ Len(remaining) > Limit
        /\ parts' = Append(parts, part) /\ remaining' = LStripped(rest)
        /\ splitting' = (remaining' # << >>) /\ answer' = answer
    BY <1>2, <2>1 DEF CutPart, Rest
  <2>3. b \in Nat /\ b <= Len(remaining) /\ MinPart <= b /\ b <= Limit
    BY <1>1, <2>1, <2>2
  <2>4. /\ part \in Seq(Nat) /\ Len(part) = b
        /\ \A i \in 1..Len(part) : part[i] = Before(remaining) + i
    <3>1. /\ part \in Seq(Nat)
          /\ Len(part) = IF 1 <= b THEN b - 1 + 1 ELSE 0
          /\ \A i \in 1..(b - 1 + 1) : part[i] = remaining[1 + i - 1]
      <4>1. 1 \in Int /\ b \in Int /\ \A i \in 1..b : remaining[i] \in Nat
        BY <1>1, <2>3
      <4> QED BY <4>1, SubSeqProperties
    <3> HIDE DEF part
    <3>2. Len(part) = b
      BY <1>1, <2>3, <3>1
    <3>3. ASSUME NEW i \in 1..Len(part) PROVE part[i] = Before(remaining) + i
      <4>1. i \in 1..(b - 1 + 1) /\ 1 + i - 1 = i /\ i \in 1..Len(remaining)
        BY <1>1, <2>3, <3>2
      <4>2. part[i] = remaining[i]
        BY <3>1, <4>1
      <4> QED BY <1>1, <4>1, <4>2
    <3> QED BY <3>1, <3>2, <3>3
  <2>5. EndOfAnswer(rest) /\ Before(rest) = Before(remaining) + b
    BY <1>1, <2>3, EndOfEnd
  <2>6. /\ EndOfAnswer(remaining')
        /\ \A c \in 1..Len(answer) :
             Visible(c) /\ c > Before(rest) => remaining' # << >> /\ c > Before(remaining')
    BY <1>1, <2>2, <2>5, LStrippedFacts
  <2>7. Before(remaining') >= Before(rest) /\ Before(remaining') \in Int
    <3>1. Len(remaining') <= Len(rest)
      BY <1>1, <2>2, <2>5, LStrippedFacts
    <3>2. Len(remaining') \in Nat /\ Len(rest) \in Nat
      BY <2>5, <2>6 DEF EndOfAnswer
    <3> QED BY <1>1, <3>1, <3>2 DEF Before
  <2> HIDE DEF part, rest
  <2>8. /\ parts' \in Seq(Seq(Nat)) /\ InOrder'
        /\ Len(parts') = Len(parts) + 1
        /\ \A n \in 1..Len(parts') :
             /\ Len(parts'[n]) <= Limit
             /\ n < Len(parts') => Len(parts'[n]) >= MinPart
             /\ \A i \in 1..Len(parts'[n]) : parts'[n][i] <= Before(remaining) + Len(part)
        /\ parts'[Len(parts')] = part
        /\ \A c \in Nat :
             Shown(c) \/ (Before(remaining) < c /\ c <= Before(remaining) + Len(part)) => Shown(c)'
    <3>1. Len(part) <= Limit
      BY <2>3, <2>4
    <3> QED BY <2>2, <2>4, <3>1, PartAdded
  <2>9. ASSUME NEW n \in 1..Len(parts')
        PROVE  /\ Len(parts'[n]) >= MinPart
               /\ \A i \in 1..Len(parts'[n]) : parts'[n][i] <= Before(remaining')
    <3>1. Len(parts'[n]) >= MinPart
      <4>1. CASE n < Len(parts')
        BY <2>8, <4>1
      <4>2. CASE n = Len(parts')
        BY <2>3, <2>4, <2>8, <4>2
      <4>3. Len(parts') \in Nat
        BY <2>8
      <4> QED BY <4>1, <4>2, <4>3
    <3>2. ASSUME NEW i \in 1..Len(parts'[n]) PROVE parts'[n][i] <= Before(remaining')
      <4>1. parts'[n][i] <= Before(remaining) + b /\ parts'[n][i] \in Nat
        BY <2>4, <2>8
      <4> QED BY <1>1, <2>3, <2>5, <2>7, <4>1
    <3> QED BY <3>1, <3>2
  <2>10. ASSUME NEW c \in 1..Len(answer), Visible(c)
         PROVE  Shown(c)' \/ (splitting' /\ c > Before(remaining'))
    <3>1. c \in Nat
      BY <1>1
    <3>2. Shown(c) \/ c > Before(remaining)
      BY <2>10 DEF SplitSoFar
    <3>3. CASE c > Before(rest)
      BY <2>2, <2>6, <2>10, <3>3
    <3>4. CASE ~(c > Before(rest))
      <4>1. c <= Before(remaining) + Len(part)
        BY <1>1, <2>3, <2>4, <2>5, <3>1, <3>4
      <4> QED BY <1>1, <2>8, <3>1, <3>2, <4>1
    <3> QED BY <3>3, <3>4
  <2>11. Before(remaining)' = Before(remaining') /\ EndOfAnswer(remaining)'
         /\ \A c : Visible(c)' = Visible(c)
    BY <2>2, <2>6 DEF Before, EndOfAnswer, Visible
  <2>12. splitting' \in BOOLEAN
    BY <2>2
  <2> QED BY <1>1, <2>2, <2>8, <2>9, <2>10, <2>11, <2>12 DEF SplitSoFar
<1>3. CASE LastPart
  <2>1. /\ splitting /\ Len(remaining) <= Limit /\ parts' = Append(parts, remaining)
        /\ splitting' = FALSE /\ answer' = answer /\ remaining' = remaining
    BY <1>3 DEF LastPart
  <2>2. /\ parts' \in Seq(Seq(Nat)) /\ InOrder'
        /\ Len(parts') = Len(parts) + 1
        /\ \A n \in 1..Len(parts') :
             /\ Len(parts'[n]) <= Limit
             /\ n < Len(parts') => Len(parts'[n]) >= MinPart
        /\ \A c \in Nat :
             Shown(c) \/ (Before(remaining) < c /\ c <= Before(remaining) + Len(remaining)) => Shown(c)'
    BY <1>1, <2>1, PartAdded
  <2>3. ASSUME NEW c \in 1..Len(answer), Visible(c)
        PROVE  Shown(c)'
    <3>1. Shown(c) \/ c > Before(remaining)
      BY <2>3 DEF SplitSoFar
    <3>2. c \in Nat /\ c <= Before(remaining) + Len(remaining)
      BY <1>1 DEF Before
    <3> QED BY <1>1, <2>2, <3>1, <3>2
  <2>4. EndOfAnswer(remaining)' /\ \A c : Visible(c)' = Visible(c)
    BY <1>1, <2>1 DEF EndOfAnswer, Before, Visible
  <2> QED BY <1>1, <2>1, <2>2, <2>3, <2>4 DEF SplitSoFar
<1>4. CASE UNCHANGED renderVars
  BY <1>4 DEF renderVars, SplitSoFar, EndOfAnswer, Before, InOrder, Shown, Visible
<1> QED BY <1>2, <1>3, <1>4 DEF RenderNext

(* The blocks of a Slack message carry the whole answer in order, fit the  *)
(* limit and are of decent size, for every answer and every limit          *)
(* (slack_render.py:64-79).                                                *)
THEOREM BlocksAreTheAnswer == RenderSpec => []BlocksCarryTheAnswer
<1>1. RenderInit => SplitSoFar
  <2> SUFFICES ASSUME RenderInit PROVE SplitSoFar
    OBVIOUS
  <2>1. answer \in Answers /\ Len(answer) \in Nat /\ DOMAIN answer = 1..Len(answer)
    BY AnswerFacts DEF RenderInit
  <2>2. remaining \in Seq(Nat) /\ Len(remaining) = Len(answer) /\ \A i \in 1..Len(answer) : remaining[i] = i
    BY <2>1 DEF RenderInit
  <2>3. Before(remaining) = 0 /\ EndOfAnswer(remaining)
    BY <2>1, <2>2 DEF Before, EndOfAnswer
  <2>4. parts = << >> /\ Len(parts) = 0 /\ parts \in Seq(Seq(Nat)) /\ splitting = TRUE
    BY DEF RenderInit
  <2>5. InOrder
    BY <2>4 DEF InOrder
  <2>6. \A c \in 1..Len(answer) : c > Before(remaining)
    BY <2>1, <2>3
  <2> QED BY <2>1, <2>3, <2>4, <2>5, <2>6 DEF SplitSoFar
<1>2. SplitSoFar => BlocksCarryTheAnswer
  <2> SUFFICES ASSUME SplitSoFar, ~splitting PROVE BlocksCarryTheAnswer
    BY DEF BlocksCarryTheAnswer
  <2>1. DOMAIN parts = 1..Len(parts) /\ \A n \in 1..Len(parts) : DOMAIN parts[n] = 1..Len(parts[n])
    <3>1. parts \in Seq(Seq(Nat))
      BY DEF SplitSoFar
    <3>2. \A n \in 1..Len(parts) : parts[n] \in Seq(Nat)
      BY <3>1
    <3> QED BY <3>1, <3>2
  <2>2. answer \in Answers /\ DOMAIN answer = 1..Len(answer)
    BY AnswerFacts DEF SplitSoFar
  <2> QED BY <2>1, <2>2 DEF SplitSoFar, InOrder, Shown, BlocksCarryTheAnswer
<1> QED BY <1>1, <1>2, SplitStep, PTL DEF RenderSpec
=============================================================================
