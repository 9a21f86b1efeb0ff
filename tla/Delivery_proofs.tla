--------------------------- MODULE Delivery_proofs ---------------------------
(***************************************************************************)
(* Theorems about the outbox functions of Outbox, whoever calls them, and  *)
(* about the delivery cycle of Delivery, for every number of events and    *)
(* workers, every batch size, number of deliveries and plan: the workers   *)
(* use the outbox only as Outbox allows (so what is shown of every caller  *)
(* holds of them), no two of them act under one claim, and an event is     *)
(* acknowledged only after its effect, which it has once.                  *)
(***************************************************************************)
EXTENDS Delivery, TLAPS

(***************************************************************************)
(* The outbox functions, called in any order.                              *)
(***************************************************************************)

\* The inductive invariant: DeliveriesAccountForClaims is inductive by itself
\* once the columns are known to be well typed.
DeliveryInv == TypeOKOutbox /\ DeliveriesAccountForClaims

\* A delivery that comes to its end, for one event (outbox_fail) or a batch
\* (outbox_reap), costs each event of it one attempt and nothing else.
LEMMA EndDeliveryStep ==
  ASSUME DeliveryInv, NEW batch \in SUBSET Events, EndDelivery(batch),
         \A e \in batch : eventStatus[e] = "processing"
  PROVE  DeliveryInv'
<1>1. TypeOKOutbox'
  <2>1. eventStatus' \in [Events -> EventStatus]
    BY DEF EndDelivery, DeliveryInv, TypeOKOutbox, EventStatus
  <2>2. deliveries' \in [Events -> Nat] /\ ready' \in [Events -> BOOLEAN]
    BY DEF EndDelivery, DeliveryInv, TypeOKOutbox
  <2>3. eventOwner' \in [Events -> Consumers \cup {NoConsumer}] /\ expired' \in [Events -> BOOLEAN]
    BY DEF EndDelivery, DeliveryInv, TypeOKOutbox
  <2>4. QED BY <2>1, <2>2, <2>3 DEF EndDelivery, DeliveryInv, TypeOKOutbox
<1>2. ASSUME NEW e \in Events
      PROVE  /\ eventFence'[e] = deliveries'[e] +
                  (IF eventStatus'[e] \in {"processing", "processed"} THEN 1 ELSE 0)
             /\ deliveries'[e] <= MaxDeliveries
             /\ eventStatus'[e] = "failed" <=> deliveries'[e] = MaxDeliveries
  <2>1. CASE e \in batch
    <3>1. eventFence[e] = deliveries[e] + 1 /\ deliveries[e] < MaxDeliveries
      BY <2>1, DeliveriesAssumption
         DEF DeliveryInv, DeliveriesAccountForClaims, TypeOKOutbox
    <3>2. /\ deliveries'[e] = deliveries[e] + 1
          /\ eventFence'[e] = eventFence[e]
          /\ eventStatus'[e] = IF deliveries[e] + 1 >= MaxDeliveries THEN "failed" ELSE "pending"
      BY <2>1 DEF EndDelivery, LastDelivery
    <3>3. deliveries[e] \in Nat
      BY DEF DeliveryInv, TypeOKOutbox
    <3>4. QED BY <3>1, <3>2, <3>3, DeliveriesAssumption
  <2>2. CASE e \notin batch
    <3>1. /\ deliveries'[e] = deliveries[e]
          /\ eventFence'[e] = eventFence[e]
          /\ eventStatus'[e] = eventStatus[e]
      BY <2>2 DEF EndDelivery
    <3>2. QED BY <3>1 DEF DeliveryInv, DeliveriesAccountForClaims
  <2>3. QED BY <2>1, <2>2
<1>3. QED BY <1>1, <1>2 DEF DeliveryInv, DeliveriesAccountForClaims

\* A claim gives each event of its batch one new token.
LEMMA ClaimEventsStep ==
  ASSUME DeliveryInv, NEW c \in Consumers, NEW batch \in SUBSET Events,
         ClaimEvents(c, batch)
  PROVE  DeliveryInv'
<1>1. \A e \in batch : eventStatus[e] = "pending"
  BY DEF ClaimEvents, ClaimableBatch, Due
<1>2. TypeOKOutbox'
  <2>1. eventStatus' \in [Events -> EventStatus]
    BY DEF ClaimEvents, DeliveryInv, TypeOKOutbox, EventStatus
  <2>2. eventOwner' \in [Events -> Consumers \cup {NoConsumer}] /\ expired' \in [Events -> BOOLEAN]
    BY DEF ClaimEvents, DeliveryInv, TypeOKOutbox
  <2>3. eventFence' \in [Events -> Nat]
    BY DEF ClaimEvents, GiveTokens, DeliveryInv, TypeOKOutbox
  <2>4. QED BY <2>1, <2>2, <2>3 DEF ClaimEvents, DeliveryInv, TypeOKOutbox
<1>3. ASSUME NEW e \in Events
      PROVE  /\ eventFence'[e] = deliveries'[e] +
                  (IF eventStatus'[e] \in {"processing", "processed"} THEN 1 ELSE 0)
             /\ deliveries'[e] <= MaxDeliveries
             /\ eventStatus'[e] = "failed" <=> deliveries'[e] = MaxDeliveries
  <2>1. deliveries'[e] = deliveries[e] /\ deliveries[e] \in Nat
    BY DEF ClaimEvents, DeliveryInv, TypeOKOutbox
  <2>2. CASE e \in batch
    <3>1. eventStatus[e] = "pending" /\ eventFence[e] = deliveries[e]
      BY <1>1, <2>1, <2>2 DEF DeliveryInv, DeliveriesAccountForClaims
    <3>2. eventStatus'[e] = "processing" /\ eventFence'[e] = eventFence[e] + 1
      BY <2>2 DEF ClaimEvents, GiveTokens
    <3>3. QED BY <2>1, <3>1, <3>2 DEF DeliveryInv, DeliveriesAccountForClaims
  <2>3. CASE e \notin batch
    <3>1. eventStatus'[e] = eventStatus[e] /\ eventFence'[e] = eventFence[e]
      BY <2>3 DEF ClaimEvents, GiveTokens
    <3>2. QED BY <2>1, <3>1 DEF DeliveryInv, DeliveriesAccountForClaims
  <2>4. QED BY <2>2, <2>3
<1>4. QED BY <1>2, <1>3 DEF DeliveryInv, DeliveriesAccountForClaims

\* The steps on one event: its insertion, its lease, its acknowledgement.
LEMMA OneEventStep ==
  ASSUME DeliveryInv, NEW e \in Events
  PROVE  /\ Append(e) => DeliveryInv'
         /\ EventLeaseEnds(e) => DeliveryInv'
         /\ DelayElapses(e) => DeliveryInv'
         /\ \A c \in Consumers, f \in Nat :
              /\ HeartbeatEvent(c, e, f) => DeliveryInv'
              /\ Acknowledge(c, e, f) => DeliveryInv'
<1>1. Append(e) => DeliveryInv'
  <2> SUFFICES ASSUME Append(e) PROVE DeliveryInv'
    OBVIOUS
  <2>1. TypeOKOutbox'
    BY DEF Append, DeliveryInv, TypeOKOutbox, EventStatus
  <2>2. DeliveriesAccountForClaims'
    BY DEF Append, DeliveryInv, TypeOKOutbox, DeliveriesAccountForClaims
  <2>3. QED BY <2>1, <2>2 DEF DeliveryInv
<1>2. EventLeaseEnds(e) => DeliveryInv'
  BY DEF EventLeaseEnds, DeliveryInv, TypeOKOutbox, DeliveriesAccountForClaims
<1>3. DelayElapses(e) => DeliveryInv'
  BY DEF DelayElapses, DeliveryInv, TypeOKOutbox, DeliveriesAccountForClaims
<1>4. ASSUME NEW c \in Consumers, NEW f \in Nat
      PROVE  /\ HeartbeatEvent(c, e, f) => DeliveryInv'
             /\ Acknowledge(c, e, f) => DeliveryInv'
  <2>1. HeartbeatEvent(c, e, f) => DeliveryInv'
    BY DEF HeartbeatEvent, DeliveryInv, TypeOKOutbox, DeliveriesAccountForClaims
  <2>2. Acknowledge(c, e, f) => TypeOKOutbox'
    BY DEF Acknowledge, DeliveryInv, TypeOKOutbox, EventStatus
  <2>3. Acknowledge(c, e, f) => DeliveriesAccountForClaims'
    BY DEF Acknowledge, HoldsEvent, DeliveryInv, TypeOKOutbox, DeliveriesAccountForClaims
  <2>4. QED BY <2>1, <2>2, <2>3 DEF DeliveryInv
<1>5. QED BY <1>1, <1>2, <1>3, <1>4

\* Every step of any caller keeps the invariant.
LEMMA OutboxStep == DeliveryInv /\ [OutboxNext]_outboxVars => DeliveryInv'
<1> SUFFICES ASSUME DeliveryInv, [OutboxNext]_outboxVars PROVE DeliveryInv'
  OBVIOUS
<1>1. CASE \E e \in Events : Append(e) \/ EventLeaseEnds(e) \/ DelayElapses(e)
  BY <1>1, OneEventStep
<1>2. CASE \E c \in Consumers, batch \in SUBSET Events : ClaimEvents(c, batch)
  BY <1>2, ClaimEventsStep
<1>3. CASE \E c \in Consumers, e \in Events : \E f \in 0..eventFence[e] :
             HeartbeatEvent(c, e, f) \/ Acknowledge(c, e, f) \/ FailEvent(c, e, f)
  <2>1. PICK c \in Consumers, e \in Events : \E f \in 0..eventFence[e] :
             HeartbeatEvent(c, e, f) \/ Acknowledge(c, e, f) \/ FailEvent(c, e, f)
    BY <1>3
  <2>2. PICK f \in 0..eventFence[e] :
             HeartbeatEvent(c, e, f) \/ Acknowledge(c, e, f) \/ FailEvent(c, e, f)
    BY <2>1
  <2>3. f \in Nat
    BY DEF DeliveryInv, TypeOKOutbox
  <2>4. CASE HeartbeatEvent(c, e, f) \/ Acknowledge(c, e, f)
    BY <2>3, <2>4, OneEventStep
  <2>5. CASE FailEvent(c, e, f)
    <3>1. {e} \in SUBSET Events /\ EndDelivery({e}) /\ \A d \in {e} : eventStatus[d] = "processing"
      BY <2>5 DEF FailEvent, HoldsEvent
    <3>2. QED BY <3>1, EndDeliveryStep
  <2>6. QED BY <2>2, <2>4, <2>5
<1>4. CASE ReapOutbox
  <2>1. /\ FirstEvents(ExpiredEvents) \in SUBSET Events
        /\ EndDelivery(FirstEvents(ExpiredEvents))
        /\ \A e \in FirstEvents(ExpiredEvents) : eventStatus[e] = "processing"
    BY <1>4 DEF ReapOutbox, FirstEvents, ExpiredEvents
  <2>2. QED BY <2>1, EndDeliveryStep
<1>5. CASE UNCHANGED outboxVars
  BY <1>5 DEF outboxVars, DeliveryInv, TypeOKOutbox, DeliveriesAccountForClaims
<1>6. QED BY <1>1, <1>2, <1>3, <1>4, <1>5 DEF OutboxNext

\* It holds of an empty table.
LEMMA OutboxInit == InitOutbox => DeliveryInv
  BY DeliveriesAssumption
     DEF InitOutbox, DeliveryInv, TypeOKOutbox, EventStatus, DeliveriesAccountForClaims

\* Whoever calls the outbox functions, and however, the rows stay well typed.
THEOREM OutboxTypeCorrect == OutboxSpec => []TypeOKOutbox
<1>1. DeliveryInv => TypeOKOutbox
  BY DEF DeliveryInv
<1>2. QED BY <1>1, OutboxInit, OutboxStep, PTL DEF OutboxSpec

\* An event is claimed at most MaxDeliveries times, and is failed exactly when
\* all of these claims were in vain, with any number of consumers and late calls.
THEOREM OutboxDeliveriesBounded == OutboxSpec => []DeliveriesAccountForClaims
<1>1. DeliveryInv => DeliveriesAccountForClaims
  BY DEF DeliveryInv
<1>2. QED BY <1>1, OutboxInit, OutboxStep, PTL DEF OutboxSpec

\* An event that is processed or failed stays so, with its counters.
THEOREM OutboxSettledIsFinal == OutboxSpec => SettledIsFinal
<1> DEFINE Settled(e) == eventStatus[e] \in {"processed", "failed"}
           Row(e) == << eventStatus[e], eventOwner[e], eventFence[e], deliveries[e] >>
<1>1. ASSUME TypeOKOutbox, [OutboxNext]_outboxVars, NEW e \in Events, Settled(e)
      PROVE  UNCHANGED Row(e)
  <2>1. CASE \E d \in Events : Append(d) \/ EventLeaseEnds(d) \/ DelayElapses(d)
    BY <1>1, <2>1 DEF Append, EventLeaseEnds, DelayElapses, TypeOKOutbox
  <2>2. CASE \E c \in Consumers, batch \in SUBSET Events : ClaimEvents(c, batch)
    BY <1>1, <2>2 DEF ClaimEvents, ClaimableBatch, Due, GiveTokens
  <2>3. CASE \E c \in Consumers, d \in Events : \E f \in 0..eventFence[d] :
               HeartbeatEvent(c, d, f) \/ Acknowledge(c, d, f) \/ FailEvent(c, d, f)
    BY <1>1, <2>3
       DEF HeartbeatEvent, Acknowledge, FailEvent, HoldsEvent, EndDelivery, TypeOKOutbox
  <2>4. CASE ReapOutbox
    BY <1>1, <2>4 DEF ReapOutbox, FirstEvents, ExpiredEvents, EndDelivery
  <2>5. CASE UNCHANGED outboxVars
    BY <2>5 DEF outboxVars
  <2>6. QED BY <1>1, <2>1, <2>2, <2>3, <2>4, <2>5 DEF OutboxNext
<1>2. TypeOKOutbox /\ [OutboxNext]_outboxVars
        => [\A e \in Events : eventStatus[e] \in {"processed", "failed"} =>
              UNCHANGED << eventStatus[e], eventOwner[e], eventFence[e], deliveries[e] >>]_outboxVars
  BY <1>1
<1>3. QED BY <1>2, OutboxTypeCorrect, PTL DEF OutboxSpec, SettledIsFinal

(***************************************************************************)
(* The workers' cycle: the inductive invariant.                            *)
(***************************************************************************)

\* The claims of a consumer: the one that it works on and those of its batch
\* that wait.
InHand(c) ==
  IF step[c] \in {"idle", "next"} THEN {} ELSE {<<current[c], currentToken[c]>>}

Claims(c) == todo[c] \cup InHand(c)

AssessmentStatus == {"running", "analyzing", "completed", "failed"}

ConsumersTyped ==
  /\ step \in [Consumers -> Step]
  /\ todo \in [Consumers -> SUBSET (Events \X Nat)]
  /\ current \in [Consumers -> Events \cup {NoEvent}]
  /\ currentToken \in [Consumers -> Nat]
  /\ \A c \in Consumers :
       /\ step[c] = "idle" => todo[c] = {} /\ current[c] = NoEvent
       /\ step[c] \notin {"idle", "next"} => current[c] \in Events

PublicTyped ==
  /\ assessmentOf \in [Events -> AssessmentStatus]
  /\ audits \in [Events -> Nat]

\* Tokens are the outbox's and no claim is with two consumers; the last one is
\* with the consumer that the row names, if the event is still in delivery.
ClaimsGranted ==
  /\ \A c \in Consumers : \A t \in Claims(c) :
       /\ eventStatus[t[1]] # "none"
       /\ t[2] <= eventFence[t[1]]
       /\ eventStatus[t[1]] = "processing" /\ t[2] = eventFence[t[1]] => eventOwner[t[1]] = c
  /\ \A c, d \in Consumers : c # d => Claims(c) \cap Claims(d) = {}

\* The assessment of an event that was inserted is as its transaction left it
\* or, later, completed.
AssessmentFits ==
  \A e \in Events :
    /\ eventStatus[e] = "none" => assessmentOf[e] = "running"
    /\ eventStatus[e] # "none" /\ KindOf[e] = "delivery" =>
         assessmentOf[e] \in {"analyzing", "completed"}

Effected(e) ==
  /\ KindOf[e] = "delivery" => assessmentOf[e] = "completed"
  /\ KindOf[e] # "queued" => e \in notices

\* The cycle acknowledges what had its effect, and treats an event as its kind
\* requires.
StepsFit ==
  \A c \in Consumers :
    /\ step[c] \in {"reading", "putting", "publishing"} => KindOf[current[c]] = "delivery"
    /\ step[c] = "announcing" => KindOf[current[c]] = "terminal"
    /\ step[c] = "acking" => Effected(current[c])

ProcessedEffected == \A e \in Events : eventStatus[e] = "processed" => Effected(e)

CycleInv ==
  /\ DeliveryInv /\ ConsumersTyped /\ PublicTyped /\ ClaimsGranted
  /\ AssessmentFits /\ StepsFit /\ ProcessedEffected /\ PublishedOnce

-----------------------------------------------------------------------------
(***************************************************************************)
(* The outbox under the cycle                                              *)
(***************************************************************************)

\* A consumer presents a token that the outbox has given out.
LEMMA TokenInHand ==
  ASSUME CycleInv, NEW c \in Consumers, step[c] \notin {"idle", "next"}
  PROVE  /\ current[c] \in Events /\ eventStatus[current[c]] # "none"
         /\ currentToken[c] \in 0..eventFence[current[c]]
<1>1. current[c] \in Events /\ currentToken[c] \in Nat
  BY DEF CycleInv, ConsumersTyped
<1>2. <<current[c], currentToken[c]>> \in Claims(c)
  BY DEF Claims, InHand
<1>3. eventStatus[current[c]] # "none" /\ currentToken[c] <= eventFence[current[c]]
  BY <1>2 DEF CycleInv, ClaimsGranted
<1>4. eventFence[current[c]] \in Nat
  BY <1>1 DEF CycleInv, DeliveryInv, TypeOKOutbox
<1> QED BY <1>1, <1>3, <1>4

\* What the cycle does to the outbox is an operation of the outbox.
LEMMA StepSimulates == CycleInv /\ [DeliveryNext]_deliveryVars => [OutboxNext]_outboxVars
<1> SUFFICES ASSUME CycleInv, [DeliveryNext]_deliveryVars PROVE [OutboxNext]_outboxVars
  OBVIOUS
<1>1. CASE \E e \in Events : Announce(e) \/ Time(e)
  BY <1>1 DEF Announce, Time, OutboxNext
<1>2. ASSUME NEW c \in Consumers, Consume(c) \/ Abort(c) PROVE [OutboxNext]_outboxVars
  <2>1. CASE ClaimOutbox(c)
    BY <2>1 DEF ClaimOutbox, OutboxNext
  <2>2. CASE Ack(c)
    <3>1. Acknowledge(c, current[c], currentToken[c]) /\ step[c] = "acking"
      BY <2>2 DEF Ack
    <3>2. current[c] \in Events /\ currentToken[c] \in 0..eventFence[current[c]]
      BY <3>1, TokenInHand
    <3> QED BY <3>1, <3>2 DEF OutboxNext
  <2>3. CASE Retry(c)
    <3>1. FailEvent(c, current[c], currentToken[c]) \/ UNCHANGED outboxVars
      BY <2>3 DEF Retry
    <3>2. current[c] \in Events /\ currentToken[c] \in 0..eventFence[current[c]]
      BY <2>3, TokenInHand DEF Retry
    <3> QED BY <3>1, <3>2 DEF OutboxNext
  <2>4. CASE ~ClaimOutbox(c) /\ ~Ack(c) /\ ~Retry(c)
    BY <1>2, <2>4
       DEF Consume, Take, BatchDone, ReadResult, PutReport, PutFails, DeleteReports, Publish,
           PublishFails, PublishTerminal, Throws, Abort
  <2> QED BY <2>1, <2>2, <2>3, <2>4
<1>3. CASE Recover
  BY <1>3 DEF Recover, OutboxNext
<1>4. CASE PlanChange \/ UNCHANGED deliveryVars
  BY <1>4 DEF PlanChange, deliveryVars
<1> QED BY <1>1, <1>2, <1>3, <1>4 DEF DeliveryNext

\* No operation of the outbox takes a token back, removes a row, or lets a
\* delivery go on under another owner and the old token.
LEMMA OutboxKeeps ==
  ASSUME TypeOKOutbox, [OutboxNext]_outboxVars, NEW e \in Events
  PROVE  /\ eventFence[e] \in Nat /\ eventFence'[e] \in Nat /\ eventFence[e] <= eventFence'[e]
         /\ eventStatus[e] # "none" => eventStatus'[e] # "none"
         /\ eventStatus'[e] = "processing" /\ eventFence'[e] = eventFence[e] =>
              eventStatus[e] = "processing" /\ eventOwner'[e] = eventOwner[e]
<1>0. eventFence[e] \in Nat
  BY DEF TypeOKOutbox
<1>1. ASSUME NEW batch \in SUBSET Events, EndDelivery(batch),
             \A d \in batch : eventStatus[d] = "processing"
      PROVE  /\ eventFence'[e] = eventFence[e] /\ (eventStatus[e] # "none" => eventStatus'[e] # "none")
             /\ eventStatus'[e] = "processing" =>
                  eventStatus[e] = "processing" /\ eventOwner'[e] = eventOwner[e]
  BY <1>1 DEF EndDelivery
<1>2. CASE \E d \in Events : Append(d) \/ EventLeaseEnds(d) \/ DelayElapses(d)
  BY <1>0, <1>2 DEF Append, EventLeaseEnds, DelayElapses, TypeOKOutbox
<1>3. CASE \E c \in Consumers, batch \in SUBSET Events : ClaimEvents(c, batch)
  <2>1. PICK c \in Consumers, batch \in SUBSET Events : ClaimEvents(c, batch)
    BY <1>3
  <2>2. CASE e \in batch
    BY <1>0, <2>1, <2>2 DEF ClaimEvents, GiveTokens
  <2>3. CASE e \notin batch
    BY <1>0, <2>1, <2>3 DEF ClaimEvents, GiveTokens
  <2> QED BY <2>2, <2>3
<1>4. CASE \E c \in Consumers, d \in Events : \E f \in 0..eventFence[d] :
             HeartbeatEvent(c, d, f) \/ Acknowledge(c, d, f) \/ FailEvent(c, d, f)
  <2>1. PICK c \in Consumers, d \in Events : \E f \in 0..eventFence[d] :
             HeartbeatEvent(c, d, f) \/ Acknowledge(c, d, f) \/ FailEvent(c, d, f)
    BY <1>4
  <2>2. CASE \E f \in 0..eventFence[d] : HeartbeatEvent(c, d, f) \/ Acknowledge(c, d, f)
    BY <1>0, <2>2 DEF HeartbeatEvent, Acknowledge, TypeOKOutbox
  <2>3. CASE \E f \in 0..eventFence[d] : FailEvent(c, d, f)
    BY <1>0, <1>1, <2>3 DEF FailEvent, HoldsEvent
  <2> QED BY <2>1, <2>2, <2>3
<1>5. CASE ReapOutbox
  <2>1. /\ FirstEvents(ExpiredEvents) \in SUBSET Events
        /\ EndDelivery(FirstEvents(ExpiredEvents))
        /\ \A d \in FirstEvents(ExpiredEvents) : eventStatus[d] = "processing"
    BY <1>5 DEF ReapOutbox, FirstEvents, ExpiredEvents
  <2> QED BY <1>0, <1>1, <2>1
<1>6. CASE UNCHANGED outboxVars
  BY <1>0, <1>6 DEF outboxVars
<1> QED BY <1>2, <1>3, <1>4, <1>5, <1>6 DEF OutboxNext

-----------------------------------------------------------------------------
(***************************************************************************)
(* The five ways in which a step treats the consumers                      *)
(***************************************************************************)

\* A consumer goes on with the event in its hands, or is done with it.
Goes(c) == \E where \in Step \ {"idle"} :
  /\ step[c] \notin {"idle", "next"}
  /\ step' = [step EXCEPT ![c] = where]
  /\ UNCHANGED << todo, current, currentToken >>

\* Its cycle is over.
Leaves(c) ==
  /\ step' = [step EXCEPT ![c] = "idle"]
  /\ todo' = [todo EXCEPT ![c] = {}]
  /\ current' = [current EXCEPT ![c] = NoEvent]
  /\ currentToken' = [currentToken EXCEPT ![c] = 0]

\* It takes the next claim of its batch.
Takes(c) == \E t \in todo[c], where \in Step \ {"idle"} :
  /\ step[c] = "next"
  /\ step' = [step EXCEPT ![c] = where]
  /\ todo' = [todo EXCEPT ![c] = @ \ {t}]
  /\ current' = [current EXCEPT ![c] = t[1]]
  /\ currentToken' = [currentToken EXCEPT ![c] = t[2]]

\* It has claimed a batch.
Fetches(c) == \E batch \in SUBSET Events :
  /\ step[c] = "idle" /\ ClaimEvents(c, batch)
  /\ step' = [step EXCEPT ![c] = "next"]
  /\ todo' = [todo EXCEPT ![c] = {<<e, eventFence'[e]>> : e \in batch}]
  /\ UNCHANGED << current, currentToken >>

Rests == UNCHANGED << step, todo, current, currentToken >>

LEMMA ConsumerShapes ==
  ASSUME CycleInv, NEW c \in Consumers, Consume(c) \/ Abort(c)
  PROVE  Rests \/ Goes(c) \/ Leaves(c) \/ Takes(c) \/ Fetches(c)
<1>1. CASE ClaimOutbox(c)
  BY <1>1 DEF ClaimOutbox, Fetches, Rests, consumerVars
<1>2. CASE Take(c)
  <2>1. PICK t \in todo[c] :
          /\ step[c] = "next"
          /\ todo' = [todo EXCEPT ![c] = @ \ {t}]
          /\ current' = [current EXCEPT ![c] = t[1]]
          /\ currentToken' = [currentToken EXCEPT ![c] = t[2]]
          /\ step' = [step EXCEPT ![c] = CASE KindOf[t[1]] = "delivery" -> "reading"
                                           [] KindOf[t[1]] = "terminal" -> "announcing"
                                           [] KindOf[t[1]] = "queued"   -> "acking"]
    BY <1>2 DEF Take
  <2>2. KindOf[t[1]] \in {"queued", "delivery", "terminal"}
    BY <2>1, KindOfAssumption DEF CycleInv, ConsumersTyped
  <2>3. \E where \in {"reading", "announcing", "acking"} : step' = [step EXCEPT ![c] = where]
    BY <2>1, <2>2
  <2> QED BY <2>1, <2>3 DEF Takes, Step
<1>3. CASE BatchDone(c) \/ Abort(c)
  BY <1>3 DEF BatchDone, Abort, Leave, Leaves
<1>4. CASE Retry(c)
  BY <1>4 DEF Retry, Continue, Leave, Goes, Leaves, Step
<1>5. CASE ReadResult(c) \/ PutReport(c) \/ PutFails(c) \/ DeleteReports(c)
  BY <1>5 DEF ReadResult, PutReport, PutFails, DeleteReports, Continue, Goes, Step
<1>6. CASE Publish(c) \/ PublishFails(c) \/ PublishTerminal(c) \/ Throws(c) \/ Ack(c)
  BY <1>6 DEF Publish, PublishFails, PublishTerminal, Throws, Ack, Continue, Goes, Step
<1> QED BY <1>1, <1>2, <1>3, <1>4, <1>5, <1>6 DEF Consume

LEMMA Shapes ==
  ASSUME CycleInv, [DeliveryNext]_deliveryVars
  PROVE  Rests \/ \E c \in Consumers : Goes(c) \/ Leaves(c) \/ Takes(c) \/ Fetches(c)
<1>1. ASSUME NEW c \in Consumers, Consume(c) \/ Abort(c)
      PROVE  Rests \/ Goes(c) \/ Leaves(c) \/ Takes(c) \/ Fetches(c)
  BY <1>1, ConsumerShapes
<1>2. CASE \E e \in Events : Announce(e) \/ Time(e)
  BY <1>2 DEF Announce, Time, Elsewhere, consumerVars, Rests
<1>3. CASE Recover \/ PlanChange \/ UNCHANGED deliveryVars
  BY <1>3 DEF Recover, PlanChange, Elsewhere, consumerVars, deliveryVars, Rests
<1> QED BY <1>1, <1>2, <1>3 DEF DeliveryNext

LEMMA ConsumersTypedStep ==
  ASSUME CycleInv, [DeliveryNext]_deliveryVars
  PROVE  ConsumersTyped'
<1> USE DEF CycleInv
<1>1. CASE Rests
  BY <1>1 DEF Rests, ConsumersTyped
<1>2. ASSUME NEW c \in Consumers, Goes(c) PROVE ConsumersTyped'
  BY <1>2 DEF Goes, ConsumersTyped
<1>3. ASSUME NEW c \in Consumers, Leaves(c) PROVE ConsumersTyped'
  BY <1>3 DEF Leaves, ConsumersTyped, Step
<1>4. ASSUME NEW c \in Consumers, Takes(c) PROVE ConsumersTyped'
  <2>1. PICK t \in todo[c], where \in Step \ {"idle"} :
          /\ step[c] = "next"
          /\ step' = [step EXCEPT ![c] = where]
          /\ todo' = [todo EXCEPT ![c] = @ \ {t}]
          /\ current' = [current EXCEPT ![c] = t[1]]
          /\ currentToken' = [currentToken EXCEPT ![c] = t[2]]
    BY <1>4 DEF Takes
  <2>2. t[1] \in Events /\ t[2] \in Nat
    BY <2>1 DEF ConsumersTyped
  <2> QED BY <2>1, <2>2 DEF ConsumersTyped
<1>5. ASSUME NEW c \in Consumers, Fetches(c) PROVE ConsumersTyped'
  <2>1. PICK batch \in SUBSET Events :
          /\ step' = [step EXCEPT ![c] = "next"]
          /\ todo' = [todo EXCEPT ![c] = {<<e, eventFence'[e]>> : e \in batch}]
          /\ UNCHANGED << current, currentToken >>
    BY <1>5 DEF Fetches
  <2>2. \A e \in Events : eventFence'[e] \in Nat
    BY StepSimulates, OutboxKeeps DEF DeliveryInv
  <2>3. {<<e, eventFence'[e]>> : e \in batch} \in SUBSET (Events \X Nat)
    BY <2>2
  <2> QED BY <2>1, <2>3 DEF ConsumersTyped, Step
<1> QED BY <1>1, <1>2, <1>3, <1>4, <1>5, Shapes

\* Claims come from the outbox and are otherwise only given up.
LEMMA ClaimsMove ==
  ASSUME CycleInv, [DeliveryNext]_deliveryVars
  PROVE  \/ \A c \in Consumers : Claims(c)' \subseteq Claims(c)
         \/ \E c \in Consumers, batch \in SUBSET Events :
              /\ ClaimEvents(c, batch)
              /\ Claims(c)' = {<<e, eventFence'[e]>> : e \in batch}
              /\ \A d \in Consumers \ {c} : Claims(d)' = Claims(d)
<1> USE DEF CycleInv, ConsumersTyped
<1>1. CASE Rests
  BY <1>1 DEF Rests, Claims, InHand
<1>2. ASSUME NEW c \in Consumers, Goes(c) PROVE \A d \in Consumers : Claims(d)' \subseteq Claims(d)
  <2>1. todo' = todo /\ InHand(c) = {<<current[c], currentToken[c]>>}
        /\ InHand(c)' \subseteq {<<current[c], currentToken[c]>>}
    BY <1>2 DEF Goes, InHand
  <2>2. \A d \in Consumers \ {c} : InHand(d)' = InHand(d)
    BY <1>2 DEF Goes, InHand
  <2> QED BY <2>1, <2>2 DEF Claims
<1>3. ASSUME NEW c \in Consumers, Leaves(c) PROVE \A d \in Consumers : Claims(d)' \subseteq Claims(d)
  <2>1. \A d \in Consumers \ {c} : InHand(d)' = InHand(d) /\ todo'[d] = todo[d]
    BY <1>3 DEF Leaves, InHand
  <2>2. todo'[c] = {} /\ InHand(c)' = {}
    BY <1>3 DEF Leaves, InHand
  <2> QED BY <2>1, <2>2 DEF Claims
<1>4. ASSUME NEW c \in Consumers, Takes(c) PROVE \A d \in Consumers : Claims(d)' \subseteq Claims(d)
  <2>1. PICK t \in todo[c], where \in Step \ {"idle"} :
          /\ step' = [step EXCEPT ![c] = where]
          /\ todo' = [todo EXCEPT ![c] = @ \ {t}]
          /\ current' = [current EXCEPT ![c] = t[1]]
          /\ currentToken' = [currentToken EXCEPT ![c] = t[2]]
    BY <1>4 DEF Takes
  <2>2. \A d \in Consumers \ {c} : InHand(d)' = InHand(d) /\ todo'[d] = todo[d]
    BY <2>1 DEF InHand
  <2>3. t \in Events \X Nat
    BY <2>1
  <2>4. t = <<t[1], t[2]>>
    BY <2>3
  <2>5. todo'[c] \subseteq todo[c] /\ InHand(c)' \subseteq {<<t[1], t[2]>>}
    BY <2>1 DEF InHand
  <2> QED BY <2>1, <2>2, <2>4, <2>5 DEF Claims
<1>5. ASSUME NEW c \in Consumers, Fetches(c)
      PROVE  \E batch \in SUBSET Events :
               /\ ClaimEvents(c, batch)
               /\ Claims(c)' = {<<e, eventFence'[e]>> : e \in batch}
               /\ \A d \in Consumers \ {c} : Claims(d)' = Claims(d)
  <2>1. PICK batch \in SUBSET Events :
          /\ ClaimEvents(c, batch)
          /\ step' = [step EXCEPT ![c] = "next"]
          /\ todo' = [todo EXCEPT ![c] = {<<e, eventFence'[e]>> : e \in batch}]
          /\ UNCHANGED << current, currentToken >>
    BY <1>5 DEF Fetches
  <2>2. todo'[c] = {<<e, eventFence'[e]>> : e \in batch} /\ InHand(c)' = {}
    BY <2>1 DEF InHand
  <2>3. \A d \in Consumers \ {c} : InHand(d)' = InHand(d) /\ todo'[d] = todo[d]
    BY <2>1 DEF InHand
  <2> QED BY <2>1, <2>2, <2>3 DEF Claims
<1> QED BY <1>1, <1>2, <1>3, <1>4, <1>5, Shapes

LEMMA ClaimsTyped ==
  ASSUME CycleInv, NEW c \in Consumers, NEW t \in Claims(c)
  PROVE  t \in Events \X Nat
BY DEF CycleInv, ConsumersTyped, Claims, InHand

\* A batch comes with tokens that are larger than those of all claims before.
LEMMA ClaimsStep ==
  ASSUME CycleInv, [DeliveryNext]_deliveryVars
  PROVE  ClaimsGranted'
<1>1. [OutboxNext]_outboxVars /\ TypeOKOutbox
  BY StepSimulates DEF CycleInv, DeliveryInv
<1>2. ASSUME NEW c \in Consumers, NEW t \in Claims(c)
      PROVE  /\ t[1] \in Events /\ t[2] \in Nat /\ t[2] <= eventFence[t[1]]
             /\ eventStatus'[t[1]] # "none" /\ t[2] <= eventFence'[t[1]]
             /\ eventStatus'[t[1]] = "processing" /\ t[2] = eventFence'[t[1]]
                  => eventOwner'[t[1]] = c
  <2>1. t[1] \in Events /\ t[2] \in Nat
    BY ClaimsTyped
  <2>2. /\ eventStatus[t[1]] # "none" /\ t[2] <= eventFence[t[1]]
        /\ eventStatus[t[1]] = "processing" /\ t[2] = eventFence[t[1]] => eventOwner[t[1]] = c
    BY DEF CycleInv, ClaimsGranted
  <2>3. /\ eventFence[t[1]] \in Nat /\ eventFence'[t[1]] \in Nat
        /\ eventFence[t[1]] <= eventFence'[t[1]] /\ eventStatus'[t[1]] # "none"
        /\ eventStatus'[t[1]] = "processing" /\ eventFence'[t[1]] = eventFence[t[1]] =>
              eventStatus[t[1]] = "processing" /\ eventOwner'[t[1]] = eventOwner[t[1]]
    BY <1>1, <2>1, <2>2, OutboxKeeps
  <2> QED BY <2>1, <2>2, <2>3
<1>3. \A c, d \in Consumers : c # d => Claims(c) \cap Claims(d) = {}
  BY DEF CycleInv, ClaimsGranted
<1>4. CASE \A c \in Consumers : Claims(c)' \subseteq Claims(c)
  <2>1. \A c, d \in Consumers : c # d => Claims(c)' \cap Claims(d)' = {}
    BY <1>3, <1>4
  <2> QED BY <1>2, <1>4, <2>1 DEF ClaimsGranted
<1>5. CASE \E c \in Consumers, batch \in SUBSET Events :
             /\ ClaimEvents(c, batch)
             /\ Claims(c)' = {<<e, eventFence'[e]>> : e \in batch}
             /\ \A d \in Consumers \ {c} : Claims(d)' = Claims(d)
  <2>1. PICK c \in Consumers, batch \in SUBSET Events :
             /\ ClaimEvents(c, batch)
             /\ Claims(c)' = {<<e, eventFence'[e]>> : e \in batch}
             /\ \A d \in Consumers \ {c} : Claims(d)' = Claims(d)
    BY <1>5
  <2>2. \A e \in batch : /\ eventStatus'[e] = "processing" /\ eventOwner'[e] = c
                         /\ eventFence[e] \in Nat /\ eventFence'[e] = eventFence[e] + 1
    BY <1>1, <2>1 DEF ClaimEvents, GiveTokens, TypeOKOutbox
  <2>3. ASSUME NEW t \in Claims(c)'
        PROVE  /\ t[1] \in batch /\ t[2] = eventFence[t[1]] + 1 /\ t[2] = eventFence'[t[1]]
               /\ eventFence[t[1]] \in Nat
    BY <2>1, <2>2
  <2>4. \A d \in Consumers \ {c} : Claims(c)' \cap Claims(d) = {}
    <3>1. SUFFICES ASSUME NEW d \in Consumers \ {c}, NEW t \in Claims(c)', t \in Claims(d)
                   PROVE  FALSE
      OBVIOUS
    <3>2. t[2] \in Nat /\ t[2] <= eventFence[t[1]]
      BY <1>2, <3>1
    <3> QED BY <2>3, <3>1, <3>2
  <2>5. \A d, e \in Consumers : d # e => Claims(d)' \cap Claims(e)' = {}
    BY <1>3, <2>1, <2>4
  <2>6. \A d \in Consumers : \A t \in Claims(d)' :
          /\ eventStatus'[t[1]] # "none" /\ t[2] <= eventFence'[t[1]]
          /\ eventStatus'[t[1]] = "processing" /\ t[2] = eventFence'[t[1]] => eventOwner'[t[1]] = d
    <3>1. TAKE d \in Consumers
    <3>2. TAKE t \in Claims(d)'
    <3>3. CASE d = c
      BY <2>2, <2>3, <3>3
    <3>4. CASE d # c
      BY <1>2, <2>1, <3>4
    <3> QED BY <3>3, <3>4
  <2> QED BY <2>5, <2>6 DEF ClaimsGranted
<1> QED BY <1>4, <1>5, ClaimsMove

-----------------------------------------------------------------------------
(***************************************************************************)
(* The effects of a delivery                                               *)
(***************************************************************************)

\* What a step does to the assessments, their audit events and the notices.
Announces(e) ==
  /\ Append(e) /\ UNCHANGED << notices, audits >>
  /\ assessmentOf' = [assessmentOf EXCEPT ![e] = Outcome(e, @)]

Publishes(c) ==
  /\ step[c] = "publishing" /\ Published(current[c])
  /\ notices' = notices \cup {current[c]}
  /\ UNCHANGED outboxVars

Notifies(c) ==
  /\ step[c] = "announcing" /\ notices' = notices \cup {current[c]}
  /\ UNCHANGED << assessmentOf, audits, outboxVars >>

Silent == UNCHANGED << assessmentOf, audits, notices >>

NoInsertion == \A e \in Events : eventStatus'[e] = "none" <=> eventStatus[e] = "none"

LEMMA Effects ==
  ASSUME CycleInv, [DeliveryNext]_deliveryVars
  PROVE  \/ \E e \in Events : Announces(e)
         \/ NoInsertion /\ \E c \in Consumers : Publishes(c) \/ Notifies(c)
         \/ NoInsertion /\ Silent
<1>0. TypeOKOutbox
  BY DEF CycleInv, DeliveryInv
<1>1. UNCHANGED outboxVars => NoInsertion
  BY DEF outboxVars, NoInsertion
<1>2. ASSUME NEW batch \in SUBSET Events, EndDelivery(batch),
             \A d \in batch : eventStatus[d] = "processing"
      PROVE  NoInsertion
  BY <1>2 DEF EndDelivery, NoInsertion
<1>3. ASSUME NEW c \in Consumers, Consume(c) \/ Abort(c)
      PROVE  NoInsertion /\ (Publishes(c) \/ Notifies(c) \/ Silent)
  <2>1. CASE Publish(c) \/ PublishTerminal(c)
    BY <1>1, <2>1 DEF Publish, PublishTerminal, Publishes, Notifies, outboxVars
  <2>2. CASE ClaimOutbox(c)
    BY <2>2 DEF ClaimOutbox, ClaimEvents, ClaimableBatch, Due, NoInsertion, Silent, publicVars
  <2>3. CASE Ack(c)
    <3>1. Acknowledge(c, current[c], currentToken[c]) /\ Silent
      BY <2>3 DEF Ack, Silent, publicVars
    <3>2. NoInsertion
      BY <1>0, <3>1 DEF Acknowledge, HoldsEvent, NoInsertion, TypeOKOutbox
    <3> QED BY <3>1, <3>2
  <2>4. CASE Retry(c)
    <3>1. FailEvent(c, current[c], currentToken[c]) \/ UNCHANGED outboxVars
      BY <2>4 DEF Retry
    <3>2. current[c] \in Events
      BY <2>4, TokenInHand DEF Retry
    <3>3. NoInsertion
      BY <1>1, <1>2, <3>1, <3>2 DEF FailEvent, HoldsEvent
    <3>4. Silent
      BY <2>4 DEF Retry, Silent, publicVars
    <3> QED BY <3>3, <3>4
  <2>5. CASE \/ Take(c) \/ BatchDone(c) \/ ReadResult(c) \/ PutReport(c) \/ PutFails(c)
             \/ DeleteReports(c) \/ PublishFails(c) \/ Throws(c) \/ Abort(c)
    <3>1. UNCHANGED << outboxVars, publicVars >>
      BY <2>5 DEF Take, BatchDone, ReadResult, PutReport, PutFails, DeleteReports, PublishFails,
                  Throws, Abort
    <3> QED BY <1>1, <3>1 DEF Silent, publicVars
  <2> QED BY <1>3, <2>1, <2>2, <2>3, <2>4, <2>5 DEF Consume
<1>4. CASE \E e \in Events : Announce(e)
  BY <1>4 DEF Announce, Announces
<1>5. CASE \E e \in Events : Time(e)
  BY <1>0, <1>5 DEF Time, EventLeaseEnds, DelayElapses, Elsewhere, publicVars, Silent, NoInsertion
<1>6. CASE Recover
  <2>1. /\ FirstEvents(ExpiredEvents) \in SUBSET Events
        /\ EndDelivery(FirstEvents(ExpiredEvents))
        /\ \A d \in FirstEvents(ExpiredEvents) : eventStatus[d] = "processing"
    BY <1>6 DEF Recover, ReapOutbox, FirstEvents, ExpiredEvents
  <2>2. Silent
    BY <1>6 DEF Recover, Elsewhere, publicVars, Silent
  <2> QED BY <1>2, <2>1, <2>2
<1>7. CASE PlanChange \/ UNCHANGED deliveryVars
  BY <1>1, <1>7 DEF PlanChange, deliveryVars, publicVars, Silent
<1> QED BY <1>3, <1>4, <1>5, <1>6, <1>7 DEF DeliveryNext

\* An assessment is set by its event's insertion, and later only completed; the
\* completion is what is audited.
LEMMA AssessmentStep ==
  ASSUME CycleInv, [DeliveryNext]_deliveryVars
  PROVE  PublicTyped' /\ AssessmentFits' /\ PublishedOnce'
<1> USE DEF CycleInv
<1>0. TypeOKOutbox /\ PublicTyped
  BY DEF DeliveryInv
<1>1. ASSUME NEW e \in Events, Announces(e)
      PROVE  PublicTyped' /\ AssessmentFits' /\ PublishedOnce'
  <2>1. /\ eventStatus[e] = "none" /\ eventStatus'[e] = "pending"
        /\ \A d \in Events \ {e} : eventStatus'[d] = eventStatus[d]
    BY <1>0, <1>1 DEF Announces, Append, TypeOKOutbox
  <2>2. /\ assessmentOf' = [assessmentOf EXCEPT ![e] = Outcome(e, assessmentOf[e])]
        /\ UNCHANGED audits
    BY <1>1 DEF Announces
  <2>3. assessmentOf[e] = "running"
    BY <2>1 DEF AssessmentFits
  <2>4. KindOf[e] \in {"queued", "delivery", "terminal"}
    BY KindOfAssumption
  <2>5. Outcome(e, "running") \in {"running", "analyzing", "failed"}
        /\ (KindOf[e] = "delivery" => Outcome(e, "running") = "analyzing")
    BY <2>4 DEF Outcome
  <2>6. PublicTyped'
    BY <1>0, <2>2, <2>3, <2>5 DEF PublicTyped, AssessmentStatus
  <2>7. /\ assessmentOf'[e] = Outcome(e, "running")
        /\ \A d \in Events \ {e} : assessmentOf'[d] = assessmentOf[d]
    BY <1>0, <2>2, <2>3 DEF PublicTyped
  <2>8. AssessmentFits'
    BY <2>1, <2>5, <2>7 DEF AssessmentFits
  <2>9. PublishedOnce'
    BY <2>2, <2>3, <2>5, <2>7 DEF PublishedOnce
  <2> QED BY <2>6, <2>8, <2>9
<1>2. ASSUME NoInsertion, NEW c \in Consumers, Publishes(c)
      PROVE  PublicTyped' /\ AssessmentFits' /\ PublishedOnce'
  <2> DEFINE e == current[c]
  <2>1. e \in Events /\ eventStatus[e] # "none"
    BY <1>2, TokenInHand DEF Publishes
  <2>2. /\ assessmentOf' = [assessmentOf EXCEPT ![e] =
                               IF assessmentOf[e] = "analyzing" THEN "completed" ELSE assessmentOf[e]]
        /\ audits' = [audits EXCEPT ![e] =
                        IF assessmentOf[e] = "analyzing" THEN audits[e] + 1 ELSE audits[e]]
        /\ UNCHANGED outboxVars
    BY <1>2 DEF Publishes, Published
  <2> HIDE DEF e
  <2>3. PublicTyped'
    BY <1>0, <2>1, <2>2 DEF PublicTyped, AssessmentStatus
  <2>4. AssessmentFits'
    BY <1>0, <1>2, <2>1, <2>2 DEF AssessmentFits, NoInsertion, PublicTyped
  <2>5. PublishedOnce'
    BY <1>0, <2>1, <2>2 DEF PublishedOnce, PublicTyped
  <2> QED BY <2>3, <2>4, <2>5
<1>3. ASSUME NoInsertion, UNCHANGED << assessmentOf, audits >>
      PROVE  PublicTyped' /\ AssessmentFits' /\ PublishedOnce'
  BY <1>0, <1>3 DEF NoInsertion, PublicTyped, AssessmentFits, PublishedOnce
<1> QED BY <1>1, <1>2, <1>3, Effects DEF Notifies, Silent

\* An effect is never undone.
LEMMA EffectStays ==
  ASSUME CycleInv, [DeliveryNext]_deliveryVars,
         NEW e \in Events, eventStatus[e] # "none", Effected(e)
  PROVE  Effected(e)'
<1> USE DEF CycleInv
<1>1. ASSUME NEW d \in Events, Announces(d) PROVE Effected(e)'
  <2>1. d # e
    BY <1>1 DEF Announces, Append
  <2> QED BY <1>1, <2>1 DEF Announces, Effected, PublicTyped
<1>2. ASSUME NEW c \in Consumers, Publishes(c) PROVE Effected(e)'
  BY <1>2 DEF Publishes, Published, Effected, PublicTyped
<1>3. ASSUME NEW c \in Consumers, Notifies(c) PROVE Effected(e)'
  BY <1>3 DEF Notifies, Effected
<1>4. CASE Silent
  BY <1>4 DEF Silent, Effected
<1> QED BY <1>1, <1>2, <1>3, <1>4, Effects

Fits(c) ==
  /\ step[c] \in {"reading", "putting", "publishing"} => KindOf[current[c]] = "delivery"
  /\ step[c] = "announcing" => KindOf[current[c]] = "terminal"
  /\ step[c] = "acking" => Effected(current[c])

\* A consumer that does not move keeps what it knows of its event.
LEMMA FitsStays ==
  ASSUME CycleInv, [DeliveryNext]_deliveryVars, NEW c \in Consumers,
         step'[c] = step[c], current'[c] = current[c]
  PROVE  Fits(c)'
<1>1. Fits(c)
  BY DEF CycleInv, StepsFit, Fits
<1>2. CASE step[c] = "acking"
  <2>1. current[c] \in Events /\ eventStatus[current[c]] # "none"
    BY <1>2, TokenInHand
  <2>2. Effected(current[c]) /\ step'[c] = "acking"
    BY <1>1, <1>2 DEF Fits
  <2> DEFINE e == current[c]
  <2>3. Effected(e)'
    <3> SUFFICES ASSUME NEW d \in Events, d = current[c] PROVE Effected(d)'
      BY <2>1 DEF Effected
    <3> QED BY <2>1, <2>2, EffectStays
  <2>4. Effected(current[c])'
    BY <2>3 DEF Effected
  <2> QED BY <2>2, <2>4 DEF Fits
<1>3. CASE step[c] # "acking"
  BY <1>1, <1>3 DEF Fits
<1> QED BY <1>2, <1>3

\* The cycle handles an event as its kind requires, and acknowledges it when
\* its transaction has committed.
LEMMA FitsOwn ==
  ASSUME CycleInv, NEW c \in Consumers, Consume(c) \/ Abort(c)
  PROVE  \/ Fits(c)'
         \/ step'[c] = step[c] /\ current'[c] = current[c]
<1> USE DEF CycleInv, ConsumersTyped
<1>1. Fits(c)
  BY DEF StepsFit, Fits
<1>2. ASSUME step'[c] \in {"idle", "next", "unputting", "failing"} PROVE Fits(c)'
  BY <1>2 DEF Fits
<1>3. ASSUME NEW where, Continue(c, where)
      PROVE  step'[c] = where /\ current'[c] = current[c]
  BY <1>3 DEF Continue
<1>4. CASE ClaimOutbox(c)
  <2>1. step'[c] = "next" \/ UNCHANGED consumerVars
    BY <1>4 DEF ClaimOutbox
  <2> QED BY <1>2, <2>1 DEF consumerVars
<1>5. CASE Take(c)
  <2>1. PICK t \in todo[c] :
          /\ current' = [current EXCEPT ![c] = t[1]]
          /\ step' = [step EXCEPT ![c] = CASE KindOf[t[1]] = "delivery" -> "reading"
                                           [] KindOf[t[1]] = "terminal" -> "announcing"
                                           [] KindOf[t[1]] = "queued"   -> "acking"]
    BY <1>5 DEF Take
  <2>2. current'[c] = t[1] /\ KindOf[t[1]] \in {"queued", "delivery", "terminal"}
    BY <2>1, KindOfAssumption
  <2>3. \/ KindOf[t[1]] = "delivery" /\ step'[c] = "reading"
        \/ KindOf[t[1]] = "terminal" /\ step'[c] = "announcing"
        \/ KindOf[t[1]] = "queued" /\ step'[c] = "acking"
    BY <2>1, <2>2
  <2> QED BY <2>2, <2>3 DEF Fits, Effected
<1>6. CASE BatchDone(c) \/ Abort(c)
  BY <1>2, <1>6 DEF BatchDone, Abort, Leave
<1>7. CASE Retry(c)
  BY <1>2, <1>7 DEF Retry, Continue, Leave
<1>8. CASE ReadResult(c) \/ PutReport(c)
  <2>1. step[c] \in {"reading", "putting"} /\ step'[c] \in {"putting", "publishing"}
        /\ current'[c] = current[c]
    BY <1>8 DEF ReadResult, PutReport, Continue
  <2> QED BY <1>1, <2>1 DEF Fits
<1>9. CASE PutFails(c) \/ DeleteReports(c) \/ PublishFails(c) \/ Throws(c)
  BY <1>2, <1>9 DEF PutFails, DeleteReports, PublishFails, Throws, Continue
<1>10. CASE Publish(c)
  <2>1. /\ step[c] = "publishing" /\ Published(current[c])
        /\ notices' = notices \cup {current[c]}
        /\ step'[c] \in {"acking", "unputting"} /\ current'[c] = current[c]
    BY <1>10 DEF Publish, Continue
  <2>2. /\ KindOf[current[c]] = "delivery"
        /\ current[c] \in Events /\ eventStatus[current[c]] # "none"
    BY <1>1, <2>1, TokenInHand DEF Fits
  <2>3. assessmentOf[current[c]] \in {"analyzing", "completed"}
    BY <2>2 DEF AssessmentFits
  <2>4. assessmentOf'[current[c]] = "completed"
    BY <2>1, <2>2, <2>3 DEF Published, PublicTyped
  <2>5. Effected(current[c])'
    BY <2>1, <2>4 DEF Effected
  <2> QED BY <2>1, <2>5 DEF Fits
<1>11. CASE PublishTerminal(c)
  <2>1. /\ step[c] = "announcing" /\ notices' = notices \cup {current[c]}
        /\ step'[c] \in {"acking", "failing"} /\ current'[c] = current[c]
    BY <1>11 DEF PublishTerminal, Continue
  <2>2. KindOf[current[c]] = "terminal"
    BY <1>1, <2>1 DEF Fits
  <2>3. Effected(current[c])'
    BY <2>1, <2>2 DEF Effected
  <2> QED BY <2>1, <2>3 DEF Fits
<1>12. CASE Ack(c)
  BY <1>2, <1>12 DEF Ack, Continue
<1> QED BY <1>4, <1>5, <1>6, <1>7, <1>8, <1>9, <1>10, <1>11, <1>12 DEF Consume

LEMMA StepsFitStep ==
  ASSUME CycleInv, [DeliveryNext]_deliveryVars
  PROVE  StepsFit'
<1>1. SUFFICES ASSUME NEW c \in Consumers PROVE Fits(c)'
  BY DEF StepsFit, Fits
<1>2. CASE Rests
  BY <1>2, FitsStays DEF Rests
<1>3. ASSUME NEW d \in Consumers, Consume(d) \/ Abort(d), ~Rests PROVE Fits(c)'
  <2>1. CASE c = d
    BY <1>3, <2>1, FitsOwn, FitsStays
  <2>2. CASE c # d
    <3>1. Goes(d) \/ Leaves(d) \/ Takes(d) \/ Fetches(d)
      BY <1>3, ConsumerShapes
    <3>2. step'[c] = step[c] /\ current'[c] = current[c]
      BY <2>2, <3>1 DEF Goes, Leaves, Takes, Fetches, CycleInv, ConsumersTyped
    <3> QED BY <3>2, FitsStays
  <2> QED BY <2>1, <2>2
<1>4. CASE \E e \in Events : Announce(e) \/ Time(e)
  BY <1>2, <1>4 DEF Announce, Time, Elsewhere, consumerVars, Rests
<1>5. CASE Recover \/ PlanChange \/ UNCHANGED deliveryVars
  BY <1>2, <1>5 DEF Recover, PlanChange, Elsewhere, consumerVars, deliveryVars, Rests
<1> QED BY <1>2, <1>3, <1>4, <1>5 DEF DeliveryNext

\* Acknowledgements come from consumers in step "acking".
LEMMA AckOnly ==
  ASSUME CycleInv, [DeliveryNext]_deliveryVars, NEW e \in Events,
         eventStatus[e] # "processed", eventStatus'[e] = "processed"
  PROVE  \E c \in Consumers : step[c] = "acking" /\ current[c] = e
<1>0. TypeOKOutbox
  BY DEF CycleInv, DeliveryInv
<1>1. \A batch \in SUBSET Events : ~EndDelivery(batch)
  BY DEF EndDelivery
<1>2. ~UNCHANGED outboxVars
  BY DEF outboxVars
<1>3. ASSUME NEW c \in Consumers, Consume(c) \/ Abort(c)
      PROVE  step[c] = "acking" /\ current[c] = e
  <2>1. ~ClaimOutbox(c)
    BY DEF ClaimOutbox, ClaimEvents
  <2>2. ~Retry(c)
    <3>1. SUFFICES ASSUME Retry(c) PROVE FALSE
      OBVIOUS
    <3>2. {current[c]} \in SUBSET Events
      BY <3>1, TokenInHand DEF Retry
    <3>3. ~FailEvent(c, current[c], currentToken[c])
      BY <1>1, <3>2 DEF FailEvent
    <3> QED BY <1>2, <3>1, <3>3 DEF Retry
  <2>3. Ack(c)
    BY <1>2, <1>3, <2>1, <2>2
       DEF Consume, Take, BatchDone, ReadResult, PutReport, PutFails, DeleteReports, Publish,
           PublishFails, PublishTerminal, Throws, Abort
  <2> QED BY <1>0, <2>3 DEF Ack, Acknowledge, TypeOKOutbox
<1>4. ASSUME NEW d \in Events PROVE ~Announce(d) /\ ~Time(d)
  BY <1>0 DEF Announce, Time, Append, EventLeaseEnds, DelayElapses, TypeOKOutbox
<1>5. ~Recover
  BY <1>1 DEF Recover, ReapOutbox, FirstEvents, ExpiredEvents
<1>6. ~PlanChange /\ ~UNCHANGED deliveryVars
  BY <1>2 DEF PlanChange, deliveryVars
<1> QED BY <1>3, <1>4, <1>5, <1>6 DEF DeliveryNext

LEMMA ProcessedStep ==
  ASSUME CycleInv, [DeliveryNext]_deliveryVars
  PROVE  ProcessedEffected'
<1>1. SUFFICES ASSUME NEW e \in Events, eventStatus'[e] = "processed"
               PROVE  Effected(e)'
  BY DEF ProcessedEffected, Effected
<1>2. eventStatus[e] # "none" /\ Effected(e)
  <2>1. CASE eventStatus[e] = "processed"
    BY <2>1 DEF CycleInv, ProcessedEffected
  <2>2. CASE eventStatus[e] # "processed"
    <3>1. PICK c \in Consumers : step[c] = "acking" /\ current[c] = e
      BY <1>1, <2>2, AckOnly
    <3> QED BY <3>1, TokenInHand DEF CycleInv, StepsFit
  <2> QED BY <2>1, <2>2
<1> QED BY <1>2, EffectStays

LEMMA CycleStep == CycleInv /\ [DeliveryNext]_deliveryVars => CycleInv'
<1> SUFFICES ASSUME CycleInv, [DeliveryNext]_deliveryVars PROVE CycleInv'
  OBVIOUS
<1>1. DeliveryInv'
  BY StepSimulates, OutboxStep DEF CycleInv
<1> QED
  BY <1>1, ConsumersTypedStep, ClaimsStep, AssessmentStep, StepsFitStep, ProcessedStep
     DEF CycleInv

LEMMA CycleInit == InitDelivery => CycleInv
<1> SUFFICES ASSUME InitDelivery PROVE CycleInv
  OBVIOUS
<1> USE DEF InitDelivery
<1>1. DeliveryInv /\ \A e \in Events : eventStatus[e] = "none"
  BY OutboxInit DEF InitOutbox
<1>2. ConsumersTyped /\ PublicTyped
  BY DEF ConsumersTyped, PublicTyped, Step, AssessmentStatus
<1>3. \A c \in Consumers : Claims(c) = {}
  BY DEF Claims, InHand
<1>4. ClaimsGranted /\ StepsFit
  BY <1>3 DEF ClaimsGranted, StepsFit
<1>5. AssessmentFits /\ ProcessedEffected /\ PublishedOnce
  BY <1>1 DEF AssessmentFits, ProcessedEffected, PublishedOnce
<1> QED BY <1>1, <1>2, <1>4, <1>5 DEF CycleInv

-----------------------------------------------------------------------------
(***************************************************************************)
(* The theorems                                                            *)
(***************************************************************************)

\* runDeliveryCycle uses the outbox only through its functions, with tokens
\* that the outbox has given it: the cycle implements the outbox.
THEOREM CycleImplementsOutbox == DeliverySpec => OutboxSpec
<1>1. InitDelivery => InitOutbox
  BY DEF InitDelivery
<1> QED BY <1>1, CycleInit, CycleStep, StepSimulates, PTL DEF DeliverySpec, OutboxSpec

\* So the workers, too, deliver an event at most MaxDeliveries times and leave
\* one that is processed or failed as it is.
THEOREM CycleKeepsOutbox == DeliverySpec => []DeliveriesAccountForClaims /\ SettledIsFinal
BY CycleImplementsOutbox, OutboxDeliveriesBounded, OutboxSettledIsFinal, PTL

\* No two workers act under one claim of an event, however many leases expire
\* while their holders go on, and the last claim is with the worker that
\* lease_owner names.
THEOREM ClaimsStayExclusive == DeliverySpec => []DeliveriesExclusive
<1>1. CycleInv => DeliveriesExclusive
  <2>1. SUFFICES ASSUME CycleInv, NEW c \in Consumers, current[c] # NoEvent, step[c] # "next"
        PROVE  /\ currentToken[c] <= eventFence[current[c]]
               /\ eventStatus[current[c]] = "processing" /\ currentToken[c] = eventFence[current[c]]
                    => eventOwner[current[c]] = c
               /\ \A d \in Consumers \ {c} :
                    <<current[c], currentToken[c]>> \notin
                      todo[d] \cup (IF step[d] = "next" THEN {} ELSE {<<current[d], currentToken[d]>>})
    BY DEF DeliveriesExclusive
  <2>2. step[c] \notin {"idle", "next"} /\ current[c] \in Events
    BY <2>1 DEF CycleInv, ConsumersTyped
  <2>3. <<current[c], currentToken[c]>> \in Claims(c)
    BY <2>2 DEF Claims, InHand
  <2>4. ASSUME NEW d \in Consumers \ {c}
        PROVE  <<current[c], currentToken[c]>> \notin
                 todo[d] \cup (IF step[d] = "next" THEN {} ELSE {<<current[d], currentToken[d]>>})
    <3>1. <<current[c], currentToken[c]>> \notin todo[d] \cup InHand(d)
      BY <2>1, <2>3 DEF CycleInv, ClaimsGranted, Claims
    <3>2. CASE step[d] = "idle"
      <4>1. current[d] # current[c]
        BY <2>1, <2>2, <3>2, NoEventAssumption DEF CycleInv, ConsumersTyped
      <4> QED BY <3>1, <4>1
    <3>3. CASE step[d] # "idle"
      BY <3>1, <3>3 DEF InHand
    <3> QED BY <3>2, <3>3
  <2>5. /\ currentToken[c] <= eventFence[current[c]]
        /\ eventStatus[current[c]] = "processing" /\ currentToken[c] = eventFence[current[c]]
             => eventOwner[current[c]] = c
    BY <2>1, <2>3 DEF CycleInv, ClaimsGranted
  <2> QED BY <2>4, <2>5
<1> QED BY <1>1, CycleInit, CycleStep, PTL DEF DeliverySpec

\* An event is acknowledged only when its transaction has committed: the
\* assessment is completed and the customer has been notified.
THEOREM AckAfterPublication == DeliverySpec => []ProcessedWasPublished
<1>1. CycleInv => ProcessedWasPublished
  <2>1. SUFFICES ASSUME CycleInv, NEW e \in Events, eventStatus[e] = "processed"
        PROVE  /\ KindOf[e] = "delivery" => assessmentOf[e] = "completed" /\ e \in notices
               /\ KindOf[e] = "terminal" => e \in notices
    <3>1. \A e \in Events : KindOf[e] \in {"queued", "delivery", "terminal"}
      BY KindOfAssumption
    <3> QED BY <3>1 DEF ProcessedWasPublished
  <2> QED BY <2>1 DEF CycleInv, ProcessedEffected, Effected
<1> QED BY <1>1, CycleInit, CycleStep, PTL DEF DeliverySpec

\* However often an event is delivered again, one publication completes the
\* assessment and is audited.
THEOREM PublicationCountsOnce == DeliverySpec => []PublishedOnce
<1>1. CycleInv => PublishedOnce
  BY DEF CycleInv
<1> QED BY <1>1, CycleInit, CycleStep, PTL DEF DeliverySpec

=============================================================================
