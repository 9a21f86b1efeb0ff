------------------------------ MODULE Delivery ------------------------------
(***************************************************************************)
(* runDeliveryCycle of apps/worker-control/src/service.ts over the outbox: *)
(* a worker claims a batch of events and, one after the other, writes the  *)
(* report objects of an assessment to private storage, publishes the       *)
(* assessment in one database transaction and acknowledges the event.      *)
(*                                                                         *)
(* An event stands for its job and its assessment too: a job has at most   *)
(* one delivery or terminal event (OneFinishEvent of QueueControl), no     *)
(* late call changes it afterwards (StaleCallsHarmless) and its runner     *)
(* result is on record (SucceededWasRecorded), which is why readResult,    *)
(* publish and publishTerminal always find their rows.                     *)
(***************************************************************************)
EXTENDS Outbox

CONSTANTS
  KindOf,        \* "queued", "delivery" or "terminal": the event's key
  Kinds,         \* the kinds of report that a paid plan gives
  NoEvent,       \* no event in hand
  PlanChanges    \* may the account's active entitlement change?

ASSUME KindOfAssumption == KindOf \in [Events -> {"queued", "delivery", "terminal"}]
ASSUME NoEventAssumption == NoEvent \notin Events
ASSUME PlanAssumption == PlanChanges \in BOOLEAN

VARIABLES
  assessmentOf,  \* assessment.status of the event's job
  reportRows,    \* public.report rows, <<event, kind>>
  objects,       \* objects in storage; the key is a function of <<event, kind>>
  notices,       \* public.notification rows: unique by event_key
  audits,        \* audit events "assessment_delivery_published" of each event
  paid,          \* is there an active entitlement of plan pro or lifetime?
  step,          \* where each consumer is in runDeliveryCycle
  todo,          \* the rest of its batch, <<event, token>>
  current,       \* the event in its hands
  currentToken,  \* and the token of that claim
  written        \* the kinds that it has put for the current event

publicVars == << assessmentOf, reportRows, notices, audits >>
consumerVars == << step, todo, current, currentToken, written >>
deliveryVars == << outboxVars, publicVars, objects, paid, consumerVars >>

Step == {"idle", "next", "reading", "putting", "publishing", "announcing",
         "acking", "unputting", "failing"}

InitDelivery ==
  /\ InitOutbox
  /\ assessmentOf = [e \in Events |-> "running"]
  /\ reportRows = {}
  /\ objects = {}
  /\ notices = {}
  /\ audits = [e \in Events |-> 0]
  /\ paid \in IF PlanChanges THEN BOOLEAN ELSE {TRUE}
  /\ step = [c \in Consumers |-> "idle"]
  /\ todo = [c \in Consumers |-> {}]
  /\ current = [c \in Consumers |-> NoEvent]
  /\ currentToken = [c \in Consumers |-> 0]
  /\ written = [c \in Consumers |-> {}]

-----------------------------------------------------------------------------
(***************************************************************************)
(* The job's outcome, and the account's plan                               *)
(***************************************************************************)

Outcome(e, old) ==
  CASE KindOf[e] = "delivery" -> "analyzing"
    [] KindOf[e] = "terminal" -> "failed"
    [] KindOf[e] = "queued"   -> old

\* queue_enqueue, queue_complete or queue_fail inserts the event and sets the
\* assessment in one transaction.
Announce(e) ==
  /\ Append(e)
  /\ assessmentOf' = [assessmentOf EXCEPT ![e] = Outcome(e, @)]
  /\ UNCHANGED << reportRows, objects, notices, audits, paid, consumerVars >>

PlanChange ==
  /\ PlanChanges
  /\ paid' = ~paid
  /\ UNCHANGED << outboxVars, publicVars, objects, consumerVars >>

-----------------------------------------------------------------------------
(***************************************************************************)
(* A consumer's cycle                                                      *)
(***************************************************************************)

Continue(c, where) ==
  /\ step' = [step EXCEPT ![c] = where]
  /\ UNCHANGED << todo, current, currentToken, written >>

\* The cycle returns or is left by an exception: the rest of the batch keeps
\* its leases and nobody works on it.
Leave(c) ==
  /\ step' = [step EXCEPT ![c] = "idle"]
  /\ todo' = [todo EXCEPT ![c] = {}]
  /\ current' = [current EXCEPT ![c] = NoEvent]
  /\ currentToken' = [currentToken EXCEPT ![c] = 0]
  /\ written' = [written EXCEPT ![c] = {}]

ClaimOutbox(c) ==
  /\ step[c] = "idle"
  /\ \E batch \in SUBSET Events :
       /\ ClaimEvents(c, batch)
       /\ \/ /\ step' = [step EXCEPT ![c] = "next"]
             /\ todo' = [todo EXCEPT ![c] = {<<e, eventFence'[e]>> : e \in batch}]
             /\ UNCHANGED << current, currentToken, written >>
          \/ UNCHANGED consumerVars       \* the reply is lost
  /\ UNCHANGED << publicVars, objects, paid >>

\* Events of job.event@1 are acknowledged unread.
Take(c) ==
  /\ step[c] = "next"
  /\ \E t \in todo[c] :
       /\ todo' = [todo EXCEPT ![c] = @ \ {t}]
       /\ current' = [current EXCEPT ![c] = t[1]]
       /\ currentToken' = [currentToken EXCEPT ![c] = t[2]]
       /\ step' = [step EXCEPT ![c] = CASE KindOf[t[1]] = "delivery" -> "reading"
                                        [] KindOf[t[1]] = "terminal" -> "announcing"
                                        [] KindOf[t[1]] = "queued"   -> "acking"]
  /\ written' = [written EXCEPT ![c] = {}]
  /\ UNCHANGED << outboxVars, publicVars, objects, paid >>

BatchDone(c) ==
  /\ step[c] = "next"
  /\ todo[c] = {}
  /\ Leave(c)
  /\ UNCHANGED << outboxVars, publicVars, objects, paid >>

\* readResult and readSucceededReportContext; generateReportObjects gives no
\* report at all to a plan that is not paid.
ReadResult(c) ==
  /\ step[c] = "reading"
  /\ Continue(c, IF paid THEN "putting" ELSE "publishing")
  /\ UNCHANGED << outboxVars, publicVars, objects, paid >>

PutReport(c) ==
  /\ step[c] = "putting"
  /\ \E k \in Kinds \ written[c] :
       /\ objects' = objects \cup {<<current[c], k>>}
       /\ written' = [written EXCEPT ![c] = @ \cup {k}]
       /\ step' = [step EXCEPT ![c] =
                     IF written[c] \cup {k} = Kinds THEN "publishing" ELSE "putting"]
  /\ UNCHANGED << outboxVars, publicVars, paid, todo, current, currentToken >>

\* put threw, whether the object was stored or not; written stays without it.
PutFails(c) ==
  /\ step[c] = "putting"
  /\ \/ UNCHANGED objects
     \/ \E k \in Kinds \ written[c] : objects' = objects \cup {<<current[c], k>>}
  /\ Continue(c, "unputting")
  /\ UNCHANGED << outboxVars, publicVars, paid >>

\* The deletes of prepareReports and of deleteReports: each may fail, and the
\* failure is swallowed.
DeleteReports(c) ==
  /\ step[c] = "unputting"
  /\ \E gone \in SUBSET written[c] : objects' = objects \ ({current[c]} \X gone)
  /\ Continue(c, "failing")
  /\ UNCHANGED << outboxVars, publicVars, paid >>

\* Variant: the status of the assessment is not compared.
PublishedAgain(e) ==
  /\ assessmentOf' = [assessmentOf EXCEPT ![e] = "completed"]
  /\ audits' = [audits EXCEPT ![e] = @ + 1]

\* UPDATE assessment ... WHERE status = 'analyzing', and the audit events if a
\* row was updated.
Published(e) ==
  /\ assessmentOf' = [assessmentOf EXCEPT ![e] = IF @ = "analyzing" THEN "completed" ELSE @]
  /\ audits' = [audits EXCEPT ![e] = IF assessmentOf[e] = "analyzing" THEN @ + 1 ELSE @]

\* publishSucceededJob commits.  Its reply may be lost: then the worker takes
\* the objects for unpublished ones.
Publish(c) ==
  /\ step[c] = "publishing"
  /\ Published(current[c])
  /\ reportRows' = reportRows \cup ({current[c]} \X written[c])
  /\ notices' = notices \cup {current[c]}
  /\ Continue(c, "acking") \/ Continue(c, "unputting")
  /\ UNCHANGED << outboxVars, objects, paid >>

\* Variant: a rejected publication is taken for an accepted one.
PublishRejectionIgnored(c) ==
  /\ step[c] = "publishing"
  /\ Continue(c, "acking")
  /\ UNCHANGED << outboxVars, publicVars, objects, paid >>

\* The transaction is rolled back.
PublishFails(c) ==
  /\ step[c] = "publishing"
  /\ Continue(c, "unputting")
  /\ UNCHANGED << outboxVars, publicVars, objects, paid >>

\* publishTerminalJob commits; its reply may be lost.
PublishTerminal(c) ==
  /\ step[c] = "announcing"
  /\ notices' = notices \cup {current[c]}
  /\ Continue(c, "acking") \/ Continue(c, "failing")
  /\ UNCHANGED << outboxVars, assessmentOf, reportRows, audits, objects, paid >>

\* A call that has no effect throws.
Throws(c) ==
  /\ step[c] \in {"reading", "announcing", "acking"}
  /\ Continue(c, "failing")
  /\ UNCHANGED << outboxVars, publicVars, objects, paid >>

\* Variant: the outbox is not asked whether the claim still holds.
AckUnfenced(c) ==
  /\ step[c] = "acking"
  /\ eventStatus' = [eventStatus EXCEPT ![current[c]] = "processed"]
  /\ eventOwner' = [eventOwner EXCEPT ![current[c]] = NoConsumer]
  /\ expired' = [expired EXCEPT ![current[c]] = FALSE]
  /\ Continue(c, "next")
  /\ UNCHANGED << eventFence, deliveries, ready, publicVars, objects, paid >>

\* outbox_ack; its reply may be lost.  A stale token gets false, and throws.
Ack(c) ==
  /\ step[c] = "acking"
  /\ Acknowledge(c, current[c], currentToken[c])
  /\ Continue(c, "next") \/ Continue(c, "failing")
  /\ UNCHANGED << publicVars, objects, paid >>

\* outbox_fail: refused for a stale token; its reply may be lost, and then the
\* exception leaves the loop over the batch.
Retry(c) ==
  /\ step[c] = "failing"
  /\ \/ FailEvent(c, current[c], currentToken[c])
     \/ ~HoldsEvent(c, current[c], currentToken[c]) /\ UNCHANGED outboxVars
  /\ Continue(c, "next") \/ Leave(c)
  /\ UNCHANGED << publicVars, objects, paid >>

\* outbox_fail does not reach the server; or the process dies.
Abort(c) ==
  /\ step[c] # "idle"
  /\ Leave(c)
  /\ UNCHANGED << outboxVars, publicVars, objects, paid >>

-----------------------------------------------------------------------------
Consume(c) ==
  \/ ClaimOutbox(c) \/ Take(c) \/ BatchDone(c) \/ ReadResult(c) \/ PutReport(c)
  \/ PutFails(c) \/ DeleteReports(c) \/ Publish(c) \/ PublishFails(c)
  \/ PublishTerminal(c) \/ Throws(c) \/ Ack(c) \/ Retry(c)

Elsewhere == << publicVars, objects, paid, consumerVars >>

Time(e) == (EventLeaseEnds(e) \/ DelayElapses(e)) /\ UNCHANGED Elsewhere

Recover == ReapOutbox /\ UNCHANGED Elsewhere

DeliveryNext ==
  \/ \E e \in Events : Announce(e) \/ Time(e)
  \/ \E c \in Consumers : Consume(c) \/ Abort(c)
  \/ Recover
  \/ PlanChange

DeliverySpec == InitDelivery /\ [][DeliveryNext]_deliveryVars

\* Every worker goes on with its cycle and time passes: what the shipped worker's
\* loop does.  Nothing in it calls outbox_reap, so nobody has to Recover.
DeliveryFairness ==
  /\ \A c \in Consumers : WF_deliveryVars(Consume(c))
  /\ \A e \in Events : WF_deliveryVars(Time(e))

FairDelivery == DeliverySpec /\ DeliveryFairness

-----------------------------------------------------------------------------
(***************************************************************************)
(* Safety                                                                  *)
(***************************************************************************)

\* "acknowledges only after publication": an event that is processed has had
\* its effect, whichever of the deliveries that were begun got it done.
ProcessedWasPublished ==
  \A e \in Events : eventStatus[e] = "processed" =>
    CASE KindOf[e] = "delivery" -> assessmentOf[e] = "completed" /\ e \in notices
      [] KindOf[e] = "terminal" -> e \in notices
      [] KindOf[e] = "queued"   -> TRUE

\* At-least-once delivery takes effect once: the assessment is completed by
\* exactly one publication and only that one is audited.
PublishedOnce ==
  \A e \in Events : audits[e] = IF assessmentOf[e] = "completed" THEN 1 ELSE 0

\* "Consumers are at-least-once and idempotent": once a delivery is settled as
\* processed, every report that the customer is told of can be downloaded.
ProcessedReportsReadable ==
  \A e \in Events : eventStatus[e] = "processed" =>
    \A k \in Kinds : <<e, k>> \in reportRows => <<e, k>> \in objects

\* No two consumers act under one claim of an event, and the current claim is
\* with the consumer that the row names.
DeliveriesExclusive ==
  \A c \in Consumers : current[c] # NoEvent /\ step[c] # "next" =>
    /\ currentToken[c] <= eventFence[current[c]]
    /\ eventStatus[current[c]] = "processing" /\ currentToken[c] = eventFence[current[c]]
       => eventOwner[current[c]] = c
    /\ \A d \in Consumers \ {c} :
         <<current[c], currentToken[c]>> \notin
           todo[d] \cup (IF step[d] = "next" THEN {} ELSE {<<current[d], currentToken[d]>>})

-----------------------------------------------------------------------------
(***************************************************************************)
(* Liveness, under FairDelivery                                            *)
(***************************************************************************)

\* The consumer that claimed e has left it, or is still at it after its lease.
Unreaped(e) == eventStatus[e] = "processing" /\ expired[e]

\* Every pending event is in the end processed or, after MaxDeliveries claims,
\* failed; only an event that a consumer claimed and left, and that nobody reaps,
\* stays as it is for good, and then it keeps none of the others waiting.
EveryEventSettles ==
  \A e \in Events :
    eventStatus[e] = "pending" ~>
      (eventStatus[e] \in {"processed", "failed"} \/ []Unreaped(e))

=============================================================================
