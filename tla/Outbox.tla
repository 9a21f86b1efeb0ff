------------------------------- MODULE Outbox -------------------------------
(***************************************************************************)
(* The transactional outbox: the rows of public.outbox_event and the       *)
(* functions outbox_claim, outbox_heartbeat, outbox_ack, outbox_fail and   *)
(* outbox_reap of packages/db/migrations/0018_queue_schema.sql, called     *)
(* through packages/db/src/queue-control.ts.                               *)
(*                                                                         *)
(* The functions lock no row longer than they run, so each is one step.    *)
(* Only outbox_reap looks at lease_expires_at: the holder of an expired    *)
(* lease goes on as before until somebody reaps its event.                 *)
(*                                                                         *)
(* A definition introduced as a "Variant" is used by no action: it is the  *)
(* next definition with one slip in it (see QueueControl).                 *)
(***************************************************************************)
EXTENDS Naturals, FiniteSets

CONSTANTS
  Events,        \* rows; numbers, in the order of account_id and id
  Consumers,     \* values of lease_owner
  NoConsumer,    \* lease_owner IS NULL
  MaxDeliveries, \* outbox_event.max_attempts (5)
  ClaimBatch,    \* p_batch_size of outbox_claim (25 in runtime.ts)
  ReapEvents     \* p_batch_size of outbox_reap; 0 means it is never called

ASSUME EventsAssumption == IsFiniteSet(Events) /\ Events \subseteq Nat
ASSUME ConsumerAssumption == NoConsumer \notin Consumers
ASSUME DeliveriesAssumption == MaxDeliveries \in Nat \ {0}
ASSUME BatchesAssumption == ClaimBatch \in Nat \ {0} /\ ReapEvents \in Nat

VARIABLES
  eventStatus,   \* outbox_event.status; "none" before the row exists
  eventOwner,    \* lease_owner
  expired,       \* lease_expires_at <= now, on the reaper's clock
  eventFence,    \* fencing_token
  deliveries,    \* attempts
  ready          \* available_at <= now

outboxVars == << eventStatus, eventOwner, expired, eventFence, deliveries, ready >>

EventStatus == {"none", "pending", "processing", "processed", "failed"}

TypeOKOutbox ==
  /\ eventStatus \in [Events -> EventStatus]
  /\ eventOwner \in [Events -> Consumers \cup {NoConsumer}]
  /\ expired \in [Events -> BOOLEAN]
  /\ eventFence \in [Events -> Nat]
  /\ deliveries \in [Events -> Nat]
  /\ ready \in [Events -> BOOLEAN]

InitOutbox ==
  /\ eventStatus = [e \in Events |-> "none"]
  /\ eventOwner = [e \in Events |-> NoConsumer]
  /\ expired = [e \in Events |-> FALSE]
  /\ eventFence = [e \in Events |-> 0]
  /\ deliveries = [e \in Events |-> 0]
  /\ ready = [e \in Events |-> FALSE]

-----------------------------------------------------------------------------
\* INSERT ... ON CONFLICT (event_key) DO NOTHING, by queue_enqueue and the
\* trigger queue_assessment_transition.
Append(e) ==
  /\ eventStatus[e] = "none"
  /\ eventStatus' = [eventStatus EXCEPT ![e] = "pending"]
  /\ ready' = [ready EXCEPT ![e] = TRUE]
  /\ UNCHANGED << eventOwner, expired, eventFence, deliveries >>

\* Variant: an event whose delivery failed is not due again.
DueAtFirst == {e \in Events : eventStatus[e] = "pending" /\ ready[e] /\ deliveries[e] = 0}

Due == {e \in Events : eventStatus[e] = "pending" /\ ready[e]}

\* As many due events as fit.  Their order (available_at first) is left open.
ClaimableBatch(batch) ==
  /\ batch \subseteq Due
  /\ batch # {}
  /\ \/ batch = Due
     \/ Cardinality(batch) = ClaimBatch
  /\ Cardinality(batch) <= ClaimBatch

\* Variant: only the first claim gives a token out.
GiveTokensOnce(batch) ==
  eventFence' = [e \in Events |-> IF e \in batch THEN 1 ELSE eventFence[e]]

GiveTokens(batch) ==
  eventFence' = [e \in Events |-> IF e \in batch THEN eventFence[e] + 1 ELSE eventFence[e]]

ClaimEvents(c, batch) ==
  /\ ClaimableBatch(batch)
  /\ eventStatus' = [e \in Events |-> IF e \in batch THEN "processing" ELSE eventStatus[e]]
  /\ eventOwner' = [e \in Events |-> IF e \in batch THEN c ELSE eventOwner[e]]
  /\ expired' = [e \in Events |-> expired[e] /\ e \notin batch]
  /\ GiveTokens(batch)
  /\ UNCHANGED << deliveries, ready >>

\* Variant: nothing but the token is compared.
HoldsEventByToken(c, e, f) == eventFence[e] = f

\* The WHERE clause of heartbeat, ack and fail.
HoldsEvent(c, e, f) ==
  /\ eventStatus[e] = "processing"
  /\ eventOwner[e] = c
  /\ eventFence[e] = f

HeartbeatEvent(c, e, f) ==
  /\ HoldsEvent(c, e, f)
  /\ expired' = [expired EXCEPT ![e] = FALSE]
  /\ UNCHANGED << eventStatus, eventOwner, eventFence, deliveries, ready >>

Acknowledge(c, e, f) ==
  /\ HoldsEvent(c, e, f)
  /\ eventStatus' = [eventStatus EXCEPT ![e] = "processed"]
  /\ eventOwner' = [eventOwner EXCEPT ![e] = NoConsumer]
  /\ expired' = [expired EXCEPT ![e] = FALSE]
  /\ UNCHANGED << eventFence, deliveries, ready >>

\* Variant: one delivery too many.
LastDeliveryLate(e) == deliveries[e] >= MaxDeliveries

LastDelivery(e) == deliveries[e] + 1 >= MaxDeliveries

\* Shared by fail and reap: back to pending with a delay, or failed.
EndDelivery(batch) ==
  /\ eventStatus' = [e \in Events |-> IF e \notin batch THEN eventStatus[e]
                                      ELSE IF LastDelivery(e) THEN "failed" ELSE "pending"]
  /\ deliveries' = [e \in Events |-> IF e \in batch THEN deliveries[e] + 1 ELSE deliveries[e]]
  /\ ready' = [e \in Events |-> ready[e] /\ (e \notin batch \/ LastDelivery(e))]
  /\ eventOwner' = [e \in Events |-> IF e \in batch THEN NoConsumer ELSE eventOwner[e]]
  /\ expired' = [e \in Events |-> expired[e] /\ e \notin batch]
  /\ UNCHANGED eventFence

FailEvent(c, e, f) == HoldsEvent(c, e, f) /\ EndDelivery({e})

ExpiredEvents == {e \in Events : eventStatus[e] = "processing" /\ expired[e]}

\* ORDER BY account_id, id LIMIT ReapEvents
FirstEvents(seen) == {e \in seen : Cardinality({d \in seen : d < e}) < ReapEvents}

ReapOutbox ==
  /\ FirstEvents(ExpiredEvents) # {}
  /\ EndDelivery(FirstEvents(ExpiredEvents))

\* Time passes.
EventLeaseEnds(e) ==
  /\ eventStatus[e] = "processing"
  /\ ~expired[e]
  /\ expired' = [expired EXCEPT ![e] = TRUE]
  /\ UNCHANGED << eventStatus, eventOwner, eventFence, deliveries, ready >>

DelayElapses(e) ==
  /\ eventStatus[e] = "pending"
  /\ ~ready[e]
  /\ ready' = [ready EXCEPT ![e] = TRUE]
  /\ UNCHANGED << eventStatus, eventOwner, expired, eventFence, deliveries >>

-----------------------------------------------------------------------------
\* Whatever the consumers do, they can do no more than this.
OutboxNext ==
  \/ \E e \in Events : Append(e) \/ EventLeaseEnds(e) \/ DelayElapses(e)
  \/ \E c \in Consumers, batch \in SUBSET Events : ClaimEvents(c, batch)
  \/ \E c \in Consumers, e \in Events : \E f \in 0..eventFence[e] :
       HeartbeatEvent(c, e, f) \/ Acknowledge(c, e, f) \/ FailEvent(c, e, f)
  \/ ReapOutbox

OutboxSpec == InitOutbox /\ [][OutboxNext]_outboxVars

-----------------------------------------------------------------------------
\* Every claim of an event is accounted for: one that did not end in an
\* acknowledgement has cost an attempt.  So an event is delivered at most
\* MaxDeliveries times, and is failed exactly when that many were in vain.
DeliveriesAccountForClaims ==
  \A e \in Events :
    /\ eventFence[e] =
         deliveries[e] + (IF eventStatus[e] \in {"processing", "processed"} THEN 1 ELSE 0)
    /\ deliveries[e] <= MaxDeliveries
    /\ eventStatus[e] = "failed" <=> deliveries[e] = MaxDeliveries

\* "it is never claimed again": an event that is processed or failed stays so,
\* with its counters, whatever late calls arrive.
SettledIsFinal ==
  [][\A e \in Events : eventStatus[e] \in {"processed", "failed"} =>
       UNCHANGED << eventStatus[e], eventOwner[e], eventFence[e], deliveries[e] >>]_outboxVars

=============================================================================
