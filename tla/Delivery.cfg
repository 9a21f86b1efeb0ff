SPECIFICATION DeliverySpec
CONSTANTS
  w1 = w1
  w2 = w2
  Consumers = {w1, w2}
  NoConsumer = NoConsumer
  NoEvent = NoEvent
  Events = {1, 2}
  KindOf <- DeliveryAndTerminal
  Kinds = {"json", "pdf"}
  MaxDeliveries = 2
  ClaimBatch = 2
  ReapEvents = 1
  PlanChanges = TRUE
SYMMETRY ConsumersAlike
INVARIANTS
  DeliveriesAccountForClaims
  ProcessedWasPublished
  PublishedOnce
  DeliveriesExclusive
PROPERTIES
  SettledIsFinal
  OutboxSpec
CHECK_DEADLOCK FALSE
