SPECIFICATION DeliverySpec
CONSTANTS
  w1 = w1
  w2 = w2
  Consumers = {w1, w2}
  NoConsumer = NoConsumer
  NoEvent = NoEvent
  Events = {1}
  KindOf <- OneDelivery
  Kinds = {"json", "pdf"}
  MaxDeliveries = 2
  ClaimBatch = 2
  ReapEvents = 0
  PlanChanges = TRUE
SYMMETRY ConsumersAlike
INVARIANTS
  ProcessedReportsReadable
CHECK_DEADLOCK FALSE
