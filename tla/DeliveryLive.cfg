SPECIFICATION FairDelivery
CONSTANTS
  w1 = w1
  w2 = w2
  Consumers = {w1}
  NoConsumer = NoConsumer
  NoEvent = NoEvent
  Events = {1, 2, 3}
  KindOf <- EachKind
  Kinds = {"json"}
  MaxDeliveries = 2
  ClaimBatch = 2
  ReapEvents = 1
  PlanChanges = FALSE
PROPERTIES
  EveryEventSettles
CHECK_DEADLOCK FALSE
