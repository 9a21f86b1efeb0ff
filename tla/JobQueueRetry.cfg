SPECIFICATION FairSpec
CONSTANTS
  w1 = w1
  w2 = w2
  WorkerIds = {w1}
  NoWorker = NoWorker
  NoJob = NoJob
  MaxCalls = 1
  Accounts = {1}
  Jobs = {1, 2}
  AccountOf <- TwoJobs
  TargetOf <- TwoTargets
  MaxAttempts = 2
  TenantLimit = 1
  GlobalLimit = 1
  ReapBatch = 1
  ReconcileBatch = 1
  Instants = {1}
  AssessmentGrant <- ShippedGrant
INVARIANTS
  NeverOvercounted
  AssessmentFollowsJob
PROPERTIES
  LockedRowStable
  QueuedJobFinishes
CHECK_DEADLOCK FALSE
