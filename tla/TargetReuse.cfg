SPECIFICATION Spec
CONSTANTS
  w1 = w1
  w2 = w2
  WorkerIds = {w1, w2}
  NoWorker = NoWorker
  NoJob = NoJob
  MaxCalls = 8
  Accounts = {1}
  Jobs = {1, 2}
  AccountOf <- TwoJobs
  TargetOf <- OneTarget
  MaxAttempts = 1
  TenantLimit = 1
  GlobalLimit = 1
  ReapBatch = 2
  ReconcileBatch = 0
  Instants = {1}
  AssessmentGrant <- FullGrant
SYMMETRY WorkersAlike
INVARIANTS
  TargetFreeWhenInactive
CHECK_DEADLOCK FALSE
