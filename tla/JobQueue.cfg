SPECIFICATION Spec
CONSTANTS
  w1 = w1
  w2 = w2
  WorkerIds = {w1, w2}
  NoWorker = NoWorker
  NoJob = NoJob
  MaxCalls = 2
  Accounts = {1}
  Jobs = {1, 2}
  AccountOf <- TwoJobs
  TargetOf <- TwoTargets
  MaxAttempts = 2
  TenantLimit = 1
  GlobalLimit = 2
  ReapBatch = 2
  ReconcileBatch = 0
  Instants = {1}
  AssessmentGrant <- FullGrant
SYMMETRY WorkersAlike
INVARIANTS
  OneFinishEvent
  CountersExact
  CapacityRespected
  SucceededWasRecorded
  AttemptsAccountForClaims
  ClaimsExclusive
PROPERTIES
  DbSpec
  StaleCallsHarmless
CHECK_DEADLOCK FALSE
