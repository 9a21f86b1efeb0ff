SPECIFICATION FairSpec
CONSTANTS
  alice = alice
  acme = acme
  other = other
  Calls = {1, 2}
  Nobody = 0
  Connections = {1, 2}
  NoConnection = 0
  Tenants = {acme, other}
  NoTenant = NoTenant
  Login = "login"
  Catalogs <- SomeCatalogs
  MaxFaults = 1
  MaxSafeInteger = 1000
  Users = {alice}
  Ids = {1, 2, 3}
  Inputs <- AllInputs
  Resolutions <- AllResolutions
  Clocks = {0, 1}
  MaxChanges = 1
  Members <- MemberStates
  InitialMembers <- MembersAtFirst
  Scenarios <- SomeScenarios
  Lawful <- LawfulInputs
  Public <- PublicResolutions
INVARIANTS
  TypeOK
  TenantBound
  AnsweredMeansCommitted
  JobsAudited
  JobsWereAllowed
  OneActiveJobPerTarget
  CompletedShowsFindings
PROPERTIES
  EveryRequestAnswered
CHECK_DEADLOCK FALSE
