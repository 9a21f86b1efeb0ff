SPECIFICATION Spec
CONSTANTS
  own = own
  team = team
  scan = scan
  older = older
  draft = draft
  Accounts = {own, team}
  NoAccount = NoAccount
  Home = own
  RoleIn <- Roles
  Register <- Registered
  Drafts = {draft}
  NoItem = NoItem
  Slots = {1, 2}
  Flows = {3}
  Callers = {1, 2, 3}
  MaxTokens = 7
  MaxVersion = 1
  MaxFaults = 1
  MaxRounds = 2
INVARIANTS
  JarFollowsRotation
PROPERTIES
  ResultsNeverGoBack
  ConsoleSettles
  NewestResultsRelease
CHECK_DEADLOCK FALSE
