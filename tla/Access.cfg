SPECIFICATION Spec
CONSTANTS
  a1 = a1
  a2 = a2
  u1 = u1
  u2 = u2
  s1 = s1
  s2 = s2
  s3 = s3
  s4 = s4
  i1 = i1
  i2 = i2
  b1 = b1
  b2 = b2
  Accounts = {a1, a2}
  Users = {u1, u2}
  Roles = {"owner", "admin"}
  Sessions = {s1, s2, s3, s4}
  Invites = {i1, i2}
  Backends = {b1, b2}
  NoUser = NoUser
  Keep = "keep"
  Changes <- AskedChanges
  HomeOf <- MCHome
  FirstMembers <- TwoOwners
  FirstSessions <- TwoLoggedIn
  FirstInvites <- OneInvited
  MaxCalls = 3
SYMMETRY Alike
INVARIANTS
  TypeOK
  AccountHasOwner
  RemovedHaveNoLiveSession
  LogoutEndsFamily
  OneLiveSessionPerFamily
PROPERTIES
  RoleChangeEndsSessions
CHECK_DEADLOCK FALSE
