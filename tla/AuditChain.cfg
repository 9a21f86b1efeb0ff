SPECIFICATION Spec
CONSTANTS
  c1 = c1
  c2 = c2
  c3 = c3
  Connections = {c1, c2, c3}
  Nobody = Nobody
  a = a
  Accounts = {a}
  System = System
  MaxSeq = 5
SYMMETRY ConnectionsAlike
INVARIANTS
  ChainLinked
  DeadlockNeedsLogin
PROPERTIES
  LedgerSpec
CHECK_DEADLOCK FALSE
