SPECIFICATION FairSpec
CONSTANTS
  t1 = t1
  t2 = t2
  a1 = a1
  a2 = a2
  b1 = b1
  n1 = n1
  n2 = n2
  c1 = c1
  c2 = c2
  None = None
  Token = {t1, t2}
  SessionID = {a1, a2, b1}
  Tenant = {n1, n2}
  TenantOf <- MCTenantOf
  Agents <- MCAgents
  Call = {c1, c2}
  Kind <- MCKind
  Dest <- MCDest
  QueueCap = 1
  StaleAfter = 0
  Skews <- MCSkews
  LockDelay = 1
  MaxSessions = 2
  MaxClock = 1
INVARIANTS NoDoubleClose WaiterReachable NoLeakedPending AnsweredByOwnTenant
PROPERTIES ClosedOnlyByOwnerOrSuccessor ClosedSessionReleasesCallers ImplementsRPC NoRevival
CHECK_DEADLOCK FALSE
