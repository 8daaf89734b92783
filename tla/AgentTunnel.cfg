SPECIFICATION FairTunnelSpec
CONSTANTS
  t1 = t1
  a1 = a1
  a2 = a2
  n1 = n1
  c1 = c1
  None = None
  Token = {t1}
  SessionID = {a1, a2}
  Tenant = {n1}
  TenantOf <- MCTenantOf
  Agents <- MCAgents
  Processes <- MCProcesses
  AgentToken = t1
  Call = {c1}
  Kind <- MCKind
  Dest <- MCDest
  QueueCap = 1
  StaleAfter = 0
  Skews = {0}
  LockDelay = 0
  MaxSessions = 5
  MaxClock = 1
  ReconnectBase = 1
  ReconnectMax = 2
  MaxRefusals = 1
  MaxFaults = 1
INVARIANTS ExecutedAtMostOnce AnswerIsAudited
PROPERTIES CallersReturn AgentComesBack
CHECK_DEADLOCK FALSE
