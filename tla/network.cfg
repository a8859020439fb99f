SPECIFICATION Spec
CONSTANTS
  Callers = {c1, c2}
  Keys = {"query", "price"}
  NULL = null
  maxRequests = 2
  interval = 2
  maxQueueSize = 1
  queueTimeout = 2
  failureThreshold = 2
  resetTimeout = 2
  failureTimeout = 3
  cacheTTL = 1
  Providers = {p1, p2}
  priority <- equalPriority
  Calls = {k1, k2}
  Timer = timer
  maxFailCount = 3
  recoveryThreshold = 2
  maxRetries = 3
  MaxFails = 4
  MaxOutages = 2
  Fallbacks = {f1, f2}
  N = 3
  MaxChanges = 2
  Links = {w1, w2}
  maxReconnectAttempts = 1
  MaxTimers = 1
  MaxCuts = 2
INVARIANTS
  NetworkTypeOK
  BreakerTrips
  SteadyCallsReach
PROPERTIES
  QueriesAreAnswered
  HealthConverges
  ReconnectsEventually
CHECK_DEADLOCK FALSE
