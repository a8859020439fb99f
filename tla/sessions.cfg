SPECIFICATION ManagerSpec
CONSTANTS
  NULL = null
  Callers = {c1, c2, other}
  Chains = {c1, c2}
  Others = {other}
  MaxNonces = 2
  MaxSecrets = 3
  MaxLost = 1
  MaxLogins = 2
  MaxTicks = 2
  MaxReloads = 1
  MaxOthers = 1
INVARIANTS
  NonceUsedOnce
  StorageIsCurrent
CHECK_DEADLOCK FALSE
PROPERTIES
  LogoutCompletes
