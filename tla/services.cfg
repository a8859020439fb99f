SPECIFICATION Spec
CONSTANTS
  NULL = null
  Requests = {r1, r2}
  Emails = {mail}
  Addresses = {addr}
  MaxCalls = 4
  MaxFaults = 1
  MaxExpired = 1
  Sockets = {s1, s2, s3}
  Members = {u1, u2}
  Channels = {wallet1}
  StakingChannels = {position1}
  u1 = u1
  u2 = u2
  s1 = s1
  s2 = s2
  s3 = s3
  wallet1 = wallet1
  position1 = position1
  userOf <- logins
  about <- audience
  maxReconnectAttempts = 2
  MaxSockets = 4
  Owners = {addr}
  Sends = {x1, x2, x3}
  MaxKey = 2
  MaxFunds = 2
  punks = punks
  cards = cards
  Collections = {punks, cards}
  Standard <- standards
  TokenIds = {1, 2}
  Receivers = {addr, other}
  Sellers = {u1}
  MaxBatch = 2
  Positions = {p1}
  Claims = {c1, c2}
  MaxTime = 3
  lockTime = 2
  Askers = {addr}
  Handlers = {r1, r2}
  MaxClock = 4
  MaxTokens = 2
  MIN_CHALLENGE_INTERVAL = 1
  MAX_CHALLENGE_REQUESTS = 2
  CHALLENGE_CACHE_EXPIRY = 2
  RECOVERY_EXPIRATION = 1
  Wallets = {addr, other}
  Minters = {r1, r2}
  MaxRecords = 1
  MaxRestarts = 1
  Limits = {1, 2, 3}
  MaxTransfers = 6
  endpointCount = 3
  BalanceCalls = {r1, r2}
  maxAttempts = 3
INVARIANTS
  ServicesTypeOK
  AccountsHoldTogether
  MapsAgree
  ClientIsOnItsWay
  NoNonceGap
  NFTsAccountedFor
  NeverOverpaid
  EventsReachTheirUsers
  RecordedHasMinted
  PagingMissesNothing
PROPERTIES
  RefreshKeepsSignedIn
  RotationFindsUsable
CHECK_DEADLOCK FALSE
