SPECIFICATION Spec
CONSTANTS
  owner = owner
  wallet = wallet
  alice = alice
  bob = bob
  contract = contract
  phone = phone
  Users = {owner, alice, bob}
  This = contract
  Owner = owner
  InitialAdminWallet = owner
  InitialTokens = 20
  HALF_SHAHI = 5
  ADMIN_INITIAL_MINT = 4
  ONE_YEAR = 1
  SIX_MONTHS = 2
  THREE_MONTHS = 1
  ONE_DAY = 1
  APYChoices <- None
  Devices = {}
  MintAmounts = {10}
  Batches <- TransferBatches
  MaxMinted = 30
  StakeAmounts = {}
  LockPeriods = {0}
  TransferAmounts = {10}
  LookBack = 1
  BatchLookBack = 1
  MaxPositions = 2
  MaxTime = 1
  TimeSteps = {1}
  BurnRates = {1000}
  FlagChoices <- TransferFlags
  AdminWallets = {bob}
  MerkleTrees <- None
  MayPause = FALSE
PROPERTIES
  LockedTokensStayInApp
