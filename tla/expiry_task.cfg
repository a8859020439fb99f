SPECIFICATION TaskSpec
CONSTANTS
  owner = owner
  wallet = wallet
  alice = alice
  bob = bob
  contract = contract
  phone = phone
  Users = {owner, alice, bob}
  This = contract
  Owner = owner
  InitialAdminWallet = owner
  InitialTokens = 0
  HALF_SHAHI = 1
  ADMIN_INITIAL_MINT = 2
  ONE_YEAR = 2
  SIX_MONTHS = 2
  THREE_MONTHS = 1
  ONE_DAY = 1
  APYChoices <- None
  Devices <- None
  MintAmounts <- None
  Batches <- None
  MaxMinted = 4
  StakeAmounts = {}
  LockPeriods = {}
  TransferAmounts = {}
  LookBack = 2
  BatchLookBack = 1
  MaxPositions = 2
  MaxTime = 3
  TimeSteps = {1}
  BurnRates <- None
  FlagChoices <- None
  AdminWallets <- None
  MerkleTrees <- None
  MayPause = FALSE
  Wallets = {alice, bob}
  BatchSize = 1
INVARIANTS
  EveryWalletAccounted
PROPERTIES
  FlagReleased
