SPECIFICATION Spec
CONSTANTS
  owner = owner
  wallet = wallet
  alice = alice
  bob = bob
  contract = contract
  phone = phone
  Users = {owner, alice}
  This = contract
  Owner = owner
  InitialAdminWallet = owner
  InitialTokens = 8
  HALF_SHAHI = 1
  ADMIN_INITIAL_MINT = 4
  ONE_YEAR = 4
  SIX_MONTHS = 2
  THREE_MONTHS = 1
  ONE_DAY = 1
  APYChoices <- StakingAPY
  Devices <- None
  MintAmounts <- None
  Batches <- None
  MaxMinted = 10
  StakeAmounts = {4}
  LockPeriods = {0, 4}
  TransferAmounts = {4}
  LookBack = 1
  BatchLookBack = 1
  MaxPositions = 2
  MaxTime = 4
  TimeSteps = {2}
  BurnRates <- None
  FlagChoices <- StakingFlags
  AdminWallets <- None
  MerkleTrees <- None
  MayPause = FALSE
INVARIANTS
  TypeOK
  StakesCovered
  SupplyAccounted
PROPERTIES
  StakesInEscrow
  EarlyExitForfeits
  BlacklistFreezes
