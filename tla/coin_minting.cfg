SPECIFICATION Spec
CONSTANTS
  owner = owner
  wallet = wallet
  alice = alice
  bob = bob
  contract = contract
  phone = phone
  Users = {owner, alice}
  This = contract
  Owner = owner
  InitialAdminWallet = owner
  InitialTokens = 0
  HALF_SHAHI = 1
  ADMIN_INITIAL_MINT = 4
  ONE_YEAR = 2
  SIX_MONTHS = 2
  THREE_MONTHS = 1
  ONE_DAY = 1
  APYChoices <- None
  Devices = {phone}
  MintAmounts = {}
  Batches <- MintingBatches
  MaxMinted = 8
  StakeAmounts <- None
  LockPeriods <- None
  TransferAmounts <- None
  LookBack = 2
  BatchLookBack = 1
  MaxPositions = 2
  MaxTime = 5
  TimeSteps = {1}
  BurnRates <- None
  FlagChoices <- MintingFlags
  AdminWallets <- None
  MerkleTrees <- MintingTrees
  MayPause = TRUE
INVARIANTS
  MintsAYearApart
  AnnualKeyFresh
