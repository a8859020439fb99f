---------------------------- MODULE SHAHIStorage ----------------------------
(***************************************************************************)
(* The storage of the SHAHI token contract (SHAHIStorage.sol, and the      *)
(* ERC20, Ownable and Pausable state SHAHICoinV1 inherits), with the       *)
(* helpers every operation of the contract is written with.                *)
(*                                                                         *)
(* A transaction is one atomic step.  A require() that fails reverts the   *)
(* whole transaction, so it is a conjunct of the action's guard, and so is *)
(* a checked subtraction of Solidity 0.8 that would go below zero.         *)
(***************************************************************************)
EXTENDS Integers, Sequences, FiniteSets, FiniteSetsExt

CONSTANTS
  Users,               \* the externally owned addresses that use the token
  This,                \* the address of the contract itself, address(this)
  Owner,               \* owner(): the deployer
  InitialAdminWallet,  \* the adminHotWallet given to initialize()
  InitialTokens,       \* initialSupply * DECIMALS_FACTOR
  HALF_SHAHI,          \* half a token, in the ledger's smallest unit
  ADMIN_INITIAL_MINT,  \* what the owner's own first mint pays
  ONE_YEAR,            \* 365 days, in ticks of block.timestamp
  SIX_MONTHS,          \* 183 days
  THREE_MONTHS,        \* 91 days
  ONE_DAY,             \* 1 days
  APYChoices           \* the four-tier APY records the owner may choose from

Addr == Users \cup {This}

\* What is common to all constants: times and amounts are naturals, and the
\* contract is not one of its own users, who have one address of 160 bits each.
ASSUME StorageAssumption ==
  /\ IsFiniteSet(Users)
  /\ This \notin Users
  /\ Owner \in Users
  /\ InitialAdminWallet \in Users
  /\ InitialTokens \in Nat
  /\ HALF_SHAHI \in Nat \ {0}
  /\ ADMIN_INITIAL_MINT \in Nat
  /\ ONE_DAY \in Nat \ {0}
  /\ ONE_YEAR \in Nat \ {0}
  /\ SIX_MONTHS \in Nat
  /\ THREE_MONTHS \in Nat \ {0}

\* Basis points: 10000 is 100%.
BasisPoints == 0 .. 10000

APYRates == [oneYearAPY : BasisPoints, sixMonthAPY : BasisPoints,
             threeMonthAPY : BasisPoints, defaultAPY : BasisPoints]

ASSUME APYAssumption == APYChoices \subseteq APYRates

ONE_SHAHI == 2 * HALF_SHAHI

VARIABLES
  now,                 \* block.timestamp of the current block
  balance,             \* ERC20 _balances
  supply,              \* ERC20 _totalSupply
  paused,              \* Pausable _paused
  userFlags,           \* the bitmap: the set of flags of an address
  adminHotWallet,
  apyRates,
  transactionBurnRate, \* basis points
  merkleRoot,          \* the addresses whose leaf is in the published Merkle tree
  totalMintedTokens,
  burnedTokens,
  totalStaked,
  mintRecord,          \* userMintRecords
  expiry,              \* userTokenExpiry: the mint timestamps of live records
  positions,           \* userStakingPositions
  usedProofs           \* the keys of mints already made

ledgerVars == <<balance, supply>>
adminVars  == <<paused, userFlags, adminHotWallet, apyRates,
                transactionBurnRate, merkleRoot>>
countVars  == <<totalMintedTokens, burnedTokens>>
mintVars   == <<mintRecord, expiry, usedProofs>>
stakeVars  == <<totalStaked, positions>>
storageVars == <<now, ledgerVars, adminVars, countVars, mintVars, stakeVars>>

-----------------------------------------------------------------------------
(* The bitmap of user flags: each flag has a bit of its own, so setting or  *)
(* clearing one leaves the others alone.  IS_AUTHORIZED_MINTER_SIGNER_BIT   *)
(* is never set by any operation and is left out.                           *)
Flags == {"INVESTOR", "BLACKLISTED", "MINTER", "APP"}

isInvestor(a)              == "INVESTOR" \in userFlags[a]
isBlacklisted(a)           == "BLACKLISTED" \in userFlags[a]
isAuthorizedMinter(a)      == "MINTER" \in userFlags[a]
isAuthorizedAppContract(a) == "APP" \in userFlags[a]

setBit(a, bit, value) ==
  userFlags' = [userFlags EXCEPT ![a] = IF value THEN @ \cup {bit} ELSE @ \ {bit}]

-----------------------------------------------------------------------------
(* A userMintRecord.  totalMinted is what the record says the user's mints  *)
(* came to.                                                                 *)
MintRecord == [hasFirstMinted : BOOLEAN, lastMintTimestamp : Nat, totalMinted : Nat]
NoMint == [hasFirstMinted |-> FALSE, lastMintTimestamp |-> 0, totalMinted |-> 0]

(* A staking position; endTime 0 is "no lock".  autoCompound and            *)
(* autoClaimEnabled are stored and never read, and are left out.            *)
StakingPosition == [amount : Nat, startTime : Nat, endTime : Nat,
                    lastClaimTime : Nat, accumulatedRewards : Nat]

(* The key a mint leaves in usedProofs.  The first mint hashes the user with *)
(* the device; the annual one also with the number of the year.             *)
firstKey(user, device)  == [user |-> user, device |-> device, year |-> -1]
annualKey(user, device) == [user |-> user, device |-> device, year |-> now \div ONE_YEAR]

-----------------------------------------------------------------------------
(* The ERC20 primitives, as functions of a ledger.                          *)
Credit(b, a, amount) == [b EXCEPT ![a] = @ + amount]
Debit(b, a, amount)  == [b EXCEPT ![a] = @ - amount]
Move(b, from, to, amount) == Credit(Debit(b, from, amount), to, amount)

\* The half-and-half split of a mint between the admin wallet and a user.
CreditSplit(b, user) == Credit(Credit(b, adminHotWallet, HALF_SHAHI), user, HALF_SHAHI)

StorageInit ==
  /\ now = 0
  /\ balance = [a \in Addr |-> IF a = Owner THEN InitialTokens ELSE 0]
  /\ supply = InitialTokens
  /\ paused = FALSE
  /\ userFlags = [a \in Addr |-> {}]
  /\ adminHotWallet = InitialAdminWallet
  /\ apyRates = [oneYearAPY |-> 2000, sixMonthAPY |-> 1500,
                 threeMonthAPY |-> 1000, defaultAPY |-> 500]
  \* The declared default of 100 is a field initialiser, which runs in the
  \* implementation's constructor and not in the proxy's storage.
  /\ transactionBurnRate = 0
  /\ merkleRoot = {}
  /\ totalMintedTokens = InitialTokens
  /\ burnedTokens = 0
  /\ totalStaked = 0
  /\ mintRecord = [a \in Addr |-> NoMint]
  /\ expiry = [a \in Addr |-> {}]
  /\ positions = [a \in Addr |-> <<>>]
  /\ usedProofs = {}
=============================================================================
