------------------------------ MODULE SHAHICoin ------------------------------
(***************************************************************************)
(* The SHAHI token contract (SHAHICoinV1): the owner's administration, the *)
(* passing of time, and the composition with minting and staking.  Any     *)
(* transaction may be mined at any time, in any order.                     *)
(***************************************************************************)
EXTENDS SHAHIMinting, SHAHIStaking, SequencesExt

CONSTANTS
  MaxTime,        \* bound of the model: the last block timestamp
  TimeSteps,      \* how far one block may be from the next
  BurnRates,      \* burn rates the owner may set, in basis points
  FlagChoices,    \* <<address, flag>> pairs the owner may set and clear
  AdminWallets,   \* addresses the owner may make the admin hot wallet
  MerkleTrees,    \* sets of addresses the owner may publish a tree for
  MayPause        \* whether the owner may pause the contract

ASSUME CoinAssumption ==
  /\ TimeSteps \subseteq Nat
  /\ BurnRates \subseteq Nat
  /\ FlagChoices \subseteq Addr \X Flags
  /\ AdminWallets \subseteq Addr
  /\ MerkleTrees \subseteq SUBSET Addr

-----------------------------------------------------------------------------
(* The owner's settings.                                                    *)
setTransactionBurnRate(newBurnRate) ==
  /\ newBurnRate <= 1000
  /\ transactionBurnRate' = newBurnRate
  /\ UNCHANGED <<paused, userFlags, adminHotWallet, apyRates, merkleRoot>>

setAdminHotWallet(newAdminWallet) ==
  /\ adminHotWallet' = newAdminWallet
  /\ UNCHANGED <<paused, userFlags, apyRates, transactionBurnRate, merkleRoot>>

setMerkleRoot(users) ==
  /\ merkleRoot' = users
  /\ UNCHANGED <<paused, userFlags, adminHotWallet, apyRates, transactionBurnRate>>

\* setBlacklist, setAuthorizedMinterRole, setAppContract and setInvestor.
setFlag(a, flag, value) ==
  /\ setBit(a, flag, value)
  /\ UNCHANGED <<paused, adminHotWallet, apyRates, transactionBurnRate, merkleRoot>>

\* A new rate applies to the whole unclaimed time of every open position.
updateAPYTiers(tiers) ==
  /\ apyRates' = tiers
  /\ UNCHANGED <<paused, userFlags, adminHotWallet, transactionBurnRate, merkleRoot>>

pause   == MayPause /\ ~paused /\ paused' = TRUE
unpause == paused /\ paused' = FALSE

setPaused ==
  /\ pause \/ unpause
  /\ UNCHANGED <<userFlags, adminHotWallet, apyRates, transactionBurnRate, merkleRoot>>

AdminNext ==
  /\ \/ \E rate \in BurnRates : setTransactionBurnRate(rate)
     \/ \E wallet \in AdminWallets : setAdminHotWallet(wallet)
     \/ \E tree \in MerkleTrees : setMerkleRoot(tree)
     \/ \E choice \in FlagChoices, value \in BOOLEAN : setFlag(choice[1], choice[2], value)
     \/ \E tiers \in APYChoices : updateAPYTiers(tiers)
     \/ setPaused
  /\ UNCHANGED <<now, ledgerVars, countVars, mintVars, stakeVars>>

\* The next block.
AdvanceTime ==
  /\ \E d \in TimeSteps : now + d <= MaxTime /\ now' = now + d
  /\ UNCHANGED <<ledgerVars, adminVars, countVars, mintVars, stakeVars>>

initialize == StorageInit

Next == MintingNext \/ StakingNext \/ AdminNext \/ AdvanceTime

Spec == initialize /\ [][Next]_storageVars

-----------------------------------------------------------------------------
TypeOK ==
  /\ now \in Nat
  /\ balance \in [Addr -> Nat]
  /\ supply \in Int
  /\ paused \in BOOLEAN
  /\ userFlags \in [Addr -> SUBSET Flags]
  /\ adminHotWallet \in Addr
  /\ apyRates \in APYRates
  /\ transactionBurnRate \in 0 .. 1000
  /\ merkleRoot \in SUBSET Addr
  /\ totalMintedTokens \in Nat
  /\ burnedTokens \in Nat
  /\ totalStaked \in Nat
  /\ mintRecord \in [Addr -> MintRecord]
  /\ expiry \in [Addr -> SUBSET Nat]
  /\ positions \in [Addr -> Seq(StakingPosition)]
  /\ usedProofs \subseteq [user : Addr, device : Devices, year : Int]

(* Every position ever opened, as <<user, index>>: none is ever deleted.    *)
Opened == UNION {{u} \X DOMAIN positions[u] : u \in Addr}

(* totalStaked, which each stake, withdrawal and emergency withdrawal adjusts *)
(* on its own, is the sum of all open positions, and the contract holds that *)
(* much, whatever order these, transfers to the contract, burns and expiry   *)
(* sweeps come in: the tokens are there when withdrawStake transfers them    *)
(* back.  The second half is lost once a mint has named the contract itself: *)
(* see Overdraw of StakeEscrow.                                              *)
StakesCovered ==
  /\ totalStaked = SumFunction([q \in Opened |-> positions[q[1]][q[2]].amount])
  /\ ~mintRecord[This].hasFirstMinted => balance[This] >= totalStaked

(* Whatever mix of first mint, annual mint, service mint and batches pays a  *)
(* user, two mints that expire are a year apart, and the last one is not     *)
(* later than the mint record says.                                          *)
MintsAYearApart ==
  \A u \in Addr : \A t \in expiry[u] :
    /\ t <= mintRecord[u].lastMintTimestamp
    /\ mintRecord[u].hasFirstMinted
    /\ \A s \in expiry[u] : s < t => s + ONE_YEAR <= t

(* The replay key of annualMint counts calendar years and the cooldown counts *)
(* from the last mint: they never disagree, so a user who has waited the year *)
(* is not refused as "Already claimed annual mint this year".                 *)
AnnualKeyFresh ==
  \A u \in Addr, device \in Devices :
    mintRecord[u].hasFirstMinted /\ cooldownOver(u) => annualKey(u, device) \notin usedProofs

(* A blacklisted address cannot move its tokens to anyone, through transfer, *)
(* a stake or a withdrawal: when its balance falls, nobody's rises.          *)
BlacklistFreezes ==
  [][\A a, b \in Addr : isBlacklisted(a) /\ balance'[a] < balance[a]
                            => balance'[b] <= balance[b]]_storageVars

(* Locked tokens are used within the app: no step takes tokens from one      *)
(* ordinary holder and gives some to another.                                *)
LockedTokensStayInApp ==
  [][\A a, b \in Users : balance'[a] < balance[a] /\ balance'[b] > balance[b]
        => specialSender(a) \/ isAuthorizedAppContract(b) \/ b = adminHotWallet]_storageVars

(* Leaving a locked position before its end forfeits at least half of the   *)
(* rewards not yet claimed, whichever of the withdrawals is used; the stake *)
(* itself returns.  Rewards claimed before are kept: claimStakingRewards    *)
(* does not ask whether the lock has ended, so what there is to forfeit is  *)
(* up to the leaver, who may claim in the same block.                       *)
EarlyExitForfeits ==
  [][\A u \in Users : \A i \in DOMAIN positions[u] :
       LET p == positions[u][i]
           paid == balance'[u] - balance[u] - p.amount
       IN  p.amount > 0 /\ now < p.endTime /\ positions'[u][i].amount = 0
             => paid >= 0 /\ 2 * paid <= calculateRewards(p)]_storageVars

(* Staking implements the escrow: the pot is what the contract holds beyond   *)
(* the half token of each of its own expiry records.  No transfer, burn or    *)
(* mint takes a staked token out of it, a sweep does so only after a sweep    *)
(* that found a pot with nothing in it, and each stake leaves it once, whole, *)
(* whichever way its position is closed.                                      *)
Escrow == INSTANCE StakeEscrow WITH
  Stakers <- Addr,
  pot     <- balance[This] - HALF_SHAHI * Cardinality(expiry[This]),
  held    <- [a \in Addr |-> [i \in DOMAIN positions[a] |-> positions[a][i].amount]]

StakesInEscrow == Escrow!EscrowSpec

(* What the supply holds beyond totalMintedTokens is staking rewards, which  *)
(* never exceed 100% a year on the largest stake of each position ever       *)
(* opened: no claim, withdrawal or change of tiers pays the same time twice, *)
(* and no mint, batch, burn or sweep brings in a token it does not count.    *)
RewardsBounded ==
  (supply + burnedTokens - totalMintedTokens) * ONE_YEAR
    <= SumFunction([q \in Opened |->
         Max(StakeAmounts) * (now - positions[q[1]][q[2]].startTime)])

(* The supply is what all holders have together, whatever is minted in       *)
(* batches, moved, burned or swept, and no reward in it was paid twice.      *)
SupplyAccounted == supply = SumFunction(balance) /\ RewardsBounded

-----------------------------------------------------------------------------
(* What comments of the contract say and the code does not do.              *)

(* "Record when these tokens will expire (1 year from now)": where users do  *)
(* not spend or stake, the half token of every unexpired mint is still there. *)
FreshTokensSurvive ==
  TransferAmounts = {} /\ StakeAmounts = {} =>
    \A u \in Users :
      balance[u] >= HALF_SHAHI * Cardinality({t \in expiry[u] : t + ONE_YEAR > now})

=============================================================================
