---------------------------- MODULE SHAHIStaking ----------------------------
(***************************************************************************)
(* Transfers, burns, staking and token expiry of SHAHICoinV1.              *)
(***************************************************************************)
EXTENDS SHAHIStorage

CONSTANTS
  StakeAmounts,     \* amounts a user may stake
  LockPeriods,      \* lock periods a user may ask for; 0 is none
  TransferAmounts,  \* amounts transferred or burned by their holder
  LookBack,         \* maxIterations of burnExpiredTokens: 100
  BatchLookBack,    \* and of batchBurnExpiredTokens: 10
  MaxPositions      \* bound of the model: stakes one user opens

ASSUME StakingAssumption ==
  /\ StakeAmounts \subseteq Nat
  /\ IsFiniteSet(StakeAmounts)    \* a uint256 has a largest value
  /\ LockPeriods \subseteq Nat
  /\ TransferAmounts \subseteq Nat
  /\ LookBack \in Nat
  /\ BatchLookBack \in Nat

-----------------------------------------------------------------------------
(* The tier of a position, by the length of its lock: the first one reached. *)
(* A flexible position has no lock.                                          *)
getAPY(p) ==
  LET lock == IF p.endTime = 0 THEN 0 ELSE p.endTime - p.startTime
  IN  IF lock >= ONE_YEAR THEN apyRates.oneYearAPY
      ELSE IF lock >= SIX_MONTHS THEN apyRates.sixMonthAPY
      ELSE IF lock >= THREE_MONTHS THEN apyRates.threeMonthAPY
      ELSE apyRates.defaultAPY

(* Rewards accrue on the amount at today's APY since the last claim.        *)
calculateRewards(p) ==
  LET stakingDuration == now - p.lastClaimTime
  IN  IF p.amount = 0 THEN 0
      ELSE (p.amount * getAPY(p) * stakingDuration) \div (ONE_YEAR * 10000)
             + p.accumulatedRewards

\* Faulty variant: only the recipient is checked.
neitherBlacklisted_RecipientOnly(from, to) == ~isBlacklisted(to)

(* The user and the contract are both free to move tokens.                  *)
neitherBlacklisted(from, to) == ~isBlacklisted(from) /\ ~isBlacklisted(to)

createStake(user, amount, lockPeriod) ==
  /\ ~paused
  /\ isInvestor(user)
  /\ amount > 0
  /\ balance[user] >= amount
  /\ neitherBlacklisted(user, This)
  /\ Len(positions[user]) < MaxPositions
  /\ balance' = Move(balance, user, This, amount)
  /\ positions' = [positions EXCEPT ![user] = Append(@,
       [amount |-> amount, startTime |-> now,
        endTime |-> IF lockPeriod > 0 THEN now + lockPeriod ELSE 0,
        lastClaimTime |-> now, accumulatedRewards |-> 0])]
  /\ totalStaked' = totalStaked + amount
  /\ UNCHANGED <<now, supply, adminVars, countVars, mintVars>>

\* Faulty variant: the claim time is not moved on.
claimStakingRewards_KeepsClaimTime(user, id) ==
  LET rewards == calculateRewards(positions[user][id])
  IN  /\ rewards > 0
      /\ positions' = [positions EXCEPT ![user][id].accumulatedRewards = 0]
      /\ balance' = Credit(balance, user, rewards)
      /\ supply' = supply + rewards
      /\ UNCHANGED <<now, adminVars, countVars, mintVars, totalStaked>>

(* Rewards are minted outside totalMintedTokens.                            *)
claimStakingRewards(user, id) ==
  LET rewards == calculateRewards(positions[user][id])
  IN  /\ rewards > 0
      /\ positions' = [positions EXCEPT ![user][id] =
                         [@ EXCEPT !.accumulatedRewards = 0, !.lastClaimTime = now]]
      /\ balance' = Credit(balance, user, rewards)
      /\ supply' = supply + rewards
      /\ UNCHANGED <<now, adminVars, countVars, mintVars, totalStaked>>

\* Faulty variant: the stake leaves, and totalStaked still counts it.
closePosition_KeepsTotal(user, id, rewards) ==
  LET staked == positions[user][id].amount
  IN  /\ staked > 0
      /\ positions' = [positions EXCEPT ![user][id].amount = 0]
      /\ neitherBlacklisted(This, user)
      /\ balance[This] >= staked
      /\ balance' = Move(Credit(balance, user, rewards), This, user, staked)
      /\ supply' = supply + rewards
      /\ UNCHANGED <<now, adminVars, countVars, mintVars, totalStaked>>

(* Closing a position: the record is cleared, the rewards are minted and the *)
(* stake goes back to the user.                                              *)
closePosition(user, id, rewards) ==
  LET staked == positions[user][id].amount
  IN  /\ staked > 0
      /\ positions' = [positions EXCEPT ![user][id] =
                         [@ EXCEPT !.amount = 0, !.accumulatedRewards = 0]]
      /\ staked <= totalStaked
      /\ totalStaked' = totalStaked - staked
      /\ neitherBlacklisted(This, user)
      /\ balance[This] >= staked
      /\ balance' = Move(Credit(balance, user, rewards), This, user, staked)
      /\ supply' = supply + rewards
      /\ UNCHANGED <<now, adminVars, countVars, mintVars>>

\* Faulty variant: the lock period is not checked.
withdrawStake_NoLock(user, id) ==
  closePosition(user, id, calculateRewards(positions[user][id]))

withdrawStake(user, id) ==
  LET position == positions[user][id]
  IN  /\ position.endTime > 0 => now >= position.endTime
      /\ closePosition(user, id, calculateRewards(position))

(* Before the lock ends, half of the rewards are forfeited.                 *)
emergencyWithdraw(user, id) ==
  LET position == positions[user][id]
      isEarlyWithdrawal == position.endTime > 0 /\ now < position.endTime
      rewards == calculateRewards(position)
  IN  closePosition(user, id,
        IF isEarlyWithdrawal THEN (rewards * 50) \div 100 ELSE rewards)

StakeStep(user, id) ==
  \/ claimStakingRewards(user, id)
  \/ withdrawStake(user, id)
  \/ emergencyWithdraw(user, id)

-----------------------------------------------------------------------------
(* _transfer, behind the inherited transfer and transferFrom.  A transfer   *)
(* to the contract is a staking transfer, with no restriction and no burn;  *)
(* the owner and the admin wallet are free too; any other holder may only   *)
(* pay the admin wallet or an authorised app, and pays the burn.            *)
specialSender(a) == a \in {Owner, adminHotWallet}
transferBurn(amount) == (amount * transactionBurnRate) \div 10000

\* Faulty variant: it is the sender that must be an authorised app.
transfer_SenderApp(from, to, amount) ==
  LET free == to = This \/ specialSender(from)
      burnAmount == IF free THEN 0 ELSE transferBurn(amount)
  IN  /\ neitherBlacklisted(from, to)
      /\ free \/ isAuthorizedAppContract(from) \/ to = adminHotWallet
      /\ balance[from] >= amount
      /\ balance' = Debit(Move(balance, from, to, amount - burnAmount), from, burnAmount)
      /\ supply' = supply - burnAmount
      /\ burnedTokens' = burnedTokens + burnAmount
      /\ UNCHANGED <<now, adminVars, totalMintedTokens, mintVars, stakeVars>>

transfer(from, to, amount) ==
  LET free == to = This \/ specialSender(from)
      burnAmount == IF free THEN 0 ELSE transferBurn(amount)
      moved == Move(balance, from, to, amount - burnAmount)
  IN  /\ neitherBlacklisted(from, to)
      /\ free \/ isAuthorizedAppContract(to) \/ to = adminHotWallet
      /\ balance[from] >= amount - burnAmount
      /\ moved[from] >= burnAmount
      /\ balance' = Debit(moved, from, burnAmount)
      /\ supply' = supply - burnAmount
      /\ burnedTokens' = burnedTokens + burnAmount
      /\ UNCHANGED <<now, adminVars, totalMintedTokens, mintVars, stakeVars>>

\* Faulty variant: the balance is not checked.
burn_NoBalanceCheck(holder, amount) ==
  /\ balance' = Debit(balance, holder, amount)
  /\ supply' = supply - amount
  /\ burnedTokens' = burnedTokens + amount
  /\ UNCHANGED <<now, adminVars, totalMintedTokens, mintVars, stakeVars>>

burn(holder, amount) ==
  /\ balance[holder] >= amount
  /\ balance' = Debit(balance, holder, amount)
  /\ supply' = supply - amount
  /\ burnedTokens' = burnedTokens + amount
  /\ UNCHANGED <<now, adminVars, totalMintedTokens, mintVars, stakeVars>>

-----------------------------------------------------------------------------
(* The expiry sweep looks a user's records up by mint timestamp, at exactly  *)
(* ONE_YEAR plus 0, 1, ... depth-1 whole days before now, newest first.      *)
sweepWindow(user, depth) ==
  {t \in expiry[user] : \E i \in 0 .. depth - 1 : t = now - ONE_YEAR - i * ONE_DAY}

\* Each record found burns half a token while the balance lasts.
sweepBurns(user, depth) ==
  LET found == Cardinality(sweepWindow(user, depth))
  IN  IF found * HALF_SHAHI <= balance[user] THEN found
                                             ELSE balance[user] \div HALF_SHAHI

\* Faulty variant: the loop ends at the first record whose tokens it burns,
\* which it leaves behind.
sweepDeletes_KeepsBurned(user, depth) ==
  IF sweepBurns(user, depth) > 0 THEN {} ELSE sweepWindow(user, depth)

\* The record whose burn takes the balance to zero ends the loop before it is
\* deleted, and so do not the older ones; any other record found is deleted,
\* whether it was burned or the balance was too small.
sweepDeletes(user, depth) ==
  LET window == sweepWindow(user, depth)
      burns == sweepBurns(user, depth)
      newest(n) == {t \in window : Cardinality({s \in window : s > t}) < n}
  IN  IF burns > 0 /\ burns * HALF_SHAHI = balance[user] THEN newest(burns - 1)
                                                         ELSE window

\* A user without a balance is skipped.
swept(users) == {u \in users : balance[u] > 0}

sweep(users, depth, total) ==
  /\ balance' = [a \in Addr |-> IF a \in swept(users)
                                  THEN balance[a] - sweepBurns(a, depth) * HALF_SHAHI
                                  ELSE balance[a]]
  /\ expiry' = [a \in Addr |-> IF a \in swept(users)
                                 THEN expiry[a] \ sweepDeletes(a, depth)
                                 ELSE expiry[a]]
  /\ supply' = supply - total
  /\ burnedTokens' = burnedTokens + total
  /\ UNCHANGED <<now, adminVars, totalMintedTokens, mintRecord, usedProofs, stakeVars>>

burnExpiredTokens(user) ==
  sweep({user}, LookBack,
        IF user \in swept({user}) THEN sweepBurns(user, LookBack) * HALF_SHAHI ELSE 0)

(* The batch sweeps each user of the array; a second occurrence of a user    *)
(* finds an empty window or a zero balance.  What it burns is at most the    *)
(* supply.                                                                   *)
batchBurnExpiredTokens(users) ==
  \E total \in 0 .. supply :
    /\ total = MapThenSumSet(LAMBDA u : sweepBurns(u, BatchLookBack) * HALF_SHAHI,
                            swept(users))
    /\ sweep(users, BatchLookBack, total)

-----------------------------------------------------------------------------
StakingNext ==
  \/ \E user \in Users, amount \in StakeAmounts, lockPeriod \in LockPeriods :
        createStake(user, amount, lockPeriod)
  \/ \E user \in Users : \E id \in DOMAIN positions[user] : StakeStep(user, id)
  \/ \E from \in Users, to \in Addr, amount \in TransferAmounts : transfer(from, to, amount)
  \/ \E holder \in Users, amount \in TransferAmounts : burn(holder, amount)
  \/ \E user \in Addr : burnExpiredTokens(user)
  \/ \E users \in SUBSET Addr : batchBurnExpiredTokens(users)
=============================================================================
