---------------------------- MODULE SHAHIMinting ----------------------------
(***************************************************************************)
(* The minting operations of SHAHICoinV1: the website's first and annual   *)
(* mints, the minting by authorised services, and the owner's mints.       *)
(***************************************************************************)
EXTENDS SHAHIStorage

CONSTANTS
  Devices,       \* the device identifiers users present
  MintAmounts,   \* the amounts the owner's general mints may be for
  Batches,       \* the address arrays the owner may pass to a batch mint
  MaxMinted      \* bound of the model: totalMintedTokens stays within it

ASSUME MintingAssumption ==
  /\ MintAmounts \subseteq Nat
  /\ Batches \subseteq Seq(Addr)

-----------------------------------------------------------------------------
(* What every per-user mint does to the record and to the expiry table: the *)
(* tokens minted now expire ONE_YEAR from now.                              *)
stampMint(user, minted) ==
  mintRecord' = [mintRecord EXCEPT ![user] =
                   [hasFirstMinted |-> TRUE, lastMintTimestamp |-> now,
                    totalMinted |-> @.totalMinted + minted]]

recordExpiry(users) ==
  expiry' = [a \in Addr |-> IF a \in users THEN expiry[a] \cup {now} ELSE expiry[a]]

\* Faulty variant: one tick of the cooldown is missing.
cooldownOver_OneShort(user) == now + 1 >= mintRecord[user].lastMintTimestamp + ONE_YEAR

\* The one-year cooldown.
cooldownOver(user) == now >= mintRecord[user].lastMintTimestamp + ONE_YEAR

\* One SHAHI for a user, half of it to the admin wallet.
mintSplit(user) ==
  /\ totalMintedTokens + ONE_SHAHI <= MaxMinted
  /\ balance' = CreditSplit(balance, user)
  /\ supply' = supply + ONE_SHAHI
  /\ totalMintedTokens' = totalMintedTokens + ONE_SHAHI
  /\ stampMint(user, ONE_SHAHI)
  /\ recordExpiry({user})

(* The first mint.  The owner's goes to the admin wallet and never expires. *)
firstTimeMint(user, device) ==
  /\ ~paused
  /\ ~isBlacklisted(user)
  /\ ~mintRecord[user].hasFirstMinted
  /\ user \in merkleRoot
  /\ firstKey(user, device) \notin usedProofs
  /\ usedProofs' = usedProofs \cup {firstKey(user, device)}
  /\ \/ /\ user = Owner
        /\ totalMintedTokens + ADMIN_INITIAL_MINT <= MaxMinted
        /\ balance' = Credit(balance, adminHotWallet, ADMIN_INITIAL_MINT)
        /\ supply' = supply + ADMIN_INITIAL_MINT
        /\ totalMintedTokens' = totalMintedTokens + ADMIN_INITIAL_MINT
        /\ stampMint(user, ADMIN_INITIAL_MINT)
        /\ UNCHANGED expiry
     \/ /\ user # Owner
        /\ mintSplit(user)
  /\ UNCHANGED <<now, adminVars, burnedTokens, stakeVars>>

(* The annual mint.  signer is the address recovered from the signature over *)
(* user, device and this block's timestamp.                                  *)
annualMint(user, device, signer) ==
  /\ ~paused
  /\ ~isBlacklisted(user)
  /\ mintRecord[user].hasFirstMinted
  /\ cooldownOver(user)
  /\ annualKey(user, device) \notin usedProofs
  /\ isAuthorizedMinter(signer) \/ signer = Owner
  /\ usedProofs' = usedProofs \cup {annualKey(user, device)}
  /\ mintSplit(user)
  /\ UNCHANGED <<now, adminVars, burnedTokens, stakeVars>>

\* regularMint repeats the body of annualMint.
regularMint(user, device, signer) == annualMint(user, device, signer)

(* Minting by a service: no proof, no device key.  For a user who has minted *)
(* the code returns without a change, which is no step of the model.         *)
mintForNewUser(caller, user) ==
  /\ ~paused
  /\ caller = Owner \/ isAuthorizedMinter(caller)
  /\ ~isBlacklisted(user)
  /\ ~mintRecord[user].hasFirstMinted
  /\ mintSplit(user)
  /\ UNCHANGED <<now, adminVars, burnedTokens, stakeVars, usedProofs>>

-----------------------------------------------------------------------------
(* The batches.  The loop mints for each user that qualifies when it is      *)
(* reached; a second occurrence of a user no longer qualifies, so the users  *)
(* paid are a set.  One blacklisted user reverts the batch; the admin's half *)
(* and totalMintedTokens count the whole array.                              *)
elements(users) == {users[i] : i \in DOMAIN users}

mintBatch(users, paid) ==
  /\ Len(users) > 0
  /\ ~paused
  /\ \A u \in elements(users) : ~isBlacklisted(u)
  /\ totalMintedTokens + Len(users) * ONE_SHAHI <= MaxMinted
  /\ balance' = LET b == Credit(balance, adminHotWallet, Len(users) * HALF_SHAHI)
                IN  [a \in Addr |-> IF a \in paid THEN b[a] + HALF_SHAHI ELSE b[a]]
  /\ supply' = supply + (Len(users) + Cardinality(paid)) * HALF_SHAHI
  /\ mintRecord' = [a \in Addr |->
       IF a \in paid
         THEN [hasFirstMinted |-> TRUE, lastMintTimestamp |-> now,
               totalMinted |-> mintRecord[a].totalMinted + HALF_SHAHI]
         ELSE mintRecord[a]]
  /\ recordExpiry(paid)
  /\ totalMintedTokens' = totalMintedTokens + Len(users) * ONE_SHAHI
  /\ UNCHANGED <<now, adminVars, burnedTokens, stakeVars, usedProofs>>

batchMintForNewUsers(users) ==
  mintBatch(users, {u \in elements(users) : ~mintRecord[u].hasFirstMinted})

\* Faulty variant: the batch does not look at the cooldown.
batchAnnualMint_NoCooldown(users) ==
  mintBatch(users, {u \in elements(users) : mintRecord[u].hasFirstMinted})

batchAnnualMint(users) ==
  mintBatch(users, {u \in elements(users) : mintRecord[u].hasFirstMinted /\ cooldownOver(u)})

-----------------------------------------------------------------------------
(* The owner's mints, which leave no record.                                *)
ownerMint(to, amount) ==
  /\ totalMintedTokens + amount <= MaxMinted
  /\ balance' = Credit(balance, to, amount)
  /\ supply' = supply + amount
  /\ totalMintedTokens' = totalMintedTokens + amount
  /\ UNCHANGED <<now, adminVars, burnedTokens, mintVars, stakeVars>>

adminMint(to, amount) == ~paused /\ ~isBlacklisted(to) /\ ownerMint(to, amount)

\* mint() checks neither the pause nor the blacklist.
mint(to, amount) == ownerMint(to, amount)

adminMintBatch(recipients, amountEach) ==
  /\ ~paused
  /\ Len(recipients) > 0
  /\ amountEach > 0
  /\ \A r \in elements(recipients) : ~isBlacklisted(r)
  /\ totalMintedTokens + Len(recipients) * amountEach <= MaxMinted
  /\ balance' = [a \in Addr |->
       balance[a] + amountEach * Cardinality({i \in DOMAIN recipients : recipients[i] = a})]
  /\ supply' = supply + Len(recipients) * amountEach
  /\ totalMintedTokens' = totalMintedTokens + Len(recipients) * amountEach
  /\ UNCHANGED <<now, adminVars, burnedTokens, mintVars, stakeVars>>

-----------------------------------------------------------------------------
(* The mints refuse the zero address only: the one they pay may be any other, *)
(* the contract itself among them.                                           *)
MintingNext ==
  \/ \E user \in Addr, device \in Devices : firstTimeMint(user, device)
  \/ \E user \in Addr, signer \in Users, device \in Devices :
        annualMint(user, device, signer) \/ regularMint(user, device, signer)
  \/ \E caller \in Users, user \in Addr : mintForNewUser(caller, user)
  \/ \E users \in Batches : batchMintForNewUsers(users) \/ batchAnnualMint(users)
  \/ \E to \in Addr, amount \in MintAmounts : adminMint(to, amount) \/ mint(to, amount)
  \/ \E recipients \in Batches, amount \in MintAmounts : adminMintBatch(recipients, amount)
=============================================================================
