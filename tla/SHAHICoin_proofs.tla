--------------------------- MODULE SHAHICoin_proofs ---------------------------
(***************************************************************************)
(* Proofs about the SHAHI token contract, for every set of users, every    *)
(* amount, period and bound.                                               *)
(***************************************************************************)
EXTENDS SHAHICoin, TLAPS, FiniteSetTheorems, SequenceTheorems, WellFoundedInduction

-----------------------------------------------------------------------------
(* The inductive invariant.  Beside the properties themselves it says that  *)
(* no clock of the contract is ahead of the block, that a replay key is not *)
(* younger than its user's mint record, and that the contract has no tokens *)
(* of its own that expire before a mint has named it, so that until then no *)
(* sweep takes staked ones.                                                 *)
PositionsPast ==
  \A u \in Addr : \A i \in 1 .. Len(positions[u]) : positions[u][i].lastClaimTime <= now

RecordsPast == \A u \in Addr : mintRecord[u].lastMintTimestamp <= now

KeysBehindRecords ==
  \A key \in usedProofs :
    key.year * ONE_YEAR <= mintRecord[key.user].lastMintTimestamp

PotCovers ==
  ~mintRecord[This].hasFirstMinted => balance[This] >= totalStaked /\ expiry[This] = {}

LedgerInv == TypeOK /\ PositionsPast /\ PotCovers /\ IsFiniteSet(expiry[This])

(* What the contract holds beyond its own expiring tokens.  A step that     *)
(* leaves the stakes alone takes from it only when it has nothing.          *)
Pot == balance[This] - HALF_SHAHI * Cardinality(expiry[This])

Funds == UNCHANGED stakeVars /\ (Pot' >= Pot \/ Pot <= 0)

MintHistory == RecordsPast /\ MintsAYearApart /\ KeysBehindRecords

-----------------------------------------------------------------------------
(* Arithmetic the ledger relies on.                                         *)

LEMMA ProductNat == ASSUME NEW a \in Nat, NEW b \in Nat PROVE a * b \in Nat
  OBVIOUS

\* More of one factor is more of the product.
LEMMA ProductMonotonic ==
  ASSUME NEW a \in Int, NEW b \in Int, NEW n \in Nat, a <= b
  PROVE  a * n <= b * n
<1> DEFINE d == b - a
<1>1. d \in Nat /\ b = a + d
  OBVIOUS
<1> HIDE DEF d
<1>2. d * n \in Nat
  BY <1>1, ProductNat
<1>3. (a + d) * n = a * n + d * n
  BY <1>1
<1> QED BY <1>1, <1>2, <1>3

\* A quotient of naturals is a natural.
LEMMA DivNat == ASSUME NEW a \in Nat, NEW n \in Nat \ {0} PROVE a \div n \in Nat
  BY Z3

\* What division gives back is not more than what was divided.
LEMMA DivProduct == ASSUME NEW a \in Nat, NEW n \in Nat \ {0}
                    PROVE (a \div n) * n <= a /\ a < (a \div n) * n + n
  BY Z3

\* The burn of a transfer is a part of its amount.
LEMMA BurnWithin == ASSUME TypeOK, NEW amount \in Nat
                    PROVE  transferBurn(amount) \in 0 .. amount
<1> DEFINE p == amount * transactionBurnRate
<1>1. transactionBurnRate \in Nat /\ transactionBurnRate <= 1000
  BY DEF TypeOK
<1>2. p \in Nat
  BY <1>1, ProductNat
<1>3. p <= amount * 1000
  BY <1>1
<1>4. transferBurn(amount) = p \div 10000
  BY DEF transferBurn
<1> HIDE DEF p
<1> QED BY <1>2, <1>3, <1>4

-----------------------------------------------------------------------------
(* The rewards of a position are a natural number.                          *)
LEMMA RewardsNat ==
  ASSUME TypeOK, NEW p \in StakingPosition, p.lastClaimTime <= now
  PROVE  calculateRewards(p) \in Nat
<1>1. getAPY(p) \in Nat
  <2>1. BasisPoints \subseteq Nat
    BY DEF BasisPoints
  <2>2. /\ apyRates.oneYearAPY \in BasisPoints
        /\ apyRates.sixMonthAPY \in BasisPoints
        /\ apyRates.threeMonthAPY \in BasisPoints
        /\ apyRates.defaultAPY \in BasisPoints
    BY DEF TypeOK, APYRates
  <2> QED BY <2>1, <2>2 DEF getAPY
<1>2. now - p.lastClaimTime \in Nat /\ p.amount \in Nat /\ p.accumulatedRewards \in Nat
  BY DEF TypeOK, StakingPosition
<1>3. p.amount * getAPY(p) * (now - p.lastClaimTime) \in Nat
  BY <1>1, <1>2, ProductNat
<1>4. ONE_YEAR * 10000 \in Nat \ {0}
  BY StorageAssumption
<1>5. (p.amount * getAPY(p) * (now - p.lastClaimTime)) \div (ONE_YEAR * 10000) \in Nat
  BY <1>3, <1>4, DivNat
<1> QED BY <1>2, <1>5 DEF calculateRewards

\* The part of them an early exit leaves is one too.
LEMMA HalfNat == ASSUME NEW r \in Nat PROVE (r * 50) \div 100 \in Nat
  OBVIOUS

-----------------------------------------------------------------------------
(* What a sweep finds is finite, and it burns no more than the balance.     *)
LEMMA WindowFinite ==
  ASSUME NEW u \in Addr, NEW depth \in Nat
  PROVE  IsFiniteSet(sweepWindow(u, depth)) /\ Cardinality(sweepWindow(u, depth)) \in Nat
<1> DEFINE D == 0 .. depth - 1
           S == {now - ONE_YEAR - i * ONE_DAY : i \in D}
           f == [i \in D |-> now - ONE_YEAR - i * ONE_DAY]
<1>1. IsFiniteSet(D)
  BY FS_Interval
<1>2. f \in Surjection(D, S)
  BY DEF Surjection
<1>3. sweepWindow(u, depth) \subseteq S
  BY DEF sweepWindow
<1> HIDE DEF S, f, D
<1>5. IsFiniteSet(S)
  BY <1>1, <1>2, FS_Surjection
<1>4. IsFiniteSet(sweepWindow(u, depth))
  BY <1>5, <1>3, FS_Subset
<1> QED BY <1>4, FS_CardinalityType

LEMMA SweepWithin ==
  ASSUME TypeOK, NEW u \in Addr, NEW depth \in Nat
  PROVE  /\ sweepBurns(u, depth) \in Nat
         /\ sweepBurns(u, depth) * HALF_SHAHI \in Nat
         /\ sweepBurns(u, depth) * HALF_SHAHI <= balance[u]
<1> DEFINE found == Cardinality(sweepWindow(u, depth))
<1>1. found \in Nat
  BY WindowFinite
<1>2. balance[u] \in Nat /\ HALF_SHAHI \in Nat \ {0}
  BY StorageAssumption DEF TypeOK
<1>3. sweepBurns(u, depth) = IF found * HALF_SHAHI <= balance[u]
                              THEN found ELSE balance[u] \div HALF_SHAHI
  BY DEF sweepBurns
<1> HIDE DEF found
<1>4. balance[u] \div HALF_SHAHI \in Nat
  BY <1>2, DivNat
<1>5. (balance[u] \div HALF_SHAHI) * HALF_SHAHI <= balance[u]
  BY <1>2, DivProduct
<1>6. sweepBurns(u, depth) \in Nat /\ sweepBurns(u, depth) * HALF_SHAHI <= balance[u]
  BY <1>1, <1>3, <1>4, <1>5
<1>7. sweepBurns(u, depth) * HALF_SHAHI \in Nat
  BY <1>2, <1>6, ProductNat
<1> QED BY <1>6, <1>7

-----------------------------------------------------------------------------
(* Crediting an account keeps a ledger a ledger and takes from nobody.      *)
LEMMA CreditLedger ==
  ASSUME NEW b \in [Addr -> Nat], NEW a \in Addr, NEW n \in Nat
  PROVE  /\ Credit(b, a, n) \in [Addr -> Nat]
         /\ \A c \in Addr : Credit(b, a, n)[c] >= b[c]
  BY DEF Credit

LEMMA DebitLedger ==
  ASSUME NEW b \in [Addr -> Nat], NEW a \in Addr, NEW n \in Nat, b[a] >= n
  PROVE  /\ Debit(b, a, n) \in [Addr -> Nat]
         /\ Debit(b, a, n)[a] = b[a] - n
         /\ \A c \in Addr \ {a} : Debit(b, a, n)[c] = b[c]
  BY DEF Debit

LEMMA MoveLedger ==
  ASSUME NEW b \in [Addr -> Nat], NEW from \in Addr, NEW to \in Addr, NEW n \in Nat,
         b[from] >= n
  PROVE  /\ Move(b, from, to, n) \in [Addr -> Nat]
         /\ \A c \in Addr \ {from} : Move(b, from, to, n)[c] >= b[c]
         /\ from # to => /\ Move(b, from, to, n)[from] = b[from] - n
                         /\ Move(b, from, to, n)[to] = b[to] + n
<1>1. Debit(b, from, n) \in [Addr -> Nat]
  BY DebitLedger
<1> QED BY <1>1, DebitLedger DEF Move, Credit, Debit

LEMMA SplitLedger ==
  ASSUME TypeOK, NEW user \in Addr
  PROVE  /\ CreditSplit(balance, user) \in [Addr -> Nat]
         /\ CreditSplit(balance, user)[This] >= balance[This]
         /\ user = This => CreditSplit(balance, user)[This] >= balance[This] + HALF_SHAHI
<1>1. HALF_SHAHI \in Nat /\ user \in Addr /\ This \in Addr /\ adminHotWallet \in Addr
  BY StorageAssumption DEF TypeOK, Addr
<1>2. balance \in [Addr -> Nat]
  BY DEF TypeOK
<1>3. /\ Credit(balance, adminHotWallet, HALF_SHAHI) \in [Addr -> Nat]
      /\ Credit(balance, adminHotWallet, HALF_SHAHI)[This] >= balance[This]
  BY <1>1, <1>2, CreditLedger
<1> DEFINE b == Credit(balance, adminHotWallet, HALF_SHAHI)
<1>4. /\ Credit(b, user, HALF_SHAHI) \in [Addr -> Nat]
      /\ Credit(b, user, HALF_SHAHI)[This] >= b[This]
      /\ user = This => Credit(b, user, HALF_SHAHI)[This] = b[This] + HALF_SHAHI
  BY <1>1, <1>3, CreditLedger DEF Credit
<1>5. b[This] \in Nat /\ balance[This] \in Nat /\ Credit(b, user, HALF_SHAHI)[This] \in Nat
  BY <1>1, <1>2, <1>3, <1>4
<1> HIDE DEF b
<1>6. CreditSplit(balance, user) = Credit(b, user, HALF_SHAHI)
  BY DEF CreditSplit, b
<1> QED BY <1>1, <1>3, <1>4, <1>5, <1>6 DEF b

-----------------------------------------------------------------------------
(* The two ways in which a step that leaves the stakes alone may add to the  *)
(* contract: it has no expiry record more, or one for half a token more.     *)
LEMMA PotInt == ASSUME LedgerInv PROVE /\ balance[This] \in Nat /\ totalStaked \in Nat
                                       /\ Cardinality(expiry[This]) \in Nat
                                       /\ HALF_SHAHI \in Nat \ {0} /\ Pot \in Int
<1>1. /\ balance[This] \in Nat /\ totalStaked \in Nat /\ HALF_SHAHI \in Nat \ {0}
      /\ Cardinality(expiry[This]) \in Nat
  BY StorageAssumption, FS_CardinalityType DEF LedgerInv, TypeOK, Addr
<1>2. HALF_SHAHI * Cardinality(expiry[This]) \in Nat
  BY <1>1, ProductNat
<1> QED BY <1>1, <1>2 DEF Pot

LEMMA StakesUntouched ==
  ASSUME LedgerInv, TypeOK', UNCHANGED <<now, stakeVars>>,
         balance'[This] >= balance[This], expiry'[This] = expiry[This],
         mintRecord'[This].hasFirstMinted = mintRecord[This].hasFirstMinted
  PROVE  LedgerInv' /\ Funds
<1>1. balance[This] \in Nat /\ balance'[This] \in Nat /\ totalStaked \in Nat
  BY StorageAssumption DEF LedgerInv, TypeOK, Addr
<1>2. PotCovers'
  BY <1>1 DEF LedgerInv, PotCovers, stakeVars
<1>3. PositionsPast' /\ IsFiniteSet(expiry'[This])
  BY DEF LedgerInv, PositionsPast, stakeVars
<1>4. LedgerInv'
  BY <1>2, <1>3 DEF LedgerInv
<1> DEFINE owed == HALF_SHAHI * Cardinality(expiry[This])
<1>5. owed \in Nat
  BY PotInt, ProductNat
<1>6. Pot = balance[This] - owed /\ Pot' = balance'[This] - owed
  BY DEF Pot
<1> HIDE DEF owed
<1>7. Pot' >= Pot
  BY <1>1, <1>5, <1>6
<1> QED BY <1>4, <1>7 DEF Funds

LEMMA ContractMinted ==
  ASSUME LedgerInv, TypeOK', UNCHANGED <<now, stakeVars>>,
         balance'[This] >= balance[This] + HALF_SHAHI, expiry'[This] = expiry[This] \cup {now},
         mintRecord'[This].hasFirstMinted = TRUE
  PROVE  LedgerInv' /\ Funds
<1>1. PositionsPast' /\ PotCovers'
  BY DEF LedgerInv, PositionsPast, PotCovers, stakeVars
<1> DEFINE c == Cardinality(expiry[This])
           d == Cardinality(expiry'[This])
<1>2. IsFiniteSet(expiry'[This]) /\ c \in Nat /\ d \in Nat /\ d <= c + 1
  <2>1. IsFiniteSet(expiry[This]) /\ expiry'[This] = expiry[This] \cup {now}
    BY DEF LedgerInv
  <2>2. /\ IsFiniteSet(expiry[This] \cup {now})
        /\ Cardinality(expiry[This] \cup {now})
             = IF now \in expiry[This] THEN Cardinality(expiry[This]) ELSE Cardinality(expiry[This]) + 1
    BY <2>1, FS_AddElement
  <2>3. Cardinality(expiry[This]) \in Nat
    BY <2>1, FS_CardinalityType
  <2> QED BY <2>1, <2>2, <2>3
<1>3. LedgerInv'
  BY <1>1, <1>2 DEF LedgerInv
<1>4. balance[This] \in Nat /\ balance'[This] \in Nat /\ HALF_SHAHI \in Nat
  BY PotInt, StorageAssumption DEF TypeOK, Addr
<1>5. Pot = balance[This] - HALF_SHAHI * c /\ Pot' = balance'[This] - HALF_SHAHI * d
  BY DEF Pot
<1> HIDE DEF c, d
<1>6. HALF_SHAHI * d <= HALF_SHAHI * c + HALF_SHAHI
  BY <1>2, <1>4
<1>7. HALF_SHAHI * d \in Nat /\ HALF_SHAHI * c \in Nat
  BY <1>2, <1>4, ProductNat
<1>8. Pot' >= Pot
  BY <1>4, <1>5, <1>6, <1>7
<1> QED BY <1>3, <1>8 DEF Funds

(* The record, the expiry table and the counters of one user's mint.        *)
LEMMA StampType ==
  ASSUME TypeOK, NEW user \in Addr, NEW n \in Nat, stampMint(user, n)
  PROVE  /\ mintRecord' \in [Addr -> MintRecord]
         /\ mintRecord'[user].hasFirstMinted = TRUE
         /\ \A a \in Addr \ {user} : mintRecord'[a] = mintRecord[a]
<1>1. mintRecord[user] \in MintRecord /\ mintRecord[user].totalMinted + n \in Nat /\ now \in Nat
  BY DEF TypeOK, MintRecord, Addr
<1> QED BY <1>1 DEF TypeOK, MintRecord, stampMint

LEMMA ExpiryType ==
  ASSUME TypeOK, NEW users \in SUBSET Addr, recordExpiry(users)
  PROVE  /\ expiry' \in [Addr -> SUBSET Nat]
         /\ expiry'[This] = IF This \in users THEN expiry[This] \cup {now} ELSE expiry[This]
  BY StorageAssumption DEF TypeOK, recordExpiry, Addr

LEMMA SplitKeepsLedger ==
  ASSUME LedgerInv, NEW user \in Addr, mintSplit(user),
         UNCHANGED <<now, adminVars, burnedTokens, stakeVars>>,
         usedProofs' \subseteq [user : Addr, device : Devices, year : Int]
  PROVE  LedgerInv' /\ Funds
<1>1. ONE_SHAHI \in Nat
  BY StorageAssumption DEF ONE_SHAHI
<1>2. /\ balance' \in [Addr -> Nat] /\ balance'[This] >= balance[This]
      /\ user = This => balance'[This] >= balance[This] + HALF_SHAHI
  BY SplitLedger DEF LedgerInv, mintSplit
<1>3. /\ mintRecord' \in [Addr -> MintRecord]
      /\ mintRecord'[user].hasFirstMinted = TRUE
      /\ \A a \in Addr \ {user} : mintRecord'[a] = mintRecord[a]
  BY <1>1, StampType DEF LedgerInv, mintSplit
<1>4. /\ expiry' \in [Addr -> SUBSET Nat]
      /\ expiry'[This] = IF user = This THEN expiry[This] \cup {now} ELSE expiry[This]
  <2>1. {user} \in SUBSET Addr /\ recordExpiry({user}) /\ TypeOK
    BY DEF LedgerInv, mintSplit
  <2>2. /\ expiry' \in [Addr -> SUBSET Nat]
        /\ expiry'[This] = IF This \in {user} THEN expiry[This] \cup {now} ELSE expiry[This]
    BY <2>1, ExpiryType
  <2> QED BY <2>2
<1>5. supply' \in Int /\ totalMintedTokens' \in Nat
  BY <1>1 DEF LedgerInv, TypeOK, mintSplit
<1>6. TypeOK' /\ This \in Addr
  BY <1>2, <1>3, <1>4, <1>5 DEF LedgerInv, TypeOK, adminVars, stakeVars, Addr
<1>7. CASE user = This
  BY <1>2, <1>3, <1>4, <1>6, <1>7, ContractMinted
<1>8. CASE user # This
  BY <1>2, <1>3, <1>4, <1>6, <1>8, StakesUntouched
<1> QED BY <1>7, <1>8

\* The keys of mints have the type of keys.
LEMMA KeyType ==
  ASSUME TypeOK, NEW user \in Addr, NEW device \in Devices
  PROVE  /\ firstKey(user, device) \in [user : Addr, device : Devices, year : Int]
         /\ annualKey(user, device) \in [user : Addr, device : Devices, year : Int]
<1>1. now \div ONE_YEAR \in Nat
  BY DivNat, StorageAssumption DEF TypeOK
<1> QED BY <1>1 DEF firstKey, annualKey

LEMMA FirstTimeMintKeepsLedger ==
  ASSUME LedgerInv, NEW user \in Addr, NEW device \in Devices, firstTimeMint(user, device)
  PROVE  LedgerInv' /\ Funds
<1>1. usedProofs' \subseteq [user : Addr, device : Devices, year : Int]
  BY KeyType DEF LedgerInv, TypeOK, firstTimeMint
<1>2. CASE mintSplit(user)
  BY <1>1, <1>2, SplitKeepsLedger DEF firstTimeMint
<1>3. CASE ~mintSplit(user)
  <2>1. /\ balance' = Credit(balance, adminHotWallet, ADMIN_INITIAL_MINT)
        /\ supply' = supply + ADMIN_INITIAL_MINT
        /\ totalMintedTokens' = totalMintedTokens + ADMIN_INITIAL_MINT
        /\ stampMint(user, ADMIN_INITIAL_MINT)
        /\ UNCHANGED <<expiry, now, adminVars, burnedTokens, stakeVars>>
    BY <1>3 DEF firstTimeMint
  <2>2. ADMIN_INITIAL_MINT \in Nat /\ adminHotWallet \in Addr /\ This \in Addr
    BY StorageAssumption DEF LedgerInv, TypeOK, Addr
  <2>3. balance' \in [Addr -> Nat] /\ balance'[This] >= balance[This]
    BY <2>1, <2>2, CreditLedger DEF LedgerInv, TypeOK
  <2>4. mintRecord' \in [Addr -> MintRecord] /\ mintRecord'[This] = mintRecord[This]
    <3>1. user # This
      BY <1>3, StorageAssumption DEF firstTimeMint
    <3> QED BY <2>1, <2>2, <3>1, StampType DEF LedgerInv
  <2>5. TypeOK'
    BY <1>1, <2>1, <2>2, <2>3, <2>4 DEF LedgerInv, TypeOK, adminVars, stakeVars
  <2> QED BY <2>1, <2>3, <2>4, <2>5, StakesUntouched
<1> QED BY <1>2, <1>3

LEMMA AnnualMintKeepsLedger ==
  ASSUME LedgerInv, NEW user \in Addr, NEW device \in Devices, NEW signer \in Users,
         annualMint(user, device, signer)
  PROVE  LedgerInv' /\ Funds
<1>1. usedProofs' \subseteq [user : Addr, device : Devices, year : Int]
  BY KeyType DEF LedgerInv, TypeOK, annualMint
<1> QED BY <1>1, SplitKeepsLedger DEF annualMint

LEMMA MintForNewUserKeepsLedger ==
  ASSUME LedgerInv, NEW caller \in Users, NEW user \in Addr, mintForNewUser(caller, user)
  PROVE  LedgerInv' /\ Funds
<1>1. usedProofs' \subseteq [user : Addr, device : Devices, year : Int]
  BY DEF LedgerInv, TypeOK, mintForNewUser
<1> QED BY <1>1, SplitKeepsLedger DEF mintForNewUser

-----------------------------------------------------------------------------
(* An array names finitely many users.                                      *)
LEMMA ElementsFinite ==
  ASSUME NEW users \in Seq(Addr)
  PROVE  /\ elements(users) \subseteq Addr
         /\ \A paid \in SUBSET elements(users) :
              Cardinality(paid) \in Nat /\ Cardinality(paid) <= Len(users)
<1> DEFINE S == elements(users)
<1>1. DOMAIN users = 1 .. Len(users) /\ Len(users) \in Nat
  OBVIOUS
<1>2. IsFiniteSet(DOMAIN users) /\ Cardinality(DOMAIN users) = Len(users)
  BY <1>1, FS_Interval
<1>3. users \in Surjection(DOMAIN users, S)
  BY DEF elements, Surjection
<1>4. IsFiniteSet(S) /\ Cardinality(S) \in Nat /\ Cardinality(S) <= Len(users)
  BY <1>2, <1>3, FS_Surjection, FS_CardinalityType
<1>5. \A paid \in SUBSET S : Cardinality(paid) \in Nat /\ Cardinality(paid) <= Cardinality(S)
  BY <1>4, FS_Subset, FS_CardinalityType
<1>6. S \subseteq Addr
  BY <1>1 DEF elements
<1> HIDE DEF S
<1>7. \A paid \in SUBSET S : Cardinality(paid) \in Nat /\ Cardinality(paid) <= Len(users)
  BY <1>1, <1>4, <1>5
<1> QED BY <1>6, <1>7 DEF S

LEMMA BatchKeepsLedger ==
  ASSUME LedgerInv, NEW users \in Batches, NEW paid \in SUBSET elements(users),
         mintBatch(users, paid)
  PROVE  LedgerInv' /\ Funds
<1> DEFINE share == Len(users) * HALF_SHAHI
           b == Credit(balance, adminHotWallet, share)
<1>1. users \in Seq(Addr) /\ Len(users) \in Nat
  BY MintingAssumption
<1>2. paid \subseteq Addr /\ Cardinality(paid) \in Nat
  BY <1>1, ElementsFinite
<1>3. HALF_SHAHI \in Nat /\ ONE_SHAHI \in Nat /\ This \in Addr /\ adminHotWallet \in Addr
  BY StorageAssumption DEF LedgerInv, TypeOK, Addr, ONE_SHAHI
<1>4. share \in Nat /\ Len(users) * ONE_SHAHI \in Nat
  BY <1>1, <1>3, ProductNat
<1>5. (Len(users) + Cardinality(paid)) * HALF_SHAHI \in Nat
  BY <1>1, <1>2, <1>3, ProductNat
<1> HIDE DEF share
<1>6. b \in [Addr -> Nat] /\ b[This] >= balance[This]
  BY <1>3, <1>4, CreditLedger DEF LedgerInv, TypeOK
<1>7. balance' = [a \in Addr |-> IF a \in paid THEN b[a] + HALF_SHAHI ELSE b[a]]
  BY DEF mintBatch, share
<1> HIDE DEF b
<1>8. /\ balance' \in [Addr -> Nat] /\ balance'[This] >= balance[This]
      /\ This \in paid => balance'[This] >= balance[This] + HALF_SHAHI
  <2>1. \A a \in Addr : b[a] \in Nat /\ b[a] + HALF_SHAHI \in Nat
    BY <1>3, <1>6
  <2>2. balance'[This] = IF This \in paid THEN b[This] + HALF_SHAHI ELSE b[This]
    BY <1>3, <1>7
  <2>3. balance[This] \in Nat
    BY PotInt
  <2> QED BY <1>3, <1>6, <1>7, <2>1, <2>2, <2>3
<1>9. mintRecord' \in [Addr -> MintRecord]
  <2>1. \A a \in Addr : mintRecord[a].totalMinted + HALF_SHAHI \in Nat
    BY <1>3 DEF LedgerInv, TypeOK, MintRecord
  <2>2. \A a \in Addr :
          [hasFirstMinted |-> TRUE, lastMintTimestamp |-> now,
           totalMinted |-> mintRecord[a].totalMinted + HALF_SHAHI] \in MintRecord
    BY <2>1 DEF LedgerInv, TypeOK, MintRecord
  <2> QED BY <2>2 DEF LedgerInv, TypeOK, mintBatch
<1>10. /\ expiry' \in [Addr -> SUBSET Nat]
       /\ expiry'[This] = IF This \in paid THEN expiry[This] \cup {now} ELSE expiry[This]
  BY <1>2, ExpiryType DEF LedgerInv, mintBatch
<1>11. supply' \in Int /\ totalMintedTokens' \in Nat
  <2>1. PICK m, t : m = (Len(users) + Cardinality(paid)) * HALF_SHAHI /\ t = Len(users) * ONE_SHAHI
    OBVIOUS
  <2>2. supply' = supply + m /\ totalMintedTokens' = totalMintedTokens + t
    BY <2>1 DEF mintBatch
  <2>3. m \in Nat /\ t \in Nat
    BY <1>4, <1>5, <2>1
  <2> QED BY <2>2, <2>3 DEF LedgerInv, TypeOK
<1>12. TypeOK' /\ UNCHANGED <<now, stakeVars>>
  BY <1>8, <1>9, <1>10, <1>11 DEF LedgerInv, TypeOK, mintBatch, adminVars, stakeVars
<1>13. /\ This \in paid => mintRecord'[This].hasFirstMinted = TRUE
       /\ This \notin paid => mintRecord'[This] = mintRecord[This]
  BY <1>3 DEF mintBatch
<1>14. CASE This \in paid
  BY <1>8, <1>10, <1>12, <1>13, <1>14, ContractMinted
<1>15. CASE This \notin paid
  BY <1>8, <1>10, <1>12, <1>13, <1>15, StakesUntouched
<1> QED BY <1>14, <1>15

LEMMA OwnerMintKeepsLedger ==
  ASSUME LedgerInv, NEW to \in Addr, NEW amount \in MintAmounts, ownerMint(to, amount)
  PROVE  LedgerInv' /\ Funds
<1>1. amount \in Nat /\ This \in Addr
  BY MintingAssumption, StorageAssumption DEF Addr
<1>2. balance' \in [Addr -> Nat] /\ balance'[This] >= balance[This]
  BY <1>1, CreditLedger DEF LedgerInv, TypeOK, ownerMint
<1>3. TypeOK' /\ UNCHANGED <<expiry, mintRecord>> /\ UNCHANGED <<now, stakeVars>>
  BY <1>1, <1>2 DEF LedgerInv, TypeOK, ownerMint, adminVars, mintVars, stakeVars
<1> QED BY <1>2, <1>3, StakesUntouched

LEMMA AdminMintBatchKeepsLedger ==
  ASSUME LedgerInv, NEW recipients \in Batches, NEW amount \in MintAmounts,
         adminMintBatch(recipients, amount)
  PROVE  LedgerInv' /\ Funds
<1> DEFINE count == [a \in Addr |-> Cardinality({i \in DOMAIN recipients : recipients[i] = a})]
<1>1. amount \in Nat /\ This \in Addr /\ recipients \in Seq(Addr) /\ Len(recipients) \in Nat
  BY MintingAssumption, StorageAssumption DEF Addr
<1>2. IsFiniteSet(DOMAIN recipients)
  BY <1>1, FS_Interval
<1>3. count \in [Addr -> Nat]
  BY <1>2, FS_Subset, FS_CardinalityType
<1>4. balance' = [a \in Addr |-> balance[a] + amount * count[a]]
  BY DEF adminMintBatch
<1> HIDE DEF count
<1>5. \A a \in Addr : amount * count[a] \in Nat
  BY <1>1, <1>3, ProductNat
<1>6. balance' \in [Addr -> Nat] /\ balance'[This] >= balance[This]
  <2>1. PICK g : g = [a \in Addr |-> amount * count[a]]
    OBVIOUS
  <2>2. \A a \in Addr : g[a] \in Nat /\ balance[a] \in Nat
    BY <1>5, <2>1 DEF LedgerInv, TypeOK
  <2>3. balance' = [a \in Addr |-> balance[a] + g[a]]
    BY <1>4, <2>1
  <2> QED BY <1>1, <2>2, <2>3
<1>7. Len(recipients) * amount \in Nat
  BY <1>1, ProductNat
<1> DEFINE total == Len(recipients) * amount
<1>8. /\ supply' = supply + total
      /\ totalMintedTokens' = totalMintedTokens + total
      /\ UNCHANGED <<now, adminVars, burnedTokens, mintVars, stakeVars>>
  BY DEF adminMintBatch
<1> HIDE DEF total
<1>9. supply' \in Int /\ totalMintedTokens' \in Nat
  BY <1>7, <1>8 DEF LedgerInv, TypeOK, total
<1>10. TypeOK'
  BY <1>6, <1>8, <1>9 DEF LedgerInv, TypeOK, adminVars, mintVars, stakeVars
<1>11. UNCHANGED <<expiry, mintRecord>> /\ UNCHANGED <<now, stakeVars>>
  BY <1>8 DEF mintVars
<1> QED BY <1>6, <1>10, <1>11, StakesUntouched

LEMMA MintingKeepsLedger ==
  ASSUME LedgerInv, MintingNext
  PROVE  LedgerInv' /\ Funds
<1>1. CASE \E user \in Addr, device \in Devices : firstTimeMint(user, device)
  BY <1>1, FirstTimeMintKeepsLedger
<1>2. CASE \E user \in Addr, signer \in Users, device \in Devices :
              annualMint(user, device, signer) \/ regularMint(user, device, signer)
  BY <1>2, AnnualMintKeepsLedger DEF regularMint
<1>3. CASE \E caller \in Users, user \in Addr : mintForNewUser(caller, user)
  BY <1>3, MintForNewUserKeepsLedger
<1>4. CASE \E users \in Batches : batchMintForNewUsers(users) \/ batchAnnualMint(users)
  BY <1>4, BatchKeepsLedger DEF batchMintForNewUsers, batchAnnualMint
<1>5. CASE \E to \in Addr, amount \in MintAmounts : adminMint(to, amount) \/ mint(to, amount)
  BY <1>5, OwnerMintKeepsLedger DEF adminMint, mint
<1>6. CASE \E recipients \in Batches, amount \in MintAmounts : adminMintBatch(recipients, amount)
  BY <1>6, AdminMintBatchKeepsLedger
<1> QED BY <1>1, <1>2, <1>3, <1>4, <1>5, <1>6 DEF MintingNext

-----------------------------------------------------------------------------
(* Replacing one position of a user keeps the positions typed.              *)
WithPosition(ps, user, id, p) == [ps EXCEPT ![user] = [ps[user] EXCEPT ![id] = p]]

LEMMA PositionReplaced ==
  ASSUME LedgerInv, NEW user \in Users, NEW id \in 1 .. Len(positions[user]),
         NEW p \in StakingPosition, p.lastClaimTime <= now,
         positions' = WithPosition(positions, user, id, p), now' = now
  PROVE  positions' \in [Addr -> Seq(StakingPosition)] /\ PositionsPast'
<1>1. user \in Addr /\ positions \in [Addr -> Seq(StakingPosition)]
  BY DEF Addr, LedgerInv, TypeOK
<1>2. positions[user] \in Seq(StakingPosition)
  BY <1>1
<1> DEFINE s == [positions[user] EXCEPT ![id] = p]
<1>3. s \in Seq(StakingPosition) /\ Len(s) = Len(positions[user])
  BY <1>2, ExceptSeq
<1>4. s[id] = p /\ \A i \in 1 .. Len(positions[user]) : i # id => s[i] = positions[user][i]
  BY <1>2
<1>5. positions' = [positions EXCEPT ![user] = s]
  BY DEF WithPosition
<1> HIDE DEF s
<1>6. positions' \in [Addr -> Seq(StakingPosition)]
  BY <1>1, <1>3, <1>5
<1>7. PositionsPast'
  <2> SUFFICES ASSUME NEW u \in Addr, NEW i \in 1 .. Len(positions'[u])
               PROVE  positions'[u][i].lastClaimTime <= now
    BY DEF PositionsPast
  <2>1. CASE u # user
    BY <1>1, <1>5, <2>1 DEF LedgerInv, PositionsPast
  <2>2. CASE u = user
    <3>1. positions'[u] = s /\ i \in 1 .. Len(positions[user])
      BY <1>1, <1>3, <1>5, <2>2
    <3> QED BY <1>1, <1>4, <3>1 DEF LedgerInv, PositionsPast
  <2> QED BY <2>1, <2>2
<1> QED BY <1>6, <1>7

LEMMA CreateStakeKeepsLedger ==
  ASSUME LedgerInv, NEW user \in Users, NEW amount \in StakeAmounts,
         NEW lockPeriod \in LockPeriods, createStake(user, amount, lockPeriod)
  PROVE  LedgerInv'
<1> DEFINE p == [amount |-> amount, startTime |-> now,
                 endTime |-> IF lockPeriod > 0 THEN now + lockPeriod ELSE 0,
                 lastClaimTime |-> now, accumulatedRewards |-> 0]
<1>1. amount \in Nat /\ lockPeriod \in Nat /\ now \in Nat
  BY StakingAssumption DEF LedgerInv, TypeOK
<1>2. user \in Addr /\ This \in Addr /\ user # This /\ balance \in [Addr -> Nat]
  BY StorageAssumption DEF LedgerInv, TypeOK, Addr
<1>3. p \in StakingPosition
  BY <1>1 DEF StakingPosition
<1>4. balance' \in [Addr -> Nat] /\ balance'[This] = balance[This] + amount
  BY <1>1, <1>2, MoveLedger DEF createStake
<1>5. positions' = [positions EXCEPT ![user] = Append(positions[user], p)]
  BY <1>2 DEF LedgerInv, TypeOK, createStake
<1>6. p.lastClaimTime = now
  OBVIOUS
<1> HIDE DEF p
<1>7. positions[user] \in Seq(StakingPosition) /\ positions \in [Addr -> Seq(StakingPosition)]
  BY <1>2 DEF LedgerInv, TypeOK
<1>8. positions' \in [Addr -> Seq(StakingPosition)]
  BY <1>2, <1>3, <1>5, <1>7
<1>9. totalStaked' \in Nat /\ (balance[This] >= totalStaked => balance'[This] >= totalStaked')
  BY <1>1, <1>2, <1>4 DEF LedgerInv, TypeOK, createStake
<1>10. TypeOK'
  BY <1>4, <1>8, <1>9
  DEF LedgerInv, TypeOK, createStake, adminVars, countVars, mintVars
<1>11. PositionsPast'
  <2> SUFFICES ASSUME NEW u \in Addr, NEW i \in 1 .. Len(positions'[u])
               PROVE  positions'[u][i].lastClaimTime <= now'
    BY DEF PositionsPast
  <2>1. now' = now
    BY DEF createStake
  <2>2. CASE u # user
    BY <1>5, <1>7, <2>1, <2>2 DEF LedgerInv, PositionsPast
  <2>3. CASE u = user
    <3>1. positions'[u] = Append(positions[user], p)
      BY <1>2, <1>5, <1>7, <2>3
    <3>2. CASE i = Len(positions[user]) + 1
      BY <1>1, <1>3, <1>6, <1>7, <2>1, <3>1, <3>2
    <3>3. CASE i # Len(positions[user]) + 1
      <4>1. i \in 1 .. Len(positions[user]) /\ positions'[u][i] = positions[user][i]
        BY <1>3, <1>7, <3>1, <3>3
      <4> QED BY <1>2, <2>1, <4>1 DEF LedgerInv, PositionsPast
    <3> QED BY <3>2, <3>3
  <2> QED BY <2>2, <2>3
<1>12. UNCHANGED <<expiry, mintRecord>>
  BY DEF createStake, mintVars
<1> QED BY <1>9, <1>10, <1>11, <1>12 DEF LedgerInv, PotCovers

LEMMA ClaimKeepsLedger ==
  ASSUME LedgerInv, NEW user \in Users, NEW id \in DOMAIN positions[user],
         claimStakingRewards(user, id)
  PROVE  LedgerInv'
<1> DEFINE q == positions[user][id]
           p == [q EXCEPT !.accumulatedRewards = 0, !.lastClaimTime = now]
           rewards == calculateRewards(q)
<1>1. user \in Addr /\ This \in Addr /\ now \in Nat /\ positions[user] \in Seq(StakingPosition)
  BY StorageAssumption DEF LedgerInv, TypeOK, Addr
<1>2. q \in StakingPosition /\ id \in 1 .. Len(positions[user])
  BY <1>1
<1>3. q.lastClaimTime <= now
  BY <1>1, <1>2 DEF LedgerInv, PositionsPast
<1>4. rewards \in Nat
  BY <1>2, <1>3, RewardsNat DEF LedgerInv
<1>5. p \in StakingPosition /\ p.lastClaimTime = now
  BY <1>1, <1>2 DEF StakingPosition
<1>6. positions' = WithPosition(positions, user, id, p)
  BY <1>1 DEF LedgerInv, TypeOK, WithPosition, claimStakingRewards
<1>7. balance' = Credit(balance, user, rewards) /\ supply' = supply + rewards
  BY DEF claimStakingRewards
<1> HIDE DEF p, q, rewards
<1>8. balance' \in [Addr -> Nat] /\ balance'[This] >= balance[This]
  BY <1>1, <1>4, <1>7, CreditLedger DEF LedgerInv, TypeOK
<1>10. UNCHANGED <<now, adminVars, countVars, mintVars, totalStaked>>
  BY DEF claimStakingRewards
<1>9. positions' \in [Addr -> Seq(StakingPosition)] /\ PositionsPast'
  <2>1. p.lastClaimTime <= now /\ now' = now
    BY <1>1, <1>5, <1>10
  <2> QED BY <1>2, <1>5, <1>6, <2>1, PositionReplaced
<1>11. TypeOK'
  <2>1. supply' \in Int
    BY <1>4, <1>7 DEF LedgerInv, TypeOK
  <2>2. balance' \in [Addr -> Nat] /\ positions' \in [Addr -> Seq(StakingPosition)]
    BY <1>8, <1>9
  <2> QED BY <1>10, <2>1, <2>2 DEF LedgerInv, TypeOK, adminVars, countVars, mintVars
<1>12. UNCHANGED <<expiry, mintRecord, totalStaked>>
  BY <1>10 DEF mintVars
<1>13. PotCovers'
  BY <1>1, <1>8, <1>12 DEF LedgerInv, TypeOK, PotCovers
<1> QED BY <1>9, <1>11, <1>12, <1>13 DEF LedgerInv

LEMMA CloseKeepsLedger ==
  ASSUME LedgerInv, NEW user \in Users, NEW id \in DOMAIN positions[user],
         NEW rewards \in Nat, closePosition(user, id, rewards)
  PROVE  LedgerInv'
<1> DEFINE q == positions[user][id]
           p == [q EXCEPT !.amount = 0, !.accumulatedRewards = 0]
           b == Credit(balance, user, rewards)
           staked == q.amount
<1>1. user \in Addr /\ This \in Addr /\ user # This /\ positions[user] \in Seq(StakingPosition)
  BY StorageAssumption DEF LedgerInv, TypeOK, Addr
<1>2. q \in StakingPosition /\ id \in 1 .. Len(positions[user])
  BY <1>1
<1>3. q.lastClaimTime <= now
  BY <1>1, <1>2 DEF LedgerInv, PositionsPast
<1>4. p \in StakingPosition /\ p.lastClaimTime = q.lastClaimTime /\ staked \in Nat
  BY <1>2 DEF StakingPosition
<1>5. /\ staked <= totalStaked
      /\ totalStaked' = totalStaked - staked
      /\ balance[This] >= staked
      /\ balance' = Move(b, This, user, staked)
      /\ supply' = supply + rewards
      /\ UNCHANGED <<now, adminVars, countVars, mintVars>>
  BY DEF closePosition
<1>12. positions' = WithPosition(positions, user, id, p)
  BY <1>1 DEF LedgerInv, TypeOK, WithPosition, closePosition
<1>6. b \in [Addr -> Nat] /\ b[This] = balance[This]
  BY <1>1, CreditLedger DEF LedgerInv, TypeOK, Credit
<1> HIDE DEF p, q, b, staked
<1>7. balance' \in [Addr -> Nat] /\ balance'[This] = balance[This] - staked
  <2>1. b[This] >= staked /\ This # user
    BY <1>1, <1>5, <1>6
  <2>2. /\ Move(b, This, user, staked) \in [Addr -> Nat]
        /\ Move(b, This, user, staked)[This] = b[This] - staked
    BY <1>1, <1>4, <1>6, <2>1, MoveLedger
  <2> QED BY <1>5, <1>6, <2>2
<1>8. positions' \in [Addr -> Seq(StakingPosition)] /\ PositionsPast'
  <2>1. p.lastClaimTime <= now /\ now' = now
    BY <1>3, <1>4, <1>5
  <2> QED BY <1>2, <1>4, <1>12, <2>1, PositionReplaced
<1>9. totalStaked' \in Nat /\ (balance[This] >= totalStaked => balance'[This] >= totalStaked')
  <2>1. totalStaked \in Nat /\ balance[This] \in Nat
    BY <1>1 DEF LedgerInv, TypeOK
  <2>2. staked <= totalStaked /\ totalStaked' = totalStaked - staked
    BY <1>5
  <2>3. balance'[This] = balance[This] - staked
    BY <1>7
  <2> QED BY <1>4, <2>1, <2>2, <2>3
<1>10. TypeOK'
  <2>1. supply' \in Int /\ UNCHANGED <<now, adminVars, countVars, mintVars>>
    BY <1>5 DEF LedgerInv, TypeOK
  <2>2. balance' \in [Addr -> Nat] /\ positions' \in [Addr -> Seq(StakingPosition)]
    BY <1>7, <1>8
  <2> QED BY <1>9, <2>1, <2>2 DEF LedgerInv, TypeOK, adminVars, countVars, mintVars
<1>11. UNCHANGED <<expiry, mintRecord>>
  BY <1>5 DEF mintVars
<1> QED BY <1>8, <1>9, <1>10, <1>11 DEF LedgerInv, PotCovers

LEMMA StakeStepKeepsLedger ==
  ASSUME LedgerInv, NEW user \in Users, NEW id \in DOMAIN positions[user], StakeStep(user, id)
  PROVE  LedgerInv'
<1>1. user \in Addr /\ positions[user] \in Seq(StakingPosition)
  BY DEF LedgerInv, TypeOK, Addr
<1>2. positions[user][id] \in StakingPosition /\ positions[user][id].lastClaimTime <= now
  BY <1>1 DEF LedgerInv, PositionsPast
<1>3. calculateRewards(positions[user][id]) \in Nat
  BY <1>2, RewardsNat DEF LedgerInv
<1>4. (calculateRewards(positions[user][id]) * 50) \div 100 \in Nat
  BY <1>3, HalfNat
<1>5. CASE claimStakingRewards(user, id)
  BY <1>5, ClaimKeepsLedger
<1>6. CASE withdrawStake(user, id)
  BY <1>3, <1>6, CloseKeepsLedger DEF withdrawStake
<1>7. CASE emergencyWithdraw(user, id)
  BY <1>3, <1>4, <1>7, CloseKeepsLedger, Zenon DEF emergencyWithdraw
<1> QED BY <1>5, <1>6, <1>7 DEF StakeStep

-----------------------------------------------------------------------------
(* Transfers and burns: the contract never sends, so it is only credited.   *)
LEMMA TransferKeepsLedger ==
  ASSUME LedgerInv, NEW from \in Users, NEW to \in Addr, NEW amount \in TransferAmounts,
         transfer(from, to, amount)
  PROVE  LedgerInv' /\ Funds
<1> DEFINE free == to = This \/ specialSender(from)
           burnt == IF free THEN 0 ELSE transferBurn(amount)
           moved == Move(balance, from, to, amount - burnt)
<1>1. /\ amount \in Nat /\ from \in Addr /\ This \in Addr /\ from # This
      /\ balance \in [Addr -> Nat]
  BY StakingAssumption, StorageAssumption DEF LedgerInv, TypeOK, Addr
<1>2. transferBurn(amount) \in 0 .. amount
  BY <1>1, BurnWithin DEF LedgerInv
<1>3. burnt \in 0 .. amount
  BY <1>1, <1>2
<1>4. /\ balance[from] >= amount - burnt
      /\ moved[from] >= burnt
      /\ balance' = Debit(moved, from, burnt)
      /\ supply' = supply - burnt
      /\ burnedTokens' = burnedTokens + burnt
      /\ UNCHANGED <<now, adminVars, totalMintedTokens, mintVars, stakeVars>>
  BY DEF transfer
<1> HIDE DEF burnt
<1>5. moved \in [Addr -> Nat] /\ moved[This] >= balance[This]
  <2>1. amount - burnt \in Nat
    BY <1>1, <1>3
  <2> QED BY <1>1, <1>4, <2>1, MoveLedger
<1> HIDE DEF moved
<1>6. burnt \in Nat
  BY <1>1, <1>3
<1>7. /\ Debit(moved, from, burnt) \in [Addr -> Nat]
      /\ Debit(moved, from, burnt)[This] = moved[This]
  BY <1>1, <1>4, <1>5, <1>6, DebitLedger
<1>8. balance' \in [Addr -> Nat] /\ balance'[This] >= balance[This]
  BY <1>1, <1>4, <1>5, <1>7
<1>9. supply' \in Int /\ burnedTokens' \in Nat
  BY <1>4, <1>6 DEF LedgerInv, TypeOK
<1>10. TypeOK'
  BY <1>4, <1>8, <1>9 DEF LedgerInv, TypeOK, adminVars, mintVars, stakeVars
<1> QED BY <1>4, <1>8, <1>10, StakesUntouched DEF mintVars

LEMMA BurnKeepsLedger ==
  ASSUME LedgerInv, NEW holder \in Users, NEW amount \in TransferAmounts, burn(holder, amount)
  PROVE  LedgerInv' /\ Funds
<1>1. /\ amount \in Nat /\ holder \in Addr /\ This \in Addr /\ holder # This
      /\ balance \in [Addr -> Nat]
  BY StakingAssumption, StorageAssumption DEF LedgerInv, TypeOK, Addr
<1>2. /\ balance[holder] >= amount
      /\ balance' = Debit(balance, holder, amount)
      /\ supply' = supply - amount
      /\ burnedTokens' = burnedTokens + amount
      /\ UNCHANGED <<now, adminVars, totalMintedTokens, mintVars, stakeVars>>
  BY DEF burn
<1>3. /\ Debit(balance, holder, amount) \in [Addr -> Nat]
      /\ Debit(balance, holder, amount)[This] = balance[This]
  BY <1>1, <1>2, DebitLedger
<1>4. balance' \in [Addr -> Nat] /\ balance'[This] >= balance[This]
  BY <1>1, <1>2, <1>3
<1>5. TypeOK'
  BY <1>1, <1>2, <1>4 DEF LedgerInv, TypeOK, adminVars, mintVars, stakeVars
<1> QED BY <1>2, <1>4, <1>5, StakesUntouched DEF mintVars

-----------------------------------------------------------------------------
(* A sweep of the contract burns no more than it finds, and deletes all it    *)
(* finds unless it takes all the contract has, which is then no more than its *)
(* own expiring tokens.                                                       *)
LEMMA ContractSwept ==
  ASSUME LedgerInv, NEW depth \in Nat
  PROVE  LET burns == sweepBurns(This, depth)
             rest  == expiry[This] \ sweepDeletes(This, depth)
         IN  /\ IsFiniteSet(rest) /\ Cardinality(rest) \in Nat
             /\ expiry[This] = {} => burns = 0 /\ rest = {}
             /\ \/ Pot <= 0
                \/ balance[This] - burns * HALF_SHAHI - HALF_SHAHI * Cardinality(rest) >= Pot
<1> DEFINE burns  == sweepBurns(This, depth)
           rest   == expiry[This] \ sweepDeletes(This, depth)
           window == sweepWindow(This, depth)
           found  == Cardinality(window)
           all    == Cardinality(expiry[This])
           half   == HALF_SHAHI
           had    == balance[This]
           left   == Cardinality(rest)
<1>1. This \in Addr /\ IsFiniteSet(expiry[This]) /\ window \subseteq expiry[This]
  BY DEF LedgerInv, Addr, sweepWindow
<1>2. IsFiniteSet(window) /\ found \in Nat /\ found <= all
  BY <1>1, FS_Subset, FS_CardinalityType
<1>3. had \in Nat /\ all \in Nat /\ half \in Nat \ {0} /\ Pot = had - half * all
  BY PotInt DEF Pot
<1>4. IsFiniteSet(rest) /\ left \in Nat
  BY <1>1, FS_Subset, FS_CardinalityType
<1>5. burns = IF found * half <= had THEN found ELSE had \div half
  BY DEF sweepBurns
<1>6. burns \in Nat /\ burns * half <= had
  BY <1>1, SweepWithin DEF LedgerInv
<1>7. expiry[This] = {} => burns = 0 /\ rest = {}
  <2> SUFFICES ASSUME expiry[This] = {} PROVE burns = 0 /\ rest = {}
    OBVIOUS
  <2>1. found = 0
    BY <1>1, FS_EmptySet
  <2> HIDE DEF found
  <2> QED BY <1>3, <1>5, <2>1
<1>8. \/ burns > 0 /\ burns * half = had
      \/ sweepDeletes(This, depth) = window
  BY DEF sweepDeletes
<1>9. sweepDeletes(This, depth) = window => left = all - found
  <2>1. Cardinality(expiry[This] \ window) = all - Cardinality(expiry[This] \cap window)
    BY <1>1, FS_Difference
  <2>2. expiry[This] \cap window = window
    BY <1>1
  <2> QED BY <2>1, <2>2
<1>13. found * half <= had => burns = found
  BY <1>5
<1>14. ~(found * half <= had) => burns <= found
  <2>1. ASSUME ~(found * half <= had) PROVE burns <= found
    <3> HIDE DEF burns, found, half, had
    <3>1. burns >= found + 1 => burns * half >= found * half + half
      <4>1. burns >= found + 1 => (found + 1) * half <= burns * half
        BY <1>2, <1>3, <1>6, ProductMonotonic
      <4>2. (found + 1) * half = found * half + half
        BY <1>2, <1>3
      <4> QED BY <4>1, <4>2
    <3>2. found * half \in Nat /\ burns * half \in Nat
      BY <1>2, <1>3, <1>6, ProductNat
    <3> QED BY <1>2, <1>3, <1>6, <2>1, <3>1, <3>2
  <2> QED BY <2>1
<1> HIDE DEF burns, rest, window, found, all, half, had, left
<1>10. burns <= found
  BY <1>2, <1>6, <1>13, <1>14
<1>11. CASE burns * half = had
  <2>1. burns * half <= all * half
    BY <1>2, <1>3, <1>6, <1>10
  <2>2. Pot <= 0
    BY <1>2, <1>3, <1>6, <1>11, <2>1
  <2> QED BY <1>4, <1>7, <2>2 DEF burns, rest, left, half, had
<1>12. CASE left = all - found
  <2>1. half * left = half * all - half * found /\ burns * half <= half * found
    BY <1>2, <1>3, <1>4, <1>6, <1>10, <1>12
  <2>2. half * left \in Int /\ half * all \in Int /\ half * found \in Int /\ burns * half \in Int
    BY <1>2, <1>3, <1>4, <1>6
  <2>3. had - burns * half - half * left >= Pot
    BY <1>3, <2>1, <2>2
  <2> QED BY <1>4, <1>7, <2>3 DEF burns, rest, left, half, had
<1> QED BY <1>8, <1>9, <1>11, <1>12

LEMMA SweepKeepsLedger ==
  ASSUME LedgerInv, NEW users \in SUBSET Addr, NEW depth \in Nat, NEW total \in Nat,
         sweep(users, depth, total)
  PROVE  LedgerInv' /\ Funds
<1>1. This \in Addr /\ HALF_SHAHI \in Nat \ {0} /\ balance \in [Addr -> Nat]
  BY StorageAssumption DEF LedgerInv, TypeOK, Addr
<1>2. \A a \in Addr : /\ sweepBurns(a, depth) \in Nat
                      /\ sweepBurns(a, depth) * HALF_SHAHI \in Nat
                      /\ sweepBurns(a, depth) * HALF_SHAHI <= balance[a]
  BY SweepWithin DEF LedgerInv
<1> DEFINE take == [a \in Addr |-> sweepBurns(a, depth) * HALF_SHAHI]
<1>3. take[This] = sweepBurns(This, depth) * HALF_SHAHI
      /\ \A a \in Addr : take[a] \in Nat /\ take[a] <= balance[a]
  BY <1>1, <1>2
<1>4. balance' = [a \in Addr |-> IF a \in swept(users) THEN balance[a] - take[a] ELSE balance[a]]
  BY DEF sweep
<1> HIDE DEF take
<1>5. balance' \in [Addr -> Nat]
  BY <1>1, <1>3, <1>4
<1>6. expiry' \in [Addr -> SUBSET Nat]
  BY DEF LedgerInv, TypeOK, sweep
<1>7. TypeOK' /\ UNCHANGED <<now, stakeVars, mintRecord>>
  BY <1>5, <1>6 DEF LedgerInv, TypeOK, sweep, adminVars, stakeVars
<1>8. CASE This \notin swept(users)
  <2>1. balance'[This] = balance[This] /\ expiry'[This] = expiry[This] /\ balance[This] \in Nat
    BY <1>1, <1>4, <1>8 DEF sweep
  <2> QED BY <1>7, <2>1, StakesUntouched
<1>9. CASE This \in swept(users)
  <2> DEFINE burns == sweepBurns(This, depth)
             rest  == expiry[This] \ sweepDeletes(This, depth)
  <2>1. expiry'[This] = rest /\ balance'[This] = balance[This] - burns * HALF_SHAHI
    BY <1>1, <1>3, <1>4, <1>9 DEF sweep
  <2>2. IsFiniteSet(rest) /\ (expiry[This] = {} => burns = 0 /\ rest = {})
    BY ContractSwept
  <2>3. Pot' >= Pot \/ Pot <= 0
    BY <2>1, ContractSwept DEF Pot
  <2>4. PositionsPast'
    BY <1>7 DEF LedgerInv, PositionsPast, stakeVars
  <2>5. PotCovers'
    <3>1. ~mintRecord[This].hasFirstMinted => balance'[This] = balance[This] /\ expiry'[This] = {}
      BY <1>1, <2>1, <2>2 DEF LedgerInv, PotCovers
    <3> QED BY <1>7, <3>1 DEF LedgerInv, PotCovers, stakeVars
  <2> QED BY <1>7, <2>1, <2>2, <2>3, <2>4, <2>5 DEF LedgerInv, Funds
<1> QED BY <1>8, <1>9

LEMMA StakingKeepsLedger ==
  ASSUME LedgerInv, StakingNext
  PROVE  LedgerInv'
<1>1. CASE \E user \in Users, amount \in StakeAmounts, lockPeriod \in LockPeriods :
              createStake(user, amount, lockPeriod)
  BY <1>1, CreateStakeKeepsLedger
<1>2. CASE \E user \in Users : \E id \in DOMAIN positions[user] : StakeStep(user, id)
  BY <1>2, StakeStepKeepsLedger
<1>3. CASE \E from \in Users, to \in Addr, amount \in TransferAmounts : transfer(from, to, amount)
  BY <1>3, TransferKeepsLedger
<1>4. CASE \E holder \in Users, amount \in TransferAmounts : burn(holder, amount)
  BY <1>4, BurnKeepsLedger
<1>5. CASE \E user \in Addr : burnExpiredTokens(user)
  <2> PICK user \in Addr : burnExpiredTokens(user)
    BY <1>5
  <2>1. sweepBurns(user, LookBack) * HALF_SHAHI \in Nat
    BY SweepWithin, StakingAssumption DEF LedgerInv
  <2>2. PICK total \in Nat : sweep({user}, LookBack, total)
    BY <2>1 DEF burnExpiredTokens
  <2> QED BY <2>2, SweepKeepsLedger, StakingAssumption
<1>6. CASE \E users \in SUBSET Addr : batchBurnExpiredTokens(users)
  <2> PICK users \in SUBSET Addr : batchBurnExpiredTokens(users)
    BY <1>6
  <2>1. PICK total \in 0 .. supply : sweep(users, BatchLookBack, total)
    BY DEF batchBurnExpiredTokens
  <2>2. total \in Nat
    BY DEF LedgerInv, TypeOK
  <2> QED BY <2>1, <2>2, SweepKeepsLedger, StakingAssumption
<1> QED BY <1>1, <1>2, <1>3, <1>4, <1>5, <1>6 DEF StakingNext

-----------------------------------------------------------------------------
(* The owner's settings and the clock.                                      *)
LEMMA AdminKeepsLedger ==
  ASSUME LedgerInv, AdminNext
  PROVE  LedgerInv' /\ Funds
<1>1. UNCHANGED <<now, ledgerVars, countVars, mintVars, stakeVars>>
  BY DEF AdminNext
<1>2. /\ paused' \in BOOLEAN
      /\ userFlags' \in [Addr -> SUBSET Flags]
      /\ adminHotWallet' \in Addr
      /\ apyRates' \in APYRates
      /\ transactionBurnRate' \in 0 .. 1000
      /\ merkleRoot' \in SUBSET Addr
  <2>1. CASE \E rate \in BurnRates : setTransactionBurnRate(rate)
    BY <2>1, CoinAssumption DEF LedgerInv, TypeOK, setTransactionBurnRate
  <2>2. CASE \E wallet \in AdminWallets : setAdminHotWallet(wallet)
    BY <2>2, CoinAssumption DEF LedgerInv, TypeOK, setAdminHotWallet
  <2>3. CASE \E tree \in MerkleTrees : setMerkleRoot(tree)
    BY <2>3, CoinAssumption DEF LedgerInv, TypeOK, setMerkleRoot
  <2>4. CASE \E choice \in FlagChoices, value \in BOOLEAN : setFlag(choice[1], choice[2], value)
    BY <2>4, CoinAssumption DEF LedgerInv, TypeOK, setFlag, setBit
  <2>5. CASE \E tiers \in APYChoices : updateAPYTiers(tiers)
    BY <2>5, APYAssumption DEF LedgerInv, TypeOK, updateAPYTiers
  <2>6. CASE setPaused
    BY <2>6 DEF LedgerInv, TypeOK, setPaused, pause, unpause
  <2> QED BY <2>1, <2>2, <2>3, <2>4, <2>5, <2>6 DEF AdminNext
<1>3. TypeOK'
  BY <1>1, <1>2 DEF LedgerInv, TypeOK, ledgerVars, countVars, mintVars, stakeVars
<1>4. balance' = balance /\ UNCHANGED <<expiry, mintRecord>> /\ balance[This] \in Nat
  BY <1>1, StorageAssumption DEF LedgerInv, TypeOK, Addr, ledgerVars, mintVars
<1> QED BY <1>1, <1>3, <1>4, StakesUntouched

LEMMA ClockKeepsLedger ==
  ASSUME LedgerInv, AdvanceTime
  PROVE  LedgerInv'
<1>1. now' \in Nat /\ now <= now'
  BY CoinAssumption DEF LedgerInv, TypeOK, AdvanceTime
<1>2. UNCHANGED <<ledgerVars, adminVars, countVars, mintVars, stakeVars>>
  BY DEF AdvanceTime
<1>3. TypeOK'
  BY <1>1, <1>2 DEF LedgerInv, TypeOK, ledgerVars, adminVars, countVars, mintVars, stakeVars
<1>4. PositionsPast'
  <2>1. \A u \in Addr : \A i \in 1 .. Len(positions[u]) : positions[u][i].lastClaimTime \in Nat
    <3>1. \A u \in Addr : positions[u] \in Seq(StakingPosition)
      BY DEF LedgerInv, TypeOK
    <3>2. \A u \in Addr : \A i \in 1 .. Len(positions[u]) : positions[u][i] \in StakingPosition
      BY <3>1
    <3> QED BY <3>2 DEF StakingPosition
  <2> QED BY <1>1, <1>2, <2>1 DEF LedgerInv, TypeOK, PositionsPast, stakeVars
<1> QED BY <1>2, <1>3, <1>4
        DEF LedgerInv, PotCovers, ledgerVars, mintVars, stakeVars

LEMMA InitLedger == initialize => LedgerInv
<1> SUFFICES ASSUME initialize PROVE LedgerInv
  OBVIOUS
<1>1. /\ InitialTokens \in Nat /\ InitialAdminWallet \in Addr /\ This \in Addr /\ Owner # This
      /\ NoMint \in MintRecord
  BY StorageAssumption DEF Addr, NoMint, MintRecord
<1>2. apyRates \in APYRates
  BY DEF initialize, StorageInit, APYRates, BasisPoints
<1>3. TypeOK
  <2>1. /\ balance \in [Addr -> Nat]
        /\ mintRecord \in [Addr -> MintRecord]
        /\ expiry \in [Addr -> SUBSET Nat]
        /\ userFlags \in [Addr -> SUBSET Flags]
    BY <1>1 DEF initialize, StorageInit
  <2>2. positions \in [Addr -> Seq(StakingPosition)]
    BY DEF initialize, StorageInit
  <2>3. /\ now \in Nat /\ supply \in Int /\ adminHotWallet \in Addr
        /\ transactionBurnRate \in 0 .. 1000 /\ merkleRoot \in SUBSET Addr
        /\ totalMintedTokens \in Nat /\ burnedTokens \in Nat /\ totalStaked \in Nat
        /\ usedProofs = {}
    BY <1>1 DEF initialize, StorageInit
  <2>4. paused \in BOOLEAN
    BY DEF initialize, StorageInit
  <2> QED BY <1>2, <2>1, <2>2, <2>3, <2>4 DEF TypeOK
<1>4. PotCovers /\ IsFiniteSet(expiry[This])
  BY <1>1, FS_EmptySet DEF initialize, StorageInit, PotCovers
<1>5. PositionsPast
  BY DEF initialize, StorageInit, PositionsPast
<1> QED BY <1>3, <1>4, <1>5 DEF LedgerInv

LEMMA StepLedger == LedgerInv /\ [Next]_storageVars => LedgerInv'
<1> SUFFICES ASSUME LedgerInv, [Next]_storageVars PROVE LedgerInv'
  OBVIOUS
<1>1. CASE MintingNext
  BY <1>1, MintingKeepsLedger
<1>2. CASE StakingNext
  BY <1>2, StakingKeepsLedger
<1>3. CASE AdminNext
  BY <1>3, AdminKeepsLedger
<1>4. CASE AdvanceTime
  BY <1>4, ClockKeepsLedger
<1>5. CASE UNCHANGED storageVars
  BY <1>5
  DEF LedgerInv, TypeOK, PositionsPast, PotCovers,
      storageVars, ledgerVars, adminVars, countVars, mintVars, stakeVars
<1> QED BY <1>1, <1>2, <1>3, <1>4, <1>5 DEF Next

\* The inductive invariant of the ledger holds in every reachable state.
THEOREM LedgerInvariant == Spec => []LedgerInv
<1>1. initialize => LedgerInv
  BY InitLedger
<1>2. LedgerInv /\ [Next]_storageVars => LedgerInv'
  BY StepLedger
<1> QED BY <1>1, <1>2, PTL DEF Spec

(* Every reachable state of the contract is well typed: no balance, counter *)
(* or stake goes below zero and no rate leaves its range, whatever the      *)
(* amounts, periods and bounds are.                                         *)
THEOREM TypeCorrect == Spec => []TypeOK
<1>1. LedgerInv => TypeOK
  BY DEF LedgerInv
<1> QED BY <1>1, LedgerInvariant, PTL

-----------------------------------------------------------------------------
(* The history of mints.  Every minting operation stamps the users it pays,  *)
(* each of whom has not minted or has waited the year; every other step      *)
(* leaves the records and keys alone and only removes expiry records.        *)
LEMMA MintStamps ==
  ASSUME TypeOK, MintHistory, NEW paid \in SUBSET Addr,
         \A u \in paid : ~mintRecord[u].hasFirstMinted \/ cooldownOver(u),
         \A u \in paid : /\ mintRecord'[u].hasFirstMinted = TRUE
                        /\ mintRecord'[u].lastMintTimestamp = now,
         \A a \in Addr \ paid : mintRecord'[a] = mintRecord[a],
         \A u \in paid : expiry'[u] \subseteq expiry[u] \cup {now},
         \A a \in Addr \ paid : expiry'[a] = expiry[a],
         \A key \in usedProofs' :
           key \in usedProofs \/ (key.user \in paid /\ key.year * ONE_YEAR <= now),
         now' = now
  PROVE  MintHistory'
<1>1. now \in Nat /\ ONE_YEAR \in Nat \ {0} /\ Users \subseteq Addr
  BY StorageAssumption DEF TypeOK, Addr
<1>2. \A a \in Addr : mintRecord[a].lastMintTimestamp \in Nat /\ expiry[a] \subseteq Nat
  BY DEF TypeOK, MintRecord
<1>3. RecordsPast'
  BY <1>1, <1>2 DEF MintHistory, RecordsPast
<1>4. MintsAYearApart'
  <2> SUFFICES ASSUME NEW u \in Addr, NEW t \in expiry'[u]
               PROVE  /\ t <= mintRecord'[u].lastMintTimestamp
                      /\ mintRecord'[u].hasFirstMinted
                      /\ \A s \in expiry'[u] : s < t => s + ONE_YEAR <= t
    BY DEF MintsAYearApart
  <2>1. CASE u \notin paid
    BY <1>1, <2>1 DEF MintHistory, MintsAYearApart
  <2>2. CASE u \in paid
    <3>1. \A s \in expiry[u] : s \in Nat /\ s + ONE_YEAR <= now
      BY <1>1, <1>2, <2>2 DEF MintHistory, MintsAYearApart, cooldownOver
    <3>2. \A s \in expiry'[u] : s \in Nat /\ (s = now \/ s \in expiry[u])
      BY <1>1, <2>2, <3>1
    <3>3. t <= now
      BY <1>1, <3>1, <3>2
    <3>4. \A s \in expiry'[u] : s < t => s + ONE_YEAR <= t
      <4> SUFFICES ASSUME NEW s \in expiry'[u], s < t PROVE s + ONE_YEAR <= t
        OBVIOUS
      <4>1. s \in expiry[u]
        BY <1>1, <3>2, <3>3
      <4>2. CASE t = now
        BY <3>1, <4>1, <4>2
      <4>3. CASE t \in expiry[u]
        BY <1>1, <4>1, <4>3 DEF MintHistory, MintsAYearApart
      <4> QED BY <3>2, <4>2, <4>3
    <3> QED BY <2>2, <3>3, <3>4
  <2> QED BY <2>1, <2>2
<1>5. KeysBehindRecords'
  <2> SUFFICES ASSUME NEW key \in usedProofs'
               PROVE  key.year * ONE_YEAR <= mintRecord'[key.user].lastMintTimestamp
    BY DEF KeysBehindRecords
  <2>1. CASE key.user \in paid /\ key.year * ONE_YEAR <= now
    BY <2>1
  <2>2. CASE key \in usedProofs
    <3>1. key.user \in Addr /\ key.year \in Int
      BY <1>1, <2>2 DEF TypeOK
    <3>2. key.year * ONE_YEAR <= mintRecord[key.user].lastMintTimestamp
      BY <2>2 DEF MintHistory, KeysBehindRecords
    <3>3. mintRecord[key.user].lastMintTimestamp <= mintRecord'[key.user].lastMintTimestamp
      BY <1>1, <1>2, <3>1 DEF MintHistory, RecordsPast
    <3>4. key.year * ONE_YEAR \in Int
      BY <1>1, <3>1
    <3>5. mintRecord'[key.user].lastMintTimestamp \in Nat
      BY <1>1, <1>2, <3>1
    <3> QED BY <1>2, <3>1, <3>2, <3>3, <3>4, <3>5
  <2> QED BY <2>1, <2>2
<1> QED BY <1>3, <1>4, <1>5 DEF MintHistory

LEMMA HistoryUntouched ==
  ASSUME TypeOK, MintHistory, UNCHANGED <<mintRecord, usedProofs>>,
         \A a \in Addr : expiry'[a] \subseteq expiry[a], now' \in Nat, now <= now'
  PROVE  MintHistory'
<1>1. now \in Nat /\ Users \subseteq Addr
  BY DEF TypeOK, Addr
<1>2. \A a \in Addr : mintRecord[a].lastMintTimestamp \in Nat
  BY DEF TypeOK, MintRecord
<1>3. RecordsPast'
  BY <1>1, <1>2 DEF MintHistory, RecordsPast
<1>4. MintsAYearApart'
  BY <1>1 DEF MintHistory, MintsAYearApart
<1>5. KeysBehindRecords'
  BY DEF MintHistory, KeysBehindRecords
<1> QED BY <1>3, <1>4, <1>5 DEF MintHistory

\* Stamping one user's record changes that record only.
LEMMA StampOne ==
  ASSUME TypeOK, NEW user \in Addr, NEW n \in Nat, stampMint(user, n)
  PROVE  /\ mintRecord'[user].hasFirstMinted = TRUE
         /\ mintRecord'[user].lastMintTimestamp = now
         /\ \A a \in Addr \ {user} : mintRecord'[a] = mintRecord[a]
  BY DEF stampMint, TypeOK, Addr

\* The year of a replay key has begun.
LEMMA KeyYear ==
  ASSUME TypeOK, NEW user \in Addr, NEW device \in Devices
  PROVE  /\ firstKey(user, device).user = user
         /\ annualKey(user, device).user = user
         /\ firstKey(user, device).year * ONE_YEAR <= now
         /\ annualKey(user, device).year * ONE_YEAR <= now
<1>1. now \in Nat /\ ONE_YEAR \in Nat \ {0}
  BY StorageAssumption DEF TypeOK
<1>2. (now \div ONE_YEAR) * ONE_YEAR <= now
  BY <1>1, DivProduct
<1>3. (-1) * ONE_YEAR <= now
  BY <1>1
<1> QED BY <1>2, <1>3 DEF firstKey, annualKey

LEMMA SplitKeepsHistory ==
  ASSUME TypeOK, MintHistory, NEW user \in Addr, mintSplit(user),
         ~mintRecord[user].hasFirstMinted \/ cooldownOver(user), now' = now,
         \A key \in usedProofs' :
           key \in usedProofs \/ (key.user = user /\ key.year * ONE_YEAR <= now)
  PROVE  MintHistory'
<1>1. ONE_SHAHI \in Nat
  BY StorageAssumption DEF ONE_SHAHI
<1>2. /\ mintRecord'[user].hasFirstMinted = TRUE
      /\ mintRecord'[user].lastMintTimestamp = now
      /\ \A a \in Addr \ {user} : mintRecord'[a] = mintRecord[a]
  BY <1>1, StampOne DEF mintSplit
<1>3. user \in Addr /\ {user} \in SUBSET Addr
  BY DEF Addr
<1>4. /\ expiry'[user] \subseteq expiry[user] \cup {now}
      /\ \A a \in Addr \ {user} : expiry'[a] = expiry[a]
  BY <1>3 DEF mintSplit, recordExpiry
<1> QED BY <1>2, <1>3, <1>4, MintStamps

LEMMA FirstTimeMintKeepsHistory ==
  ASSUME TypeOK, MintHistory, NEW user \in Addr, NEW device \in Devices,
         firstTimeMint(user, device)
  PROVE  MintHistory'
<1>1. /\ now' = now
      /\ ~mintRecord[user].hasFirstMinted
      /\ \A key \in usedProofs' :
            key \in usedProofs \/ (key.user = user /\ key.year * ONE_YEAR <= now)
  BY KeyYear DEF firstTimeMint
<1>2. CASE mintSplit(user)
  BY <1>1, <1>2, SplitKeepsHistory
<1>3. CASE ~mintSplit(user)
  <2>1. stampMint(user, ADMIN_INITIAL_MINT) /\ expiry' = expiry
    BY <1>3 DEF firstTimeMint
  <2>2. /\ mintRecord'[user].hasFirstMinted = TRUE
        /\ mintRecord'[user].lastMintTimestamp = now
        /\ \A a \in Addr \ {user} : mintRecord'[a] = mintRecord[a]
    BY <2>1, StampOne, StorageAssumption
  <2>3. {user} \in SUBSET Addr
    OBVIOUS
  <2> QED BY <1>1, <2>1, <2>2, <2>3, MintStamps
<1> QED BY <1>2, <1>3

LEMMA AnnualMintKeepsHistory ==
  ASSUME TypeOK, MintHistory, NEW user \in Addr, NEW device \in Devices, NEW signer \in Users,
         annualMint(user, device, signer)
  PROVE  MintHistory'
<1>1. /\ now' = now
      /\ cooldownOver(user)
      /\ \A key \in usedProofs' :
            key \in usedProofs \/ (key.user = user /\ key.year * ONE_YEAR <= now)
  BY KeyYear DEF annualMint
<1> QED BY <1>1, SplitKeepsHistory DEF annualMint

LEMMA BatchKeepsHistory ==
  ASSUME TypeOK, MintHistory, NEW users \in Batches, NEW paid \in SUBSET elements(users),
         \A u \in paid : ~mintRecord[u].hasFirstMinted \/ cooldownOver(u),
         mintBatch(users, paid)
  PROVE  MintHistory'
<1>1. paid \in SUBSET Addr /\ paid \subseteq Addr
  BY ElementsFinite, MintingAssumption DEF Addr
<1>2. /\ \A u \in paid : /\ mintRecord'[u].hasFirstMinted = TRUE
                         /\ mintRecord'[u].lastMintTimestamp = now
      /\ \A a \in Addr \ paid : mintRecord'[a] = mintRecord[a]
  BY <1>1 DEF mintBatch
<1>3. /\ \A u \in paid : expiry'[u] \subseteq expiry[u] \cup {now}
      /\ \A a \in Addr \ paid : expiry'[a] = expiry[a]
  BY <1>1 DEF mintBatch, recordExpiry
<1>4. now' = now /\ usedProofs' = usedProofs
  BY DEF mintBatch
<1> QED BY <1>1, <1>2, <1>3, <1>4, MintStamps

LEMMA MintingKeepsHistory ==
  ASSUME TypeOK, MintHistory, MintingNext
  PROVE  MintHistory'
<1>1. CASE \E user \in Addr, device \in Devices : firstTimeMint(user, device)
  BY <1>1, FirstTimeMintKeepsHistory
<1>2. CASE \E user \in Addr, signer \in Users, device \in Devices :
              annualMint(user, device, signer) \/ regularMint(user, device, signer)
  BY <1>2, AnnualMintKeepsHistory DEF regularMint
<1>3. CASE \E caller \in Users, user \in Addr : mintForNewUser(caller, user)
  <2> PICK caller \in Users, user \in Addr : mintForNewUser(caller, user)
    BY <1>3
  <2> QED BY SplitKeepsHistory DEF mintForNewUser
<1>4. CASE \E users \in Batches : batchMintForNewUsers(users) \/ batchAnnualMint(users)
  BY <1>4, BatchKeepsHistory DEF batchMintForNewUsers, batchAnnualMint
<1>5. CASE \E to \in Addr, amount \in MintAmounts : adminMint(to, amount) \/ mint(to, amount)
  <2>1. UNCHANGED <<now, mintVars>>
    BY <1>5 DEF adminMint, mint, ownerMint
  <2> QED BY <2>1, HistoryUntouched DEF TypeOK, mintVars
<1>6. CASE \E recipients \in Batches, amount \in MintAmounts : adminMintBatch(recipients, amount)
  <2>1. UNCHANGED <<now, mintVars>>
    BY <1>6 DEF adminMintBatch
  <2> QED BY <2>1, HistoryUntouched DEF TypeOK, mintVars
<1> QED BY <1>1, <1>2, <1>3, <1>4, <1>5, <1>6 DEF MintingNext

LEMMA StakingKeepsHistory ==
  ASSUME TypeOK, MintHistory, StakingNext
  PROVE  MintHistory'
<1>1. /\ UNCHANGED <<now, mintRecord, usedProofs>>
      /\ \A a \in Addr : expiry'[a] \subseteq expiry[a]
  <2>1. UNCHANGED <<now, mintVars>> =>
          /\ UNCHANGED <<now, mintRecord, usedProofs>>
          /\ \A a \in Addr : expiry'[a] \subseteq expiry[a]
    BY DEF mintVars
  <2>5. CASE \E user \in Users, amount \in StakeAmounts, lockPeriod \in LockPeriods :
                createStake(user, amount, lockPeriod)
    BY <2>1, <2>5 DEF createStake
  <2>6. CASE \E user \in Users : \E id \in DOMAIN positions[user] : StakeStep(user, id)
    <3> PICK user \in Users : \E id \in DOMAIN positions[user] : StakeStep(user, id)
      BY <2>6
    <3> PICK id \in DOMAIN positions[user] : StakeStep(user, id)
      OBVIOUS
    <3>1. claimStakingRewards(user, id) => UNCHANGED <<now, mintVars>>
      BY DEF claimStakingRewards
    <3>2. \A rewards : closePosition(user, id, rewards) => UNCHANGED <<now, mintVars>>
      BY DEF closePosition
    <3>3. withdrawStake(user, id) \/ emergencyWithdraw(user, id) => UNCHANGED <<now, mintVars>>
      BY <3>2, Zenon DEF withdrawStake, emergencyWithdraw
    <3> QED BY <2>1, <3>1, <3>3 DEF StakeStep
  <2>7. CASE \E from \in Users, to \in Addr, amount \in TransferAmounts :
                transfer(from, to, amount)
    BY <2>1, <2>7 DEF transfer
  <2>8. CASE \E holder \in Users, amount \in TransferAmounts : burn(holder, amount)
    BY <2>1, <2>8 DEF burn
  <2>2. CASE \E users \in SUBSET Addr, depth \in Nat : \E total : sweep(users, depth, total)
    BY <2>2 DEF sweep, TypeOK
  <2>3. CASE \E user \in Addr : burnExpiredTokens(user)
    <3> PICK user \in Addr : burnExpiredTokens(user)
      BY <2>3
    <3>1. \E total : sweep({user}, LookBack, total)
      BY DEF burnExpiredTokens
    <3> QED BY <2>2, <3>1, StakingAssumption
  <2>4. CASE \E users \in SUBSET Addr : batchBurnExpiredTokens(users)
    BY <2>2, <2>4, StakingAssumption DEF batchBurnExpiredTokens
  <2> QED BY <2>3, <2>4, <2>5, <2>6, <2>7, <2>8 DEF StakingNext
<1> QED BY <1>1, HistoryUntouched DEF TypeOK

LEMMA StepHistory == TypeOK /\ MintHistory /\ [Next]_storageVars => MintHistory'
<1> SUFFICES ASSUME TypeOK, MintHistory, [Next]_storageVars PROVE MintHistory'
  OBVIOUS
<1>1. CASE MintingNext
  BY <1>1, MintingKeepsHistory
<1>2. CASE StakingNext
  BY <1>2, StakingKeepsHistory
<1>3. CASE AdminNext
  BY <1>3, HistoryUntouched DEF AdminNext, TypeOK, mintVars
<1>4. CASE AdvanceTime
  BY <1>4, HistoryUntouched, CoinAssumption DEF AdvanceTime, TypeOK, mintVars
<1>5. CASE UNCHANGED storageVars
  BY <1>5, HistoryUntouched DEF storageVars, TypeOK, mintVars
<1> QED BY <1>1, <1>2, <1>3, <1>4, <1>5 DEF Next

LEMMA InitHistory == initialize => MintHistory
  BY DEF initialize, StorageInit, NoMint, MintHistory, RecordsPast, MintsAYearApart,
         KeysBehindRecords, Addr

(* No mint record, expiry record or replay key is younger than the last mint *)
(* it belongs to, whichever operation minted.                                *)
THEOREM MintHistoryInvariant == Spec => []MintHistory
<1>1. initialize => MintHistory
  BY InitHistory
<1>2. TypeOK /\ MintHistory /\ [Next]_storageVars => MintHistory'
  BY StepHistory
<1> QED BY <1>1, <1>2, TypeCorrect, PTL DEF Spec

(* Whatever mix of single, service and batch mints pays a user, the mints    *)
(* that expire are a year apart.                                             *)
THEOREM MintsStayAYearApart == Spec => []MintsAYearApart
<1>1. MintHistory => MintsAYearApart
  BY DEF MintHistory
<1> QED BY <1>1, MintHistoryInvariant, PTL

(* A user whose cooldown is over is never refused by the replay key of the   *)
(* annual mint, wherever the calendar year falls.                            *)
THEOREM AnnualKeysStayFresh == Spec => []AnnualKeyFresh
<1>1. TypeOK /\ MintHistory => AnnualKeyFresh
  <2> SUFFICES ASSUME TypeOK, MintHistory, NEW u \in Addr, NEW device \in Devices,
                      cooldownOver(u), annualKey(u, device) \in usedProofs
               PROVE  FALSE
    BY DEF AnnualKeyFresh
  <2> DEFINE year == now \div ONE_YEAR
             last == mintRecord[u].lastMintTimestamp
  <2>1. now \in Nat /\ ONE_YEAR \in Nat \ {0} /\ last \in Nat
    BY StorageAssumption DEF TypeOK, MintRecord, Addr
  <2>2. year \in Nat /\ now < year * ONE_YEAR + ONE_YEAR
    BY <2>1, DivNat, DivProduct
  <2>3. year * ONE_YEAR <= last
    BY DEF MintHistory, KeysBehindRecords, annualKey
  <2>4. last + ONE_YEAR <= now
    BY <2>1 DEF cooldownOver
  <2>5. year * ONE_YEAR \in Nat
    BY <2>1, <2>2, ProductNat
  <2> HIDE DEF year, last
  <2> QED BY <2>1, <2>2, <2>3, <2>4, <2>5
<1> QED BY <1>1, TypeCorrect, MintHistoryInvariant, PTL

-----------------------------------------------------------------------------
(* The contract implements the escrow that staking promises: every step of  *)
(* the contract is a deposit, a return, a funding of the pot, or nothing    *)
(* at all for it.                                                           *)

\* The amounts of a user's positions, and what the escrow holds for everyone.
Amounts(s) == [i \in DOMAIN s |-> s[i].amount]

Held == [a \in Addr |-> Amounts(positions[a])]

EscrowStep == [Escrow!EscrowNext]_(Escrow!escrowVars)

-----------------------------------------------------------------------------
LEMMA AmountsSeq ==
  ASSUME NEW s \in Seq(StakingPosition)
  PROVE  Amounts(s) \in Seq(Nat) /\ Len(Amounts(s)) = Len(s)
<1>1. DOMAIN s = 1 .. Len(s) /\ Len(s) \in Nat
  OBVIOUS
<1>2. \A i \in 1 .. Len(s) : s[i].amount \in Nat
  <2>1. \A i \in 1 .. Len(s) : s[i] \in StakingPosition
    OBVIOUS
  <2> QED BY <2>1 DEF StakingPosition
<1>3. Amounts(s) \in [1 .. Len(s) -> Nat]
  BY <1>1, <1>2 DEF Amounts
<1> QED BY <1>1, <1>3, SeqDef, LenProperties

LEMMA AmountsAppend ==
  ASSUME NEW s \in Seq(StakingPosition), NEW p \in StakingPosition
  PROVE  Amounts(Append(s, p)) = Append(Amounts(s), p.amount)
<1>1. Append(s, p) \in Seq(StakingPosition) /\ Len(Append(s, p)) = Len(s) + 1
  OBVIOUS
<1>2. p.amount \in Nat
  BY DEF StakingPosition
<1> DEFINE l == Amounts(Append(s, p))
           r == Append(Amounts(s), p.amount)
<1> DEFINE a == Amounts(s)
           m == p.amount
<1>5. a \in Seq(Nat) /\ Len(a) = Len(s) /\ Len(s) \in Nat
  BY AmountsSeq
<1>6. \A i \in 1 .. Len(s) : a[i] = s[i].amount
  BY DEF Amounts
<1>7. l \in Seq(Nat) /\ Len(l) = Len(s) + 1
  BY <1>1, AmountsSeq
<1> HIDE DEF a, m
<1>8. m \in Nat /\ r = Append(a, m)
  BY <1>2 DEF a, m
<1>9. r \in Seq(Nat) /\ Len(r) = Len(s) + 1
  BY <1>5, <1>8
<1>3. l \in Seq(Nat) /\ r \in Seq(Nat) /\ Len(l) = Len(s) + 1 /\ Len(r) = Len(s) + 1
  BY <1>7, <1>9
<1>4. \A i \in 1 .. Len(s) + 1 : l[i] = r[i]
  <2> SUFFICES ASSUME NEW i \in 1 .. Len(s) + 1 PROVE l[i] = r[i]
    OBVIOUS
  <2>1. l[i] = Append(s, p)[i].amount
    BY <1>1 DEF Amounts
  <2>2. CASE i = Len(s) + 1
    <3>1. Append(s, p)[i] = p
      BY <2>2
    <3>2. r[i] = m
      BY <1>5, <1>8, <2>2
    <3> QED BY <2>1, <3>1, <3>2 DEF m
  <2>3. CASE i \in 1 .. Len(s)
    <3>1. Append(s, p)[i] = s[i]
      BY <2>3
    <3>2. r[i] = a[i]
      BY <1>5, <1>8, <2>3
    <3> QED BY <1>6, <2>1, <2>3, <3>1, <3>2
  <2>4. i = Len(s) + 1 \/ i \in 1 .. Len(s)
    BY <1>5
  <2> HIDE DEF l, r
  <2> QED BY <2>2, <2>3, <2>4
<1> HIDE DEF l, r
<1> QED BY <1>3, <1>4, SeqEqual DEF l, r

LEMMA AmountsReplaced ==
  ASSUME NEW s \in Seq(StakingPosition), NEW id \in 1 .. Len(s), NEW p \in StakingPosition
  PROVE  Amounts([s EXCEPT ![id] = p]) = [Amounts(s) EXCEPT ![id] = p.amount]
  BY DEF Amounts

-----------------------------------------------------------------------------
(* The steps of the escrow, for what the contract's variables stand for.    *)
LEMMA StepIsDeposit ==
  ASSUME NEW s \in Addr, NEW amount \in Nat, amount > 0, Pot \in Int,
         Pot' = Pot + amount,
         Held' = [Held EXCEPT ![s] = Append(Held[s], amount)]
  PROVE  EscrowStep
<1>1. Pot' - Pot = amount
  OBVIOUS
<1>2. Escrow!Deposit(s, Pot' - Pot)
  BY <1>1 DEF Escrow!Deposit, Held, Amounts, Pot
<1> QED BY <1>2 DEF EscrowStep, Escrow!EscrowNext, Pot

LEMMA StepIsReturn ==
  ASSUME NEW s \in Addr, NEW i \in DOMAIN Held[s], Held[s][i] > 0,
         Pot' = Pot - Held[s][i],
         Held' = [Held EXCEPT ![s] = [Held[s] EXCEPT ![i] = 0]]
  PROVE  EscrowStep
<1>1. Escrow!Return(s, i)
  BY DEF Escrow!Return, Held, Amounts, Pot
<1> QED BY <1>1 DEF EscrowStep, Escrow!EscrowNext, Held, Amounts

LEMMA StepIsFund ==
  ASSUME Pot' >= Pot, Held' = Held
  PROVE  EscrowStep
<1>1. Escrow!Fund
  BY DEF Escrow!Fund, Held, Amounts, Pot
<1> QED BY <1>1 DEF EscrowStep, Escrow!EscrowNext

LEMMA StepIsOverdraw ==
  ASSUME Pot <= 0, Pot' < Pot, Held' = Held
  PROVE  EscrowStep
<1>1. Escrow!Overdraw
  BY DEF Escrow!Overdraw, Held, Amounts, Pot
<1> QED BY <1>1 DEF EscrowStep, Escrow!EscrowNext

-----------------------------------------------------------------------------
(* The steps of the contract.                                               *)

\* Before the first stake the contract holds nothing, for nobody.
LEMMA InitEscrow == initialize => Escrow!EscrowInit
<1> SUFFICES ASSUME initialize PROVE Escrow!EscrowInit
  OBVIOUS
<1>1. Pot = 0
  <2>1. balance[This] = 0 /\ expiry[This] = {} /\ HALF_SHAHI \in Nat
    BY StorageAssumption DEF initialize, StorageInit, Addr
  <2> QED BY <2>1, FS_EmptySet DEF Pot
<1>2. \A a \in Addr : positions[a] = <<>>
  BY DEF initialize, StorageInit
<1>3. Amounts(<<>>) = <<>>
  BY DEF Amounts
<1>4. Held = [a \in Addr |-> <<>>]
  BY <1>2, <1>3 DEF Held
<1> QED BY <1>1, <1>4 DEF Escrow!EscrowInit, Held, Amounts, Pot

LEMMA PositionsTyped ==
  ASSUME LedgerInv, NEW user \in Users
  PROVE  /\ user \in Addr /\ This \in Addr /\ user # This
         /\ positions[user] \in Seq(StakingPosition)
         /\ balance \in [Addr -> Nat] /\ balance[This] \in Nat
         /\ Pot \in Int
<1>1. Pot \in Int
  BY PotInt
<1> QED BY <1>1, StorageAssumption DEF LedgerInv, TypeOK, Addr

\* Where the expiry records stay, the pot changes by what the balance does.
LEMMA PotFollows ==
  ASSUME LedgerInv, UNCHANGED mintVars
  PROVE  \E owed \in Nat : Pot = balance[This] - owed /\ Pot' = balance'[This] - owed
<1>1. HALF_SHAHI * Cardinality(expiry[This]) \in Nat
  BY PotInt, ProductNat
<1> QED BY <1>1 DEF Pot, mintVars

LEMMA CreateStakeDeposits ==
  ASSUME LedgerInv, NEW user \in Users, NEW amount \in StakeAmounts,
         NEW lockPeriod \in LockPeriods, createStake(user, amount, lockPeriod)
  PROVE  EscrowStep
<1> DEFINE p == [amount |-> amount, startTime |-> now,
                 endTime |-> IF lockPeriod > 0 THEN now + lockPeriod ELSE 0,
                 lastClaimTime |-> now, accumulatedRewards |-> 0]
<1>1. amount \in Nat /\ lockPeriod \in Nat /\ now \in Nat
  BY StakingAssumption DEF LedgerInv, TypeOK
<1>2. p \in StakingPosition /\ p.amount = amount
  BY <1>1 DEF StakingPosition
<1>3. positions' = [positions EXCEPT ![user] = Append(positions[user], p)]
  BY PositionsTyped DEF LedgerInv, TypeOK, createStake
<1> HIDE DEF p
<1>4. Amounts(Append(positions[user], p)) = Append(Held[user], amount)
  BY <1>2, PositionsTyped, AmountsAppend DEF Held
<1>5. Held' = [Held EXCEPT ![user] = Append(Held[user], amount)]
  BY <1>3, <1>4, PositionsTyped DEF LedgerInv, TypeOK, Held
<1>6. Pot' = Pot + amount
  <2>1. /\ balance[user] >= amount /\ balance' = Move(balance, user, This, amount)
        /\ UNCHANGED mintVars
    BY DEF createStake
  <2>2. balance'[This] = balance[This] + amount
    BY <1>1, <2>1, PositionsTyped, MoveLedger
  <2> QED BY <1>1, <2>1, <2>2, PositionsTyped, PotFollows
<1>7. amount > 0
  BY DEF createStake
<1> QED BY <1>1, <1>5, <1>6, <1>7, PositionsTyped, StepIsDeposit

\* Replacing a position replaces its amount in what is held.
LEMMA HeldReplaced ==
  ASSUME LedgerInv, NEW user \in Users, NEW id \in 1 .. Len(positions[user]),
         NEW p \in StakingPosition, positions' = WithPosition(positions, user, id, p)
  PROVE  /\ id \in DOMAIN Held[user] /\ Held[user][id] = positions[user][id].amount
         /\ Held' = [Held EXCEPT ![user] = [Held[user] EXCEPT ![id] = p.amount]]
<1>1. user \in Addr /\ positions[user] \in Seq(StakingPosition)
  BY PositionsTyped
<1>2. id \in DOMAIN Held[user] /\ Held[user][id] = positions[user][id].amount
  BY <1>1 DEF Held, Amounts
<1> DEFINE s == [positions[user] EXCEPT ![id] = p]
<1>3. Amounts(s) = [Held[user] EXCEPT ![id] = p.amount]
  BY <1>1, AmountsReplaced DEF Held
<1>4. positions' = [positions EXCEPT ![user] = s]
  BY DEF WithPosition
<1> HIDE DEF s
<1>5. Held' = [Held EXCEPT ![user] = Amounts(s)]
  BY <1>1, <1>4 DEF LedgerInv, TypeOK, Held
<1> QED BY <1>2, <1>3, <1>5

LEMMA CloseReturns ==
  ASSUME LedgerInv, NEW user \in Users, NEW id \in DOMAIN positions[user],
         NEW rewards \in Nat, closePosition(user, id, rewards)
  PROVE  EscrowStep
<1> DEFINE q == positions[user][id]
           p == [q EXCEPT !.amount = 0, !.accumulatedRewards = 0]
           b == Credit(balance, user, rewards)
           staked == q.amount
<1>1. id \in 1 .. Len(positions[user]) /\ q \in StakingPosition
  BY PositionsTyped
<1>2. p \in StakingPosition /\ p.amount = 0 /\ staked \in Nat
  BY <1>1 DEF StakingPosition
<1>3. positions' = WithPosition(positions, user, id, p)
  BY PositionsTyped DEF LedgerInv, TypeOK, WithPosition, closePosition
<1>4. /\ staked > 0 /\ balance[This] >= staked /\ balance' = Move(b, This, user, staked)
      /\ UNCHANGED mintVars
  BY DEF closePosition
<1>5. b \in [Addr -> Nat] /\ b[This] = balance[This]
  BY PositionsTyped, CreditLedger DEF Credit
<1> HIDE DEF p, b
<1>6. Held[user][id] = staked /\ id \in DOMAIN Held[user]
  BY <1>1, <1>2, <1>3, HeldReplaced
<1>7. Held' = [Held EXCEPT ![user] = [Held[user] EXCEPT ![id] = 0]]
  BY <1>1, <1>2, <1>3, HeldReplaced
<1> HIDE DEF q, staked
<1>8. Pot' = Pot - staked
  <2>1. This \in Addr /\ user \in Addr /\ This # user /\ b[This] >= staked
    BY <1>4, <1>5, PositionsTyped
  <2>2. Move(b, This, user, staked)[This] = b[This] - staked
    BY <1>2, <1>5, <2>1, MoveLedger
  <2>3. balance'[This] = balance[This] - staked
    BY <1>4, <1>5, <2>2
  <2> QED BY <1>2, <1>4, <2>3, PositionsTyped, PotFollows
<1> QED BY <1>4, <1>6, <1>7, <1>8, PositionsTyped, StepIsReturn

\* A claim mints its rewards to the user and leaves the stake where it is.
LEMMA ClaimFunds ==
  ASSUME LedgerInv, NEW user \in Users, NEW id \in DOMAIN positions[user],
         claimStakingRewards(user, id)
  PROVE  EscrowStep
<1> DEFINE q == positions[user][id]
           p == [q EXCEPT !.accumulatedRewards = 0, !.lastClaimTime = now]
<1>1. id \in 1 .. Len(positions[user]) /\ q \in StakingPosition /\ now \in Nat
  BY PositionsTyped DEF LedgerInv, TypeOK
<1>2. p \in StakingPosition /\ p.amount = q.amount
  BY <1>1 DEF StakingPosition
<1>3. positions' = WithPosition(positions, user, id, p)
  BY PositionsTyped DEF LedgerInv, TypeOK, WithPosition, claimStakingRewards
<1>4. balance' = Credit(balance, user, calculateRewards(q)) /\ UNCHANGED mintVars
  BY DEF claimStakingRewards
<1> HIDE DEF p
<1>5. Held' = [Held EXCEPT ![user] = [Held[user] EXCEPT ![id] = Held[user][id]]]
  BY <1>1, <1>2, <1>3, HeldReplaced
<1>6. Held' = Held
  <2>1. Amounts(positions[user]) = [Amounts(positions[user]) EXCEPT ![id] = Amounts(positions[user])[id]]
    BY DEF Amounts
  <2>2. Held[user] = Amounts(positions[user])
    BY PositionsTyped DEF Held
  <2>3. Held' = [Held EXCEPT ![user] = Held[user]]
    BY <1>5, <2>1, <2>2
  <2> QED BY <2>3 DEF Held
<1>7. Pot' = Pot
  <2>1. balance'[This] = balance[This]
    BY <1>4, PositionsTyped DEF Credit
  <2> QED BY <1>4, <2>1, PotFollows
<1> QED BY <1>6, <1>7, PositionsTyped, StepIsFund

LEMMA FundsIsFund == ASSUME LedgerInv, LedgerInv', Funds PROVE EscrowStep
<1>1. Held' = Held
  BY DEF Funds, stakeVars, Held
<1>2. Pot \in Int /\ Pot' \in Int
  <2>1. balance'[This] \in Nat /\ Cardinality(expiry'[This]) \in Nat /\ HALF_SHAHI \in Nat
    BY StorageAssumption, FS_CardinalityType DEF LedgerInv, TypeOK, Addr
  <2>2. HALF_SHAHI * Cardinality(expiry'[This]) \in Nat
    BY <2>1, ProductNat
  <2> QED BY <2>1, <2>2, PotInt DEF Pot
<1>3. CASE Pot' >= Pot
  BY <1>1, <1>3, StepIsFund
<1>4. CASE Pot' < Pot
  BY <1>1, <1>2, <1>4, StepIsOverdraw DEF Funds
<1> QED BY <1>2, <1>3, <1>4

LEMMA StakeStepInEscrow ==
  ASSUME LedgerInv, NEW user \in Users, NEW id \in DOMAIN positions[user], StakeStep(user, id)
  PROVE  EscrowStep
<1>1. positions[user][id] \in StakingPosition /\ positions[user][id].lastClaimTime <= now
  BY PositionsTyped DEF LedgerInv, PositionsPast
<1>2. calculateRewards(positions[user][id]) \in Nat
  BY <1>1, RewardsNat DEF LedgerInv
<1>3. (calculateRewards(positions[user][id]) * 50) \div 100 \in Nat
  BY <1>2, HalfNat
<1>4. CASE claimStakingRewards(user, id)
  BY <1>4, ClaimFunds
<1>5. CASE withdrawStake(user, id)
  BY <1>2, <1>5, CloseReturns DEF withdrawStake
<1>6. CASE emergencyWithdraw(user, id)
  BY <1>2, <1>3, <1>6, CloseReturns, Zenon DEF emergencyWithdraw
<1> QED BY <1>4, <1>5, <1>6 DEF StakeStep

LEMMA StakingInEscrow ==
  ASSUME LedgerInv, StakingNext
  PROVE  EscrowStep
<1>1. CASE \E user \in Users, amount \in StakeAmounts, lockPeriod \in LockPeriods :
              createStake(user, amount, lockPeriod)
  BY <1>1, CreateStakeDeposits
<1>2. CASE \E user \in Users : \E id \in DOMAIN positions[user] : StakeStep(user, id)
  BY <1>2, StakeStepInEscrow
<1>3. CASE \E from \in Users, to \in Addr, amount \in TransferAmounts : transfer(from, to, amount)
  BY <1>3, TransferKeepsLedger, FundsIsFund
<1>4. CASE \E holder \in Users, amount \in TransferAmounts : burn(holder, amount)
  BY <1>4, BurnKeepsLedger, FundsIsFund
<1>5. CASE \E user \in Addr : burnExpiredTokens(user)
  <2> PICK user \in Addr : burnExpiredTokens(user)
    BY <1>5
  <2>1. sweepBurns(user, LookBack) * HALF_SHAHI \in Nat
    BY SweepWithin, StakingAssumption DEF LedgerInv
  <2>2. PICK total \in Nat : sweep({user}, LookBack, total)
    BY <2>1 DEF burnExpiredTokens
  <2> QED BY <2>2, SweepKeepsLedger, StakingAssumption, FundsIsFund
<1>6. CASE \E users \in SUBSET Addr : batchBurnExpiredTokens(users)
  <2> PICK users \in SUBSET Addr : batchBurnExpiredTokens(users)
    BY <1>6
  <2>1. PICK total \in 0 .. supply : sweep(users, BatchLookBack, total)
    BY DEF batchBurnExpiredTokens
  <2>2. total \in Nat
    BY DEF LedgerInv, TypeOK
  <2> QED BY <2>1, <2>2, SweepKeepsLedger, StakingAssumption, FundsIsFund
<1> QED BY <1>1, <1>2, <1>3, <1>4, <1>5, <1>6 DEF StakingNext

LEMMA StepInEscrow == LedgerInv /\ [Next]_storageVars => EscrowStep
<1> SUFFICES ASSUME LedgerInv, [Next]_storageVars PROVE EscrowStep
  OBVIOUS
<1>1. CASE MintingNext
  BY <1>1, MintingKeepsLedger, FundsIsFund
<1>2. CASE StakingNext
  BY <1>2, StakingInEscrow
<1>3. CASE AdminNext
  BY <1>3, AdminKeepsLedger, FundsIsFund
<1>4. CASE AdvanceTime \/ UNCHANGED storageVars
  <2>1. balance' = balance /\ expiry' = expiry /\ positions' = positions
    BY <1>4 DEF AdvanceTime, storageVars, ledgerVars, mintVars, stakeVars
  <2>2. Pot' = Pot /\ Held' = Held /\ Pot \in Int
    BY <2>1, PotInt DEF Pot, Held
  <2> QED BY <2>2, StepIsFund
<1> QED BY <1>1, <1>2, <1>3, <1>4 DEF Next

(* The contract implements the escrow: what it holds beyond its own expiring *)
(* tokens is a pot from which, while there is something in it, nothing is    *)
(* taken but a stake, once and whole, for the one who made it, whatever the  *)
(* amounts, the lock periods, the burn rate and the users.                   *)
THEOREM StakingImplementsEscrow == Spec => StakesInEscrow
<1>1. initialize => Escrow!EscrowInit
  BY InitEscrow
<1>2. LedgerInv /\ [Next]_storageVars => [Escrow!EscrowNext]_(Escrow!escrowVars)
  BY StepInEscrow DEF EscrowStep
<1> QED BY <1>1, <1>2, LedgerInvariant, PTL DEF Spec, StakesInEscrow, Escrow!EscrowSpec

-----------------------------------------------------------------------------
(* Who loses and who gains tokens.  A step of the contract mints, or burns, *)
(* or moves tokens from one holder, who is not blacklisted, to another: the *)
(* contract itself, or one who may be paid with locked tokens.              *)
NobodyLoses == \A a \in Addr : balance'[a] >= balance[a]
NobodyGains == \A a \in Addr : balance'[a] <= balance[a]

Moves(from, to) ==
  /\ \A a \in Addr : balance'[a] < balance[a] => a = from
  /\ \A a \in Addr : balance'[a] > balance[a] => a = to
  /\ ~isBlacklisted(from)
  /\ This \in {from, to} \/ specialSender(from) \/ isAuthorizedAppContract(to) \/ to = adminHotWallet

TokensMove == NobodyLoses \/ NobodyGains \/ \E from, to \in Addr : Moves(from, to)

\* A naturally valued ledger, spelled out.
LEMMA Balances ==
  ASSUME LedgerInv
  PROVE  balance \in [Addr -> Nat] /\ adminHotWallet \in Addr /\ This \in Addr /\ This \notin Users
         /\ Users \subseteq Addr
  BY StorageAssumption DEF LedgerInv, TypeOK, Addr

LEMMA CreditGains ==
  ASSUME LedgerInv, NEW a \in Addr, NEW n \in Nat, balance' = Credit(balance, a, n)
  PROVE  NobodyLoses
  BY Balances, CreditLedger DEF NobodyLoses

LEMMA SplitGains ==
  ASSUME LedgerInv, NEW user \in Addr, balance' = CreditSplit(balance, user)
  PROVE  NobodyLoses
<1>1. HALF_SHAHI \in Nat
  BY StorageAssumption
<1>2. PICK b : b = Credit(balance, adminHotWallet, HALF_SHAHI)
  OBVIOUS
<1>3. b \in [Addr -> Nat] /\ \A a \in Addr : b[a] >= balance[a]
  BY <1>1, <1>2, Balances, CreditLedger
<1>4. balance' = Credit(b, user, HALF_SHAHI)
  BY <1>2 DEF CreditSplit
<1>5. user \in Addr
  BY Balances
<1>6. Credit(b, user, HALF_SHAHI) \in [Addr -> Nat] /\ \A a \in Addr : Credit(b, user, HALF_SHAHI)[a] >= b[a]
  BY <1>1, <1>3, <1>5, CreditLedger
<1>7. balance' \in [Addr -> Nat] /\ \A a \in Addr : balance'[a] >= b[a]
  BY <1>4, <1>6
<1> QED BY <1>3, <1>7, Balances DEF NobodyLoses

LEMMA MintingGains == ASSUME LedgerInv, MintingNext PROVE NobodyLoses
<1>1. ASSUME NEW user \in Addr, mintSplit(user) PROVE NobodyLoses
  BY <1>1, SplitGains DEF mintSplit
<1>2. ASSUME NEW user \in Addr, NEW device \in Devices, firstTimeMint(user, device) PROVE NobodyLoses
  <2>1. mintSplit(user) \/ balance' = Credit(balance, adminHotWallet, ADMIN_INITIAL_MINT)
    BY <1>2 DEF firstTimeMint
  <2> QED BY <1>1, <2>1, CreditGains, Balances, StorageAssumption
<1>3. ASSUME NEW users \in Batches, NEW paid \in SUBSET elements(users), mintBatch(users, paid)
      PROVE  NobodyLoses
  <2>1. PICK b : b = Credit(balance, adminHotWallet, Len(users) * HALF_SHAHI)
    OBVIOUS
  <2>2. Len(users) \in Nat /\ HALF_SHAHI \in Nat
    BY MintingAssumption, StorageAssumption
  <2>3. Len(users) * HALF_SHAHI \in Nat
    BY <2>2, ProductNat
  <2>4. b \in [Addr -> Nat] /\ \A a \in Addr : b[a] >= balance[a]
    BY <2>1, <2>3, Balances, CreditLedger
  <2>5. balance' = [a \in Addr |-> IF a \in paid THEN b[a] + HALF_SHAHI ELSE b[a]]
    BY <1>3, <2>1 DEF mintBatch
  <2> QED BY <2>2, <2>4, <2>5, Balances DEF NobodyLoses
<1>4. ASSUME NEW to \in Addr, NEW amount \in MintAmounts, ownerMint(to, amount) PROVE NobodyLoses
  BY <1>4, CreditGains, MintingAssumption DEF ownerMint
<1>5. ASSUME NEW recipients \in Batches, NEW amount \in MintAmounts, adminMintBatch(recipients, amount)
      PROVE  NobodyLoses
  <2>1. PICK count : count = [a \in Addr |-> Cardinality({i \in DOMAIN recipients : recipients[i] = a})]
    OBVIOUS
  <2>2. amount \in Nat /\ recipients \in Seq(Addr) /\ Len(recipients) \in Nat
    BY MintingAssumption
  <2>3. IsFiniteSet(DOMAIN recipients)
    BY <2>2, FS_Interval
  <2>4. count \in [Addr -> Nat]
    BY <2>1, <2>3, FS_Subset, FS_CardinalityType
  <2>5. balance' = [a \in Addr |-> balance[a] + amount * count[a]]
    BY <1>5, <2>1 DEF adminMintBatch
  <2>6. \A a \in Addr : amount * count[a] \in Nat
    BY <2>2, <2>4, ProductNat
  <2> QED BY <2>5, <2>6, Balances DEF NobodyLoses
<1> QED BY <1>1, <1>2, <1>3, <1>4, <1>5 DEF MintingNext, annualMint, regularMint, mintForNewUser,
        batchMintForNewUsers, batchAnnualMint, adminMint, mint

LEMMA CreateStakeMoves ==
  ASSUME LedgerInv, NEW user \in Users, NEW amount \in StakeAmounts, NEW lockPeriod \in LockPeriods,
         createStake(user, amount, lockPeriod)
  PROVE  TokensMove
<1>1. /\ amount \in Nat /\ balance[user] >= amount /\ balance' = Move(balance, user, This, amount)
      /\ ~isBlacklisted(user)
  BY StakingAssumption DEF createStake, neitherBlacklisted
<1>2. \A a \in Addr : balance'[a] < balance[a] => a = user
  BY <1>1, Balances, MoveLedger
<1>3. \A a \in Addr : balance'[a] > balance[a] => a = This
  BY <1>1, Balances DEF Move, Credit, Debit
<1> QED BY <1>1, <1>2, <1>3, Balances DEF TokensMove, Moves

LEMMA CloseMoves ==
  ASSUME LedgerInv, NEW user \in Users, NEW id \in DOMAIN positions[user], NEW rewards \in Nat,
         closePosition(user, id, rewards)
  PROVE  /\ TokensMove
         /\ balance'[user] = balance[user] + rewards + positions[user][id].amount
<1>1. PICK staked, b : staked = positions[user][id].amount /\ b = Credit(balance, user, rewards)
  OBVIOUS
<1>7. positions[user][id] \in StakingPosition
  BY PositionsTyped
<1>8. staked \in Nat
  BY <1>1, <1>7 DEF StakingPosition
<1>9. /\ balance[This] >= staked /\ balance' = Move(b, This, user, staked)
      /\ ~isBlacklisted(This)
  BY <1>1 DEF closePosition, neitherBlacklisted
<1>2. /\ staked \in Nat /\ balance[This] >= staked /\ balance' = Move(b, This, user, staked)
      /\ ~isBlacklisted(This)
  BY <1>8, <1>9
<1>3. /\ b \in [Addr -> Nat] /\ b[user] = balance[user] + rewards
      /\ \A a \in Addr \ {user} : b[a] = balance[a]
  BY <1>1, Balances DEF Credit
<1>4. /\ balance'[user] = b[user] + staked
      /\ \A a \in Addr \ {user, This} : balance'[a] = b[a]
      /\ balance'[This] = b[This] - staked
  BY <1>2, <1>3, Balances DEF Move, Credit, Debit
<1>5. \A a \in Addr : balance'[a] < balance[a] => a = This
  BY <1>2, <1>3, <1>4, Balances
<1>6. \A a \in Addr : balance'[a] > balance[a] => a = user
  BY <1>2, <1>3, <1>4, Balances
<1> QED BY <1>1, <1>2, <1>3, <1>4, <1>5, <1>6, Balances DEF TokensMove, Moves

LEMMA TransferMoves ==
  ASSUME LedgerInv, NEW from \in Users, NEW to \in Addr, NEW amount \in TransferAmounts,
         transfer(from, to, amount)
  PROVE  TokensMove
<1> DEFINE free == to = This \/ specialSender(from)
<1>1. PICK burnt : burnt = IF free THEN 0 ELSE transferBurn(amount)
  OBVIOUS
<1>2. amount \in Nat /\ transferBurn(amount) \in 0 .. amount
  BY StakingAssumption, BurnWithin DEF LedgerInv
<1>3. burnt \in Nat /\ amount - burnt \in Nat
  BY <1>1, <1>2
<1>4. PICK sent : sent = amount - burnt
  OBVIOUS
<1>5. /\ balance' = Debit(Move(balance, from, to, sent), from, burnt)
      /\ ~isBlacklisted(from) /\ (free \/ isAuthorizedAppContract(to) \/ to = adminHotWallet)
  BY <1>1, <1>4 DEF transfer, neitherBlacklisted
<1> HIDE DEF free
<1>6. from \in Addr /\ balance \in [Addr -> Nat] /\ sent \in Nat
  BY <1>3, <1>4, Balances
<1>7. \A a \in Addr : balance'[a] < balance[a] => a = from
  BY <1>3, <1>5, <1>6 DEF Move, Credit, Debit
<1>8. \A a \in Addr : balance'[a] > balance[a] => a = to
  BY <1>3, <1>5, <1>6 DEF Move, Credit, Debit
<1>9. Moves(from, to)
  BY <1>5, <1>7, <1>8 DEF Moves, free
<1> QED BY <1>6, <1>9 DEF TokensMove

LEMMA SweepLoses ==
  ASSUME LedgerInv, NEW users \in SUBSET Addr, NEW depth \in Nat, NEW total, sweep(users, depth, total)
  PROVE  NobodyGains
<1>1. \A a \in Addr : sweepBurns(a, depth) * HALF_SHAHI \in Nat
  BY SweepWithin DEF LedgerInv
<1>2. PICK lost : lost = [a \in Addr |-> sweepBurns(a, depth) * HALF_SHAHI]
  OBVIOUS
<1>3. balance' = [a \in Addr |-> IF a \in swept(users) THEN balance[a] - lost[a] ELSE balance[a]]
  BY <1>2 DEF sweep
<1>4. lost \in [Addr -> Nat]
  BY <1>1, <1>2
<1> QED BY <1>3, <1>4, Balances DEF NobodyGains

LEMMA StakingMoves == ASSUME LedgerInv, StakingNext PROVE TokensMove
<1>1. ASSUME NEW user \in Users, NEW id \in DOMAIN positions[user], StakeStep(user, id)
      PROVE  TokensMove
  <2>1. PICK rewards : rewards = calculateRewards(positions[user][id])
    OBVIOUS
  <2>2. positions[user][id] \in StakingPosition /\ positions[user][id].lastClaimTime <= now
    BY PositionsTyped DEF LedgerInv, PositionsPast
  <2>3. rewards \in Nat /\ (rewards * 50) \div 100 \in Nat
    BY <2>1, <2>2, RewardsNat, HalfNat DEF LedgerInv
  <2>4. CASE claimStakingRewards(user, id)
    BY <2>1, <2>3, <2>4, CreditGains, Balances DEF claimStakingRewards, TokensMove
  <2>5. CASE withdrawStake(user, id)
    BY <2>1, <2>3, <2>5, CloseMoves DEF withdrawStake
  <2>6. CASE emergencyWithdraw(user, id)
    BY <2>1, <2>3, <2>6, CloseMoves, Zenon DEF emergencyWithdraw
  <2> QED BY <1>1, <2>4, <2>5, <2>6 DEF StakeStep
<1>2. ASSUME NEW holder \in Users, NEW amount \in TransferAmounts, burn(holder, amount)
      PROVE  NobodyGains
  BY <1>2, StakingAssumption, Balances DEF burn, Debit, NobodyGains
<1>3. ASSUME NEW user \in Addr, burnExpiredTokens(user) PROVE NobodyGains
  <2>1. PICK total : sweep({user}, LookBack, total)
    BY <1>3 DEF burnExpiredTokens
  <2> QED BY <2>1, SweepLoses, StakingAssumption
<1>4. ASSUME NEW users \in SUBSET Addr, batchBurnExpiredTokens(users) PROVE NobodyGains
  <2>1. PICK total : sweep(users, BatchLookBack, total)
    BY <1>4 DEF batchBurnExpiredTokens
  <2> QED BY <2>1, SweepLoses, StakingAssumption
<1> QED BY <1>1, <1>2, <1>3, <1>4, CreateStakeMoves, TransferMoves DEF StakingNext, TokensMove

LEMMA StepMoves == LedgerInv /\ [Next]_storageVars => TokensMove
<1> SUFFICES ASSUME LedgerInv, [Next]_storageVars PROVE TokensMove
  OBVIOUS
<1>1. CASE MintingNext
  BY <1>1, MintingGains DEF TokensMove
<1>2. CASE StakingNext
  BY <1>2, StakingMoves
<1>3. CASE AdminNext \/ AdvanceTime \/ UNCHANGED storageVars
  <2>1. balance' = balance
    BY <1>3 DEF AdminNext, AdvanceTime, storageVars, ledgerVars
  <2> QED BY <2>1, Balances DEF TokensMove, NobodyLoses
<1> QED BY <1>1, <1>2, <1>3 DEF Next

LEMMA BalanceNumbers ==
  ASSUME LedgerInv, LedgerInv', NEW a \in Addr
  PROVE  balance[a] \in Nat /\ balance'[a] \in Nat
  BY DEF LedgerInv, TypeOK

(* What a blacklisted address holds reaches nobody else: while it is on the  *)
(* list, no transfer, stake, withdrawal, burn or sweep that lowers its        *)
(* balance raises another.                                                   *)
THEOREM BlacklistAlwaysFreezes == Spec => BlacklistFreezes
<1> DEFINE P == \A a, b \in Addr : isBlacklisted(a) /\ balance'[a] < balance[a]
                            => balance'[b] <= balance[b]
<1>1. LedgerInv /\ LedgerInv' /\ [Next]_storageVars => P
  <2> SUFFICES ASSUME LedgerInv, LedgerInv', [Next]_storageVars, NEW a \in Addr, NEW b \in Addr,
                      isBlacklisted(a), balance'[a] < balance[a]
               PROVE  balance'[b] <= balance[b]
    OBVIOUS
  <2>1. TokensMove
    BY StepMoves
  <2>2. balance[a] \in Nat /\ balance'[a] \in Nat
    BY BalanceNumbers
  <2> QED BY <2>1, <2>2 DEF TokensMove, NobodyLoses, NobodyGains, Moves
<1>2. LedgerInv /\ LedgerInv' /\ [Next]_storageVars => [P]_storageVars
  BY <1>1
<1> QED BY <1>2, LedgerInvariant, PTL DEF Spec, BlacklistFreezes

(* Locked tokens stay in the app: when a user's balance falls and another    *)
(* user's rises, the first is the owner or the admin wallet, or the second   *)
(* is an authorised app or the admin wallet.                                 *)
THEOREM LockedTokensAlwaysStay == Spec => LockedTokensStayInApp
<1> DEFINE P == \A a, b \in Users : balance'[a] < balance[a] /\ balance'[b] > balance[b]
                  => specialSender(a) \/ isAuthorizedAppContract(b) \/ b = adminHotWallet
<1>1. LedgerInv /\ LedgerInv' /\ [Next]_storageVars => P
  <2> SUFFICES ASSUME LedgerInv, LedgerInv', [Next]_storageVars, NEW a \in Users, NEW b \in Users,
                      balance'[a] < balance[a], balance'[b] > balance[b]
               PROVE  specialSender(a) \/ isAuthorizedAppContract(b) \/ b = adminHotWallet
    OBVIOUS
  <2>1. TokensMove /\ a \in Addr /\ b \in Addr /\ a # This /\ b # This
    BY StepMoves, Balances
  <2>2. balance[a] \in Nat /\ balance'[a] \in Nat /\ balance[b] \in Nat /\ balance'[b] \in Nat
    BY <2>1, BalanceNumbers
  <2> QED BY <2>1, <2>2 DEF TokensMove, NobodyLoses, NobodyGains, Moves
<1>2. LedgerInv /\ LedgerInv' /\ [Next]_storageVars => [P]_storageVars
  BY <1>1
<1> QED BY <1>2, LedgerInvariant, PTL DEF Spec, LockedTokensStayInApp

(* What leaving a position early costs.  Only a step that closes a position  *)
(* changes what it holds.                                                    *)
AmountsKept ==
  \A u \in Users : \A i \in DOMAIN positions[u] : positions'[u][i].amount = positions[u][i].amount

ExitForfeits(u, i) ==
  LET p == positions[u][i]
      paid == balance'[u] - balance[u] - p.amount
  IN  p.amount > 0 /\ now < p.endTime /\ positions'[u][i].amount = 0
        => paid >= 0 /\ 2 * paid <= calculateRewards(p)

ExitsForfeit == \A u \in Users : \A i \in DOMAIN positions[u] : ExitForfeits(u, i)

LEMMA KeptForfeits == ASSUME LedgerInv, AmountsKept PROVE ExitsForfeit
<1> SUFFICES ASSUME NEW u \in Users, NEW i \in DOMAIN positions[u] PROVE ExitForfeits(u, i)
  BY DEF ExitsForfeit
<1>1. positions[u][i] \in StakingPosition
  BY PositionsTyped
<1>2. positions[u][i].amount \in Nat /\ positions'[u][i].amount = positions[u][i].amount
  BY <1>1 DEF StakingPosition, AmountsKept
<1> QED BY <1>2 DEF ExitForfeits

LEMMA OthersKept ==
  ASSUME LedgerInv, UNCHANGED positions PROVE AmountsKept
  BY DEF AmountsKept

LEMMA StakeKept ==
  ASSUME LedgerInv, NEW user \in Users, NEW amount \in StakeAmounts, NEW lockPeriod \in LockPeriods,
         createStake(user, amount, lockPeriod)
  PROVE  AmountsKept
<1> SUFFICES ASSUME NEW u \in Users, NEW i \in DOMAIN positions[u]
             PROVE  positions'[u][i] = positions[u][i]
  BY DEF AmountsKept
<1>1. positions[u] \in Seq(StakingPosition) /\ positions \in [Addr -> Seq(StakingPosition)] /\ u \in Addr
  BY Balances DEF LedgerInv, TypeOK
<1>2. PICK p : positions' = [positions EXCEPT ![user] = Append(@, p)]
  BY DEF createStake
<1>3. positions'[u] = IF u = user THEN Append(positions[u], p) ELSE positions[u]
  BY <1>1, <1>2
<1> QED BY <1>1, <1>3

LEMMA ClaimKept ==
  ASSUME LedgerInv, NEW user \in Users, NEW id \in DOMAIN positions[user],
         claimStakingRewards(user, id)
  PROVE  AmountsKept
<1> SUFFICES ASSUME NEW u \in Users, NEW i \in DOMAIN positions[u]
             PROVE  positions'[u][i].amount = positions[u][i].amount
  BY DEF AmountsKept
<1>1. positions[u][i] \in StakingPosition /\ positions \in [Addr -> Seq(StakingPosition)] /\ u \in Addr
      /\ user \in Addr
  BY PositionsTyped, Balances DEF LedgerInv, TypeOK
<1>2. positions' = [positions EXCEPT ![user][id] =
                      [@ EXCEPT !.accumulatedRewards = 0, !.lastClaimTime = now]]
  BY DEF claimStakingRewards
<1> QED BY <1>1, <1>2 DEF StakingPosition

LEMMA CloseForfeits ==
  ASSUME LedgerInv, NEW user \in Users, NEW id \in DOMAIN positions[user], NEW rewards \in Nat,
         closePosition(user, id, rewards),
         now < positions[user][id].endTime => 2 * rewards <= calculateRewards(positions[user][id])
  PROVE  ExitsForfeit
<1> SUFFICES ASSUME NEW u \in Users, NEW i \in DOMAIN positions[u] PROVE ExitForfeits(u, i)
  BY DEF ExitsForfeit
<1>1. positions[u][i] \in StakingPosition /\ positions \in [Addr -> Seq(StakingPosition)] /\ u \in Addr
      /\ user \in Addr
  BY PositionsTyped, Balances DEF LedgerInv, TypeOK
<1>2. positions[u][i].amount \in Nat /\ balance[u] \in Nat
  BY <1>1, Balances DEF StakingPosition
<1>3. CASE u = user /\ i = id
  <2>1. balance'[u] = balance[u] + rewards + positions[u][i].amount
    BY <1>3, CloseMoves
  <2>2. balance'[u] - balance[u] - positions[u][i].amount = rewards
    BY <1>2, <2>1
  <2> QED BY <1>3, <2>2 DEF ExitForfeits
<1>4. CASE ~(u = user /\ i = id)
  <2>1. positions' = [positions EXCEPT ![user][id] =
                        [@ EXCEPT !.amount = 0, !.accumulatedRewards = 0]]
    BY DEF closePosition
  <2>2. positions'[u][i] = positions[u][i]
    BY <1>1, <1>4, <2>1
  <2> QED BY <1>2, <2>2 DEF ExitForfeits
<1> QED BY <1>3, <1>4

LEMMA StakeStepForfeits ==
  ASSUME LedgerInv, NEW user \in Users, NEW id \in DOMAIN positions[user], StakeStep(user, id)
  PROVE  ExitsForfeit
<1>1. PICK p, rewards : p = positions[user][id] /\ rewards = calculateRewards(positions[user][id])
  OBVIOUS
<1>2. p \in StakingPosition /\ p.lastClaimTime <= now
  BY <1>1, PositionsTyped DEF LedgerInv, PositionsPast
<1>3. rewards \in Nat /\ (rewards * 50) \div 100 \in Nat /\ 2 * ((rewards * 50) \div 100) <= rewards
  BY <1>1, <1>2, RewardsNat, HalfNat DEF LedgerInv
<1>4. now \in Nat /\ p.endTime \in Nat
  BY <1>2 DEF LedgerInv, TypeOK, StakingPosition
<1>5. CASE claimStakingRewards(user, id)
  BY <1>5, ClaimKept, KeptForfeits
<1>6. CASE withdrawStake(user, id)
  <2>1. closePosition(user, id, rewards) /\ ~(now < p.endTime)
    BY <1>1, <1>4, <1>6 DEF withdrawStake
  <2> QED BY <1>1, <1>3, <2>1, CloseForfeits
<1>7. CASE emergencyWithdraw(user, id)
  <2>1. CASE now < p.endTime
    <3>1. p.endTime > 0
      BY <1>4, <2>1
    <3>2. closePosition(user, id, (rewards * 50) \div 100)
      BY <1>1, <1>7, <2>1, <3>1, Zenon DEF emergencyWithdraw
    <3> QED BY <1>1, <1>3, <3>2, CloseForfeits
  <2>2. CASE ~(now < p.endTime)
    <3>1. closePosition(user, id, rewards)
      BY <1>1, <1>7, <2>2, Zenon DEF emergencyWithdraw
    <3> QED BY <1>1, <1>3, <2>2, <3>1, CloseForfeits
  <2> QED BY <2>1, <2>2
<1> QED BY <1>5, <1>6, <1>7 DEF StakeStep

LEMMA StepForfeits == LedgerInv /\ [Next]_storageVars => ExitsForfeit
<1> SUFFICES ASSUME LedgerInv, [Next]_storageVars PROVE ExitsForfeit
  OBVIOUS
<1>1. CASE MintingNext
  <2>1. UNCHANGED stakeVars
    BY <1>1, MintingKeepsLedger DEF Funds
  <2> QED BY <2>1, OthersKept, KeptForfeits DEF stakeVars
<1>2. CASE StakingNext
  <2>1. ASSUME NEW users \in SUBSET Addr, NEW depth, NEW total, sweep(users, depth, total)
        PROVE  UNCHANGED positions
    BY <2>1 DEF sweep, stakeVars
  <2>2. (\E user \in Addr : burnExpiredTokens(user)) => UNCHANGED positions
    BY <2>1 DEF burnExpiredTokens
  <2>3. (\E users \in SUBSET Addr : batchBurnExpiredTokens(users)) => UNCHANGED positions
    BY <2>1 DEF batchBurnExpiredTokens
  <2>4. (\E from \in Users, to \in Addr, amount \in TransferAmounts : transfer(from, to, amount))
        => UNCHANGED positions
    BY DEF transfer, stakeVars
  <2>5. (\E holder \in Users, amount \in TransferAmounts : burn(holder, amount)) => UNCHANGED positions
    BY DEF burn, stakeVars
  <2> QED BY <1>2, <2>2, <2>3, <2>4, <2>5, OthersKept, StakeKept, KeptForfeits, StakeStepForfeits
          DEF StakingNext
<1>3. CASE AdminNext \/ AdvanceTime \/ UNCHANGED storageVars
  BY <1>3, OthersKept, KeptForfeits DEF AdminNext, AdvanceTime, storageVars, stakeVars
<1> QED BY <1>1, <1>2, <1>3 DEF Next

(* Whoever leaves a locked position before its end, by whichever of the      *)
(* withdrawals, gets the whole stake back and at most half of the rewards    *)
(* not claimed until then.                                                   *)
THEOREM EarlyExitAlwaysForfeits == Spec => EarlyExitForfeits
<1> DEFINE P == \A u \in Users : \A i \in DOMAIN positions[u] :
                  LET p == positions[u][i]
                      paid == balance'[u] - balance[u] - p.amount
                  IN  p.amount > 0 /\ now < p.endTime /\ positions'[u][i].amount = 0
                        => paid >= 0 /\ 2 * paid <= calculateRewards(p)
<1>1. LedgerInv /\ [Next]_storageVars => P
  BY StepForfeits DEF ExitsForfeit, ExitForfeits
<1>2. LedgerInv /\ [Next]_storageVars => [P]_storageVars
  BY <1>1
<1> QED BY <1>2, LedgerInvariant, PTL DEF Spec, EarlyExitForfeits

-----------------------------------------------------------------------------
(* Sums over a finite set.  Induction on the set is by a smallest           *)
(* counterexample.                                                          *)

\* A non-empty set of naturals has a least element.
LEMMA LeastNatural ==
  ASSUME NEW S, S \subseteq Nat, S # {}
  PROVE  \E x \in S : \A y \in S : x <= y
<1>1. PICK x \in S : \A y \in S : ~ (y < x)
  <2>1. PICK x \in S : \A y \in S : ~ (<<y, x>> \in OpToRel(<, Nat))
    BY WFMin, NatLessThanWellFounded, Zenon
  <2>2. \A y \in Nat : y < x => <<y, x>> \in OpToRel(<, Nat)
    BY Zenon DEF OpToRel
  <2> QED BY <2>1, <2>2, Zenon
<1> QED BY <1>1

\* A non-empty set of subsets of a finite set has a smallest one.
LEMMA SmallestSubset ==
  ASSUME NEW S, IsFiniteSet(S), NEW B, B \subseteq SUBSET S, B # {}
  PROVE  \E T \in B : \A x \in T : T \ {x} \notin B
<1> DEFINE sizes == {Cardinality(T) : T \in B}
<1>1. \A T \in B : IsFiniteSet(T) /\ Cardinality(T) \in Nat
  BY FS_Subset, FS_CardinalityType
<1>2. PICK n \in sizes : \A m \in sizes : n <= m
  <2>1. sizes \subseteq Nat /\ sizes # {}
    BY <1>1
  <2> HIDE DEF sizes
  <2> QED BY <2>1, LeastNatural
<1>3. PICK T \in B : n = Cardinality(T)
  BY <1>2
<1>4. ASSUME NEW x \in T, T \ {x} \in B PROVE FALSE
  <2>1. Cardinality(T \ {x}) = Cardinality(T) - 1
    BY <1>1, FS_RemoveElement
  <2>2. n <= Cardinality(T \ {x})
    BY <1>2, <1>4
  <2> QED BY <1>1, <1>3, <2>1, <2>2
<1> QED BY <1>4

\* The element a sum takes first.
first(s) == CHOOSE x \in s : TRUE

LEMMA FirstIn == ASSUME NEW s, s # {} PROVE first(s) \in s
  BY DEF first

\* g adds up f over the subsets of S.
AddsUp(f, S, g) ==
  g = [s \in SUBSET S |-> IF s = {} THEN 0 ELSE f[first(s)] + g[s \ {first(s)}]]

LEMMA SumIsFold ==
  ASSUME NEW f, NEW S
  PROVE  SumFunctionOnSet(f, S) = (CHOOSE g : AddsUp(f, S, g))[S]
  BY DEF SumFunctionOnSet, FoldFunctionOnSet, MapThenFoldSet, AddsUp, first

\* It can be done up to any size of the subsets, hence for all of them.
AddsUpTo(f, S, n, g) ==
  /\ g = [s \in SUBSET S |-> g[s]]
  /\ \A s \in SUBSET S : Cardinality(s) <= n =>
       g[s] = IF s = {} THEN 0 ELSE f[first(s)] + g[s \ {first(s)}]

LEMMA FoldUpTo ==
  ASSUME NEW f, NEW S, IsFiniteSet(S), NEW n \in Nat
  PROVE  \E g : AddsUpTo(f, S, n, g)
<1> DEFINE sum(g, s) == IF s = {} THEN 0 ELSE f[first(s)] + g[s \ {first(s)}]
           bad == {k \in Nat : ~ \E g : AddsUpTo(f, S, k, g)}
<1>1. \A s \in SUBSET S : IsFiniteSet(s) /\ Cardinality(s) \in Nat
  BY FS_Subset, FS_CardinalityType
<1>2. ASSUME bad # {} PROVE FALSE
  <2>1. PICK k \in bad : \A j \in bad : k <= j
    <3> HIDE DEF bad
    <3> QED BY <1>2, LeastNatural DEF bad
  <2>2. k # 0
    <3>1. ASSUME k = 0 PROVE \E g : AddsUpTo(f, S, k, g)
      <4> DEFINE g == [s \in SUBSET S |-> 0]
      <4>1. g = [s \in SUBSET S |-> g[s]]
        OBVIOUS
      <4>2. \A s \in SUBSET S : Cardinality(s) <= k => g[s] = sum(g, s)
        BY <1>1, <3>1, FS_EmptySet
      <4>3. AddsUpTo(f, S, k, g)
        BY <4>1, <4>2 DEF AddsUpTo
      <4> QED BY <4>3
    <3> QED BY <2>1, <3>1
  <2>3. k - 1 \in Nat /\ \E g : AddsUpTo(f, S, k - 1, g)
    BY <2>1, <2>2
  <2>4. PICK g : /\ g = [s \in SUBSET S |-> g[s]]
                 /\ \A s \in SUBSET S : Cardinality(s) <= k - 1 => g[s] = sum(g, s)
    BY <2>3 DEF AddsUpTo
  <2> DEFINE h == [s \in SUBSET S |-> sum(g, s)]
  <2>5. h = [s \in SUBSET S |-> h[s]]
    OBVIOUS
  <2>6. \A s \in SUBSET S : Cardinality(s) <= k - 1 => h[s] = g[s]
    <3> HIDE DEF sum
    <3> QED BY <2>4
  <2>7. ASSUME NEW s \in SUBSET S, Cardinality(s) <= k PROVE h[s] = sum(h, s)
    <3>1. h[s] = sum(g, s)
      OBVIOUS
    <3>2. CASE s = {}
      BY <3>1, <3>2
    <3>3. CASE s # {}
      <4>1. first(s) \in s
        BY <3>3, FirstIn
      <4>2. s \ {first(s)} \in SUBSET S /\ Cardinality(s \ {first(s)}) <= k - 1
        BY <1>1, <2>3, <2>7, <4>1, FS_RemoveElement
      <4>3. h[s \ {first(s)}] = g[s \ {first(s)}]
        BY <2>6, <4>2
      <4> HIDE DEF h
      <4> QED BY <3>1, <3>3, <4>3
    <3> QED BY <3>2, <3>3
  <2> HIDE DEF h
  <2>8. AddsUpTo(f, S, k, h)
    BY <2>5, <2>7 DEF AddsUpTo
  <2> QED BY <2>1, <2>8
<1> QED BY <1>2

LEMMA FoldExists ==
  ASSUME NEW f, NEW S, IsFiniteSet(S)
  PROVE  \E g : AddsUp(f, S, g)
<1>1. Cardinality(S) \in Nat /\ \A s \in SUBSET S : Cardinality(s) <= Cardinality(S)
  BY FS_Subset, FS_CardinalityType
<1>2. PICK g : AddsUpTo(f, S, Cardinality(S), g)
  BY <1>1, FoldUpTo
<1> QED BY <1>1, <1>2 DEF AddsUpTo, AddsUp

\* Two ways to add up f agree on every set both reach.
LEMMA FoldsAgree ==
  ASSUME NEW f, NEW S, IsFiniteSet(S), NEW T \in SUBSET S,
         NEW g, AddsUp(f, S, g), NEW h, AddsUp(f, T, h)
  PROVE  g[T] = h[T]
<1> DEFINE bad == {s \in SUBSET T : g[s] # h[s]}
<1>1. IsFiniteSet(T)
  BY FS_Subset
<1>2. ASSUME bad # {} PROVE FALSE
  <2>1. PICK s \in bad : \A x \in s : s \ {x} \notin bad
    BY <1>1, <1>2, SmallestSubset
  <2>2. s \in SUBSET S /\ s \in SUBSET T
    OBVIOUS
  <2>3. g[s] = IF s = {} THEN 0 ELSE f[first(s)] + g[s \ {first(s)}]
    BY <2>2 DEF AddsUp
  <2>4. h[s] = IF s = {} THEN 0 ELSE f[first(s)] + h[s \ {first(s)}]
    BY <2>2 DEF AddsUp
  <2>5. s # {} => g[s \ {first(s)}] = h[s \ {first(s)}]
    BY <2>1, <2>2, FirstIn
  <2> QED BY <2>1, <2>3, <2>4, <2>5
<1> QED BY <1>2

\* The defining equation of a sum.
LEMMA SumEquation ==
  ASSUME NEW f, NEW S, IsFiniteSet(S)
  PROVE  SumFunctionOnSet(f, S) =
           IF S = {} THEN 0 ELSE f[first(S)] + SumFunctionOnSet(f, S \ {first(S)})
<1> DEFINE fold(T) == CHOOSE g : AddsUp(f, T, g)
<1>1. ASSUME NEW T \in SUBSET S
      PROVE  AddsUp(f, T, fold(T)) /\ SumFunctionOnSet(f, T) = fold(T)[T]
  <2>1. \E g : AddsUp(f, T, g)
    BY FS_Subset, FoldExists
  <2> QED BY <2>1, SumIsFold
<1> HIDE DEF fold
<1>2. CASE S = {}
  BY <1>1, <1>2 DEF AddsUp
<1>3. CASE S # {}
  <2> DEFINE R == S \ {first(S)}
  <2>1. fold(S)[S] = f[first(S)] + fold(S)[R]
    BY <1>1, <1>3 DEF AddsUp
  <2>2. R \in SUBSET S
    OBVIOUS
  <2> HIDE DEF R
  <2>3. fold(S)[R] = fold(R)[R]
    BY <1>1, <2>2, FoldsAgree
  <2> QED BY <1>1, <1>3, <2>1, <2>2, <2>3 DEF R
<1> QED BY <1>2, <1>3

LEMMA SumEmpty == ASSUME NEW f PROVE SumFunctionOnSet(f, {}) = 0
  BY SumEquation, FS_EmptySet

\* A sum of naturals is one.
LEMMA SumNat ==
  ASSUME NEW f, NEW S, IsFiniteSet(S), \A s \in S : f[s] \in Nat
  PROVE  SumFunctionOnSet(f, S) \in Nat
<1> DEFINE bad == {T \in SUBSET S : SumFunctionOnSet(f, T) \notin Nat}
<1>1. ASSUME bad # {} PROVE FALSE
  <2>1. PICK T \in bad : \A x \in T : T \ {x} \notin bad
    BY <1>1, SmallestSubset
  <2>2. SumFunctionOnSet(f, T) =
           IF T = {} THEN 0 ELSE f[first(T)] + SumFunctionOnSet(f, T \ {first(T)})
    BY <2>1, FS_Subset, SumEquation
  <2>3. T # {} => f[first(T)] \in Nat /\ SumFunctionOnSet(f, T \ {first(T)}) \in Nat
    BY <2>1, FirstIn
  <2> QED BY <2>1, <2>2, <2>3
<1> QED BY <1>1

\* Whichever element is taken out first, the sum is the same.
LEMMA SumRemove ==
  ASSUME NEW f, NEW S, IsFiniteSet(S), \A s \in S : f[s] \in Nat, NEW x \in S
  PROVE  SumFunctionOnSet(f, S) = f[x] + SumFunctionOnSet(f, S \ {x})
<1> DEFINE sum(T) == SumFunctionOnSet(f, T)
           bad == {T \in SUBSET S : \E y \in T : sum(T) # f[y] + sum(T \ {y})}
<1>1. \A T \in SUBSET S : /\ IsFiniteSet(T)
                          /\ sum(T) \in Nat
                          /\ T # {} => sum(T) = f[first(T)] + sum(T \ {first(T)})
  BY FS_Subset, SumNat, SumEquation
<1> HIDE DEF sum
<1>2. ASSUME bad # {} PROVE FALSE
  <2>1. PICK T \in bad : \A y \in T : T \ {y} \notin bad
    BY <1>2, SmallestSubset
  <2>2. PICK y \in T : sum(T) # f[y] + sum(T \ {y})
    BY <2>1
  <2> DEFINE c == first(T)
  <2>3. T \in SUBSET S /\ c \in T /\ sum(T) = f[c] + sum(T \ {c})
    BY <1>1, <2>1, <2>2, FirstIn
  <2> HIDE DEF c
  <2>4. c # y
    BY <2>2, <2>3
  <2>5. sum(T \ {c}) = f[y] + sum((T \ {c}) \ {y})
    BY <2>1, <2>2, <2>3, <2>4
  <2>6. sum(T \ {y}) = f[c] + sum((T \ {y}) \ {c})
    BY <2>1, <2>2, <2>3, <2>4
  <2> DEFINE rest == sum(T \ {c, y})
  <2>7. (T \ {c}) \ {y} = T \ {c, y} /\ (T \ {y}) \ {c} = T \ {c, y}
    OBVIOUS
  <2>8. f[c] \in Nat /\ f[y] \in Nat /\ rest \in Nat
    BY <1>1, <2>2, <2>3
  <2>9. sum(T \ {c}) = f[y] + rest /\ sum(T \ {y}) = f[c] + rest
    BY <2>5, <2>6, <2>7
  <2> HIDE DEF rest
  <2> QED BY <2>2, <2>3, <2>8, <2>9
<1> QED BY <1>2 DEF sum

\* A sum grows with its terms.
LEMMA SumMonotonic ==
  ASSUME NEW f, NEW g, NEW S, IsFiniteSet(S),
         \A s \in S : f[s] \in Nat /\ g[s] \in Nat /\ f[s] <= g[s]
  PROVE  SumFunctionOnSet(f, S) <= SumFunctionOnSet(g, S)
<1> DEFINE bad == {T \in SUBSET S : ~ (SumFunctionOnSet(f, T) <= SumFunctionOnSet(g, T))}
<1>1. ASSUME bad # {} PROVE FALSE
  <2>1. PICK T \in bad : \A x \in T : T \ {x} \notin bad
    BY <1>1, SmallestSubset
  <2>2. IsFiniteSet(T)
    BY <2>1, FS_Subset
  <2>3. /\ SumFunctionOnSet(f, T) = IF T = {} THEN 0
                          ELSE f[first(T)] + SumFunctionOnSet(f, T \ {first(T)})
        /\ SumFunctionOnSet(g, T) = IF T = {} THEN 0
                          ELSE g[first(T)] + SumFunctionOnSet(g, T \ {first(T)})
    BY <2>2, SumEquation
  <2>4. CASE T = {}
    BY <2>1, <2>3, <2>4
  <2>5. CASE T # {}
    <3>1. first(T) \in S /\ T \ {first(T)} \in SUBSET S
      BY <2>1, <2>5, FirstIn
    <3>2. /\ SumFunctionOnSet(f, T \ {first(T)}) \in Nat
          /\ SumFunctionOnSet(g, T \ {first(T)}) \in Nat
      BY <3>1, FS_Subset, SumNat
    <3>3. SumFunctionOnSet(f, T \ {first(T)}) <= SumFunctionOnSet(g, T \ {first(T)})
      BY <2>1, <2>5, <3>1, FirstIn
    <3>4. f[first(T)] \in Nat /\ g[first(T)] \in Nat /\ f[first(T)] <= g[first(T)]
      BY <3>1
    <3> QED BY <2>1, <2>3, <2>5, <3>2, <3>3, <3>4
  <2> QED BY <2>4, <2>5
<1> QED BY <1>1

\* And by as much as one of its terms does.
LEMMA SumGrows ==
  ASSUME NEW f, NEW g, NEW S, IsFiniteSet(S),
         \A s \in S : f[s] \in Nat /\ g[s] \in Nat /\ f[s] <= g[s],
         NEW x \in S, NEW d \in Int, f[x] + d <= g[x]
  PROVE  SumFunctionOnSet(f, S) + d <= SumFunctionOnSet(g, S)
<1> DEFINE R == S \ {x}
<1>1. IsFiniteSet(R) /\ R \subseteq S
  BY FS_Subset
<1>2. /\ SumFunctionOnSet(f, S) = f[x] + SumFunctionOnSet(f, R)
      /\ SumFunctionOnSet(g, S) = g[x] + SumFunctionOnSet(g, R)
  BY SumRemove
<1> HIDE DEF R
<1>3. /\ SumFunctionOnSet(f, R) \in Nat /\ SumFunctionOnSet(g, R) \in Nat
      /\ SumFunctionOnSet(f, R) <= SumFunctionOnSet(g, R)
  BY <1>1, SumNat, SumMonotonic
<1> QED BY <1>2, <1>3

\* Equal terms have equal sums.
LEMMA SumEqual ==
  ASSUME NEW f, NEW g, NEW S, IsFiniteSet(S), \A s \in S : f[s] \in Nat /\ f[s] = g[s]
  PROVE  SumFunctionOnSet(f, S) = SumFunctionOnSet(g, S)
<1>1. /\ SumFunctionOnSet(f, S) <= SumFunctionOnSet(g, S)
      /\ SumFunctionOnSet(g, S) <= SumFunctionOnSet(f, S)
  BY SumMonotonic
<1>2. SumFunctionOnSet(f, S) \in Nat /\ SumFunctionOnSet(g, S) \in Nat
  BY SumNat
<1> QED BY <1>1, <1>2

\* A new term is added.
LEMMA SumAdds ==
  ASSUME NEW f, NEW g, NEW S, IsFiniteSet(S), NEW x, x \notin S,
         \A s \in S : f[s] \in Nat /\ f[s] = g[s], g[x] \in Nat
  PROVE  SumFunctionOnSet(g, S \cup {x}) = SumFunctionOnSet(f, S) + g[x]
<1>1. IsFiniteSet(S \cup {x}) /\ (S \cup {x}) \ {x} = S
  BY FS_AddElement
<1>2. SumFunctionOnSet(g, S \cup {x}) = g[x] + SumFunctionOnSet(g, S)
  BY <1>1, SumRemove
<1>3. SumFunctionOnSet(f, S) = SumFunctionOnSet(g, S) /\ SumFunctionOnSet(g, S) \in Nat
  BY SumEqual, SumNat
<1> QED BY <1>2, <1>3

\* A sum changes by what one term does.
LEMMA SumChanges ==
  ASSUME NEW f, NEW g, NEW S, IsFiniteSet(S), NEW x \in S,
         \A s \in S : f[s] \in Nat /\ g[s] \in Nat /\ (s # x => f[s] = g[s])
  PROVE  SumFunctionOnSet(g, S) = SumFunctionOnSet(f, S) - f[x] + g[x]
<1> DEFINE R == S \ {x}
<1>1. IsFiniteSet(R) /\ R \subseteq S /\ \A s \in R : f[s] \in Nat /\ f[s] = g[s]
  BY FS_Subset
<1>2. /\ SumFunctionOnSet(f, S) = f[x] + SumFunctionOnSet(f, R)
      /\ SumFunctionOnSet(g, S) = g[x] + SumFunctionOnSet(g, R)
  BY SumRemove
<1> HIDE DEF R
<1>3. SumFunctionOnSet(f, R) = SumFunctionOnSet(g, R) /\ SumFunctionOnSet(g, R) \in Nat
  BY <1>1, SumEqual, SumNat
<1> QED BY <1>2, <1>3

\* A non-empty finite set of naturals has a maximum.
LEMMA MaxExists ==
  ASSUME NEW S \in SUBSET Nat, IsFiniteSet(S), S # {}
  PROVE  Max(S) \in S /\ \A x \in S : x <= Max(S)
<1> DEFINE top(T) == \E m \in T : \A x \in T : x <= m
           bad == {T \in SUBSET S : T # {} /\ ~ top(T)}
<1>1. ASSUME bad # {} PROVE FALSE
  <2>1. PICK T \in bad : \A x \in T : T \ {x} \notin bad
    BY <1>1, SmallestSubset
  <2>2. PICK y \in T : TRUE
    BY <2>1
  <2>3. CASE T \ {y} = {}
    BY <2>1, <2>2, <2>3
  <2>4. CASE T \ {y} # {}
    <3>1. PICK m \in T \ {y} : \A x \in T \ {y} : x <= m
      BY <2>1, <2>2, <2>4
    <3>2. m \in Nat /\ y \in Nat
      BY <2>1, <2>2, <3>1
    <3>3. \A x \in T : x \in Nat /\ (x = y \/ x <= m)
      BY <2>1, <3>1
    <3>4. top(T)
      <4>1. CASE m <= y
        BY <2>2, <3>2, <3>3, <4>1
      <4>2. CASE y <= m
        BY <3>1, <3>2, <3>3, <4>2
      <4> QED BY <3>2, <4>1, <4>2
    <3> QED BY <2>1, <3>4
  <2> QED BY <2>3, <2>4
<1>2. PICK m \in S : \A x \in S : x <= m
  BY <1>1
<1>3. \E m2 \in S : \A y \in S : m2 >= y
  BY <1>2
<1> QED BY <1>3 DEF Max

-----------------------------------------------------------------------------
(* The rewards paid.  A position has been paid up to its last claim, and a  *)
(* closed one at most up to now; between them the positions have been paid  *)
(* all that the supply holds and totalMintedTokens does not.                *)
position(q) == positions[q[1]][q[2]]
paidUntil(p) == IF p.amount > 0 THEN p.lastClaimTime ELSE now

Paid == [q \in Opened |-> Max(StakeAmounts) * (paidUntil(position(q)) - position(q).startTime)]

PositionsSound ==
  \A q \in Opened :
    /\ StakeAmounts # {}
    /\ position(q).amount \in StakeAmounts \cup {0}
    /\ position(q).startTime <= position(q).lastClaimTime
    /\ position(q).accumulatedRewards = 0

Uncounted == supply + burnedTokens - totalMintedTokens

RewardsPaid == Uncounted * ONE_YEAR <= SumFunctionOnSet(Paid, Opened)

\* And totalStaked is what is still in them.
StakeOf == [q \in Opened |-> position(q).amount]

StakedCounted == totalStaked = SumFunctionOnSet(StakeOf, Opened)

PositionsInv == IsFiniteSet(Opened) /\ PositionsSound /\ RewardsPaid /\ StakedCounted

\* A year's rewards are at most the amount: ONE_YEAR times the rewards of a
\* time is at most the amount for each tick of it.
LEMMA YearlyRate ==
  ASSUME NEW amount \in Nat, NEW apy \in Nat, apy <= 10000, NEW d \in Nat, NEW Y \in Nat \ {0}
  PROVE  ((amount * apy * d) \div (Y * 10000)) * Y <= amount * d
<1> DEFINE total == amount * apy * d
           n == Y * 10000
           x == total \div n
           a == amount * d
<1>1. a \in Nat /\ total \in Nat /\ n \in Nat \ {0}
  BY ProductNat
<1>2. x \in Nat /\ x * n <= total
  <2> HIDE DEF total, n
  <2> QED BY <1>1, DivNat, DivProduct
<1>3. total = apy * a
  OBVIOUS
<1> HIDE DEF x, a, total
<1>4. apy * a <= 10000 * a /\ apy * a \in Nat
  BY <1>1, ProductMonotonic, ProductNat
<1>5. x * Y \in Nat /\ x * n = (x * Y) * 10000
  <2>1. x * Y \in Nat
    BY <1>2, ProductNat
  <2>2. x * n = (x * Y) * 10000
    BY <1>2
  <2> QED BY <2>1, <2>2
<1>6. (x * Y) * 10000 <= 10000 * a
  BY <1>1, <1>2, <1>3, <1>4, <1>5
<1>7. x * Y <= a
  BY <1>1, <1>5, <1>6
<1> QED BY <1>7 DEF x, a, total

LEMMA LargestStake ==
  ASSUME StakeAmounts # {}
  PROVE  Max(StakeAmounts) \in Nat /\ \A amount \in StakeAmounts \cup {0} : amount <= Max(StakeAmounts)
<1> DEFINE m == Max(StakeAmounts)
<1>1. StakeAmounts \subseteq Nat
  BY StakingAssumption
<1>2. m \in StakeAmounts /\ \A x \in StakeAmounts : x <= m
  BY <1>1, StakingAssumption, MaxExists
<1> HIDE DEF m
<1>3. m \in Nat
  BY <1>1, <1>2
<1>4. \A amount \in StakeAmounts \cup {0} : amount <= m
  BY <1>2, <1>3
<1> QED BY <1>3, <1>4 DEF m

\* A position that was opened is one, and its claim time is behind the block.
LEMMA OpenedPosition ==
  ASSUME LedgerInv, NEW q \in Opened
  PROVE  /\ q[1] \in Addr /\ q[2] \in 1 .. Len(positions[q[1]])
         /\ q = <<q[1], q[2]>>
         /\ position(q) \in StakingPosition
         /\ position(q).lastClaimTime <= now
<1>1. PICK u \in Addr : q \in {u} \X DOMAIN positions[u]
  BY DEF Opened
<1>2. positions[u] \in Seq(StakingPosition)
  BY DEF LedgerInv, TypeOK
<1>3. q = <<q[1], q[2]>> /\ q[1] = u /\ q[2] \in 1 .. Len(positions[u])
  BY <1>1, <1>2
<1>4. position(q) \in StakingPosition
  BY <1>2, <1>3 DEF position
<1> QED BY <1>1, <1>3, <1>4 DEF LedgerInv, PositionsPast, position

\* What a position has been paid is a natural, and no more than a full year's
\* rate on the largest stake for the time since it was opened.
LEMMA PaidWithin ==
  ASSUME LedgerInv, PositionsSound, NEW q \in Opened
  PROVE  /\ Paid[q] \in Nat
         /\ Max(StakeAmounts) * (now - position(q).startTime) \in Nat
         /\ Paid[q] <= Max(StakeAmounts) * (now - position(q).startTime)
<1> DEFINE p == position(q)
           m == Max(StakeAmounts)
<1>1. m \in Nat /\ p.startTime <= p.lastClaimTime /\ p.lastClaimTime <= now
  BY LargestStake, OpenedPosition DEF PositionsSound
<1>2. p.startTime \in Nat /\ p.lastClaimTime \in Nat /\ now \in Nat
  BY OpenedPosition DEF StakingPosition, LedgerInv, TypeOK
<1>3. Paid[q] = m * (paidUntil(p) - p.startTime)
  BY DEF Paid
<1> HIDE DEF p, m
<1> DEFINE d == paidUntil(p) - p.startTime
           e == now - p.startTime
<1>4. d \in Nat /\ e \in Nat /\ d <= e
  BY <1>1, <1>2 DEF paidUntil
<1> HIDE DEF d, e
<1>5. d * m \in Nat /\ e * m \in Nat /\ d * m <= e * m
  BY <1>1, <1>4, ProductNat, ProductMonotonic
<1>6. m * d = d * m /\ m * e = e * m
  BY <1>1, <1>4
<1> QED BY <1>3, <1>5, <1>6 DEF d, e, m, p

\* What the supply has beyond the count is a number.
LEMMA UncountedInt ==
  ASSUME LedgerInv
  PROVE  Uncounted \in Int /\ ONE_YEAR \in Nat /\ Uncounted * ONE_YEAR \in Int
<1>1. ONE_YEAR \in Nat
  BY StorageAssumption
<1>2. Uncounted \in Int
  BY DEF LedgerInv, TypeOK, Uncounted
<1> QED BY <1>1, <1>2

\* The invariant bounds the rewards.
LEMMA PaidBounds == ASSUME LedgerInv, PositionsInv PROVE RewardsBounded
<1> DEFINE due == [q \in Opened |-> Max(StakeAmounts) * (now - position(q).startTime)]
<1>1. \A q \in Opened : Paid[q] \in Nat /\ due[q] \in Nat /\ Paid[q] <= due[q]
  BY PaidWithin DEF PositionsInv
<1>2. DOMAIN due = Opened
  OBVIOUS
<1>3. RewardsBounded <=> Uncounted * ONE_YEAR <= SumFunction(due)
  BY DEF RewardsBounded, Uncounted, position
<1> HIDE DEF due
<1>4. SumFunctionOnSet(Paid, Opened) <= SumFunctionOnSet(due, Opened)
  BY <1>1, SumMonotonic DEF PositionsInv
<1>5. SumFunctionOnSet(Paid, Opened) \in Nat /\ SumFunctionOnSet(due, Opened) \in Nat
  BY <1>1, SumNat DEF PositionsInv
<1>6. Uncounted * ONE_YEAR \in Int
  BY UncountedInt
<1>7. Uncounted * ONE_YEAR <= SumFunctionOnSet(due, Opened)
  BY <1>4, <1>5, <1>6 DEF PositionsInv, RewardsPaid
<1> QED BY <1>2, <1>3, <1>7 DEF SumFunction

\* A step that leaves the positions alone and mints nothing it does not count.
LEMMA RewardsKept ==
  ASSUME LedgerInv, PositionsInv, LedgerInv', UNCHANGED stakeVars,
         now <= now', Uncounted' <= Uncounted
  PROVE  PositionsInv'
<1>1. Opened' = Opened /\ \A q \in Opened : position(q)' = position(q)
  BY DEF stakeVars, Opened, position
<1>2. IsFiniteSet(Opened') /\ PositionsSound'
  BY <1>1 DEF PositionsInv, PositionsSound
<1>3. ASSUME NEW q \in Opened
      PROVE  Paid[q] \in Nat /\ Paid'[q] \in Nat /\ Paid[q] <= Paid'[q]
  <2> DEFINE p == position(q)
             m == Max(StakeAmounts)
             d == paidUntil(p) - p.startTime
             e == IF p.amount > 0 THEN p.lastClaimTime - p.startTime ELSE now' - p.startTime
  <2>1. p \in StakingPosition /\ p.lastClaimTime <= now /\ p.startTime <= p.lastClaimTime /\ m \in Nat
    BY LargestStake, OpenedPosition DEF PositionsInv, PositionsSound
  <2>2. now \in Nat /\ now' \in Nat /\ p.startTime \in Nat /\ p.lastClaimTime \in Nat
    BY <2>1 DEF LedgerInv, TypeOK, StakingPosition
  <2>3. Paid[q] = m * d
    BY DEF Paid
  <2>4. Paid'[q] = m * e
    BY <1>1 DEF Paid, paidUntil
  <2> HIDE DEF p, m
  <2>5. d \in Nat /\ e \in Nat /\ d <= e
    BY <2>1, <2>2 DEF paidUntil
  <2> HIDE DEF d, e
  <2>6. d * m \in Nat /\ e * m \in Nat /\ d * m <= e * m
    BY <2>1, <2>5, ProductNat, ProductMonotonic
  <2>7. m * d = d * m /\ m * e = e * m
    BY <2>1, <2>5
  <2> QED BY <2>3, <2>4, <2>6, <2>7
<1>4. SumFunctionOnSet(Paid, Opened) <= SumFunctionOnSet(Paid', Opened)
  BY <1>3, SumMonotonic DEF PositionsInv
<1>5. SumFunctionOnSet(Paid, Opened) \in Nat /\ SumFunctionOnSet(Paid', Opened) \in Nat
  BY <1>3, SumNat DEF PositionsInv
<1>6. Uncounted \in Int /\ Uncounted' \in Int /\ ONE_YEAR \in Nat
  BY UncountedInt, StorageAssumption DEF LedgerInv, TypeOK, Uncounted
<1>7. Uncounted' * ONE_YEAR <= Uncounted * ONE_YEAR
  BY <1>6, ProductMonotonic
<1>8. Uncounted' * ONE_YEAR <= SumFunctionOnSet(Paid', Opened')
  BY <1>1, <1>4, <1>5, <1>6, <1>7 DEF PositionsInv, RewardsPaid
<1>9. StakedCounted'
  <2>1. StakeOf' = StakeOf
    BY <1>1 DEF StakeOf
  <2> QED BY <1>1, <2>1 DEF PositionsInv, StakedCounted, stakeVars
<1> QED BY <1>2, <1>8, <1>9 DEF PositionsInv, RewardsPaid

\* Opening a position pays it nothing.
LEMMA CreateStakePaysNothing ==
  ASSUME LedgerInv, PositionsInv, LedgerInv', NEW user \in Users, NEW amount \in StakeAmounts,
         NEW lockPeriod \in LockPeriods, createStake(user, amount, lockPeriod)
  PROVE  PositionsInv'
<1> PICK n : n = Len(positions[user]) + 1
  OBVIOUS
<1> DEFINE x == <<user, n>>
<1> PICK p : p = [amount |-> amount, startTime |-> now,
                  endTime |-> IF lockPeriod > 0 THEN now + lockPeriod ELSE 0,
                  lastClaimTime |-> now, accumulatedRewards |-> 0]
  OBVIOUS
<1>1. /\ user \in Addr /\ positions[user] \in Seq(StakingPosition)
      /\ positions \in [Addr -> Seq(StakingPosition)] /\ now \in Nat
  BY PositionsTyped DEF LedgerInv, TypeOK
<1>2. /\ positions' = [positions EXCEPT ![user] = Append(@, p)]
      /\ p.amount = amount /\ p.startTime = now /\ p.lastClaimTime = now
      /\ p.accumulatedRewards = 0
  BY DEF createStake
<1>3. positions'[user] = Append(positions[user], p) /\ \A u \in Addr : u # user => positions'[u] = positions[u]
  BY <1>1, <1>2
<1>4. DOMAIN positions'[user] = DOMAIN positions[user] \cup {n} /\ n \notin DOMAIN positions[user]
  BY <1>1, <1>3
<1>5. positions'[user][n] = p /\ \A i \in DOMAIN positions[user] : positions'[user][i] = positions[user][i]
  BY <1>1, <1>3
<1>6. Opened' = Opened \cup {x}
  BY <1>1, <1>3, <1>4 DEF Opened
<1>7. x \notin Opened
  BY <1>1, <1>4 DEF Opened
<1>8. position(x)' = p
  BY <1>5 DEF position
<1>9. ASSUME NEW q \in Opened PROVE position(q)' = position(q)
  <2>1. q[1] \in Addr /\ q[2] \in 1 .. Len(positions[q[1]])
    BY OpenedPosition
  <2>2. CASE q[1] = user
    BY <1>1, <1>5, <2>1, <2>2 DEF position
  <2>3. CASE q[1] # user
    BY <1>3, <2>1, <2>3 DEF position
  <2> QED BY <2>2, <2>3
<1> HIDE DEF x
<1>10. IsFiniteSet(Opened')
  BY <1>6, FS_AddElement DEF PositionsInv
<1>11. PositionsSound'
  BY <1>1, <1>2, <1>6, <1>8, <1>9 DEF PositionsInv, PositionsSound
<1>12. now' = now /\ Uncounted' = Uncounted
  BY DEF createStake, countVars, Uncounted
<1>13. \A q \in Opened : Paid[q] \in Nat /\ Paid'[q] = Paid[q]
  BY <1>6, <1>9, <1>12, PaidWithin DEF PositionsInv, Paid, paidUntil
<1>14. Paid'[x] = 0
  <2>1. Paid'[x] = Max(StakeAmounts) * (paidUntil(p)' - p.startTime)
    BY <1>6, <1>8 DEF Paid, paidUntil
  <2>2. paidUntil(p)' - p.startTime = 0
    BY <1>1, <1>2, <1>12 DEF paidUntil
  <2> QED BY <2>1, <2>2, LargestStake
<1>15. SumFunctionOnSet(Paid', Opened \cup {x}) = SumFunctionOnSet(Paid, Opened) + 0
  <2>1. IsFiniteSet(Opened)
    BY DEF PositionsInv
  <2>2. /\ \A q \in Opened : Paid[q] \in Nat /\ Paid[q] = Paid'[q]
        /\ Paid'[x] \in Nat
    BY <1>13, <1>14
  <2>3. SumFunctionOnSet(Paid', Opened \cup {x}) = SumFunctionOnSet(Paid, Opened) + Paid'[x]
    BY <1>7, <2>1, <2>2, SumAdds
  <2> QED BY <1>14, <2>3
<1>16. SumFunctionOnSet(Paid, Opened) \in Nat
  BY <1>13, SumNat DEF PositionsInv
<1>17. Uncounted * ONE_YEAR \in Int
  BY UncountedInt
<1>18. RewardsPaid'
  BY <1>6, <1>12, <1>15, <1>16, <1>17 DEF PositionsInv, RewardsPaid
<1>19. StakedCounted'
  <2>1. \A q \in Opened : StakeOf[q] \in Nat /\ StakeOf[q] = StakeOf'[q]
    BY <1>6, <1>9, OpenedPosition DEF StakeOf, StakingPosition
  <2>2. StakeOf'[x] = amount /\ amount \in Nat
    BY <1>2, <1>6, <1>8, StakingAssumption DEF StakeOf
  <2>3. SumFunctionOnSet(StakeOf', Opened') = SumFunctionOnSet(StakeOf, Opened) + amount
    <3>1. IsFiniteSet(Opened) /\ StakeOf'[x] \in Nat
      BY <2>2 DEF PositionsInv
    <3>2. SumFunctionOnSet(StakeOf', Opened \cup {x}) = SumFunctionOnSet(StakeOf, Opened) + StakeOf'[x]
      BY <1>7, <2>1, <3>1, SumAdds
    <3> QED BY <1>6, <2>2, <3>2
  <2>4. totalStaked' = totalStaked + amount
    BY DEF createStake
  <2> QED BY <2>3, <2>4 DEF PositionsInv, StakedCounted
<1> QED BY <1>10, <1>11, <1>18, <1>19 DEF PositionsInv

\* Rewards for a time the position had not been paid for: ONE_YEAR times them
\* is at most the largest stake for each tick since the last claim.
LEMMA RewardsWithin ==
  ASSUME TypeOK, NEW p \in StakingPosition, p.lastClaimTime <= now, p.accumulatedRewards = 0,
         StakeAmounts # {}, p.amount \in StakeAmounts \cup {0}
  PROVE  calculateRewards(p) * ONE_YEAR <= Max(StakeAmounts) * (now - p.lastClaimTime)
<1> DEFINE d == now - p.lastClaimTime
           m == Max(StakeAmounts)
           apy == getAPY(p)
<1>1. apy \in Nat /\ apy <= 10000
  <2>1. \A b \in BasisPoints : b \in Nat /\ b <= 10000
    BY DEF BasisPoints
  <2>2. /\ apyRates.oneYearAPY \in BasisPoints
        /\ apyRates.sixMonthAPY \in BasisPoints
        /\ apyRates.threeMonthAPY \in BasisPoints
        /\ apyRates.defaultAPY \in BasisPoints
    BY DEF TypeOK, APYRates
  <2> QED BY <2>1, <2>2 DEF getAPY
<1>2. d \in Nat /\ p.amount \in Nat /\ m \in Nat /\ p.amount <= m
  BY LargestStake DEF TypeOK, StakingPosition
<1>3. ONE_YEAR \in Nat \ {0}
  BY StorageAssumption
<1> HIDE DEF m
<1>4. p.amount * d <= m * d /\ m * d \in Nat
  BY <1>2, ProductNat, ProductMonotonic
<1>5. CASE p.amount = 0
  BY <1>3, <1>4, <1>5 DEF calculateRewards, m
<1>6. CASE p.amount # 0
  <2>1. ((p.amount * apy * d) \div (ONE_YEAR * 10000)) \in Nat
    <3>1. p.amount * apy * d \in Nat /\ ONE_YEAR * 10000 \in Nat \ {0}
      BY <1>1, <1>2, <1>3, ProductNat
    <3> QED BY <3>1, DivNat
  <2>2. calculateRewards(p) = (p.amount * apy * d) \div (ONE_YEAR * 10000)
    BY <1>6, <2>1 DEF calculateRewards
  <2> HIDE DEF apy, d
  <2>3. calculateRewards(p) * ONE_YEAR <= p.amount * d
    <3>1. ((p.amount * apy * d) \div (ONE_YEAR * 10000)) * ONE_YEAR <= p.amount * d
      BY <1>1, <1>2, <1>3, YearlyRate
    <3> QED BY <2>2, <3>1
  <2>4. calculateRewards(p) * ONE_YEAR \in Nat /\ p.amount * d \in Nat
    BY <1>2, <1>3, <2>1, <2>2, ProductNat
  <2> QED BY <1>4, <2>3, <2>4 DEF d, m
<1> QED BY <1>5, <1>6

\* A payment out of one position takes it to now.
LEMMA StakePaid ==
  ASSUME LedgerInv, PositionsInv, LedgerInv', NEW user \in Users, NEW id \in DOMAIN positions[user],
         NEW p \in StakingPosition, NEW r \in Nat,
         positions[user][id].amount > 0,
         positions' = WithPosition(positions, user, id, p), now' = now,
         p.amount \in {0, positions[user][id].amount}, p.amount > 0 => p.lastClaimTime = now,
         p.startTime = positions[user][id].startTime, p.startTime <= p.lastClaimTime,
         p.accumulatedRewards = 0,
         r <= calculateRewards(positions[user][id]), Uncounted' = Uncounted + r,
         totalStaked' = totalStaked - positions[user][id].amount + p.amount
  PROVE  PositionsInv'
<1>0. PICK x, old, s : /\ x = <<user, id>> /\ old = positions[user][id]
                       /\ s = [positions[user] EXCEPT ![id] = p]
  OBVIOUS
<1>1. /\ user \in Addr /\ positions[user] \in Seq(StakingPosition)
      /\ positions \in [Addr -> Seq(StakingPosition)] /\ now \in Nat
  <2>1. user \in Addr /\ positions[user] \in Seq(StakingPosition)
    BY PositionsTyped
  <2> QED BY <2>1 DEF LedgerInv, TypeOK
<1>2. positions' = [positions EXCEPT ![user] = s]
  BY <1>0 DEF WithPosition
<1>3. /\ DOMAIN s = DOMAIN positions[user] /\ s[id] = p
      /\ \A i \in DOMAIN positions[user] : i # id => s[i] = positions[user][i]
  BY <1>0, <1>1
<1>4. positions'[user] = s /\ \A u \in Addr : u # user => positions'[u] = positions[u]
  BY <1>1, <1>2
<1>5. Opened' = Opened
  <2>1. \A u \in Addr : DOMAIN positions'[u] = DOMAIN positions[u]
    BY <1>3, <1>4
  <2> QED BY <2>1 DEF Opened
<1>6. x \in Opened /\ position(x) = old
  BY <1>0, <1>1 DEF Opened, position
<1>7. position(x)' = p
  BY <1>0, <1>3, <1>4 DEF position
<1>8. ASSUME NEW q \in Opened, q # x PROVE position(q)' = position(q)
  <2>1. q[1] \in Addr /\ q[2] \in DOMAIN positions[q[1]] /\ q = <<q[1], q[2]>>
    <3>1. q[1] \in Addr /\ q[2] \in 1 .. Len(positions[q[1]]) /\ q = <<q[1], q[2]>>
      BY OpenedPosition
    <3> QED BY <1>1, <3>1
  <2>2. CASE q[1] = user
    BY <1>0, <1>3, <1>4, <1>8, <2>1, <2>2 DEF position
  <2>3. CASE q[1] # user
    BY <1>4, <2>1, <2>3 DEF position
  <2> QED BY <2>2, <2>3
<1>9. /\ StakeAmounts # {} /\ old.amount \in StakeAmounts \cup {0} /\ old.amount > 0
      /\ old.startTime <= old.lastClaimTime /\ old.accumulatedRewards = 0
      /\ old \in StakingPosition /\ old.lastClaimTime <= now
  BY <1>0, <1>6, OpenedPosition DEF PositionsInv, PositionsSound
<1>10. PositionsSound'
  <2>1. p.amount \in StakeAmounts \cup {0}
    BY <1>0, <1>9
  <2> QED BY <1>5, <1>7, <1>8, <1>9, <2>1 DEF PositionsInv, PositionsSound
<1>11. PICK m : m = Max(StakeAmounts) /\ m \in Nat
  BY <1>9, LargestStake
<1>12. PICK a, b, d \in Nat : /\ a = old.lastClaimTime - old.startTime
                              /\ b = now - old.startTime
                              /\ d = now - old.lastClaimTime /\ b = a + d
  <2>1. old.startTime \in Nat /\ old.lastClaimTime \in Nat
    BY <1>9 DEF StakingPosition
  <2> QED BY <1>1, <1>9, <2>1
<1>13. Paid[x] = m * a
  BY <1>6, <1>9, <1>11, <1>12 DEF Paid, paidUntil
<1>14. Paid'[x] = m * b
  <2>1. Paid'[x] = m * (paidUntil(p)' - p.startTime)
    BY <1>5, <1>6, <1>7, <1>11 DEF Paid, paidUntil
  <2>2. paidUntil(p)' = now
    BY <1>9 DEF paidUntil, StakingPosition
  <2> QED BY <1>0, <1>12, <2>1, <2>2
<1>15. r * ONE_YEAR \in Nat /\ Paid[x] + r * ONE_YEAR <= Paid'[x] /\ m * a \in Nat /\ m * b \in Nat
  <2>1. calculateRewards(old) * ONE_YEAR <= m * d
    BY <1>9, <1>11, <1>12, RewardsWithin DEF LedgerInv
  <2>2. calculateRewards(old) \in Nat /\ ONE_YEAR \in Nat
    BY <1>9, RewardsNat, StorageAssumption DEF LedgerInv
  <2>3. r * ONE_YEAR <= calculateRewards(old) * ONE_YEAR
    BY <1>0, <2>2, ProductMonotonic
  <2>4. m * b = m * a + m * d
    <3>1. m * (a + d) = m * a + m * d
      BY <1>11
    <3> QED BY <1>12, <3>1
  <2>5. m * a \in Nat /\ m * b \in Nat /\ m * d \in Nat /\ r * ONE_YEAR \in Nat
        /\ calculateRewards(old) * ONE_YEAR \in Nat
    BY <1>11, <1>12, <2>2, ProductNat
  <2> QED BY <1>13, <1>14, <2>1, <2>3, <2>4, <2>5
<1>16. \A q \in Opened : Paid[q] \in Nat /\ Paid'[q] \in Nat /\ Paid[q] <= Paid'[q]
  <2>1. ASSUME NEW q \in Opened, q # x PROVE Paid[q] \in Nat /\ Paid'[q] = Paid[q]
    BY <1>5, <1>8, <2>1, PaidWithin DEF PositionsInv, Paid, paidUntil
  <2> QED BY <1>13, <1>14, <1>15, <2>1
<1>17. SumFunctionOnSet(Paid, Opened) + r * ONE_YEAR <= SumFunctionOnSet(Paid', Opened)
  BY <1>6, <1>15, <1>16, SumGrows DEF PositionsInv
<1>18. SumFunctionOnSet(Paid, Opened) \in Nat /\ SumFunctionOnSet(Paid', Opened) \in Nat
  BY <1>16, SumNat DEF PositionsInv
<1>19. Uncounted' * ONE_YEAR = Uncounted * ONE_YEAR + r * ONE_YEAR /\ Uncounted * ONE_YEAR \in Int
  <2>1. Uncounted \in Int /\ ONE_YEAR \in Nat /\ Uncounted * ONE_YEAR \in Int
    BY UncountedInt
  <2>2. (Uncounted + r) * ONE_YEAR = Uncounted * ONE_YEAR + r * ONE_YEAR
    BY <2>1
  <2> QED BY <2>1, <2>2
<1>20. RewardsPaid'
  BY <1>5, <1>15, <1>17, <1>18, <1>19 DEF PositionsInv, RewardsPaid
<1>21. StakedCounted'
  <2>1. \A q \in Opened : StakeOf[q] \in Nat
    BY OpenedPosition DEF StakeOf, StakingPosition
  <2>2. \A q \in Opened : q # x => StakeOf'[q] = StakeOf[q]
    BY <1>5, <1>8 DEF StakeOf
  <2>3. StakeOf[x] = old.amount /\ StakeOf'[x] = p.amount /\ p.amount \in Nat
    BY <1>5, <1>6, <1>7 DEF StakeOf, StakingPosition
  <2>4. \A q \in Opened : StakeOf'[q] \in Nat
    BY <2>1, <2>2, <2>3
  <2>5. SumFunctionOnSet(StakeOf', Opened) = SumFunctionOnSet(StakeOf, Opened) - old.amount + p.amount
    BY <1>6, <2>1, <2>2, <2>3, <2>4, SumChanges DEF PositionsInv
  <2> QED BY <1>0, <1>5, <2>5 DEF PositionsInv, StakedCounted
<1> QED BY <1>5, <1>10, <1>20, <1>21 DEF PositionsInv

-----------------------------------------------------------------------------
(* No other operation mints a token it does not count: a batch mints at most *)
(* the two halves of every entry, and counts them all.                       *)
LEMMA BatchCounts ==
  ASSUME LedgerInv, NEW users \in Batches, NEW paid \in SUBSET elements(users),
         mintBatch(users, paid)
  PROVE  Uncounted' <= Uncounted
<1>1. PICK n, c : n = Len(users) /\ c = Cardinality(paid)
  OBVIOUS
<1>2. n \in Nat /\ c \in Nat /\ c <= n
  <2>1. users \in Seq(Addr)
    BY MintingAssumption
  <2> QED BY <1>1, <2>1, ElementsFinite
<1>3. /\ supply' = supply + (n + c) * HALF_SHAHI
      /\ totalMintedTokens' = totalMintedTokens + n * ONE_SHAHI
      /\ burnedTokens' = burnedTokens
  BY <1>1 DEF mintBatch
<1>4. HALF_SHAHI \in Nat
  BY StorageAssumption
<1>5. (n + c) * HALF_SHAHI <= n * ONE_SHAHI
  <2>1. (n + c) * HALF_SHAHI <= (n + n) * HALF_SHAHI
    BY <1>2, <1>4, ProductMonotonic
  <2>2. (n + n) * HALF_SHAHI = n * ONE_SHAHI
    BY <1>2, <1>4 DEF ONE_SHAHI
  <2> QED BY <2>1, <2>2
<1>6. /\ supply \in Int /\ burnedTokens \in Int /\ totalMintedTokens \in Int
      /\ (n + c) * HALF_SHAHI \in Nat /\ n * ONE_SHAHI \in Nat
  <2>1. n + c \in Nat /\ ONE_SHAHI \in Nat
    BY <1>2, <1>4 DEF ONE_SHAHI
  <2> QED BY <1>2, <1>4, <2>1, ProductNat DEF LedgerInv, TypeOK
<1> QED BY <1>3, <1>5, <1>6 DEF Uncounted

LEMMA MintingCounts == ASSUME LedgerInv, LedgerInv', MintingNext PROVE Uncounted' <= Uncounted
<1>1. /\ supply \in Int /\ burnedTokens \in Int /\ totalMintedTokens \in Int
      /\ supply' \in Int /\ burnedTokens' \in Int /\ totalMintedTokens' \in Int
  BY DEF LedgerInv, TypeOK
<1>2. ASSUME NEW minted \in Int, supply' = supply + minted,
             totalMintedTokens' = totalMintedTokens + minted, burnedTokens' = burnedTokens
      PROVE  Uncounted' <= Uncounted
  BY <1>1, <1>2 DEF Uncounted
<1>3. ONE_SHAHI \in Int /\ ADMIN_INITIAL_MINT \in Int
  BY StorageAssumption DEF ONE_SHAHI
<1>4. ASSUME NEW user, mintSplit(user), burnedTokens' = burnedTokens PROVE Uncounted' <= Uncounted
  BY <1>2, <1>3, <1>4 DEF mintSplit
<1>5. CASE \E user \in Addr, device \in Devices : firstTimeMint(user, device)
  BY <1>2, <1>3, <1>4, <1>5 DEF firstTimeMint
<1>6. CASE \E user \in Addr, signer \in Users, device \in Devices :
             annualMint(user, device, signer) \/ regularMint(user, device, signer)
  BY <1>4, <1>6 DEF annualMint, regularMint
<1>7. CASE \E caller \in Users, user \in Addr : mintForNewUser(caller, user)
  BY <1>4, <1>7 DEF mintForNewUser
<1>8. CASE \E users \in Batches : batchMintForNewUsers(users) \/ batchAnnualMint(users)
  BY <1>8, BatchCounts DEF batchMintForNewUsers, batchAnnualMint
<1>9. CASE \E to \in Addr, amount \in MintAmounts : adminMint(to, amount) \/ mint(to, amount)
  BY <1>2, <1>9, MintingAssumption DEF adminMint, mint, ownerMint
<1>10. CASE \E recipients \in Batches, amount \in MintAmounts : adminMintBatch(recipients, amount)
  <2> PICK recipients \in Batches, amount \in MintAmounts : adminMintBatch(recipients, amount)
    BY <1>10
  <2>1. Len(recipients) * amount \in Int
    BY MintingAssumption
  <2> QED BY <1>2, <2>1 DEF adminMintBatch
<1> QED BY <1>5, <1>6, <1>7, <1>8, <1>9, <1>10 DEF MintingNext

\* Neither do transfers, burns and sweeps: what leaves the supply was burned.
LEMMA BurningCounts ==
  ASSUME LedgerInv, LedgerInv', NEW burnt, supply' = supply - burnt,
         burnedTokens' = burnedTokens + burnt, burnt \in Int, UNCHANGED totalMintedTokens
  PROVE  Uncounted' <= Uncounted
  BY DEF LedgerInv, TypeOK, Uncounted

LEMMA StakeStepPays ==
  ASSUME LedgerInv, PositionsInv, LedgerInv', NEW user \in Users, NEW id \in DOMAIN positions[user],
         StakeStep(user, id)
  PROVE  PositionsInv'
<1> DEFINE old == positions[user][id]
           full == calculateRewards(old)
<1>1. /\ user \in Addr /\ old \in StakingPosition /\ old.lastClaimTime <= now
      /\ id \in 1 .. Len(positions[user]) /\ positions \in [Addr -> Seq(StakingPosition)]
  <2>1. /\ user \in Addr /\ positions[user] \in Seq(StakingPosition)
        /\ positions \in [Addr -> Seq(StakingPosition)]
    BY PositionsTyped DEF LedgerInv, TypeOK
  <2>2. id \in 1 .. Len(positions[user]) /\ old \in StakingPosition
    BY <2>1
  <2> QED BY <2>1, <2>2 DEF LedgerInv, PositionsPast
<1>2. now \in Nat /\ old.startTime <= old.lastClaimTime /\ old.amount \in Nat
      /\ old.lastClaimTime \in Nat /\ old.startTime \in Nat
  <2>1. <<user, id>> \in Opened /\ position(<<user, id>>) = old
    BY <1>1 DEF Opened, position
  <2> QED BY <1>1, <2>1 DEF PositionsInv, PositionsSound, LedgerInv, TypeOK, StakingPosition
<1>3. full \in Nat /\ (full * 50) \div 100 \in Nat /\ (full * 50) \div 100 <= full
  BY <1>1, RewardsNat, HalfNat DEF LedgerInv
<1>4. /\ supply \in Int /\ burnedTokens \in Int /\ totalMintedTokens \in Int
  BY DEF LedgerInv, TypeOK
<1> HIDE DEF full
<1>5. CASE claimStakingRewards(user, id)
  <2> DEFINE p == [old EXCEPT !.accumulatedRewards = 0, !.lastClaimTime = now]
  <2>1. /\ p \in StakingPosition /\ p.lastClaimTime = now /\ p.startTime = old.startTime
        /\ p.amount = old.amount /\ p.accumulatedRewards = 0
    BY <1>1, <1>2 DEF StakingPosition
  <2>2. positions' = WithPosition(positions, user, id, p) /\ now' = now
    BY <1>1, <1>5 DEF WithPosition, claimStakingRewards
  <2>3. full > 0 /\ Uncounted' = Uncounted + full
    BY <1>3, <1>4, <1>5 DEF claimStakingRewards, countVars, Uncounted, full
  <2>4. old.amount > 0 /\ totalStaked' = totalStaked - old.amount + p.amount
    <3>1. old.amount = 0 => full = 0
      BY DEF calculateRewards, full
    <3>2. totalStaked' = totalStaked /\ totalStaked \in Nat
      BY <1>5 DEF claimStakingRewards, LedgerInv, TypeOK
    <3> QED BY <1>2, <2>1, <2>3, <3>1, <3>2
  <2> HIDE DEF p
  <2>5. p.startTime <= p.lastClaimTime /\ full <= calculateRewards(old)
    BY <1>1, <1>2, <1>3, <2>1 DEF full
  <2> QED BY <1>3, <2>1, <2>2, <2>3, <2>4, <2>5, StakePaid
<1>6. ASSUME NEW r \in Nat, r <= full, closePosition(user, id, r) PROVE PositionsInv'
  <2> DEFINE p == [old EXCEPT !.amount = 0, !.accumulatedRewards = 0]
  <2>1. /\ p \in StakingPosition /\ p.lastClaimTime = old.lastClaimTime /\ p.startTime = old.startTime
        /\ p.amount = 0 /\ p.accumulatedRewards = 0
    BY <1>1, <1>2 DEF StakingPosition
  <2>2. positions' = WithPosition(positions, user, id, p) /\ now' = now
    BY <1>1, <1>6 DEF WithPosition, closePosition
  <2>3. old.amount > 0 /\ Uncounted' = Uncounted + r
    BY <1>4, <1>6 DEF closePosition, countVars, Uncounted
  <2>4. totalStaked' = totalStaked - old.amount + p.amount
    <3>1. totalStaked' = totalStaked - old.amount /\ totalStaked \in Nat
      BY <1>6 DEF closePosition, LedgerInv, TypeOK
    <3> QED BY <1>2, <2>1, <3>1
  <2> HIDE DEF p
  <2>5. p.startTime <= p.lastClaimTime /\ r <= calculateRewards(old)
    BY <1>2, <1>6, <2>1 DEF full
  <2> QED BY <1>6, <2>1, <2>2, <2>3, <2>4, <2>5, StakePaid
<1>7. CASE withdrawStake(user, id)
  BY <1>3, <1>6, <1>7 DEF withdrawStake, full
<1>8. CASE emergencyWithdraw(user, id)
  <2>1. closePosition(user, id, (full * 50) \div 100) \/ closePosition(user, id, full)
    BY <1>8, Zenon DEF emergencyWithdraw, full
  <2> QED BY <1>3, <1>6, <2>1
<1> QED BY <1>5, <1>7, <1>8 DEF StakeStep

LEMMA StakingPays ==
  ASSUME LedgerInv, PositionsInv, LedgerInv', StakingNext
  PROVE  PositionsInv'
<1>0. now \in Nat
  BY DEF LedgerInv, TypeOK
<1>1. CASE \E user \in Users, amount \in StakeAmounts, lockPeriod \in LockPeriods :
              createStake(user, amount, lockPeriod)
  BY <1>1, CreateStakePaysNothing
<1>2. CASE \E user \in Users : \E id \in DOMAIN positions[user] : StakeStep(user, id)
  BY <1>2, StakeStepPays
<1>3. ASSUME NEW burnt \in Int, supply' = supply - burnt, burnedTokens' = burnedTokens + burnt,
             UNCHANGED <<now, totalMintedTokens, stakeVars>>
      PROVE  PositionsInv'
  BY <1>0, <1>3, BurningCounts, RewardsKept
<1>4. CASE \E from \in Users, to \in Addr, amount \in TransferAmounts : transfer(from, to, amount)
  <2> PICK from \in Users, to \in Addr, amount \in TransferAmounts : transfer(from, to, amount)
    BY <1>4
  <2>1. transferBurn(amount) \in Int
    BY BurnWithin, StakingAssumption DEF LedgerInv
  <2>2. PICK burnt \in Int : supply' = supply - burnt /\ burnedTokens' = burnedTokens + burnt
    BY <2>1 DEF transfer
  <2> QED BY <1>3, <2>2 DEF transfer
<1>5. CASE \E holder \in Users, amount \in TransferAmounts : burn(holder, amount)
  BY <1>3, <1>5, StakingAssumption DEF burn
<1>6. ASSUME NEW users, NEW depth, NEW total \in Int, sweep(users, depth, total) PROVE PositionsInv'
  BY <1>3, <1>6 DEF sweep
<1>7. CASE \E user \in Addr : burnExpiredTokens(user)
  <2> PICK user \in Addr : burnExpiredTokens(user)
    BY <1>7
  <2>1. sweepBurns(user, LookBack) * HALF_SHAHI \in Int
    BY SweepWithin, StakingAssumption DEF LedgerInv
  <2>2. PICK total \in Int : sweep({user}, LookBack, total)
    BY <2>1 DEF burnExpiredTokens
  <2> QED BY <1>6, <2>2
<1>8. CASE \E users \in SUBSET Addr : batchBurnExpiredTokens(users)
  <2> PICK users \in SUBSET Addr : batchBurnExpiredTokens(users)
    BY <1>8
  <2>1. PICK total \in 0 .. supply : sweep(users, BatchLookBack, total)
    BY DEF batchBurnExpiredTokens
  <2> QED BY <1>6, <2>1
<1> QED BY <1>1, <1>2, <1>4, <1>5, <1>7, <1>8 DEF StakingNext

LEMMA StepPays == LedgerInv /\ LedgerInv' /\ PositionsInv /\ [Next]_storageVars => PositionsInv'
<1> SUFFICES ASSUME LedgerInv, LedgerInv', PositionsInv, [Next]_storageVars PROVE PositionsInv'
  OBVIOUS
<1>0. now \in Nat
  BY DEF LedgerInv, TypeOK
<1>1. CASE MintingNext
  <2>1. UNCHANGED stakeVars /\ now' = now
    <3>1. UNCHANGED stakeVars
      BY <1>1, MintingKeepsLedger DEF Funds
    <3>2. now' = now
      BY <1>1 DEF MintingNext, firstTimeMint, annualMint, regularMint, mintForNewUser,
                  batchMintForNewUsers, batchAnnualMint, mintBatch, adminMint, mint, ownerMint,
                  adminMintBatch
    <3> QED BY <3>1, <3>2
  <2> QED BY <1>0, <1>1, <2>1, MintingCounts, RewardsKept
<1>2. CASE StakingNext
  BY <1>2, StakingPays
<1>3. CASE AdminNext \/ UNCHANGED storageVars
  <2>1. now' = now /\ UNCHANGED stakeVars /\ Uncounted' = Uncounted
    BY <1>3 DEF AdminNext, storageVars, ledgerVars, countVars, Uncounted
  <2> QED BY <1>0, <2>1, UncountedInt, RewardsKept
<1>4. CASE AdvanceTime
  <2>1. now <= now' /\ UNCHANGED stakeVars /\ Uncounted' = Uncounted
    BY <1>0, <1>4, CoinAssumption DEF AdvanceTime, ledgerVars, countVars, Uncounted
  <2> QED BY <2>1, UncountedInt, RewardsKept
<1> QED BY <1>1, <1>2, <1>3, <1>4 DEF Next

LEMMA InitPays == initialize => PositionsInv
<1> SUFFICES ASSUME initialize PROVE PositionsInv
  OBVIOUS
<1>1. Opened = {}
  BY DEF initialize, StorageInit, Opened
<1>2. Uncounted = 0 /\ totalStaked = 0 /\ ONE_YEAR \in Nat
  BY StorageAssumption DEF initialize, StorageInit, Uncounted
<1>3. /\ IsFiniteSet(Opened) /\ SumFunctionOnSet(Paid, Opened) = 0
      /\ SumFunctionOnSet(StakeOf, Opened) = 0
  BY <1>1, FS_EmptySet, SumEmpty
<1> QED BY <1>1, <1>2, <1>3 DEF PositionsInv, PositionsSound, RewardsPaid, StakedCounted

LEMMA PositionsInvariant == Spec => []PositionsInv
<1>1. initialize => PositionsInv
  BY InitPays
<1>2. LedgerInv /\ LedgerInv' /\ PositionsInv /\ [Next]_storageVars => PositionsInv'
  BY StepPays
<1> QED BY <1>1, <1>2, LedgerInvariant, PTL DEF Spec

(* totalStaked never drifts from the sum of all open positions, and until a  *)
(* mint names the contract itself it holds the tokens of all of them: no     *)
(* order of stakes, claims, withdrawals, transfers, burns and sweeps drains  *)
(* them.                                                                     *)
THEOREM StakesAlwaysCovered == Spec => []StakesCovered
<1>1. LedgerInv /\ PositionsInv => StakesCovered
  <2>1. DOMAIN StakeOf = Opened
    BY DEF StakeOf
  <2>2. StakedCounted => totalStaked = SumFunction(StakeOf)
    BY <2>1 DEF StakedCounted, SumFunction
  <2> QED BY <2>2 DEF LedgerInv, PotCovers, PositionsInv, StakesCovered, StakeOf, position
<1> QED BY <1>1, LedgerInvariant, PositionsInvariant, PTL

(* Whatever the users stake, claim, withdraw and transfer, and however the   *)
(* owner changes the tiers, the tokens in supply that no mint counted are at *)
(* most 100% a year on the largest stake of every position ever opened.      *)
THEOREM RewardsAlwaysBounded == Spec => []RewardsBounded
<1>1. LedgerInv /\ PositionsInv => RewardsBounded
  BY PaidBounds
<1> QED BY <1>1, LedgerInvariant, PositionsInvariant, PTL

-----------------------------------------------------------------------------
(* The supply is the sum of the balances.                                   *)
Total(b) == SumFunctionOnSet(b, Addr)

LEMMA AddrFinite == IsFiniteSet(Addr)
  BY StorageAssumption, FS_AddElement DEF Addr

LEMMA TotalNat == ASSUME NEW b \in [Addr -> Nat] PROVE Total(b) \in Nat
  BY AddrFinite, SumNat DEF Total

LEMMA TotalCredit ==
  ASSUME NEW b \in [Addr -> Nat], NEW a \in Addr, NEW n \in Nat
  PROVE  Total(Credit(b, a, n)) = Total(b) + n
<1> DEFINE c == Credit(b, a, n)
<1>1. c[a] = b[a] + n /\ \A s \in Addr : b[s] \in Nat /\ c[s] \in Nat /\ (s # a => b[s] = c[s])
  BY DEF Credit
<1> HIDE DEF c
<1>2. Total(c) = Total(b) - b[a] + c[a]
  BY <1>1, AddrFinite, SumChanges DEF Total
<1>3. Total(b) \in Nat
  BY TotalNat
<1> QED BY <1>1, <1>2, <1>3 DEF c

LEMMA TotalDebit ==
  ASSUME NEW b \in [Addr -> Nat], NEW a \in Addr, NEW n \in Nat, b[a] >= n
  PROVE  Total(Debit(b, a, n)) = Total(b) - n
<1> DEFINE c == Debit(b, a, n)
<1>1. c[a] = b[a] - n /\ \A s \in Addr : b[s] \in Nat /\ c[s] \in Nat /\ (s # a => b[s] = c[s])
  BY DEF Debit
<1> HIDE DEF c
<1>2. Total(c) = Total(b) - b[a] + c[a]
  BY <1>1, AddrFinite, SumChanges DEF Total
<1>3. Total(b) \in Nat
  BY TotalNat
<1> QED BY <1>1, <1>2, <1>3 DEF c

LEMMA TotalMove ==
  ASSUME NEW b \in [Addr -> Nat], NEW from \in Addr, NEW to \in Addr, NEW n \in Nat, b[from] >= n
  PROVE  Total(Move(b, from, to, n)) = Total(b)
<1> DEFINE c == Debit(b, from, n)
<1>1. c \in [Addr -> Nat] /\ Total(c) = Total(b) - n
  BY DebitLedger, TotalDebit
<1>2. Move(b, from, to, n) = Credit(c, to, n)
  BY DEF Move
<1> HIDE DEF c
<1>3. Total(Credit(c, to, n)) = Total(c) + n /\ Total(b) \in Nat
  BY <1>1, TotalCredit, TotalNat
<1> QED BY <1>1, <1>2, <1>3

-----------------------------------------------------------------------------
(* More about sums.                                                         *)
\* The sum of two functions.
LEMMA SumPlus ==
  ASSUME NEW f, NEW g, NEW h, NEW S, IsFiniteSet(S),
         \A s \in S : f[s] \in Nat /\ g[s] \in Nat /\ h[s] = f[s] + g[s]
  PROVE  SumFunctionOnSet(h, S) = SumFunctionOnSet(f, S) + SumFunctionOnSet(g, S)
<1> DEFINE sum(k, T) == SumFunctionOnSet(k, T)
           bad == {T \in SUBSET S : sum(h, T) # sum(f, T) + sum(g, T)}
<1>1. ASSUME NEW T \in SUBSET S
      PROVE  /\ sum(f, T) \in Nat /\ sum(g, T) \in Nat
             /\ sum(f, T) = IF T = {} THEN 0 ELSE f[first(T)] + sum(f, T \ {first(T)})
             /\ sum(g, T) = IF T = {} THEN 0 ELSE g[first(T)] + sum(g, T \ {first(T)})
             /\ sum(h, T) = IF T = {} THEN 0 ELSE h[first(T)] + sum(h, T \ {first(T)})
  <2>1. IsFiniteSet(T)
    BY FS_Subset
  <2> QED BY <2>1, SumNat, SumEquation
<1> HIDE DEF sum
<1>2. ASSUME bad # {} PROVE FALSE
  <2>1. PICK T \in bad : \A x \in T : T \ {x} \notin bad
    BY <1>2, SmallestSubset
  <2>2. CASE T = {}
    <3>1. sum(f, T) = 0 /\ sum(g, T) = 0 /\ sum(h, T) = 0
      BY <1>1, <2>1, <2>2
    <3> QED BY <2>1, <3>1
  <2>3. CASE T # {}
    <3>1. PICK x, R : x = first(T) /\ R = T \ {first(T)}
      OBVIOUS
    <3>2. x \in S /\ R \in SUBSET S /\ sum(h, R) = sum(f, R) + sum(g, R)
      BY <2>1, <2>3, <3>1, FirstIn
    <3>3. /\ sum(f, T) = f[x] + sum(f, R) /\ sum(g, T) = g[x] + sum(g, R)
          /\ sum(h, T) = h[x] + sum(h, R)
      BY <1>1, <2>1, <2>3, <3>1
    <3>4. f[x] \in Nat /\ g[x] \in Nat /\ h[x] = f[x] + g[x] /\ sum(f, R) \in Nat /\ sum(g, R) \in Nat
      BY <1>1, <3>2
    <3> QED BY <2>1, <3>2, <3>3, <3>4
  <2> QED BY <2>2, <2>3
<1> QED BY <1>2 DEF sum

\* What is zero outside a part sums up to the sum of the part.
LEMMA SumPart ==
  ASSUME NEW f, NEW g, NEW S, IsFiniteSet(S), NEW T \in SUBSET S,
         \A s \in S : f[s] \in Nat /\ f[s] = IF s \in T THEN g[s] ELSE 0
  PROVE  SumFunctionOnSet(f, S) = SumFunctionOnSet(g, T)
<1> DEFINE sum(k, U) == SumFunctionOnSet(k, U)
           bad == {U \in SUBSET S : sum(f, U) # sum(g, U \cap T)}
<1>1. ASSUME bad # {} PROVE FALSE
  <2>1. PICK U \in bad : \A x \in U : U \ {x} \notin bad
    BY <1>1, SmallestSubset
  <2>2. CASE U = {}
    <3>1. U \cap T = {}
      BY <2>2
    <3> QED BY <2>1, <2>2, <3>1, SumEmpty
  <2>3. CASE U # {}
    <3>1. PICK x \in U : TRUE
      BY <2>3
    <3>2. sum(f, U \ {x}) = sum(g, (U \ {x}) \cap T)
      BY <2>1, <3>1
    <3>3. /\ IsFiniteSet(U) /\ IsFiniteSet(U \cap T) /\ x \in S
          /\ \A s \in U : f[s] \in Nat
          /\ \A s \in U \cap T : g[s] \in Nat
      <4>1. IsFiniteSet(U) /\ IsFiniteSet(U \cap T)
        BY <2>1, FS_Subset
      <4> QED BY <2>1, <3>1, <4>1
    <3>4. sum(f, U) = f[x] + sum(f, U \ {x})
      BY <3>1, <3>3, SumRemove
    <3>5. CASE x \in T
      <4>1. (U \cap T) \ {x} = (U \ {x}) \cap T /\ x \in U \cap T
        BY <3>1, <3>5
      <4>2. sum(g, U \cap T) = g[x] + sum(g, (U \cap T) \ {x})
        BY <3>3, <4>1, SumRemove
      <4>3. f[x] = g[x]
        BY <3>3, <3>5
      <4> HIDE DEF sum
      <4> QED BY <2>1, <3>2, <3>4, <4>1, <4>2, <4>3
    <3>6. CASE x \notin T
      <4>1. U \cap T = (U \ {x}) \cap T
        BY <3>6
      <4>2. f[x] = 0
        BY <3>3, <3>6
      <4>3. sum(f, U \ {x}) \in Nat
        <5>1. IsFiniteSet(U \ {x})
          BY <3>3, FS_Subset
        <5> QED BY <3>3, <5>1, SumNat
      <4> HIDE DEF sum
      <4> QED BY <2>1, <3>2, <3>4, <4>1, <4>2, <4>3
    <3> QED BY <3>5, <3>6
  <2> QED BY <2>2, <2>3
<1>2. S \in SUBSET S /\ S \cap T = T
  OBVIOUS
<1>3. sum(f, S) = sum(g, S \cap T)
  BY <1>1
<1> QED BY <1>2, <1>3

\* A constant counts.
LEMMA SumConstant ==
  ASSUME NEW f, NEW S, IsFiniteSet(S), NEW n \in Nat, \A s \in S : f[s] = n
  PROVE  SumFunctionOnSet(f, S) = Cardinality(S) * n
<1> DEFINE sum(T) == SumFunctionOnSet(f, T)
           bad == {T \in SUBSET S : sum(T) # Cardinality(T) * n}
<1>1. ASSUME bad # {} PROVE FALSE
  <2>1. PICK T \in bad : \A x \in T : T \ {x} \notin bad
    BY <1>1, SmallestSubset
  <2>2. IsFiniteSet(T)
    BY <2>1, FS_Subset
  <2>3. CASE T = {}
    BY <2>1, <2>3, SumEmpty, FS_EmptySet
  <2>4. CASE T # {}
    <3>1. PICK x \in T : TRUE
      BY <2>4
    <3>2. sum(T) = n + sum(T \ {x})
      BY <2>1, <2>2, <3>1, SumRemove
    <3>3. sum(T \ {x}) = Cardinality(T \ {x}) * n
      BY <2>1, <3>1
    <3>4. Cardinality(T \ {x}) = Cardinality(T) - 1 /\ Cardinality(T) \in Nat
      BY <2>2, <3>1, FS_RemoveElement, FS_CardinalityType
    <3> HIDE DEF sum
    <3>5. n + (Cardinality(T) - 1) * n = Cardinality(T) * n
      BY <3>4
    <3> QED BY <2>1, <3>2, <3>3, <3>4, <3>5
  <2> QED BY <2>3, <2>4
<1> QED BY <1>1
\* The sum over one element is its term.
LEMMA SumSingle ==
  ASSUME NEW f, NEW x, f[x] \in Nat
  PROVE  SumFunctionOnSet(f, {x}) = f[x]
<1>1. IsFiniteSet({x}) /\ {x} \ {x} = {}
  BY FS_Singleton
<1>2. SumFunctionOnSet(f, {x}) = f[x] + SumFunctionOnSet(f, {})
  BY <1>1, SumRemove
<1> QED BY <1>2, SumEmpty

\* The entries of an array among D that name s.
naming(D, r, s) == {i \in D : r[i] = s}

\* What each of an array's entries adds to the one it names.
LEMMA SumCounts ==
  ASSUME NEW S, IsFiniteSet(S), NEW D, IsFiniteSet(D), NEW r, \A i \in D : r[i] \in S, NEW n \in Nat,
         NEW f, \A s \in S : f[s] = n * Cardinality(naming(D, r, s))
  PROVE  SumFunctionOnSet(f, S) = Cardinality(D) * n
<1> DEFINE count(I, s) == Cardinality({i \in I : r[i] = s})
           g(I) == [s \in S |-> n * count(I, s)]
           sum(I) == SumFunctionOnSet(g(I), S)
           bad == {I \in SUBSET D : sum(I) # Cardinality(I) * n}
<1>1. ASSUME NEW I \in SUBSET D
      PROVE  /\ IsFiniteSet(I) /\ Cardinality(I) \in Nat
             /\ \A s \in S : count(I, s) \in Nat /\ n * count(I, s) \in Nat
  <2>1. IsFiniteSet(I)
    BY FS_Subset
  <2>2. \A s \in S : count(I, s) \in Nat
    BY <2>1, FS_Subset, FS_CardinalityType
  <2> HIDE DEF count
  <2> QED BY <2>1, <2>2, FS_CardinalityType, ProductNat
<1>2. ASSUME bad # {} PROVE FALSE
  <2>1. PICK I \in bad : \A i \in I : I \ {i} \notin bad
    BY <1>2, SmallestSubset
  <2>2. CASE I = {}
    <3>1. \A s \in S : count(I, s) = 0
      BY <2>2, FS_EmptySet
    <3>2. \A s \in S : g(I)[s] = 0
      <4> HIDE DEF count
      <4> QED BY <3>1
    <3> HIDE DEF g
    <3>3. sum(I) = Cardinality(S) * 0 /\ Cardinality(S) \in Nat
      BY <3>2, SumConstant, FS_CardinalityType
    <3>4. Cardinality(I) * n = 0
      BY <2>2, FS_EmptySet
    <3> QED BY <2>1, <3>3, <3>4
  <2>3. CASE I # {}
    <3>1. PICK i \in I : TRUE
      BY <2>3
    <3> DEFINE J == I \ {i}
    <3>2. J \in SUBSET D /\ I \in SUBSET D /\ r[i] \in S
      BY <2>1, <3>1
    <3>3. count(I, r[i]) = count(J, r[i]) + 1
      <4> DEFINE A == {j \in I : r[j] = r[i]}
                 B == {j \in J : r[j] = r[i]}
      <4>1. B = A \ {i} /\ i \in A /\ A \subseteq I
        BY <3>1
      <4>2. IsFiniteSet(I)
        BY <1>1, <3>2
      <4>3. count(I, r[i]) = Cardinality(A) /\ count(J, r[i]) = Cardinality(B)
        OBVIOUS
      <4> HIDE DEF A, B, J, count
      <4>4. IsFiniteSet(A)
        BY <4>1, <4>2, FS_Subset
      <4>5. Cardinality(B) = Cardinality(A) - 1 /\ Cardinality(A) \in Nat
        BY <4>1, <4>4, FS_RemoveElement, FS_CardinalityType
      <4> QED BY <4>3, <4>5
    <3>4. \A s \in S : s # r[i] => count(I, s) = count(J, s)
      <4>1. \A s \in S : s # r[i] => {j \in J : r[j] = s} = {j \in I : r[j] = s}
        OBVIOUS
      <4> QED BY <4>1
    <3>5. sum(J) = Cardinality(J) * n
      BY <2>1, <3>1, <3>2
    <3>6. Cardinality(J) = Cardinality(I) - 1 /\ Cardinality(I) \in Nat
      BY <1>1, <3>1, <3>2, FS_RemoveElement
    <3>10. count(J, r[i]) \in Nat
      BY <1>1, <3>2
    <3>7. \A s \in S : g(J)[s] \in Nat /\ g(I)[s] \in Nat /\ (s # r[i] => g(J)[s] = g(I)[s])
      <4>1. \A s \in S : n * count(I, s) \in Nat /\ n * count(J, s) \in Nat
        BY <1>1, <3>2
      <4> HIDE DEF count, J
      <4> QED BY <3>4, <4>1
    <3>8. g(J)[r[i]] = n * count(J, r[i]) /\ g(I)[r[i]] = n * (count(J, r[i]) + 1)
      <4> HIDE DEF count, J
      <4> QED BY <3>2, <3>3
    <3> HIDE DEF g, count, J
    <3>9. sum(I) = sum(J) - g(J)[r[i]] + g(I)[r[i]]
      BY <3>2, <3>7, SumChanges
    <3>11. n * (count(J, r[i]) + 1) = n * count(J, r[i]) + n /\ n * count(J, r[i]) \in Nat
      BY <3>10, ProductNat
    <3>12. (Cardinality(I) - 1) * n + n = Cardinality(I) * n
      BY <3>6
    <3>13. Cardinality(J) * n \in Nat
      BY <1>1, <3>2, ProductNat
    <3> HIDE DEF sum
    <3> QED BY <2>1, <3>5, <3>6, <3>8, <3>9, <3>11, <3>12, <3>13
  <2> QED BY <2>2, <2>3
<1>3. sum(D) = Cardinality(D) * n
  BY <1>2
<1>4. \A s \in S : g(D)[s] = f[s] /\ g(D)[s] \in Nat
  BY <1>1 DEF naming
<1> HIDE DEF g
<1>5. sum(D) = SumFunctionOnSet(f, S)
  BY <1>4, SumEqual
<1> QED BY <1>3, <1>5

\* The total a batch of sweeps reports is a sum.
LEMMA SweptTotal ==
  ASSUME NEW S, IsFiniteSet(S), NEW depth, NEW f,
         f = [u \in S |-> sweepBurns(u, depth) * HALF_SHAHI]
  PROVE  MapThenSumSet(LAMBDA u : sweepBurns(u, depth) * HALF_SHAHI, S) = SumFunctionOnSet(f, S)
<1> DEFINE burnt(u) == sweepBurns(u, depth) * HALF_SHAHI
           adds(g) == g = [s \in SUBSET S |->
                             IF s = {} THEN 0 ELSE burnt(first(s)) + g[s \ {first(s)}]]
           total == MapThenSumSet(LAMBDA u : sweepBurns(u, depth) * HALF_SHAHI, S)
<1>1. total = (CHOOSE g : adds(g))[S]
  BY DEF MapThenSumSet, MapThenFoldSet, first
<1>2. \A s \in SUBSET S : s # {} => f[first(s)] = burnt(first(s))
  BY FirstIn
<1> HIDE DEF burnt, total
<1>3. ASSUME NEW g PROVE adds(g) <=> AddsUp(f, S, g)
  <2>1. [s \in SUBSET S |-> IF s = {} THEN 0 ELSE burnt(first(s)) + g[s \ {first(s)}]]
          = [s \in SUBSET S |-> IF s = {} THEN 0 ELSE f[first(s)] + g[s \ {first(s)}]]
    BY <1>2
  <2> QED BY <2>1 DEF AddsUp
<1> HIDE DEF adds
<1>4. PICK g : AddsUp(f, S, g) /\ SumFunctionOnSet(f, S) = g[S]
  BY FoldExists, SumIsFold
<1>5. PICK h : AddsUp(f, S, h) /\ total = h[S]
  <2>1. \E h : adds(h)
    BY <1>3, <1>4
  <2>2. adds(CHOOSE h : adds(h))
    BY <2>1
  <2> QED BY <1>1, <1>3, <2>2
<1>6. g[S] = h[S]
  BY <1>4, <1>5, FoldsAgree
<1> QED BY <1>4, <1>5, <1>6 DEF total

-----------------------------------------------------------------------------
(* Every operation changes the supply by what it changes the balances.      *)
Supplied == supply = Total(balance)

LEMMA SupplyOf ==
  ASSUME NEW b \in [Addr -> Nat], NEW n \in Int, balance' = b, supply' = supply + n,
         Total(b) = Total(balance) + n, Supplied
  PROVE  Supplied'
<1>1. supply = Total(balance) /\ supply' = Total(balance) + n
  BY DEF Supplied
<1>2. Total(balance') = Total(balance) + n
  OBVIOUS
<1> QED BY <1>1, <1>2 DEF Supplied, Total

LEMMA SplitSupplies ==
  ASSUME LedgerInv, Supplied, NEW user \in Addr, mintSplit(user)
  PROVE  Supplied'
<1>1. /\ HALF_SHAHI \in Nat /\ user \in Addr /\ adminHotWallet \in Addr
      /\ balance \in [Addr -> Nat]
  BY StorageAssumption DEF LedgerInv, TypeOK, Addr
<1> DEFINE b == Credit(balance, adminHotWallet, HALF_SHAHI)
           c == Credit(b, user, HALF_SHAHI)
<1>2. b \in [Addr -> Nat] /\ Total(b) = Total(balance) + HALF_SHAHI
  BY <1>1, CreditLedger, TotalCredit
<1> HIDE DEF b
<1>3. c \in [Addr -> Nat] /\ Total(c) = Total(b) + HALF_SHAHI
  BY <1>1, <1>2, CreditLedger, TotalCredit
<1>4. balance' = c /\ supply' = supply + ONE_SHAHI
  BY DEF mintSplit, CreditSplit, b
<1> HIDE DEF c
<1>5. Total(balance) \in Nat
  BY <1>1, TotalNat
<1>6. ONE_SHAHI \in Int /\ Total(c) = Total(balance) + ONE_SHAHI
  BY <1>1, <1>2, <1>3, <1>5 DEF ONE_SHAHI
<1> QED BY <1>3, <1>4, <1>6, SupplyOf

LEMMA CreditSupplies ==
  ASSUME LedgerInv, Supplied, NEW a \in Addr, NEW n \in Nat,
         balance' = Credit(balance, a, n), supply' = supply + n
  PROVE  Supplied'
<1>1. balance \in [Addr -> Nat]
  BY DEF LedgerInv, TypeOK
<1>2. balance' \in [Addr -> Nat] /\ Total(balance') = Total(balance) + n
  BY <1>1, CreditLedger, TotalCredit
<1> QED BY <1>2, SupplyOf

\* The admin's halves and one half for each user paid.
LEMMA BatchSupplies ==
  ASSUME LedgerInv, Supplied, NEW users \in Batches, NEW paid \in SUBSET elements(users),
         mintBatch(users, paid)
  PROVE  Supplied'
<1> DEFINE share == Len(users) * HALF_SHAHI
           b == Credit(balance, adminHotWallet, share)
           g == [a \in Addr |-> IF a \in paid THEN HALF_SHAHI ELSE 0]
           h == [a \in paid |-> HALF_SHAHI]
           n == Len(users)
           k == Cardinality(paid)
<1>1. users \in Seq(Addr) /\ n \in Nat
  BY MintingAssumption
<1>2. paid \subseteq Addr /\ k \in Nat
  BY <1>1, ElementsFinite DEF Addr
<1>3. HALF_SHAHI \in Nat /\ adminHotWallet \in Addr /\ balance \in [Addr -> Nat]
  BY StorageAssumption DEF LedgerInv, TypeOK
<1>4. share \in Nat
  BY <1>1, <1>3, ProductNat
<1> HIDE DEF share
<1>5. b \in [Addr -> Nat] /\ Total(b) = Total(balance) + share
  BY <1>3, <1>4, CreditLedger, TotalCredit
<1>6. balance' = [a \in Addr |-> IF a \in paid THEN b[a] + HALF_SHAHI ELSE b[a]]
  BY DEF mintBatch, share
<1> HIDE DEF b
<1>7. IsFiniteSet(Addr) /\ IsFiniteSet(paid)
  BY <1>2, AddrFinite, FS_Subset
<1>8. balance' \in [Addr -> Nat] /\ Total(balance') = Total(b) + Total(g)
  <2>1. \A a \in Addr : b[a] \in Nat /\ g[a] \in Nat /\ balance'[a] = b[a] + g[a]
    BY <1>3, <1>5, <1>6
  <2>2. balance' \in [Addr -> Nat]
    BY <1>3, <1>5, <1>6
  <2> HIDE DEF g
  <2> QED BY <1>7, <2>1, <2>2, SumPlus DEF Total
<1>9. Total(g) = k * HALF_SHAHI
  <2>1. \A a \in Addr : g[a] \in Nat /\ g[a] = IF a \in paid THEN h[a] ELSE 0
    BY <1>3
  <2>2. \A a \in paid : h[a] = HALF_SHAHI
    OBVIOUS
  <2> HIDE DEF g, h
  <2>3. Total(g) = SumFunctionOnSet(h, paid)
    BY <1>2, <1>7, <2>1, SumPart DEF Total
  <2> QED BY <1>3, <1>7, <2>2, <2>3, SumConstant
<1>10. supply' = supply + (n + k) * HALF_SHAHI
  BY DEF mintBatch
<1> HIDE DEF g, n, k
<1>11. (n + k) * HALF_SHAHI = n * HALF_SHAHI + k * HALF_SHAHI /\ (n + k) * HALF_SHAHI \in Int
       /\ n * HALF_SHAHI \in Nat /\ k * HALF_SHAHI \in Nat
  BY <1>1, <1>2, <1>3
<1>12. Total(balance) \in Nat /\ share = n * HALF_SHAHI
  BY <1>3, TotalNat DEF share, n
<1>13. Total(balance') = Total(balance) + (n + k) * HALF_SHAHI
  BY <1>5, <1>8, <1>9, <1>11, <1>12
<1> QED BY <1>8, <1>10, <1>11, <1>13, SupplyOf

\* An array has as many entries as it is long.
LEMMA EntriesFinite ==
  ASSUME NEW users \in Seq(Addr)
  PROVE  /\ IsFiniteSet(DOMAIN users) /\ Cardinality(DOMAIN users) = Len(users)
         /\ \A i \in DOMAIN users : users[i] \in Addr
<1>1. DOMAIN users = 1 .. Len(users) /\ Len(users) \in Nat
  OBVIOUS
<1>2. IsFiniteSet(DOMAIN users) /\ Cardinality(DOMAIN users) = Len(users)
  BY <1>1, FS_Interval
<1>3. \A i \in DOMAIN users : users[i] \in Addr
  BY <1>1
<1> QED BY <1>2, <1>3

\* An address is paid each time the array names it.
LEMMA AdminBatchSupplies ==
  ASSUME LedgerInv, Supplied, NEW recipients \in Batches, NEW amount \in MintAmounts,
         adminMintBatch(recipients, amount)
  PROVE  Supplied'
<1> DEFINE count(a) == Cardinality({i \in DOMAIN recipients : recipients[i] = a})
           g == [a \in Addr |-> amount * count(a)]
           n == Len(recipients)
<1>1. /\ amount \in Nat /\ recipients \in Seq(Addr) /\ n \in Nat /\ balance \in [Addr -> Nat]
      /\ IsFiniteSet(Addr)
  BY MintingAssumption, AddrFinite DEF LedgerInv, TypeOK
<1>2. /\ IsFiniteSet(DOMAIN recipients) /\ Cardinality(DOMAIN recipients) = n
      /\ \A i \in DOMAIN recipients : recipients[i] \in Addr
  BY <1>1, EntriesFinite DEF Addr
<1>3. \A a \in Addr : g[a] \in Nat
  <2>1. \A a \in Addr : count(a) \in Nat
    BY <1>2, FS_Subset, FS_CardinalityType
  <2> HIDE DEF count
  <2> QED BY <1>1, <2>1, ProductNat
<1>4. Total(g) = n * amount
  <2>1. \A a \in Addr : g[a] = amount * Cardinality({i \in DOMAIN recipients : recipients[i] = a})
    OBVIOUS
  <2> HIDE DEF g, n
  <2>2. \A a \in Addr : g[a] = amount * Cardinality(naming(DOMAIN recipients, recipients, a))
    BY <2>1 DEF naming
  <2>3. SumFunctionOnSet(g, Addr) = Cardinality(DOMAIN recipients) * amount
    BY <1>1, <1>2, <2>2, SumCounts
  <2> QED BY <1>2, <2>3 DEF Total
<1>5. balance' = [a \in Addr |-> balance[a] + g[a]] /\ supply' = supply + n * amount
  BY DEF adminMintBatch
<1> HIDE DEF g, n
<1>6. balance' \in [Addr -> Nat] /\ Total(balance') = Total(balance) + Total(g)
  <2>1. /\ balance' \in [Addr -> Nat]
        /\ \A a \in Addr : balance[a] \in Nat /\ g[a] \in Nat /\ balance'[a] = balance[a] + g[a]
    BY <1>1, <1>3, <1>5
  <2> QED BY <1>1, <2>1, SumPlus DEF Total
<1>7. n * amount \in Int
  BY <1>1
<1> QED BY <1>4, <1>5, <1>6, <1>7, SupplyOf

LEMMA MintingSupplies == ASSUME LedgerInv, Supplied, MintingNext PROVE Supplied'
<1>1. adminHotWallet \in Addr /\ ADMIN_INITIAL_MINT \in Nat /\ MintAmounts \subseteq Nat
  BY StorageAssumption, MintingAssumption DEF LedgerInv, TypeOK
<1>2. CASE \E user \in Addr, device \in Devices : firstTimeMint(user, device)
  BY <1>1, <1>2, SplitSupplies, CreditSupplies DEF firstTimeMint
<1>3. CASE \E user \in Addr, signer \in Users, device \in Devices :
             annualMint(user, device, signer) \/ regularMint(user, device, signer)
  BY <1>3, SplitSupplies DEF annualMint, regularMint
<1>4. CASE \E caller \in Users, user \in Addr : mintForNewUser(caller, user)
  BY <1>4, SplitSupplies DEF mintForNewUser
<1>5. CASE \E users \in Batches : batchMintForNewUsers(users) \/ batchAnnualMint(users)
  BY <1>5, BatchSupplies DEF batchMintForNewUsers, batchAnnualMint
<1>6. CASE \E to \in Addr, amount \in MintAmounts : adminMint(to, amount) \/ mint(to, amount)
  BY <1>1, <1>6, CreditSupplies DEF adminMint, mint, ownerMint
<1>7. CASE \E recipients \in Batches, amount \in MintAmounts : adminMintBatch(recipients, amount)
  BY <1>7, AdminBatchSupplies
<1> QED BY <1>2, <1>3, <1>4, <1>5, <1>6, <1>7 DEF MintingNext

LEMMA CloseSupplies ==
  ASSUME LedgerInv, Supplied, NEW user \in Users, NEW id \in DOMAIN positions[user],
         NEW rewards \in Nat, closePosition(user, id, rewards)
  PROVE  Supplied'
<1> DEFINE staked == positions[user][id].amount
           b == Credit(balance, user, rewards)
<1>1. /\ user \in Addr /\ This \in Addr /\ user # This /\ balance \in [Addr -> Nat]
      /\ positions[user][id] \in StakingPosition
  <2>1. positions[user] \in Seq(StakingPosition) /\ user \in Addr
    BY DEF LedgerInv, TypeOK, Addr
  <2> QED BY <2>1, StorageAssumption DEF LedgerInv, TypeOK, Addr
<1>2. staked \in Nat
  BY <1>1 DEF StakingPosition
<1>3. /\ balance[This] >= staked /\ balance' = Move(b, This, user, staked)
      /\ supply' = supply + rewards
  BY DEF closePosition
<1>4. b \in [Addr -> Nat] /\ b[This] = balance[This] /\ Total(b) = Total(balance) + rewards
  BY <1>1, CreditLedger, TotalCredit DEF Credit
<1> HIDE DEF staked, b
<1>5. balance' \in [Addr -> Nat] /\ Total(balance') = Total(b)
  BY <1>1, <1>2, <1>3, <1>4, MoveLedger, TotalMove
<1> QED BY <1>3, <1>4, <1>5, SupplyOf

LEMMA TransferSupplies ==
  ASSUME LedgerInv, Supplied, NEW from \in Users, NEW to \in Addr, NEW amount \in TransferAmounts,
         transfer(from, to, amount)
  PROVE  Supplied'
<1> DEFINE free == to = This \/ specialSender(from)
           burnt == IF free THEN 0 ELSE transferBurn(amount)
           moved == Move(balance, from, to, amount - burnt)
<1>1. amount \in Nat /\ from \in Addr /\ balance \in [Addr -> Nat]
  BY StakingAssumption DEF LedgerInv, TypeOK, Addr
<1>2. transferBurn(amount) \in 0 .. amount
  BY <1>1, BurnWithin DEF LedgerInv
<1>3. burnt \in Nat /\ amount - burnt \in Nat
  BY <1>1, <1>2
<1>4. /\ balance[from] >= amount - burnt /\ moved[from] >= burnt
      /\ balance' = Debit(moved, from, burnt) /\ supply' = supply - burnt
  BY DEF transfer
<1> HIDE DEF burnt
<1>5. moved \in [Addr -> Nat] /\ Total(moved) = Total(balance)
  BY <1>1, <1>3, <1>4, MoveLedger, TotalMove
<1> HIDE DEF moved
<1>6. balance' \in [Addr -> Nat] /\ Total(balance') = Total(moved) - burnt
  BY <1>1, <1>3, <1>4, <1>5, DebitLedger, TotalDebit
<1>7. Total(balance) \in Nat /\ supply \in Int
  BY <1>1, TotalNat DEF LedgerInv, TypeOK
<1>8. /\ -burnt \in Int /\ supply' = supply + (-burnt)
      /\ Total(balance') = Total(balance) + (-burnt)
  BY <1>3, <1>4, <1>5, <1>6, <1>7
<1> QED BY <1>6, <1>8, SupplyOf

LEMMA BurnSupplies ==
  ASSUME LedgerInv, Supplied, NEW holder \in Users, NEW amount \in TransferAmounts,
         burn(holder, amount)
  PROVE  Supplied'
<1>1. amount \in Nat /\ holder \in Addr /\ balance \in [Addr -> Nat]
  BY StakingAssumption DEF LedgerInv, TypeOK, Addr
<1>2. balance[holder] >= amount /\ balance' = Debit(balance, holder, amount)
      /\ supply' = supply - amount
  BY DEF burn
<1>3. balance' \in [Addr -> Nat] /\ Total(balance') = Total(balance) - amount
  BY <1>1, <1>2, DebitLedger, TotalDebit
<1>4. Total(balance) \in Nat /\ supply \in Int
  BY <1>1, TotalNat DEF LedgerInv, TypeOK
<1>5. /\ -amount \in Int /\ supply' = supply + (-amount)
      /\ Total(balance') = Total(balance) + (-amount)
  BY <1>1, <1>2, <1>3, <1>4
<1> QED BY <1>3, <1>5, SupplyOf

\* A sweep that reports what it takes from each holder.
LEMMA SweepSupplies ==
  ASSUME LedgerInv, Supplied, NEW users \in SUBSET Addr, NEW depth \in Nat, NEW total \in Nat,
         sweep(users, depth, total), NEW f,
         \A u \in swept(users) : f[u] = sweepBurns(u, depth) * HALF_SHAHI,
         total = SumFunctionOnSet(f, swept(users))
  PROVE  Supplied'
<1> DEFINE S == swept(users)
           take == [a \in Addr |-> IF a \in S THEN f[a] ELSE 0]
<1>1. balance \in [Addr -> Nat] /\ IsFiniteSet(Addr) /\ S \in SUBSET Addr
  BY AddrFinite DEF LedgerInv, TypeOK, swept
<1>2. \A a \in S : f[a] \in Nat /\ f[a] <= balance[a]
  BY <1>1, SweepWithin DEF LedgerInv
<1>3. \A a \in Addr : take[a] \in Nat /\ take[a] <= balance[a]
                      /\ take[a] = IF a \in S THEN f[a] ELSE 0
  BY <1>1, <1>2
<1>4. balance' = [a \in Addr |-> IF a \in S THEN balance[a] - f[a] ELSE balance[a]]
  <2>1. balance' = [a \in Addr |-> IF a \in S THEN balance[a] - sweepBurns(a, depth) * HALF_SHAHI
                                             ELSE balance[a]]
    BY DEF sweep
  <2> HIDE DEF S
  <2> QED BY <2>1 DEF S
<1>5. supply' = supply - total
  BY DEF sweep
<1> HIDE DEF S
<1>6. /\ balance' \in [Addr -> Nat]
      /\ \A a \in Addr : balance'[a] \in Nat /\ balance[a] = balance'[a] + take[a]
  BY <1>1, <1>2, <1>3, <1>4
<1> HIDE DEF take
<1>7. Total(balance) = Total(balance') + Total(take)
  BY <1>1, <1>3, <1>6, SumPlus DEF Total
<1>8. Total(take) = total
  BY <1>1, <1>3, SumPart DEF Total, S
<1>9. Total(balance') \in Nat /\ supply \in Int
  BY <1>6, TotalNat DEF LedgerInv, TypeOK
<1>10. -total \in Int /\ supply' = supply + (-total) /\ Total(balance') = Total(balance) + (-total)
  BY <1>5, <1>7, <1>8, <1>9
<1> QED BY <1>6, <1>10, SupplyOf

LEMMA StakingSupplies == ASSUME LedgerInv, Supplied, StakingNext PROVE Supplied'
<1>0. balance \in [Addr -> Nat] /\ This \in Addr
  BY DEF LedgerInv, TypeOK, Addr
<1>1. CASE \E user \in Users, amount \in StakeAmounts, lockPeriod \in LockPeriods :
              createStake(user, amount, lockPeriod)
  <2> PICK user \in Users, amount \in StakeAmounts, lockPeriod \in LockPeriods :
             createStake(user, amount, lockPeriod)
    BY <1>1
  <2>1. user \in Addr /\ amount \in Nat
    BY StakingAssumption DEF Addr
  <2>2. /\ balance[user] >= amount /\ balance' = Move(balance, user, This, amount)
        /\ supply' = supply
    BY DEF createStake
  <2>3. balance' \in [Addr -> Nat] /\ Total(balance') = Total(balance)
    BY <1>0, <2>1, <2>2, MoveLedger, TotalMove
  <2> QED BY <2>2, <2>3 DEF Supplied, Total
<1>2. CASE \E user \in Users : \E id \in DOMAIN positions[user] : StakeStep(user, id)
  <2> PICK user \in Users : \E id \in DOMAIN positions[user] : StakeStep(user, id)
    BY <1>2
  <2> PICK id \in DOMAIN positions[user] : StakeStep(user, id)
    OBVIOUS
  <2>1. user \in Addr /\ calculateRewards(positions[user][id]) \in Nat
    <3>1. user \in Addr /\ positions[user] \in Seq(StakingPosition)
      BY DEF LedgerInv, TypeOK, Addr
    <3>2. positions[user][id] \in StakingPosition /\ positions[user][id].lastClaimTime <= now
      BY <3>1 DEF LedgerInv, PositionsPast
    <3> QED BY <3>1, <3>2, RewardsNat DEF LedgerInv
  <2>2. (calculateRewards(positions[user][id]) * 50) \div 100 \in Nat
    BY <2>1, HalfNat
  <2>3. CASE claimStakingRewards(user, id)
    BY <2>1, <2>3, CreditSupplies DEF claimStakingRewards
  <2>4. CASE withdrawStake(user, id)
    BY <2>1, <2>4, CloseSupplies DEF withdrawStake
  <2>5. CASE emergencyWithdraw(user, id)
    BY <2>1, <2>2, <2>5, CloseSupplies, Zenon DEF emergencyWithdraw
  <2> QED BY <2>3, <2>4, <2>5 DEF StakeStep
<1>3. CASE \E from \in Users, to \in Addr, amount \in TransferAmounts : transfer(from, to, amount)
  BY <1>3, TransferSupplies
<1>4. CASE \E holder \in Users, amount \in TransferAmounts : burn(holder, amount)
  BY <1>4, BurnSupplies
<1>5. CASE \E user \in Addr : burnExpiredTokens(user)
  <2> PICK user \in Addr : burnExpiredTokens(user)
    BY <1>5
  <2> DEFINE burnt == sweepBurns(user, LookBack) * HALF_SHAHI
             f == [u \in Addr |-> sweepBurns(u, LookBack) * HALF_SHAHI]
             S == swept({user})
             total == IF user \in S THEN burnt ELSE 0
  <2>1. sweep({user}, LookBack, total)
    BY DEF burnExpiredTokens
  <2>2. burnt \in Nat /\ f[user] = burnt /\ {user} \in SUBSET Addr /\ LookBack \in Nat
    BY SweepWithin, StakingAssumption DEF LedgerInv
  <2>3. S = (IF user \in S THEN {user} ELSE {})
    BY DEF swept
  <2>4. \A u \in S : f[u] = sweepBurns(u, LookBack) * HALF_SHAHI
    BY DEF swept
  <2> HIDE DEF f, S, burnt
  <2>5. total = SumFunctionOnSet(f, S) /\ total \in Nat
    <3>1. CASE user \in S
      BY <2>2, <2>3, <3>1, SumSingle
    <3>2. CASE user \notin S
      BY <2>3, <3>2, SumEmpty
    <3> QED BY <3>1, <3>2
  <2> HIDE DEF total
  <2> QED BY <2>1, <2>2, <2>4, <2>5, SweepSupplies DEF S
<1>6. CASE \E users \in SUBSET Addr : batchBurnExpiredTokens(users)
  <2> PICK users \in SUBSET Addr : batchBurnExpiredTokens(users)
    BY <1>6
  <2> DEFINE S == swept(users)
             f == [u \in S |-> sweepBurns(u, BatchLookBack) * HALF_SHAHI]
  <2>1. PICK total \in 0 .. supply :
          /\ total = MapThenSumSet(LAMBDA u : sweepBurns(u, BatchLookBack) * HALF_SHAHI, S)
          /\ sweep(users, BatchLookBack, total)
    BY DEF batchBurnExpiredTokens
  <2>2. total \in Nat /\ BatchLookBack \in Nat
    BY StakingAssumption DEF LedgerInv, TypeOK
  <2>3. IsFiniteSet(S)
    BY AddrFinite, FS_Subset DEF swept
  <2>4. total = SumFunctionOnSet(f, S)
    <3> HIDE DEF S
    <3> QED BY <2>1, <2>3, SweptTotal
  <2>5. \A u \in S : f[u] = sweepBurns(u, BatchLookBack) * HALF_SHAHI
    OBVIOUS
  <2> HIDE DEF f
  <2> QED BY <2>1, <2>2, <2>4, <2>5, SweepSupplies
<1> QED BY <1>1, <1>2, <1>3, <1>4, <1>5, <1>6 DEF StakingNext

LEMMA StepSupplies == LedgerInv /\ Supplied /\ [Next]_storageVars => Supplied'
<1> SUFFICES ASSUME LedgerInv, Supplied, [Next]_storageVars PROVE Supplied'
  OBVIOUS
<1>1. CASE AdminNext \/ AdvanceTime \/ UNCHANGED storageVars
  <2>1. balance' = balance /\ supply' = supply
    BY <1>1 DEF AdminNext, AdvanceTime, storageVars, ledgerVars
  <2> QED BY <2>1 DEF Supplied, Total
<1> QED BY <1>1, MintingSupplies, StakingSupplies DEF Next

LEMMA InitSupplies == initialize => Supplied
<1> SUFFICES ASSUME initialize PROVE Supplied
  OBVIOUS
<1> DEFINE f == [a \in Addr |-> IF a \in {Owner} THEN InitialTokens ELSE 0]
           g == [a \in {Owner} |-> InitialTokens]
<1>1. balance = f /\ supply = InitialTokens
  BY DEF initialize, StorageInit
<1>2. /\ \A a \in Addr : f[a] \in Nat /\ f[a] = IF a \in {Owner} THEN g[a] ELSE 0
      /\ g[Owner] = InitialTokens /\ InitialTokens \in Nat /\ {Owner} \in SUBSET Addr
  BY StorageAssumption DEF Addr
<1> HIDE DEF f, g
<1>3. Total(f) = SumFunctionOnSet(g, {Owner})
  BY <1>2, AddrFinite, SumPart DEF Total
<1>4. SumFunctionOnSet(g, {Owner}) = InitialTokens
  BY <1>2, SumSingle
<1> QED BY <1>1, <1>3, <1>4 DEF Supplied

(* Whatever is minted in batches, moved, burned or swept, the supply is what *)
(* all holders have together, and beyond what the mints counted it holds at  *)
(* most 100% a year on the largest stake of every position ever opened.      *)
THEOREM SupplyAlwaysAccounted == Spec => []SupplyAccounted
<1>1. initialize => Supplied
  BY InitSupplies
<1>2. LedgerInv /\ Supplied /\ [Next]_storageVars => Supplied'
  BY StepSupplies
<1>3. LedgerInv /\ Supplied /\ RewardsBounded => SupplyAccounted
  BY DEF LedgerInv, TypeOK, Supplied, Total, SupplyAccounted, SumFunction
<1> QED BY <1>1, <1>2, <1>3, LedgerInvariant, RewardsAlwaysBounded, PTL DEF Spec
=============================================================================
