---------------------------- MODULE DirectMinting ----------------------------
(***************************************************************************)
(* Minting without the queue: blockchain/services/merkle.service.ts, the   *)
(* unbatched mints of minting.service.ts, and the mint for a new user that *)
(* it and hot-wallet.service.ts ask of the contract.  A request is cut     *)
(* where it awaits the database or the chain.  A Merkle proof stands for   *)
(* the set of leaves of its tree.                                          *)
(***************************************************************************)
EXTENDS Naturals, FiniteSets

CONSTANTS
  Wallets,
  Minters,      \* requests in flight
  MaxRecords,   \* bound: records of a wallet that are counted
  MaxRestarts   \* bound: restarts of the process

ASSUME DirectAssumption == Wallets # {} /\ MaxRecords \in Nat

VARIABLES
  verified,            \* wallets of verified users, in the database
  merkleTree,          \* the leaves; {}: no tree
  addressToLeafIndex,  \* the addresses it knows
  initialized,
  loads,               \* queries for the verified users not answered: who asked, what was found
  minters,             \* what each request awaits
  hasFirstMinted,      \* the contract's record of each wallet
  recorded,            \* mints the database holds for each wallet
  restarts

mintingVars == <<verified, merkleTree, addressToLeafIndex, initialized, loads, minters,
                 hasFirstMinted, recorded, restarts>>
merkle == <<merkleTree, addressToLeafIndex, initialized, loads>>

NoMinter == [step |-> "idle", wallet |-> CHOOSE w \in Wallets : TRUE, records |-> FALSE]
becomes(m, step) == minters' = [minters EXCEPT ![m].step = step]

MintingInit ==
  /\ verified \in SUBSET Wallets /\ loads = {[by |-> "boot", found |-> verified]}   \* onModuleInit has asked
  /\ merkleTree = {} /\ addressToLeafIndex = {} /\ initialized = FALSE
  /\ minters = [m \in Minters |-> NoMinter]
  /\ hasFirstMinted = {} /\ recorded = [w \in Wallets |-> 0] /\ restarts = 0

isVerified(w) == /\ w \notin verified /\ verified' = verified \cup {w}
                 /\ UNCHANGED <<merkle, minters, hasFirstMinted, recorded, restarts>>

-----------------------------------------------------------------------------
\* The addresses replace the tree, unless there are none, and are added to
\* those that are known.
initializeMerkleTree(addresses) ==
  /\ addressToLeafIndex' = addressToLeafIndex \cup addresses
  /\ merkleTree' = IF addresses = {} THEN merkleTree ELSE addresses

\* The query of initializeFromDatabase is answered, or fails.
initializeFromDatabase(l) ==
  /\ loads' = loads \ {l}
  /\ \/ initializeMerkleTree(l.found) /\ initialized' = TRUE
     \/ UNCHANGED <<merkleTree, addressToLeafIndex, initialized>>
  /\ UNCHANGED <<verified, minters, hasFirstMinted, recorded, restarts>>

addAddress(w) ==
  /\ w \notin addressToLeafIndex
  /\ initializeMerkleTree(addressToLeafIndex \cup {w})
  /\ UNCHANGED <<verified, initialized, loads, minters, hasFirstMinted, recorded, restarts>>

-----------------------------------------------------------------------------
(* processFirstTimeMint asks for a proof first, which may load the tree.    *)
processFirstTimeMint(m) ==
  /\ minters[m].step = "idle"
  /\ becomes(m, "proof")
  /\ loads' = IF merkleTree = {} /\ initialized = FALSE
              THEN loads \cup {[by |-> m, found |-> verified]} ELSE loads
  /\ UNCHANGED <<verified, merkleTree, addressToLeafIndex, initialized, hasFirstMinted, recorded, restarts>>

\* Without a proof the mint fails (a tree of one leaf has none either); with
\* one it fails when the call's arguments are encoded, as firstTimeMint of the
\* token service swaps two of them.
firstTimeMintFails(m) ==
  /\ minters[m].step = "proof" /\ \A l \in loads : l.by # m
  /\ minters' = [minters EXCEPT ![m] = NoMinter]
  /\ UNCHANGED <<verified, merkle, hasFirstMinted, recorded, restarts>>

afterSend_NoWait(records) == IF records THEN "record" ELSE "sent"

\* A transaction that was sent is waited for.
afterSend(records) == "sent"

\* processMintForNewUser records the mint; mintShahiForNewUser and
\* createUserWallet of hot-wallet.service.ts do not.
mintForNewUser(m, w, records) ==
  /\ minters[m].step = "idle"
  /\ minters' = [minters EXCEPT ![m] =
                   [step |-> afterSend(records), wallet |-> w, records |-> records]]
  /\ UNCHANGED <<verified, merkle, hasFirstMinted, recorded, restarts>>

processMintForNewUser(m, w) == mintForNewUser(m, w, TRUE)
mintShahiForNewUser(m, w) == mintForNewUser(m, w, FALSE)

\* The contract mints, or returns silently for a wallet it has a record of.
transactionMined(m) ==
  /\ minters[m].step = "sent"
  /\ hasFirstMinted' = hasFirstMinted \cup {minters[m].wallet}
  /\ IF minters[m].records THEN becomes(m, "record") ELSE minters' = [minters EXCEPT ![m] = NoMinter]
  /\ UNCHANGED <<verified, merkle, recorded, restarts>>

\* Reverted or dropped, or the call threw before anything was sent.
transactionFails(m) ==
  /\ minters[m].step = "sent"
  /\ minters' = [minters EXCEPT ![m] = NoMinter]
  /\ UNCHANGED <<verified, merkle, hasFirstMinted, recorded, restarts>>

\* Its wait() fails while the transaction is still on its way: nothing will be recorded.
waitFails(m) ==
  /\ minters[m].step = "sent" /\ minters[m].records
  /\ minters' = [minters EXCEPT ![m].records = FALSE]
  /\ UNCHANGED <<verified, merkle, hasFirstMinted, recorded, restarts>>

recordTokenMinting(m) ==
  LET w == minters[m].wallet IN
  /\ minters[m].step = "record"
  /\ recorded' \in {recorded, [recorded EXCEPT ![w] = IF @ < MaxRecords THEN @ + 1 ELSE @]}
  /\ minters' = [minters EXCEPT ![m] = NoMinter]
  /\ UNCHANGED <<verified, merkle, hasFirstMinted, restarts>>

\* Transactions go on without the process that sent them.
restart ==
  /\ restarts < MaxRestarts /\ restarts' = restarts + 1
  /\ minters' = [m \in Minters |->
                   IF minters[m].step = "sent" THEN [minters[m] EXCEPT !.records = FALSE] ELSE NoMinter]
  /\ merkleTree' = {} /\ addressToLeafIndex' = {} /\ initialized' = FALSE
  /\ loads' = {[by |-> "boot", found |-> verified]}
  /\ UNCHANGED <<verified, hasFirstMinted, recorded>>

DirectNext ==
  \/ restart
  \/ \E w \in Wallets : isVerified(w) \/ addAddress(w)
  \/ \E l \in loads : initializeFromDatabase(l)
  \/ \E m \in Minters :
       \/ \E w \in Wallets :
            processMintForNewUser(m, w) \/ mintShahiForNewUser(m, w)
       \/ processFirstTimeMint(m) \/ firstTimeMintFails(m) \/ transactionMined(m) \/ transactionFails(m) \/ waitFails(m)
       \/ recordTokenMinting(m)

DirectSpec == MintingInit /\ [][DirectNext]_mintingVars

-----------------------------------------------------------------------------
DirectTypeOK ==
  /\ verified \subseteq Wallets /\ \A l \in loads : l.found \subseteq verified
  /\ merkleTree \subseteq addressToLeafIndex /\ addressToLeafIndex \subseteq Wallets
  /\ minters \in [Minters -> [step : {"idle", "proof", "sent", "record"},
                              wallet : Wallets, records : BOOLEAN]]
  /\ recorded \in [Wallets -> 0 .. MaxRecords]

\* The database never holds a mint of a wallet the contract has no mint of,
\* whatever transactions fail, are given up or outlive a restart.
RecordedHasMinted == \A w \in Wallets : recorded[w] > 0 => w \in hasFirstMinted
=============================================================================
