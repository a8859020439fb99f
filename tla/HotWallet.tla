------------------------------ MODULE HotWallet ------------------------------
(***************************************************************************)
(* The hot wallet (blockchain/hotwallet: WalletManager.ts, index.ts,       *)
(* utils/encryption.ts): the private keys it stores, under which keys they *)
(* are encrypted, and native transfers, which read the balance, the        *)
(* pending nonce and the receipt one await after the other.  The node is   *)
(* external.                                                               *)
(***************************************************************************)
EXTENDS Naturals, SequencesExt, FiniteSets, Functions

CONSTANTS
  Owners,          \* addresses of the wallets
  Sends,           \* calls of sendTransaction; each sends one unit
  MaxKey,          \* bound: encryption keys, the first and those rotated to
  MaxFunds         \* bound: what an address holds on the chain

ASSUME HotWalletAssumption ==
  Owners # {} /\ IsFiniteSet(Sends) /\ MaxKey \in Nat \ {0} /\ MaxFunds \in Nat

VARIABLES
  encryptPrivateKeys, encryptionKey,   \* configuration
  stored,        \* <<network as given, address>> |-> [layers, encrypted]
  sends,         \* what each call has in hand
  funds,         \* external: the balances on the chain
  pool, mined    \* external: transactions accepted, and included (TRUE: not reverted)

keyVars == <<encryptPrivateKeys, encryptionKey, stored>>
chainVars == <<funds, pool, mined>>
hotWalletVars == <<keyVars, sends, chainVars>>

Networks == {"eth", "ETH"}
toUpperCase(network) == "ETH"

NoSend == [step |-> "idle", from |-> CHOOSE a \in Owners : TRUE, plain |-> FALSE, nonce |-> 0]

HotWalletInit ==
  /\ encryptPrivateKeys \in BOOLEAN /\ encryptionKey = 1 /\ stored = <<>>
  /\ sends = [c \in Sends |-> NoSend]
  /\ funds \in [Owners -> 0..MaxFunds] /\ pool = {} /\ mined = <<>>

-----------------------------------------------------------------------------
(* The store.  A private key is known by the keys it is encrypted under,   *)
(* the last one outermost; <<>> is the key itself.                         *)

encrypt(layers) == Append(layers, encryptionKey)
ifConfigured(layers) == IF encryptPrivateKeys THEN encrypt(layers) ELSE layers

\* importFromMnemonic has encrypted the key when addWallet encrypts it again.
importFromMnemonic(network, a) ==
  /\ stored' = [w \in DOMAIN stored \cup {<<network, a>>} |->
                  IF w = <<network, a>>
                  THEN [layers |-> ifConfigured(ifConfigured(<<>>)), encrypted |-> encryptPrivateKeys]
                  ELSE stored[w]]
  /\ UNCHANGED <<encryptPrivateKeys, encryptionKey, sends, chainVars>>

\* getWallet: what the caller gets for a private key.
found(network, a) == <<toUpperCase(network), a>> \in DOMAIN stored
getWallet(network, a) ==
  LET w == stored[<<toUpperCase(network), a>>]
  IN  IF w.encrypted THEN Front(w.layers) ELSE w.layers
opens(w) == w.encrypted => Last(w.layers) = encryptionKey

removeWallet(network, a) ==
  /\ found(network, a)
  /\ stored' = Restrict(stored, DOMAIN stored \ {<<toUpperCase(network), a>>})
  /\ UNCHANGED <<encryptPrivateKeys, encryptionKey, sends, chainVars>>

clearWallets ==
  /\ stored # <<>> /\ stored' = <<>>
  /\ UNCHANGED <<encryptPrivateKeys, encryptionKey, sends, chainVars>>

reencrypted_UpperOnly(newKey) ==
  [w \in DOMAIN stored |->
     IF w[1] = "ETH" THEN [stored[w] EXCEPT !.layers = Append(Front(@), newKey)] ELSE stored[w]]

\* Every wallet's outer layer is exchanged, of both spellings of its network.
reencrypted(newKey) ==
  [w \in DOMAIN stored |-> [stored[w] EXCEPT !.layers = Append(Front(@), newKey)]]

\* rotateEncryptionKey: nothing changes if one key cannot be decrypted.
rotateEncryptionKey ==
  /\ encryptPrivateKeys /\ encryptionKey < MaxKey
  /\ \A w \in DOMAIN stored : opens(stored[w])
  /\ stored' = reencrypted(encryptionKey + 1)
  /\ encryptionKey' = encryptionKey + 1
  /\ UNCHANGED <<encryptPrivateKeys, sends, chainVars>>

-----------------------------------------------------------------------------
(* sendTransaction                                                         *)

to(c, s) == sends' = [sends EXCEPT ![c].step = s]

\* The key is the caller's or the store's; without one the call ends.
sendTransaction(c, network, a) ==
  /\ sends[c].step = "idle"
  /\ \E plain \in {TRUE} \cup (IF found(network, a) THEN {getWallet(network, a) = <<>>} ELSE {}) :
       sends' = [sends EXCEPT ![c] = [NoSend EXCEPT !.step = "simulate", !.from = a, !.plain = plain]]
  /\ UNCHANGED <<keyVars, chainVars>>

\* simulateTransaction: the node estimates the gas against the chain as it is.
simulateTransaction(c) ==
  /\ sends[c].step = "simulate"
  /\ \/ funds[sends[c].from] > 0 /\ to(c, "balance")
     \/ to(c, "failed")
  /\ UNCHANGED <<keyVars, chainVars>>

\* The balance is cached, or '0.0' if the node does not answer; the key must be one.
checkBalance(c) ==
  /\ sends[c].step = "balance"
  /\ \/ sends[c].plain /\ to(c, "nonce")
     \/ to(c, "failed")
  /\ UNCHANGED <<keyVars, chainVars>>

\* getTransactionCount("pending").
pendingNonce(a) == Cardinality({c \in DOMAIN mined \cup pool : sends[c].from = a})

\* Faulty variant: the nonces of calls that have not broadcast are counted too.
populateTransaction_OwnCount(c) ==
  LET given == {d \in Sends : sends[d].from = sends[c].from /\ sends[d].step = "broadcast"}
  IN  /\ sends[c].step = "nonce"
      /\ sends' = [sends EXCEPT ![c].step = "broadcast",
                               ![c].nonce = pendingNonce(sends[c].from) + Cardinality(given)]
      /\ UNCHANGED <<keyVars, chainVars>>

populateTransaction(c) ==
  /\ sends[c].step = "nonce"
  /\ sends' = [sends EXCEPT ![c].step = "broadcast", ![c].nonce = pendingNonce(sends[c].from)]
  /\ UNCHANGED <<keyVars, chainVars>>

minedOf(a) == {c \in DOMAIN mined : sends[c].from = a}
rivals(c) == {d \in pool : sends[d].from = sends[c].from /\ sends[d].nonce = sends[c].nonce}

\* The answer arrives, and the receipt is waited for, or it is lost.
afterBroadcast(c) == {"wait", "failed"}

\* The node takes the transaction, in place of one with its nonce too.
accepted(c) ==
  /\ sends[c].step = "broadcast" /\ funds[sends[c].from] > 0
  /\ sends[c].nonce >= Cardinality(minedOf(sends[c].from))
  /\ pool' = (pool \ rivals(c)) \cup {c}
  /\ \E s \in afterBroadcast(c) : to(c, s)
  /\ UNCHANGED <<keyVars, funds, mined>>

\* It refuses one whose nonce is used or taken or that the address cannot pay, or
\* it is not reached.
refused(c) ==
  /\ sends[c].step = "broadcast"
  /\ to(c, "failed")
  /\ UNCHANGED <<keyVars, chainVars>>

mine(c) ==
  /\ c \in pool /\ sends[c].nonce = Cardinality(minedOf(sends[c].from))
  /\ \E ok \in BOOLEAN :
       /\ ok => funds[sends[c].from] > 0
       /\ mined' = [d \in DOMAIN mined \cup {c} |-> IF d = c THEN ok ELSE mined[d]]
       /\ funds' = IF ok THEN [funds EXCEPT ![sends[c].from] = @ - 1] ELSE funds
  /\ pool' = pool \ {c}
  /\ UNCHANGED <<keyVars, sends>>

\* wait(): a receipt; an exception for a revert, a replacement or a lost connection.
receipt(c) ==
  /\ sends[c].step = "wait"
  /\ \/ c \in DOMAIN mined /\ mined[c] /\ to(c, "success")
     \/ to(c, "failed")
  /\ UNCHANGED <<keyVars, chainVars>>

\* _getTokenInfo finds no handler under a token's name: token transfers end here.
sendTokenTransaction(c) ==
  /\ sends[c].step = "idle" /\ to(c, "failed")
  /\ UNCHANGED <<keyVars, chainVars>>

HotWalletNext ==
  \/ \E n \in Networks, a \in Owners :
       \/ importFromMnemonic(n, a) \/ removeWallet(n, a)
       \/ \E c \in Sends : sendTransaction(c, n, a)
  \/ clearWallets \/ rotateEncryptionKey
  \/ \E c \in Sends :
       \/ simulateTransaction(c) \/ checkBalance(c) \/ populateTransaction(c)
       \/ accepted(c) \/ refused(c) \/ mine(c) \/ receipt(c) \/ sendTokenTransaction(c)

HotWalletSpec == HotWalletInit /\ [][HotWalletNext]_hotWalletVars

-----------------------------------------------------------------------------
\* Whatever is imported, removed and rotated in between, the current encryption key
\* opens what is stored: a rotation that missed a wallet would fail every later one.
RotationReachesAll == \A w \in DOMAIN stored : opens(stored[w])

HotWalletTypeOK ==
  /\ encryptPrivateKeys \in BOOLEAN /\ encryptionKey \in 1..MaxKey
  /\ DOMAIN stored \subseteq Networks \X Owners
  /\ \A w \in DOMAIN stored : stored[w].layers \in Seq(1..MaxKey) /\ stored[w].encrypted \in BOOLEAN
  /\ \A c \in Sends : sends[c].from \in Owners /\ sends[c].nonce \in 0..Cardinality(Sends)
  /\ funds \in [Owners -> 0..MaxFunds]
  /\ pool \subseteq Sends /\ DOMAIN mined \subseteq Sends /\ pool \cap DOMAIN mined = {}
  /\ RotationReachesAll

\* However calls of one address overlap, take the same pending nonce, replace each
\* other, fail between two awaits or lose their answers, no transfer that the node holds
\* waits for a nonce nobody has used: those from the next one to be mined up to its own
\* are all held.
NoNonceGap ==
  \A c \in pool : \A n \in Cardinality(minedOf(sends[c].from)) .. sends[c].nonce :
    \E d \in pool : sends[d].from = sends[c].from /\ sends[d].nonce = n
=============================================================================
