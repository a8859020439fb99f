----------------------------- MODULE MCServices -----------------------------
(***************************************************************************)
(* Services that share no state, for TLC: a behaviour is about one of      *)
(* them, chosen in its first state.                                        *)
(***************************************************************************)
EXTENDS AuthService, WebSocketGateway, WebSocketClient, HotWallet, NFTService, StakingService,
        WalletChallenges, DirectMinting, TransactionHistory, ChainHandlers, TLC

CONSTANTS
  punks, cards,     \* an ERC721 and an ERC1155 contract
  u1, u2, s1, s2, s3,       \* users and the sockets they connect with
  wallet1, position1        \* the channels of u1's address and of a position of u1's

VARIABLE part

logins == (s1 :> u1) @@ (s2 :> u1) @@ (s3 :> u2)
audience == (wallet1 :> {u1}) @@ (position1 :> {u1})
standards == (punks :> "ERC721") @@ (cards :> "ERC1155")

servicesVars == <<part, authVars, gatewayVars, clientVars, hotWalletVars, nftVars, stakingVars,
                  challengeVars, mintingVars, historyVars, handlerVars>>

Init ==
  /\ part \in {"accounts", "gateway", "client", "hotWallet", "nfts", "staking", "challenges",
               "minting", "history", "endpoints"}
  /\ AuthInit /\ GatewayInit /\ ClientInit /\ HotWalletInit /\ NFTInit /\ StakingInit /\ ChallengesInit
  /\ MintingInit /\ HistoryInit /\ HandlersInit
  /\ part # "hotWallet" => ~encryptPrivateKeys /\ \A a \in Owners : funds[a] = 0
  /\ part # "minting" => verified = {}
  /\ part # "history" => api = "covalent" /\ transfers = 0 /\ reader.from = 0 /\ reader.limit = 1
  /\ part # "nfts" => \A i \in Items : owner[i] = "sender"

Next ==
  /\ UNCHANGED part
  /\ \/ part = "accounts" /\ AuthNext
        /\ UNCHANGED <<gatewayVars, clientVars, hotWalletVars, nftVars, stakingVars,
                       challengeVars, mintingVars, historyVars, handlerVars>>
     \/ part = "gateway" /\ GatewayNext
        /\ UNCHANGED <<authVars, clientVars, hotWalletVars, nftVars, stakingVars,
                       challengeVars, mintingVars, historyVars, handlerVars>>
     \/ part = "client" /\ ClientNext
        /\ UNCHANGED <<authVars, gatewayVars, hotWalletVars, nftVars, stakingVars,
                       challengeVars, mintingVars, historyVars, handlerVars>>
     \/ part = "hotWallet" /\ HotWalletNext
        /\ UNCHANGED <<authVars, gatewayVars, clientVars, nftVars, stakingVars,
                       challengeVars, mintingVars, historyVars, handlerVars>>
     \/ part = "nfts" /\ NFTNext
        /\ UNCHANGED <<authVars, gatewayVars, clientVars, hotWalletVars, stakingVars,
                       challengeVars, mintingVars, historyVars, handlerVars>>
     \/ part = "staking" /\ StakingNext
        /\ UNCHANGED <<authVars, gatewayVars, clientVars, hotWalletVars, nftVars,
                       challengeVars, mintingVars, historyVars, handlerVars>>
     \/ part = "challenges" /\ ChallengesNext
        /\ UNCHANGED <<authVars, gatewayVars, clientVars, hotWalletVars, nftVars,
                       stakingVars, mintingVars, historyVars, handlerVars>>
     \/ part = "minting" /\ DirectNext
        /\ UNCHANGED <<authVars, gatewayVars, clientVars, hotWalletVars, nftVars,
                       stakingVars, challengeVars, historyVars, handlerVars>>
     \/ part = "history" /\ HistoryNext
        /\ UNCHANGED <<authVars, gatewayVars, clientVars, hotWalletVars, nftVars,
                       stakingVars, challengeVars, mintingVars, handlerVars>>
     \/ part = "endpoints" /\ HandlersNext
        /\ UNCHANGED <<authVars, gatewayVars, clientVars, hotWalletVars, nftVars,
                       stakingVars, challengeVars, mintingVars, historyVars>>

Spec == Init /\ [][Next]_servicesVars

\* The state of each part has its type.
ServicesTypeOK ==
  /\ AuthTypeOK /\ GatewayTypeOK /\ ClientTypeOK /\ HotWalletTypeOK
  /\ NFTTypeOK /\ StakingTypeOK /\ ChallengesTypeOK
  /\ DirectTypeOK /\ HistoryTypeOK /\ HandlersTypeOK
=============================================================================
