----------------------------- MODULE NFTService -----------------------------
(***************************************************************************)
(* Transfers and listings of NFTs (blockchain/hotwallet/services/          *)
(* NFTService.ts).  A batch is grouped by contract and sent one            *)
(* transaction after the other; a listing through a browser wallet is      *)
(* approved on the chain before it is posted.  The chain and the           *)
(* marketplace are external.                                               *)
(***************************************************************************)
EXTENDS Naturals, SequencesExt, FiniteSets, Functions

CONSTANTS
  Collections,       \* contracts
  Standard,          \* Standard[k]: "ERC721" or "ERC1155"
  TokenIds, Receivers,
  Sellers,           \* callers that list
  MaxBatch           \* bound: transfers in a batch

ASSUME NFTAssumption ==
  /\ Standard \in [Collections -> {"ERC721", "ERC1155"}]
  /\ "sender" \notin Receivers /\ Receivers # {} /\ MaxBatch \in Nat

VARIABLES
  owner,             \* external: item |-> who holds it
  batch,             \* the transfers asked for, in the order given
  left,              \* the positions in it of those not processed yet
  processedTransfers,\* what the result will say
  batchStep,
  approved, listed,  \* external: sellers the marketplace may move for; listings posted
  listing            \* seller |-> step of listNFTForSaleWithWeb3

batchVars == <<owner, batch, left, processedTransfers, batchStep>>
listingVars == <<approved, listed, listing>>
nftVars == <<batchVars, listingVars>>

Items == Collections \X TokenIds
Transfers == [item : Items, to : Receivers]
contract(t) == t.item[1]

NFTInit ==
  /\ owner \in [Items -> {"sender"} \cup {CHOOSE r \in Receivers : TRUE}]
  /\ batch = <<>> /\ left = {} /\ processedTransfers = {} /\ batchStep = "idle"
  /\ approved = {} /\ listed = {} /\ listing = [s \in Sellers |-> "idle"]

-----------------------------------------------------------------------------
(* batchTransferNFTs                                                       *)

\* The contracts are processed in the order of their first transfer.
sameGroup(i, j) == contract(batch[i]) = contract(batch[j])
firstOf(i) == Min({j \in DOMAIN batch : sameGroup(i, j)})
isNext(i) ==
  i \in left /\ \A j \in left : firstOf(i) < firstOf(j) \/ (sameGroup(i, j) /\ i <= j)

batchTransferNFTs ==
  /\ batchStep = "idle"
  /\ \E b \in BoundedSeq(Transfers, MaxBatch) :
       /\ b # <<>> /\ \A i, j \in DOMAIN b : b[i].item = b[j].item => i = j
       /\ batch' = b /\ left' = DOMAIN b
  /\ batchStep' = "send"
  /\ UNCHANGED <<owner, processedTransfers, listingVars>>

\* An ERC1155 group is one transaction, to the first one's receiver; any other
\* transfer is one by itself.
sentWith(i) == IF Standard[contract(batch[i])] = "ERC1155" THEN {j \in left : sameGroup(i, j)} ELSE {i}
sentBy(i) == {batch[j] : j \in sentWith(i)}
holds(ts) == \A t \in ts : owner[t.item] = "sender"

\* The transaction is mined: the items move.
moved(ts, r) == [i \in Items |-> IF \E t \in ts : t.item = i THEN r ELSE owner[i]]

transferMined ==
  /\ batchStep = "send"
  /\ \E i \in left :
       /\ isNext(i) /\ holds(sentBy(i))
       /\ owner' = moved(sentBy(i), batch[i].to)
       /\ processedTransfers' = processedTransfers \cup sentBy(i)
       /\ left' = left \ sentWith(i)
  /\ UNCHANGED <<batch, batchStep, listingVars>>

onFailure_Skips(i) == batchStep' = "send" /\ left' = left \ sentWith(i)

\* A transfer refused or reverted, or whose receipt is lost, ends the batch.
onFailure(i) == batchStep' = "failed" /\ left' = {}

transferFails ==
  /\ batchStep = "send" /\ \E i \in left : isNext(i) /\ onFailure(i)
  /\ UNCHANGED <<owner, batch, processedTransfers, listingVars>>

\* The receipt of a transaction that was mined does not arrive.
receiptLost ==
  /\ batchStep = "send"
  /\ \E i \in left :
       /\ isNext(i) /\ holds(sentBy(i))
       /\ owner' = moved(sentBy(i), batch[i].to)
       /\ onFailure(i)
  /\ UNCHANGED <<batch, processedTransfers, listingVars>>

batchDone ==
  /\ batchStep = "send" /\ left = {}
  /\ batchStep' = "success"
  /\ UNCHANGED <<owner, batch, left, processedTransfers, listingVars>>

\* transferNFT and transferERC1155, called on their own meanwhile.
transferNFT ==
  \E i \in Items, r \in Receivers :
    /\ batchStep = "send" /\ owner[i] = "sender"
    /\ owner' = [owner EXCEPT ![i] = r]
    /\ UNCHANGED <<batch, left, processedTransfers, batchStep, listingVars>>

-----------------------------------------------------------------------------
(* listNFTForSaleWithWeb3                                                  *)

goes(s, step) == listing' = [listing EXCEPT ![s] = step]

setApprovalForAll(s) ==
  /\ listing[s] = "idle" /\ goes(s, "approving")
  /\ UNCHANGED <<batchVars, approved, listed>>

approvalMined(s) ==
  /\ listing[s] = "approving" /\ s \notin approved
  /\ approved' = approved \cup {s}
  /\ UNCHANGED <<batchVars, listed, listing>>

\* approveTx.wait(): the approval is on the chain.
waited(s) == s \in approved

signs(s) ==
  /\ listing[s] = "approving" /\ waited(s) /\ goes(s, "posting")
  /\ UNCHANGED <<batchVars, approved, listed>>

createMarketplaceListing(s) ==
  /\ listing[s] = "posting"
  /\ listed' = listed \cup {s} /\ goes(s, "idle")
  /\ UNCHANGED <<batchVars, approved>>

\* Refused by the wallet, the chain or the marketplace: an approval remains.
listingFails(s) ==
  /\ listing[s] # "idle" /\ goes(s, "idle")
  /\ UNCHANGED <<batchVars, approved, listed>>

NFTNext ==
  \/ batchTransferNFTs \/ transferMined \/ transferFails \/ receiptLost \/ batchDone \/ transferNFT
  \/ \E s \in Sellers : \/ setApprovalForAll(s) \/ approvalMined(s) \/ signs(s)
                        \/ createMarketplaceListing(s) \/ listingFails(s)

NFTSpec == NFTInit /\ [][NFTNext]_nftVars

-----------------------------------------------------------------------------
NFTTypeOK ==
  /\ owner \in [Items -> Receivers \cup {"sender"}]
  /\ Len(batch) <= MaxBatch /\ left \subseteq DOMAIN batch /\ ToSet(batch) \subseteq Transfers
  /\ processedTransfers \subseteq ToSet(batch)
  /\ batchStep \in {"idle", "send", "success", "failed"}
  /\ approved \subseteq Sellers /\ listed \subseteq Sellers
  /\ listing \in [Sellers -> {"idle", "approving", "posting"}]

\* A batch reports success only when every item in it has left the sender, however the
\* grouping reorders them, whoever moves items meanwhile and whatever receipt is lost.
BatchIsWhole ==
  batchStep = "success" =>
    /\ processedTransfers = ToSet(batch)
    /\ \A t \in ToSet(batch) : owner[t.item] # "sender"

\* What is on sale the marketplace may move, although approvals are mined late and
\* listings fail after them.
ListedIsApproved == listed \subseteq approved

NFTsAccountedFor == BatchIsWhole /\ ListedIsApproved
=============================================================================
