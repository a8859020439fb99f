------------------------- MODULE TransactionHistory -------------------------
(***************************************************************************)
(* hotwallet/services/TransactionHistoryService.ts over an explorer that   *)
(* keeps moving: a client reads an address's token transfers page by page  *)
(* while new ones arrive at the front, and a transaction is looked up in   *)
(* three requests while it is being mined.  The service keeps no state:    *)
(* the variables are its callers' and the explorer's.                      *)
(***************************************************************************)
EXTENDS Naturals, FiniteSetsExt

CONSTANTS
  Limits,         \* page sizes a client asks for
  MaxTransfers    \* bound: transfers of the address

ASSUME HistoryAssumption == MaxTransfers \in Nat /\ Limits \subseteq Nat \ {0}

VARIABLES
  api,         \* what serves the chain: "etherscan", or "covalent"
  transfers,   \* the explorer's transfers of the address, numbered by age
  reader,      \* the client that reads them all
  transaction, \* what the chain has made of a transaction
  lookup       \* getTransactionByHash: what it has in hand

historyVars == <<api, transfers, reader, transaction, lookup>>

NoLookup == [step |-> "idle", status |-> 0]

HistoryInit ==
  /\ api \in {"etherscan", "covalent"}
  /\ transfers \in 0 .. MaxTransfers
  /\ \E limit \in Limits, offset \in 0 .. MaxTransfers :
       reader = [limit |-> limit, from |-> offset, offset |-> offset, had |-> transfers,
                 data |-> {}, hasMore |-> TRUE]
  /\ transaction = "pending" /\ lookup = NoLookup

\* A transfer is mined; the explorer lists it first.
transferArrives ==
  /\ transfers < MaxTransfers
  /\ transfers' = transfers + 1
  /\ UNCHANGED <<api, reader, transaction, lookup>>

-----------------------------------------------------------------------------
(* Pages.  The explorer takes a page number, the client gives an offset.    *)
page(offset, limit) == offset \div limit + 1

\* sort=desc: the newest transfers are on page 1.
pageOf(number, limit) ==
  {t \in 1 .. transfers : (transfers - t) \div limit + 1 = number}

hasMore_Total(data, limit) == Cardinality(data) > limit

\* Of the explorer: a full page may be followed by another.
hasMore(data, limit) == Cardinality(data) >= limit

\* Covalent knows what follows.
has_more(number, limit) == transfers > number * limit

getTokenTransfers ==
  LET number == page(reader.offset, reader.limit)
      data == pageOf(number, reader.limit)
  IN  /\ reader.hasMore
      /\ reader' = [reader EXCEPT !.data = @ \cup data, !.offset = @ + reader.limit,
                                  !.hasMore = IF api = "etherscan" THEN hasMore(data, reader.limit)
                                              ELSE has_more(number, reader.limit)]
      /\ UNCHANGED <<api, transfers, transaction, lookup>>

-----------------------------------------------------------------------------
transactionSettles ==
  /\ transaction = "pending"
  /\ transaction' \in {"succeeded", "reverted"}
  /\ UNCHANGED <<api, transfers, reader, lookup>>

getTransactionByHash ==
  /\ lookup.step = "idle"
  /\ lookup' = [step |-> IF api = "etherscan" THEN "receipt" ELSE "covalent", status |-> 0]
  /\ UNCHANGED <<api, transfers, reader, transaction>>

\* An answer without a receipt, also one that reports an error, gives status 0.
receiptFetched ==
  /\ lookup.step = "receipt"
  /\ \E answered \in BOOLEAN :
       lookup' = [step |-> "block", status |-> IF answered /\ transaction = "succeeded" THEN 1 ELSE 0]
  /\ UNCHANGED <<api, transfers, reader, transaction>>

\* Covalent answers with everything at once.
covalentFetched ==
  /\ lookup.step = "covalent"
  /\ lookup' = [step |-> "done", status |-> IF transaction = "succeeded" THEN 1 ELSE 0]
  /\ UNCHANGED <<api, transfers, reader, transaction>>

blockFetched ==
  /\ lookup.step = "block"
  /\ lookup' = [lookup EXCEPT !.step = "done"]
  /\ UNCHANGED <<api, transfers, reader, transaction>>

\* The transaction is not found, or a request throws: so does the lookup.
lookupFails ==
  /\ lookup.step \in {"receipt", "block", "covalent"}
  /\ lookup' = NoLookup
  /\ UNCHANGED <<api, transfers, reader, transaction>>

HistoryNext ==
  \/ transferArrives \/ getTokenTransfers
  \/ transactionSettles \/ getTransactionByHash \/ receiptFetched \/ covalentFetched \/ blockFetched \/ lookupFails

HistorySpec == HistoryInit /\ [][HistoryNext]_historyVars

-----------------------------------------------------------------------------
HistoryTypeOK ==
  /\ transfers \in 0 .. MaxTransfers
  /\ reader.data \subseteq 1 .. transfers /\ reader.had \in 0 .. transfers
  /\ transaction \in {"pending", "succeeded", "reverted"}
  /\ lookup.status = 1 => transaction = "succeeded"

\* A client that pages until there are no more has every transfer there was
\* behind its first offset, although new ones push the others back between
\* its requests and its offset need not be a multiple of the page size.
PagingMissesNothing ==
  ~reader.hasMore => {t \in 1 .. reader.had : reader.had - t >= reader.from} \subseteq reader.data
=============================================================================
