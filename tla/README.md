# Alive Human: models, model checking and proofs

This directory holds TLA+ models of the Alive Human platform (the TypeScript
backend, the SHAHI token contract, the clients), the TLC runs that check them on
small instances, and proofs checked by TLAPS for all instances.

    tlc -workers 2 -config coin_staking.cfg MCSHAHICoin     # any run below
    tlapm SHAHICoin_proofs.tla                              # the proofs

`PROJECT.json` lists components, runs, faulty variants of the code, the source
lines behind every definition, findings, hazards and theorems.

## 1. Inventory

Paths are under `src/packages/`; `bc/` is `backend/src/blockchain/`, `hw/` is
`bc/hotwallet/`. The last column names the modules.

| Component | State it keeps | What makes it hard | What makes it correct | Modules |
|---|---|---|---|---|
| SHAHI contract, `bc/contracts/` | balances, flags, mint and expiry records, replay keys, stakes | anyone's transactions in any order; block time; stakes lie in the contract's own balance | stakes returned whole, and covered unless the pot is overdrawn; rewards paid once; mints a year apart; locks and blacklist respected | `SHAHIStorage`, `SHAHIMinting`, `SHAHIStaking`, `SHAHICoin`, `StakeEscrow` |
| Token expiry task, `bc/tasks/token-expiry.task.ts` | `isRunning`, answers in flight | many transactions at once, answers in any order, the chain moving | every wallet counted once; the flag released | `TokenExpiryTask` on the contract |
| Minting queue, `bc/services/user-minting-queue.service.ts` | table, `isProcessingQueue` | awaits, whole snapshots written back, retries, restarts | outcomes meaningful; retries end; flag released | `UserMintingQueue` |
| Minting service, `bc/services/minting.service.ts` | batch timer, the queue's table, mint records | overlapping batches, failure half way, two writes per mint | every request leaves the queue; only mints are recorded | `MintingService`, `DirectMinting` |
| Merkle service, hot wallet service | the tree of verified users | a load in flight while requests prove and add | (part of the mints) | `DirectMinting` |
| Staking service, `bc/services/staking.service.ts` | positions in the database | read, await, stamp, save the snapshot, whose UPDATE comes later still | no time is paid twice unless an UPDATE is overtaken | `StakingService` |
| Circuit breaker, rate limiter, `hw/utils/` | failure counts, open flag; recent requests, queues | calls overlapping at awaits, timers | the breaker trips; nobody waits for ever | `CircuitBreaker`, `RateLimiter`, composed in `BalanceService` |
| Balance and gas services | caches | the same | every query answered | `BalanceService` |
| RPC load balancer, `hw/services/RPCLoadBalancer.ts` | marks and counts of endpoints | overlapping health checks | marks follow the endpoints | `RPCLoadBalancer` |
| RPC provider, `bc/services/rpc-provider.service.ts` | shared index, marks, cache | the index read before an await and moved by others | a call finds an endpoint that answers | `RpcProvider` |
| Monitoring, `hw/services/MonitoringService.ts` | one socket per network, timers | crossing reconnections, late sockets | a lost connection comes back | `MonitoringService` |
| Authentication, `backend/src/auth/auth.service.ts` | users, profiles, wallets, tokens | find, create and delete over several awaits; roll-backs; restarts | rows have owners; nobody is signed out by a refresh | `AuthService` |
| Wallet login controllers | challenges, recovery tokens in memory | overlapping first requests; two controllers on one route | counts and entries in their bounds | `WalletChallenges` |
| Wallet sessions, `auth/services/web3-auth.service.ts` | nonces, sessions | repeated and late calls, lost answers | a nonce opens one session | `Web3AuthService` |
| Frontend session manager, `frontend/src/utils/session-manager.ts` | current session, local storage, timer | login, heartbeat, refresh, logout crossing | storage follows the session; a logout ends | `SessionManager` on the server |
| WebSocket gateway and client | sockets per user, subscriptions; status, timers | a disconnect during a verification; events of replaced sockets | the maps agree, events reach their users; reconnecting means it | `WebSocketGateway`, `WebSocketClient` |
| Hot wallets, `hw/index.ts`, `WalletManager.ts` | encrypted keys, pending transfers | key rotation; equal nonces; lost receipts | the key opens what is stored; no transfer waits for a nonce nobody sends | `HotWallet` |
| Chain handlers, `hw/handlers/ChainHandlers.ts` | index and failure marks of endpoints | callers that blame and rotate together | a rotation finds a usable endpoint | `ChainHandlers` |
| NFT service | batches, listings | failure in the middle of a batch | success means all moved | `NFTService` |
| Transaction history | none; its callers' offsets | the list moves between two pages | no transfer is missed | `TransactionHistory` |

How they interact: controllers call the minting service; with batch minting
enabled it writes to the minting queue's table, which the queue's cron job reads
too; both end in transactions of the token service on the contract, as does the
expiry task. Balance and gas queries pass limiter, breaker and chain handler. The
browser's session manager speaks to the session controller; the other services
share nothing but the process.

## 2. Order of work

The contract and the expiry task on it; the minting pipeline; resilience and RPC
failover; accounts and sessions; sockets; the services with smaller state; proofs
for each as far as the prover reaches. What is left is listed in sections 5 and 6.

## 3. The models

All backend services run in one thread. A handler is cut at those awaits at
which what it has read may be changed by others; between them it is one step.
`Repository.save` writes a whole snapshot back, and the models keep the snapshot.

### 3.1 The contract

One variable per storage field; `balance` and `supply` stand for the ERC-20 base
contract. A step is one transaction: a `require` is a guard, and a reverted
transaction is no step. Time is a number that the next block may raise.
Amounts are natural numbers: Solidity 0.8 reverts on overflow, and the amounts in
play are far from 2^256. Where subtraction could revert, the guard says so.

* `SHAHIStorage` - storage, flags, the ERC-20 moves, `initialize`.
* `SHAHIMinting` - the mints. A merkle root is the set of addresses in its tree, a
  signature the user who made it; a replay key is a record of user, device and year.
  The code refuses the zero address only, so a mint may name the contract itself,
  which then has a mint record and expiry records like anybody.
* `SHAHIStaking` - stakes, rewards, withdrawals, the restricted `_transfer`, burns,
  and the two sweeps with their look-back windows (`LookBack` 100 and
  `BatchLookBack` 10 days in the code) and the early `break` that leaves a record.
* `SHAHICoin` - the owner's settings, time, `Next`, and the properties.
* `StakeEscrow` - what staking promises: a pot that takes deposits, returns each
  once and whole, and while it has something in it otherwise only grows; an empty
  one may be overdrawn. `SHAHICoin` instantiates it with the positions' amounts as
  the deposits and with what the contract holds beyond the half token of each of its
  own expiry records as the pot. Taking those half tokens off beforehand makes a
  sweep of the contract's own records no withdrawal; the one that empties the
  balance leaves its record and is followed by another, and that is the overdraft.

The runs split the contract by what varies, so that each stays exhaustive:
`coin_staking` has rewards, tiers, roles and blacklist; `coin_minting` batches,
signatures, trees and sweeps over two and a half years; `coin_transfers` flags,
burn rates and the admin wallet. The bounds: two or three accounts beside the
contract, two positions, and a year of one to four ticks, so that a claim and a
withdrawal fall before and on the end of a lock, with rewards due at both, and a
mint and a sweep before, on and after the year. `coin_staking` starts with 8 tokens,
stakes 4 and mints at most 2 more, so that two stakes meet and the contract may be
named by every mint; the owner may raise the rates once, from those of
`initialize`. `coin_minting` allows 8 tokens and a batch that names the contract.
`MaxMinted`, `MaxPositions` and `MaxTime` stand in the guards of the mints, of
`createStake` and of `AdvanceTime`.

### 3.2 The expiry task

`TokenExpiryTask` extends the contract by the task's flag, the wallets still to
send, the transactions of the current batch that are unanswered, and the counts
of the result. A burn is mined or fails by itself; `answered` waits for the
batch; the chain moves between any two steps. Two batches of one wallet (`BatchSize` 1, so two answers of one batch overtake
each other in the proof only), a second
night and the manual trigger. `FlagReleased` assumes that transactions are
answered (`tx.wait()` returns or throws): weak fairness of the task's own steps,
none of the users'.

### 3.3 The minting queue and batch minting

`UserMintingQueue`: `queue` is the table, in insertion order. `run` holds what each
runner has read and is working on, `client` what an HTTP request is about to save.
Transactions are outcomes: mined and answered, failed, or mined and yet thrown.
`minted` counts them (history). The token service's `firstTimeMint` and
`annualMint` pass arguments that do not fit its ABI and always throw (`sendable`);
administrators' mints are sent. `crash` clears everything but the table.

`MintingService` extends it by batches: pending rows are read, minted group by
group, and removed one after the other through `cancelMintingRequest`, or marked
failed, all of them, when anything throws. Two executions, of the timer and of a
full queue, overlap freely.

Two requests and two overlapping runs are what the races need; two attempts per
request show a retry and the last attempt; one fault at any place stands for a
refused write or a restart. Nothing is left to do when every request is decided,
so these runs may stop (`CHECK_DEADLOCK FALSE`).

Fairness: cron fires every minute and the batch timer every few minutes, an await
is answered, a backoff elapses. Nothing in the backend calls
`processPendingItems` or cancels by itself, so these are unfair.

### 3.4 Ways to a node (`MCNetwork`, run `network`)

Four parts that share no state; the first state of a behaviour chooses which one
it is about (`part`), so that one run checks each of them exhaustively.

* `BalanceService` composes cache, `RateLimiter`, `CircuitBreaker` and a node that
  fails or answers, for token balances, native balances (which enter the breaker
  twice under one name) and gas estimates (which end with a price query). Times are
  ages, capped where the code no longer tells them apart.
* `RPCLoadBalancer`: every health check asks each endpoint on its own; the timer's
  checks and those of failing calls update the same counters as answers arrive.
* `RpcProvider`: calls share `currentIndex`, the marks and the provider cache, and
  are cut where they await a provider or the action. `steady` is history: a call
  during which the marks have been right all the time.
* `MonitoringService`: each set-up makes an object (a link) with a socket, timers
  and late sockets; the map keeps one of them for the health check.

Bounds: two callers and a limit of two requests make one caller wait; a threshold
of two failures trips and a reset time of two ticks half-opens the breaker; two
endpoints (three for the fallback, so that the next one is not the only other
one), two outages, two cuts of the network and one reconnection attempt.
Fairness: time passes, timers fire, clients answer or time out, probes end, and a
node that can be reached accepts a socket. Endpoints and networks are not fair:
they may stay down, and the liveness properties say so in their premises. A
system without queries does nothing (`CHECK_DEADLOCK FALSE`).

### 3.5 Sessions (run `sessions`)

`Web3AuthService` is the server: nonces with their age, session rows, refresh
tokens. `SessionManager` adds the tab: every login, heartbeat tick, refresh and
logout is a chain of awaits, and chains share `current`, local storage and the
timer. An answer may be lost, a page loaded again, and another client of the API
may call too. Two chains are all that can cross at one await; two logins, two
ticks, two nonces, three refresh tokens, one lost answer, one reload and one
foreign call are the bounds, named in the guards. Fairness: handlers run to their
answer, and a chain goes on when its await is over; no user action is fair. When
the counters are used up nothing happens (`CHECK_DEADLOCK FALSE`).

The tab names the session by a UUID of its own, which the server does not know, so
the server refuses its heartbeats: these lead to a refresh, or end the session.

### 3.6 Services of their own (`MCServices`, run `services`)

Ten parts, one of which a behaviour is about:

* `AuthService` - requests of registration, password and wallet login, refresh,
  reset and e-mail verification on four tables; a database transaction is one step,
  or none when it is rolled back; writes may be refused and the process restarted.
* `WebSocketGateway` - connections, the guard of messages, the three maps and the
  targets of every kind of event; anybody may subscribe to a staking channel. `WebSocketClient` - one client and the late
  events of sockets it has replaced.
* `HotWallet` - keys with their layers of encryption, and transfers that read
  balance, nonce and receipt one await after the other over an external pool.
* `NFTService` - a batch and the positions in it that are left; contracts are taken
  in the order of their first transfer, an ERC1155 contract's items in one
  transaction. Listings by a browser wallet run beside it.
* `StakingService` - a claim is cut at both readings, between its stamp and the
  UPDATE, and at its end. `overtaken` is history: the positions of which another
  write was made between a claim's stamp and its UPDATE.
* `WalletChallenges` - the counts `AuthController` keeps per address, and the recovery
  tokens `WalletAuthController` issues. `auth.module.ts:60` registers the former
  first, so the `connect` and `authenticate` routes of the latter are not reached and
  not modelled; a login is one of `AuthController`'s, which looks at no recovery token.
* `DirectMinting`, `TransactionHistory`, `ChainHandlers` - as in section 1.

Two or three overlapping requests, one account address, two users with three
sockets, three transfers of one address (one replaces, one outruns another),
two claims, three endpoints, pages of one to three over up to six transfers, one or two
faults. These are the smallest sizes at which the races of section 1 happen.
A part whose requests and faults are used up has nothing left to do
(`CHECK_DEADLOCK FALSE`). Deadlock is checked in the runs of sections 3.1 and 3.2.

## 4. What the runs show

| Run | Result |
|---|---|
| `coin_staking` | stakes leave once, whole, and stay covered until a mint names the contract; after that only an overdrawn pot loses any; the supply is the sum of the balances, and no time is paid twice; an early exit forfeits at least half of the reward not yet claimed; a blacklisted address moves nothing |
| `coin_minting` | mints that expire are a year apart whichever of the mints paid; the replay key never refuses a user who waited |
| `coin_transfers` | locked tokens go to the app or the admin wallet only, blacklisted ones nowhere |
| `coin_expiry_record` | **violated**: the sweep that empties a balance leaves its record, and a later sweep burns fresh tokens |
| `expiry_task` | each wallet is counted once as burned or failed; the flag is always released |
| `queue_service` | statuses, retry counts and the flag stay meaningful although stale snapshots are written back |
| `queue_retries` | a request scheduled for a retry is decided in the end |
| `queue_fresh_requests` | **violated**: `LessThan(...) \|\| IsNull()` never matches NULL, so cron never takes a new request |
| `batch_service` | every request leaves the queue in the end, whatever two batches, cron's run, a crash and refused writes do to it |
| `sessions` | a nonce opens one session; local storage holds the current session and its latest tokens exactly while there is one; a logout comes to its end |
| `network` | the breaker trips after the failures it says; every query is answered; health marks converge; a call fails only when no endpoint answers, while the marks are right; a lost connection comes back |
| `services` | rows have owners and accounts a way in; a refresh signs nobody out; gateway maps agree and events but staking ones go to their users; a client that says it reconnects does; no transfer waits for a nonce nobody has used; a batch that succeeded moved its items; no reward is paid twice unless an UPDATE is overtaken; a recorded mint happened; paging misses nothing; a rotation finds a usable endpoint |

Every property of a passing run has a faulty variant of the code under which TLC
finds it violated; the variants stand beside the definitions they change.

### Disagreements met while modelling, without a run of their own

Contract and minting:
* The mints refuse only the zero address. Once one has named the contract, a sweep of
  the contract's expired tokens (`SHAHICoin.sol:945`) can burn staked ones: the sweep
  that empties the balance leaves its record, and the next burns for it again, from
  the stakes made since. `StakesCovered` and `StakesInEscrow` say so.
* `claimStakingRewards` does not ask whether the lock is over, so a claim in the block
  of an `emergencyWithdraw` leaves nothing to forfeit of the half it is to cost.
* A request minted by a batch can end as failed, when a later step of the batch
  throws, and two batches mint the rows both have taken.
* The nightly sweep looks expiry records up at exact seconds, so the midnight job
  misses mints of other times of day.
* "A pending or processing request" (`user-minting-queue.service.ts:49`) is looked
  for as PENDING only. A restart leaves a request PROCESSING, which nothing takes
  up. A transaction mined but reported failed is sent again. The two runners take
  priorities in opposite order (lines 277 and 501).
* A minted request that a batch removes is only marked, and its status is reported
  as "pending" (`minting.service.ts:329`). Staking rewards and users' batches are
  not counted in `totalMintedTokens` (`SHAHIStorage.sol:136`).
* Some functions the backend calls do not exist in the contract, so
  `shouldMintToken` is always false, and it is asked with the device for a flag;
  `firstTimeMint` and `annualMint` swap two ABI arguments. `mintForNewUser` returns
  silently for a wallet that has minted, and the database then records another 0.5;
  a mint whose answer is lost is not recorded at all.
* A load of the Merkle tree in flight replaces a tree that has grown meanwhile; the
  address stays out because it is known. A tree of one leaf gives no proof, an empty
  users table leaves the service initialised without a tree, and nothing calls
  `addAddress`, so users verified after the start have no proof until a restart.

Accounts and sessions:
* A refresh token used twice at once yields two tokens; a wallet address that logs
  in twice at once yields two users; the look-up of a wallet's user reads outside its
  transaction; a referral is refused after the account was made; a snapshot saved
  late can make a verified user unverified again.
* The tab's heartbeats and ends always get a 401 (3.5). Late first answers reset the
  count of challenge requests to one; an address at the maximum stays refused until
  another address asks.

* "The controller has already validated this recovery token" (`auth.service.ts:1016`):
  the controller that does is registered second on the route, so the first hands every
  signature on, and one that begins with `valid_recovery:` logs in without a token
  being looked up or used up.

Network:
* Any number of callers pass a breaker that is half open.
* The inner fallback '0.0' of a native balance counts as a success, so its breaker
  never opens, and '0.0' is cached. A queued request is never released by time
  passing: it ends at its timeout. The load balancer's retries go to the same provider; recovery
  takes as many successes as there were failures. `getProvider` ignores the marks,
  and with all endpoints unhealthy the two functions recurse without end.
* A second monitoring connection replaces the first without closing it, a health
  check's reconnection does not subscribe again, and `stopMonitoring` removes the
  listeners of all addresses.
* `rotateEndpoint` moves the index without making a new provider; two callers that
  blame one endpoint rotate twice; the gas service keeps the providers of the time
  it was made; nothing calls `markEndpointFailure`.

Sockets, wallets, NFTs, staking, history:
* "Users can subscribe to their own staking positions" (`websocket.gateway.ts:452`):
  they can to anybody's, and the events name user, wallet and rewards.
* A token verified after the disconnect registers a dead socket; a subscription made
  before the registration reports success and is lost. The client's `disconnect()`
  while connecting is followed by a reconnection, and while reconnecting leaves
  the status at closing; the client speaks plain WebSocket, the gateway socket.io.
* An import encrypts a key twice, and a look-up removes one layer; after a rotation
  the inner layer is under a forgotten key. Wallets are stored under the case given
  and looked up in upper case. Token transfers always fail. A transfer whose receipt
  is lost is reported as failed although it may be mined.
* A group of several ERC1155 items goes to the first receiver while the result
  names each one's own. A failure in a batch tells nothing of what was moved.
* Overlapping claims lose rewards, and a claim's save makes a withdrawn position
  active again. A claim's stamp (`staking.service.ts:219`) is older than its UPDATE
  (221): one that another write has overtaken sets `lastClaimTime` back, and a claim
  that holds the newer row then pays the stretch between again. `getTransactionHistory` always returns an empty list, and with a
  sent/received filter `hasMore` is computed after filtering.

## 5. What is proved

Each proof fixes none of the constants: any number of users, requests, sockets,
endpoints, any amounts, periods and bounds, under the assumptions that the modules
state beside their constants.

The constants' assumptions say what the code fixes (the sender of a batch is not a
receiver, a breaker waits no longer than it remembers failures, `NULL` is nothing
else, accounts and stakes are finite in number as addresses and a uint256 are),
that the bounds named in the guards are numbers, and that sets an initial value is
taken from are not empty. `Users` are the accounts that send transactions; the
contract is not one of them, and every address, the contract's too, may be minted to.

The contract (`SHAHICoin_proofs`)
* `TypeCorrect`, `StakesAlwaysCovered`. `StakesCovered` says that the stakes are there
  until a mint names the contract, and is not inductive alone: a sweep of the contract
  could take staked tokens. `LedgerInv` adds that the contract has no expiry record
  before that mint (`PotCovers`) and finitely many after it, and that no claim time is
  ahead of the block, so rewards are not negative; `PositionsInv` that `totalStaked` is the sum of
  what is still in the positions, of which there are finitely many.
* `RewardsAlwaysBounded`. `PositionsInv` also says that the rewards paid are no more
  than what every position earns at the highest rate on the largest stake, from its
  start to its last claim, or to now when it is closed. A claim or a withdrawal pays
  for the time by which it moves that end, for the stake the position still has; time
  passing moves the end of closed positions only. With the end at now for all, the sum
  is the bound (`PaidBounds`).
* `SupplyAlwaysAccounted`. One lemma per operation: the sum of the balances changes by
  what the operation adds to the supply. The batches and sweeps change as many
  balances as they are given accounts (`SumPlus`, `SumPart`, `SumCounts`).
  Both rest on lemmas about sums over finite sets. The library's induction theorems
  take an operator and cannot be used, so each is proved by a smallest
  counterexample instead (`SmallestSubset`, from the well-foundedness of numbers).
* `MintsStayAYearApart`, `AnnualKeysStayFresh`: `MintHistory` adds that no mint record
  is ahead of the block and no replay key younger than its user's record.
* `StakingImplementsEscrow`, the refinement. Under `LedgerInv` a stake is a deposit,
  either withdrawal returns one, and every other step leaves the positions alone and
  either takes nothing from the pot or finds it empty (`Funds`). The case that matters
  is a sweep of the contract: what it burns and the records it deletes cancel out,
  unless it ends at the record that empties the balance.
* `BlacklistAlwaysFreezes`, `LockedTokensAlwaysStay`. One lemma per operation puts it
  in one of three classes: nobody loses, nobody gains, or tokens move from one
  holder, who is not blacklisted, to one other (`Moves`, which also says when that is
  allowed). Both properties follow from the classes (`StepMoves`).
* `EarlyExitAlwaysForfeits`. Only `closePosition` changes what a position holds; its
  two callers decide the lock the same way, and what the user gets is computed
  exactly (`CloseMoves`, `CloseForfeits`).

The expiry task (`TokenExpiryTask_proofs`)
* `WalletsAccounted`, `NothingInFlight`. The invariant says that wallets to send, in
  flight and counted are disjoint and together those found.

Minting (`Minting_proofs`)
* `QueueTypes`, `CompletedRequestsWereMinted`, `FlagAlwaysTellsTheRun`,
  `ProcessingAlwaysInHand`, all from `QueueInv`. What is written to the table is a
  snapshot somebody holds, so the invariant speaks of those too: a client holds
  nothing that decides a request but a cancellation, and a runner holds an outcome
  only of the item it has in hand, and an attempt left for every other. Conditions on
  the table alone would not survive a stale write.
* `BatchesKeepTheQueue`. `BatchesInv` is `QueueInv` with batches beside the runners:
  each batch holds requests of the table and writes back only cancellations and
  failures. A step of either kind keeps both halves, because tables only grow.

Sockets (`Sockets_proofs`)
* `MapsAlwaysAgree`, `EventsAreForTheirUsers`. The invariant has the types of the
  maps, that sockets are registered for the user of their token and subscribed to
  channels of that user or of staking positions, and that users and sockets name each
  other.
* `ClientsAreOnTheirWay`, for the client and any number of replaced sockets.

Ways to a node (`Network_proofs`)
* `SteadyCallsAlwaysReach`. A steady call that has switched is on an endpoint that
  answers, and so is the shared index, whichever call moved it.
* `BreakerAlwaysTrips`. The breaker counts no less than the failures in a row, or its
  last failure is older than it remembers; and once the threshold is reached it is
  open until the waiting time is over, and opened at the last failure. For this the
  waiting time must not exceed the time failures are remembered.
* `NetworkTypesHold`, the types and bounds of all four parts, each with an invariant
  of its own. The limiter's list of recent requests is what is left of a list, which a
  recursive function computes: that it is again a list of ages is proved by a
  smallest counterexample, like the sums above.

Accounts (`Accounts_proofs`)
* `AccountsAlwaysHold`. A registration deletes its user again when the profile fails,
  so nobody else may have come upon that user. `AccountsInv` says that such a user
  has no row, no address and no secret that leads there, and that no other request
  knows it; every other request works on a user with a profile or a wallet.
* `RefreshesKeepSignedIn`, from the same invariant. A successor token may itself be
  gone when the old one is deleted, but only after it had a successor: the user of a
  refresh that is about to delete has a token younger than the one deleted.

Sessions (`SessionManager_proofs`)
* `NoncesUsedOnce`. Every session's nonce is gone, a login needs one that is not, and
  a late save of a snapshot writes a row with the nonce that the row in place was
  opened by.
* `StorageAlwaysCurrent`. The invariant relates each chain of awaits to the call it
  waits for, so that an answer that makes a session current brings a session that
  exists, and storage is written in the same step.

Other services (`Services_proofs`)
* `NeverPaidTwice`, for positions without an overtaken UPDATE. A request prices one
  reading of a position and stamps another. The invariant orders them: until it is
  priced, the row in hand is no younger than the table's, unless that was withdrawn,
  in which case nothing is priced; between the stamp and the UPDATE what it holds fits
  in the time since the stake, and the table is no younger than it.
* `NoncesNeverGap`. Per address, the nonces of the transfers the node holds begin at
  the number of those it has mined and follow each other, each once, so that there are
  as many of them as transfers; a call that is about to broadcast has one of these
  nonces, one already mined, or the next. Replacing a transfer keeps the numbers, and
  mining takes the lowest.
* `RotationsReachAll`: the last layer of a stored key is the current one.
* `NFTsAlwaysAccountedFor`. The positions of a batch that are no longer to be processed
  are in the result, and what is in the result has left the sender for good.
* `RecordedAlwaysMinted`; `PagingAlwaysMissesNothing`, where the arithmetic is that of
  an offset which is not a multiple of the page size.
* `RotationsFindUsable`, from the index staying in the ring and the next index being
  the first usable one of a full round.
* `ServicesTypesHold`, the types of all ten services. The invariants above have the
  types that their own proofs need; `PartsInv` adds what they leave open (what
  requests have in hand has the form of the tables' rows, nonces and batches stay in
  their bounds, a lookup says only what the chain has decided). A step is one
  part's and a stutter for the others (`PartsStepAlone`), so each keeps its invariant.

Every safety invariant and every action property of a run is proved. Only
model-checked is liveness (`FlagReleased`, `RetriesAreDecided`, `PendingIsTaken`,
`LogoutCompletes`, `QueriesAreAnswered`, `HealthConverges`, `ReconnectsEventually`):
fairness and ENABLED are out of the prover's reach.

## 6. Not modelled

* Cryptography (hashing, signatures, ciphers), formatting, logging, the user
  interface, build and deployment: no behaviour that the properties tell apart.
* Controllers, guards, DTOs: stateless, or one call of a service.
* Third-party APIs behind prices, metadata, rarity, explorers and marketplaces,
  swaps, and the handlers of single chains: one call each.
* Of the contract: upgrades of the proxy, ownership transfer, allowances.
* Of the backend: devices and profiles (single rows), the portfolio, listing queries,
  `processAnnualMint` (keeps no state, refused like a first-time mint), changes of
  endpoint lists at run time, `UsersService` (not in the repository), and
  `hw/services/TransactionService.ts` and `auth/services/wallet-auth.service.ts`,
  which nothing constructs or which return fixed values.
* Of the browser: several tabs on one local storage, and application messages.
