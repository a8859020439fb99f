--------------------------- MODULE TokenExpiryTask ---------------------------
(***************************************************************************)
(* The nightly task of the backend that burns expired tokens               *)
(* (TokenExpiryTask, and the transactions ShahiTokenService sends for it), *)
(* composed with the contract.  The chain goes on while the task runs: any *)
(* transaction may be mined between two answers to the task's own.         *)
(***************************************************************************)
EXTENDS SHAHICoin

CONSTANTS
  Wallets,     \* wallet addresses of the users in the database
  BatchSize    \* batchSize: 50

ASSUME TaskAssumption ==
  /\ Wallets \subseteq Users
  /\ IsFiniteSet(Wallets)
  /\ BatchSize \in Nat \ {0}

VARIABLES
  isRunning,
  finding,      \* awaiting userRepository.find
  remaining,    \* wallets of this execution that no batch has taken yet
  outstanding,  \* wallets of the current batch whose transaction is unanswered
  successful,
  failed,
  walletCount   \* how many wallets this execution found

taskVars == <<isRunning, finding, remaining, outstanding,
              successful, failed, walletCount>>
vars == <<storageVars, taskVars>>

TaskInit ==
  /\ isRunning = FALSE
  /\ finding = FALSE
  /\ remaining = {}
  /\ outstanding = {}
  /\ successful = 0
  /\ failed = 0
  /\ walletCount = 0

-----------------------------------------------------------------------------
\* Cron fires at midnight; an execution that finds another running returns.
handleExpiredTokens ==
  /\ now % ONE_DAY = 0
  /\ ~isRunning
  /\ isRunning' = TRUE
  /\ finding' = TRUE
  /\ UNCHANGED <<storageVars, remaining, outstanding, successful, failed,
                 walletCount>>

(* The answer of the database: the distinct wallets on record now.          *)
foundWallets(found) ==
  /\ finding
  /\ finding' = FALSE
  /\ remaining' = found
  /\ walletCount' = Cardinality(found)
  /\ successful' = 0
  /\ failed' = 0
  /\ UNCHANGED <<storageVars, isRunning, outstanding>>

\* The query throws: the error is logged, and finally releases isRunning.
findFailed ==
  /\ finding
  /\ finding' = FALSE
  /\ isRunning' = FALSE
  /\ UNCHANGED <<storageVars, remaining, outstanding, successful, failed,
                 walletCount>>

\* The transactions of a batch are all sent before any is awaited.
nextBatch ==
  /\ isRunning
  /\ ~finding
  /\ outstanding = {}
  /\ remaining # {}
  /\ \E batch \in SUBSET remaining :
       /\ batch # {}
       /\ \/ Cardinality(batch) = BatchSize
          \/ Cardinality(batch) < BatchSize /\ batch = remaining
       /\ outstanding' = batch
       /\ remaining' = remaining \ batch
  /\ UNCHANGED <<storageVars, isRunning, finding, successful, failed,
                 walletCount>>

answered(w) ==
  /\ w \in outstanding
  /\ outstanding' = outstanding \ {w}
  /\ UNCHANGED <<isRunning, finding, remaining, walletCount>>

\* The transaction is mined, and its receipt arrives.
burned(w) ==
  /\ answered(w)
  /\ burnExpiredTokens(w)
  /\ successful' = successful + 1
  /\ UNCHANGED failed

\* Faulty variant: the success was counted before the receipt was awaited.
burnFailed_CountsBoth(w) ==
  /\ answered(w)
  /\ burnExpiredTokens(w) \/ UNCHANGED storageVars
  /\ successful' = successful + 1
  /\ failed' = failed + 1

\* It is refused, or it is mined and the answer is lost.
burnFailed(w) ==
  /\ answered(w)
  /\ burnExpiredTokens(w) \/ UNCHANGED storageVars
  /\ failed' = failed + 1
  /\ UNCHANGED successful

\* Faulty variant: the flag is released after a success, not in a finally.
finish_OnlyOnSuccess ==
  /\ isRunning
  /\ ~finding
  /\ remaining = {}
  /\ outstanding = {}
  /\ failed = 0
  /\ isRunning' = FALSE
  /\ UNCHANGED <<storageVars, finding, remaining, outstanding, successful,
                 failed, walletCount>>

finish ==
  /\ isRunning
  /\ ~finding
  /\ remaining = {}
  /\ outstanding = {}
  /\ isRunning' = FALSE
  /\ UNCHANGED <<storageVars, finding, remaining, outstanding, successful,
                 failed, walletCount>>

\* The administrator's trigger takes no notice of isRunning.
manuallyTriggerExpiredTokensCheck(w) ==
  /\ burnExpiredTokens(w)
  /\ UNCHANGED <<isRunning, finding, remaining, outstanding, successful,
                 failed, walletCount>>

-----------------------------------------------------------------------------
TaskStep ==
  \/ \E found \in SUBSET Wallets : foundWallets(found)
  \/ findFailed
  \/ nextBatch
  \/ \E w \in Wallets : burned(w) \/ burnFailed(w)
  \/ finish

ChainStep == Next /\ UNCHANGED taskVars

TaskNext ==
  \/ handleExpiredTokens
  \/ TaskStep
  \/ \E w \in Wallets : manuallyTriggerExpiredTokensCheck(w)
  \/ ChainStep

(* The fairness is that of the event loop and of the two services awaited: a *)
(* query is answered, a transaction is mined or refused.  tx.wait() has no   *)
(* timeout of its own, so this is an assumption on the chain.                *)
TaskSpec ==
  initialize /\ TaskInit /\ [][TaskNext]_vars /\ WF_taskVars(TaskStep)

-----------------------------------------------------------------------------
TaskTypeOK ==
  /\ isRunning \in BOOLEAN
  /\ finding \in BOOLEAN
  /\ remaining \subseteq Wallets
  /\ outstanding \subseteq Wallets
  /\ walletCount \in 0 .. Cardinality(Wallets)
  /\ successful \in 0 .. walletCount
  /\ failed \in 0 .. walletCount

(* Every wallet an execution found is answered for exactly once, whichever   *)
(* of its transactions fail: none is dropped between two batches or swept in *)
(* two of them, so the final report adds up.                                 *)
EveryWalletAccounted ==
  ~finding => successful + failed + Cardinality(remaining) + Cardinality(outstanding)
                = walletCount

(* Transactions are in flight only under the flag: a second execution never *)
(* overlaps the first.                                                      *)
NothingInFlightWhenIdle == ~isRunning \/ finding => remaining = {} /\ outstanding = {}

(* The flag is always released, whatever fails: the next night's execution  *)
(* is not skipped for ever.                                                 *)
FlagReleased == isRunning ~> ~isRunning
=============================================================================
