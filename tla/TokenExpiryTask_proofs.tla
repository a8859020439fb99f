------------------------ MODULE TokenExpiryTask_proofs ------------------------
(***************************************************************************)
(* Proofs about the nightly task, for every set of wallets and every size  *)
(* of a batch.                                                             *)
(***************************************************************************)
EXTENDS TokenExpiryTask, TLAPS, FiniteSetTheorems

(* The inductive invariant: the counts of the last execution still add up   *)
(* while the next one asks the database, so that it may fail then.          *)
CountsAddUp ==
  successful + failed + Cardinality(remaining) + Cardinality(outstanding) = walletCount

TaskInv ==
  /\ isRunning \in BOOLEAN /\ finding \in BOOLEAN
  /\ remaining \subseteq Wallets /\ outstanding \subseteq Wallets
  /\ successful \in Nat /\ failed \in Nat
  /\ walletCount \in 0 .. Cardinality(Wallets)
  /\ CountsAddUp
  /\ finding => isRunning
  /\ NothingInFlightWhenIdle

-----------------------------------------------------------------------------
LEMMA WalletsFinite ==
  ASSUME NEW S, S \subseteq Wallets
  PROVE  IsFiniteSet(S) /\ Cardinality(S) \in 0 .. Cardinality(Wallets)
<1>1. IsFiniteSet(Wallets)
  BY TaskAssumption
<1>2. IsFiniteSet(S) /\ Cardinality(S) <= Cardinality(Wallets)
  BY <1>1, FS_Subset
<1> QED BY <1>1, <1>2, FS_CardinalityType

\* A batch taken from the wallets that remain moves its number from one to the other.
LEMMA BatchMoves ==
  ASSUME NEW S, NEW batch \in SUBSET S, S \subseteq Wallets
  PROVE  Cardinality(S) = Cardinality(S \ batch) + Cardinality(batch)
<1>1. IsFiniteSet(S) /\ IsFiniteSet(batch) /\ IsFiniteSet(S \ batch)
  BY WalletsFinite
<1>2. S = (S \ batch) \cup batch /\ (S \ batch) \cap batch = {}
  OBVIOUS
<1>3. Cardinality((S \ batch) \cup batch)
        = Cardinality(S \ batch) + Cardinality(batch) - Cardinality((S \ batch) \cap batch)
  BY <1>1, FS_Union
<1>4. Cardinality((S \ batch) \cap batch) = 0
  BY <1>2, FS_EmptySet
<1>5. Cardinality(S \ batch) \in Nat /\ Cardinality(batch) \in Nat
  BY <1>1, FS_CardinalityType
<1>6. Cardinality(S) = Cardinality((S \ batch) \cup batch)
  BY <1>2
<1> QED BY <1>3, <1>4, <1>5, <1>6

LEMMA TaskInvInit == TaskInit => TaskInv
<1>1. Cardinality({}) = 0
  BY FS_EmptySet
<1>2. Cardinality(Wallets) \in Nat
  BY TaskAssumption, FS_CardinalityType
<1> SUFFICES ASSUME TaskInit PROVE TaskInv
  OBVIOUS
<1>3. isRunning = FALSE /\ finding = FALSE /\ remaining = {} /\ outstanding = {}
      /\ successful = 0 /\ failed = 0 /\ walletCount = 0
  BY DEF TaskInit
<1>4. CountsAddUp
  BY <1>1, <1>3 DEF CountsAddUp
<1>5. NothingInFlightWhenIdle
  BY <1>3 DEF NothingInFlightWhenIdle
<1>6. isRunning \in BOOLEAN /\ finding \in BOOLEAN /\ (finding => isRunning)
  BY <1>3
<1>7. remaining \subseteq Wallets /\ outstanding \subseteq Wallets
  BY <1>3
<1>8. successful \in Nat /\ failed \in Nat /\ walletCount \in 0 .. Cardinality(Wallets)
  BY <1>2, <1>3
<1> QED BY <1>4, <1>5, <1>6, <1>7, <1>8 DEF TaskInv

LEMMA FoundPreserves ==
  ASSUME TaskInv, NEW found \in SUBSET Wallets, foundWallets(found)
  PROVE  TaskInv'
<1>1. outstanding = {} /\ Cardinality(outstanding) = 0
  BY FS_EmptySet DEF foundWallets, TaskInv, NothingInFlightWhenIdle
<1>2. Cardinality(found) \in 0 .. Cardinality(Wallets)
  BY WalletsFinite
<1>3. isRunning' = isRunning /\ finding' = FALSE /\ remaining' = found /\ outstanding' = outstanding
      /\ successful' = 0 /\ failed' = 0 /\ walletCount' = Cardinality(found) /\ finding
  BY DEF foundWallets
<1>4. CountsAddUp'
  BY <1>1, <1>2, <1>3 DEF CountsAddUp
<1>5. isRunning'
  BY <1>3 DEF TaskInv
<1>6. NothingInFlightWhenIdle'
  BY <1>3, <1>5 DEF NothingInFlightWhenIdle
<1> QED BY <1>1, <1>2, <1>3, <1>4, <1>5, <1>6 DEF TaskInv
LEMMA BatchPreserves == ASSUME TaskInv, nextBatch PROVE TaskInv'
<1>1. PICK batch \in SUBSET remaining :
        outstanding' = batch /\ remaining' = remaining \ batch
  BY DEF nextBatch
<1>2. Cardinality(remaining) = Cardinality(remaining \ batch) + Cardinality(batch)
  BY BatchMoves DEF TaskInv
<1>3. Cardinality(outstanding) = 0
  BY FS_EmptySet DEF nextBatch
<1>4. Cardinality(remaining \ batch) \in Nat /\ Cardinality(batch) \in Nat
  BY WalletsFinite DEF TaskInv
<1>5. UNCHANGED <<isRunning, finding, successful, failed, walletCount>> /\ isRunning /\ ~finding
  BY DEF nextBatch
<1>6. CountsAddUp'
  BY <1>1, <1>2, <1>3, <1>4, <1>5 DEF CountsAddUp, TaskInv
<1>7. NothingInFlightWhenIdle'
  BY <1>5 DEF NothingInFlightWhenIdle
<1>8. remaining' \subseteq Wallets /\ outstanding' \subseteq Wallets
  BY <1>1 DEF TaskInv
<1> QED BY <1>5, <1>6, <1>7, <1>8 DEF TaskInv

\* An answer moves its wallet from the batch to one of the two counts.
LEMMA AnswerPreserves ==
  ASSUME TaskInv, NEW w \in Wallets, answered(w),
         \/ successful' = successful + 1 /\ failed' = failed
         \/ successful' = successful /\ failed' = failed + 1
  PROVE  TaskInv'
<1>1. w \in outstanding /\ outstanding' = outstanding \ {w}
      /\ UNCHANGED <<isRunning, finding, remaining, walletCount>>
  BY DEF answered
<1>2. IsFiniteSet(outstanding) /\ Cardinality(outstanding) \in Nat
      /\ Cardinality(remaining) \in Nat
  BY WalletsFinite DEF TaskInv
<1>3. Cardinality(outstanding \ {w}) = Cardinality(outstanding) - 1
  BY <1>1, <1>2, FS_RemoveElement
<1>4. CountsAddUp'
  BY <1>1, <1>2, <1>3 DEF CountsAddUp, TaskInv
<1>5. isRunning /\ ~finding
  BY <1>1 DEF TaskInv, NothingInFlightWhenIdle
<1>6. NothingInFlightWhenIdle'
  BY <1>1, <1>5 DEF NothingInFlightWhenIdle
<1>7. outstanding' \subseteq Wallets /\ successful' \in Nat /\ failed' \in Nat
  BY <1>1 DEF TaskInv
<1> QED BY <1>1, <1>4, <1>6, <1>7 DEF TaskInv

\* What leaves the task's variables alone leaves the invariant.
LEMMA OthersPreserve == ASSUME TaskInv, UNCHANGED taskVars PROVE TaskInv'
  BY DEF TaskInv, taskVars, CountsAddUp, NothingInFlightWhenIdle

LEMMA FlagPreserves ==
  ASSUME TaskInv, handleExpiredTokens \/ findFailed \/ finish
  PROVE  TaskInv'
<1>1. CASE handleExpiredTokens
  <2>1. isRunning' /\ isRunning' \in BOOLEAN /\ finding' \in BOOLEAN /\ ~isRunning
        /\ UNCHANGED <<remaining, outstanding, successful, failed, walletCount>>
    BY <1>1 DEF handleExpiredTokens
  <2>2. remaining = {} /\ outstanding = {}
    BY <2>1 DEF TaskInv, NothingInFlightWhenIdle
  <2> QED BY <2>1, <2>2 DEF TaskInv, CountsAddUp, NothingInFlightWhenIdle
<1>2. CASE findFailed
  <2>1. ~isRunning' /\ isRunning' \in BOOLEAN /\ ~finding' /\ finding' \in BOOLEAN /\ finding
        /\ UNCHANGED <<remaining, outstanding, successful, failed, walletCount>>
    BY <1>2 DEF findFailed
  <2>2. remaining = {} /\ outstanding = {}
    BY <2>1 DEF TaskInv, NothingInFlightWhenIdle
  <2> QED BY <2>1, <2>2 DEF TaskInv, CountsAddUp, NothingInFlightWhenIdle
<1>3. CASE finish
  <2>1. ~isRunning' /\ isRunning' \in BOOLEAN /\ ~finding /\ remaining = {} /\ outstanding = {}
        /\ UNCHANGED <<finding, remaining, outstanding, successful, failed, walletCount>>
    BY <1>3 DEF finish
  <2> QED BY <2>1 DEF TaskInv, CountsAddUp, NothingInFlightWhenIdle
<1> QED BY <1>1, <1>2, <1>3

LEMMA TaskInvStep == TaskInv /\ [TaskNext]_vars => TaskInv'
<1> SUFFICES ASSUME TaskInv, [TaskNext]_vars PROVE TaskInv'
  OBVIOUS
<1>1. CASE handleExpiredTokens \/ findFailed \/ finish
  BY <1>1, FlagPreserves
<1>2. ASSUME NEW found \in SUBSET Wallets, foundWallets(found) PROVE TaskInv'
  BY <1>2, FoundPreserves
<1>3. CASE nextBatch
  BY <1>3, BatchPreserves
<1>4. ASSUME NEW w \in Wallets, burned(w) \/ burnFailed(w) PROVE TaskInv'
  <2>1. answered(w)
    BY <1>4 DEF burned, burnFailed
  <2>2. \/ successful' = successful + 1 /\ failed' = failed
        \/ successful' = successful /\ failed' = failed + 1
    BY <1>4 DEF burned, burnFailed
  <2> QED BY <2>1, <2>2, AnswerPreserves
<1>5. ASSUME NEW w \in Wallets, manuallyTriggerExpiredTokensCheck(w) PROVE TaskInv'
  <2>1. UNCHANGED taskVars
    BY <1>5 DEF manuallyTriggerExpiredTokensCheck, taskVars
  <2> QED BY <2>1, OthersPreserve
<1>6. CASE ChainStep
  BY <1>6, OthersPreserve DEF ChainStep
<1>7. CASE UNCHANGED vars
  <2>1. UNCHANGED taskVars
    BY <1>7 DEF vars
  <2> QED BY <2>1, OthersPreserve
<1> QED BY <1>1, <1>2, <1>3, <1>4, <1>5, <1>6, <1>7 DEF TaskNext, TaskStep

LEMMA TaskAlwaysInv == TaskSpec => []TaskInv
  BY TaskInvInit, TaskInvStep, PTL DEF TaskSpec

(* Every wallet an execution found is counted exactly once.                 *)
THEOREM WalletsAccounted == TaskSpec => []EveryWalletAccounted
<1>1. TaskInv => EveryWalletAccounted
  BY DEF TaskInv, CountsAddUp, EveryWalletAccounted
<1> QED BY <1>1, TaskAlwaysInv, PTL

(* No transaction of the task is in flight while it is not running.         *)
THEOREM NothingInFlight == TaskSpec => []NothingInFlightWhenIdle
<1>1. TaskInv => NothingInFlightWhenIdle
  BY DEF TaskInv
<1> QED BY <1>1, TaskAlwaysInv, PTL

(* The counts stay within the number of wallets an execution found.         *)
THEOREM TaskTypeCorrect == TaskSpec => []TaskTypeOK
<1>1. ASSUME TaskInv PROVE TaskTypeOK
  <2>1. Cardinality(remaining) \in Nat /\ Cardinality(outstanding) \in Nat
    BY <1>1, WalletsFinite DEF TaskInv
  <2>2. Cardinality(Wallets) \in Nat
    BY TaskAssumption, FS_CardinalityType
  <2>3. successful \in 0 .. walletCount /\ failed \in 0 .. walletCount
    BY <1>1, <2>1, <2>2 DEF TaskInv, CountsAddUp
  <2> QED BY <1>1, <2>3 DEF TaskInv, TaskTypeOK
<1> QED BY <1>1, TaskAlwaysInv, PTL
=============================================================================
