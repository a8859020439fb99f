---------------------------- MODULE MintingService ----------------------------
(***************************************************************************)
(* Batch minting (MintingService with BATCH_MINTING_ENABLED), on the table *)
(* of the minting queue.  processBatchMint is started by a timer and by    *)
(* the request that fills the queue, and nothing keeps two executions      *)
(* apart.                                                                  *)
(***************************************************************************)
EXTENDS UserMintingQueue

CONSTANT Batchers   \* the executions of processBatchMint under way at a time

VARIABLE batch      \* what each execution holds

mvars == <<qvars, batch>>

(* taken: the requests of the batch; type: the group in hand; stage: what it  *)
(* does with the group; todo: the requests still to be written; held: the     *)
(* row it read and is about to save.                                          *)
Idle == [taken |-> {}, type |-> "first-time", stage |-> "idle", todo |-> {}, held |-> NoCall]

MintingInit == QueueInit /\ batch = [b \in Batchers |-> Idle]

-----------------------------------------------------------------------------
\* getNextBatch: the pending rows by priority and age.  They stay pending.
getNextBatch == firstRows(Cron, pendingRows)

\* Its mintType: whatever is not annual goes with the first-time mints.
mintType(id) == IF queue[id].type = "annual" THEN "annual" ELSE "first-time"

group(b) == {id \in batch[b].taken : mintType(id) = batch[b].type}

processBatchMint(b) ==
  /\ batch[b] = Idle
  /\ getNextBatch # {}
  /\ batch' = [batch EXCEPT ![b] = [Idle EXCEPT !.taken = getNextBatch, !.stage = "minting"]]
  /\ UNCHANGED qvars

\* The catch block marks every request of the batch as failed, whatever the
\* batch has done for it already.
failed(b) == [batch[b] EXCEPT !.stage = "failing", !.todo = batch[b].taken, !.held = NoCall]

\* The answer to the batch's transaction; it may be mined and yet throw.
mintGroup(b) ==
  /\ batch[b].stage = "minting"
  /\ group(b) # {}
  /\ \/ batch' = [batch EXCEPT ![b].stage = "removing", ![b].todo = group(b)]
     \/ batch' = [batch EXCEPT ![b] = failed(b)]
  /\ \/ minted' = [id \in Ids |-> IF id \in group(b) /\ minted[id] < 2
                                    THEN minted[id] + 1 ELSE minted[id]]
     \/ batch'[b].stage = "failing" /\ UNCHANGED minted
  /\ UNCHANGED <<queue, isProcessingQueue, client, run, faults>>

\* First-time mints come first, then the annual ones.
nextGroup(b) ==
  /\ \/ batch[b].stage = "minting" /\ group(b) = {}
     \/ batch[b].stage = "removing" /\ batch[b].todo = {}
  /\ batch' = [batch EXCEPT ![b] =
       IF @.type = "first-time" THEN [@ EXCEPT !.type = "annual", !.stage = "minting"]
                                ELSE Idle]
  /\ UNCHANGED qvars

\* "Remove from queue" is cancelMintingRequest, which refuses a request that
\* is no longer pending.
removeFromQueue(b, id) ==
  /\ batch[b].stage = "removing"
  /\ batch[b].held = NoCall
  /\ id \in batch[b].todo
  /\ batch' = [batch EXCEPT ![b] =
       IF queue[id].status = "pending"
         THEN [@ EXCEPT !.held = Save(id, [queue[id] EXCEPT !.status = "cancelled"])]
         ELSE failed(b)]
  /\ UNCHANGED qvars

\* Faulty variant: only a request in PROCESSING may be marked.
markMintAsFailed_ProcessingOnly(b, id) ==
  /\ batch[b].stage = "failing"
  /\ batch[b].held = NoCall
  /\ id \in batch[b].todo
  /\ queue[id].status = "processing"
  /\ batch' = [batch EXCEPT ![b].held = Save(id, [queue[id] EXCEPT !.status = "failed"])]
  /\ UNCHANGED qvars

markMintAsFailed(b, id) ==
  /\ batch[b].stage = "failing"
  /\ batch[b].held = NoCall
  /\ id \in batch[b].todo
  /\ batch' = [batch EXCEPT ![b].held = Save(id, [queue[id] EXCEPT !.status = "failed"])]
  /\ UNCHANGED qvars

batchSave(b) ==
  LET held == batch[b].held
  IN  /\ held # NoCall
      /\ queue' = [queue EXCEPT ![held.id] = held.row]
      /\ batch' = [batch EXCEPT ![b].held = NoCall, ![b].todo = @ \ {held.id}]
      /\ UNCHANGED <<isProcessingQueue, client, run, minted, faults>>

(* The database refuses a write: that of a mint's record or of its removal   *)
(* sends the batch to the catch block, that of a failure ends the execution. *)
writeFails(b) ==
  /\ batch[b].todo # {}
  /\ faults < MaxFaults
  /\ faults' = faults + 1
  /\ \/ batch[b].stage = "removing" /\ batch' = [batch EXCEPT ![b] = failed(b)]
     \/ batch[b].stage = "failing" /\ batch' = [batch EXCEPT ![b] = Idle]
  /\ UNCHANGED <<queue, isProcessingQueue, client, run, minted>>

\* The error is logged by the timer or by the request that started the batch.
batchFailed(b) ==
  /\ batch[b].stage = "failing"
  /\ batch[b].todo = {}
  /\ batch' = [batch EXCEPT ![b] = Idle]
  /\ UNCHANGED qvars
-----------------------------------------------------------------------------
BatchStep(b) ==
  \/ mintGroup(b)
  \/ nextGroup(b)
  \/ \E id \in batch[b].taken : removeFromQueue(b, id) \/ markMintAsFailed(b, id)
  \/ batchSave(b)
  \/ batchFailed(b)

MintingNext ==
  \/ QueueStep /\ UNCHANGED batch
  \/ \E b \in Batchers : processBatchMint(b) \/ BatchStep(b) \/ writeFails(b)
  \/ crash /\ batch' = [b \in Batchers |-> Idle]

(* The timer starts a batch every few minutes; awaits are answered.         *)
MintingSpec ==
  /\ MintingInit
  /\ [][MintingNext]_mvars
  /\ \A b \in Batchers : WF_mvars(processBatchMint(b)) /\ WF_mvars(BatchStep(b))
=============================================================================
