--------------------------- MODULE UserMintingQueue ---------------------------
(***************************************************************************)
(* The minting queue of the backend (UserMintingQueueService): requests in *)
(* a database table, the calls that add and cancel them, the cron job that *)
(* processes them, and the unguarded processPendingItems.                  *)
(*                                                                         *)
(* The process is single threaded; every await lets the other calls run.   *)
(* A call is therefore a few steps, each from one await to the next, and   *)
(* what it read before an await it holds as a snapshot of the row.  save() *)
(* writes the whole snapshot back.                                         *)
(***************************************************************************)
EXTENDS Integers, Sequences, FiniteSets

CONSTANTS
  Wallets,        \* wallet addresses, each with its user
  Checked,        \* types asked for by a call that looks for duplicates
  Unchecked,      \* types asked for by a call that does not
  Clients,        \* HTTP requests in progress at one time
  Cron,           \* the runner of processQueue
  Manual,         \* the runners of processPendingItems
  BatchLimit,     \* items one execution takes
  MaxRetries,     \* the column default of max_retries: 3
  MaxRequests,    \* bound of the model: rows ever inserted
  MaxFaults       \* bound of the model: crashes and failed database writes

ASSUME QueueAssumption ==
  /\ Checked \subseteq {"first_time", "annual"}
  /\ Unchecked \subseteq {"first_time", "annual", "admin"}
  /\ Cron \notin Manual
  /\ BatchLimit \in Nat \ {0}
  /\ MaxRetries \in Nat \ {0}
  /\ MaxRequests \in Nat
  /\ MaxFaults \in Nat

Types == Checked \cup Unchecked
Runners == {Cron} \cup Manual
Ids == 1 .. MaxRequests

Statuses == {"pending", "processing", "completed", "failed", "cancelled"}

\* process_after is NULL, a time still to come, or a time that has passed.
Row == [wallet : Wallets, type : Types, status : Statuses,
        retryCount : 0 .. MaxRetries, processAfter : {"null", "future", "past"},
        priority : 0 .. 10]

VARIABLES
  queue,              \* minting_queue_items, in the order of created_at
  isProcessingQueue,
  client,             \* what each HTTP request is about to save
  run,                \* what each runner holds
  minted,             \* history: how often a row's transaction was mined, up to 2
  faults

qvars == <<queue, isProcessingQueue, client, run, minted, faults>>

\* A client about to save row in place of the row id; id 0 is a new row.
NoCall == [id |-> -1]
Save(id, row) == [id |-> id, row |-> row]

(* A runner: the snapshots it has still to process, the item it is working   *)
(* on (0 for none), and whether that item's transaction has been answered.   *)
NoRows == [i \in {} |-> NoCall]
NoRun == [rows |-> NoRows, current |-> 0, answered |-> FALSE]

priorityOf(type) == CASE type = "first_time" -> 10
                      [] type = "annual"     -> 5
                      [] type = "admin"      -> 1

newRow(w, type, priority) ==
  [wallet |-> w, type |-> type, status |-> "pending", retryCount |-> 0,
   processAfter |-> "null", priority |-> priority]

QueueInit ==
  /\ queue = <<>>
  /\ isProcessingQueue = FALSE
  /\ client = [c \in Clients |-> NoCall]
  /\ run = [r \in Runners |-> NoRun]
  /\ minted = [id \in Ids |-> 0]
  /\ faults = 0

-----------------------------------------------------------------------------
(* Adding requests.                                                         *)
insert(row) ==
  /\ Len(queue) < MaxRequests
  /\ queue' = Append(queue, row)

(* queueFirstTimeMinting and queueAnnualMinting: a pending request of the    *)
(* same wallet and type is returned as it is; otherwise a new row is saved   *)
(* after one more await (for an annual one, after that of the signature).    *)
queueMinting(c, w, type) ==
  /\ client[c] = NoCall
  /\ ~\E i \in DOMAIN queue :
        queue[i].wallet = w /\ queue[i].type = type /\ queue[i].status = "pending"
  /\ client' = [client EXCEPT ![c] = Save(0, newRow(w, type, priorityOf(type)))]
  /\ UNCHANGED <<queue, isProcessingQueue, run, minted, faults>>

\* queueAdminMinting and queueMintRequest check nothing; addToQueue also
\* leaves the priority at its default.
queueUnchecked(w, type, priority) ==
  /\ insert(newRow(w, type, priority))
  /\ UNCHANGED <<isProcessingQueue, client, run, minted, faults>>

\* cancelMintingRequest: the status is checked on the row as it was read.
cancelMintingRequest(c, id) ==
  /\ client[c] = NoCall
  /\ queue[id].status = "pending"
  /\ client' = [client EXCEPT ![c] = Save(id, [queue[id] EXCEPT !.status = "cancelled"])]
  /\ UNCHANGED <<queue, isProcessingQueue, run, minted, faults>>

\* The database performs the client's write.
clientSave(c) ==
  /\ client[c] # NoCall
  /\ IF client[c].id = 0 THEN insert(client[c].row)
                         ELSE queue' = [queue EXCEPT ![client[c].id] = client[c].row]
  /\ client' = [client EXCEPT ![c] = NoCall]
  /\ UNCHANGED <<isProcessingQueue, run, minted, faults>>

\* It refuses, or the signature could not be made: the error goes to the caller.
clientFails(c) ==
  /\ client[c] # NoCall
  /\ faults < MaxFaults
  /\ faults' = faults + 1
  /\ client' = [client EXCEPT ![c] = NoCall]
  /\ UNCHANGED <<queue, isProcessingQueue, run, minted>>

-----------------------------------------------------------------------------
(* Selecting.  Rows are taken by priority, then by age; processQueue takes   *)
(* the lowest number first and processPendingItems the highest.              *)
before(r, p, q, i, j) ==
  \/ r = Cron /\ p < q
  \/ r # Cron /\ p > q
  \/ p = q /\ i < j

pendingRows == {i \in DOMAIN queue : queue[i].status = "pending"}

(* `LessThan(new Date()) || IsNull()` is its first operand, and NULL is less  *)
(* than nothing: a row that was never scheduled for a retry does not match.   *)
dueRows == {i \in pendingRows : queue[i].processAfter = "past"}

firstRows(r, eligible) ==
  {i \in eligible :
     Cardinality({j \in eligible :
       before(r, queue[j].priority, queue[i].priority, j, i)}) < BatchLimit}

start(r, eligible) ==
  /\ run[r] = NoRun
  /\ eligible # {}
  /\ run' = [run EXCEPT ![r].rows = [i \in firstRows(r, eligible) |-> queue[i]]]
  /\ UNCHANGED <<queue, client, minted, faults>>

\* processQueue, by cron or by triggerQueueProcessing.
processQueue ==
  /\ ~isProcessingQueue
  /\ isProcessingQueue' = TRUE
  /\ start(Cron, dueRows)

processPendingItems(r) ==
  /\ r \in Manual
  /\ start(r, pendingRows)
  /\ UNCHANGED isProcessingQueue

-----------------------------------------------------------------------------
(* Processing the items of a run one after the other.                       *)
nextItem(r, id) ==
  LET rows == run[r].rows
  IN  /\ id \in DOMAIN rows
      /\ \A j \in DOMAIN rows \ {id} :
           before(r, rows[id].priority, rows[j].priority, id, j)

\* The item is done with: after the last one the run ends, and finally
\* releases the flag.
without(rows, id) == [i \in DOMAIN rows \ {id} |-> rows[i]]

\* Faulty variant: the flag is released after the first item.
itemDone_Early(r, rest) ==
  /\ run' = [run EXCEPT ![r] = [rows |-> rest, current |-> 0, answered |-> FALSE]]
  /\ isProcessingQueue' = (isProcessingQueue /\ r # Cron)

itemDone(r, rest) ==
  /\ run' = [run EXCEPT ![r] = [rows |-> rest, current |-> 0, answered |-> FALSE]]
  /\ isProcessingQueue' = (isProcessingQueue /\ ~(r = Cron /\ DOMAIN rest = {}))

\* Faulty variant: the count is compared before it is raised.
failedRow_OneMore(row) ==
  IF row.retryCount < MaxRetries
    THEN [row EXCEPT !.retryCount = @ + 1, !.status = "pending", !.processAfter = "future"]
    ELSE [row EXCEPT !.retryCount = @ + 1, !.status = "failed"]

\* Faulty variant: a failed attempt is not counted.
failedRow_NotCounted(row) ==
  IF row.retryCount + 1 < MaxRetries
    THEN [row EXCEPT !.status = "pending", !.processAfter = "future"]
    ELSE [row EXCEPT !.retryCount = @ + 1, !.status = "failed"]

\* A failure counts as a retry, and the last one is final.
failedRow(row) ==
  IF row.retryCount + 1 < MaxRetries
    THEN [row EXCEPT !.retryCount = @ + 1, !.status = "pending", !.processAfter = "future"]
    ELSE [row EXCEPT !.retryCount = @ + 1, !.status = "failed"]

\* The snapshot goes to the table as PROCESSING, whatever the row is by now.
markProcessing(r) ==
  /\ run[r].current = 0
  /\ \E id \in DOMAIN run[r].rows :
       LET row == [run[r].rows[id] EXCEPT !.status = "processing"]
       IN  /\ nextItem(r, id)
           /\ queue' = [queue EXCEPT ![id] = row]
           /\ run' = [run EXCEPT ![r].current = id, ![r].rows[id] = row]
  /\ UNCHANGED <<isProcessingQueue, client, minted, faults>>

\* That write fails: processQueue gives its run up, processPendingItems
\* records a failed attempt.
markFails(r) ==
  /\ run[r].current = 0
  /\ faults < MaxFaults
  /\ faults' = faults + 1
  /\ \E id \in DOMAIN run[r].rows :
       /\ nextItem(r, id)
       /\ IF r = Cron
            THEN itemDone(r, NoRows)
            ELSE /\ run' = [run EXCEPT ![r].current = id, ![r].answered = TRUE,
                                      ![r].rows[id] = failedRow(@)]
                 /\ UNCHANGED isProcessingQueue
  /\ UNCHANGED <<queue, client, minted>>

countMint(id) == minted' = [minted EXCEPT ![id] = IF @ < 2 THEN @ + 1 ELSE @]

\* The transactions the token service can send at all: the arguments of the
\* other two do not encode against its ABI, and the calls throw.
sendable(type) == type = "admin"

working(r) == run[r].current # 0 /\ ~run[r].answered

mintSucceeds(r) ==
  LET id == run[r].current
  IN  /\ working(r)
      /\ sendable(run[r].rows[id].type)
      /\ countMint(id)
      /\ run' = [run EXCEPT ![r].answered = TRUE, ![r].rows[id].status = "completed"]
      /\ UNCHANGED <<queue, isProcessingQueue, client, faults>>

\* Faulty variant: the error is logged and the request completed all the same.
mintFails_Completed(r) ==
  LET id == run[r].current
  IN  /\ working(r)
      /\ UNCHANGED minted
      /\ run' = [run EXCEPT ![r].answered = TRUE, ![r].rows[id].status = "completed"]
      /\ UNCHANGED <<queue, isProcessingQueue, client, faults>>

\* The call throws: nothing was mined, or tx.wait() failed after it was.
mintFails(r) ==
  LET id == run[r].current
  IN  /\ working(r)
      /\ \/ UNCHANGED minted
         \/ sendable(run[r].rows[id].type) /\ countMint(id)
      /\ run' = [run EXCEPT ![r].answered = TRUE, ![r].rows[id] = failedRow(@)]
      /\ UNCHANGED <<queue, isProcessingQueue, client, faults>>

\* Faulty variant: the outcome of a failed attempt is not written.
saveOutcome_SuccessOnly(r) ==
  LET id == run[r].current
  IN  /\ run[r].answered
      /\ IF run[r].rows[id].status = "completed"
           THEN queue' = [queue EXCEPT ![id] = run[r].rows[id]]
           ELSE UNCHANGED queue
      /\ itemDone(r, without(run[r].rows, id))
      /\ UNCHANGED <<client, minted, faults>>

saveOutcome(r) ==
  LET id == run[r].current
  IN  /\ run[r].answered
      /\ queue' = [queue EXCEPT ![id] = run[r].rows[id]]
      /\ itemDone(r, without(run[r].rows, id))
      /\ UNCHANGED <<client, minted, faults>>

(* The write of the outcome fails.  That of a success is inside the try:     *)
(* its handler records a failed attempt.  That of a failure ends the run.    *)
saveFails(r) ==
  LET id == run[r].current
  IN  /\ run[r].answered
      /\ faults < MaxFaults
      /\ faults' = faults + 1
      /\ \/ /\ run[r].rows[id].status = "completed"
            /\ run' = [run EXCEPT ![r].rows[id] = failedRow(@)]
            /\ UNCHANGED isProcessingQueue
         \/ /\ run[r].rows[id].status # "completed"
            /\ itemDone(r, NoRows)
      /\ UNCHANGED <<queue, client, minted>>

\* The process restarts: every call in progress is gone, the table stays.
crash ==
  /\ faults < MaxFaults
  /\ faults' = faults + 1
  /\ isProcessingQueue' = FALSE
  /\ client' = [c \in Clients |-> NoCall]
  /\ run' = [r \in Runners |-> NoRun]
  /\ UNCHANGED <<queue, minted>>

\* The backoff of a row elapses.
retryDue(id) ==
  /\ queue[id].processAfter = "future"
  /\ queue' = [queue EXCEPT ![id].processAfter = "past"]
  /\ UNCHANGED <<isProcessingQueue, client, run, minted, faults>>

-----------------------------------------------------------------------------
RunnerStep(r) ==
  \/ markProcessing(r)
  \/ mintSucceeds(r)
  \/ mintFails(r)
  \/ saveOutcome(r)

ClientNext ==
  \/ \E c \in Clients, w \in Wallets, type \in Checked : queueMinting(c, w, type)
  \/ \E w \in Wallets, type \in Unchecked : \E priority \in {0, priorityOf(type)} :
        queueUnchecked(w, type, priority)
  \/ \E c \in Clients : \E id \in DOMAIN queue : cancelMintingRequest(c, id)
  \/ \E c \in Clients : clientSave(c) \/ clientFails(c)

QueueStep ==
  \/ ClientNext
  \/ processQueue
  \/ \E r \in Manual : processPendingItems(r)
  \/ \E r \in Runners : RunnerStep(r) \/ markFails(r) \/ saveFails(r)
  \/ \E id \in DOMAIN queue : retryDue(id)

QueueNext == QueueStep \/ crash

(* Cron starts processQueue every minute, an await is answered, time passes. *)
(* Nothing in the backend calls processPendingItems of itself.               *)
QueueFairness ==
  /\ WF_qvars(processQueue)
  /\ \A r \in Runners : WF_qvars(RunnerStep(r))
  /\ \A c \in Clients : WF_qvars(clientSave(c))
  /\ \A id \in Ids : WF_qvars(id \in DOMAIN queue /\ retryDue(id))

QueueSpec == QueueInit /\ [][QueueNext]_qvars /\ QueueFairness

-----------------------------------------------------------------------------
Snapshots == UNION {[S -> Row] : S \in SUBSET Ids}

(* Types, and with them that automatic retries end: a request waiting for     *)
(* another attempt has one left, whatever stale snapshots are written over it. *)
QueueTypeOK ==
  /\ queue \in Seq(Row)
  /\ \A i \in DOMAIN queue : queue[i].status = "pending" => queue[i].retryCount < MaxRetries
  /\ Len(queue) <= MaxRequests
  /\ isProcessingQueue \in BOOLEAN
  /\ client \in [Clients -> {NoCall} \cup [id : {0} \cup DOMAIN queue, row : Row]]
  /\ run \in [Runners -> [rows : Snapshots, current : {0} \cup Ids, answered : BOOLEAN]]
  /\ \A r \in Runners :
       /\ DOMAIN run[r].rows \subseteq DOMAIN queue
       /\ run[r].current # 0 => run[r].current \in DOMAIN run[r].rows
       /\ run[r].answered => run[r].current # 0
  /\ minted \in [Ids -> 0 .. 2]
  /\ faults \in 0 .. MaxFaults
(* COMPLETED is only ever read from a request whose transaction was mined,    *)
(* through crashes, failed writes and overlapping runs.                       *)
CompletedWasMinted ==
  \A i \in DOMAIN queue : queue[i].status = "completed" => minted[i] > 0

(* The flag keeps cron's executions apart, and finally gives it back: it is  *)
(* up exactly while cron's run has an item to process.                       *)
FlagTellsTheRun == isProcessingQueue <=> DOMAIN run[Cron].rows # {}

(* Without a fault a request is not left behind in PROCESSING: a runner has   *)
(* it in hand and will write its outcome.                                     *)
ProcessingIsInHand ==
  faults = 0 => \A i \in DOMAIN queue :
    queue[i].status = "processing" => \E r \in Runners : run[r].current = i

(* A request scheduled for a retry is retried until it is decided: where      *)
(* nothing fails but the transactions, it ends as completed, failed or        *)
(* cancelled, also with a second runner writing older snapshots over it.      *)
RetriesAreDecided ==
  \A i \in Ids :
    (i \in pendingRows /\ queue[i].processAfter # "null")
      ~> \/ faults > 0
         \/ i \in DOMAIN queue /\ queue[i].status \in {"completed", "failed", "cancelled"}

-----------------------------------------------------------------------------
(* What comments and documents say and the code does not do.                *)

(* "Process the next batch of minting requests", "Process older requests     *)
(* first": a request that waits is taken in the end.  The cron job does not   *)
(* do so; batch minting on the same table does (MintingService).              *)
PendingIsTaken ==
  \A i \in Ids : i \in pendingRows ~> i \notin pendingRows
=============================================================================
