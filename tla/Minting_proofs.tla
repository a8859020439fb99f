--------------------------- MODULE Minting_proofs ---------------------------
(***************************************************************************)
(* Proofs about the minting queue and about the batches on its table, for  *)
(* any number of requests, runners, batch executions, clients, retries and *)
(* faults.                                                                 *)
(***************************************************************************)
EXTENDS MintingService, FiniteSetTheorems, WellFoundedInduction, TLAPS

(* What is in the table q, with m transactions mined per row.               *)
TableOK(q, m) ==
  /\ q \in Seq(Row) /\ Len(q) <= MaxRequests
  /\ \A i \in DOMAIN q :
       /\ q[i].status = "pending" => q[i].retryCount < MaxRetries
       /\ q[i].status = "completed" => m[i] > 0

(* A client holds nothing that would decide a request but a cancellation.   *)
ClientOK(x, q) ==
  x = NoCall \/ /\ x \in [id : {0} \cup DOMAIN q, row : Row]
                /\ x.row.status \in {"pending", "cancelled"}
                /\ x.row.retryCount < MaxRetries

RunType == [rows : Snapshots, current : {0} \cup Ids, answered : BOOLEAN]

(* What a runner holds: an outcome only of the item it has in hand, and an  *)
(* attempt left for every other.                                            *)
RunOK(x, q, m) ==
  /\ x \in RunType
  /\ DOMAIN x.rows \subseteq DOMAIN q
  /\ x.current # 0 => x.current \in DOMAIN x.rows
  /\ x.answered => x.current # 0 /\ x.rows[x.current].status # "processing"
  /\ \A id \in DOMAIN x.rows :
       /\ x.rows[id].status = "failed" => x.answered /\ x.current = id
       /\ x.rows[id].status # "failed" => x.rows[id].retryCount < MaxRetries
       /\ x.rows[id].status = "completed" => m[id] > 0

QueueInv ==
  /\ TableOK(queue, minted)
  /\ minted \in [Ids -> 0 .. 2] /\ faults \in 0 .. MaxFaults
  /\ client = [c \in Clients |-> client[c]]
  /\ \A c \in Clients : ClientOK(client[c], queue)
  /\ run = [r \in Runners |-> run[r]]
  /\ \A r \in Runners : RunOK(run[r], queue, minted)
  /\ isProcessingQueue \in BOOLEAN
  /\ FlagTellsTheRun
  /\ ProcessingIsInHand

-----------------------------------------------------------------------------
LEMMA LeastNumber ==
  ASSUME NEW S, S \subseteq Nat, S # {}
  PROVE  \E x \in S : \A y \in S : x <= y
<1>1. PICK x \in S : \A y \in S : ~ (y < x)
  <2>1. PICK x \in S : \A y \in S : ~ (<<y, x>> \in OpToRel(<, Nat))
    BY WFMin, NatLessThanWellFounded, Zenon
  <2>2. \A y \in Nat : y < x => <<y, x>> \in OpToRel(<, Nat)
    BY Zenon DEF OpToRel
  <2> QED BY <2>1, <2>2, Zenon
<1> QED BY <1>1

LEMMA SnapshotsAre ==
  \A R : R \in Snapshots <=> R \in [DOMAIN R -> Row] /\ DOMAIN R \subseteq Ids
<1>1. ASSUME NEW R, R \in Snapshots PROVE R \in [DOMAIN R -> Row] /\ DOMAIN R \subseteq Ids
  <2>1. PICK S \in SUBSET Ids : R \in [S -> Row]
    BY <1>1 DEF Snapshots
  <2> QED BY <2>1
<1>2. ASSUME NEW R, R \in [DOMAIN R -> Row], DOMAIN R \subseteq Ids PROVE R \in Snapshots
  <2>1. [DOMAIN R -> Row] \in {[S -> Row] : S \in SUBSET Ids}
    BY <1>2
  <2> QED BY <1>2, <2>1 DEF Snapshots
<1> QED BY <1>1, <1>2

LEMMA RowFields ==
  ASSUME NEW row \in Row
  PROVE  /\ row.status \in Statuses /\ row.retryCount \in 0 .. MaxRetries
         /\ row.priority \in 0 .. 10
         /\ \A s \in Statuses : [row EXCEPT !.status = s] \in Row
  BY DEF Row, Statuses

(* A failed attempt leaves a row that is pending with attempts left, or     *)
(* failed.                                                                  *)
LEMMA FailedRows ==
  ASSUME NEW row \in Row, row.retryCount < MaxRetries
  PROVE  /\ failedRow(row) \in Row
         /\ \/ failedRow(row).status = "pending" /\ failedRow(row).retryCount < MaxRetries
            \/ failedRow(row).status = "failed"
<1>1. MaxRetries \in Nat /\ row.retryCount \in Nat
  BY QueueAssumption DEF Row
<1>2. row.retryCount + 1 \in 0 .. MaxRetries
  BY <1>1
<1> QED BY <1>1, <1>2 DEF failedRow, Row, Statuses

(* A run that begins takes at least one of the rows it may take.            *)
LEMMA FirstTaken ==
  ASSUME queue \in Seq(Row), NEW eligible, eligible \subseteq DOMAIN queue, eligible # {}
  PROVE  firstRows(Cron, eligible) # {}
<1> DEFINE prio == {queue[i].priority : i \in eligible}
<1>1. ASSUME NEW i \in eligible PROVE i \in Nat /\ queue[i].priority \in Nat
  <2>1. i \in 1 .. Len(queue) /\ Len(queue) \in Nat /\ queue[i] \in Row
    OBVIOUS
  <2>2. queue[i].priority \in 0 .. 10
    BY <2>1, RowFields
  <2> QED BY <2>1, <2>2
<1>2. PICK p \in prio : \A q \in prio : p <= q
  <2>1. prio \subseteq Nat /\ prio # {}
    BY <1>1
  <2> HIDE DEF prio
  <2> QED BY <2>1, LeastNumber
<1> DEFINE lowest == {i \in eligible : queue[i].priority = p}
<1>3. PICK i \in lowest : \A j \in lowest : i <= j
  <2>1. lowest \subseteq Nat /\ lowest # {}
    BY <1>1, <1>2
  <2> HIDE DEF lowest
  <2> QED BY <2>1, LeastNumber
<1>4. ASSUME NEW j \in eligible PROVE ~before(Cron, queue[j].priority, queue[i].priority, j, i)
  <2>1. queue[i].priority <= queue[j].priority
    BY <1>2, <1>3
  <2>2. queue[j].priority = queue[i].priority => i <= j
    BY <1>3
  <2>3. queue[i].priority \in Nat /\ queue[j].priority \in Nat /\ i \in Nat /\ j \in Nat
    BY <1>1, <1>3
  <2> QED BY <2>1, <2>2, <2>3 DEF before
<1>5. {j \in eligible : before(Cron, queue[j].priority, queue[i].priority, j, i)} = {}
  BY <1>4
<1>6. Cardinality({}) < BatchLimit
  BY FS_EmptySet, QueueAssumption
<1> QED BY <1>3, <1>5, <1>6 DEF firstRows

-----------------------------------------------------------------------------
(* Writing the table.                                                       *)
LEMMA RowWritten ==
  ASSUME NEW q, NEW m, TableOK(q, m), NEW i \in DOMAIN q, NEW row \in Row,
         row.status = "pending" => row.retryCount < MaxRetries,
         row.status = "completed" => m[i] > 0
  PROVE  /\ TableOK([q EXCEPT ![i] = row], m)
         /\ DOMAIN [q EXCEPT ![i] = row] = DOMAIN q
         /\ \A j \in DOMAIN q : [q EXCEPT ![i] = row][j] = IF j = i THEN row ELSE q[j]
<1> DEFINE q2 == [q EXCEPT ![i] = row]
<1>1. q \in Seq(Row)
  BY DEF TableOK
<1>2. q2 \in Seq(Row) /\ Len(q2) = Len(q) /\ DOMAIN q2 = DOMAIN q
  BY <1>1
<1>3. \A j \in DOMAIN q : q2[j] = IF j = i THEN row ELSE q[j]
  BY <1>1
<1> HIDE DEF q2
<1>4. TableOK(q2, m)
  BY <1>2, <1>3 DEF TableOK
<1> QED BY <1>2, <1>3, <1>4 DEF q2

LEMMA RowAppended ==
  ASSUME NEW q, NEW m, TableOK(q, m), Len(q) < MaxRequests, NEW row \in Row,
         row.status \in {"pending", "cancelled"}, row.retryCount < MaxRetries
  PROVE  /\ TableOK(Append(q, row), m)
         /\ DOMAIN q \subseteq DOMAIN Append(q, row)
         /\ \A j \in DOMAIN Append(q, row) :
              j \notin DOMAIN q => Append(q, row)[j] = row
         /\ \A j \in DOMAIN q : Append(q, row)[j] = q[j]
<1> DEFINE q2 == Append(q, row)
<1>1. q \in Seq(Row) /\ Len(q) \in Nat /\ MaxRequests \in Nat
  BY QueueAssumption DEF TableOK
<1>2. /\ q2 \in Seq(Row) /\ Len(q2) = Len(q) + 1
      /\ DOMAIN q = 1 .. Len(q) /\ DOMAIN q2 = 1 .. Len(q) + 1
  BY <1>1
<1>3. \A j \in DOMAIN q2 : IF j \in DOMAIN q THEN q2[j] = q[j] ELSE q2[j] = row
  BY <1>1, <1>2
<1>4. DOMAIN q \subseteq DOMAIN q2
  BY <1>1, <1>2
<1> HIDE DEF q2
<1>5. \A j \in DOMAIN q2 : /\ q2[j].status = "pending" => q2[j].retryCount < MaxRetries
                           /\ q2[j].status = "completed" => m[j] > 0
  BY <1>3 DEF TableOK
<1>6. TableOK(q2, m)
  BY <1>1, <1>2, <1>5 DEF TableOK
<1> QED BY <1>3, <1>4, <1>6 DEF q2

(* What is held stays in order while the table grows and mints are counted. *)
LEMMA RunKeeps ==
  ASSUME NEW x, NEW q, NEW m, NEW q2, NEW m2, RunOK(x, q, m), DOMAIN q \subseteq DOMAIN q2,
         \A i \in DOMAIN x.rows : m[i] > 0 => m2[i] > 0
  PROVE  RunOK(x, q2, m2)
  BY DEF RunOK

LEMMA ClientKeeps ==
  ASSUME NEW x, NEW q, NEW q2, ClientOK(x, q), DOMAIN q \subseteq DOMAIN q2
  PROVE  ClientOK(x, q2)
  BY DEF ClientOK

LEMMA NoRunIsOK == \A q, m : RunOK(NoRun, q, m)
<1>1. NoRows \in Snapshots /\ DOMAIN NoRows = {}
  BY SnapshotsAre DEF NoRows
<1> QED BY <1>1 DEF RunOK, RunType, NoRun

LEMMA NewRows ==
  ASSUME NEW w \in Wallets, NEW type \in Types, NEW priority \in {0, priorityOf(type)}
  PROVE  /\ newRow(w, type, priority) \in Row
         /\ newRow(w, type, priority).status = "pending"
         /\ newRow(w, type, priority).retryCount = 0 /\ 0 < MaxRetries
<1>1. MaxRetries \in Nat /\ 0 < MaxRetries
  BY QueueAssumption
<1>2. type \in {"first_time", "annual", "admin"}
  BY QueueAssumption DEF Types
<1>3. priorityOf(type) \in 0 .. 10
  BY <1>2 DEF priorityOf
<1> QED BY <1>1, <1>3 DEF newRow, Row, Statuses

(* A row is held by the same runners as before, and no other is processing. *)
LEMMA InHandKept ==
  ASSUME ProcessingIsInHand, faults \in Nat, faults' = faults,
         \A r \in Runners : run'[r].current = run[r].current,
         \A i \in DOMAIN queue' : queue'[i].status = "processing" =>
            i \in DOMAIN queue /\ queue[i].status = "processing"
  PROVE  ProcessingIsInHand'
  BY DEF ProcessingIsInHand

LEMMA FaultsExcuse ==
  ASSUME faults \in 0 .. MaxFaults, faults < MaxFaults, faults' = faults + 1
  PROVE  ProcessingIsInHand' /\ faults' \in 0 .. MaxFaults
  BY QueueAssumption DEF ProcessingIsInHand

-----------------------------------------------------------------------------
(* Clients.                                                                 *)
LEMMA QueueInvInit == QueueInit => QueueInv
<1> SUFFICES ASSUME QueueInit PROVE QueueInv
  OBVIOUS
<1>1. TableOK(queue, minted)
  BY QueueAssumption DEF QueueInit, TableOK
<1>2. \A r \in Runners : RunOK(run[r], queue, minted)
  BY NoRunIsOK DEF QueueInit
<1>3. FlagTellsTheRun
  BY DEF QueueInit, FlagTellsTheRun, Runners, NoRun, NoRows
<1>4. minted \in [Ids -> 0 .. 2] /\ faults \in 0 .. MaxFaults
  BY QueueAssumption DEF QueueInit
<1>5. client = [c \in Clients |-> client[c]] /\ \A c \in Clients : ClientOK(client[c], queue)
  BY DEF QueueInit, ClientOK
<1>6. run = [r \in Runners |-> run[r]] /\ isProcessingQueue \in BOOLEAN
  BY DEF QueueInit
<1>7. ProcessingIsInHand
  BY DEF QueueInit, ProcessingIsInHand
<1> QED BY <1>1, <1>2, <1>3, <1>4, <1>5, <1>6, <1>7 DEF QueueInv

(* A client's call changes nothing but what it holds.                       *)
LEMMA ClientHolds ==
  ASSUME QueueInv, NEW c \in Clients, NEW x, ClientOK(x, queue),
         client' = [client EXCEPT ![c] = x],
         UNCHANGED <<queue, isProcessingQueue, run, minted, faults>>
  PROVE  QueueInv'
<1>1. client' = [d \in Clients |-> client'[d]] /\ \A d \in Clients : ClientOK(client'[d], queue')
  BY DEF QueueInv
<1>2. ProcessingIsInHand'
  BY InHandKept DEF QueueInv
<1>3. FlagTellsTheRun'
  BY DEF QueueInv, FlagTellsTheRun
<1> QED BY <1>1, <1>2, <1>3 DEF QueueInv

(* The table changes, in rows or in length, and what is held is untouched.  *)
LEMMA TableChanges ==
  ASSUME QueueInv, TableOK(queue', minted), DOMAIN queue \subseteq DOMAIN queue',
         \A i \in DOMAIN queue' : queue'[i].status = "processing" =>
            i \in DOMAIN queue /\ queue[i].status = "processing",
         \/ UNCHANGED client
         \/ \E c \in Clients : client' = [client EXCEPT ![c] = NoCall],
         UNCHANGED <<isProcessingQueue, run, minted, faults>>
  PROVE  QueueInv'
<1>1. client' = [d \in Clients |-> client'[d]] /\ \A d \in Clients : ClientOK(client'[d], queue')
  <2>1. \A d \in Clients : ClientOK(client[d], queue')
    BY ClientKeeps DEF QueueInv
  <2>2. ClientOK(NoCall, queue')
    BY DEF ClientOK
  <2> QED BY <2>1, <2>2 DEF QueueInv
<1>2. \A r \in Runners : RunOK(run'[r], queue', minted')
  BY RunKeeps DEF QueueInv
<1>3. ProcessingIsInHand'
  BY InHandKept DEF QueueInv
<1>4. FlagTellsTheRun'
  BY DEF QueueInv, FlagTellsTheRun
<1> QED BY <1>1, <1>2, <1>3, <1>4 DEF QueueInv

LEMMA QueueMintingPreserves ==
  ASSUME QueueInv, NEW c \in Clients, NEW w \in Wallets, NEW type \in Checked,
         queueMinting(c, w, type)
  PROVE  QueueInv'
<1> DEFINE row == newRow(w, type, priorityOf(type))
<1>1. row \in Row /\ row.status = "pending" /\ row.retryCount < MaxRetries
  BY NewRows DEF Types
<1> HIDE DEF row
<1>2. ClientOK(Save(0, row), queue)
  BY <1>1 DEF ClientOK, Save
<1> QED BY <1>2, ClientHolds DEF queueMinting, row

LEMMA CancelPreserves ==
  ASSUME QueueInv, NEW c \in Clients, NEW id \in DOMAIN queue, cancelMintingRequest(c, id)
  PROVE  QueueInv'
<1> DEFINE row == [queue[id] EXCEPT !.status = "cancelled"]
<1>1. queue[id] \in Row /\ queue[id].status = "pending" /\ queue[id].retryCount < MaxRetries
  BY DEF cancelMintingRequest, QueueInv, TableOK
<1>2. row \in Row /\ row.status = "cancelled" /\ row.retryCount < MaxRetries
  BY <1>1 DEF Row, Statuses
<1> HIDE DEF row
<1>3. ClientOK(Save(id, row), queue)
  BY <1>2 DEF ClientOK, Save
<1> QED BY <1>3, ClientHolds DEF cancelMintingRequest, row

LEMMA UncheckedPreserves ==
  ASSUME QueueInv, NEW w \in Wallets, NEW type \in Unchecked,
         NEW priority \in {0, priorityOf(type)}, queueUnchecked(w, type, priority)
  PROVE  QueueInv'
<1> DEFINE row == newRow(w, type, priority)
<1>1. row \in Row /\ row.status = "pending" /\ row.retryCount < MaxRetries
  BY NewRows DEF Types
<1>2. Len(queue) < MaxRequests /\ queue' = Append(queue, row)
  BY DEF queueUnchecked, insert
<1> HIDE DEF row
<1>3. /\ TableOK(queue', minted) /\ DOMAIN queue \subseteq DOMAIN queue'
      /\ \A j \in DOMAIN queue' : j \notin DOMAIN queue => queue'[j] = row
      /\ \A j \in DOMAIN queue : queue'[j] = queue[j]
  BY <1>1, <1>2, RowAppended DEF QueueInv
<1> QED BY <1>1, <1>3, TableChanges DEF queueUnchecked

LEMMA ClientSavePreserves ==
  ASSUME QueueInv, NEW c \in Clients, clientSave(c)
  PROVE  QueueInv'
<1> DEFINE x == client[c]
           row == client[c].row
<1>1. /\ x \in [id : {0} \cup DOMAIN queue, row : Row]
      /\ row.status \in {"pending", "cancelled"} /\ row.retryCount < MaxRetries
  BY DEF clientSave, QueueInv, ClientOK
<1>2. row \in Row /\ x.id \in {0} \cup DOMAIN queue /\ TableOK(queue, minted)
  BY <1>1 DEF QueueInv
<1>3. client' = [client EXCEPT ![c] = NoCall]
  BY DEF clientSave
<1>4. CASE x.id = 0
  <2>1. Len(queue) < MaxRequests /\ queue' = Append(queue, row)
    BY <1>4 DEF clientSave, insert
  <2>2. /\ TableOK(queue', minted) /\ DOMAIN queue \subseteq DOMAIN queue'
        /\ \A j \in DOMAIN queue' : j \notin DOMAIN queue => queue'[j] = row
        /\ \A j \in DOMAIN queue : queue'[j] = queue[j]
    BY <1>1, <1>2, <2>1, RowAppended
  <2> QED BY <1>1, <1>3, <2>2, TableChanges DEF clientSave
<1>5. CASE x.id \in DOMAIN queue /\ x.id # 0
  <2>1. queue' = [queue EXCEPT ![x.id] = row]
    BY <1>5 DEF clientSave
  <2>2. /\ TableOK(queue', minted) /\ DOMAIN queue' = DOMAIN queue
        /\ \A j \in DOMAIN queue : queue'[j] = IF j = x.id THEN row ELSE queue[j]
    BY <1>1, <1>2, <1>5, <2>1, RowWritten
  <2>3. row.status # "processing"
    BY <1>1
  <2> QED BY <1>3, <2>2, <2>3, TableChanges DEF clientSave
<1> QED BY <1>2, <1>4, <1>5

LEMMA ClientFailsPreserves ==
  ASSUME QueueInv, NEW c \in Clients, clientFails(c)
  PROVE  QueueInv'
<1>1. client' = [d \in Clients |-> client'[d]] /\ \A d \in Clients : ClientOK(client'[d], queue')
  BY DEF clientFails, QueueInv, ClientOK
<1>2. ProcessingIsInHand' /\ faults' \in 0 .. MaxFaults
  BY FaultsExcuse DEF clientFails, QueueInv
<1>3. FlagTellsTheRun'
  BY DEF clientFails, QueueInv, FlagTellsTheRun
<1> QED BY <1>1, <1>2, <1>3 DEF clientFails, QueueInv

LEMMA RetryDuePreserves ==
  ASSUME QueueInv, NEW id \in DOMAIN queue, retryDue(id)
  PROVE  QueueInv'
<1> DEFINE row == [queue[id] EXCEPT !.processAfter = "past"]
<1>1. queue[id] \in Row /\ TableOK(queue, minted)
  BY DEF QueueInv, TableOK
<1>2. /\ row \in Row /\ row.status = queue[id].status
      /\ row.retryCount = queue[id].retryCount
  BY <1>1 DEF Row
<1>3. queue' = [queue EXCEPT ![id] = row]
  BY DEF retryDue
<1> HIDE DEF row
<1>4. /\ row.status = "pending" => row.retryCount < MaxRetries
      /\ row.status = "completed" => minted[id] > 0
  BY <1>2, <1>1 DEF TableOK
<1>5. /\ TableOK(queue', minted) /\ DOMAIN queue' = DOMAIN queue
      /\ \A j \in DOMAIN queue : queue'[j] = IF j = id THEN row ELSE queue[j]
  BY <1>1, <1>2, <1>3, <1>4, RowWritten
<1> QED BY <1>2, <1>5, TableChanges DEF retryDue

-----------------------------------------------------------------------------
(* Runners.                                                                 *)
LEMMA HeldUpdated ==
  ASSUME NEW R \in Snapshots, NEW id \in DOMAIN R, NEW row \in Row
  PROVE  /\ [R EXCEPT ![id] = row] \in Snapshots
         /\ DOMAIN [R EXCEPT ![id] = row] = DOMAIN R
         /\ \A j \in DOMAIN R : [R EXCEPT ![id] = row][j] = IF j = id THEN row ELSE R[j]
<1> DEFINE R2 == [R EXCEPT ![id] = row]
<1>1. R \in [DOMAIN R -> Row] /\ DOMAIN R \subseteq Ids
  BY SnapshotsAre
<1>2. R2 \in [DOMAIN R -> Row] /\ DOMAIN R2 = DOMAIN R
  BY <1>1
<1>3. \A j \in DOMAIN R : R2[j] = IF j = id THEN row ELSE R[j]
  BY <1>1
<1> HIDE DEF R2
<1>4. R2 \in Snapshots
  BY <1>1, <1>2, SnapshotsAre
<1> QED BY <1>2, <1>3, <1>4 DEF R2

LEMMA HeldWithout ==
  ASSUME NEW R \in Snapshots, NEW id
  PROVE  /\ without(R, id) \in Snapshots
         /\ DOMAIN without(R, id) = DOMAIN R \ {id}
         /\ \A j \in DOMAIN R \ {id} : without(R, id)[j] = R[j]
<1>1. R \in [DOMAIN R -> Row] /\ DOMAIN R \subseteq Ids
  BY SnapshotsAre
<1>2. /\ DOMAIN without(R, id) = DOMAIN R \ {id}
      /\ without(R, id) \in [DOMAIN R \ {id} -> Row]
      /\ \A j \in DOMAIN R \ {id} : without(R, id)[j] = R[j]
  BY <1>1 DEF without
<1> QED BY <1>1, <1>2, SnapshotsAre

(* A runner's step: what it holds afterwards is in order again.             *)
LEMMA RunnerMoves ==
  ASSUME QueueInv, NEW r \in Runners, NEW x, RunOK(x, queue', minted'),
         run' = [run EXCEPT ![r] = x],
         TableOK(queue', minted'), DOMAIN queue \subseteq DOMAIN queue',
         minted' \in [Ids -> 0 .. 2], \A i \in Ids : minted[i] > 0 => minted'[i] > 0,
         client' = client, faults' \in 0 .. MaxFaults, isProcessingQueue' \in BOOLEAN,
         FlagTellsTheRun', ProcessingIsInHand'
  PROVE  QueueInv'
<1>1. run' = [s \in Runners |-> run'[s]] /\ run'[r] = x /\ \A s \in Runners \ {r} : run'[s] = run[s]
  BY DEF QueueInv
<1>2. ASSUME NEW s \in Runners PROVE RunOK(run'[s], queue', minted')
  <2>1. CASE s = r
    BY <1>1, <2>1
  <2>2. CASE s # r
    <3>1. RunOK(run[s], queue, minted)
      BY DEF QueueInv
    <3>2. DOMAIN run[s].rows \subseteq Ids
      BY <3>1, SnapshotsAre DEF RunOK, RunType
    <3>3. RunOK(run[s], queue', minted')
      BY <3>1, <3>2, RunKeeps
    <3> QED BY <1>1, <2>2, <3>3
  <2> QED BY <2>1, <2>2
<1>3. client' = [c \in Clients |-> client'[c]] /\ \A c \in Clients : ClientOK(client'[c], queue')
  BY ClientKeeps DEF QueueInv
<1> QED BY <1>1, <1>2, <1>3 DEF QueueInv

(* What a run of items holds when it begins.                                *)
LEMMA Started ==
  ASSUME QueueInv, NEW r \in Runners, NEW eligible, eligible \subseteq pendingRows, start(r, eligible)
  PROVE  \E x : /\ run' = [run EXCEPT ![r] = x]
                /\ RunOK(x, queue, minted)
                /\ x.current = 0 /\ run[r].current = 0
                /\ DOMAIN x.rows = firstRows(r, eligible)
<1> DEFINE R == [i \in firstRows(r, eligible) |-> queue[i]]
           x == [run[r] EXCEPT !.rows = R]
<1>1. run[r] = NoRun /\ run' = [run EXCEPT ![r] = x]
  BY DEF start
<1>2. NoRun.current = 0 /\ NoRun.answered = FALSE
  BY DEF NoRun
<1>3. firstRows(r, eligible) \subseteq pendingRows
  BY DEF firstRows
<1>4. DOMAIN queue \subseteq Ids /\ queue \in [DOMAIN queue -> Row]
  <2>1. queue \in Seq(Row) /\ Len(queue) <= MaxRequests /\ MaxRequests \in Nat
    BY QueueAssumption DEF QueueInv, TableOK
  <2> QED BY <2>1 DEF Ids
<1>5. \A i \in firstRows(r, eligible) : i \in DOMAIN queue /\ queue[i].status = "pending"
  BY <1>3 DEF pendingRows
<1>6. R \in Snapshots
  <2>1. R \in [firstRows(r, eligible) -> Row] /\ firstRows(r, eligible) \subseteq Ids
    BY <1>4, <1>5
  <2> QED BY <2>1, SnapshotsAre
<1>7. \A i \in DOMAIN R : R[i].status = "pending" /\ R[i].retryCount < MaxRetries
  BY <1>5 DEF QueueInv, TableOK
<1>8. DOMAIN R = firstRows(r, eligible) /\ DOMAIN R \subseteq DOMAIN queue
  BY <1>5
<1> HIDE DEF R
<1>9. x \in RunType /\ x.rows = R /\ x.current = 0 /\ x.answered = FALSE
  <2>1. run[r] \in RunType
    BY DEF QueueInv, RunOK
  <2> QED BY <1>1, <1>2, <1>6, <2>1 DEF RunType
<1> HIDE DEF x
<1>10. RunOK(x, queue, minted)
  BY <1>7, <1>8, <1>9 DEF RunOK
<1> QED BY <1>1, <1>2, <1>8, <1>9, <1>10

LEMMA ProcessQueuePreserves ==
  ASSUME QueueInv, processQueue PROVE QueueInv'
<1>1. Cron \in Runners /\ dueRows \subseteq pendingRows /\ start(Cron, dueRows)
  BY DEF processQueue, Runners, dueRows
<1>2. PICK x : /\ run' = [run EXCEPT ![Cron] = x]
               /\ RunOK(x, queue, minted)
               /\ x.current = 0 /\ run[Cron].current = 0
               /\ DOMAIN x.rows = firstRows(Cron, dueRows)
  BY <1>1, Started
<1>3. run'[Cron] = x /\ \A s \in Runners \ {Cron} : run'[s] = run[s]
  BY <1>1, <1>2 DEF QueueInv
<1>4. firstRows(Cron, dueRows) # {}
  BY FirstTaken DEF processQueue, start, dueRows, pendingRows, QueueInv, TableOK
<1>5. FlagTellsTheRun' /\ isProcessingQueue' \in BOOLEAN
  BY <1>2, <1>3, <1>4 DEF FlagTellsTheRun, processQueue
<1>6. UNCHANGED <<queue, client, minted, faults>>
  BY DEF processQueue, start
<1>7. \A s \in Runners : run'[s].current = run[s].current
  BY <1>2, <1>3
<1>8. ProcessingIsInHand'
  BY <1>6, <1>7, InHandKept DEF QueueInv
<1> QED BY <1>1, <1>2, <1>5, <1>6, <1>8, RunnerMoves DEF QueueInv

LEMMA ProcessPendingItemsPreserves ==
  ASSUME QueueInv, NEW r \in Manual, processPendingItems(r) PROVE QueueInv'
<1>1. r \in Runners /\ start(r, pendingRows) /\ r # Cron
  BY QueueAssumption DEF processPendingItems, Runners
<1>2. PICK x : /\ run' = [run EXCEPT ![r] = x]
               /\ RunOK(x, queue, minted)
               /\ x.current = 0 /\ run[r].current = 0
               /\ DOMAIN x.rows = firstRows(r, pendingRows)
  BY <1>1, Started
<1>3. run'[r] = x /\ \A s \in Runners \ {r} : run'[s] = run[s]
  BY <1>1, <1>2 DEF QueueInv
<1>4. UNCHANGED <<queue, client, minted, faults, isProcessingQueue>>
  BY DEF processPendingItems, start
<1>5. FlagTellsTheRun' /\ isProcessingQueue' \in BOOLEAN
  BY <1>1, <1>3, <1>4 DEF FlagTellsTheRun, QueueInv, Runners
<1>6. \A s \in Runners : run'[s].current = run[s].current
  BY <1>2, <1>3
<1>7. ProcessingIsInHand'
  BY <1>4, <1>6, InHandKept DEF QueueInv
<1> QED BY <1>1, <1>2, <1>4, <1>5, <1>7, RunnerMoves DEF QueueInv
-----------------------------------------------------------------------------
(* Items.                                                                   *)

(* A runner goes on with the item it has in hand, or takes one.             *)
LEMMA HeldOK ==
  ASSUME NEW y, NEW q, NEW m, NEW q2, NEW m2, RunOK(y, q, m), DOMAIN q \subseteq DOMAIN q2,
         \A i \in DOMAIN y.rows : m[i] > 0 => m2[i] > 0,
         NEW id \in DOMAIN y.rows, y.current \in {0, id},
         NEW row \in Row, NEW x \in RunType,
         x.rows = [y.rows EXCEPT ![id] = row], x.current = id,
         x.answered => row.status # "processing",
         row.status = "failed" => x.answered,
         row.status # "failed" => row.retryCount < MaxRetries,
         row.status = "completed" => m2[id] > 0
  PROVE  RunOK(x, q2, m2)
<1>1. /\ y.rows \in Snapshots /\ DOMAIN y.rows \subseteq DOMAIN q
      /\ \A j \in DOMAIN y.rows :
           /\ y.rows[j].status = "failed" => y.answered /\ y.current = j
           /\ y.rows[j].status # "failed" => y.rows[j].retryCount < MaxRetries
           /\ y.rows[j].status = "completed" => m[j] > 0
      /\ y.answered => y.current # 0
  BY DEF RunOK, RunType
<1>2. /\ DOMAIN x.rows = DOMAIN y.rows
      /\ \A j \in DOMAIN y.rows : x.rows[j] = IF j = id THEN row ELSE y.rows[j]
  BY <1>1, HeldUpdated
<1>3. \A j \in DOMAIN y.rows \ {id} : y.rows[j].status # "failed"
  BY <1>1
<1>4. x.rows[id] = row
  BY <1>2
<1>5. \A j \in DOMAIN x.rows :
       /\ x.rows[j].status = "failed" => x.answered /\ x.current = j
       /\ x.rows[j].status # "failed" => x.rows[j].retryCount < MaxRetries
       /\ x.rows[j].status = "completed" => m2[j] > 0
  BY <1>1, <1>2, <1>3
<1>6. id # 0
  BY <1>1, SnapshotsAre DEF Ids
<1> QED BY <1>1, <1>2, <1>4, <1>5, <1>6 DEF RunOK

(* What a runner holds before its step.                                     *)
LEMMA Held ==
  ASSUME QueueInv, NEW r \in Runners
  PROVE  /\ RunOK(run[r], queue, minted) /\ run[r] \in RunType
         /\ run[r].rows \in Snapshots
         /\ DOMAIN run[r].rows \subseteq DOMAIN queue /\ DOMAIN queue \subseteq Ids
         /\ \A id \in DOMAIN run[r].rows : run[r].rows[id] \in Row
<1>1. RunOK(run[r], queue, minted)
  BY DEF QueueInv
<1>2. DOMAIN queue \subseteq Ids
  <2>1. queue \in Seq(Row) /\ Len(queue) <= MaxRequests /\ MaxRequests \in Nat
    BY QueueAssumption DEF QueueInv, TableOK
  <2> QED BY <2>1 DEF Ids
<1> QED BY <1>1, <1>2, SnapshotsAre DEF RunOK, RunType

LEMMA MarkProcessingPreserves ==
  ASSUME QueueInv, NEW r \in Runners, markProcessing(r) PROVE QueueInv'
<1>1. PICK id \in DOMAIN run[r].rows :
        LET row == [run[r].rows[id] EXCEPT !.status = "processing"]
        IN  /\ queue' = [queue EXCEPT ![id] = row]
            /\ run' = [run EXCEPT ![r].current = id, ![r].rows[id] = row]
  BY DEF markProcessing
<1> DEFINE row == [run[r].rows[id] EXCEPT !.status = "processing"]
           x == run'[r]
<1>2. run[r].current = 0 /\ UNCHANGED <<isProcessingQueue, client, minted, faults>>
  BY DEF markProcessing
<1>3. /\ run[r].rows[id] \in Row /\ run[r].rows[id].retryCount < MaxRetries
      /\ id \in DOMAIN queue /\ id \in Ids
  BY <1>2, Held DEF RunOK
<1>4. row \in Row /\ row.status = "processing" /\ row.retryCount < MaxRetries
  BY <1>3 DEF Row, Statuses
<1>5. queue' = [queue EXCEPT ![id] = row] /\ run' = [run EXCEPT ![r].current = id, ![r].rows[id] = row]
  BY <1>1
<1> HIDE DEF row
<1>6. /\ TableOK(queue', minted) /\ DOMAIN queue' = DOMAIN queue
      /\ \A j \in DOMAIN queue : queue'[j] = IF j = id THEN row ELSE queue[j]
  BY <1>3, <1>4, <1>5, RowWritten DEF QueueInv
<1>7. /\ [run[r].rows EXCEPT ![id] = row] \in Snapshots
      /\ DOMAIN [run[r].rows EXCEPT ![id] = row] = DOMAIN run[r].rows
  BY <1>4, Held, HeldUpdated
<1>8. /\ run' = [run EXCEPT ![r] = x] /\ x \in RunType
      /\ x.rows = [run[r].rows EXCEPT ![id] = row] /\ x.current = id
      /\ x.answered = run[r].answered
  BY <1>3, <1>5, <1>7, Held DEF QueueInv, RunType
<1>9. \A s \in Runners \ {r} : run'[s] = run[s]
  BY <1>8 DEF QueueInv
<1>10. ~run[r].answered
  BY <1>2, Held DEF RunOK
<1> HIDE DEF x
<1>11. RunOK(x, queue', minted')
  BY <1>2, <1>4, <1>6, <1>8, <1>10, Held, HeldOK
<1>12. DOMAIN x.rows = DOMAIN run[r].rows /\ run'[r] = x
  BY <1>7, <1>8 DEF x
<1>13. FlagTellsTheRun'
  BY <1>2, <1>9, <1>12 DEF FlagTellsTheRun, QueueInv, Runners
<1>14. ProcessingIsInHand'
  <2> SUFFICES ASSUME faults = 0, NEW i \in DOMAIN queue, queue'[i].status = "processing"
               PROVE  \E s \in Runners : run'[s].current = i
    BY <1>2, <1>6 DEF ProcessingIsInHand
  <2>1. CASE i = id
    BY <2>1, <1>8, <1>12
  <2>2. CASE i # id
    <3>1. PICK s \in Runners : run[s].current = i
      BY <2>2, <1>6 DEF QueueInv, ProcessingIsInHand
    <3>2. i # 0
      BY Held DEF Ids
    <3> QED BY <3>1, <3>2, <1>2, <1>9
  <2> QED BY <2>1, <2>2
<1> QED BY <1>2, <1>6, <1>8, <1>11, <1>13, <1>14, RunnerMoves DEF QueueInv

(* The runner is done with its item, and perhaps with its run.              *)
LEMMA ItemDone ==
  ASSUME QueueInv, NEW r \in Runners, NEW rest \in Snapshots, itemDone(r, rest),
         DOMAIN run[r].rows # {}, DOMAIN rest \subseteq DOMAIN run[r].rows \ {run[r].current},
         \A j \in DOMAIN rest : rest[j] = run[r].rows[j],
         TableOK(queue', minted), DOMAIN queue \subseteq DOMAIN queue',
         UNCHANGED <<client, minted>>, faults' \in 0 .. MaxFaults, ProcessingIsInHand'
  PROVE  QueueInv'
<1> DEFINE x == [rows |-> rest, current |-> 0, answered |-> FALSE]
<1>1. run' = [run EXCEPT ![r] = x]
  BY DEF itemDone
<1>2. x \in RunType /\ x.rows = rest /\ x.current = 0 /\ x.answered = FALSE
  BY DEF RunType
<1>3. run'[r] = x /\ \A s \in Runners \ {r} : run'[s] = run[s]
  BY <1>1 DEF QueueInv
<1> HIDE DEF x
<1>4. RunOK(x, queue', minted')
  <2>1. \A j \in DOMAIN rest :
          /\ rest[j].status # "failed" /\ rest[j].retryCount < MaxRetries
          /\ rest[j].status = "completed" => minted[j] > 0
    BY Held DEF RunOK
  <2>2. DOMAIN rest \subseteq DOMAIN queue'
    BY Held
  <2> QED BY <1>2, <2>1, <2>2 DEF RunOK
<1>5. isProcessingQueue' = (isProcessingQueue /\ ~(r = Cron /\ DOMAIN rest = {}))
  BY DEF itemDone
<1>6. isProcessingQueue' \in BOOLEAN
  BY <1>5
<1>7. FlagTellsTheRun'
  <2>1. CASE r = Cron
    BY <2>1, <1>2, <1>3, <1>5 DEF FlagTellsTheRun, QueueInv
  <2>2. CASE r # Cron
    BY <2>2, <1>3, <1>5 DEF FlagTellsTheRun, QueueInv, Runners
  <2> QED BY <2>1, <2>2
<1> QED BY <1>1, <1>4, <1>6, <1>7, RunnerMoves DEF QueueInv
(* The write of PROCESSING fails.                                           *)
LEMMA MarkFailsPreserves ==
  ASSUME QueueInv, NEW r \in Runners, markFails(r) PROVE QueueInv'
<1>1. PICK id \in DOMAIN run[r].rows :
        IF r = Cron
          THEN itemDone(r, NoRows)
          ELSE /\ run' = [run EXCEPT ![r].current = id, ![r].answered = TRUE,
                                    ![r].rows[id] = failedRow(@)]
               /\ UNCHANGED isProcessingQueue
  BY DEF markFails
<1>2. /\ run[r].current = 0 /\ faults < MaxFaults /\ faults' = faults + 1
      /\ UNCHANGED <<queue, client, minted>>
  BY DEF markFails
<1>3. ProcessingIsInHand' /\ faults' \in 0 .. MaxFaults
  BY <1>2, FaultsExcuse DEF QueueInv
<1>4. TableOK(queue', minted') /\ queue' = queue
  BY <1>2 DEF QueueInv
<1>5. CASE r = Cron
  <2>1. NoRows \in Snapshots /\ DOMAIN NoRows = {}
    BY SnapshotsAre DEF NoRows
  <2> QED BY <1>1, <1>2, <1>3, <1>4, <1>5, <2>1, ItemDone
<1>6. CASE r # Cron
  <2> DEFINE row == failedRow(run[r].rows[id])
             x == run'[r]
  <2>1. /\ run[r].rows[id] \in Row /\ run[r].rows[id].retryCount < MaxRetries
        /\ ~run[r].answered /\ id \in Ids
    BY <1>2, Held DEF RunOK
  <2>2. row \in Row /\ ((row.status = "pending" /\ row.retryCount < MaxRetries) \/ row.status = "failed")
    BY <2>1, FailedRows
  <2>3. run' = [run EXCEPT ![r].current = id, ![r].answered = TRUE, ![r].rows[id] = row]
    BY <1>1, <1>6
  <2> HIDE DEF row
  <2>4. [run[r].rows EXCEPT ![id] = row] \in Snapshots
    BY <2>2, Held, HeldUpdated
  <2>5. /\ run' = [run EXCEPT ![r] = x] /\ x \in RunType
        /\ x.rows = [run[r].rows EXCEPT ![id] = row] /\ x.current = id /\ x.answered = TRUE
    BY <2>1, <2>3, <2>4, Held DEF QueueInv, RunType
  <2>6. \A s \in Runners \ {r} : run'[s] = run[s]
    BY <2>5 DEF QueueInv
  <2> HIDE DEF x
  <2>7. RunOK(x, queue', minted')
    BY <1>2, <2>2, <2>5, Held, HeldOK
  <2>8. FlagTellsTheRun' /\ isProcessingQueue' \in BOOLEAN
    BY <1>1, <1>6, <2>6 DEF FlagTellsTheRun, QueueInv, Runners
  <2> QED BY <1>2, <1>3, <1>4, <2>5, <2>7, <2>8, RunnerMoves DEF QueueInv
<1> QED BY <1>5, <1>6

(* An attempt is over: the runner holds its outcome.                        *)
LEMMA Answered ==
  ASSUME QueueInv, NEW r \in Runners, run[r].current # 0, NEW row \in Row,
         row.status # "processing",
         row.status # "failed" => row.retryCount < MaxRetries,
         row.status = "completed" => minted'[run[r].current] > 0,
         NEW x, x \in RunType,
         x.rows = [run[r].rows EXCEPT ![run[r].current] = row],
         x.current = run[r].current, x.answered = TRUE,
         run' = [run EXCEPT ![r] = x],
         minted' \in [Ids -> 0 .. 2], \A i \in Ids : minted[i] > 0 => minted'[i] > 0,
         queue' = queue, isProcessingQueue' = isProcessingQueue, client' = client,
         faults' \in 0 .. MaxFaults, ProcessingIsInHand'
  PROVE  QueueInv'
<1> DEFINE id == run[r].current
<1>1. id \in DOMAIN run[r].rows
  BY Held DEF RunOK
<1>2. DOMAIN x.rows = DOMAIN run[r].rows
  BY <1>1, Held, HeldUpdated
<1>3. run'[r] = x /\ \A s \in Runners \ {r} : run'[s] = run[s]
  BY DEF QueueInv
<1>4. TableOK(queue', minted')
  <2>1. DOMAIN queue \subseteq Ids
    BY Held
  <2> QED BY <2>1 DEF TableOK, QueueInv
<1>5. \A i \in DOMAIN run[r].rows : minted[i] > 0 => minted'[i] > 0
  BY Held
<1>6. RunOK(x, queue', minted')
  BY <1>1, <1>5, Held, HeldOK
<1>7. FlagTellsTheRun'
  <2>1. DOMAIN run'[Cron].rows = DOMAIN run[Cron].rows
    BY <1>2, <1>3 DEF Runners
  <2> QED BY <2>1 DEF FlagTellsTheRun, QueueInv
<1> QED BY <1>4, <1>6, <1>7, RunnerMoves DEF QueueInv

(* A transaction is mined once more.                                        *)
LEMMA Counted ==
  ASSUME minted \in [Ids -> 0 .. 2], NEW id \in Ids, countMint(id)
  PROVE  /\ minted' \in [Ids -> 0 .. 2] /\ minted'[id] > 0
         /\ \A i \in Ids : minted[i] > 0 => minted'[i] > 0
<1>1. \A i \in Ids : minted'[i] = IF i = id THEN (IF minted[id] < 2 THEN minted[id] + 1 ELSE minted[id])
                                           ELSE minted[i]
  BY DEF countMint
<1>2. \A i \in Ids : minted[i] \in 0 .. 2
  OBVIOUS
<1>3. DOMAIN minted' = Ids /\ minted' = [i \in Ids |-> minted'[i]]
  BY DEF countMint
<1> QED BY <1>1, <1>2, <1>3

LEMMA Working ==
  ASSUME QueueInv, NEW r \in Runners, working(r)
  PROVE  /\ run[r].current # 0 /\ run[r].current \in DOMAIN run[r].rows
         /\ run[r].current \in Ids
         /\ run[r].rows[run[r].current] \in Row
         /\ run[r].rows[run[r].current].retryCount < MaxRetries
<1>1. run[r].current # 0 /\ ~run[r].answered /\ run[r].current \in DOMAIN run[r].rows
  BY Held DEF working, RunOK
<1> QED BY <1>1, Held DEF RunOK

LEMMA MintSucceedsPreserves ==
  ASSUME QueueInv, NEW r \in Runners, mintSucceeds(r) PROVE QueueInv'
<1> DEFINE id == run[r].current
           row == [run[r].rows[id] EXCEPT !.status = "completed"]
           x == run'[r]
<1>1. /\ id # 0 /\ id \in DOMAIN run[r].rows /\ id \in Ids
      /\ run[r].rows[id] \in Row /\ run[r].rows[id].retryCount < MaxRetries
  BY Working DEF mintSucceeds
<1>2. row \in Row /\ row.status = "completed" /\ row.retryCount < MaxRetries
  BY <1>1 DEF Row, Statuses
<1>3. /\ run' = [run EXCEPT ![r].answered = TRUE, ![r].rows[id] = row]
      /\ countMint(id) /\ UNCHANGED <<queue, isProcessingQueue, client, faults>>
  BY DEF mintSucceeds
<1> HIDE DEF row
<1>4. [run[r].rows EXCEPT ![id] = row] \in Snapshots
  BY <1>1, <1>2, Held, HeldUpdated
<1>5. /\ run' = [run EXCEPT ![r] = x] /\ x \in RunType
      /\ x.rows = [run[r].rows EXCEPT ![id] = row] /\ x.current = id /\ x.answered = TRUE
  BY <1>1, <1>3, <1>4, Held DEF QueueInv, RunType
<1> HIDE DEF x
<1>6. /\ minted' \in [Ids -> 0 .. 2] /\ minted'[id] > 0
      /\ \A i \in Ids : minted[i] > 0 => minted'[i] > 0
  BY <1>1, <1>3, Counted DEF QueueInv
<1>7. /\ queue' = queue /\ isProcessingQueue' = isProcessingQueue /\ client' = client
      /\ faults' = faults
  BY <1>3
<1>8. /\ row.status # "processing" /\ (row.status # "failed" => row.retryCount < MaxRetries)
      /\ row.status = "completed" => minted'[id] > 0
  BY <1>2, <1>6
<1>9. faults' \in 0 .. MaxFaults /\ ProcessingIsInHand'
  <2>1. \A s \in Runners : run'[s].current = run[s].current
    BY <1>5 DEF QueueInv
  <2> QED BY <1>7, <2>1, InHandKept DEF QueueInv
<1> HIDE DEF id
<1> QED BY <1>1, <1>2, <1>5, <1>6, <1>7, <1>8, <1>9, Answered DEF id

LEMMA MintFailsPreserves ==
  ASSUME QueueInv, NEW r \in Runners, mintFails(r) PROVE QueueInv'
<1> DEFINE id == run[r].current
           row == failedRow(run[r].rows[id])
           x == run'[r]
<1>1. /\ id # 0 /\ id \in DOMAIN run[r].rows /\ id \in Ids
      /\ run[r].rows[id] \in Row /\ run[r].rows[id].retryCount < MaxRetries
  BY Working DEF mintFails
<1>2. row \in Row /\ ((row.status = "pending" /\ row.retryCount < MaxRetries) \/ row.status = "failed")
  BY <1>1, FailedRows
<1>3. /\ run' = [run EXCEPT ![r].answered = TRUE, ![r].rows[id] = row]
      /\ UNCHANGED minted \/ countMint(id)
      /\ UNCHANGED <<queue, isProcessingQueue, client, faults>>
  BY DEF mintFails
<1> HIDE DEF row
<1>4. [run[r].rows EXCEPT ![id] = row] \in Snapshots
  BY <1>1, <1>2, Held, HeldUpdated
<1>5. /\ run' = [run EXCEPT ![r] = x] /\ x \in RunType
      /\ x.rows = [run[r].rows EXCEPT ![id] = row] /\ x.current = id /\ x.answered = TRUE
  BY <1>1, <1>3, <1>4, Held DEF QueueInv, RunType
<1> HIDE DEF x
<1>6. minted' \in [Ids -> 0 .. 2] /\ \A i \in Ids : minted[i] > 0 => minted'[i] > 0
  BY <1>1, <1>3, Counted DEF QueueInv
<1>7. /\ queue' = queue /\ isProcessingQueue' = isProcessingQueue /\ client' = client
      /\ faults' = faults
  BY <1>3
<1>8. /\ row.status # "processing" /\ (row.status # "failed" => row.retryCount < MaxRetries)
      /\ row.status = "completed" => minted'[id] > 0
  BY <1>2, <1>6
<1>9. faults' \in 0 .. MaxFaults /\ ProcessingIsInHand'
  <2>1. \A s \in Runners : run'[s].current = run[s].current
    BY <1>5 DEF QueueInv
  <2> QED BY <1>7, <2>1, InHandKept DEF QueueInv
<1> HIDE DEF id
<1> QED BY <1>1, <1>2, <1>5, <1>6, <1>7, <1>8, <1>9, Answered DEF id

LEMMA SaveOutcomePreserves ==
  ASSUME QueueInv, NEW r \in Runners, saveOutcome(r) PROVE QueueInv'
<1> DEFINE id == run[r].current
           row == run[r].rows[id]
           rest == without(run[r].rows, id)
<1>1. /\ run[r].answered /\ queue' = [queue EXCEPT ![id] = row] /\ itemDone(r, rest)
      /\ UNCHANGED <<client, minted, faults>>
  BY DEF saveOutcome
<1>2. id # 0 /\ id \in DOMAIN run[r].rows /\ row.status # "processing"
  BY <1>1, Held DEF RunOK
<1>3. /\ row \in Row /\ id \in DOMAIN queue
      /\ row.status = "pending" => row.retryCount < MaxRetries
      /\ row.status = "completed" => minted[id] > 0
  BY <1>2, Held DEF RunOK
<1>4. /\ rest \in Snapshots /\ DOMAIN rest = DOMAIN run[r].rows \ {id}
      /\ \A j \in DOMAIN rest : rest[j] = run[r].rows[j]
  BY Held, HeldWithout
<1>5. /\ TableOK(queue', minted) /\ DOMAIN queue' = DOMAIN queue
      /\ \A j \in DOMAIN queue : queue'[j] = IF j = id THEN row ELSE queue[j]
  BY <1>1, <1>3, RowWritten DEF QueueInv
<1>6. \A s \in Runners \ {r} : run'[s] = run[s]
  BY <1>1 DEF itemDone, QueueInv
<1>7. ProcessingIsInHand'
  <2> SUFFICES ASSUME faults = 0, NEW i \in DOMAIN queue, queue'[i].status = "processing"
               PROVE  \E s \in Runners : run'[s].current = i
    BY <1>1, <1>5 DEF ProcessingIsInHand
  <2>1. i # id /\ queue[i].status = "processing"
    BY <1>2, <1>5
  <2>2. PICK s \in Runners : run[s].current = i
    BY <2>1 DEF QueueInv, ProcessingIsInHand
  <2> QED BY <2>1, <2>2, <1>6
<1> HIDE DEF rest
<1> QED BY <1>1, <1>2, <1>4, <1>5, <1>7, ItemDone DEF QueueInv

LEMMA SaveFailsPreserves ==
  ASSUME QueueInv, NEW r \in Runners, saveFails(r) PROVE QueueInv'
<1> DEFINE id == run[r].current
           x == run'[r]
<1>1. /\ run[r].answered /\ faults < MaxFaults /\ faults' = faults + 1
      /\ UNCHANGED <<queue, client, minted>>
  BY DEF saveFails
<1>2. id # 0 /\ id \in DOMAIN run[r].rows /\ id \in Ids /\ run[r].rows[id] \in Row
  BY <1>1, Held DEF RunOK
<1>3. ProcessingIsInHand' /\ faults' \in 0 .. MaxFaults
  BY <1>1, FaultsExcuse DEF QueueInv
<1>4. CASE /\ run[r].rows[id].status = "completed"
           /\ run' = [run EXCEPT ![r].rows[id] = failedRow(@)]
           /\ UNCHANGED isProcessingQueue
  <2> DEFINE row == failedRow(run[r].rows[id])
  <2>1. run[r].rows[id].retryCount < MaxRetries
    BY <1>2, <1>4, Held DEF RunOK
  <2>2. row \in Row /\ ((row.status = "pending" /\ row.retryCount < MaxRetries) \/ row.status = "failed")
    BY <1>2, <2>1, FailedRows
  <2>3. run' = [run EXCEPT ![r].rows[id] = row]
    BY <1>4
  <2> HIDE DEF row
  <2>4. [run[r].rows EXCEPT ![id] = row] \in Snapshots
    BY <1>2, <2>2, Held, HeldUpdated
  <2>5. /\ run' = [run EXCEPT ![r] = x] /\ x \in RunType
        /\ x.rows = [run[r].rows EXCEPT ![id] = row] /\ x.current = id
        /\ x.answered = run[r].answered
    BY <1>2, <2>3, <2>4, Held DEF QueueInv, RunType
  <2>6. x.answered = TRUE
    BY <1>1, <2>5 DEF RunType
  <2> HIDE DEF x
  <2>7. minted' \in [Ids -> 0 .. 2] /\ \A i \in Ids : minted[i] > 0 => minted'[i] > 0
    BY <1>1 DEF QueueInv
  <2>8. queue' = queue /\ isProcessingQueue' = isProcessingQueue /\ client' = client
    BY <1>1, <1>4
  <2>9. /\ row.status # "processing" /\ (row.status # "failed" => row.retryCount < MaxRetries)
        /\ row.status = "completed" => minted'[id] > 0
    BY <2>2
  <2> QED BY <1>2, <1>3, <2>2, <2>5, <2>6, <2>7, <2>8, <2>9, Answered
<1>5. CASE itemDone(r, NoRows)
  <2>1. NoRows \in Snapshots /\ DOMAIN NoRows = {}
    BY SnapshotsAre DEF NoRows
  <2>2. TableOK(queue', minted) /\ DOMAIN queue \subseteq DOMAIN queue'
    BY <1>1 DEF QueueInv
  <2> QED BY <1>1, <1>2, <1>3, <1>5, <2>1, <2>2, ItemDone
<1> QED BY <1>4, <1>5 DEF saveFails

LEMMA CrashPreserves == ASSUME QueueInv, crash PROVE QueueInv'
<1>1. /\ faults < MaxFaults /\ faults' = faults + 1 /\ isProcessingQueue' = FALSE
      /\ client' = [c \in Clients |-> NoCall] /\ run' = [r \in Runners |-> NoRun]
      /\ UNCHANGED <<queue, minted>>
  BY DEF crash
<1>2. ProcessingIsInHand' /\ faults' \in 0 .. MaxFaults
  BY <1>1, FaultsExcuse DEF QueueInv
<1>3. \A r \in Runners : RunOK(run'[r], queue', minted')
  BY <1>1, NoRunIsOK
<1>4. FlagTellsTheRun'
  BY <1>1 DEF FlagTellsTheRun, Runners, NoRun, NoRows
<1>5. client' = [c \in Clients |-> client'[c]] /\ \A c \in Clients : ClientOK(client'[c], queue')
  BY <1>1 DEF ClientOK
<1>6. run' = [r \in Runners |-> run'[r]]
  BY <1>1
<1> QED BY <1>1, <1>2, <1>3, <1>4, <1>5, <1>6 DEF QueueInv

-----------------------------------------------------------------------------
(* The theorems.                                                            *)
LEMMA QueueInvStep == QueueInv /\ [QueueNext]_qvars => QueueInv'
<1> SUFFICES ASSUME QueueInv, [QueueNext]_qvars PROVE QueueInv'
  OBVIOUS
<1>1. CASE ClientNext
  <2>1. CASE \E c \in Clients, w \in Wallets, type \in Checked : queueMinting(c, w, type)
    BY <2>1, QueueMintingPreserves
  <2>2. CASE \E w \in Wallets, type \in Unchecked : \E priority \in {0, priorityOf(type)} :
               queueUnchecked(w, type, priority)
    BY <2>2, UncheckedPreserves
  <2>3. CASE \E c \in Clients : \E id \in DOMAIN queue : cancelMintingRequest(c, id)
    BY <2>3, CancelPreserves
  <2>4. CASE \E c \in Clients : clientSave(c) \/ clientFails(c)
    BY <2>4, ClientSavePreserves, ClientFailsPreserves
  <2> QED BY <1>1, <2>1, <2>2, <2>3, <2>4 DEF ClientNext
<1>2. CASE processQueue
  BY <1>2, ProcessQueuePreserves
<1>3. CASE \E r \in Manual : processPendingItems(r)
  BY <1>3, ProcessPendingItemsPreserves
<1>4. CASE \E r \in Runners : RunnerStep(r) \/ markFails(r) \/ saveFails(r)
  <2>1. PICK r \in Runners : RunnerStep(r) \/ markFails(r) \/ saveFails(r)
    BY <1>4
  <2>2. CASE markProcessing(r)
    BY <2>2, MarkProcessingPreserves
  <2>3. CASE mintSucceeds(r)
    BY <2>3, MintSucceedsPreserves
  <2>4. CASE mintFails(r)
    BY <2>4, MintFailsPreserves
  <2>5. CASE saveOutcome(r)
    BY <2>5, SaveOutcomePreserves
  <2>6. CASE markFails(r)
    BY <2>6, MarkFailsPreserves
  <2>7. CASE saveFails(r)
    BY <2>7, SaveFailsPreserves
  <2> QED BY <2>1, <2>2, <2>3, <2>4, <2>5, <2>6, <2>7 DEF RunnerStep
<1>5. CASE \E id \in DOMAIN queue : retryDue(id)
  BY <1>5, RetryDuePreserves
<1>6. CASE crash
  BY <1>6, CrashPreserves
<1>7. CASE UNCHANGED qvars
  <2>1. /\ queue' = queue /\ isProcessingQueue' = isProcessingQueue /\ client' = client
        /\ run' = run /\ minted' = minted /\ faults' = faults
    BY <1>7 DEF qvars
  <2>2. FlagTellsTheRun' /\ ProcessingIsInHand'
    BY <2>1 DEF QueueInv, FlagTellsTheRun, ProcessingIsInHand
  <2> QED BY <2>1, <2>2 DEF QueueInv
<1> QED BY <1>1, <1>2, <1>3, <1>4, <1>5, <1>6, <1>7 DEF QueueNext, QueueStep

LEMMA QueueInvHolds == QueueSpec => []QueueInv
<1> QED BY QueueInvInit, QueueInvStep, PTL DEF QueueSpec

LEMMA QueueInvTypes == QueueInv => QueueTypeOK
<1> SUFFICES ASSUME QueueInv PROVE QueueTypeOK
  OBVIOUS
<1>1. client \in [Clients -> {NoCall} \cup [id : {0} \cup DOMAIN queue, row : Row]]
  BY DEF QueueInv, ClientOK
<1>2. run \in [Runners -> [rows : Snapshots, current : {0} \cup Ids, answered : BOOLEAN]]
  BY DEF QueueInv, RunOK, RunType
<1>3. \A r \in Runners :
        /\ DOMAIN run[r].rows \subseteq DOMAIN queue
        /\ run[r].current # 0 => run[r].current \in DOMAIN run[r].rows
        /\ run[r].answered => run[r].current # 0
  BY DEF QueueInv, RunOK
<1> QED BY <1>1, <1>2, <1>3 DEF QueueInv, QueueTypeOK, TableOK

(* A request that waits for another attempt has one left, and everything is  *)
(* of its type, whatever snapshots are written over the table.               *)
THEOREM QueueTypes == QueueSpec => []QueueTypeOK
<1> QED BY QueueInvHolds, QueueInvTypes, PTL

(* COMPLETED is only read from a request whose transaction was mined.        *)
THEOREM CompletedRequestsWereMinted == QueueSpec => []CompletedWasMinted
<1>1. QueueInv => CompletedWasMinted
  BY DEF QueueInv, TableOK, CompletedWasMinted
<1> QED BY <1>1, QueueInvHolds, PTL

(* isProcessingQueue is up exactly while cron's run has an item to process.  *)
THEOREM FlagAlwaysTellsTheRun == QueueSpec => []FlagTellsTheRun
<1>1. QueueInv => FlagTellsTheRun
  BY DEF QueueInv
<1> QED BY <1>1, QueueInvHolds, PTL

(* Without a fault a runner has every request in hand that is PROCESSING.    *)
THEOREM ProcessingAlwaysInHand == QueueSpec => []ProcessingIsInHand
<1>1. QueueInv => ProcessingIsInHand
  BY DEF QueueInv
<1> QED BY <1>1, QueueInvHolds, PTL

-----------------------------------------------------------------------------
(* Batches of MintingService on the same table.  They decide requests only   *)
(* as cancelled or failed.                                                   *)
IsBatch(x) == x = [taken |-> x.taken, type |-> x.type, stage |-> x.stage, todo |-> x.todo, held |-> x.held]

BatchHolds(h, q) ==
  h = NoCall \/ h \in [id : DOMAIN q, row : {row \in Row : row.status \in {"cancelled", "failed"}}]

BatchOK(x, q) ==
  /\ IsBatch(x) /\ x.taken \subseteq DOMAIN q /\ x.todo \subseteq x.taken
  /\ BatchHolds(x.held, q)

BatchesInv ==
  /\ QueueInv
  /\ batch = [b \in Batchers |-> batch[b]]
  /\ \A b \in Batchers : BatchOK(batch[b], queue)

LEMMA IdleIsOK == \A q : BatchOK(Idle, q)
  BY DEF BatchOK, IsBatch, BatchHolds, Idle

\* The table grows, and no batch holds less for it.
LEMMA BatchKeeps ==
  ASSUME NEW x, NEW q, NEW q2, BatchOK(x, q), DOMAIN q \subseteq DOMAIN q2
  PROVE  BatchOK(x, q2)
<1>1. BatchHolds(x.held, q2)
  BY DEF BatchOK, BatchHolds
<1> QED BY <1>1 DEF BatchOK

LEMMA TableInIds == QueueInv => DOMAIN queue \subseteq Ids
<1> SUFFICES ASSUME QueueInv PROVE DOMAIN queue \subseteq Ids
  OBVIOUS
<1>1. queue \in Seq(Row) /\ Len(queue) <= MaxRequests /\ MaxRequests \in Nat
  BY QueueAssumption DEF QueueInv, TableOK
<1>2. DOMAIN queue = 1 .. Len(queue) /\ Len(queue) \in Nat
  BY <1>1
<1> QED BY <1>1, <1>2 DEF Ids

LEMMA InsertGrows ==
  ASSUME QueueInv, NEW row, insert(row) PROVE DOMAIN queue \subseteq DOMAIN queue'
<1>1. queue \in Seq(Row \cup {row}) /\ queue' = Append(queue, row)
  BY DEF QueueInv, TableOK, insert
<1> QED BY <1>1

\* A step of the queue, as far as a batch depends on it.
LEMMA QueueStepGrows == ASSUME QueueInv, QueueStep PROVE DOMAIN queue \subseteq DOMAIN queue'
<1>1. CASE ClientNext
  <2>1. CASE UNCHANGED queue
    BY <2>1
  <2>2. CASE \E row : insert(row)
    BY <2>2, InsertGrows
  <2>3. CASE \E i, row : queue' = [queue EXCEPT ![i] = row]
    BY <2>3
  <2> QED BY <1>1, <2>1, <2>2, <2>3 DEF ClientNext, queueMinting, queueUnchecked, cancelMintingRequest,
        clientSave, clientFails
<1>2. CASE processQueue \/ (\E r \in Manual : processPendingItems(r))
  BY <1>2 DEF processQueue, processPendingItems, start
<1>3. ASSUME NEW r \in Runners,
             \/ markProcessing(r) \/ saveOutcome(r) \/ markFails(r) \/ saveFails(r)
             \/ mintSucceeds(r) \/ mintFails(r)
      PROVE  DOMAIN queue \subseteq DOMAIN queue'
  BY <1>3 DEF markProcessing, saveOutcome, markFails, saveFails, mintSucceeds, mintFails
<1>4. ASSUME NEW id \in DOMAIN queue, retryDue(id) PROVE DOMAIN queue \subseteq DOMAIN queue'
  BY <1>4 DEF retryDue
<1> QED BY <1>1, <1>2, <1>3, <1>4 DEF QueueStep, RunnerStep

\* An execution goes on, and the table loses nothing.
LEMMA ExecutionPreserves ==
  ASSUME BatchesInv, NEW b \in Batchers, NEW x, QueueInv', batch' = [batch EXCEPT ![b] = x],
         DOMAIN queue \subseteq DOMAIN queue', BatchOK(x, queue')
  PROVE  BatchesInv'
<1>1. \A d \in Batchers : batch'[d] = IF d = b THEN x ELSE batch[d]
  BY DEF BatchesInv
<1>2. \A d \in Batchers : BatchOK(batch[d], queue')
  BY BatchKeeps DEF BatchesInv
<1>3. batch' = [d \in Batchers |-> batch'[d]]
  BY DEF BatchesInv
<1> QED BY <1>1, <1>2, <1>3 DEF BatchesInv

LEMMA QueueUnchanged == ASSUME QueueInv, UNCHANGED qvars PROVE QueueInv'
  BY QueueInvStep

LEMMA GroupTaken ==
  ASSUME BatchesInv, NEW b \in Batchers
  PROVE  /\ BatchOK(batch[b], queue) /\ group(b) \subseteq batch[b].taken
         /\ batch[b].taken \subseteq Ids /\ BatchOK(failed(b), queue) /\ failed(b).stage = "failing"
<1>1. BatchOK(batch[b], queue) /\ batch[b].taken \subseteq Ids
  BY TableInIds DEF BatchesInv, BatchOK
<1>2. PICK x : x = batch[b]
  OBVIOUS
<1>3. failed(b) = [x EXCEPT !.stage = "failing", !.todo = x.taken, !.held = NoCall]
  BY <1>2 DEF failed
<1>4. failed(b) = [taken |-> x.taken, type |-> x.type, stage |-> "failing", todo |-> x.taken, held |-> NoCall]
  <2>1. IsBatch(x)
    BY <1>1, <1>2 DEF BatchOK
  <2> QED BY ONLY <1>3, <2>1 DEF IsBatch
<1> QED BY <1>1, <1>2, <1>4 DEF BatchOK, IsBatch, BatchHolds, group

LEMMA ProcessBatchPreserves ==
  ASSUME BatchesInv, NEW b \in Batchers, processBatchMint(b) PROVE BatchesInv'
<1>1. PICK x : x = [Idle EXCEPT !.taken = getNextBatch, !.stage = "minting"]
  OBVIOUS
<1>2. x = [taken |-> getNextBatch, type |-> "first-time", stage |-> "minting", todo |-> {}, held |-> NoCall]
  BY ONLY <1>1 DEF Idle
<1>3. getNextBatch \subseteq DOMAIN queue
  BY DEF getNextBatch, firstRows, pendingRows
<1>4. BatchOK(x, queue)
  BY <1>2, <1>3 DEF BatchOK, IsBatch, BatchHolds
<1>5. batch' = [batch EXCEPT ![b] = x] /\ UNCHANGED qvars
  BY <1>1 DEF processBatchMint
<1> QED BY <1>4, <1>5, QueueUnchanged, ExecutionPreserves DEF BatchesInv, qvars

\* The transaction of a group, mined or not.
LEMMA MintGroupPreserves ==
  ASSUME BatchesInv, NEW b \in Batchers, mintGroup(b) PROVE BatchesInv'
<1>1. minted \in [Ids -> 0 .. 2] /\ group(b) \subseteq Ids
  BY GroupTaken DEF BatchesInv, QueueInv
<1>2. /\ UNCHANGED <<queue, isProcessingQueue, client, run, faults>>
      /\ \/ minted' = [id \in Ids |-> IF id \in group(b) /\ minted[id] < 2
                                        THEN minted[id] + 1 ELSE minted[id]]
         \/ batch'[b].stage = "failing" /\ minted' = minted
  BY DEF mintGroup
<1>3. minted' \in [Ids -> 0 .. 2] /\ \A id \in Ids : minted[id] > 0 => minted'[id] > 0
  BY <1>1, <1>2
<1>4. QueueInv'
  <2>1. TableOK(queue, minted')
    BY <1>3, TableInIds DEF BatchesInv, QueueInv, TableOK
  <2>2. \A r \in Runners : RunOK(run[r], queue, minted')
    BY <1>3, RunKeeps, TableInIds DEF BatchesInv, QueueInv, RunOK
  <2> QED BY <1>2, <1>3, <2>1, <2>2 DEF BatchesInv, QueueInv, FlagTellsTheRun, ProcessingIsInHand
<1>5. CASE batch' = [batch EXCEPT ![b] = failed(b)]
  <2>1. BatchOK(failed(b), queue')
    BY <1>2, GroupTaken
  <2> QED BY <1>2, <1>4, <1>5, <2>1, ExecutionPreserves
<1>6. CASE batch' = [batch EXCEPT ![b].stage = "removing", ![b].todo = group(b)]
  <2>1. PICK x : x = [batch[b] EXCEPT !.stage = "removing", !.todo = group(b)]
    OBVIOUS
  <2>2. x = [taken |-> batch[b].taken, type |-> batch[b].type, stage |-> "removing", todo |-> group(b),
             held |-> batch[b].held]
    <3>1. PICK y, g : y = batch[b] /\ g = group(b)
      OBVIOUS
    <3>2. IsBatch(y) /\ x = [y EXCEPT !.stage = "removing", !.todo = g]
      BY <2>1, <3>1, GroupTaken DEF BatchOK
    <3>3. x = [taken |-> y.taken, type |-> y.type, stage |-> "removing", todo |-> g, held |-> y.held]
      BY ONLY <3>2 DEF IsBatch
    <3> QED BY <3>1, <3>3
  <2>3. batch' = [batch EXCEPT ![b] = x]
    BY <1>6, <2>1 DEF BatchesInv
  <2>4. BatchOK(x, queue')
    BY <1>2, <2>2, GroupTaken DEF BatchOK, IsBatch, BatchHolds
  <2> QED BY <1>2, <1>4, <2>3, <2>4, ExecutionPreserves
<1> QED BY <1>5, <1>6 DEF mintGroup

\* The next group, or nothing more to do: whatever was to be removed is gone.
LEMMA NextGroupPreserves ==
  ASSUME BatchesInv, NEW b \in Batchers, nextGroup(b) PROVE BatchesInv'
<1>1. PICK y : y = batch[b]
  OBVIOUS
<1>2. BatchOK(y, queue)
  BY <1>1 DEF BatchesInv
<1>3. PICK x : x = IF y.type = "first-time" THEN [y EXCEPT !.type = "annual", !.stage = "minting"] ELSE Idle
  OBVIOUS
<1>4. batch' = [batch EXCEPT ![b] = x] /\ UNCHANGED qvars
  BY <1>1, <1>3 DEF nextGroup
<1>5. BatchOK(x, queue)
  <2>1. CASE y.type = "first-time"
    <3>1. x = [taken |-> y.taken, type |-> "annual", stage |-> "minting", todo |-> y.todo, held |-> y.held]
      <4>1. IsBatch(y) /\ x = [y EXCEPT !.type = "annual", !.stage = "minting"]
        BY <1>2, <1>3, <2>1 DEF BatchOK
      <4> QED BY ONLY <4>1 DEF IsBatch
    <3> QED BY <1>2, <3>1 DEF BatchOK, IsBatch, BatchHolds
  <2>2. CASE y.type # "first-time"
    BY <1>3, <2>2, IdleIsOK
  <2> QED BY <2>1, <2>2
<1> QED BY <1>4, <1>5, QueueUnchanged, ExecutionPreserves DEF BatchesInv, qvars

\* A batch reads a row that it is about to write as cancelled or failed.
LEMMA HoldsPreserves ==
  ASSUME BatchesInv, NEW b \in Batchers, NEW id \in batch[b].taken, NEW s \in {"cancelled", "failed"},
         batch' = [batch EXCEPT ![b].held = Save(id, [queue[id] EXCEPT !.status = s])], UNCHANGED qvars
  PROVE  BatchesInv'
<1>1. PICK y : y = batch[b]
  OBVIOUS
<1>2. BatchOK(y, queue) /\ id \in DOMAIN queue
  BY <1>1 DEF BatchesInv, BatchOK
<1>3. PICK row : row = [queue[id] EXCEPT !.status = s]
  OBVIOUS
<1>4. row \in Row /\ row.status = s
  <2>1. queue[id] \in Row
    BY <1>2 DEF BatchesInv, QueueInv, TableOK
  <2> QED BY <1>3, <2>1 DEF Row, Statuses
<1>5. PICK x, h : h = Save(id, row) /\ x = [y EXCEPT !.held = h]
  OBVIOUS
<1>6. batch' = [batch EXCEPT ![b] = x]
  BY <1>1, <1>3, <1>5
<1>7. x = [taken |-> y.taken, type |-> y.type, stage |-> y.stage, todo |-> y.todo, held |-> h]
  <2>1. IsBatch(y)
    BY <1>2 DEF BatchOK
  <2> QED BY ONLY <1>5, <2>1 DEF IsBatch
<1>8. BatchHolds(h, queue)
  BY <1>2, <1>4, <1>5 DEF BatchHolds, Save
<1>9. BatchOK(x, queue)
  BY <1>2, <1>7, <1>8 DEF BatchOK, IsBatch
<1> QED BY <1>6, <1>9, QueueUnchanged, ExecutionPreserves DEF BatchesInv, qvars

LEMMA RemovePreserves ==
  ASSUME BatchesInv, NEW b \in Batchers, NEW id \in batch[b].taken,
         removeFromQueue(b, id) \/ markMintAsFailed(b, id)
  PROVE  BatchesInv'
<1>1. UNCHANGED qvars
  BY DEF removeFromQueue, markMintAsFailed
<1>2. CASE batch' = [batch EXCEPT ![b] = failed(b)]
  BY <1>1, <1>2, GroupTaken, QueueUnchanged, ExecutionPreserves DEF BatchesInv, qvars
<1>3. CASE \E s \in {"cancelled", "failed"} :
             batch' = [batch EXCEPT ![b].held = Save(id, [queue[id] EXCEPT !.status = s])]
  BY <1>1, <1>3, HoldsPreserves
<1> QED BY <1>2, <1>3 DEF removeFromQueue, markMintAsFailed

LEMMA BatchSavePreserves ==
  ASSUME BatchesInv, NEW b \in Batchers, batchSave(b) PROVE BatchesInv'
<1>1. PICK y, h : y = batch[b] /\ h = y.held
  OBVIOUS
<1>2. BatchOK(y, queue)
  BY <1>1 DEF BatchesInv
<1>3. h.id \in DOMAIN queue /\ h.row \in Row /\ h.row.status \in {"cancelled", "failed"}
  BY <1>1, <1>2 DEF batchSave, BatchOK, BatchHolds
<1>4. /\ queue' = [queue EXCEPT ![h.id] = h.row]
      /\ UNCHANGED <<isProcessingQueue, client, run, minted, faults>>
  BY <1>1 DEF batchSave
<1>5. /\ TableOK(queue', minted) /\ DOMAIN queue' = DOMAIN queue
      /\ \A j \in DOMAIN queue : queue'[j] = IF j = h.id THEN h.row ELSE queue[j]
  BY <1>3, <1>4, RowWritten DEF BatchesInv, QueueInv
<1>6. QueueInv'
  BY <1>3, <1>4, <1>5, TableChanges DEF BatchesInv
<1>7. PICK x, todo : todo = y.todo \ {h.id} /\ x = [y EXCEPT !.held = NoCall, !.todo = todo]
  OBVIOUS
<1>8. batch' = [batch EXCEPT ![b] = x]
  BY <1>1, <1>7 DEF batchSave
<1>9. x = [taken |-> y.taken, type |-> y.type, stage |-> y.stage, todo |-> todo, held |-> NoCall]
  <2>1. IsBatch(y)
    BY <1>2 DEF BatchOK
  <2> QED BY ONLY <1>7, <2>1 DEF IsBatch
<1>10. BatchOK(x, queue')
  <2>1. /\ x.taken = y.taken /\ x.stage = y.stage /\ x.todo \subseteq y.todo /\ x.held = NoCall
        /\ IsBatch(x)
    BY ONLY <1>7, <1>9 DEF IsBatch
  <2> QED BY <1>2, <1>4, <1>5, <2>1 DEF BatchOK, BatchHolds
<1> QED BY <1>4, <1>5, <1>6, <1>8, <1>10, ExecutionPreserves

LEMMA WriteFailsPreserves ==
  ASSUME BatchesInv, NEW b \in Batchers, writeFails(b) \/ batchFailed(b) PROVE BatchesInv'
<1>1. /\ UNCHANGED <<queue, isProcessingQueue, client, run, minted>>
      /\ \/ faults' = faults
         \/ faults < MaxFaults /\ faults' = faults + 1
  BY DEF writeFails, batchFailed, qvars
<1>2. ProcessingIsInHand' /\ faults' \in 0 .. MaxFaults
  BY <1>1, FaultsExcuse DEF BatchesInv, QueueInv, ProcessingIsInHand
<1>3. QueueInv'
  BY <1>1, <1>2 DEF BatchesInv, QueueInv, FlagTellsTheRun
<1>4. PICK x \in {failed(b), Idle} : batch' = [batch EXCEPT ![b] = x]
  BY DEF writeFails, batchFailed
<1>5. BatchOK(x, queue')
  BY <1>1, GroupTaken, IdleIsOK
<1> QED BY <1>1, <1>3, <1>4, <1>5, ExecutionPreserves

LEMMA BatchesStep == ASSUME BatchesInv, [MintingNext]_mvars PROVE BatchesInv'
<1>1. CASE QueueStep /\ UNCHANGED batch
  <2>1. QueueInv'
    BY <1>1, QueueInvStep DEF BatchesInv, QueueNext
  <2>2. \A b \in Batchers : BatchOK(batch[b], queue')
    BY <1>1, BatchKeeps, QueueStepGrows DEF BatchesInv
  <2> QED BY <1>1, <2>1, <2>2 DEF BatchesInv
<1>2. ASSUME NEW b \in Batchers, processBatchMint(b) \/ BatchStep(b) \/ writeFails(b) PROVE BatchesInv'
  BY <1>2, ProcessBatchPreserves, MintGroupPreserves, NextGroupPreserves, RemovePreserves,
    BatchSavePreserves, WriteFailsPreserves DEF BatchStep
<1>3. CASE crash /\ batch' = [b \in Batchers |-> Idle]
  BY <1>3, CrashPreserves, IdleIsOK DEF BatchesInv
<1>4. CASE UNCHANGED mvars
  <2>1. QueueInv'
    BY <1>4, QueueUnchanged DEF BatchesInv, mvars
  <2> QED BY <1>4, <2>1 DEF BatchesInv, mvars, qvars
<1> QED BY <1>1, <1>2, <1>3, <1>4 DEF MintingNext

LEMMA BatchesInvHolds == MintingSpec => []BatchesInv
<1>1. MintingInit => BatchesInv
  BY QueueInvInit, IdleIsOK DEF MintingInit, BatchesInv
<1> QED BY <1>1, BatchesStep, PTL DEF MintingSpec

(* Batches on its table take nothing from what the queue promises.           *)
THEOREM BatchesKeepTheQueue ==
  MintingSpec => [](QueueTypeOK /\ CompletedWasMinted /\ FlagTellsTheRun /\ ProcessingIsInHand)
<1>1. BatchesInv => QueueTypeOK /\ CompletedWasMinted /\ FlagTellsTheRun /\ ProcessingIsInHand
  BY QueueInvTypes DEF BatchesInv, QueueInv, TableOK, CompletedWasMinted
<1> QED BY <1>1, BatchesInvHolds, PTL
=============================================================================
