--------------------------- MODULE StakingService ---------------------------
(***************************************************************************)
(* Staking positions in the backend's database (blockchain/services/       *)
(* staking.service.ts).  A claim reads a position, reads it again for the  *)
(* rewards, stamps the first snapshot and saves it; a withdrawal saves its *)
(* own.  Requests and the automatic claims overlap at every await.  Time   *)
(* is counted in units of rewards: a claim adds the time since the last.   *)
(***************************************************************************)
EXTENDS Naturals

CONSTANTS
  Positions, Claims,   \* positions; requests and automatic claims in flight
  MaxTime,             \* bound of the clock
  lockTime             \* until then a withdrawal is an early one

ASSUME StakingAssumption == MaxTime \in Nat /\ lockTime \in Nat

VARIABLES
  today,               \* the clock
  positions,           \* table: position |-> row
  staked,              \* history: when each position was created
  overtaken,           \* history: where another write came before one on its way
  claims               \* what each request has in hand

stakingVars == <<today, positions, staked, overtaken, claims>>

NoRow == [status |-> "none", accumulatedRewards |-> 0, lastClaimTime |-> 0, autoClaimEnabled |-> FALSE]
NoClaim == [step |-> "idle", id |-> CHOOSE p \in Positions : TRUE, row |-> NoRow, since |-> 0]

StakingInit ==
  /\ today = 0
  /\ positions = [p \in Positions |-> NoRow] /\ staked = [p \in Positions |-> 0]
  /\ overtaken = {} /\ claims = [c \in Claims |-> NoClaim]

passes == today < MaxTime /\ today' = today + 1 /\ UNCHANGED <<positions, staked, overtaken, claims>>

\* Nobody reads the row before it is in the table.
createStakingPosition(p) ==
  /\ positions[p].status = "none"
  /\ \E auto \in BOOLEAN :
       positions' = [positions EXCEPT ![p] =
         [status |-> "active", accumulatedRewards |-> 0, lastClaimTime |-> today, autoClaimEnabled |-> auto]]
  /\ staked' = [staked EXCEPT ![p] = today]
  /\ UNCHANGED <<today, overtaken, claims>>

claimHolds(c, h) == claims' = [claims EXCEPT ![c] = h]

\* claimRewards and withdrawStakingPosition read the row; it must be active.
reads(c, p, step) ==
  /\ claims[c].step = "idle" /\ positions[p].status = "active"
  /\ claimHolds(c, [step |-> step, id |-> p, row |-> positions[p], since |-> 0])
  /\ UNCHANGED <<today, positions, staked, overtaken>>

claimRewards(c, p) == reads(c, p, "price")
withdrawStakingPosition(c, p) == reads(c, p, "withdraw")
\* processAutoClaimRewards, for one of the positions it has listed.
autoClaim(c, p) == /\ positions[p].autoClaimEnabled /\ positions[p].lastClaimTime < today
                   /\ reads(c, p, "price")

\* calculateRewards reads the row anew: a position closed meanwhile earns nothing.
calculateRewards(c) ==
  LET row == positions[claims[c].id]
  IN  /\ claims[c].step = "price"
      /\ claimHolds(c, IF row.status # "active" THEN NoClaim
                       ELSE [claims[c] EXCEPT !.step = "stamp", !.since = row.lastClaimTime])
      /\ UNCHANGED <<today, positions, staked, overtaken>>

claimed_FreshRow(c) ==
  [positions[claims[c].id] EXCEPT !.accumulatedRewards = @ + (today - claims[c].since),
                                  !.lastClaimTime = today]

\* The first snapshot, with the rewards up to now and the time of now.
claimed(c) ==
  [claims[c].row EXCEPT !.accumulatedRewards = @ + (today - claims[c].since),
                        !.lastClaimTime = today]

stampClaim(c) ==
  /\ claims[c].step = "stamp"
  /\ claimHolds(c, IF today = claims[c].since THEN NoClaim
                   ELSE [claims[c] EXCEPT !.step = "update", !.row = claimed(c)])
  /\ UNCHANGED <<today, positions, staked, overtaken>>

closed(c) ==
  [claims[c].row EXCEPT !.status = IF today - staked[claims[c].id] < lockTime
                                   THEN "withdrawn_early" ELSE "completed"]

stampWithdrawal(c) ==
  /\ claims[c].step = "withdraw"
  /\ claimHolds(c, [claims[c] EXCEPT !.step = "close", !.row = closed(c)])
  /\ UNCHANGED <<today, positions, staked, overtaken>>

\* The claims of a position, but for c, that are stamped and not yet written.
onTheirWay(p, c) == {d \in Claims \ {c} : claims[d].step = "update" /\ claims[d].id = p}

\* The UPDATE reaches the database: the snapshot is written whole, with its stamp.
saves(c) ==
  LET p == claims[c].id
  IN  /\ claims[c].step \in {"update", "close"}
      /\ positions' = [positions EXCEPT ![p] = claims[c].row]
      /\ overtaken' = IF onTheirWay(p, c) = {} THEN overtaken ELSE overtaken \cup {p}
      /\ claimHolds(c, NoClaim)
      /\ UNCHANGED <<today, staked>>

\* The database refuses, or the connection is lost.
claimFails(c) ==
  /\ claims[c].step # "idle" /\ claimHolds(c, NoClaim)
  /\ UNCHANGED <<today, positions, staked, overtaken>>

StakingNext ==
  \/ passes
  \/ \E p \in Positions :
       \/ createStakingPosition(p)
       \/ \E c \in Claims : claimRewards(c, p) \/ autoClaim(c, p) \/ withdrawStakingPosition(c, p)
  \/ \E c \in Claims :
       \/ calculateRewards(c) \/ stampClaim(c) \/ stampWithdrawal(c) \/ saves(c) \/ claimFails(c)

StakingSpec == StakingInit /\ [][StakingNext]_stakingVars

-----------------------------------------------------------------------------
StakingTypeOK ==
  /\ today \in 0..MaxTime
  /\ \A p \in Positions :
       /\ positions[p].status \in {"none", "active", "withdrawn_early", "completed"}
       /\ positions[p].lastClaimTime \in 0..today /\ staked[p] \in 0..today
  /\ overtaken \subseteq Positions
  /\ \A c \in Claims : /\ claims[c].step \in {"idle", "price", "stamp", "update", "withdraw", "close"}
                        /\ claims[c].row.lastClaimTime \in 0..today

\* No overlap of requested and automatic claims, withdrawals and lost answers pays a
\* stretch of time twice, as long as no other write of the position comes between the
\* stamp of a claim and its UPDATE: what the position has collected is at most the time
\* from its beginning to its last claim, although every claim reads it twice and saves
\* the first reading.  An UPDATE that was overtaken sets lastClaimTime back under a
\* claim that holds the later row, and the code then does pay twice.
NeverOverpaid ==
  \A p \in Positions \ overtaken :
    positions[p].accumulatedRewards <= positions[p].lastClaimTime - staked[p]
=============================================================================
