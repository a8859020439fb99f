--------------------------- MODULE Services_proofs ----------------------------
(***************************************************************************)
(* Proofs about services of the backend that share no state: staking in    *)
(* the database, hot wallets, NFT transfers, direct mints, the transaction *)
(* history and the rotation of a network's endpoints, for any number of    *)
(* overlapping requests.                                                   *)
(***************************************************************************)
EXTENDS MCServices, Accounts_proofs, Sockets_proofs,
        Integers, FiniteSetTheorems, WellFoundedInduction, TLAPS

-----------------------------------------------------------------------------
(* Staking positions of the database, for any number of positions and      *)
(* days.                                                                   *)

PositionRow == [status : {"none", "active", "withdrawn_early", "completed"},
                accumulatedRewards : Nat, lastClaimTime : Nat, autoClaimEnabled : BOOLEAN]

ClaimInHand == [step : {"price", "stamp", "update", "withdraw", "close"}, id : Positions,
                row : PositionRow, since : Nat]

(* A row pays no more than the time from s to its last claim.               *)
Paid(row, s) == row.accumulatedRewards + s <= row.lastClaimTime

(* What a request holds of a position that no UPDATE on its way has lost to: *)
(* a row that pays no more than it may.  Until it is priced it is no younger *)
(* than that of the table, unless the table's was withdrawn; stamped, it is  *)
(* no older.                                                                 *)
InStep(h) ==
  /\ Paid(h.row, staked[h.id])
  /\ h.step = "price" /\ positions[h.id].status = "active" =>
       h.row.lastClaimTime <= positions[h.id].lastClaimTime
  /\ h.step = "stamp" => h.row.accumulatedRewards + staked[h.id] <= h.since
  /\ h.step = "update" => positions[h.id].lastClaimTime <= h.row.lastClaimTime

ClaimOK(h) ==
  h = NoClaim \/
    /\ h \in ClaimInHand
    /\ h.row.status # "none" /\ positions[h.id].status # "none"
    /\ h.step = "close" => h.row.status # "active"
    /\ h.row.lastClaimTime <= today /\ h.since <= today
    /\ h.id \notin overtaken => InStep(h)

RowsOK ==
  /\ today \in Nat /\ overtaken \subseteq Positions
  /\ positions \in [Positions -> PositionRow] /\ staked \in [Positions -> Nat]
  /\ \A p \in Positions :
       /\ staked[p] <= today /\ positions[p].lastClaimTime <= today
       /\ p \notin overtaken => Paid(positions[p], staked[p])

(* A claim g that has been stamped is no older than what another one h of   *)
(* its position has read and not yet priced.                                *)
After(g, h) ==
  g.step = "update" /\ h.step = "price" /\ g.id = h.id /\ g.id \notin overtaken =>
    h.row.lastClaimTime <= g.row.lastClaimTime

StakingInv ==
  /\ RowsOK
  /\ claims = [c \in Claims |-> claims[c]]
  /\ \A c \in Claims : ClaimOK(claims[c])
  /\ \A c, d \in Claims : After(claims[c], claims[d])

LEMMA StakingInvInit == StakingInit => StakingInv
<1> SUFFICES ASSUME StakingInit PROVE StakingInv
  OBVIOUS
<1>1. RowsOK
  BY DEF StakingInit, RowsOK, PositionRow, NoRow, Paid
<1>2. claims = [c \in Claims |-> NoClaim] /\ NoClaim.step = "idle"
  BY DEF StakingInit, NoClaim
<1> QED BY <1>1, <1>2 DEF StakingInv, ClaimOK, After

LEMMA PassesPreserves == ASSUME StakingInv, passes PROVE StakingInv'
<1>1. /\ today' = today + 1 /\ today \in Nat /\ today' \in Nat
      /\ positions' = positions /\ staked' = staked /\ claims' = claims /\ overtaken' = overtaken
  BY DEF passes, StakingInv, RowsOK
<1>2. RowsOK'
  <2>1. ASSUME NEW p \in Positions PROVE staked[p] <= today' /\ positions[p].lastClaimTime <= today'
    <3>1. /\ staked[p] \in Nat /\ positions[p].lastClaimTime \in Nat
          /\ staked[p] <= today /\ positions[p].lastClaimTime <= today
      BY DEF StakingInv, RowsOK, PositionRow
    <3> QED BY <1>1, <3>1
  <2> QED BY <1>1, <2>1 DEF StakingInv, RowsOK, Paid
<1>3. ASSUME NEW c \in Claims PROVE ClaimOK(claims[c])'
  <2>1. CASE claims[c] = NoClaim
    BY <1>1, <2>1 DEF ClaimOK
  <2>2. CASE claims[c] # NoClaim
    <3>1. ClaimOK(claims[c])
      BY DEF StakingInv
    <3>2. /\ claims[c].row.lastClaimTime \in Nat /\ claims[c].since \in Nat
          /\ claims[c].row.lastClaimTime <= today /\ claims[c].since <= today
      BY <2>2, <3>1 DEF ClaimOK, ClaimInHand, PositionRow
    <3>3. claims[c].row.lastClaimTime <= today' /\ claims[c].since <= today'
      BY <1>1, <3>2
    <3> QED BY <1>1, <2>2, <3>1, <3>3 DEF ClaimOK, InStep, Paid
  <2> QED BY <2>1, <2>2
<1> QED BY <1>1, <1>2, <1>3 DEF StakingInv, After

LEMMA CreatePreserves ==
  ASSUME StakingInv, NEW p \in Positions, createStakingPosition(p) PROVE StakingInv'
<1>1. PICK auto \in BOOLEAN : positions' = [positions EXCEPT ![p] =
         [status |-> "active", accumulatedRewards |-> 0, lastClaimTime |-> today, autoClaimEnabled |-> auto]]
  BY DEF createStakingPosition
<1>2. /\ positions[p].status = "none" /\ staked' = [staked EXCEPT ![p] = today]
      /\ today' = today /\ claims' = claims /\ overtaken' = overtaken
      /\ today \in Nat
  BY DEF createStakingPosition, StakingInv, RowsOK
<1>3. positions' \in [Positions -> PositionRow] /\ staked' \in [Positions -> Nat]
  BY <1>1, <1>2 DEF StakingInv, RowsOK, PositionRow
<1>4. \A q \in Positions : /\ staked'[q] <= today' /\ positions'[q].lastClaimTime <= today'
                           /\ q \notin overtaken' => Paid(positions[q], staked[q])'
  BY <1>1, <1>2 DEF StakingInv, RowsOK, Paid
<1>5. ASSUME NEW c \in Claims PROVE ClaimOK(claims[c])'
  <2>1. CASE claims[c] = NoClaim
    BY <1>2, <2>1 DEF ClaimOK
  <2>2. CASE claims[c] # NoClaim
    <3>1. claims[c].id \in Positions /\ claims[c].id # p
      BY <1>2, <2>2 DEF StakingInv, ClaimOK, ClaimInHand
    <3>2. positions'[claims[c].id] = positions[claims[c].id] /\ staked'[claims[c].id] = staked[claims[c].id]
      BY <1>1, <1>2, <3>1 DEF StakingInv, RowsOK
    <3> QED BY <1>2, <2>2, <3>2 DEF StakingInv, ClaimOK, InStep, Paid
  <2> QED BY <2>1, <2>2
<1> QED BY <1>2, <1>3, <1>4, <1>5 DEF StakingInv, RowsOK, After

(* A request's step that leaves the table alone.                            *)
LEMMA ClaimHoldsPreserves ==
  ASSUME StakingInv, NEW c \in Claims, NEW h, ClaimOK(h), claimHolds(c, h),
         \A d \in Claims \ {c} : After(claims[d], h) /\ After(h, claims[d]),
         UNCHANGED <<today, positions, staked, overtaken>>
  PROVE  StakingInv'
<1>1. today' = today /\ positions' = positions /\ staked' = staked /\ overtaken' = overtaken
  OBVIOUS
<1>2. claims' = [d \in Claims |-> claims'[d]] /\ \A d \in Claims : claims'[d] = IF d = c THEN h ELSE claims[d]
  BY DEF claimHolds, StakingInv
<1>3. ASSUME NEW d \in Claims PROVE ClaimOK(claims[d])'
  <2>1. ClaimOK(claims'[d])
    BY <1>2 DEF StakingInv
  <2> QED BY <1>1, <2>1 DEF ClaimOK, InStep, Paid
<1>4. ASSUME NEW d \in Claims, NEW e \in Claims PROVE After(claims[d], claims[e])'
  <2>1. After(h, h)
    BY DEF After
  <2>2. After(claims'[d], claims'[e])
    BY <1>2, <2>1 DEF StakingInv
  <2> QED BY <1>1, <2>2 DEF After
<1>5. RowsOK'
  BY <1>1 DEF StakingInv, RowsOK, Paid
<1> QED BY <1>2, <1>3, <1>4, <1>5 DEF StakingInv

(* A request that ends holds nothing against anybody.                       *)
LEMMA EndsPreserves ==
  ASSUME StakingInv, NEW c \in Claims, claimHolds(c, NoClaim),
         UNCHANGED <<today, positions, staked, overtaken>>
  PROVE  StakingInv'
<1>1. NoClaim.step = "idle"
  BY DEF NoClaim
<1>2. ClaimOK(NoClaim) /\ \A d \in Claims : After(claims[d], NoClaim) /\ After(NoClaim, claims[d])
  BY <1>1 DEF ClaimOK, After
<1> QED BY <1>2, ClaimHoldsPreserves

LEMMA ReadsPreserves ==
  ASSUME StakingInv, NEW c \in Claims, NEW p \in Positions, NEW step \in {"price", "withdraw"},
         reads(c, p, step)
  PROVE  StakingInv'
<1> DEFINE h == [step |-> step, id |-> p, row |-> positions[p], since |-> 0]
<1>1. positions[p].status = "active" /\ claimHolds(c, h) /\ UNCHANGED <<today, positions, staked, overtaken>>
  BY DEF reads
<1>2. /\ positions[p] \in PositionRow /\ positions[p].lastClaimTime \in Nat /\ today \in Nat
      /\ positions[p].lastClaimTime <= today
      /\ p \notin overtaken => Paid(positions[p], staked[p])
  BY DEF StakingInv, RowsOK, PositionRow
<1>3. h \in ClaimInHand /\ h.row = positions[p] /\ h.id = p /\ h.since = 0
      /\ h.step # "stamp" /\ h.step # "update" /\ h.step # "close"
  BY <1>2 DEF ClaimInHand
<1> HIDE DEF h
<1>4. ClaimOK(h)
  BY <1>1, <1>2, <1>3 DEF ClaimOK, InStep
<1>5. ASSUME NEW d \in Claims PROVE After(claims[d], h) /\ After(h, claims[d])
  <2>1. CASE claims[d].step = "update" /\ claims[d].id = p /\ p \notin overtaken
    <3>1. ClaimOK(claims[d]) /\ claims[d] # NoClaim
      BY <2>1 DEF StakingInv, NoClaim
    <3> QED BY <1>3, <2>1, <3>1 DEF After, ClaimOK, InStep
  <2>2. CASE ~(claims[d].step = "update" /\ claims[d].id = p /\ p \notin overtaken)
    BY <1>3, <2>2 DEF After
  <2> QED BY <2>1, <2>2
<1> QED BY <1>1, <1>4, <1>5, ClaimHoldsPreserves

LEMMA CalculatePreserves ==
  ASSUME StakingInv, NEW c \in Claims, calculateRewards(c) PROVE StakingInv'
<1> DEFINE h == claims[c]
           now == positions[h.id]
           g == [h EXCEPT !.step = "stamp", !.since = now.lastClaimTime]
<1>1. /\ h.step = "price" /\ claimHolds(c, IF now.status # "active" THEN NoClaim ELSE g)
      /\ UNCHANGED <<today, positions, staked, overtaken>>
  BY DEF calculateRewards
<1>2. CASE now.status # "active"
  BY <1>1, <1>2, EndsPreserves
<1>3. CASE now.status = "active"
  <2>1. h # NoClaim
    BY <1>1 DEF NoClaim
  <2>2. ClaimOK(h)
    BY DEF StakingInv
  <2>3. /\ h \in ClaimInHand /\ h.id \in Positions /\ h.row \in PositionRow
        /\ h.row.lastClaimTime \in Nat /\ h.row.accumulatedRewards \in Nat
      BY <2>1, <2>2 DEF ClaimOK, ClaimInHand, PositionRow
  <2>4. now \in PositionRow /\ now.lastClaimTime \in Nat /\ now.lastClaimTime <= today
        /\ staked[h.id] \in Nat /\ today \in Nat
    BY <2>3 DEF StakingInv, RowsOK, PositionRow
  <2>5. h.id \notin overtaken => h.row.accumulatedRewards + staked[h.id] <= now.lastClaimTime
    <3> SUFFICES ASSUME h.id \notin overtaken
                 PROVE  h.row.accumulatedRewards + staked[h.id] <= now.lastClaimTime
      OBVIOUS
    <3>1. h.row.lastClaimTime <= now.lastClaimTime /\ Paid(h.row, staked[h.id])
      BY <1>1, <1>3, <2>1, <2>2 DEF ClaimOK, InStep
    <3> QED BY <2>3, <2>4, <3>1 DEF Paid
  <2> HIDE DEF h
  <2>6. /\ g \in ClaimInHand /\ g.step = "stamp" /\ g.since = now.lastClaimTime
        /\ g.row = h.row /\ g.id = h.id
    BY <2>3, <2>4 DEF ClaimInHand
  <2> HIDE DEF g
  <2>7. ClaimOK(g)
    BY <2>1, <2>2, <2>4, <2>5, <2>6 DEF ClaimOK, InStep
  <2>8. \A d \in Claims : After(claims[d], g) /\ After(g, claims[d])
    BY <2>6 DEF After
  <2> QED BY <1>1, <1>3, <2>7, <2>8, ClaimHoldsPreserves
<1> QED BY <1>2, <1>3

LEMMA StampClaimPreserves ==
  ASSUME StakingInv, NEW c \in Claims, stampClaim(c) PROVE StakingInv'
<1> DEFINE h == claims[c]
           row == claimed(c)
           g == [h EXCEPT !.step = "update", !.row = row]
<1>1. /\ h.step = "stamp" /\ claimHolds(c, IF today = h.since THEN NoClaim ELSE g)
      /\ UNCHANGED <<today, positions, staked, overtaken>>
  BY DEF stampClaim
<1>2. CASE today = h.since
  BY <1>1, <1>2, EndsPreserves
<1>3. CASE today # h.since
  <2>1. h # NoClaim
    BY <1>1 DEF NoClaim
  <2>2. ClaimOK(h)
    BY DEF StakingInv
  <2>3. /\ h \in ClaimInHand /\ h.id \in Positions /\ h.row \in PositionRow /\ h.since \in Nat
        /\ h.row.accumulatedRewards \in Nat /\ h.since <= today
    BY <2>1, <2>2 DEF ClaimOK, ClaimInHand, PositionRow
  <2>4. /\ today \in Nat /\ staked[h.id] \in Nat /\ positions[h.id].lastClaimTime <= today
    BY <2>3 DEF StakingInv, RowsOK
  <2>5. PICK n : n = h.row.accumulatedRewards + (today - h.since)
    OBVIOUS
  <2>6. n \in Nat
    BY <2>3, <2>4, <2>5
  <2>7. row = [h.row EXCEPT !.accumulatedRewards = n, !.lastClaimTime = today]
    BY <2>5 DEF claimed
  <2> HIDE DEF h, row
  <2>8. /\ row \in PositionRow /\ row.status = h.row.status /\ row.lastClaimTime = today
        /\ row.accumulatedRewards = n
    BY <2>3, <2>4, <2>6, <2>7 DEF PositionRow
  <2>9. g \in ClaimInHand /\ g.step = "update" /\ g.row = row /\ g.id = h.id /\ g.since = h.since
    BY <2>3, <2>8 DEF ClaimInHand
  <2> HIDE DEF g
  <2>10. h.id \notin overtaken => Paid(row, staked[h.id])
    <3> SUFFICES ASSUME h.id \notin overtaken PROVE Paid(row, staked[h.id])
      OBVIOUS
    <3>1. h.row.accumulatedRewards + staked[h.id] <= h.since
      BY <1>1, <2>1, <2>2 DEF ClaimOK, InStep
    <3> QED BY <2>3, <2>4, <2>5, <2>8, <3>1 DEF Paid
  <2>11. ClaimOK(g)
    BY <2>1, <2>2, <2>3, <2>4, <2>8, <2>9, <2>10 DEF ClaimOK, InStep
  <2>12. ASSUME NEW d \in Claims PROVE After(claims[d], g) /\ After(g, claims[d])
    <3>1. CASE claims[d] = NoClaim
      <4>1. claims[d].step # "price"
        BY <3>1 DEF NoClaim
      <4> QED BY <2>9, <4>1 DEF After
    <3>2. CASE claims[d] # NoClaim
      <4>1. claims[d].row.lastClaimTime <= today
        BY <3>2 DEF StakingInv, ClaimOK
      <4> QED BY <2>8, <2>9, <4>1 DEF After
    <3> QED BY <3>1, <3>2
  <2> QED BY <1>1, <1>3, <2>11, <2>12, ClaimHoldsPreserves DEF h
<1> QED BY <1>2, <1>3

LEMMA StampWithdrawalPreserves ==
  ASSUME StakingInv, NEW c \in Claims, stampWithdrawal(c) PROVE StakingInv'
<1> DEFINE h == claims[c]
           end == IF today - staked[h.id] < lockTime THEN "withdrawn_early" ELSE "completed"
           row == [h.row EXCEPT !.status = end]
           g == [h EXCEPT !.step = "close", !.row = row]
<1>1. h.step = "withdraw" /\ claimHolds(c, g) /\ UNCHANGED <<today, positions, staked, overtaken>>
  BY DEF stampWithdrawal, closed
<1>2. h # NoClaim
  BY <1>1 DEF NoClaim
<1>3. ClaimOK(h)
  BY DEF StakingInv
<1>4. h \in ClaimInHand /\ h.id \in Positions /\ h.row \in PositionRow
  BY <1>2, <1>3 DEF ClaimOK, ClaimInHand
<1>5. end \in {"withdrawn_early", "completed"}
  OBVIOUS
<1> HIDE DEF h, end
<1>6. /\ row \in PositionRow /\ row.status = end /\ row.lastClaimTime = h.row.lastClaimTime
      /\ row.accumulatedRewards = h.row.accumulatedRewards
  BY <1>4, <1>5 DEF PositionRow
<1> HIDE DEF row
<1>7. g \in ClaimInHand /\ g.step = "close" /\ g.row = row /\ g.id = h.id /\ g.since = h.since
  BY <1>4, <1>6 DEF ClaimInHand
<1> HIDE DEF g
<1>8. h.id \notin overtaken => Paid(row, staked[h.id])
  BY <1>2, <1>3, <1>6 DEF ClaimOK, InStep, Paid
<1>9. ClaimOK(g)
  BY <1>2, <1>3, <1>5, <1>6, <1>7, <1>8 DEF ClaimOK, InStep
<1>10. \A d \in Claims : After(claims[d], g) /\ After(g, claims[d])
  BY <1>7 DEF After
<1> QED BY <1>1, <1>9, <1>10, ClaimHoldsPreserves DEF h

LEMMA ClaimFailsPreserves ==
  ASSUME StakingInv, NEW c \in Claims, claimFails(c) PROVE StakingInv'
  BY EndsPreserves DEF claimFails

(* An UPDATE arrives: of its position no other one is on its way, or it has *)
(* overtaken it.                                                            *)
LEMMA SavesPreserves ==
  ASSUME StakingInv, NEW c \in Claims, saves(c) PROVE StakingInv'
<1> DEFINE h == claims[c]
           p == h.id
           row == h.row
<1>1. /\ h.step \in {"update", "close"} /\ positions' = [positions EXCEPT ![p] = row]
      /\ claimHolds(c, NoClaim) /\ today' = today /\ staked' = staked
      /\ overtaken' = IF onTheirWay(p, c) = {} THEN overtaken ELSE overtaken \cup {p}
  BY DEF saves
<1>2. h # NoClaim
  BY <1>1 DEF NoClaim
<1>3. ClaimOK(h)
  BY DEF StakingInv
<1>4. /\ h \in ClaimInHand /\ p \in Positions /\ row \in PositionRow /\ row.status # "none"
      /\ row.lastClaimTime <= today
      /\ h.step = "close" => row.status # "active"
      /\ p \notin overtaken => Paid(row, staked[p])
  BY <1>2, <1>3 DEF ClaimOK, InStep, ClaimInHand
<1>5. /\ positions' \in [Positions -> PositionRow]
      /\ \A q \in Positions : positions'[q] = IF q = p THEN row ELSE positions[q]
  BY <1>1, <1>4 DEF StakingInv, RowsOK
<1>6. overtaken \subseteq overtaken' /\ overtaken' \subseteq Positions
  BY <1>1, <1>4 DEF StakingInv, RowsOK
<1>7. RowsOK'
  BY <1>1, <1>4, <1>5, <1>6 DEF StakingInv, RowsOK, Paid
<1>8. /\ claims' = [d \in Claims |-> claims'[d]]
      /\ \A d \in Claims : claims'[d] = IF d = c THEN NoClaim ELSE claims[d]
  BY <1>1 DEF claimHolds, StakingInv
<1>9. ASSUME NEW d \in Claims PROVE ClaimOK(claims[d])'
  <2>1. CASE claims'[d] = NoClaim
    BY <2>1 DEF ClaimOK
  <2>2. CASE claims'[d] # NoClaim
    <3> DEFINE x == claims[d]
    <3>1. d # c /\ claims'[d] = x /\ x # NoClaim /\ ClaimOK(x)
      BY <1>8, <2>2 DEF StakingInv
    <3>2. x \in ClaimInHand /\ x.id \in Positions
      BY <3>1 DEF ClaimOK, ClaimInHand
    <3>3. x.id \notin overtaken' => InStep(x)'
      <4> SUFFICES ASSUME x.id \notin overtaken' PROVE InStep(x)'
        OBVIOUS
      <4>1. InStep(x)
        BY <1>6, <3>1 DEF ClaimOK
      <4>2. CASE x.id # p
        <5>1. positions'[x.id] = positions[x.id]
          BY <1>5, <3>2, <4>2
        <5> QED BY <1>1, <3>1, <4>1, <5>1 DEF InStep, Paid
      <4>3. CASE x.id = p
        <5>1. onTheirWay(p, c) = {} /\ p \notin overtaken
          BY <1>1, <4>3
        <5>2. x.step # "update"
          BY <3>1, <4>3, <5>1 DEF onTheirWay
        <5>3. x.step = "price" /\ row.status = "active" => x.row.lastClaimTime <= row.lastClaimTime
          <6>1. After(h, x)
            BY DEF StakingInv
          <6> QED BY <1>1, <1>4, <4>3, <5>1, <6>1 DEF After
        <5>4. positions'[x.id] = row
          BY <1>5, <3>2, <4>3
        <5> QED BY <1>1, <3>1, <4>1, <4>3, <5>2, <5>3, <5>4 DEF InStep, Paid
      <4> QED BY <4>2, <4>3
    <3>4. positions'[x.id].status # "none"
      BY <1>4, <1>5, <3>1, <3>2 DEF ClaimOK
    <3> QED BY <1>1, <3>1, <3>3, <3>4 DEF ClaimOK
  <2> QED BY <2>1, <2>2
<1>10. ASSUME NEW d \in Claims, NEW e \in Claims PROVE After(claims[d], claims[e])'
  <2>1. NoClaim.step = "idle"
    BY DEF NoClaim
  <2>2. After(claims'[d], claims'[e])
    BY <1>8, <2>1 DEF StakingInv, After
  <2> QED BY <1>6, <2>2 DEF After
<1> QED BY <1>7, <1>8, <1>9, <1>10 DEF StakingInv

LEMMA StakingInvStep == StakingInv /\ [StakingNext]_stakingVars => StakingInv'
<1> SUFFICES ASSUME StakingInv, [StakingNext]_stakingVars PROVE StakingInv'
  OBVIOUS
<1>1. CASE passes
  BY <1>1, PassesPreserves
<1>2. ASSUME NEW p \in Positions, createStakingPosition(p) PROVE StakingInv'
  BY <1>2, CreatePreserves
<1>3. ASSUME NEW p \in Positions, NEW c \in Claims,
             claimRewards(c, p) \/ autoClaim(c, p) \/ withdrawStakingPosition(c, p)
      PROVE  StakingInv'
  <2>1. reads(c, p, "price") \/ reads(c, p, "withdraw")
    BY <1>3 DEF claimRewards, autoClaim, withdrawStakingPosition
  <2> QED BY <2>1, ReadsPreserves
<1>4. ASSUME NEW c \in Claims,
             calculateRewards(c) \/ stampClaim(c) \/ stampWithdrawal(c) \/ saves(c) \/ claimFails(c)
      PROVE  StakingInv'
  BY <1>4, CalculatePreserves, StampClaimPreserves, StampWithdrawalPreserves, SavesPreserves,
     ClaimFailsPreserves
<1>5. CASE UNCHANGED stakingVars
  <2>1. /\ today' = today /\ positions' = positions /\ staked' = staked /\ claims' = claims
        /\ overtaken' = overtaken
    BY <1>5 DEF stakingVars
  <2> QED BY <2>1 DEF StakingInv, RowsOK, ClaimOK, InStep, After, Paid
<1> QED BY <1>1, <1>2, <1>3, <1>4, <1>5 DEF StakingNext

(* No stretch of time is paid twice, whatever claims, automatic claims and   *)
(* withdrawals overlap at their awaits, as long as no other write of the     *)
(* position comes between the stamp of a claim and its UPDATE.               *)
THEOREM NeverPaidTwice == StakingSpec => []NeverOverpaid
<1>1. StakingInv => NeverOverpaid
  <2> SUFFICES ASSUME StakingInv, NEW p \in Positions \ overtaken
               PROVE  positions[p].accumulatedRewards <= positions[p].lastClaimTime - staked[p]
    BY DEF NeverOverpaid
  <2>1. positions[p] \in PositionRow /\ staked[p] \in Nat /\ Paid(positions[p], staked[p])
    BY DEF StakingInv, RowsOK
  <2> QED BY <2>1 DEF Paid, PositionRow
<1> QED BY <1>1, StakingInvInit, StakingInvStep, PTL DEF StakingSpec

-----------------------------------------------------------------------------
(* Transfers.  A transaction is in the pool or mined only after its call    *)
(* has broadcast it, and never in both: what was mined stays as it was.     *)

IsSend(x) == x = [step |-> x.step, from |-> x.from, plain |-> x.plain, nonce |-> x.nonce]
HasSent(x) == x.step \in {"wait", "success", "failed"}

SendsInv ==
  /\ sends = [c \in Sends |-> sends[c]]
  /\ \A c \in Sends : IsSend(sends[c])
  /\ \A c \in pool \cup DOMAIN mined : HasSent(sends[c])
  /\ pool \subseteq Sends /\ DOMAIN mined \subseteq Sends /\ pool \cap DOMAIN mined = {}

LEMMA SendsInvInit == HotWalletInit => SendsInv
<1> SUFFICES ASSUME HotWalletInit PROVE SendsInv
  OBVIOUS
<1>1. IsSend(NoSend) /\ NoSend.step = "idle"
  BY DEF NoSend, IsSend
<1>2. sends = [c \in Sends |-> NoSend] /\ pool = {} /\ DOMAIN mined = {}
  BY DEF HotWalletInit
<1> QED BY <1>1, <1>2 DEF SendsInv

\* A call goes on, and does not take back what it has sent.
LEMMA CallPreserves ==
  ASSUME SendsInv, NEW c \in Sends, NEW x, IsSend(x),
         sends' = [sends EXCEPT ![c] = x],
         HasSent(sends[c]) => HasSent(x),
         UNCHANGED <<pool, mined>>
  PROVE  SendsInv'
<1>1. \A d \in Sends : sends'[d] = IF d = c THEN x ELSE sends[d]
  BY DEF SendsInv
<1> QED BY <1>1 DEF SendsInv, HasSent

\* A call takes its next step.
LEMMA ToPreserves ==
  ASSUME SendsInv, NEW c \in Sends, NEW s, to(c, s),
         HasSent(sends[c]) => s \in {"wait", "success", "failed"},
         UNCHANGED <<pool, mined>>
  PROVE  SendsInv'
<1>1. PICK x : x = [sends[c] EXCEPT !.step = s]
  OBVIOUS
<1>2. IsSend(x) /\ x.step = s
  BY <1>1 DEF SendsInv, IsSend
<1>3. sends' = [sends EXCEPT ![c] = x]
  BY <1>1 DEF to
<1> QED BY <1>2, <1>3, CallPreserves DEF HasSent

LEMMA AcceptedPreserves == ASSUME SendsInv, NEW c \in Sends, accepted(c) PROVE SendsInv'
<1>1. PICK s : s \in {"wait", "failed"} /\ to(c, s)
  BY DEF accepted, afterBroadcast
<1>2. PICK x : x = [sends[c] EXCEPT !.step = s]
  OBVIOUS
<1>3. IsSend(x) /\ x.step = s /\ HasSent(x) /\ x.step # "success"
  BY <1>1, <1>2 DEF SendsInv, IsSend, HasSent
<1>4. \A d \in Sends : sends'[d] = IF d = c THEN x ELSE sends[d]
  BY <1>1, <1>2 DEF SendsInv, to
<1>5. sends' = [d \in Sends |-> sends'[d]]
  BY <1>1 DEF SendsInv, to
<1>6. ~HasSent(sends[c]) /\ pool' \subseteq pool \cup {c} /\ mined' = mined
  BY DEF accepted, HasSent
<1> QED BY <1>3, <1>4, <1>5, <1>6 DEF SendsInv, HasSent

LEMMA MinePreserves == ASSUME SendsInv, NEW c \in Sends, mine(c) PROVE SendsInv'
<1>1. PICK ok \in BOOLEAN :
        /\ mined' = [d \in DOMAIN mined \cup {c} |-> IF d = c THEN ok ELSE mined[d]]
        /\ c \in pool /\ pool' = pool \ {c} /\ sends' = sends
  BY DEF mine
<1>2. DOMAIN mined' = DOMAIN mined \cup {c} /\ \A d \in DOMAIN mined : mined'[d] = mined[d]
  BY <1>1 DEF SendsInv
<1> QED BY <1>1, <1>2 DEF SendsInv

LEMMA SendsStep == ASSUME SendsInv, [HotWalletNext]_hotWalletVars PROVE SendsInv'
<1>1. ASSUME UNCHANGED <<sends, pool, mined>> PROVE SendsInv'
  BY <1>1 DEF SendsInv, HasSent
<1>2. ASSUME NEW n \in Networks, NEW a \in Owners, importFromMnemonic(n, a) \/ removeWallet(n, a)
      PROVE  SendsInv'
  BY <1>1, <1>2 DEF importFromMnemonic, removeWallet, chainVars
<1>3. CASE clearWallets \/ rotateEncryptionKey
  BY <1>1, <1>3 DEF clearWallets, rotateEncryptionKey, chainVars
<1>4. ASSUME NEW n \in Networks, NEW a \in Owners, NEW c \in Sends, sendTransaction(c, n, a) PROVE SendsInv'
  <2>1. PICK plain : sends' = [sends EXCEPT ![c] =
                       [NoSend EXCEPT !.step = "simulate", !.from = a, !.plain = plain]]
    BY <1>4 DEF sendTransaction
  <2>2. PICK x : x = [NoSend EXCEPT !.step = "simulate", !.from = a, !.plain = plain]
    OBVIOUS
  <2>3. IsSend(x) /\ x.step = "simulate"
    BY <2>2 DEF IsSend, NoSend
  <2>4. sends[c].step = "idle" /\ UNCHANGED <<pool, mined>>
    BY <1>4 DEF sendTransaction, chainVars
  <2> QED BY <2>1, <2>2, <2>3, <2>4, CallPreserves DEF HasSent
<1>5. ASSUME NEW c \in Sends, simulateTransaction(c) \/ checkBalance(c) \/ refused(c) \/ sendTokenTransaction(c)
      PROVE  SendsInv'
  <2>1. ~HasSent(sends[c]) /\ UNCHANGED <<pool, mined>>
    BY <1>5 DEF simulateTransaction, checkBalance, refused, sendTokenTransaction, HasSent, chainVars
  <2>2. \E s \in {"balance", "nonce", "failed"} : to(c, s)
    BY <1>5 DEF simulateTransaction, checkBalance, refused, sendTokenTransaction
  <2> QED BY <2>1, <2>2, ToPreserves
<1>6. ASSUME NEW c \in Sends, populateTransaction(c) PROVE SendsInv'
  <2>0. PICK n : n = pendingNonce(sends[c].from)
    OBVIOUS
  <2>1. PICK x : x = [sends[c] EXCEPT !.step = "broadcast", !.nonce = n]
    OBVIOUS
  <2>2. x = [step |-> "broadcast", from |-> sends[c].from, plain |-> sends[c].plain, nonce |-> n]
    <3>1. PICK y : y = sends[c]
      OBVIOUS
    <3>2. y = [step |-> y.step, from |-> y.from, plain |-> y.plain, nonce |-> y.nonce]
      BY <3>1 DEF SendsInv, IsSend
    <3>3. x = [y EXCEPT !.step = "broadcast", !.nonce = n]
      BY <2>1, <3>1
    <3> QED BY ONLY <3>1, <3>2, <3>3
  <2>3. sends' = [sends EXCEPT ![c] = x] /\ sends[c].step = "nonce" /\ UNCHANGED <<pool, mined>>
    BY <1>6, <2>0, <2>1 DEF populateTransaction, chainVars
  <2>4. IsSend(x) /\ x.step = "broadcast"
    BY ONLY <2>2 DEF IsSend
  <2> QED BY <2>3, <2>4, CallPreserves DEF HasSent
<1>7. ASSUME NEW c \in Sends, accepted(c) \/ mine(c) PROVE SendsInv'
  BY <1>7, AcceptedPreserves, MinePreserves
<1>8. ASSUME NEW c \in Sends, receipt(c) PROVE SendsInv'
  <2>1. PICK s : /\ s \in {"success", "failed"} /\ to(c, s) /\ UNCHANGED <<pool, mined>>
                 /\ s = "success" => c \in DOMAIN mined /\ mined[c]
    BY <1>8 DEF receipt, chainVars
  <2> QED BY <2>1, ToPreserves
<1>9. CASE UNCHANGED hotWalletVars
  BY <1>1, <1>9 DEF hotWalletVars, chainVars
<1> QED BY <1>2, <1>3, <1>4, <1>5, <1>6, <1>7, <1>8, <1>9 DEF HotWalletNext

-----------------------------------------------------------------------------
(* Keys.  What is stored is encrypted last under the current encryption     *)
(* key, if it is encrypted at all.                                          *)

KeyNumbers == 1..MaxKey

KeyOK(w) ==
  /\ w = [layers |-> w.layers, encrypted |-> w.encrypted]
  /\ w.layers \in Seq(KeyNumbers) /\ w.encrypted = encryptPrivateKeys
  /\ w.encrypted => w.layers # <<>> /\ Last(w.layers) = encryptionKey

KeysInv ==
  /\ encryptPrivateKeys \in BOOLEAN /\ encryptionKey \in KeyNumbers
  /\ DOMAIN stored \subseteq Networks \X Owners
  /\ \A w \in DOMAIN stored : KeyOK(stored[w])

LEMMA LayersLemma ==
  ASSUME NEW s \in Seq(KeyNumbers), NEW k \in KeyNumbers
  PROVE  /\ Append(s, k) \in Seq(KeyNumbers) /\ Append(s, k) # <<>> /\ Last(Append(s, k)) = k
         /\ s # <<>> => Front(s) \in Seq(KeyNumbers)
<1>1. Append(s, k) \in Seq(KeyNumbers) /\ Len(Append(s, k)) = Len(s) + 1 /\ Append(s, k)[Len(s) + 1] = k
  OBVIOUS
<1>2. Len(s) + 1 # 0 /\ Len(<<>>) = 0
  OBVIOUS
<1>3. ASSUME s # <<>> PROVE Front(s) \in Seq(KeyNumbers)
  BY <1>3 DEF Front
<1> QED BY <1>1, <1>2, <1>3 DEF Last

LEMMA KeysStep == ASSUME KeysInv, [HotWalletNext]_hotWalletVars PROVE KeysInv'
<1>1. ASSUME encryptionKey' = encryptionKey, encryptPrivateKeys' = encryptPrivateKeys, 
             DOMAIN stored' \subseteq DOMAIN stored, \A w \in DOMAIN stored' : stored'[w] = stored[w]
      PROVE  KeysInv'
  BY <1>1 DEF KeysInv, KeyOK
<1>2. ASSUME NEW n \in Networks, NEW a \in Owners, importFromMnemonic(n, a) PROVE KeysInv'
  <2>1. PICK x : x = [layers |-> ifConfigured(ifConfigured(<<>>)), encrypted |-> encryptPrivateKeys]
    OBVIOUS
  <2>2. \A s \in Seq(KeyNumbers) : encrypt(s) \in Seq(KeyNumbers) /\ encrypt(s) # <<>> /\ Last(encrypt(s)) = encryptionKey
    BY LayersLemma DEF encrypt, KeysInv
  <2>3. <<>> \in Seq(KeyNumbers)
    OBVIOUS
  <2>4. KeyOK(x)
    <3>1. CASE encryptPrivateKeys
      <4>1. x.layers = encrypt(encrypt(<<>>)) /\ x.encrypted = encryptPrivateKeys
        BY <2>1, <3>1 DEF ifConfigured
      <4> QED BY <2>1, <2>2, <2>3, <4>1 DEF KeyOK
    <3>2. CASE ~encryptPrivateKeys
      BY <2>1, <2>3, <3>2 DEF KeyOK, ifConfigured
    <3> QED BY <3>1, <3>2
  <2>5. DOMAIN stored' = DOMAIN stored \cup {<<n, a>>} /\ UNCHANGED <<encryptionKey, encryptPrivateKeys>>
        /\ \A w \in DOMAIN stored' : stored'[w] = IF w = <<n, a>> THEN x ELSE stored[w]
    BY <1>2, <2>1 DEF importFromMnemonic
  <2> QED BY <2>4, <2>5 DEF KeysInv, KeyOK
<1>3. ASSUME NEW n \in Networks, NEW a \in Owners, removeWallet(n, a) PROVE KeysInv'
  BY <1>1, <1>3 DEF removeWallet, Restrict
<1>4. CASE clearWallets
  BY <1>1, <1>4 DEF clearWallets
<1>5. CASE rotateEncryptionKey
  <2>1. PICK k : k = encryptionKey + 1
    OBVIOUS
  <2>2. /\ encryptionKey' = k /\ k \in KeyNumbers /\ DOMAIN stored' = DOMAIN stored
        /\ \A w \in DOMAIN stored : stored'[w] = [stored[w] EXCEPT !.layers = Append(Front(@), k)]
    BY <1>5, <2>1, HotWalletAssumption DEF rotateEncryptionKey, reencrypted, KeysInv, KeyNumbers
  <2>3. ASSUME NEW w \in DOMAIN stored PROVE KeyOK(stored[w])'
    <3>1. PICK s \in Seq(KeyNumbers) : s = Front(stored[w].layers)
      BY <1>5, LayersLemma DEF rotateEncryptionKey, KeysInv, KeyOK
    <3>2. stored'[w] = [layers |-> Append(s, k), encrypted |-> stored[w].encrypted]
      BY <2>2, <3>1 DEF KeysInv, KeyOK
    <3>3. Append(s, k) \in Seq(KeyNumbers) /\ Append(s, k) # <<>> /\ Last(Append(s, k)) = k
      BY <2>2, LayersLemma
    <3>4. encryptPrivateKeys' = encryptPrivateKeys /\ stored[w].encrypted = encryptPrivateKeys
      BY <1>5 DEF rotateEncryptionKey, KeysInv, KeyOK
    <3> QED BY <2>2, <3>2, <3>3, <3>4 DEF KeyOK
  <2>4. encryptPrivateKeys' = encryptPrivateKeys
    BY <1>5 DEF rotateEncryptionKey
  <2> QED BY <2>2, <2>3, <2>4 DEF KeysInv
<1>6. ASSUME UNCHANGED keyVars PROVE KeysInv'
  BY <1>1, <1>6 DEF keyVars
<1>7. ASSUME NEW c \in Sends,
             \/ \E n \in Networks, a \in Owners : sendTransaction(c, n, a)
             \/ simulateTransaction(c) \/ checkBalance(c) \/ populateTransaction(c)
             \/ accepted(c) \/ refused(c) \/ mine(c) \/ receipt(c) \/ sendTokenTransaction(c)
      PROVE  KeysInv'
  BY <1>6, <1>7 DEF sendTransaction, simulateTransaction, checkBalance, populateTransaction,
    accepted, refused, mine, receipt, sendTokenTransaction
<1>8. CASE UNCHANGED hotWalletVars
  BY <1>6, <1>8 DEF hotWalletVars
<1> QED BY <1>2, <1>3, <1>4, <1>5, <1>7, <1>8 DEF HotWalletNext

LEMMA KeysInvInit == HotWalletInit => KeysInv
  BY HotWalletAssumption DEF HotWalletInit, KeysInv, KeyNumbers

(* Rotations, imports and removals leave no stored key behind that the       *)
(* current encryption key does not open.                                     *)
THEOREM RotationsReachAll == HotWalletSpec => []RotationReachesAll
<1>1. HotWalletInit => KeysInv
  BY KeysInvInit
<1>2. KeysInv => RotationReachesAll
  BY DEF KeysInv, KeyOK, RotationReachesAll, opens
<1> QED BY <1>1, <1>2, KeysStep, PTL DEF HotWalletSpec

-----------------------------------------------------------------------------
(* NFTs.  Every transfer of a batch is left to be sent or has been reported *)
(* as processed, and an item that has left the sender does not come back.   *)

BatchInv ==
  /\ batch \in Seq(Transfers) /\ left \subseteq DOMAIN batch
  /\ owner \in [Items -> Receivers \cup {"sender"}]
  /\ batchStep \in {"idle", "send", "success", "failed"}
  /\ batchStep \in {"send", "success"} =>
       \A i \in DOMAIN batch \ left : batch[i] \in processedTransfers
  /\ batchStep = "success" => left = {}
  /\ processedTransfers \subseteq ToSet(batch)
  /\ \A t \in processedTransfers : owner[t.item] # "sender"
  /\ batchStep = "idle" => processedTransfers = {}

LEMMA BatchInvInit == NFTInit => BatchInv
<1> SUFFICES ASSUME NFTInit PROVE BatchInv
  OBVIOUS
<1>1. batch = <<>> /\ left = {} /\ processedTransfers = {} /\ batchStep = "idle"
  BY DEF NFTInit
<1>2. owner \in [Items -> Receivers \cup {"sender"}]
  BY NFTAssumption DEF NFTInit
<1> QED BY <1>1, <1>2 DEF BatchInv, ToSet

\* A batch holds transfers, and who receives an item is not the sender.
LEMMA TransfersLemma ==
  ASSUME BatchInv, NEW i \in DOMAIN batch
  PROVE  batch[i] \in Transfers /\ batch[i] \in ToSet(batch) /\ batch[i].item \in Items
         /\ batch[i].to \in Receivers /\ batch[i].to # "sender"
<1>1. batch[i] \in Transfers /\ batch[i] \in ToSet(batch)
  BY DEF BatchInv, ToSet
<1> QED BY <1>1, NFTAssumption DEF Transfers

\* A transaction that is mined takes its items from the sender, and only those.
LEMMA MovedLemma ==
  ASSUME BatchInv, NEW i \in left, owner' = moved(sentBy(i), batch[i].to)
  PROVE  /\ owner' \in [Items -> Receivers \cup {"sender"}]
         /\ \A j \in Items : owner[j] # "sender" => owner'[j] # "sender"
         /\ \A t \in sentBy(i) : owner'[t.item] # "sender"
         /\ sentWith(i) \subseteq left /\ sentBy(i) \subseteq ToSet(batch)
<1>1. batch[i].to \in Receivers /\ batch[i].to # "sender"
  BY TransfersLemma DEF BatchInv
<1>2. sentWith(i) \subseteq left
  BY DEF sentWith
<1>3. sentBy(i) \subseteq ToSet(batch) /\ \A t \in sentBy(i) : t.item \in Items
  BY <1>2, TransfersLemma DEF sentBy, BatchInv
<1> QED BY <1>1, <1>2, <1>3 DEF moved, BatchInv

LEMMA BatchStep == ASSUME BatchInv, [NFTNext]_nftVars PROVE BatchInv'
<1>1. ASSUME UNCHANGED batchVars PROVE BatchInv'
  BY <1>1 DEF batchVars, BatchInv
<1>2. CASE batchTransferNFTs
  <2>1. PICK b \in BoundedSeq(Transfers, MaxBatch) : batch' = b /\ left' = DOMAIN b
    BY <1>2 DEF batchTransferNFTs
  <2>2. b \in Seq(Transfers)
    BY <2>1, NFTAssumption DEF BoundedSeq, SeqOf
  <2>3. batchStep' = "send" /\ UNCHANGED <<owner, processedTransfers>> /\ processedTransfers = {}
    BY <1>2 DEF batchTransferNFTs, BatchInv
  <2> QED BY <2>1, <2>2, <2>3 DEF BatchInv
<1>3. CASE transferMined
  <2>1. PICK i \in left : /\ owner' = moved(sentBy(i), batch[i].to)
                          /\ processedTransfers' = processedTransfers \cup sentBy(i)
                          /\ left' = left \ sentWith(i)
    BY <1>3 DEF transferMined
  <2>2. batchStep = "send" /\ batchStep' = "send" /\ batch' = batch
    BY <1>3 DEF transferMined
  <2>3. \A j \in sentWith(i) : batch[j] \in sentBy(i)
    BY DEF sentBy
  <2>4. \A t \in processedTransfers' : owner'[t.item] # "sender"
    BY <2>1, MovedLemma, TransfersLemma DEF BatchInv, ToSet
  <2> QED BY <2>1, <2>2, <2>3, <2>4, MovedLemma DEF BatchInv
<1>4. CASE transferFails
  <2>1. left' = {} /\ batchStep' = "failed" /\ UNCHANGED <<owner, batch, processedTransfers>>
    BY <1>4 DEF transferFails, onFailure
  <2> QED BY <2>1 DEF BatchInv
<1>5. CASE receiptLost
  <2>1. PICK i \in left : owner' = moved(sentBy(i), batch[i].to) /\ onFailure(i)
    BY <1>5 DEF receiptLost
  <2>2. left' = {} /\ batchStep' = "failed" /\ UNCHANGED <<batch, processedTransfers>>
    BY <1>5, <2>1 DEF receiptLost, onFailure
  <2>3. \A t \in processedTransfers : owner'[t.item] # "sender"
    BY <2>1, MovedLemma, TransfersLemma DEF BatchInv, ToSet
  <2> QED BY <2>1, <2>2, <2>3, MovedLemma DEF BatchInv
<1>6. CASE batchDone
  BY <1>6 DEF batchDone, BatchInv
<1>7. CASE transferNFT
  <2>1. PICK j \in Items, r \in Receivers : owner' = [owner EXCEPT ![j] = r]
    BY <1>7 DEF transferNFT
  <2>2. UNCHANGED <<batch, left, processedTransfers, batchStep>>
    BY <1>7 DEF transferNFT
  <2>3. r # "sender"
    BY NFTAssumption
  <2>4. \A t \in processedTransfers : owner'[t.item] # "sender"
    BY <2>1, <2>3, TransfersLemma DEF BatchInv, ToSet
  <2> QED BY <2>1, <2>2, <2>4 DEF BatchInv
<1>8. ASSUME NEW s \in Sellers,
             \/ setApprovalForAll(s) \/ approvalMined(s) \/ signs(s)
             \/ createMarketplaceListing(s) \/ listingFails(s)
      PROVE  BatchInv'
  BY <1>1, <1>8 DEF setApprovalForAll, approvalMined, signs, createMarketplaceListing, listingFails
<1>9. CASE UNCHANGED nftVars
  BY <1>1, <1>9 DEF nftVars
<1> QED BY <1>2, <1>3, <1>4, <1>5, <1>6, <1>7, <1>8, <1>9 DEF NFTNext

\* A seller who posts a listing has an approval on the chain, which stays.
ListingInv ==
  /\ listing \in [Sellers -> {"idle", "approving", "posting"}]
  /\ \A s \in Sellers : listing[s] = "posting" => s \in approved
  /\ ListedIsApproved

LEMMA ListingStep == ASSUME ListingInv, [NFTNext]_nftVars PROVE ListingInv'
<1>1. ASSUME UNCHANGED listingVars PROVE ListingInv'
  BY <1>1 DEF listingVars, ListingInv, ListedIsApproved
<1>2. CASE batchTransferNFTs \/ transferMined \/ transferFails \/ receiptLost \/ batchDone \/ transferNFT
  BY <1>1, <1>2 DEF batchTransferNFTs, transferMined, transferFails, receiptLost, batchDone, transferNFT
<1>3. ASSUME NEW s \in Sellers,
             \/ setApprovalForAll(s) \/ approvalMined(s) \/ signs(s)
             \/ createMarketplaceListing(s) \/ listingFails(s)
      PROVE  ListingInv'
  BY <1>3 DEF setApprovalForAll, approvalMined, signs, createMarketplaceListing, listingFails,
    goes, waited, ListingInv, ListedIsApproved
<1>4. CASE UNCHANGED nftVars
  BY <1>1, <1>4 DEF nftVars
<1> QED BY <1>2, <1>3, <1>4 DEF NFTNext

(* A batch that reports success has moved every item in it, whoever moves    *)
(* items meanwhile and whatever fails; what is on sale may be moved.         *)
THEOREM NFTsAlwaysAccountedFor == NFTSpec => []NFTsAccountedFor
<1>1. BatchInv => BatchIsWhole
  <2> SUFFICES ASSUME BatchInv, batchStep = "success"
               PROVE  processedTransfers = ToSet(batch) /\ \A t \in ToSet(batch) : owner[t.item] # "sender"
    BY DEF BatchIsWhole
  <2>1. ToSet(batch) \subseteq processedTransfers
    BY DEF BatchInv, ToSet
  <2> QED BY <2>1 DEF BatchInv
<1>2. NFTInit => ListingInv
  BY DEF NFTInit, ListingInv, ListedIsApproved
<1>3. ListingInv => ListedIsApproved
  BY DEF ListingInv
<1> QED BY <1>1, <1>2, <1>3, BatchInvInit, BatchStep, ListingStep, PTL DEF NFTSpec, NFTsAccountedFor

-----------------------------------------------------------------------------
(* Direct mints.  A mint is recorded after its transaction has been mined.   *)

Minter == [step : {"idle", "proof", "sent", "record"}, wallet : Wallets \cup {NoMinter.wallet},
           records : BOOLEAN]

DirectInv ==
  /\ minters \in [Minters -> Minter]
  /\ \A m \in Minters : minters[m].step = "record" => minters[m].wallet \in hasFirstMinted
  /\ recorded \in [Wallets -> Nat]
  /\ RecordedHasMinted

\* A request changes what it awaits, and the mints of the contract only grow.
LEMMA MinterPreserves ==
  ASSUME DirectInv, NEW m \in Minters, NEW x \in Minter,
         x.step = "record" => x.wallet \in hasFirstMinted',
         minters' = [minters EXCEPT ![m] = x],
         hasFirstMinted \subseteq hasFirstMinted', recorded' = recorded
  PROVE  DirectInv'
<1>1. \A n \in Minters : minters'[n] = IF n = m THEN x ELSE minters[n]
  BY DEF DirectInv
<1> QED BY <1>1 DEF DirectInv, RecordedHasMinted

LEMMA DirectStep == ASSUME DirectInv, [DirectNext]_mintingVars PROVE DirectInv'
<1>1. NoMinter.step # "record" /\ NoMinter \in Minter
  BY DEF NoMinter, Minter
<1>2. ASSUME minters' = minters, hasFirstMinted' = hasFirstMinted, recorded' = recorded PROVE DirectInv'
  BY <1>2 DEF DirectInv, RecordedHasMinted
<1>3. CASE restart
  <2>1. /\ hasFirstMinted' = hasFirstMinted /\ recorded' = recorded
        /\ minters' = [m \in Minters |->
                        IF minters[m].step = "sent" THEN [minters[m] EXCEPT !.records = FALSE] ELSE NoMinter]
    BY <1>3 DEF restart
  <2>2. ASSUME NEW m \in Minters PROVE minters'[m].step # "record" /\ minters'[m] \in Minter
    <3>1. CASE minters[m].step = "sent"
      BY <2>1, <3>1 DEF DirectInv, Minter
    <3>2. CASE minters[m].step # "sent"
      BY <1>1, <2>1, <3>2
    <3> QED BY <3>1, <3>2
  <2> QED BY <2>1, <2>2 DEF DirectInv, RecordedHasMinted
<1>4. ASSUME NEW w \in Wallets, isVerified(w) \/ addAddress(w) PROVE DirectInv'
  BY <1>2, <1>4 DEF isVerified, addAddress
<1>5. ASSUME NEW l \in loads, initializeFromDatabase(l) PROVE DirectInv'
  BY <1>2, <1>5 DEF initializeFromDatabase
<1>6. ASSUME NEW m \in Minters, firstTimeMintFails(m) \/ transactionFails(m) PROVE DirectInv'
  BY <1>1, <1>6, MinterPreserves DEF firstTimeMintFails, transactionFails
<1>7. ASSUME NEW m \in Minters, NEW w \in Wallets, processMintForNewUser(m, w) \/ mintShahiForNewUser(m, w)
      PROVE  DirectInv'
  <2>1. ASSUME NEW b \in BOOLEAN, mintForNewUser(m, w, b) PROVE DirectInv'
    <3>1. PICK x : x = [step |-> afterSend(b), wallet |-> w, records |-> b]
      OBVIOUS
    <3>2. x.step = "sent" /\ x \in Minter /\ minters' = [minters EXCEPT ![m] = x]
          /\ hasFirstMinted' = hasFirstMinted /\ recorded' = recorded
      BY <2>1, <3>1 DEF mintForNewUser, afterSend, Minter
    <3> QED BY <3>2, MinterPreserves
  <2> QED BY <1>7, <2>1 DEF processMintForNewUser, mintShahiForNewUser
<1>8. ASSUME NEW m \in Minters, processFirstTimeMint(m) PROVE DirectInv'
  <2>1. PICK x : x = [minters[m] EXCEPT !.step = "proof"]
    OBVIOUS
  <2>2. x.step = "proof" /\ x \in Minter
    BY <2>1 DEF DirectInv, Minter
  <2>3. minters' = [minters EXCEPT ![m] = x] /\ hasFirstMinted' = hasFirstMinted /\ recorded' = recorded
    BY <1>8, <2>1 DEF processFirstTimeMint, becomes
  <2> QED BY <2>2, <2>3, MinterPreserves
<1>9. ASSUME NEW m \in Minters, waitFails(m) PROVE DirectInv'
  <2>1. PICK x : x = [minters[m] EXCEPT !.records = FALSE]
    OBVIOUS
  <2>2. /\ minters' = [minters EXCEPT ![m] = x] /\ hasFirstMinted' = hasFirstMinted /\ recorded' = recorded
        /\ minters[m].step = "sent"
    BY <1>9, <2>1 DEF waitFails
  <2>3. x.step = minters[m].step /\ x \in Minter
    BY <2>1 DEF DirectInv, Minter
  <2> QED BY <2>2, <2>3, MinterPreserves
<1>10. ASSUME NEW m \in Minters, transactionMined(m) PROVE DirectInv'
  <2>1. PICK x : x = IF minters[m].records THEN [minters[m] EXCEPT !.step = "record"] ELSE NoMinter
    OBVIOUS
  <2>2. /\ minters' = [minters EXCEPT ![m] = x] /\ hasFirstMinted' = hasFirstMinted \cup {minters[m].wallet}
        /\ recorded' = recorded
    BY <1>10, <2>1 DEF transactionMined, becomes
  <2>3. x \in Minter /\ (x.step = "record" => x.wallet = minters[m].wallet)
    BY <1>1, <2>1 DEF DirectInv, Minter
  <2> QED BY <2>2, <2>3, MinterPreserves
<1>11. ASSUME NEW m \in Minters, recordTokenMinting(m) PROVE DirectInv'
  <2>1. PICK w : w = minters[m].wallet
    OBVIOUS
  <2>2. w \in hasFirstMinted /\ minters' = [minters EXCEPT ![m] = NoMinter] /\ hasFirstMinted' = hasFirstMinted
    BY <1>11, <2>1 DEF recordTokenMinting, DirectInv
  <2>3. recorded' \in [Wallets -> Nat] /\ \A v \in Wallets \ {w} : recorded'[v] = recorded[v]
    BY <1>11, <2>1 DEF recordTokenMinting, DirectInv
  <2>4. \A n \in Minters : minters'[n] = IF n = m THEN NoMinter ELSE minters[n]
    BY <2>2 DEF DirectInv
  <2> QED BY <1>1, <2>2, <2>3, <2>4 DEF DirectInv, RecordedHasMinted
<1>12. CASE UNCHANGED mintingVars
  BY <1>2, <1>12 DEF mintingVars
<1> QED BY <1>3, <1>4, <1>5, <1>6, <1>7, <1>8, <1>9, <1>10, <1>11, <1>12 DEF DirectNext

(* Who is recorded as having minted has done so in the contract, with         *)
(* transactions that fail, waits that are given up and restarts between.     *)
THEOREM RecordedAlwaysMinted == DirectSpec => []RecordedHasMinted
<1>1. MintingInit => DirectInv
  BY DEF MintingInit, DirectInv, RecordedHasMinted, NoMinter, Minter
<1>2. DirectInv => RecordedHasMinted
  BY DEF DirectInv
<1> QED BY <1>1, <1>2, DirectStep, PTL DEF DirectSpec

-----------------------------------------------------------------------------
(* Pages.  Whatever was behind the first offset and is not read yet is on   *)
(* the page that is asked for next, or behind it.                           *)

LEMMA PagesLemma ==
  ASSUME NEW x \in Nat, NEW l \in Nat \ {0}, NEW q \in Nat
  PROVE  /\ x \div l \in Nat
         /\ x \div l = q <=> q * l <= x /\ x < q * l + l
<1>1. x \div l \in Nat /\ (x \div l) * l <= x /\ x < (x \div l) * l + l
  BY SMT
<1>2. ASSUME NEW p \in Nat, p * l <= x, x < p * l + l, NEW r \in Nat, r * l <= x, x < r * l + l
      PROVE  ~(p < r)
  <2> SUFFICES ASSUME p < r PROVE FALSE
    OBVIOUS
  <2>1. PICK d \in Nat : r = p + 1 + d
    <3>1. r - p - 1 \in Nat /\ r = p + 1 + (r - p - 1)
      OBVIOUS
    <3> QED BY <3>1
  <2>2. r * l = p * l + l + d * l /\ d * l \in Nat
    BY <2>1, SMT
  <2> QED BY <1>2, <2>2
<1>3. x \div l \in Nat /\ ~(x \div l < q) /\ ~(q < x \div l) => x \div l = q
  OBVIOUS
<1> QED BY <1>1, <1>2, <1>3

\* What is asked for is a page: the positions from q * l to before (q + 1) * l.
LEMMA NextPageLemma ==
  ASSUME NEW o \in Nat, NEW l \in Nat \ {0}
  PROVE  (o + l) \div l = o \div l + 1
<1>1. PICK q \in Nat : q = o \div l /\ q * l <= o /\ o < q * l + l
  BY PagesLemma
<1>2. (q + 1) * l = q * l + l
  BY SMT
<1>3. (o + l) \div l = q + 1
  BY <1>1, <1>2, PagesLemma
<1> QED BY <1>1, <1>3

LEMMA PageOrderLemma ==
  ASSUME NEW x \in Nat, NEW y \in Nat, x <= y, NEW l \in Nat \ {0}
  PROVE  x \div l <= y \div l
<1>1. PICK p \in Nat : p = x \div l /\ p * l <= x
  BY PagesLemma
<1>2. PICK q \in Nat : q = y \div l /\ y < q * l + l
  BY PagesLemma
<1> SUFFICES ASSUME q < p PROVE FALSE
  BY <1>1, <1>2
<1>3. PICK d \in Nat : p = q + 1 + d
  <2>1. p - q - 1 \in Nat /\ p = q + 1 + (p - q - 1)
    OBVIOUS
  <2> QED BY <2>1
<1>4. p * l = q * l + l + d * l /\ d * l \in Nat /\ q * l \in Nat
  BY <1>3, SMT
<1> QED BY <1>1, <1>2, <1>4

IsReader(x) == x = [limit |-> x.limit, from |-> x.from, offset |-> x.offset, had |-> x.had,
                    data |-> x.data, hasMore |-> x.hasMore]

\* The transfers a reader wants, and those it has or is still to read.
Wanted == {t \in 1 .. reader.had : reader.had - t >= reader.from}
Ahead(t) == (transfers - t) \div reader.limit >= reader.offset \div reader.limit

PagingInv ==
  /\ transfers \in Nat /\ IsReader(reader)
  /\ reader.limit \in Nat \ {0} /\ reader.offset \in Nat /\ reader.from \in Nat
  /\ reader.had \in Nat /\ reader.had <= transfers
  /\ \A t \in Wanted : t \in reader.data \/ (reader.hasMore /\ Ahead(t))

LEMMA PagingInvInit == HistoryInit => PagingInv
<1> SUFFICES ASSUME HistoryInit PROVE PagingInv
  OBVIOUS
<1>1. transfers \in Nat
  BY HistoryAssumption DEF HistoryInit
<1>2. PICK limit \in Limits, offset \in 0 .. MaxTransfers :
        reader = [limit |-> limit, from |-> offset, offset |-> offset, had |-> transfers,
                  data |-> {}, hasMore |-> TRUE]
  BY DEF HistoryInit
<1>3. limit \in Nat \ {0} /\ offset \in Nat
  BY HistoryAssumption
<1>4. ASSUME NEW t \in Wanted PROVE Ahead(t)
  <2>1. transfers - t \in Nat /\ transfers - t >= offset
    BY <1>1, <1>2, <1>3, <1>4 DEF Wanted
  <2> QED BY <1>2, <1>3, <2>1, PageOrderLemma DEF Ahead
<1> QED BY <1>1, <1>2, <1>3, <1>4 DEF PagingInv, IsReader

LEMMA ArrivesPreserves == ASSUME PagingInv, transferArrives PROVE PagingInv'
<1>1. transfers' = transfers + 1 /\ reader' = reader
  BY DEF transferArrives
<1>2. ASSUME NEW t \in Wanted, Ahead(t) PROVE Ahead(t)'
  <2>1. transfers - t \in Nat /\ transfers' - t = transfers - t + 1
    BY <1>1, <1>2 DEF Wanted, PagingInv
  <2>2. (transfers' - t) \div reader.limit >= (transfers - t) \div reader.limit
    BY <2>1, PageOrderLemma DEF PagingInv
  <2>3. (transfers' - t) \div reader.limit \in Nat /\ (transfers - t) \div reader.limit \in Nat
        /\ reader.offset \div reader.limit \in Nat
    BY <1>1, <2>1, PagesLemma DEF PagingInv
  <2> QED BY <1>1, <1>2, <2>2, <2>3 DEF Ahead
<1>3. Wanted' = Wanted
  BY <1>1 DEF Wanted
<1> QED BY <1>1, <1>2, <1>3 DEF PagingInv, IsReader

\* A page that is not full is the last one, and so is one Covalent says is.
LEMMA LastPageLemma ==
  ASSUME PagingInv, NEW t \in Wanted,
         LET number == page(reader.offset, reader.limit) IN
         \/ ~hasMore(pageOf(number, reader.limit), reader.limit)
         \/ ~has_more(number, reader.limit)
  PROVE  (transfers - t) \div reader.limit <= reader.offset \div reader.limit
<1>1. PICK l \in Nat \ {0} : l = reader.limit
  BY DEF PagingInv
<1>2. PICK q \in Nat : q = reader.offset \div l
  BY <1>1, PagesLemma DEF PagingInv
<1>3. page(reader.offset, reader.limit) = q + 1
  BY <1>1, <1>2 DEF page
<1>4. transfers \in Nat /\ transfers - t \in Nat /\ t \in Nat /\ t >= 1
  BY DEF Wanted, PagingInv
<1>5. PICK p \in Nat : p = (transfers - t) \div l /\ p * l <= transfers - t
  BY <1>1, <1>4, PagesLemma
<1> SUFFICES ASSUME p > q PROVE FALSE
  BY <1>1, <1>2, <1>5
<1>6. (q + 1) * l = q * l + l /\ q * l \in Nat /\ (q + 1) * l <= p * l
  <2>1. PICK d \in Nat : p = q + 1 + d
    <3>1. p - q - 1 \in Nat /\ p = q + 1 + (p - q - 1)
      BY <1>2, <1>5
    <3> QED BY <3>1
  <2>2. (q + 1) * l = q * l + l /\ q * l \in Nat
    BY SMT
  <2>3. p * l = q * l + l + d * l /\ d * l \in Nat
    BY <2>1, SMT
  <2> QED BY <2>2, <2>3
<1>7. PICK s \in Nat : s = q * l
  BY <1>6
<1>8. transfers - t >= s + l
  BY <1>4, <1>5, <1>6, <1>7
<1>9. ~has_more(q + 1, l) => FALSE
  BY <1>4, <1>6, <1>7, <1>8 DEF has_more
<1>10. pageOf(q + 1, l) = (transfers - s - l + 1) .. (transfers - s)
  <2>1. ASSUME NEW u \in 1 .. transfers
        PROVE  (transfers - u) \div l + 1 = q + 1 <=> u \in (transfers - s - l + 1) .. (transfers - s)
    <3>1. transfers - u \in Nat
      BY <1>4
    <3>2. (transfers - u) \div l = q <=> s <= transfers - u /\ transfers - u < s + l
      BY <1>7, <3>1, PagesLemma
    <3>3. (transfers - u) \div l \in Nat
      BY <3>1, PagesLemma
    <3> QED BY <1>4, <3>2, <3>3
  <2>2. (transfers - s - l + 1) .. (transfers - s) \subseteq 1 .. transfers
    BY <1>4, <1>8
  <2> QED BY <2>1, <2>2 DEF pageOf
<1>11. Cardinality(pageOf(q + 1, l)) = l
  <2>1. transfers - s - l + 1 \in Int /\ transfers - s \in Int
    BY <1>4
  <2> QED BY <1>4, <1>10, <2>1, FS_Interval
<1>12. ~hasMore(pageOf(q + 1, l), l) => FALSE
  BY <1>11 DEF hasMore
<1> QED BY <1>1, <1>3, <1>9, <1>12

LEMMA PagePreserves == ASSUME PagingInv, getTokenTransfers PROVE PagingInv'
<1>1. PICK number : number = page(reader.offset, reader.limit)
  OBVIOUS
<1>2. PICK data, more :
        /\ data = pageOf(number, reader.limit)
        /\ more = IF api = "etherscan" THEN hasMore(data, reader.limit) ELSE has_more(number, reader.limit)
  OBVIOUS
<1>3. /\ reader' = [reader EXCEPT !.data = @ \cup data, !.offset = @ + reader.limit, !.hasMore = more]
      /\ reader.hasMore /\ transfers' = transfers
  BY <1>1, <1>2 DEF getTokenTransfers
<1>4. reader' = [limit |-> reader.limit, from |-> reader.from, offset |-> reader.offset + reader.limit,
                 had |-> reader.had, data |-> reader.data \cup data, hasMore |-> more]
  <2>1. PICK x : x = reader
    OBVIOUS
  <2>2. IsReader(x) /\ reader' = [x EXCEPT !.data = x.data \cup data, !.offset = x.offset + x.limit, !.hasMore = more]
    BY <1>3, <2>1 DEF PagingInv
  <2> QED BY ONLY <2>1, <2>2 DEF IsReader
<1>5. Wanted' = Wanted
  BY <1>4 DEF Wanted
<1>6. ASSUME NEW t \in Wanted, t \notin reader.data \cup data PROVE more /\ Ahead(t)'
  <2>1. transfers - t \in Nat /\ t \in 1 .. transfers
    BY DEF Wanted, PagingInv
  <2>2. Ahead(t)
    BY <1>6 DEF PagingInv
  <2>3. PICK p, q \in Nat : p = (transfers - t) \div reader.limit /\ q = reader.offset \div reader.limit
    BY <2>1, PagesLemma DEF PagingInv
  <2>4. p >= q /\ p # q
    BY <1>1, <1>2, <1>6, <2>1, <2>2, <2>3 DEF Ahead, page, pageOf
  <2>5. more
    BY <1>1, <1>2, <2>3, <2>4, LastPageLemma
  <2>6. (reader.offset + reader.limit) \div reader.limit = q + 1
    BY <2>3, NextPageLemma DEF PagingInv
  <2> QED BY <1>3, <1>4, <2>3, <2>4, <2>5, <2>6 DEF Ahead
<1>7. \A t \in Wanted' : t \in reader'.data \/ (reader'.hasMore /\ Ahead(t)')
  BY <1>4, <1>5, <1>6
<1>8. /\ IsReader(reader') /\ reader'.limit = reader.limit /\ reader'.from = reader.from
      /\ reader'.had = reader.had /\ reader'.offset = reader.offset + reader.limit
  BY ONLY <1>4 DEF IsReader
<1>9. (transfers \in Nat /\ IsReader(reader)
        /\ reader.limit \in Nat \ {0} /\ reader.offset \in Nat /\ reader.from \in Nat
        /\ reader.had \in Nat /\ reader.had <= transfers)'
  BY <1>3, <1>8 DEF PagingInv
<1> QED BY <1>7, <1>9 DEF PagingInv

LEMMA PagingStep == ASSUME PagingInv, [HistoryNext]_historyVars PROVE PagingInv'
<1>1. ASSUME UNCHANGED <<transfers, reader>> PROVE PagingInv'
  BY <1>1 DEF PagingInv, IsReader, Wanted, Ahead
<1>2. CASE transferArrives \/ getTokenTransfers
  BY <1>2, ArrivesPreserves, PagePreserves
<1>3. CASE transactionSettles \/ getTransactionByHash \/ receiptFetched \/ covalentFetched
           \/ blockFetched \/ lookupFails
  BY <1>1, <1>3 DEF transactionSettles, getTransactionByHash, receiptFetched, covalentFetched,
    blockFetched, lookupFails
<1>4. CASE UNCHANGED historyVars
  BY <1>1, <1>4 DEF historyVars
<1> QED BY <1>2, <1>3, <1>4 DEF HistoryNext

(* A client that pages until there are no more has every transfer it set out *)
(* to read, for any page size and first offset, however many come meanwhile. *)
THEOREM PagingAlwaysMissesNothing == HistorySpec => []PagingMissesNothing
<1>1. PagingInv => PagingMissesNothing
  BY DEF PagingInv, PagingMissesNothing, Wanted
<1> QED BY <1>1, PagingInvInit, PagingStep, PTL DEF HistorySpec

-----------------------------------------------------------------------------
(* The rotation of a network's endpoints, for lists of every length.       *)

-----------------------------------------------------------------------------
(* Arithmetic of the ring of endpoints.                                     *)
LEMMA RingStays ==
  ASSUME NEW i \in Endpoints, NEW k \in Nat
  PROVE  (i + k) % endpointCount \in Endpoints
  BY EndpointsAssumption DEF Endpoints

(* Every endpoint is the k-th after the current one, for a k of a round.    *)
LEMMA RingReaches ==
  ASSUME currentRpcIndex \in Endpoints, NEW e \in Endpoints
  PROVE  \E k \in 1 .. endpointCount : after(k) = e
<1> DEFINE n == endpointCount
           i == currentRpcIndex
<1>0. n \in Nat \ {0} /\ i \in 0 .. n - 1 /\ e \in 0 .. n - 1
  BY EndpointsAssumption DEF Endpoints
<1>1. CASE e > i
  <2>1. e - i \in 1 .. n /\ i + (e - i) = e
    BY <1>0, <1>1
  <2>2. e % n = e
    BY <1>0
  <2> QED BY <2>1, <2>2 DEF after
<1>2. CASE e <= i
  <2>1. n + e - i \in 1 .. n /\ i + (n + e - i) = n + e
    BY <1>0, <1>2
  <2>2. (n + e) % n = e
    BY <1>0
  <2> QED BY <2>1, <2>2 DEF after
<1> QED BY <1>0, <1>1, <1>2

(* The least member of a set of numbers is one of its members.              *)
LEMMA MinIsMember ==
  ASSUME NEW S, S \subseteq Nat, S # {}
  PROVE  Min(S) \in S
<1>1. PICK x \in S : \A y \in S : ~ (y < x)
  <2>1. PICK x \in S : \A y \in S : ~ (<<y, x>> \in OpToRel(<, Nat))
    BY WFMin, NatLessThanWellFounded, Zenon
  <2>2. \A y \in Nat : y < x => <<y, x>> \in OpToRel(<, Nat)
    BY Zenon DEF OpToRel
  <2> QED BY <2>1, <2>2, Zenon
<1>2. \A y \in S : x <= y
  BY <1>1
<1> QED BY <1>2 DEF Min

(* The next index is in the list; it is one that failed recently only if    *)
(* all did.                                                                 *)
LEMMA NextIndexUsable ==
  ASSUME currentRpcIndex \in Endpoints, NEW failed
  PROVE  /\ nextIndex(failed) \in Endpoints
         /\ \/ failed[nextIndex(failed)] # "recent"
            \/ \A e \in Endpoints : failed[e] = "recent"
<1> DEFINE usable == {k \in 1 .. endpointCount : failed[after(k)] # "recent"}
<1>1. \A k \in 1 .. endpointCount : after(k) \in Endpoints
  BY RingStays, EndpointsAssumption DEF after
<1>2. CASE usable = {}
  <2>1. nextIndex(failed) = after(1)
    BY <1>2 DEF nextIndex
  <2>2. ASSUME NEW e \in Endpoints PROVE failed[e] = "recent"
    <3>1. PICK k \in 1 .. endpointCount : after(k) = e
      BY RingReaches
    <3> QED BY <3>1, <1>2
  <2>3. 1 \in 1 .. endpointCount
    BY EndpointsAssumption
  <2> QED BY <2>1, <2>2, <2>3, <1>1
<1>3. CASE usable # {}
  <2>1. Min(usable) \in usable
    BY <1>3, MinIsMember, EndpointsAssumption
  <2>2. nextIndex(failed) = after(Min(usable))
    BY <1>3 DEF nextIndex
  <2> HIDE DEF usable
  <2>3. Min(usable) \in 1 .. endpointCount /\ failed[after(Min(usable))] # "recent"
    BY <2>1 DEF usable
  <2> QED BY <2>2, <2>3, <1>1
<1> QED BY <1>2, <1>3

-----------------------------------------------------------------------------
(* What a rotation needs of the state it starts in.                         *)
IndexInRing ==
  /\ currentRpcIndex \in Endpoints
  /\ failedEndpoints \in [Endpoints -> {"none", "recent", "past"}]

LEMMA RotationStep ==
  ASSUME IndexInRing, NEW failed \in [Endpoints -> {"none", "recent", "past"}],
         rotateRpcEndpoint(failed)
  PROVE  IndexInRing' /\ LandsOnUsable
<1> DEFINE next == nextIndex(failed)
<1>1. /\ next \in Endpoints
      /\ failed[next] # "recent" \/ \A e \in Endpoints : failed[e] = "recent"
  BY NextIndexUsable DEF IndexInRing
<1>2. CASE endpointCount = 1
  BY <1>2 DEF rotateRpcEndpoint, IndexInRing, LandsOnUsable
<1>3. CASE endpointCount # 1
  <2>1. /\ currentRpcIndex' = next
        /\ failedEndpoints' = [failed EXCEPT ![next] = IF @ = "past" THEN "none" ELSE @]
    BY <1>3 DEF rotateRpcEndpoint
  <2> HIDE DEF next
  <2>2. failedEndpoints'[next] = IF failed[next] = "past" THEN "none" ELSE failed[next]
    BY <1>1, <2>1
  <2>3. IndexInRing'
    BY <1>1, <2>1 DEF IndexInRing
  <2>4. failed[next] # "recent" => failedEndpoints'[next] # "recent"
    BY <2>2
  <2>5. ASSUME \A e \in Endpoints : failed[e] = "recent"
        PROVE  \A e \in Endpoints : failedEndpoints'[e] = "recent"
    BY <1>1, <2>1, <2>5
  <2> QED BY <1>1, <2>1, <2>3, <2>4, <2>5 DEF LandsOnUsable
<1> QED BY <1>2, <1>3

LEMMA HandlersStep ==
  ASSUME IndexInRing, [HandlersNext]_handlerVars
  PROVE  IndexInRing' /\ LandsOnUsable
<1>1. CASE rotateEndpoint
  BY <1>1, RotationStep DEF rotateEndpoint, IndexInRing
<1>2. ASSUME NEW e \in Endpoints, markEndpointFailed(e) PROVE IndexInRing' /\ LandsOnUsable
  <2>1. [failedEndpoints EXCEPT ![e] = "recent"] \in [Endpoints -> {"none", "recent", "past"}]
    BY DEF IndexInRing
  <2> QED BY <1>2, <2>1, RotationStep DEF markEndpointFailed
<1>3. ASSUME NEW e \in Endpoints, recoveryTimePasses(e) PROVE IndexInRing' /\ LandsOnUsable
  BY <1>3 DEF recoveryTimePasses, IndexInRing, LandsOnUsable, Endpoints
<1>4. ASSUME NEW b \in BalanceCalls, getBalance(b) \/ attemptFails(b) \/ balanceAnswered(b)
      PROVE  IndexInRing' /\ LandsOnUsable
  BY <1>4 DEF getBalance, attemptFails, balanceAnswered, IndexInRing, LandsOnUsable, Endpoints
<1>5. CASE UNCHANGED handlerVars
  BY <1>5 DEF handlerVars, IndexInRing, LandsOnUsable, Endpoints
<1> QED BY <1>1, <1>2, <1>3, <1>4, <1>5 DEF HandlersNext

LEMMA IndexAlwaysInRing == HandlersSpec => []IndexInRing
<1>1. HandlersInit => IndexInRing
  BY EndpointsAssumption DEF HandlersInit, IndexInRing, Endpoints
<1> QED BY <1>1, HandlersStep, PTL DEF HandlersSpec

(* A rotation lands on an endpoint that has failed recently only when all   *)
(* have.                                                                    *)
THEOREM RotationsFindUsable == HandlersSpec => RotationFindsUsable
<1>1. IndexInRing /\ [HandlersNext]_handlerVars => [LandsOnUsable]_handlerVars
  BY HandlersStep
<1> QED BY <1>1, IndexAlwaysInRing, PTL DEF HandlersSpec, RotationFindsUsable

-----------------------------------------------------------------------------
(* The types of the services, from their invariants and what these leave    *)
(* open.                                                                    *)

ClockInv == today \in 0..MaxTime

LEMMA ClockStep == ASSUME ClockInv, [StakingNext]_stakingVars PROVE ClockInv'
<1>1. ASSUME UNCHANGED today PROVE ClockInv'
  BY <1>1 DEF ClockInv
<1>2. CASE passes
  BY <1>2, StakingAssumption DEF passes, ClockInv
<1>3. ASSUME NEW p \in Positions, createStakingPosition(p) PROVE ClockInv'
  BY <1>1, <1>3 DEF createStakingPosition
<1>4. ASSUME NEW p \in Positions, NEW c \in Claims,
             claimRewards(c, p) \/ autoClaim(c, p) \/ withdrawStakingPosition(c, p)
      PROVE  ClockInv'
  BY <1>1, <1>4 DEF claimRewards, autoClaim, withdrawStakingPosition, reads
<1>5. ASSUME NEW c \in Claims,
             calculateRewards(c) \/ stampClaim(c) \/ stampWithdrawal(c) \/ saves(c) \/ claimFails(c)
      PROVE  ClockInv'
  BY <1>1, <1>5 DEF calculateRewards, stampClaim, stampWithdrawal, saves, claimFails
<1>6. CASE UNCHANGED stakingVars
  BY <1>1, <1>6 DEF stakingVars
<1> QED BY <1>2, <1>3, <1>4, <1>5, <1>6 DEF StakingNext

LEMMA StakingTyped == StakingInv /\ ClockInv => StakingTypeOK
<1> SUFFICES ASSUME StakingInv, ClockInv PROVE StakingTypeOK
  OBVIOUS
<1>1. ASSUME NEW p \in Positions
      PROVE  /\ positions[p].status \in {"none", "active", "withdrawn_early", "completed"}
             /\ positions[p].lastClaimTime \in 0..today /\ staked[p] \in 0..today
  <2>1. /\ positions[p] \in PositionRow /\ staked[p] \in Nat /\ staked[p] <= today
        /\ positions[p].lastClaimTime <= today /\ today \in Nat
    BY DEF StakingInv, RowsOK
  <2> QED BY <2>1 DEF PositionRow
<1>2. ASSUME NEW c \in Claims
      PROVE  /\ claims[c].step \in {"idle", "price", "stamp", "update", "withdraw", "close"}
             /\ claims[c].row.lastClaimTime \in 0..today
  <2>1. ClaimOK(claims[c]) /\ today \in Nat
    BY DEF StakingInv, RowsOK
  <2>2. CASE claims[c] = NoClaim
    <3>1. NoClaim.step = "idle" /\ NoClaim.row.lastClaimTime = 0
      BY DEF NoClaim, NoRow
    <3> QED BY <2>1, <2>2, <3>1
  <2>3. CASE claims[c] # NoClaim
    <3>1. /\ claims[c].step \in {"price", "stamp", "update", "withdraw", "close"}
          /\ claims[c].row.lastClaimTime \in Nat /\ claims[c].row.lastClaimTime <= today
      BY <2>1, <2>3 DEF ClaimOK, ClaimInHand, PositionRow
    <3> QED BY <2>1, <3>1
  <2> QED BY <2>2, <2>3
<1>3. overtaken \subseteq Positions
  BY DEF StakingInv, RowsOK
<1> QED BY <1>1, <1>2, <1>3 DEF ClockInv, StakingTypeOK

-----------------------------------------------------------------------------
(* Transfers: a nonce counts transactions, and nobody spends what he has    *)
(* not.                                                                     *)
FundsInv ==
  /\ \A c \in Sends : sends[c].from \in Owners /\ sends[c].nonce \in 0..Cardinality(Sends)
  /\ funds \in [Owners -> 0..MaxFunds]

LEMMA NonceBounded ==
  ASSUME SendsInv, NEW a PROVE pendingNonce(a) \in 0..Cardinality(Sends)
<1>1. {c \in DOMAIN mined \cup pool : sends[c].from = a} \subseteq Sends
  BY DEF SendsInv
<1>2. IsFiniteSet(Sends)
  BY HotWalletAssumption
<1>3. /\ Cardinality(Sends) \in Nat
      /\ Cardinality({c \in DOMAIN mined \cup pool : sends[c].from = a}) \in Nat
      /\ Cardinality({c \in DOMAIN mined \cup pool : sends[c].from = a}) <= Cardinality(Sends)
  BY <1>1, <1>2, FS_Subset, FS_CardinalityType
<1> QED BY <1>3 DEF pendingNonce

LEMMA FundsInvInit == HotWalletInit => FundsInv
<1> SUFFICES ASSUME HotWalletInit PROVE FundsInv
  OBVIOUS
<1>1. NoSend.from \in Owners /\ NoSend.nonce = 0
  BY HotWalletAssumption DEF NoSend
<1>2. 0 \in 0..Cardinality(Sends)
  BY HotWalletAssumption, FS_CardinalityType
<1> QED BY <1>1, <1>2 DEF HotWalletInit, FundsInv

\* A call takes on what its next step needs.
LEMMA CallTyped ==
  ASSUME SendsInv, FundsInv, NEW c \in Sends, NEW x, sends' = [sends EXCEPT ![c] = x],
         x.from \in Owners, x.nonce \in 0..Cardinality(Sends), funds' = funds
  PROVE  FundsInv'
<1>1. \A d \in Sends : sends'[d] = IF d = c THEN x ELSE sends[d]
  BY DEF SendsInv
<1> QED BY <1>1 DEF FundsInv

LEMMA ToTyped ==
  ASSUME SendsInv, FundsInv, NEW c \in Sends, NEW s, to(c, s), funds' = funds PROVE FundsInv'
<1>1. PICK x : x = [sends[c] EXCEPT !.step = s]
  OBVIOUS
<1>2. x.from = sends[c].from /\ x.nonce = sends[c].nonce
  BY <1>1 DEF SendsInv, IsSend
<1> QED BY <1>1, <1>2, CallTyped DEF to, FundsInv

LEMMA FundsStep == ASSUME SendsInv, FundsInv, [HotWalletNext]_hotWalletVars PROVE FundsInv'
<1>1. ASSUME UNCHANGED <<sends, funds>> PROVE FundsInv'
  BY <1>1 DEF FundsInv
<1>2. ASSUME NEW n \in Networks, NEW a \in Owners, importFromMnemonic(n, a) \/ removeWallet(n, a)
      PROVE  FundsInv'
  BY <1>1, <1>2 DEF importFromMnemonic, removeWallet, chainVars
<1>3. CASE clearWallets \/ rotateEncryptionKey
  BY <1>1, <1>3 DEF clearWallets, rotateEncryptionKey, chainVars
<1>4. ASSUME NEW n \in Networks, NEW a \in Owners, NEW c \in Sends, sendTransaction(c, n, a) PROVE FundsInv'
  <2>1. PICK plain : sends' = [sends EXCEPT ![c] =
                       [NoSend EXCEPT !.step = "simulate", !.from = a, !.plain = plain]]
    BY <1>4 DEF sendTransaction
  <2>2. PICK x : x = [NoSend EXCEPT !.step = "simulate", !.from = a, !.plain = plain]
    OBVIOUS
  <2>3. 0 \in 0..Cardinality(Sends)
    BY HotWalletAssumption, FS_CardinalityType
  <2>4. x.from = a /\ x.nonce = 0
    BY <2>2 DEF NoSend
  <2>5. funds' = funds
    BY <1>4 DEF sendTransaction, chainVars
  <2> QED BY <2>1, <2>2, <2>3, <2>4, <2>5, CallTyped
<1>5. ASSUME NEW c \in Sends,
             \/ simulateTransaction(c) \/ checkBalance(c) \/ accepted(c) \/ refused(c)
             \/ receipt(c) \/ sendTokenTransaction(c)
      PROVE  FundsInv'
  <2>1. funds' = funds /\ \E s : to(c, s)
    BY <1>5 DEF simulateTransaction, checkBalance, accepted, refused, receipt, sendTokenTransaction, chainVars
  <2> QED BY <2>1, ToTyped
<1>6. ASSUME NEW c \in Sends, populateTransaction(c) PROVE FundsInv'
  <2>1. PICK n : n = pendingNonce(sends[c].from)
    OBVIOUS
  <2>2. PICK x : x = [sends[c] EXCEPT !.step = "broadcast", !.nonce = n]
    OBVIOUS
  <2>3. x.from = sends[c].from /\ x.nonce = n
    BY <2>2 DEF SendsInv, IsSend
  <2>4. sends' = [sends EXCEPT ![c] = x] /\ funds' = funds
    BY <1>6, <2>1, <2>2 DEF populateTransaction, chainVars
  <2>5. n \in 0..Cardinality(Sends) /\ sends[c].from \in Owners
    BY <2>1, NonceBounded DEF FundsInv
  <2> QED BY <2>3, <2>4, <2>5, CallTyped
<1>7. ASSUME NEW c \in Sends, mine(c) PROVE FundsInv'
  <2>1. PICK a \in Owners : a = sends[c].from
    BY DEF FundsInv
  <2>2. /\ sends' = sends
        /\ funds' = funds \/ (funds[a] > 0 /\ funds' = [funds EXCEPT ![a] = @ - 1])
    BY <1>7, <2>1 DEF mine, keyVars
  <2>3. funds[a] \in 0..MaxFunds
    BY DEF FundsInv
  <2>4. funds[a] > 0 => funds[a] - 1 \in 0..MaxFunds
    BY <2>3, HotWalletAssumption
  <2> QED BY <2>2, <2>4 DEF FundsInv
<1>8. CASE UNCHANGED hotWalletVars
  BY <1>1, <1>8 DEF hotWalletVars, chainVars
<1> QED BY <1>2, <1>3, <1>4, <1>5, <1>6, <1>7, <1>8 DEF HotWalletNext

LEMMA HotWalletTyped == SendsInv /\ KeysInv /\ FundsInv => HotWalletTypeOK
<1> SUFFICES ASSUME SendsInv, KeysInv, FundsInv PROVE HotWalletTypeOK
  OBVIOUS
<1>1. RotationReachesAll
  BY DEF KeysInv, KeyOK, RotationReachesAll, opens
<1>2. \A w \in DOMAIN stored : stored[w].layers \in Seq(1..MaxKey) /\ stored[w].encrypted \in BOOLEAN
  BY DEF KeysInv, KeyOK, KeyNumbers
<1> QED BY <1>1, <1>2 DEF SendsInv, KeysInv, KeyNumbers, FundsInv, HotWalletTypeOK

-----------------------------------------------------------------------------
(* Nonces.  Of every address the transfers held have the nonces that follow *)
(* those mined, each of them once, and what a call is about to broadcast    *)
(* has one of theirs or the next.                                           *)

Held(a) == {c \in pool : sends[c].from = a}
MinedCount(a) == Cardinality(minedOf(a))
FreeNonce(a) == MinedCount(a) + Cardinality(Held(a))

NoncesOK(a) ==
  /\ \A c \in Held(a) : MinedCount(a) <= sends[c].nonce /\ sends[c].nonce < FreeNonce(a)
  /\ \A c, d \in Held(a) : sends[c].nonce = sends[d].nonce => c = d
  /\ \A n \in Nat : MinedCount(a) <= n /\ n < FreeNonce(a) => \E d \in Held(a) : sends[d].nonce = n
  /\ \A c \in Sends : sends[c].from = a /\ sends[c].step = "broadcast" => sends[c].nonce <= FreeNonce(a)

NonceInv == \A a \in Owners : NoncesOK(a)

LEMMA Counted ==
  ASSUME SendsInv, NEW a
  PROVE  /\ IsFiniteSet(Held(a)) /\ IsFiniteSet(minedOf(a))
         /\ Cardinality(Held(a)) \in Nat /\ MinedCount(a) \in Nat /\ FreeNonce(a) \in Nat
         /\ pendingNonce(a) = FreeNonce(a)
<1>1. Held(a) \in SUBSET Sends /\ minedOf(a) \in SUBSET Sends /\ Held(a) \cap minedOf(a) = {}
  BY DEF SendsInv, Held, minedOf
<1>2. /\ IsFiniteSet(Held(a)) /\ IsFiniteSet(minedOf(a))
      /\ Cardinality(Held(a)) \in Nat /\ MinedCount(a) \in Nat
  <2>1. IsFiniteSet(Held(a)) /\ IsFiniteSet(minedOf(a))
    BY <1>1, HotWalletAssumption, FS_Subset
  <2>2. Cardinality(Held(a)) \in Nat /\ Cardinality(minedOf(a)) \in Nat
    BY <2>1, FS_CardinalityType
  <2> QED BY <2>1, <2>2 DEF MinedCount
<1>3. Cardinality(minedOf(a) \cup Held(a)) = Cardinality(minedOf(a)) + Cardinality(Held(a)) - Cardinality({})
  <2>1. minedOf(a) \cap Held(a) = {}
    BY <1>1
  <2> QED BY <1>2, <2>1, FS_Union
<1>4. {c \in DOMAIN mined \cup pool : sends[c].from = a} = minedOf(a) \cup Held(a)
  BY DEF minedOf, Held
<1>5. Cardinality(minedOf(a) \cup Held(a)) = FreeNonce(a)
  BY <1>2, <1>3, FS_EmptySet DEF FreeNonce, MinedCount
<1>6. pendingNonce(a) = Cardinality(minedOf(a) \cup Held(a))
  BY <1>4, Zenon DEF pendingNonce
<1>7. FreeNonce(a) \in Nat
  BY <1>2 DEF FreeNonce
<1> QED BY <1>2, <1>5, <1>6, <1>7

LEMMA NonceInvInit == HotWalletInit => NonceInv
<1> SUFFICES ASSUME HotWalletInit, NEW a \in Owners PROVE NoncesOK(a)
  BY DEF NonceInv
<1>1. Held(a) = {} /\ minedOf(a) = {}
  BY DEF HotWalletInit, Held, minedOf
<1>2. MinedCount(a) = 0 /\ FreeNonce(a) = 0
  BY <1>1, FS_EmptySet DEF MinedCount, FreeNonce
<1>3. \A c \in Sends : sends[c].step # "broadcast"
  BY DEF HotWalletInit, NoSend
<1> QED BY <1>1, <1>2, <1>3 DEF NoncesOK

\* The chain stands still: a call may take the next free nonce of its address.
LEMMA CallKeepsNonces ==
  ASSUME SendsInv, NonceInv, UNCHANGED <<pool, mined>>,
         \A c \in pool \cup DOMAIN mined :
           sends'[c].from = sends[c].from /\ sends'[c].nonce = sends[c].nonce,
         \A c \in Sends : sends'[c].step = "broadcast" =>
           \/ /\ sends[c].step = "broadcast" /\ sends'[c].from = sends[c].from
              /\ sends'[c].nonce = sends[c].nonce
           \/ sends'[c].nonce = FreeNonce(sends'[c].from)
  PROVE  NonceInv'
<1> SUFFICES ASSUME NEW a \in Owners PROVE NoncesOK(a)'
  BY DEF NonceInv
<1>1. Held(a)' = Held(a) /\ minedOf(a)' = minedOf(a)
  BY DEF Held, minedOf
<1>2. MinedCount(a)' = MinedCount(a) /\ FreeNonce(a)' = FreeNonce(a)
  BY <1>1 DEF MinedCount, FreeNonce
<1>3. \A c \in Held(a) : sends'[c].nonce = sends[c].nonce
  BY DEF Held
<1>4. NoncesOK(a) /\ FreeNonce(a) \in Nat
  BY Counted DEF NonceInv
<1>5. ASSUME NEW c \in Sends, sends'[c].from = a, sends'[c].step = "broadcast"
      PROVE  sends'[c].nonce <= FreeNonce(a)
  BY <1>4, <1>5 DEF NoncesOK
<1> QED BY <1>1, <1>2, <1>3, <1>4, <1>5 DEF NoncesOK

\* A call goes on that neither has broadcast before nor broadcasts next.
LEMMA StepKeepsNonces ==
  ASSUME SendsInv, NonceInv, NEW c \in Sends, NEW s, s # "broadcast", to(c, s), UNCHANGED <<pool, mined>>
  PROVE  NonceInv'
<1>1. \A d \in Sends : /\ sends'[d].from = sends[d].from /\ sends'[d].nonce = sends[d].nonce
                       /\ sends'[d].step = IF d = c THEN s ELSE sends[d].step
  BY DEF SendsInv, IsSend, to
<1>2. pool \cup DOMAIN mined \subseteq Sends
  BY DEF SendsInv
<1> QED BY <1>1, <1>2, CallKeepsNonces

LEMMA NewKeepsNonces ==
  ASSUME SendsInv, NonceInv, NEW c \in Sends, NEW x, ~HasSent(sends[c]), UNCHANGED <<pool, mined>>,
         sends' = [sends EXCEPT ![c] = x], x.step = "broadcast" => x.nonce = FreeNonce(x.from)
  PROVE  NonceInv'
<1>1. \A d \in Sends : sends'[d] = IF d = c THEN x ELSE sends[d]
  BY DEF SendsInv
<1>2. c \notin pool \cup DOMAIN mined /\ pool \cup DOMAIN mined \subseteq Sends
  BY DEF SendsInv
<1>3. \A d \in pool \cup DOMAIN mined : sends'[d] = sends[d]
  BY <1>1, <1>2
<1> QED BY <1>1, <1>3, CallKeepsNonces

LEMMA AcceptedKeepsNonces == ASSUME SendsInv, NonceInv, FundsInv, NEW c \in Sends, accepted(c) PROVE NonceInv'
<1>1. PICK a \in Owners : a = sends[c].from
  BY DEF FundsInv
<1>2. PICK k \in Nat : k = sends[c].nonce
  BY HotWalletAssumption, FS_CardinalityType DEF FundsInv
<1>3. PICK s : s \in {"wait", "failed"} /\ to(c, s)
  BY DEF accepted, afterBroadcast
<1>4. /\ sends[c].step = "broadcast" /\ MinedCount(a) <= k
      /\ pool' = (pool \ rivals(c)) \cup {c} /\ mined' = mined
  BY <1>1, <1>2 DEF accepted, MinedCount
<1>5. \A d \in Sends : /\ sends'[d].from = sends[d].from /\ sends'[d].nonce = sends[d].nonce
                       /\ sends'[d].step = IF d = c THEN s ELSE sends[d].step
  BY <1>3 DEF SendsInv, IsSend, to
<1>6. c \notin pool /\ c \notin DOMAIN mined /\ pool \subseteq Sends /\ DOMAIN mined \subseteq Sends
  BY <1>4 DEF SendsInv, HasSent
<1>7. \A b : minedOf(b)' = minedOf(b) /\ MinedCount(b)' = MinedCount(b)
  BY <1>4, <1>5, <1>6 DEF minedOf, MinedCount
<1>8. ASSUME NEW b \in Owners, b # a PROVE NoncesOK(b)'
  <2>1. Held(b)' = Held(b)
    BY <1>1, <1>4, <1>5, <1>6, <1>8 DEF Held, rivals
  <2>2. FreeNonce(b)' = FreeNonce(b) /\ NoncesOK(b)
    BY <1>7, <2>1 DEF FreeNonce, NonceInv
  <2>3. \A d \in Held(b) : sends'[d].nonce = sends[d].nonce
    BY <1>5, <1>6 DEF Held
  <2>4. \A d \in Sends : sends'[d].from = b /\ sends'[d].step = "broadcast" =>
          sends[d].from = b /\ sends[d].step = "broadcast" /\ sends'[d].nonce = sends[d].nonce
    BY <1>3, <1>5
  <2> QED BY <1>7, <2>1, <2>2, <2>3, <2>4 DEF NoncesOK
<1>9. NoncesOK(a)'
  <2>1. /\ NoncesOK(a) /\ FreeNonce(a) \in Nat /\ k <= FreeNonce(a) /\ MinedCount(a) \in Nat
        /\ IsFiniteSet(Held(a)) /\ Cardinality(Held(a)) \in Nat
    BY <1>1, <1>2, <1>4, Counted DEF NonceInv, NoncesOK
  <2>2. rivals(c) = {d \in Held(a) : sends[d].nonce = k}
    BY <1>1, <1>2 DEF rivals, Held
  <2>3. Held(a)' = (Held(a) \ rivals(c)) \cup {c} /\ c \notin Held(a)
    BY <1>1, <1>4, <1>5, <1>6 DEF Held, rivals
  <2>4. \A d \in Held(a) \cup {c} : sends'[d].nonce = sends[d].nonce /\ sends[d].nonce \in Nat
    BY <1>5, <1>6, HotWalletAssumption, FS_CardinalityType DEF Held, FundsInv
  <2>5. \A d \in Sends : sends'[d].from = a /\ sends'[d].step = "broadcast" =>
          sends[d].from = a /\ sends[d].step = "broadcast" /\ sends'[d].nonce = sends[d].nonce
    BY <1>3, <1>5
  <2>6. CASE rivals(c) = {}
    <3>1. k = FreeNonce(a)
      BY <1>4, <2>1, <2>2, <2>6 DEF NoncesOK
    <3>2. Held(a)' = Held(a) \cup {c}
      BY <2>3, <2>6
    <3>3. FreeNonce(a)' = FreeNonce(a) + 1
      <4>1. Cardinality(Held(a) \cup {c}) = Cardinality(Held(a)) + 1
        BY <2>1, <2>3, FS_AddElement
      <4>2. Cardinality(Held(a)') = Cardinality(Held(a)) + 1
        BY <3>2, <4>1
      <4> QED BY <1>7, <2>1, <4>2 DEF FreeNonce
    <3>4. \A d \in Held(a) : MinedCount(a) <= sends[d].nonce /\ sends[d].nonce < FreeNonce(a)
      BY <2>1 DEF NoncesOK
    <3>5. \A d, e \in Held(a) \cup {c} : sends[d].nonce = sends[e].nonce => d = e
      <4>1. \A d, e \in Held(a) : sends[d].nonce = sends[e].nonce => d = e
        BY <2>1 DEF NoncesOK
      <4>2. \A d \in Held(a) : sends[d].nonce # sends[c].nonce
        BY <1>2, <2>2, <2>6
      <4> QED BY <4>1, <4>2
    <3>6. \A n \in Nat : MinedCount(a) <= n /\ n < FreeNonce(a) + 1 =>
            \E d \in Held(a) \cup {c} : sends[d].nonce = n
      <4> SUFFICES ASSUME NEW n \in Nat, MinedCount(a) <= n, n < FreeNonce(a) + 1
                   PROVE  \E d \in Held(a) \cup {c} : sends[d].nonce = n
        OBVIOUS
      <4>1. CASE n = k
        BY <1>2, <4>1
      <4>2. CASE n # k
        <5>1. n < FreeNonce(a)
          BY <2>1, <3>1, <4>2
        <5> QED BY <2>1, <5>1 DEF NoncesOK
      <4> QED BY <4>1, <4>2
    <3>7. \A d \in Held(a) \cup {c} : MinedCount(a) <= sends[d].nonce /\ sends[d].nonce < FreeNonce(a) + 1
      <4> SUFFICES ASSUME NEW d \in Held(a) \cup {c}
                   PROVE  MinedCount(a) <= sends[d].nonce /\ sends[d].nonce < FreeNonce(a) + 1
        OBVIOUS
      <4>1. CASE d = c
        <5>1. sends[d].nonce = k /\ MinedCount(a) <= k
          BY <1>2, <1>4, <4>1
        <5>2. k < FreeNonce(a) + 1
          BY <2>1, <3>1
        <5> QED BY <5>1, <5>2
      <4>2. CASE d \in Held(a)
        <5>1. sends[d].nonce \in Nat
          BY <2>4, <4>2
        <5> QED BY <2>1, <3>4, <4>2, <5>1
      <4> QED BY <4>1, <4>2
    <3>8. \A d \in Sends : sends'[d].from = a /\ sends'[d].step = "broadcast" =>
            sends'[d].nonce <= FreeNonce(a) + 1
      <4>1. \A d \in Sends : sends[d].nonce \in Nat
        BY HotWalletAssumption, FS_CardinalityType DEF FundsInv
      <4> QED BY <2>1, <2>5, <4>1 DEF NoncesOK
    <3> QED BY <1>7, <2>4, <3>2, <3>3, <3>5, <3>6, <3>7, <3>8 DEF NoncesOK
  <2>7. CASE rivals(c) # {}
    <3>1. PICK r \in Held(a) : sends[r].nonce = k
      BY <2>2, <2>7
    <3>2. rivals(c) = {r}
      BY <2>1, <2>2, <3>1 DEF NoncesOK
    <3>3. Held(a)' = (Held(a) \ {r}) \cup {c} /\ c \notin Held(a) \ {r}
      BY <2>3, <3>2
    <3>4. /\ IsFiniteSet(Held(a) \ {r}) /\ Cardinality(Held(a) \ {r}) = Cardinality(Held(a)) - 1
      BY <2>1, <3>1, FS_RemoveElement
    <3>5. Cardinality((Held(a) \ {r}) \cup {c}) = Cardinality(Held(a))
      <4>1. Cardinality((Held(a) \ {r}) \cup {c}) = Cardinality(Held(a) \ {r}) + 1
        BY <3>3, <3>4, FS_AddElement
      <4> QED BY <2>1, <3>4, <4>1
    <3>6. FreeNonce(a)' = FreeNonce(a)
      BY <1>7, <3>3, <3>5 DEF FreeNonce
    <3>7. \A d \in Held(a) \ {r} : sends[d].nonce # k
      BY <2>1, <3>1 DEF NoncesOK
    <3>8. \A d, e \in (Held(a) \ {r}) \cup {c} : sends[d].nonce = sends[e].nonce => d = e
      BY <1>2, <2>1, <3>7 DEF NoncesOK
    <3>9. \A d \in (Held(a) \ {r}) \cup {c} : MinedCount(a) <= sends[d].nonce /\ sends[d].nonce < FreeNonce(a)
      BY <1>2, <2>1, <3>1 DEF NoncesOK
    <3>10. \A n \in Nat : MinedCount(a) <= n /\ n < FreeNonce(a) =>
            \E d \in (Held(a) \ {r}) \cup {c} : sends[d].nonce = n
      BY <1>2, <2>1, <3>1 DEF NoncesOK
    <3>11. \A d \in Sends : sends'[d].from = a /\ sends'[d].step = "broadcast" =>
             sends'[d].nonce <= FreeNonce(a)
      BY <2>1, <2>5 DEF NoncesOK
    <3> QED BY <1>7, <2>4, <3>3, <3>6, <3>8, <3>9, <3>10, <3>11 DEF NoncesOK
  <2> QED BY <2>6, <2>7
<1> QED BY <1>8, <1>9 DEF NonceInv

LEMMA MineKeepsNonces == ASSUME SendsInv, NonceInv, FundsInv, NEW c \in Sends, mine(c) PROVE NonceInv'
<1>1. PICK a \in Owners : a = sends[c].from
  BY DEF FundsInv
<1>2. PICK ok \in BOOLEAN :
        /\ mined' = [d \in DOMAIN mined \cup {c} |-> IF d = c THEN ok ELSE mined[d]]
        /\ c \in pool /\ pool' = pool \ {c} /\ sends' = sends
        /\ sends[c].nonce = MinedCount(a)
  BY <1>1 DEF mine, keyVars, MinedCount
<1>3. DOMAIN mined' = DOMAIN mined \cup {c} /\ c \notin DOMAIN mined
  BY <1>2 DEF SendsInv
<1>4. ASSUME NEW b \in Owners, b # a PROVE NoncesOK(b)'
  <2>1. Held(b)' = Held(b) /\ minedOf(b)' = minedOf(b)
    BY <1>1, <1>2, <1>3, <1>4 DEF Held, minedOf
  <2>2. NoncesOK(b)
    BY DEF NonceInv
  <2> QED BY <1>2, <2>1, <2>2 DEF NoncesOK, MinedCount, FreeNonce
<1>5. NoncesOK(a)'
  <2>1. /\ NoncesOK(a) /\ FreeNonce(a) \in Nat /\ MinedCount(a) \in Nat
        /\ IsFiniteSet(Held(a)) /\ IsFiniteSet(minedOf(a)) /\ Cardinality(Held(a)) \in Nat
    BY Counted DEF NonceInv
  <2>2. /\ Held(a)' = Held(a) \ {c} /\ c \in Held(a)
        /\ minedOf(a)' = minedOf(a) \cup {c} /\ c \notin minedOf(a)
    BY <1>1, <1>2, <1>3 DEF Held, minedOf
  <2>3. Cardinality(minedOf(a)') = MinedCount(a) + 1
    BY <2>1, <2>2, FS_AddElement DEF MinedCount
  <2>4. Cardinality(Held(a)') = Cardinality(Held(a)) - 1
    BY <2>1, <2>2, FS_RemoveElement
  <2>5. MinedCount(a)' = MinedCount(a) + 1
    BY <2>3 DEF MinedCount
  <2>6. FreeNonce(a)' = FreeNonce(a)
    BY <2>1, <2>4, <2>5 DEF FreeNonce
  <2>7. \A d \in Held(a) : sends[d].nonce \in Nat
    BY HotWalletAssumption, FS_CardinalityType DEF Held, FundsInv, SendsInv
  <2>8. \A d \in Held(a) \ {c} : MinedCount(a) + 1 <= sends[d].nonce /\ sends[d].nonce < FreeNonce(a)
    BY <1>2, <2>1, <2>2, <2>7 DEF NoncesOK
  <2>9. \A n \in Nat : MinedCount(a) + 1 <= n /\ n < FreeNonce(a) => \E d \in Held(a) \ {c} : sends[d].nonce = n
    BY <1>2, <2>1 DEF NoncesOK
  <2> QED BY <1>2, <2>1, <2>2, <2>5, <2>6, <2>8, <2>9 DEF NoncesOK
<1> QED BY <1>4, <1>5 DEF NonceInv

LEMMA NonceStep ==
  ASSUME SendsInv, NonceInv, FundsInv, [HotWalletNext]_hotWalletVars PROVE NonceInv'
<1>1. ASSUME UNCHANGED <<sends, pool, mined>> PROVE NonceInv'
  BY <1>1, CallKeepsNonces DEF SendsInv
<1>2. ASSUME NEW n \in Networks, NEW a \in Owners, importFromMnemonic(n, a) \/ removeWallet(n, a)
      PROVE  NonceInv'
  BY <1>1, <1>2 DEF importFromMnemonic, removeWallet, chainVars
<1>3. CASE clearWallets \/ rotateEncryptionKey
  BY <1>1, <1>3 DEF clearWallets, rotateEncryptionKey, chainVars
<1>4. ASSUME NEW n \in Networks, NEW a \in Owners, NEW c \in Sends, sendTransaction(c, n, a) PROVE NonceInv'
  <2>1. PICK plain : sends' = [sends EXCEPT ![c] =
                       [NoSend EXCEPT !.step = "simulate", !.from = a, !.plain = plain]]
    BY <1>4 DEF sendTransaction
  <2>2. PICK x : x = [NoSend EXCEPT !.step = "simulate", !.from = a, !.plain = plain]
    OBVIOUS
  <2>3. x.step = "simulate"
    BY <2>2 DEF NoSend
  <2>4. ~HasSent(sends[c]) /\ UNCHANGED <<pool, mined>>
    BY <1>4 DEF sendTransaction, chainVars, HasSent
  <2> QED BY <2>1, <2>2, <2>3, <2>4, NewKeepsNonces
<1>5. ASSUME NEW c \in Sends,
             \/ simulateTransaction(c) \/ checkBalance(c) \/ refused(c)
             \/ receipt(c) \/ sendTokenTransaction(c)
      PROVE  NonceInv'
  <2>1. PICK s : s # "broadcast" /\ to(c, s) /\ UNCHANGED <<pool, mined>>
    BY <1>5 DEF simulateTransaction, checkBalance, refused, receipt, sendTokenTransaction, chainVars
  <2> QED BY <2>1, StepKeepsNonces
<1>6. ASSUME NEW c \in Sends, populateTransaction(c) PROVE NonceInv'
  <2>1. PICK n : n = pendingNonce(sends[c].from)
    OBVIOUS
  <2>2. PICK x : x = [sends[c] EXCEPT !.step = "broadcast", !.nonce = n]
    OBVIOUS
  <2>3. x.from = sends[c].from /\ x.nonce = n
    BY <2>2 DEF SendsInv, IsSend
  <2>4. sends' = [sends EXCEPT ![c] = x] /\ UNCHANGED <<pool, mined>> /\ ~HasSent(sends[c])
    BY <1>6, <2>1, <2>2 DEF populateTransaction, chainVars, HasSent
  <2>5. n = FreeNonce(x.from)
    BY <2>1, <2>3, Counted
  <2>6. x.step = "broadcast" => x.nonce = FreeNonce(x.from)
    BY <2>3, <2>5
  <2> HIDE DEF NonceInv
  <2> QED BY <2>4, <2>6, NewKeepsNonces
<1>7. ASSUME NEW c \in Sends, accepted(c) \/ mine(c) PROVE NonceInv'
  BY <1>7, AcceptedKeepsNonces, MineKeepsNonces
<1>8. CASE UNCHANGED hotWalletVars
  BY <1>1, <1>8 DEF hotWalletVars, chainVars
<1> QED BY <1>2, <1>3, <1>4, <1>5, <1>6, <1>7, <1>8 DEF HotWalletNext

(* No transfer that the node holds waits for a nonce nobody has used,        *)
(* whatever transfers of its address overlap, take the same nonce, replace   *)
(* each other, or fail.                                                      *)
THEOREM NoncesNeverGap == HotWalletSpec => []NoNonceGap
<1>1. SendsInv /\ NonceInv /\ FundsInv => NoNonceGap
  <2> SUFFICES ASSUME SendsInv, NonceInv, FundsInv, NEW c \in pool,
                      NEW n \in Cardinality(minedOf(sends[c].from)) .. sends[c].nonce
               PROVE  \E d \in pool : sends[d].from = sends[c].from /\ sends[d].nonce = n
    BY DEF NoNonceGap
  <2>1. PICK a \in Owners : a = sends[c].from
    BY DEF SendsInv, FundsInv
  <2>2. c \in Held(a) /\ NoncesOK(a) /\ FreeNonce(a) \in Nat /\ MinedCount(a) \in Nat
    BY <2>1, Counted DEF Held, NonceInv
  <2>3. sends[c].nonce \in Nat
    BY HotWalletAssumption, FS_CardinalityType DEF SendsInv, FundsInv
  <2>4. n \in Nat /\ MinedCount(a) <= n /\ n <= sends[c].nonce
    BY <2>1, <2>2, <2>3 DEF MinedCount
  <2>5. sends[c].nonce < FreeNonce(a)
    BY <2>2 DEF NoncesOK
  <2>6. PICK d \in Held(a) : sends[d].nonce = n
    BY <2>2, <2>3, <2>4, <2>5 DEF NoncesOK
  <2> QED BY <2>1, <2>6 DEF Held
<1> QED BY <1>1, SendsInvInit, SendsStep, FundsInvInit, FundsStep, NonceInvInit, NonceStep, PTL DEF HotWalletSpec

-----------------------------------------------------------------------------
(* NFTs: a batch is no longer than it may be, and only sellers list.        *)
NFTBounds == Len(batch) <= MaxBatch /\ approved \subseteq Sellers /\ listed \subseteq Sellers

LEMMA NFTBoundsStep == ASSUME NFTBounds, [NFTNext]_nftVars PROVE NFTBounds'
<1>1. ASSUME batch' = batch, approved' \subseteq Sellers, listed' \subseteq Sellers PROVE NFTBounds'
  BY <1>1 DEF NFTBounds
<1>2. CASE batchTransferNFTs
  <2>1. PICK b \in BoundedSeq(Transfers, MaxBatch) : batch' = b
    BY <1>2 DEF batchTransferNFTs
  <2>2. PICK m \in 0..MaxBatch : b \in [1..m -> Transfers]
    BY <2>1, NFTAssumption DEF BoundedSeq, SeqOf
  <2>3. Len(b) = m /\ m <= MaxBatch
    BY <2>2
  <2> QED BY <1>2, <2>1, <2>3 DEF batchTransferNFTs, listingVars, NFTBounds
<1>3. CASE transferMined \/ transferFails \/ receiptLost \/ batchDone \/ transferNFT
  BY <1>1, <1>3 DEF transferMined, transferFails, receiptLost, batchDone, transferNFT, listingVars, NFTBounds
<1>4. ASSUME NEW s \in Sellers,
             \/ setApprovalForAll(s) \/ approvalMined(s) \/ signs(s)
             \/ createMarketplaceListing(s) \/ listingFails(s)
      PROVE  NFTBounds'
  BY <1>1, <1>4 DEF setApprovalForAll, approvalMined, signs, createMarketplaceListing, listingFails,
    batchVars, NFTBounds
<1>5. CASE UNCHANGED nftVars
  BY <1>1, <1>5 DEF nftVars, batchVars, listingVars, NFTBounds
<1> QED BY <1>2, <1>3, <1>4, <1>5 DEF NFTNext

LEMMA NFTBoundsInit == NFTInit => NFTBounds /\ ListingInv
  BY NFTAssumption DEF NFTInit, NFTBounds, ListingInv, ListedIsApproved

LEMMA NFTTyped == BatchInv /\ ListingInv /\ NFTBounds => NFTTypeOK
<1> SUFFICES ASSUME BatchInv, ListingInv, NFTBounds PROVE NFTTypeOK
  OBVIOUS
<1>1. ToSet(batch) \subseteq Transfers
  BY DEF BatchInv, ToSet
<1> QED BY <1>1 DEF BatchInv, ListingInv, NFTBounds, NFTTypeOK

-----------------------------------------------------------------------------
(* Direct mints: a tree is made of verified wallets and of addresses added. *)
TreeInv ==
  /\ verified \subseteq Wallets /\ \A l \in loads : l.found \subseteq verified
  /\ merkleTree \subseteq addressToLeafIndex /\ addressToLeafIndex \subseteq Wallets
  /\ recorded \in [Wallets -> 0 .. MaxRecords]

LEMMA TreeStep == ASSUME DirectInv, TreeInv, [DirectNext]_mintingVars PROVE TreeInv'
<1>1. ASSUME UNCHANGED <<verified, merkle>>, recorded' = recorded PROVE TreeInv'
  BY <1>1 DEF merkle, TreeInv
<1>2. CASE restart
  <2>1. /\ merkleTree' = {} /\ addressToLeafIndex' = {} /\ verified' = verified /\ recorded' = recorded
        /\ \A l \in loads' : l.found = verified
    BY <1>2 DEF restart
  <2> QED BY <2>1 DEF TreeInv
<1>3. ASSUME NEW w \in Wallets, isVerified(w) PROVE TreeInv'
  BY <1>3 DEF isVerified, merkle, TreeInv
<1>4. ASSUME NEW w \in Wallets, addAddress(w) PROVE TreeInv'
  BY <1>4 DEF addAddress, initializeMerkleTree, TreeInv
<1>5. ASSUME NEW l \in loads, initializeFromDatabase(l) PROVE TreeInv'
  <2>1. l.found \subseteq addressToLeafIndex \cup l.found /\ l.found \subseteq Wallets
    BY DEF TreeInv
  <2> QED BY <1>5, <2>1 DEF initializeFromDatabase, initializeMerkleTree, TreeInv
<1>6. ASSUME NEW m \in Minters, processFirstTimeMint(m) PROVE TreeInv'
  <2>1. \A l \in loads' : l \in loads \/ l.found = verified
    BY <1>6 DEF processFirstTimeMint
  <2> QED BY <1>6, <2>1 DEF processFirstTimeMint, TreeInv
<1>7. ASSUME NEW m \in Minters,
             firstTimeMintFails(m) \/ transactionMined(m) \/ transactionFails(m) \/ waitFails(m)
      PROVE  TreeInv'
  BY <1>1, <1>7 DEF firstTimeMintFails, transactionMined, transactionFails, waitFails
<1>8. ASSUME NEW m \in Minters, NEW w \in Wallets, processMintForNewUser(m, w) \/ mintShahiForNewUser(m, w)
      PROVE  TreeInv'
  BY <1>1, <1>8 DEF processMintForNewUser, mintShahiForNewUser, mintForNewUser
<1>9. ASSUME NEW m \in Minters, recordTokenMinting(m) PROVE TreeInv'
  <2>1. PICK w : w = minters[m].wallet
    OBVIOUS
  <2>2. /\ recorded' \in {recorded, [recorded EXCEPT ![w] = IF @ < MaxRecords THEN @ + 1 ELSE @]}
        /\ UNCHANGED <<verified, merkle>>
    BY <1>9, <2>1 DEF recordTokenMinting
  <2>3. \A v \in Wallets : recorded[v] \in 0..MaxRecords
                           /\ (recorded[v] < MaxRecords => recorded[v] + 1 \in 0..MaxRecords)
    BY DirectAssumption DEF TreeInv
  <2>4. recorded' \in [Wallets -> 0..MaxRecords]
    BY <2>2, <2>3 DEF TreeInv
  <2> QED BY <2>2, <2>4 DEF merkle, TreeInv
<1>10. CASE UNCHANGED mintingVars
  BY <1>1, <1>10 DEF mintingVars, merkle
<1> QED BY <1>2, <1>3, <1>4, <1>5, <1>6, <1>7, <1>8, <1>9, <1>10 DEF DirectNext

LEMMA TreeInit == MintingInit => DirectInv /\ TreeInv
<1>1. MintingInit => DirectInv
  BY DEF MintingInit, DirectInv, RecordedHasMinted, NoMinter, Minter
<1>2. MintingInit => TreeInv
  BY DirectAssumption DEF MintingInit, TreeInv
<1> QED BY <1>1, <1>2

LEMMA DirectTyped == DirectInv /\ TreeInv => DirectTypeOK
<1> SUFFICES ASSUME DirectInv, TreeInv PROVE DirectTypeOK
  OBVIOUS
<1>1. NoMinter.wallet \in Wallets
  BY DirectAssumption DEF NoMinter
<1>2. minters \in [Minters -> [step : {"idle", "proof", "sent", "record"},
                               wallet : Wallets, records : BOOLEAN]]
  BY <1>1 DEF DirectInv, Minter
<1> QED BY <1>2 DEF TreeInv, DirectTypeOK

-----------------------------------------------------------------------------
(* The history: what was read exists, and a lookup that says a transaction  *)
(* succeeded says so after it did.                                          *)
LookupInv ==
  /\ transfers \in 0 .. MaxTransfers /\ reader.data \subseteq 1 .. transfers
  /\ transaction \in {"pending", "succeeded", "reverted"}
  /\ lookup = [step |-> lookup.step, status |-> lookup.status]
  /\ lookup.status = 1 => transaction = "succeeded"

LEMMA LookupInit == HistoryInit => LookupInv
<1> SUFFICES ASSUME HistoryInit PROVE LookupInv
  OBVIOUS
<1>1. reader.data = {} /\ transfers \in 0 .. MaxTransfers /\ lookup = NoLookup /\ transaction = "pending"
  BY DEF HistoryInit
<1> QED BY <1>1 DEF LookupInv, NoLookup

LEMMA LookupStep == ASSUME PagingInv, LookupInv, [HistoryNext]_historyVars PROVE LookupInv'
<1>1. ASSUME UNCHANGED <<transfers, reader>>,
             (/\ transaction \in {"pending", "succeeded", "reverted"}
              /\ lookup = [step |-> lookup.step, status |-> lookup.status]
              /\ lookup.status = 1 => transaction = "succeeded")'
      PROVE  LookupInv'
  BY <1>1 DEF LookupInv
<1>2. CASE transferArrives
  <2>1. /\ transfers < MaxTransfers /\ transfers' = transfers + 1
        /\ UNCHANGED <<reader, transaction, lookup>>
    BY <1>2 DEF transferArrives
  <2> QED BY <2>1, HistoryAssumption DEF LookupInv
<1>3. CASE getTokenTransfers
  <2>1. PICK d : /\ d = pageOf(page(reader.offset, reader.limit), reader.limit)
                 /\ reader'.data = reader.data \cup d /\ UNCHANGED <<transfers, transaction, lookup>>
    BY <1>3 DEF getTokenTransfers, PagingInv, IsReader
  <2>2. d \subseteq 1 .. transfers
    BY <2>1 DEF pageOf
  <2> QED BY <2>1, <2>2 DEF LookupInv
<1>4. CASE transactionSettles \/ getTransactionByHash
  BY <1>1, <1>4 DEF transactionSettles, getTransactionByHash, LookupInv
<1>5. CASE receiptFetched
  <2>1. PICK answered \in BOOLEAN :
          lookup' = [step |-> "block", status |-> IF answered /\ transaction = "succeeded" THEN 1 ELSE 0]
    BY <1>5 DEF receiptFetched
  <2> QED BY <1>1, <1>5, <2>1 DEF receiptFetched, LookupInv
<1>6. CASE covalentFetched
  BY <1>1, <1>6 DEF covalentFetched, LookupInv
<1>7. CASE blockFetched
  <2>1. lookup'.status = lookup.status /\ lookup' = [step |-> lookup'.step, status |-> lookup'.status]
    BY <1>7 DEF blockFetched, LookupInv
  <2> QED BY <1>1, <1>7, <2>1 DEF blockFetched, LookupInv
<1>8. CASE lookupFails
  BY <1>1, <1>8 DEF lookupFails, NoLookup, LookupInv
<1>9. CASE UNCHANGED historyVars
  BY <1>1, <1>9 DEF historyVars, LookupInv
<1> QED BY <1>2, <1>3, <1>4, <1>5, <1>6, <1>7, <1>8, <1>9 DEF HistoryNext

LEMMA HistoryTyped == PagingInv /\ LookupInv => HistoryTypeOK
  BY DEF PagingInv, LookupInv, HistoryTypeOK

-----------------------------------------------------------------------------
(* Endpoints: the provider was made for one, and so was a call's contract.  *)
BalanceCall == [attempts : 0 .. maxAttempts - 1, endpoint : Endpoints, pending : BOOLEAN]

CallsInv == provider \in Endpoints /\ balanceCalls \in [BalanceCalls -> BalanceCall]

LEMMA NoBalanceCallTyped == NoBalanceCall \in BalanceCall
  BY EndpointsAssumption DEF NoBalanceCall, BalanceCall, Endpoints

LEMMA CallsInit == HandlersInit => IndexInRing /\ CallsInv
<1>1. 0 \in Endpoints
  BY EndpointsAssumption DEF Endpoints
<1> QED BY <1>1, NoBalanceCallTyped DEF HandlersInit, IndexInRing, CallsInv

LEMMA CallsStep == ASSUME IndexInRing, CallsInv, [HandlersNext]_handlerVars PROVE CallsInv'
<1>1. CASE rotateEndpoint
  BY <1>1 DEF rotateEndpoint, CallsInv
<1>2. ASSUME NEW e \in Endpoints, markEndpointFailed(e) PROVE CallsInv'
  <2>1. currentRpcIndex' \in Endpoints
    BY HandlersStep, <1>2 DEF HandlersNext, IndexInRing
  <2> QED BY <1>2, <2>1 DEF markEndpointFailed, CallsInv
<1>3. ASSUME NEW e \in Endpoints, recoveryTimePasses(e) PROVE CallsInv'
  BY <1>3 DEF recoveryTimePasses, CallsInv
<1>4. ASSUME NEW b \in BalanceCalls, getBalance(b) PROVE CallsInv'
  <2>1. [attempts |-> 0, endpoint |-> provider, pending |-> TRUE] \in BalanceCall
    BY EndpointsAssumption DEF CallsInv, BalanceCall
  <2> QED BY <1>4, <2>1 DEF getBalance, CallsInv
<1>5. ASSUME NEW b \in BalanceCalls, attemptFails(b) PROVE CallsInv'
  <2>1. balanceCalls[b] \in BalanceCall /\ balanceCalls[b].attempts \in 0 .. maxAttempts - 1
    BY DEF CallsInv, BalanceCall
  <2>2. CASE balanceCalls[b].attempts + 1 = maxAttempts
    BY <1>5, <2>2, NoBalanceCallTyped DEF attemptFails, CallsInv
  <2>3. CASE balanceCalls[b].attempts + 1 # maxAttempts
    <3>1. balanceCalls[b].attempts + 1 \in 0 .. maxAttempts - 1
      BY <2>1, <2>3, EndpointsAssumption
    <3> QED BY <1>5, <2>1, <2>3, <3>1 DEF attemptFails, CallsInv, BalanceCall
  <2> QED BY <2>2, <2>3
<1>6. ASSUME NEW b \in BalanceCalls, balanceAnswered(b) PROVE CallsInv'
  BY <1>6, NoBalanceCallTyped DEF balanceAnswered, CallsInv
<1>7. CASE UNCHANGED handlerVars
  BY <1>7 DEF handlerVars, CallsInv
<1> QED BY <1>1, <1>2, <1>3, <1>4, <1>5, <1>6, <1>7 DEF HandlersNext

LEMMA EndpointsTyped == IndexInRing /\ CallsInv => HandlersTypeOK
<1> SUFFICES ASSUME IndexInRing, CallsInv PROVE HandlersTypeOK
  OBVIOUS
<1>1. balanceCalls \in [BalanceCalls -> [attempts : 0 .. maxAttempts - 1, endpoint : Endpoints,
                                        pending : BOOLEAN]]
  BY Zenon DEF CallsInv, BalanceCall
<1> QED BY <1>1 DEF IndexInRing, CallsInv, HandlersTypeOK

-----------------------------------------------------------------------------
(* All parts: no step of one touches the variables of another, so each      *)
(* keeps its invariant.                                                     *)
PartsInv ==
  /\ AccountsInv /\ AccountTypes
  /\ ChallengeTypes
  /\ GatewayInv /\ GoneInv /\ ClientTypeOK
  /\ StakingInv /\ ClockInv
  /\ SendsInv /\ KeysInv /\ FundsInv
  /\ BatchInv /\ ListingInv /\ NFTBounds
  /\ DirectInv /\ TreeInv
  /\ PagingInv /\ LookupInv
  /\ IndexInRing /\ CallsInv

LEMMA PartsStart == Init => PartsInv
<1> SUFFICES ASSUME Init PROVE PartsInv
  OBVIOUS
<1>1. /\ AuthInit /\ GatewayInit /\ ClientInit /\ HotWalletInit /\ NFTInit /\ StakingInit /\ ChallengesInit
      /\ MintingInit /\ HistoryInit /\ HandlersInit
  BY DEF Init
<1>2. AccountsInv /\ AccountTypes
  BY <1>1, AccountsInvInit, AccountTypesInit
<1>3. ChallengeTypes
  BY <1>1, ChallengeTypesInit
<1>4. GatewayInv /\ GoneInv /\ ClientTypeOK
  BY <1>1, GatewayInvInit, ClientTypesInit DEF GatewayInit, GoneInv
<1>5. StakingInv /\ ClockInv
  BY <1>1, StakingInvInit, StakingAssumption DEF StakingInit, ClockInv
<1>6. SendsInv /\ KeysInv /\ FundsInv
  BY <1>1, SendsInvInit, FundsInvInit, KeysInvInit
<1>7. BatchInv /\ ListingInv /\ NFTBounds
  BY <1>1, BatchInvInit, NFTBoundsInit
<1>8. DirectInv /\ TreeInv
  BY <1>1, TreeInit
<1>9. PagingInv /\ LookupInv
  BY <1>1, PagingInvInit, LookupInit
<1>10. IndexInRing /\ CallsInv
  BY <1>1, CallsInit
<1> QED BY <1>2, <1>3, <1>4, <1>5, <1>6, <1>7, <1>8, <1>9, <1>10 DEF PartsInv

\* A step is a step of one part, and stutters for the others.
LEMMA PartsStepAlone ==
  ASSUME [Next]_servicesVars
  PROVE  /\ [AuthNext]_authVars /\ [ChallengesNext]_challengeVars
         /\ [GatewayNext]_gatewayVars /\ [ClientNext]_clientVars
         /\ [StakingNext]_stakingVars /\ [HotWalletNext]_hotWalletVars
         /\ [NFTNext]_nftVars /\ [DirectNext]_mintingVars
         /\ [HistoryNext]_historyVars /\ [HandlersNext]_handlerVars
<1>1. CASE UNCHANGED servicesVars
  BY <1>1, Zenon DEF servicesVars
<1>2. CASE Next
  BY <1>2, Zenon DEF Next
<1> QED BY <1>1, <1>2

LEMMA PartsStep == ASSUME PartsInv, [Next]_servicesVars PROVE PartsInv'
<1>1. AccountsInv' /\ AccountTypes'
  BY PartsStepAlone, AccountsStep, AccountTypesStep DEF PartsInv
<1>2. ChallengeTypes'
  BY PartsStepAlone, ChallengeTypesStep DEF PartsInv
<1>3. GatewayInv' /\ GoneInv' /\ ClientTypeOK'
  BY PartsStepAlone, GatewayInvStep, GoneInvStep, ClientTypesStep DEF PartsInv
<1>4. StakingInv' /\ ClockInv'
  BY PartsStepAlone, StakingInvStep, ClockStep DEF PartsInv
<1>5. SendsInv' /\ KeysInv' /\ FundsInv'
  BY PartsStepAlone, SendsStep, KeysStep, FundsStep DEF PartsInv
<1>6. BatchInv' /\ ListingInv' /\ NFTBounds'
  BY PartsStepAlone, BatchStep, ListingStep, NFTBoundsStep DEF PartsInv
<1>7. DirectInv' /\ TreeInv'
  BY PartsStepAlone, DirectStep, TreeStep DEF PartsInv
<1>8. PagingInv' /\ LookupInv'
  BY PartsStepAlone, PagingStep, LookupStep DEF PartsInv
<1>9. IndexInRing' /\ CallsInv'
  BY PartsStepAlone, HandlersStep, CallsStep DEF PartsInv
<1> QED BY <1>1, <1>2, <1>3, <1>4, <1>5, <1>6, <1>7, <1>8, <1>9 DEF PartsInv

LEMMA PartsTyped == PartsInv => ServicesTypeOK
  BY AccountsTyped, ChallengesTyped, GatewayTyped, StakingTyped, HotWalletTyped, NFTTyped, DirectTyped,
    HistoryTyped, EndpointsTyped DEF PartsInv, ServicesTypeOK

(* The state of each service has its type: rows and what requests have in    *)
(* hand are of the forms the code gives them, sockets and sellers are known  *)
(* ones, keys and nonces are in their ranges, a batch holds transfers and no *)
(* more than it may, what a lookup reports has happened, a provider was made *)
(* for an endpoint of its list.                                              *)
THEOREM ServicesTypesHold == Spec => []ServicesTypeOK
  BY PartsStart, PartsStep, PartsTyped, PTL DEF Spec
=============================================================================
