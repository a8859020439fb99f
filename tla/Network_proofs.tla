---------------------------- MODULE Network_proofs ----------------------------
(***************************************************************************)
(* Proofs about the ways to a chain's nodes, for any number of endpoints,  *)
(* of calls that share the index or the circuit breaker, and for every     *)
(* threshold and waiting time.                                             *)
(***************************************************************************)
EXTENDS MCNetwork, Integers, WellFoundedInduction, FiniteSetTheorems, TLAPS

-----------------------------------------------------------------------------
(* The fallback over RPC endpoints.                                        *)

Fallback == [step : {"idle", "ready", "act", "failed"}, on : Endpoints,
             switching : BOOLEAN, attempts : 0..N, steady : BOOLEAN]

(* A steady call that has switched is on an endpoint that answers, and so   *)
(* is the shared index, whichever call moved it last.                       *)
CallOK(h) ==
  /\ h.step \in {"ready", "act"} => h.attempts < N
  /\ h.steady =>
       /\ marks = up
       /\ h.step = "failed" => up = {}
       /\ h.step \in {"ready", "act"} /\ h.attempts # 0 => currentIndex \in up /\ h.on \in up

RpcInv == RpcTypeOK /\ \A c \in Fallbacks : CallOK(fallbacks[c])

-----------------------------------------------------------------------------
(* The ring of endpoints.                                                   *)
LEMMA LeastNumber ==
  ASSUME NEW S, S \subseteq Nat, S # {}
  PROVE  \E x \in S : \A y \in S : x <= y
<1>1. PICK x \in S : \A y \in S : ~ (y < x)
  <2>1. PICK x \in S : \A y \in S : ~ (<<y, x>> \in OpToRel(<, Nat))
    BY WFMin, NatLessThanWellFounded, Zenon
  <2>2. \A y \in Nat : y < x => <<y, x>> \in OpToRel(<, Nat)
    BY Zenon DEF OpToRel
  <2> QED BY <2>1, <2>2, Zenon
<1> QED BY <1>1

LEMMA RingReaches ==
  ASSUME NEW i \in Endpoints, NEW e \in Endpoints
  PROVE  \E k \in 1..N : (i + k) % N = e
<1>0. N \in Nat \ {0} /\ i \in 0..N - 1 /\ e \in 0..N - 1
  BY RpcProviderAssumption DEF Endpoints
<1>1. CASE e > i
  <2>1. e - i \in 1..N /\ i + (e - i) = e
    BY <1>0, <1>1
  <2>2. e % N = e
    BY <1>0
  <2> QED BY <2>1, <2>2
<1>2. CASE e <= i
  <2>1. N + e - i \in 1..N /\ i + (N + e - i) = N + e
    BY <1>0, <1>2
  <2>2. (N + e) % N = e
    BY <1>0
  <2> QED BY <2>1, <2>2
<1> QED BY <1>0, <1>1, <1>2

(* The next index has a mark, whenever there is one.                        *)
LEMMA NextIndexMarked ==
  ASSUME currentIndex \in Endpoints, NEW m, m \subseteq Endpoints, m # {}
  PROVE  nextIndex(m) \in m
<1> DEFINE after(k) == (currentIndex + k) % N
           marked == {k \in 1..N : after(k) \in m}
<1>1. PICK e \in m : e \in Endpoints
  OBVIOUS
<1>2. marked # {} /\ marked \subseteq Nat
  <2>1. PICK k \in 1..N : (currentIndex + k) % N = e
    BY <1>1, RingReaches
  <2> QED BY <1>1, <2>1, RpcProviderAssumption
<1>3. PICK k \in marked : \A j \in marked : k <= j
  <2> HIDE DEF marked
  <2> QED BY <1>2, LeastNumber
<1>4. k \in 1..N /\ after(k) \in m /\ \A j \in 1..k - 1 : after(j) \notin m
  <2>1. k \in 1..N /\ after(k) \in m
    BY <1>3
  <2>2. ASSUME NEW j \in 1..k - 1 PROVE after(j) \notin m
    <3>1. j \in 1..N /\ j < k
      BY <2>1, RpcProviderAssumption
    <3> QED BY <1>3, <2>1, <3>1
  <2> QED BY <2>1, <2>2
<1>5. nextIndex(m) = after(CHOOSE k2 \in 1..N : after(k2) \in m /\ \A j \in 1..k2 - 1 : after(j) \notin m)
  BY DEF nextIndex
<1> HIDE DEF after
<1> QED BY <1>4, <1>5

-----------------------------------------------------------------------------
(* What onlySteady leaves of a call.                                        *)
LEMMA SteadyKept ==
  ASSUME NEW calls \in [Fallbacks -> Fallback], NEW steady \in BOOLEAN
  PROVE  /\ onlySteady(calls, steady) \in [Fallbacks -> Fallback]
         /\ \A c \in Fallbacks :
              /\ onlySteady(calls, steady)[c].step = calls[c].step
              /\ onlySteady(calls, steady)[c].on = calls[c].on
              /\ onlySteady(calls, steady)[c].attempts = calls[c].attempts
              /\ onlySteady(calls, steady)[c].steady => calls[c].steady /\ steady
<1> DEFINE f == onlySteady(calls, steady)
<1>1. f = [c \in Fallbacks |-> [calls[c] EXCEPT !.steady = calls[c].steady /\ steady]]
  BY DEF onlySteady
<1>2. ASSUME NEW c \in Fallbacks
      PROVE  /\ f[c] \in Fallback /\ f[c].step = calls[c].step /\ f[c].on = calls[c].on
             /\ f[c].attempts = calls[c].attempts
             /\ f[c].steady => calls[c].steady /\ steady
  <2> DEFINE b == calls[c].steady /\ steady
  <2>1. calls[c] \in Fallback /\ b \in BOOLEAN
    OBVIOUS
  <2>2. f[c] = [calls[c] EXCEPT !.steady = b]
    BY <1>1
  <2>3. b => calls[c].steady /\ steady
    OBVIOUS
  <2> HIDE DEF b, f
  <2>4. f[c] \in Fallback /\ f[c].steady = b
    BY <2>1, <2>2 DEF Fallback
  <2>5. f[c].step = calls[c].step /\ f[c].on = calls[c].on /\ f[c].attempts = calls[c].attempts
    BY <2>1, <2>2 DEF Fallback
  <2> QED BY <2>3, <2>4, <2>5
<1>3. f \in [Fallbacks -> Fallback]
  BY <1>1, <1>2
<1> QED BY <1>2, <1>3

LEMMA ProviderGot ==
  ASSUME NEW h \in Fallback, NEW i \in Endpoints, NEW s \in BOOLEAN
  PROVE  LET g == getProvider(h, i, s) IN
         /\ g \in Fallback /\ g.on = i /\ g.step \in {"ready", "act"}
         /\ g.attempts = h.attempts /\ g.steady = h.steady
<1>1. CASE i \notin providerCache
  BY <1>1 DEF getProvider, Fallback
<1>2. CASE i \in providerCache
  BY <1>2 DEF getProvider, Fallback
<1> QED BY <1>1, <1>2

(* A step of one call that touches neither marks nor index.                 *)
LEMMA CallMoves ==
  ASSUME RpcInv, NEW c \in Fallbacks, NEW g \in Fallback, CallOK(g),
         fallbacks' = [fallbacks EXCEPT ![c] = g],
         providerCache' \subseteq Endpoints,
         up' = up, marks' = marks, currentIndex' = currentIndex, checking' = checking
  PROVE  RpcInv'
<1>1. fallbacks \in [Fallbacks -> Fallback] /\ \A d \in Fallbacks : CallOK(fallbacks[d])
  BY DEF RpcInv, RpcTypeOK, Fallback
<1>2. /\ fallbacks' \in [Fallbacks -> Fallback]
      /\ \A d \in Fallbacks : fallbacks'[d] = IF d = c THEN g ELSE fallbacks[d]
  BY <1>1
<1>3. \A d \in Fallbacks : CallOK(fallbacks'[d])
  BY <1>1, <1>2
<1>4. \A d \in Fallbacks : CallOK(fallbacks[d])'
  BY <1>3 DEF CallOK
<1>5. RpcTypeOK'
  BY <1>2 DEF RpcInv, RpcTypeOK, Fallback
<1> QED BY <1>4, <1>5 DEF RpcInv

(* A switch: while anybody is steady the marks stay, there is one, and the  *)
(* index moves to it.                                                       *)
LEMMA SwitchPreserves ==
  ASSUME RpcInv, NEW c \in Fallbacks, NEW h \in Fallback, NEW m, m \subseteq Endpoints,
         switchToNextProvider(c, h, m),
         h.attempts < N, h.steady = fallbacks[c].steady,
         \A d \in Fallbacks : fallbacks[d].steady => m = marks,
         up' = up, checking' = checking, providerCache' = providerCache
  PROVE  RpcInv'
<1>1. /\ fallbacks \in [Fallbacks -> Fallback] /\ currentIndex \in Endpoints
      /\ \A d \in Fallbacks : CallOK(fallbacks[d])
  BY DEF RpcInv, RpcTypeOK, Fallback
<1>2. 0 \in Endpoints
  BY RpcProviderAssumption DEF Endpoints
<1>3. m # {} => nextIndex(m) \in m
  BY <1>1, NextIndexMarked
<1>4. marks' \subseteq Endpoints /\ currentIndex' \in Endpoints
  BY <1>2, <1>3 DEF switchToNextProvider
<1> DEFINE g == getProvider(h, currentIndex', h.switching)
           calls == [fallbacks EXCEPT ![c] = g]
           same == marks' = marks
<1>5. fallbacks' = onlySteady(calls, same)
  BY DEF switchToNextProvider
<1>6. /\ g \in Fallback /\ g.on = currentIndex' /\ g.step \in {"ready", "act"}
      /\ g.attempts = h.attempts /\ g.steady = h.steady
  <2>1. h.switching \in BOOLEAN
    BY DEF Fallback
  <2> QED BY <1>4, <2>1, ProviderGot
<1>7. same \in BOOLEAN
  OBVIOUS
<1> HIDE DEF g
<1>8. /\ calls \in [Fallbacks -> Fallback]
      /\ \A d \in Fallbacks : calls[d] = IF d = c THEN g ELSE fallbacks[d]
  BY <1>1, <1>6
<1> HIDE DEF calls, same
<1>9. /\ fallbacks' \in [Fallbacks -> Fallback]
      /\ \A d \in Fallbacks :
           /\ fallbacks'[d].step = calls[d].step /\ fallbacks'[d].on = calls[d].on
           /\ fallbacks'[d].attempts = calls[d].attempts
           /\ fallbacks'[d].steady => calls[d].steady /\ same
  BY <1>5, <1>7, <1>8, SteadyKept
<1>10. ASSUME NEW d \in Fallbacks, fallbacks'[d].steady
       PROVE  fallbacks[d].steady /\ marks' = marks /\ marks = up /\ currentIndex' \in up
  <2>1. fallbacks[d].steady /\ marks' = marks
    BY <1>6, <1>8, <1>9, <1>10 DEF same
  <2>2. m = marks /\ marks = up
    BY <1>1, <2>1 DEF CallOK
  <2>3. m # {}
    BY <1>2, <2>1, <2>2 DEF switchToNextProvider
  <2> QED BY <1>3, <2>1, <2>2, <2>3 DEF switchToNextProvider
<1>11. ASSUME NEW d \in Fallbacks PROVE CallOK(fallbacks[d])'
  <2>1. fallbacks'[d].step \in {"ready", "act"} => fallbacks'[d].attempts < N
    BY <1>1, <1>6, <1>8, <1>9 DEF CallOK
  <2>2. CASE d = c
    BY <1>6, <1>8, <1>9, <1>10, <2>1, <2>2 DEF CallOK
  <2>3. CASE d # c
    <3>1. calls[d] = fallbacks[d]
      BY <1>8, <2>3
    <3> QED BY <1>1, <1>9, <1>10, <2>1, <3>1 DEF CallOK
  <2> QED BY <2>2, <2>3
<1>12. RpcTypeOK'
  BY <1>4, <1>9 DEF RpcInv, RpcTypeOK, Fallback
<1> QED BY <1>11, <1>12 DEF RpcInv

-----------------------------------------------------------------------------
(* The actions.                                                             *)
LEMMA HeldCall ==
  ASSUME RpcInv, NEW c \in Fallbacks
  PROVE  /\ fallbacks[c] \in Fallback /\ CallOK(fallbacks[c])
         /\ currentIndex \in Endpoints /\ marks \subseteq Endpoints /\ providerCache \subseteq Endpoints
         /\ fallbacks[c].on \in Endpoints /\ fallbacks[c].attempts \in 0..N
  BY DEF RpcInv, RpcTypeOK, Fallback

LEMMA ExecutePreserves ==
  ASSUME RpcInv, NEW c \in Fallbacks, executeWithFallback(c) PROVE RpcInv'
<1> DEFINE right == marks = up
           h == [fallbacks[c] EXCEPT !.attempts = 0, !.steady = right]
           g == getProvider(h, currentIndex, FALSE)
<1>1. 0 \in 0..N /\ 0 < N
  BY RpcProviderAssumption
<1>2. right \in BOOLEAN
  OBVIOUS
<1>3. /\ fallbacks' = [fallbacks EXCEPT ![c] = g]
      /\ UNCHANGED <<Settings, marks, currentIndex, providerCache>>
  BY DEF executeWithFallback
<1> HIDE DEF right
<1>4. h \in Fallback /\ h.attempts = 0 /\ h.steady = right
  BY <1>1, <1>2, HeldCall DEF Fallback
<1> HIDE DEF h
<1>5. /\ g \in Fallback /\ g.step \in {"ready", "act"} /\ g.attempts = 0 /\ g.steady = right
  BY <1>4, HeldCall, ProviderGot
<1> HIDE DEF g
<1>6. CallOK(g)
  BY <1>1, <1>5 DEF CallOK, right
<1> QED BY <1>3, <1>5, <1>6, HeldCall, CallMoves DEF Settings

LEMMA ProviderReadyPreserves ==
  ASSUME RpcInv, NEW c \in Fallbacks, providerReady(c) PROVE RpcInv'
<1> DEFINE h == fallbacks[c]
           g == IF ~h.switching THEN [h EXCEPT !.step = "act"]
                ELSE IF currentIndex = h.on THEN [h EXCEPT !.step = "act", !.switching = FALSE]
                ELSE getProvider(h, currentIndex, FALSE)
<1>1. /\ h.step = "ready" /\ h.on \in up
      /\ providerCache' = providerCache \cup {h.on}
      /\ fallbacks' = [fallbacks EXCEPT ![c] = g]
      /\ UNCHANGED <<Settings, marks, currentIndex>>
  BY DEF providerReady
<1>2. /\ h \in Fallback /\ CallOK(h) /\ currentIndex \in Endpoints /\ h.on \in Endpoints
      /\ providerCache \subseteq Endpoints
  BY HeldCall
<1> HIDE DEF h
<1>3. /\ g \in Fallback /\ g.step \in {"ready", "act"} /\ g.attempts = h.attempts
      /\ g.steady = h.steady /\ g.on \in {h.on, currentIndex}
  <2>1. CASE ~h.switching
    BY <1>2, <2>1 DEF Fallback
  <2>2. CASE h.switching /\ currentIndex = h.on
    BY <1>2, <2>2 DEF Fallback
  <2>3. CASE h.switching /\ currentIndex # h.on
    BY <1>2, <2>3, ProviderGot
  <2> QED BY <2>1, <2>2, <2>3
<1> HIDE DEF g
<1>4. CallOK(g)
  BY <1>1, <1>2, <1>3 DEF CallOK
<1>5. providerCache' \subseteq Endpoints
  BY <1>1, <1>2
<1> QED BY <1>1, <1>3, <1>4, <1>5, CallMoves DEF Settings

LEMMA ProviderThrowsPreserves ==
  ASSUME RpcInv, NEW c \in Fallbacks, providerThrows(c) PROVE RpcInv'
<1> DEFINE h == fallbacks[c]
<1>1. /\ h.step = "ready" /\ h.on \notin up
      /\ switchToNextProvider(c, h, marks \ {h.on})
      /\ UNCHANGED <<Settings, providerCache>>
  BY DEF providerThrows
<1>2. h \in Fallback /\ CallOK(h) /\ marks \subseteq Endpoints
  BY HeldCall
<1>3. \A d \in Fallbacks : fallbacks[d].steady => marks \ {h.on} = marks
  BY <1>1 DEF RpcInv, CallOK
<1>4. h.attempts < N
  BY <1>1, <1>2 DEF CallOK
<1> QED BY <1>1, <1>2, <1>3, <1>4, SwitchPreserves DEF Settings

LEMMA ActionReturnsPreserves ==
  ASSUME RpcInv, NEW c \in Fallbacks, actionReturns(c) PROVE RpcInv'
<1> DEFINE g == [fallbacks[c] EXCEPT !.step = "idle"]
<1>1. /\ fallbacks' = [fallbacks EXCEPT ![c] = g]
      /\ UNCHANGED <<Settings, marks, currentIndex, providerCache>>
  BY DEF actionReturns
<1>2. /\ g \in Fallback /\ g.step = "idle" /\ g.steady = fallbacks[c].steady
  BY HeldCall DEF Fallback
<1> HIDE DEF g
<1>3. CallOK(g)
  BY <1>2, HeldCall DEF CallOK
<1> QED BY <1>1, <1>2, <1>3, HeldCall, CallMoves DEF Settings

LEMMA ActionThrowsPreserves ==
  ASSUME RpcInv, NEW c \in Fallbacks, actionThrows(c) PROVE RpcInv'
<1> DEFINE h == [fallbacks[c] EXCEPT !.attempts = fallbacks[c].attempts + 1]
<1>1. /\ h.step = "act" /\ h.on \notin up
      /\ IF h.attempts < N
         THEN switchToNextProvider(c, [h EXCEPT !.switching = TRUE], marks)
         ELSE /\ fallbacks' = [fallbacks EXCEPT ![c] = [h EXCEPT !.step = "failed"]]
              /\ UNCHANGED <<marks, currentIndex>>
      /\ UNCHANGED <<Settings, providerCache>>
  BY DEF actionThrows
<1>2. /\ fallbacks[c] \in Fallback /\ CallOK(fallbacks[c]) /\ marks \subseteq Endpoints
      /\ fallbacks[c].attempts \in 0..N
  BY HeldCall
<1>3. h.step = fallbacks[c].step /\ h.on = fallbacks[c].on /\ h.steady = fallbacks[c].steady
      /\ h.attempts = fallbacks[c].attempts + 1
  BY <1>2 DEF Fallback
<1>4. fallbacks[c].attempts < N
  BY <1>1, <1>2, <1>3 DEF CallOK
<1>5. h.attempts \in 1..N /\ N \in Nat \ {0}
  BY <1>2, <1>3, <1>4, RpcProviderAssumption
<1>6. h \in Fallback
  BY <1>2, <1>5 DEF Fallback
<1> HIDE DEF h
<1>7. CASE h.attempts < N
  <2> DEFINE h2 == [h EXCEPT !.switching = TRUE]
  <2>1. h2 \in Fallback /\ h2.attempts = h.attempts /\ h2.steady = h.steady
    BY <1>6 DEF Fallback
  <2>2. switchToNextProvider(c, h2, marks)
    BY <1>1, <1>7
  <2> HIDE DEF h2
  <2> QED BY <1>1, <1>2, <1>3, <1>7, <2>1, <2>2, SwitchPreserves DEF Settings
<1>8. CASE ~(h.attempts < N)
  <2> DEFINE g == [h EXCEPT !.step = "failed"]
  <2>1. g \in Fallback /\ g.step = "failed" /\ g.steady = h.steady
    BY <1>6 DEF Fallback
  <2>2. fallbacks' = [fallbacks EXCEPT ![c] = g] /\ marks' = marks /\ currentIndex' = currentIndex
    BY <1>1, <1>8
  <2> HIDE DEF g
  <2>3. h.steady => up = {}
    <3> SUFFICES ASSUME h.steady PROVE up = {}
      OBVIOUS
    <3>1. fallbacks[c].attempts = 0
      BY <1>1, <1>2, <1>3 DEF CallOK
    <3>2. N = 1
      BY <1>3, <1>5, <1>8, <3>1
    <3>3. Endpoints = {0} /\ fallbacks[c].on \in Endpoints /\ up \subseteq Endpoints
      BY <3>2, HeldCall DEF Endpoints, RpcInv, RpcTypeOK
    <3> QED BY <1>1, <1>3, <3>3
  <2>4. CallOK(g)
    BY <1>2, <1>3, <2>1, <2>3 DEF CallOK
  <2> QED BY <1>1, <2>1, <2>2, <2>4, HeldCall, CallMoves DEF Settings
<1> QED BY <1>7, <1>8

(* A step that leaves the calls where they are, some no longer steady.      *)
LEMMA OthersPreserve ==
  ASSUME RpcInv, NEW steady \in BOOLEAN, fallbacks' = onlySteady(fallbacks, steady),
         steady => marks' = marks /\ up' = up,
         up' \subseteq Endpoints, marks' \subseteq Endpoints, checking' \in 0..N,
         currentIndex' = currentIndex, providerCache' = providerCache
  PROVE  RpcInv'
<1>1. fallbacks \in [Fallbacks -> Fallback] /\ \A d \in Fallbacks : CallOK(fallbacks[d])
  BY DEF RpcInv, RpcTypeOK, Fallback
<1>2. /\ fallbacks' \in [Fallbacks -> Fallback]
      /\ \A d \in Fallbacks :
           /\ fallbacks'[d].step = fallbacks[d].step /\ fallbacks'[d].on = fallbacks[d].on
           /\ fallbacks'[d].attempts = fallbacks[d].attempts
           /\ fallbacks'[d].steady => fallbacks[d].steady /\ steady
  BY <1>1, SteadyKept
<1>3. \A d \in Fallbacks : CallOK(fallbacks[d])'
  BY <1>1, <1>2 DEF CallOK
<1>4. RpcTypeOK'
  BY <1>2 DEF RpcInv, RpcTypeOK, Fallback
<1> QED BY <1>3, <1>4 DEF RpcInv

LEMMA HealthCheckPreserves == ASSUME RpcInv, runHealthCheck PROVE RpcInv'
<1>1. checking \in 0..N /\ N \in Nat \ {0} /\ marks \subseteq Endpoints /\ up \subseteq Endpoints
  BY RpcProviderAssumption DEF RpcInv, RpcTypeOK
<1>2. up' = up /\ currentIndex' = currentIndex /\ providerCache' = providerCache
  BY DEF runHealthCheck
<1>3. CASE checking = N
  <2>1. checking' = 0 /\ marks' = marks /\ fallbacks' = fallbacks
    BY <1>3 DEF runHealthCheck
  <2> QED BY <1>1, <1>2, <2>1 DEF RpcInv, RpcTypeOK, CallOK
<1>4. CASE checking # N
  <2> DEFINE same == marks' = marks
  <2>1. /\ checking' = checking + 1
        /\ marks' = IF checking \in up THEN marks \cup {checking} ELSE marks \ {checking}
        /\ fallbacks' = onlySteady(fallbacks, same)
    BY <1>4 DEF runHealthCheck
  <2>2. checking' \in 0..N /\ marks' \subseteq Endpoints
    BY <1>1, <1>4, <2>1 DEF Endpoints
  <2>3. same \in BOOLEAN /\ (same => marks' = marks)
    OBVIOUS
  <2> HIDE DEF same
  <2> QED BY <1>1, <1>2, <2>1, <2>2, <2>3, OthersPreserve
<1> QED BY <1>3, <1>4

LEMMA EndpointChangesPreserves ==
  ASSUME RpcInv, NEW e \in Endpoints, endpointChanges(e) PROVE RpcInv'
<1>1. /\ fallbacks' = onlySteady(fallbacks, FALSE) /\ marks' = marks /\ checking' = checking
      /\ currentIndex' = currentIndex /\ providerCache' = providerCache
      /\ up' = IF e \in up THEN up \ {e} ELSE up \cup {e}
  BY DEF endpointChanges
<1>2. up' \subseteq Endpoints /\ marks' \subseteq Endpoints /\ checking' \in 0..N
  BY <1>1 DEF RpcInv, RpcTypeOK
<1> QED BY <1>1, <1>2, OthersPreserve

-----------------------------------------------------------------------------
(* The theorem.                                                             *)
LEMMA RpcInvInit == RpcInit => RpcInv
<1>1. 0 \in Endpoints /\ 0 \in 0..N
  BY RpcProviderAssumption DEF Endpoints
<1> QED BY <1>1 DEF RpcInit, RpcInv, RpcTypeOK, CallOK

LEMMA RpcInvStep == RpcInv /\ [RpcNext]_rpcVars => RpcInv'
<1> SUFFICES ASSUME RpcInv, [RpcNext]_rpcVars PROVE RpcInv'
  OBVIOUS
<1>1. ASSUME NEW c \in Fallbacks,
             \/ executeWithFallback(c) \/ providerReady(c) \/ providerThrows(c)
             \/ actionReturns(c) \/ actionThrows(c)
      PROVE  RpcInv'
  BY <1>1, ExecutePreserves, ProviderReadyPreserves, ProviderThrowsPreserves,
     ActionReturnsPreserves, ActionThrowsPreserves
<1>2. CASE runHealthCheck
  BY <1>2, HealthCheckPreserves
<1>3. ASSUME NEW e \in Endpoints, endpointChanges(e) PROVE RpcInv'
  BY <1>3, EndpointChangesPreserves
<1>4. CASE UNCHANGED rpcVars
  <2>1. /\ up' = up /\ marks' = marks /\ currentIndex' = currentIndex /\ checking' = checking
        /\ providerCache' = providerCache /\ fallbacks' = fallbacks
    BY <1>4 DEF rpcVars
  <2> QED BY <2>1 DEF RpcInv, RpcTypeOK, CallOK
<1> QED BY <1>1, <1>2, <1>3, <1>4 DEF RpcNext

(* While the marks are right a call fails only when no endpoint answers,     *)
(* although other calls move the index it reads between its attempts.        *)
THEOREM SteadyCallsAlwaysReach == RpcSpec => []SteadyCallsReach
<1>1. RpcInv => SteadyCallsReach
  BY DEF RpcInv, CallOK, SteadyCallsReach
<1> QED BY <1>1, RpcInvInit, RpcInvStep, PTL DEF RpcSpec

-----------------------------------------------------------------------------
(* The circuit breaker.                                                    *)

-----------------------------------------------------------------------------
(* The circuit breaker of a token's balance.  It counts at least as many     *)
(* failures as there were in a row, unless the last of them is old enough to *)
(* be forgotten; and as long as a full row is younger than the reset time,   *)
(* the breaker is open and has been so since the last failure.               *)

CountsAll(b) == streak <= b.failures \/ b.lastFailure > failureTimeout
OpenSince(b) ==
  streak = failureThreshold =>
    /\ b.openTime < resetTimeout => b.open
    /\ b.lastFailure < resetTimeout => b.openTime = b.lastFailure

BreakerInv ==
  /\ breaker \in Breaker /\ streak \in 0 .. failureThreshold
  /\ service = "token" => CountsAll(breaker) /\ OpenSince(breaker)

LEMMA BreakerFields ==
  ASSUME NEW b \in Breaker
  PROVE  /\ b.failures \in 0 .. failureThreshold /\ b.lastFailure \in 0 .. failureTimeout + 1
         /\ b.open \in BOOLEAN /\ b.openTime \in 0 .. resetTimeout
  BY DEF Breaker

LEMMA UpToLemma ==
  ASSUME NEW n \in Nat, NEW most \in Nat, n <= most
  PROVE  /\ upTo(n, most) \in 0 .. most /\ upTo(n, most) >= n
         /\ n < most => upTo(n, most) = n + 1
         /\ n = most => upTo(n, most) = most
  BY DEF upTo

LEMMA CheckedLemma ==
  ASSUME NEW b \in Breaker
  PROVE  /\ checked(b) \in Breaker
         /\ checked(b).openTime = b.openTime /\ checked(b).lastFailure = b.lastFailure
         /\ isCircuitClosed(b) => isCircuitClosed(checked(b))
         /\ isCircuitClosed(b) /\ CountsAll(b) => CountsAll(checked(b))
         /\ isCircuitClosed(b) /\ OpenSince(b) => OpenSince(checked(b))
<1>1. CASE b.open
  <2>1. checked(b) = [b EXCEPT !.open = FALSE]
    BY <1>1 DEF checked
  <2>2. /\ checked(b) \in Breaker /\ checked(b).failures = b.failures /\ checked(b).open = FALSE
        /\ checked(b).openTime = b.openTime /\ checked(b).lastFailure = b.lastFailure
    BY <2>1 DEF Breaker
  <2>3. isCircuitClosed(b) => ~(b.openTime < resetTimeout)
    BY <1>1, BreakerFields, BreakerAssumption DEF isCircuitClosed
  <2> QED BY <2>2, <2>3 DEF isCircuitClosed, CountsAll, OpenSince
<1>2. CASE ~b.open /\ b.lastFailure > failureTimeout
  <2>1. checked(b) = [b EXCEPT !.failures = 0]
    BY <1>2 DEF checked
  <2>2. /\ checked(b) \in Breaker /\ checked(b).open = b.open
        /\ checked(b).openTime = b.openTime /\ checked(b).lastFailure = b.lastFailure
    BY <2>1, BreakerAssumption DEF Breaker
  <2> QED BY <1>2, <2>2 DEF isCircuitClosed, CountsAll, OpenSince
<1>3. CASE ~b.open /\ ~(b.lastFailure > failureTimeout)
  BY <1>3 DEF checked
<1> QED BY <1>1, <1>2, <1>3

LEMMA SuccessLemma ==
  ASSUME NEW b \in Breaker
  PROVE  recordSuccess(b) \in Breaker /\ recordSuccess(b).failures = 0
<1>1. 0 \in 0 .. failureThreshold
  BY BreakerAssumption
<1> QED BY <1>1 DEF recordSuccess, Breaker

LEMMA FailureLemma ==
  ASSUME NEW b \in Breaker
  PROVE  /\ recordFailure(b) \in Breaker /\ recordFailure(b).lastFailure = 0
         /\ recordFailure(b).failures = upTo(b.failures, failureThreshold)
         /\ recordFailure(b).failures = failureThreshold =>
              recordFailure(b).open /\ recordFailure(b).openTime = 0
<1>1. b.failures \in 0 .. failureThreshold /\ upTo(b.failures, failureThreshold) \in 0 .. failureThreshold
  BY BreakerAssumption, UpToLemma DEF Breaker
<1>2. PICK n \in 0 .. failureThreshold : n = upTo(b.failures, failureThreshold)
  BY <1>1
<1>3. PICK c \in Breaker : c = [b EXCEPT !.failures = n, !.lastFailure = 0]
  <2>1. 0 \in 0 .. failureTimeout + 1
    BY BreakerAssumption
  <2> QED BY <2>1 DEF Breaker
<1>4. c.failures = n /\ c.lastFailure = 0
  BY <1>3 DEF Breaker
<1>5. recordFailure(b) = IF n >= failureThreshold THEN [c EXCEPT !.open = TRUE, !.openTime = 0] ELSE c
  BY <1>2, <1>3, <1>4 DEF recordFailure
<1>6. CASE n >= failureThreshold
  <2>1. recordFailure(b) = [c EXCEPT !.open = TRUE, !.openTime = 0]
    BY <1>5, <1>6
  <2>2. /\ recordFailure(b) \in Breaker /\ recordFailure(b).lastFailure = c.lastFailure
        /\ recordFailure(b).failures = c.failures
        /\ recordFailure(b).open /\ recordFailure(b).openTime = 0
    <3>1. 0 \in 0 .. resetTimeout
      BY BreakerAssumption
    <3> QED BY <2>1, <3>1 DEF Breaker
  <2> QED BY <1>2, <1>4, <2>2
<1>7. CASE ~(n >= failureThreshold)
  <2>1. recordFailure(b) = c /\ n # failureThreshold
    BY <1>5, <1>7, BreakerAssumption
  <2> QED BY <1>2, <1>3, <1>4, <2>1
<1> QED BY <1>6, <1>7

LEMMA AgesLemma ==
  ASSUME NEW b \in Breaker
  PROVE  /\ breakerAges(b) \in Breaker
         /\ CountsAll(b) => CountsAll(breakerAges(b))
         /\ OpenSince(b) => OpenSince(breakerAges(b))
<1>1. PICK l, o : l = upTo(b.lastFailure, failureTimeout + 1) /\ o = upTo(b.openTime, resetTimeout)
  OBVIOUS
<1>2. /\ l \in 0 .. failureTimeout + 1 /\ l >= b.lastFailure
      /\ b.lastFailure < failureTimeout + 1 => l = b.lastFailure + 1
      /\ o \in 0 .. resetTimeout /\ o >= b.openTime
      /\ b.openTime < resetTimeout => o = b.openTime + 1
  BY <1>1, BreakerFields, BreakerAssumption, UpToLemma
<1>3. breakerAges(b) = [b EXCEPT !.lastFailure = l, !.openTime = o]
  BY <1>1 DEF breakerAges
<1>4. /\ breakerAges(b) \in Breaker /\ breakerAges(b).lastFailure = l /\ breakerAges(b).openTime = o
      /\ breakerAges(b).failures = b.failures /\ breakerAges(b).open = b.open
  BY <1>2, <1>3 DEF Breaker
<1>5. CountsAll(b) => CountsAll(breakerAges(b))
  BY <1>2, <1>4, BreakerFields, BreakerAssumption DEF CountsAll
<1>6. OpenSince(b) => OpenSince(breakerAges(b))
  <2>1. o < resetTimeout => b.openTime < resetTimeout
    BY <1>2, BreakerFields, BreakerAssumption
  <2>2. l < resetTimeout => b.lastFailure < resetTimeout /\ l = b.lastFailure + 1
    BY <1>2, BreakerFields, BreakerAssumption
  <2> QED BY <1>2, <1>4, <2>1, <2>2 DEF OpenSince
<1> QED BY <1>4, <1>5, <1>6

\* Only the native handler answers into a second breaker.
QueriesInv ==
  /\ queries = [c \in Callers |-> queries[c]]
  /\ service = "token" => \A c \in Callers : queries[c] # "settled"

LEMMA QueriesStep == ASSUME QueriesInv, [BalanceNext]_balanceVars PROVE QueriesInv'
<1>1. ASSUME UNCHANGED <<service, queries>> PROVE QueriesInv'
  BY <1>1 DEF QueriesInv
<1>2. ASSUME NEW c \in Callers, NEW s, s # "settled" \/ service = "native", go(c, s), service' = service
      PROVE  QueriesInv'
  BY <1>2 DEF go, QueriesInv
<1>3. ASSUME NEW c \in Callers, getBalance(c) PROVE QueriesInv'
  BY <1>1, <1>2, <1>3 DEF getBalance, execute
<1>4. ASSUME NEW c \in Callers, rateLimited(c) \/ nativeSettled(c) \/ gasAnswer(c) \/ priceAnswer(c)
      PROVE  QueriesInv'
  BY <1>1, <1>2, <1>4 DEF rateLimited, nativeSettled, gasAnswer, priceAnswer, getGasPrice
<1>5. ASSUME NEW c \in Callers, NEW success \in BOOLEAN, tokenAnswer(c, success) \/ nativeAnswer(c, success)
      PROVE  QueriesInv'
  BY <1>2, <1>5 DEF tokenAnswer, nativeAnswer
<1>6. CASE cleanup /\ UNCHANGED <<service, breaker, cache, queries, streak>>
  BY <1>1, <1>6
<1>7. CASE invalidateCache \/ balanceTick \/ UNCHANGED balanceVars
  BY <1>1, <1>7 DEF invalidateCache, balanceTick, balanceVars
<1> QED BY <1>3, <1>4, <1>5, <1>6, <1>7 DEF BalanceNext, Answer

\* An answer is counted by the breaker and by the history alike.
LEMMA AnswerPreserves ==
  ASSUME BreakerInv, NEW success \in BOOLEAN, counted(success), service' = service,
         breaker' = IF success THEN recordSuccess(breaker) ELSE recordFailure(breaker)
  PROVE  BreakerInv'
<1>1. CASE success
  <2>1. streak' = 0 /\ breaker' = recordSuccess(breaker)
    BY <1>1 DEF counted
  <2>2. breaker' \in Breaker /\ breaker'.failures = 0
    BY <2>1, SuccessLemma DEF BreakerInv
  <2> QED BY <2>1, <2>2, BreakerAssumption DEF BreakerInv, CountsAll, OpenSince
<1>2. CASE ~success
  <2>1. streak' = IF breaker.lastFailure > failureTimeout THEN 1 ELSE upTo(streak, failureThreshold)
    BY <1>2 DEF counted
  <2>2. /\ breaker.failures \in 0 .. failureThreshold /\ breaker' \in Breaker
        /\ breaker'.failures = upTo(breaker.failures, failureThreshold) /\ breaker'.lastFailure = 0
        /\ breaker'.failures = failureThreshold => breaker'.open /\ breaker'.openTime = 0
    BY <1>2, FailureLemma DEF BreakerInv, Breaker
  <2>3. streak' \in 0 .. failureThreshold
    BY <2>1, BreakerAssumption DEF BreakerInv, upTo
  <2>4. service = "token" => streak' <= breaker'.failures
    BY <2>1, <2>2, BreakerAssumption DEF BreakerInv, CountsAll, upTo
  <2>5. service = "token" => CountsAll(breaker)' /\ OpenSince(breaker)'
    <3>1. breaker'.failures \in 0 .. failureThreshold
      BY <2>2, BreakerFields
    <3> QED BY <2>2, <2>3, <2>4, <3>1, BreakerAssumption DEF CountsAll, OpenSince
  <2> QED BY <2>2, <2>3, <2>5 DEF BreakerInv
<1> QED BY <1>1, <1>2

LEMMA QueryPreserves ==
  ASSUME BreakerInv, NEW c \in Callers, execute(c), UNCHANGED <<service, streak>>
  PROVE  BreakerInv'
<1>1. CASE breaker' = breaker
  BY <1>1 DEF BreakerInv, CountsAll, OpenSince
<1>2. CASE /\ isCircuitClosed(breaker)
           /\ breaker' = IF service = "native" THEN checked(checked(breaker)) ELSE checked(breaker)
  <2>1. breaker' \in Breaker
    BY <1>2, CheckedLemma DEF BreakerInv
  <2>2. service = "token" => CountsAll(breaker') /\ OpenSince(breaker')
    BY <1>2, CheckedLemma DEF BreakerInv
  <2> QED BY <2>1, <2>2 DEF BreakerInv, CountsAll, OpenSince
<1> QED BY <1>1, <1>2 DEF execute

LEMMA BreakerStep == ASSUME BreakerInv, QueriesInv, [BalanceNext]_balanceVars PROVE BreakerInv'
<1>1. ASSUME UNCHANGED <<service, breaker, streak>> PROVE BreakerInv'
  BY <1>1 DEF BreakerInv, CountsAll, OpenSince
<1>2. ASSUME NEW c \in Callers, getBalance(c) PROVE BreakerInv'
  BY <1>1, <1>2, QueryPreserves DEF getBalance
<1>3. ASSUME NEW c \in Callers, rateLimited(c) \/ gasAnswer(c) \/ priceAnswer(c) PROVE BreakerInv'
  BY <1>1, <1>3 DEF rateLimited, gasAnswer, priceAnswer
<1>4. ASSUME NEW c \in Callers, NEW success \in BOOLEAN, tokenAnswer(c, success) \/ nativeAnswer(c, success)
      PROVE  BreakerInv'
  BY <1>4, AnswerPreserves DEF tokenAnswer, nativeAnswer
<1>5. ASSUME NEW c \in Callers, nativeSettled(c) PROVE BreakerInv'
  <2>1. service # "token" /\ breaker' = recordSuccess(breaker) /\ UNCHANGED <<service, streak>>
    BY <1>5 DEF nativeSettled, QueriesInv
  <2> QED BY <2>1, SuccessLemma DEF BreakerInv
<1>6. CASE cleanup /\ UNCHANGED <<service, breaker, cache, queries, streak>>
  BY <1>1, <1>6
<1>7. CASE invalidateCache
  BY <1>1, <1>7 DEF invalidateCache
<1>8. CASE balanceTick
  <2>1. breaker' = breakerAges(breaker) /\ UNCHANGED <<service, streak>>
    BY <1>8 DEF balanceTick
  <2>2. service = "token" => CountsAll(breaker') /\ OpenSince(breaker')
    BY <2>1, AgesLemma DEF BreakerInv
  <2>3. breaker' \in Breaker
    BY <2>1, AgesLemma DEF BreakerInv
  <2> QED BY <2>1, <2>2, <2>3 DEF BreakerInv, CountsAll, OpenSince
<1>9. CASE UNCHANGED balanceVars
  BY <1>1, <1>9 DEF balanceVars
<1> QED BY <1>2, <1>3, <1>4, <1>5, <1>6, <1>7, <1>8, <1>9 DEF BalanceNext, Answer

LEMMA BreakersStart == BalanceInit => BreakerInv /\ QueriesInv
<1> SUFFICES ASSUME BalanceInit PROVE BreakerInv /\ QueriesInv
  OBVIOUS
<1>1. NewBreaker \in Breaker
  BY BreakerAssumption DEF NewBreaker, Breaker
<1> QED BY <1>1, BreakerAssumption DEF BalanceInit, BreakerInv, QueriesInv, CountsAll, OpenSince, NewBreaker

(* After as many failures in a row as the threshold says, of whichever calls *)
(* and however these overlapped, the breaker lets nobody through before its  *)
(* reset time is over.                                                       *)
THEOREM BreakerAlwaysTrips == BalanceSpec => []BreakerTrips
<1>1. BreakerInv => BreakerTrips
  <2> SUFFICES ASSUME BreakerInv, service = "token", Tripped PROVE ~isCircuitClosed(breaker)
    BY DEF BreakerTrips
  <2>1. streak = failureThreshold /\ breaker.lastFailure < resetTimeout
    BY BreakerAssumption DEF Tripped, BreakerInv
  <2>2. breaker.openTime = breaker.lastFailure /\ breaker.open
    BY <2>1 DEF BreakerInv, OpenSince
  <2> QED BY <2>1, <2>2, BreakerFields, BreakerAssumption DEF BreakerInv, isCircuitClosed
<1> QED BY BreakersStart, <1>1, BreakerStep, QueriesStep, PTL DEF BalanceSpec

-----------------------------------------------------------------------------
(* The types of balance queries.  A filter of a sequence is one over what    *)
(* the sequence is over: its recursion is defined up to every length.        *)
Keeps(r, n, f) ==
  f = [i \in 0..n |-> IF i = 0 THEN <<>>
                      ELSE IF r[i] < interval THEN Append(f[i - 1], r[i]) ELSE f[i - 1]]

LEMMA RecentKeeps == ASSUME NEW r PROVE recent(r) = (CHOOSE f : Keeps(r, Len(r), f))[Len(r)]
  BY DEF recent, Keeps

LEMMA KeepsExists ==
  ASSUME NEW S, NEW r \in Seq(S), NEW n \in 0..Len(r)
  PROVE  \E f \in [0..n -> Seq(S)] : Keeps(r, n, f)
<1> DEFINE good(k) == \E f \in [0..k -> Seq(S)] : Keeps(r, k, f)
           bad == {k \in 0..Len(r) : ~ good(k)}
<1>0. bad \subseteq Nat
  OBVIOUS
<1>1. ASSUME bad # {} PROVE FALSE
  <2>1. PICK k \in bad : \A j \in bad : k <= j
    <3> HIDE DEF bad
    <3> QED BY <1>0, <1>1, LeastNumber
  <2>2. CASE k = 0
    <3> DEFINE f == [i \in 0..0 |-> <<>>]
    <3>1. f \in [0..0 -> Seq(S)] /\ Keeps(r, 0, f)
      BY DEF Keeps
    <3> QED BY <2>1, <2>2, <3>1
  <2>3. CASE k # 0
    <3>1. k - 1 \in 0..Len(r) /\ k \in 1..Len(r)
      BY <2>1, <2>3
    <3>2. good(k - 1)
      <4> HIDE DEF good
      <4>1. k - 1 < k /\ k \in Int
        BY <3>1
      <4> QED BY <2>1, <3>1, <4>1
    <3>3. PICK f \in [0..k - 1 -> Seq(S)] : Keeps(r, k - 1, f)
      BY <3>2
    <3> DEFINE next == IF r[k] < interval THEN Append(f[k - 1], r[k]) ELSE f[k - 1]
               g == [i \in 0..k |-> IF i = k THEN next ELSE f[i]]
    <3>4. next \in Seq(S)
      <4>1. f[k - 1] \in Seq(S) /\ r[k] \in S
        BY <3>1
      <4> QED BY <4>1
    <3>5. g \in [0..k -> Seq(S)] /\ g[k] = next /\ \A i \in 0..k - 1 : g[i] = f[i]
      <4> HIDE DEF next
      <4> QED BY <3>1, <3>4
    <3>6. ASSUME NEW i \in 0..k
          PROVE  g[i] = IF i = 0 THEN <<>>
                        ELSE IF r[i] < interval THEN Append(g[i - 1], r[i]) ELSE g[i - 1]
      <4> HIDE DEF g
      <4>1. CASE i = k
        BY <3>1, <3>5, <4>1
      <4>2. CASE i # k
        <5>1. i \in 0..k - 1
          BY <3>1, <4>2
        <5>2. f[i] = IF i = 0 THEN <<>>
                     ELSE IF r[i] < interval THEN Append(f[i - 1], r[i]) ELSE f[i - 1]
          BY <3>3, <5>1 DEF Keeps
        <5>3. i # 0 => i - 1 \in 0..k - 1
          BY <3>1, <5>1
        <5> QED BY <3>5, <5>1, <5>2, <5>3
      <4> QED BY <4>1, <4>2
    <3>7. Keeps(r, k, g)
      <4>1. g = [i \in 0..k |-> g[i]]
        BY <3>5
      <4> HIDE DEF g
      <4> QED BY <3>6, <4>1 DEF Keeps
    <3> HIDE DEF g
    <3> QED BY <2>1, <3>5, <3>7
  <2> QED BY <2>2, <2>3
<1> QED BY <1>1

LEMMA KeepsType ==
  ASSUME NEW S, NEW r \in Seq(S), NEW f, Keeps(r, Len(r), f)
  PROVE  f[Len(r)] \in Seq(S)
<1> DEFINE bad == {k \in 0..Len(r) : f[k] \notin Seq(S)}
<1>1. Len(r) \in Nat /\ bad \subseteq Nat
  OBVIOUS
<1>2. ASSUME bad # {} PROVE FALSE
  <2>1. PICK k \in bad : \A j \in bad : k <= j
    <3> HIDE DEF bad
    <3> QED BY <1>1, <1>2, LeastNumber
  <2>2. k \in 0..Len(r) /\ f[k] \notin Seq(S)
    BY <2>1
  <2>3. f[k] = IF k = 0 THEN <<>>
               ELSE IF r[k] < interval THEN Append(f[k - 1], r[k]) ELSE f[k - 1]
    BY <2>2 DEF Keeps
  <2>4. CASE k = 0
    BY <2>2, <2>3, <2>4
  <2>5. CASE k # 0
    <3>1. k - 1 \in 0..Len(r) /\ r[k] \in S /\ k - 1 < k
      BY <2>2, <2>5
    <3>2. f[k - 1] \in Seq(S)
      BY <2>1, <2>2, <3>1
    <3> QED BY <2>2, <2>3, <2>5, <3>1, <3>2
  <2> QED BY <2>4, <2>5
<1> QED BY <1>1, <1>2

LEMMA RecentType == ASSUME NEW S, NEW r \in Seq(S) PROVE recent(r) \in Seq(S)
<1>1. \E f : Keeps(r, Len(r), f)
  BY KeepsExists
<1> QED BY <1>1, RecentKeeps, KeepsType

-----------------------------------------------------------------------------
LEMMA OlderType ==
  ASSUME NEW most \in Nat, NEW age \in 0..most PROVE older(age, most) \in 0..most
  BY DEF older

Places == [key : Keys, age : 0..queueTimeout]

LimiterInv ==
  /\ requests \in [Keys -> Seq(0..interval)]
  /\ waiting \in [Callers -> Places \cup {NULL}]

CacheInv == cache \in 0..cacheTTL + 1 \cup {NULL} /\ queries \in [Callers -> QuerySteps]

BalanceInv == BreakerInv /\ QueriesInv /\ LimiterInv /\ CacheInv

\* What is left of the admitted requests is a list of ages.
LEMMA ValidType == ASSUME LimiterInv, NEW k \in Keys PROVE validRequests(k) \in Seq(0..interval)
  BY RecentType DEF LimiterInv, validRequests

\* The limiter's own operations.
LEMMA LimiterKeeps ==
  ASSUME LimiterInv, NEW k \in Keys, NEW c \in Callers,
         admit(k) \/ queueRequest(c, k) \/ queueFull(k) \/ queueTimesOut(c)
  PROVE  LimiterInv'
<1>1. validRequests(k) \in Seq(0..interval) /\ 0 \in 0..interval
  BY ValidType, LimiterAssumption
<1>2. CASE admit(k)
  <2>1. Append(validRequests(k), 0) \in Seq(0..interval)
    BY <1>1
  <2> QED BY <1>2, <2>1 DEF admit, LimiterInv
<1>3. CASE queueRequest(c, k)
  <2>1. [key |-> k, age |-> 0] \in Places
    BY LimiterAssumption DEF Places
  <2> QED BY <1>1, <1>3, <2>1 DEF queueRequest, LimiterInv
<1>4. CASE queueFull(k)
  BY <1>1, <1>4 DEF queueFull, LimiterInv
<1>5. CASE queueTimesOut(c)
  BY <1>5 DEF queueTimesOut, LimiterInv
<1> QED BY <1>2, <1>3, <1>4, <1>5

LEMMA CleanupKeeps == ASSUME LimiterInv, cleanup PROVE LimiterInv'
  BY ValidType DEF LimiterInv, cleanup

LEMMA AgesKeep == ASSUME LimiterInv, limiterAges PROVE LimiterInv'
<1>1. interval \in Nat /\ queueTimeout \in Nat
  BY LimiterAssumption
<1>2. ASSUME NEW k \in Keys
      PROVE  [i \in DOMAIN requests[k] |-> older(requests[k][i], interval)] \in Seq(0..interval)
  <2>1. PICK r \in Seq(0..interval) : r = requests[k]
    BY DEF LimiterInv
  <2>2. DOMAIN r = 1..Len(r) /\ Len(r) \in Nat /\ \A i \in 1..Len(r) : r[i] \in 0..interval
    <3>1. PICK S : S = 0..interval
      OBVIOUS
    <3>2. r \in Seq(S)
      BY <2>1, <3>1
    <3>3. DOMAIN r = 1..Len(r) /\ Len(r) \in Nat /\ \A i \in 1..Len(r) : r[i] \in S
      BY <3>2
    <3> QED BY <3>1, <3>3
  <2>3. \A i \in 1..Len(r) : older(r[i], interval) \in 0..interval
    BY <1>1, <2>2, OlderType
  <2>4. [i \in 1..Len(r) |-> older(r[i], interval)] \in Seq(0..interval)
    BY <2>2, <2>3
  <2> QED BY <2>1, <2>2, <2>4
<1>3. ASSUME NEW c \in Callers, waiting[c] # NULL
      PROVE  [waiting[c] EXCEPT !.age = older(waiting[c].age, queueTimeout)] \in Places
  <2>1. PICK w \in Places : w = waiting[c]
    BY <1>3 DEF LimiterInv
  <2>2. older(w.age, queueTimeout) \in 0..queueTimeout
    BY <1>1, OlderType DEF Places
  <2>3. [w EXCEPT !.age = older(w.age, queueTimeout)] \in Places
    BY <2>2 DEF Places
  <2> QED BY <2>1, <2>3
<1>4. requests' \in [Keys -> Seq(0..interval)]
  BY <1>2 DEF limiterAges
<1>5. waiting' \in [Callers -> Places \cup {NULL}]
  BY <1>3 DEF limiterAges
<1> QED BY <1>4, <1>5 DEF LimiterInv

LEMMA LimiterStep == ASSUME LimiterInv, [BalanceNext]_balanceVars PROVE LimiterInv'
<1>0. "query" \in Keys /\ "price" \in Keys
  BY BalanceAssumption
<1>1. ASSUME UNCHANGED limiterVars PROVE LimiterInv'
  BY <1>1 DEF LimiterInv, limiterVars
<1>2. ASSUME NEW c \in Callers, getBalance(c) \/ rateLimited(c) PROVE LimiterInv'
  BY <1>0, <1>2, LimiterKeeps DEF getBalance, rateLimited
<1>3. ASSUME NEW c \in Callers, gasAnswer(c) PROVE LimiterInv'
  BY <1>0, <1>1, <1>3, LimiterKeeps DEF gasAnswer, getGasPrice
<1>4. ASSUME NEW c \in Callers, NEW success \in BOOLEAN,
             tokenAnswer(c, success) \/ nativeAnswer(c, success) \/ nativeSettled(c) \/ priceAnswer(c)
      PROVE  LimiterInv'
  BY <1>1, <1>4 DEF tokenAnswer, nativeAnswer, nativeSettled, priceAnswer
<1>5. CASE cleanup \/ balanceTick
  BY <1>5, CleanupKeeps, AgesKeep DEF balanceTick
<1>6. CASE invalidateCache \/ UNCHANGED balanceVars
  BY <1>1, <1>6 DEF invalidateCache, balanceVars
<1> QED BY <1>2, <1>3, <1>4, <1>5, <1>6 DEF BalanceNext, Answer

LEMMA CacheStep == ASSUME CacheInv, [BalanceNext]_balanceVars PROVE CacheInv'
<1>0. cacheTTL + 1 \in Nat /\ 0 \in 0..cacheTTL + 1
  BY BalanceAssumption
<1>1. ASSUME UNCHANGED <<cache, queries>> PROVE CacheInv'
  BY <1>1 DEF CacheInv
<1>2. ASSUME NEW c \in Callers, NEW s \in QuerySteps, go(c, s), cache' \in {cache, 0, NULL}
      PROVE  CacheInv'
  BY <1>0, <1>2 DEF go, CacheInv
<1>3. ASSUME NEW c \in Callers, getBalance(c) PROVE CacheInv'
  <2>1. CASE execute(c)
    BY <1>2, <2>1 DEF execute, QuerySteps
  <2>2. CASE go(c, "queued") /\ cache' = NULL
    BY <1>2, <2>2 DEF QuerySteps
  <2>3. CASE cache' = NULL /\ UNCHANGED queries
    BY <2>3 DEF CacheInv
  <2> QED BY <1>3, <2>1, <2>2, <2>3 DEF getBalance
<1>4. ASSUME NEW c \in Callers, rateLimited(c) \/ nativeSettled(c) \/ priceAnswer(c) PROVE CacheInv'
  BY <1>2, <1>4 DEF rateLimited, nativeSettled, priceAnswer, QuerySteps
<1>5. ASSUME NEW c \in Callers, gasAnswer(c) PROVE CacheInv'
  BY <1>2, <1>5 DEF gasAnswer, getGasPrice, QuerySteps
<1>6. ASSUME NEW c \in Callers, NEW success \in BOOLEAN, tokenAnswer(c, success) \/ nativeAnswer(c, success)
      PROVE  CacheInv'
  BY <1>2, <1>6 DEF tokenAnswer, nativeAnswer, QuerySteps
<1>7. CASE (cleanup /\ UNCHANGED <<service, breaker, cache, queries, streak>>) \/ UNCHANGED balanceVars
  BY <1>1, <1>7 DEF balanceVars
<1>8. CASE invalidateCache
  BY <1>8 DEF invalidateCache, CacheInv
<1>9. CASE balanceTick
  BY <1>0, <1>9, OlderType DEF balanceTick, CacheInv
<1> QED BY <1>3, <1>4, <1>5, <1>6, <1>7, <1>8, <1>9 DEF BalanceNext, Answer

LEMMA BalanceInvInit == BalanceInit => BalanceInv
<1> SUFFICES ASSUME BalanceInit PROVE LimiterInv /\ CacheInv
  BY BreakersStart DEF BalanceInv
<1> QED BY DEF BalanceInit, LimiterInit, LimiterInv, CacheInv, QuerySteps

LEMMA BalanceInvStep == BalanceInv /\ [BalanceNext]_balanceVars => BalanceInv'
  BY BreakerStep, QueriesStep, LimiterStep, CacheStep DEF BalanceInv

LEMMA BalanceTypes == BalanceInv => BalanceTypeOK
  BY DEF BalanceInv, BreakerInv, LimiterInv, CacheInv, BalanceTypeOK, LimiterTypeOK, Places

-----------------------------------------------------------------------------
(* The types of the load balancer.                                          *)
Health == [isAlive : BOOLEAN, failCount : 0..MaxFails]

BalancerInv ==
  /\ answering \subseteq Providers
  /\ health \in [Providers -> Health]
  /\ checks \in [Checkers -> SUBSET Providers]
  /\ DOMAIN failovers = Calls
  /\ \A c \in Calls : failovers[c].step \in {"idle", "called", "checking"}
  /\ \A c \in Calls : failovers[c] = [step |-> failovers[c].step, on |-> failovers[c].on,
                                      retries |-> failovers[c].retries]

\* Counting a failure or a success leaves a mark and a count.
LEMMA HealthCounted ==
  ASSUME NEW h \in Health
  PROVE  healthy(h) \in Health /\ failing(h) \in Health
<1>1. MaxFails \in Nat /\ h.failCount \in 0..MaxFails /\ h.isAlive \in BOOLEAN
  BY BalancerAssumption DEF Health
<1>2. healthy(h) \in Health
  <2>1. CASE h.isAlive
    <3>1. PICK z : z = 0
      OBVIOUS
    <3>2. z \in 0..MaxFails
      BY <1>1, <3>1
    <3>3. healthy(h) = [h EXCEPT !.failCount = z]
      BY <2>1, <3>1 DEF healthy
    <3> QED BY <3>2, <3>3 DEF Health
  <2>2. CASE ~h.isAlive
    <3> DEFINE n == IF h.failCount > 0 THEN h.failCount - 1 ELSE 0
               b == n < maxFailCount - recoveryThreshold
    <3>1. n \in 0..MaxFails /\ b \in BOOLEAN
      BY <1>1
    <3>2. healthy(h) = [failCount |-> n, isAlive |-> b]
      BY <2>2 DEF healthy, recovering
    <3> HIDE DEF n, b
    <3> QED BY <3>1, <3>2 DEF Health
  <2> QED BY <2>1, <2>2
<1>3. failing(h) \in Health
  <2> DEFINE n == IF h.failCount < MaxFails THEN h.failCount + 1 ELSE MaxFails
             b == h.isAlive /\ n < maxFailCount
  <2>1. n \in 0..MaxFails /\ b \in BOOLEAN
    BY <1>1
  <2>2. failing(h) = [failCount |-> n, isAlive |-> b]
    BY DEF failing
  <2> HIDE DEF n, b
  <2> QED BY <2>1, <2>2 DEF Health
<1> QED BY <1>2, <1>3

LEMMA BalancerInvInit == BalancerInit => BalancerInv
<1>1. 0 \in 0..MaxFails
  BY BalancerAssumption
<1>2. [isAlive |-> TRUE, failCount |-> 0] \in Health
  BY <1>1 DEF Health
<1>3. BalancerInit => health \in [Providers -> Health]
  BY <1>2 DEF BalancerInit
<1>4. BalancerInit => checks \in [Checkers -> SUBSET Providers] /\ answering \subseteq Providers
  BY DEF BalancerInit
<1>5. BalancerInit => /\ DOMAIN failovers = Calls
                      /\ \A c \in Calls : failovers[c] = NoFailover
  BY DEF BalancerInit
<1> QED BY <1>3, <1>4, <1>5 DEF BalancerInv, NoFailover

LEMMA BalancerInvStep == BalancerInv /\ [BalancerNext]_balancerVars => BalancerInv'
<1> SUFFICES ASSUME BalancerInv, [BalancerNext]_balancerVars PROVE BalancerInv'
  OBVIOUS
<1>1. CASE checkHealth
  BY <1>1 DEF checkHealth, BalancerInv
<1>2. ASSUME NEW x \in Checkers, NEW p \in Providers, probed(x, p) PROVE BalancerInv'
  <2>1. health[p] \in Health
    BY DEF BalancerInv
  <2>2. healthy(health[p]) \in Health /\ failing(health[p]) \in Health
    BY <2>1, HealthCounted
  <2>3. health' \in [Providers -> Health]
    BY <1>2, <2>2 DEF probed, BalancerInv
  <2> QED BY <1>2, <2>3 DEF probed, BalancerInv
<1>3. ASSUME NEW c \in Calls, NEW n, attempt(c, n), UNCHANGED <<answering, health, checks>>
      PROVE  BalancerInv'
  BY <1>3 DEF attempt, BalancerInv
<1>4. ASSUME NEW c \in Calls, executeWithFailover(c) \/ retryCall(c) PROVE BalancerInv'
  BY <1>3, <1>4 DEF executeWithFailover, retryCall
<1>5. ASSUME NEW c \in Calls, callReturns(c) PROVE BalancerInv'
  BY <1>5 DEF callReturns, BalancerInv
<1>6. ASSUME NEW c \in Calls, callFails(c) PROVE BalancerInv'
  BY <1>6 DEF callFails, BalancerInv, Checkers
<1>7. ASSUME NEW p \in Providers, outage(p) PROVE BalancerInv'
  BY <1>7 DEF outage, BalancerInv
<1>8. CASE UNCHANGED balancerVars
  BY <1>8 DEF balancerVars, BalancerInv
<1> QED BY <1>1, <1>2, <1>4, <1>5, <1>6, <1>7, <1>8 DEF BalancerNext

LEMMA BalancerTypes == BalancerInv => BalancerTypeOK
  BY DEF BalancerInv, BalancerTypeOK, Health

-----------------------------------------------------------------------------
(* The types of the connections to a node.                                  *)
LinkStates ==
  [provider : {"none", "open", "silent"}, isConnecting : BOOLEAN,
   attempts : 0..maxReconnectAttempts + 1, timers : 0..MaxTimers,
   awaited : [Waiters -> 0..MaxTimers], late : 0..MaxTimers, used : BOOLEAN,
   watched : BOOLEAN, heard : BOOLEAN]

MonitoringInv ==
  /\ registered \subseteq Links /\ Cardinality(registered) <= 1
  /\ links \in [Links -> LinkStates]

LEMMA MoreType == ASSUME NEW most \in Nat, NEW n \in 0..most PROVE more(n, most) \in 0..most
  BY DEF more

LEMMA LinkNumbers ==
  ASSUME NEW l \in LinkStates
  PROVE  /\ more(l.timers, MaxTimers) \in 0..MaxTimers /\ more(l.late, MaxTimers) \in 0..MaxTimers
         /\ more(l.attempts, maxReconnectAttempts + 1) \in 0..maxReconnectAttempts + 1
         /\ \A who \in Waiters : more(l.awaited[who], MaxTimers) \in 0..MaxTimers
<1>1. MaxTimers \in Nat /\ maxReconnectAttempts + 1 \in Nat
  BY MonitoringAssumption
<1>2. /\ l.timers \in 0..MaxTimers /\ l.late \in 0..MaxTimers
      /\ l.attempts \in 0..maxReconnectAttempts + 1 /\ l.awaited \in [Waiters -> 0..MaxTimers]
  BY DEF LinkStates
<1> QED BY <1>1, <1>2, MoreType

LEMMA LinkConnects ==
  ASSUME NEW l \in LinkStates, NEW who \in Waiters
  PROVE  connectWebSocket(l, who) \in LinkStates
<1>1. PICK a, n : a = more(l.attempts, maxReconnectAttempts + 1) /\ n = more(l.awaited[who], MaxTimers)
  OBVIOUS
<1>2. a \in 0..maxReconnectAttempts + 1 /\ n \in 0..MaxTimers
  BY <1>1, LinkNumbers
<1>3. connectWebSocket(l, who) =
        IF l.isConnecting THEN l
        ELSE [l EXCEPT !.isConnecting = TRUE, !.attempts = a, !.awaited[who] = n]
  BY <1>1 DEF connectWebSocket
<1>4. PICK f : f = [l.awaited EXCEPT ![who] = n]
  OBVIOUS
<1>5. f \in [Waiters -> 0..MaxTimers]
  BY <1>2, <1>4 DEF LinkStates
<1>6. [l EXCEPT !.isConnecting = TRUE, !.attempts = a, !.awaited = f] \in LinkStates
  BY <1>2, <1>5 DEF LinkStates
<1>7. [l EXCEPT !.isConnecting = TRUE, !.attempts = a, !.awaited[who] = n]
        = [l EXCEPT !.isConnecting = TRUE, !.attempts = a, !.awaited = f]
  BY <1>4
<1> QED BY <1>3, <1>6, <1>7

LEMMA LinkReconnects == ASSUME NEW l \in LinkStates PROVE attemptReconnect(l) \in LinkStates
<1>1. PICK n : n = more(l.timers, MaxTimers)
  OBVIOUS
<1>2. n \in 0..MaxTimers
  BY <1>1, LinkNumbers
<1>3. attemptReconnect(l) = IF l.attempts > maxReconnectAttempts THEN l ELSE [l EXCEPT !.timers = n]
  BY <1>1 DEF attemptReconnect
<1> QED BY <1>2, <1>3 DEF LinkStates

LEMMA LinkCloses == ASSUME NEW l \in LinkStates PROVE attemptReconnect(withoutProvider(l)) \in LinkStates
<1>1. withoutProvider(l) \in LinkStates
  BY DEF withoutProvider, LinkStates
<1> QED BY <1>1, LinkReconnects

LEMMA MonitoringInvInit == MonitoringInit => MonitoringInv
<1>1. NewLink \in LinkStates
  BY MonitoringAssumption DEF NewLink, LinkStates
<1>2. Cardinality({}) = 0
  BY FS_EmptySet
<1> QED BY <1>1, <1>2 DEF MonitoringInit, MonitoringInv

LEMMA MonitoringInvStep == MonitoringInv /\ [MonitoringNext]_monitoringVars => MonitoringInv'
<1> SUFFICES ASSUME MonitoringInv, [MonitoringNext]_monitoringVars PROVE MonitoringInv'
  OBVIOUS
<1>0. MaxTimers \in Nat /\ maxReconnectAttempts \in Nat
  BY MonitoringAssumption
<1>1. ASSUME NEW w \in Links, NEW l \in LinkStates, put(w, l), registered' \in {registered, {w}}
      PROVE  MonitoringInv'
  <2>1. Cardinality({w}) = 1
    BY FS_Singleton
  <2> QED BY <1>1, <2>1 DEF put, MonitoringInv
<1>2. ASSUME NEW w \in Links PROVE links[w] \in LinkStates
  BY DEF MonitoringInv
<1>3. ASSUME NEW w \in Links, setupWebSocket(w) PROVE MonitoringInv'
  <2>1. [links[w] EXCEPT !.used = TRUE] \in LinkStates
    BY <1>2 DEF LinkStates
  <2> QED BY <1>1, <1>3, <2>1, LinkConnects DEF setupWebSocket, Outside, Waiters
<1>4. ASSUME NEW w \in Links, NEW who \in Waiters, socketOpens(w, who) PROVE MonitoringInv'
  <2> DEFINE b == who = "timer" /\ links[w].watched
             n == links[w].awaited[who] - 1
             l == [links[w] EXCEPT !.provider = "open", !.isConnecting = FALSE, !.attempts = 0,
                                   !.awaited[who] = n, !.heard = b]
  <2>1. put(w, l) /\ links[w].awaited[who] > 0
    BY <1>4 DEF socketOpens
  <2>2. b \in BOOLEAN /\ n \in 0..MaxTimers /\ 0 \in 0..maxReconnectAttempts + 1
    BY <1>0, <1>2, <2>1 DEF LinkStates
  <2> HIDE DEF b, n
  <2>3. l \in LinkStates
    BY <1>2, <2>2 DEF LinkStates
  <2> HIDE DEF l
  <2> QED BY <1>1, <1>4, <2>1, <2>3 DEF socketOpens
<1>5. ASSUME NEW w \in Links, NEW who \in Waiters, connectFails(w, who) PROVE MonitoringInv'
  <2> DEFINE n == links[w].awaited[who] - 1
  <2>1. PICK late \in {links[w].late, more(links[w].late, MaxTimers)} :
          put(w, attemptReconnect([links[w] EXCEPT !.isConnecting = FALSE,
                                     !.awaited[who] = n, !.late = late]))
    BY <1>5 DEF connectFails
  <2>2. late \in 0..MaxTimers /\ n \in 0..MaxTimers
    BY <1>0, <1>2, <1>5, LinkNumbers DEF connectFails, LinkStates
  <2> HIDE DEF n
  <2>3. [links[w] EXCEPT !.isConnecting = FALSE, !.awaited[who] = n, !.late = late] \in LinkStates
    BY <1>2, <2>2 DEF LinkStates
  <2> QED BY <1>1, <1>5, <2>1, <2>3, LinkReconnects DEF connectFails, Outside
<1>6. ASSUME NEW w \in Links, lateSocketOpens(w) PROVE MonitoringInv'
  <2> DEFINE l == [links[w] EXCEPT !.late = links[w].late - 1, !.attempts = 0, !.isConnecting = FALSE]
  <2>1. links[w].late - 1 \in 0..MaxTimers /\ 0 \in 0..maxReconnectAttempts + 1
    BY <1>0, <1>2, <1>6 DEF lateSocketOpens, LinkStates
  <2>2. l \in LinkStates /\ put(w, l)
    BY <1>2, <1>6, <2>1 DEF lateSocketOpens, LinkStates
  <2> QED BY <1>1, <1>6, <2>2 DEF lateSocketOpens, Outside
<1>7. ASSUME NEW w \in Links, reconnect(w) PROVE MonitoringInv'
  <2> DEFINE l == [links[w] EXCEPT !.timers = links[w].timers - 1]
  <2>1. links[w].timers - 1 \in 0..MaxTimers
    BY <1>0, <1>2, <1>7 DEF reconnect, LinkStates
  <2>2. l \in LinkStates
    BY <1>2, <2>1 DEF LinkStates
  <2>3. put(w, IF l.isConnecting THEN [l EXCEPT !.heard = l.watched /\ l.provider = "open"]
               ELSE connectWebSocket(l, "timer"))
    BY <1>7 DEF reconnect
  <2> HIDE DEF l
  <2> DEFINE b == l.watched /\ l.provider = "open"
  <2>4. b \in BOOLEAN
    OBVIOUS
  <2> HIDE DEF b
  <2>5. [l EXCEPT !.heard = b] \in LinkStates
    BY <2>2, <2>4 DEF LinkStates
  <2>6. connectWebSocket(l, "timer") \in LinkStates
    BY <2>2, LinkConnects DEF Waiters
  <2> QED BY <1>1, <1>7, <2>3, <2>5, <2>6 DEF reconnect, Outside, b
<1>8. ASSUME NEW w \in Links, socketCloses(w) PROVE MonitoringInv'
  <2>1. [links[w] EXCEPT !.provider = "silent"] \in LinkStates
    BY <1>2 DEF LinkStates
  <2> QED BY <1>1, <1>2, <1>8, <2>1, LinkCloses DEF socketCloses, Outside
<1>9. ASSUME NEW w \in Links, checkConnectionHealth(w) PROVE MonitoringInv'
  BY <1>1, <1>2, <1>9, LinkCloses, LinkConnects DEF checkConnectionHealth, Outside, Waiters
<1>10. ASSUME NEW w \in Links, subscribeToAddress(w) \/ stopMonitoring(w) PROVE MonitoringInv'
  <2>1. /\ [links[w] EXCEPT !.watched = TRUE, !.heard = TRUE] \in LinkStates
        /\ [links[w] EXCEPT !.watched = FALSE, !.heard = FALSE] \in LinkStates
    BY <1>2 DEF LinkStates
  <2> QED BY <1>1, <1>10, <2>1 DEF subscribeToAddress, stopMonitoring, Outside
<1>11. CASE closeAll
  BY <1>2, <1>11, LinkCloses DEF closeAll, MonitoringInv
<1>12. CASE networkChanges \/ UNCHANGED monitoringVars
  BY <1>12 DEF networkChanges, monitoringVars, MonitoringInv
<1> QED BY <1>3, <1>4, <1>5, <1>6, <1>7, <1>8, <1>9, <1>10, <1>11, <1>12 DEF MonitoringNext

LEMMA MonitoringTypes == MonitoringInv => MonitoringTypeOK
  BY DEF MonitoringInv, MonitoringTypeOK, LinkStates

-----------------------------------------------------------------------------
(* However queries, probes, calls and connections overlap, each of the four  *)
(* ways to a chain's nodes keeps its types: counters and ages stay within    *)
(* their bounds, the shared index on an endpoint, and one connection is kept.*)
THEOREM NetworkTypesHold == Spec => []NetworkTypeOK
<1> DEFINE NetworkInv == BalanceInv /\ BalancerInv /\ RpcInv /\ MonitoringInv
<1>1. Init => NetworkInv
  BY BalanceInvInit, BalancerInvInit, RpcInvInit, MonitoringInvInit DEF Init
<1>2. [Next]_networkVars => /\ [BalanceNext]_balanceVars /\ [BalancerNext]_balancerVars
                            /\ [RpcNext]_rpcVars /\ [MonitoringNext]_monitoringVars
  BY DEF Next, networkVars
<1>3. NetworkInv /\ [Next]_networkVars => NetworkInv'
  BY <1>2, BalanceInvStep, BalancerInvStep, RpcInvStep, MonitoringInvStep
<1>4. NetworkInv => NetworkTypeOK
  BY BalanceTypes, BalancerTypes, MonitoringTypes DEF NetworkTypeOK, RpcInv
<1> HIDE DEF NetworkInv
<1> QED BY <1>1, <1>3, <1>4, PTL DEF Spec
=============================================================================
