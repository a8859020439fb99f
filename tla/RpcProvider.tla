------------------------------ MODULE RpcProvider ------------------------------
(***************************************************************************)
(* The fallback over the RPC endpoints of one network (services/rpc-       *)
(* provider.service.ts).  Calls share the current index, the health marks  *)
(* and the cache of providers; a call is cut where it awaits a provider's  *)
(* first answer or the action's.                                           *)
(***************************************************************************)
EXTENDS Naturals

CONSTANTS
  Fallbacks,      \* calls of executeWithFallback
  N,              \* endpoints, 0 .. N-1
  MaxChanges      \* bound: endpoints going down or up

ASSUME RpcProviderAssumption == N \in Nat \ {0} /\ MaxChanges \in Nat

VARIABLES
  up,             \* the endpoints that answer
  marks,          \* healthCheckResults: those taken to be healthy
  currentIndex,
  providerCache,  \* those with a provider made and ready
  checking,       \* the endpoint the health check awaits, N while its timer runs
  fallbacks,      \* call |-> [step, on, switching, attempts, steady]
  changes

rpcVars == <<up, marks, currentIndex, providerCache, checking, fallbacks, changes>>

Endpoints == 0..N - 1
Settings == <<up, checking, changes>>

RpcInit ==
  /\ up = Endpoints /\ marks = Endpoints /\ providerCache = {}
  /\ currentIndex = 0 /\ checking = 0 /\ changes = 0
  /\ fallbacks = [c \in Fallbacks |->
       [step |-> "idle", on |-> 0, switching |-> FALSE, attempts |-> 0, steady |-> FALSE]]

\* History: a call is steady while the marks are right and nothing they are about changes.
onlySteady(calls, steady) == [c \in Fallbacks |-> [calls[c] EXCEPT !.steady = @ /\ steady]]

\* Up to the next await: a provider that is cached is acted on, one that is not must
\* first be ready.  What a switch returns is not used: the loop asks for the current
\* provider again.
getProvider(h, index, switching) ==
  IF index \notin providerCache
  THEN [h EXCEPT !.step = "ready", !.on = index, !.switching = switching]
  ELSE [h EXCEPT !.step = "act", !.on = index, !.switching = FALSE]

\* The first index after the current one with a mark in m.
nextIndex_AnyMark(m) == (currentIndex + 1) % N

nextIndex_NoWrap(m) ==
  currentIndex + (CHOOSE k \in 1..N : (currentIndex + k) % N \in m)

nextIndex(m) ==
  LET after(k) == (currentIndex + k) % N IN
  after(CHOOSE k \in 1..N : after(k) \in m /\ \A j \in 1..k - 1 : after(j) \notin m)

\* Call c goes on with record h after a switch under the marks m; when there are none
\* the first endpoint is next and all are marked again.
switchToNextProvider(c, h, m) ==
  /\ marks' = IF m = {} THEN Endpoints ELSE m
  /\ currentIndex' = IF m = {} THEN 0 ELSE nextIndex(m)
  /\ fallbacks' = onlySteady([fallbacks EXCEPT ![c] = getProvider(h, currentIndex', h.switching)],
                             marks' = marks)

executeWithFallback(c) ==
  /\ fallbacks[c].step \in {"idle", "failed"}
  /\ fallbacks' = [fallbacks EXCEPT ![c] =
       getProvider([@ EXCEPT !.attempts = 0, !.steady = (marks = up)], currentIndex, FALSE)]
  /\ UNCHANGED <<Settings, marks, currentIndex, providerCache>>

providerReady(c) ==
  LET h == fallbacks[c] IN
  /\ h.step = "ready" /\ h.on \in up
  /\ providerCache' = providerCache \cup {h.on}
  /\ fallbacks' = [fallbacks EXCEPT ![c] =
       IF ~h.switching THEN [h EXCEPT !.step = "act"]
       ELSE IF currentIndex = h.on THEN [h EXCEPT !.step = "act", !.switching = FALSE]
       ELSE getProvider(h, currentIndex, FALSE)]
  /\ UNCHANGED <<Settings, marks, currentIndex>>

\* The client polls an endpoint that is silent, and gives up on other errors.
providerThrows(c) ==
  LET h == fallbacks[c] IN
  /\ h.step = "ready" /\ h.on \notin up
  /\ switchToNextProvider(c, h, marks \ {h.on})
  /\ UNCHANGED <<Settings, providerCache>>

\* The action returns, or throws an error of its own that is not retried.
actionReturns(c) ==
  /\ fallbacks[c].step = "act" /\ fallbacks[c].on \in up
  /\ fallbacks' = [fallbacks EXCEPT ![c].step = "idle"]
  /\ UNCHANGED <<Settings, marks, currentIndex, providerCache>>

\* An error of the endpoint: switch and try again, as often as there are endpoints.
actionThrows(c) ==
  LET h == [fallbacks[c] EXCEPT !.attempts = @ + 1] IN
  /\ h.step = "act" /\ h.on \notin up
  /\ IF h.attempts < N
     THEN switchToNextProvider(c, [h EXCEPT !.switching = TRUE], marks)
     ELSE /\ fallbacks' = [fallbacks EXCEPT ![c] = [h EXCEPT !.step = "failed"]]
          /\ UNCHANGED <<marks, currentIndex>>
  /\ UNCHANGED <<Settings, providerCache>>

\* One endpoint after the other, then five minutes' rest.
runHealthCheck ==
  /\ IF checking = N THEN checking' = 0 /\ UNCHANGED <<marks, fallbacks>>
     ELSE /\ checking' = checking + 1
          /\ marks' = IF checking \in up THEN marks \cup {checking} ELSE marks \ {checking}
          /\ fallbacks' = onlySteady(fallbacks, marks' = marks)
  /\ UNCHANGED <<up, currentIndex, providerCache, changes>>

endpointChanges(e) ==
  /\ changes < MaxChanges /\ changes' = changes + 1
  /\ up' = IF e \in up THEN up \ {e} ELSE up \cup {e}
  /\ fallbacks' = onlySteady(fallbacks, FALSE)
  /\ UNCHANGED <<marks, currentIndex, providerCache, checking>>

RpcNext ==
  \/ \E c \in Fallbacks : \/ executeWithFallback(c) \/ providerReady(c) \/ providerThrows(c)
                          \/ actionReturns(c) \/ actionThrows(c)
  \/ runHealthCheck
  \/ \E e \in Endpoints : endpointChanges(e)

RpcSpec == RpcInit /\ [][RpcNext]_rpcVars

-----------------------------------------------------------------------------
(* Properties *)

RpcTypeOK ==
  /\ up \subseteq Endpoints /\ marks \subseteq Endpoints /\ providerCache \subseteq Endpoints
  /\ currentIndex \in Endpoints /\ checking \in 0..N
  /\ fallbacks \in [Fallbacks -> [step : {"idle", "ready", "act", "failed"}, on : Endpoints,
                                  switching : BOOLEAN, attempts : 0..N, steady : BOOLEAN]]

\* While the marks are right and stay so, a call fails only when no endpoint answers,
\* although other calls move the shared index between its own attempts.
SteadyCallsReach ==
  \A c \in Fallbacks : fallbacks[c].step = "failed" /\ fallbacks[c].steady => up = {}
=============================================================================
