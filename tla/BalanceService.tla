---------------------------- MODULE BalanceService ----------------------------
(***************************************************************************)
(* Balance and gas queries (hotwallet/services/BalanceService.ts,          *)
(* GasService.ts and the handlers they call): cache, rate limiter, circuit *)
(* breaker, node.  Keys never meet, so a behaviour is about one of them:   *)
(* "token" and "native" are balances of one address, "gas" an estimate     *)
(* with the price query that it ends with.                                 *)
(***************************************************************************)
EXTENDS RateLimiter, CircuitBreaker

CONSTANTS cacheTTL

ASSUME BalanceAssumption == cacheTTL \in Nat /\ Keys = {"query", "price"}

VARIABLES
  service,     \* which of the three
  breaker,     \* the breaker of the query's name
  cache,       \* NULL, or the age of what is cached
  queries,     \* caller |-> its step
  streak       \* history: failures of the node in a row, none older than failureTimeout

balanceVars == <<limiterVars, service, breaker, cache, queries, streak>>

QuerySteps == {"idle", "queued", "fetch", "settled", "price", "priceQueued"}

BalanceInit ==
  /\ LimiterInit
  /\ service \in {"native", "token", "gas"}
  /\ breaker = NewBreaker /\ cache = NULL /\ streak = 0
  /\ queries = [c \in Callers |-> "idle"]

go(c, s) == queries' = [queries EXCEPT ![c] = s]
hit == cache # NULL /\ cache <= cacheTTL

\* The native handler runs inside a breaker of the same name: both checks are made.
\* An open breaker answers '0.0', which is cached as a balance is.
execute(c) ==
  IF service = "gas"
  THEN go(c, "fetch") /\ UNCHANGED <<breaker, cache>>
  ELSE IF isCircuitClosed(breaker)
  THEN /\ breaker' = IF service = "native" THEN checked(checked(breaker))
                      ELSE checked(breaker)
       /\ cache' = NULL
       /\ go(c, "fetch")
  ELSE cache' = 0 /\ go(c, "idle") /\ UNCHANGED breaker

\* getBalance, getTokenBalance and estimateGas up to their first await that lasts.
getBalance(c) ==
  /\ queries[c] = "idle" /\ ~hit
  /\ \/ admit("query") /\ execute(c)
     \/ queueRequest(c, "query") /\ go(c, "queued") /\ cache' = NULL /\ UNCHANGED breaker
     \/ queueFull("query") /\ cache' = NULL /\ UNCHANGED <<queries, breaker>>
  /\ UNCHANGED <<service, streak>>

\* The timeout is an error, which the caller's catch answers with a default.
rateLimited(c) ==
  /\ queueTimesOut(c)
  /\ go(c, "idle")
  /\ UNCHANGED <<service, breaker, cache, streak>>

counted(success) ==
  streak' = CASE success -> 0
              [] ~success /\ breaker.lastFailure > failureTimeout -> 1
              [] OTHER -> upTo(streak, failureThreshold)

\* A token's handler has no breaker of its own.
tokenAnswer(c, success) ==
  /\ service = "token" /\ queries[c] = "fetch"
  /\ breaker' = IF success THEN recordSuccess(breaker) ELSE recordFailure(breaker)
  /\ counted(success)
  /\ cache' = 0 /\ go(c, "idle")
  /\ UNCHANGED <<limiterVars, service>>

\* The inner breaker turns a failure into the answer '0.0' ...
nativeAnswer(c, success) ==
  /\ service = "native" /\ queries[c] = "fetch"
  /\ breaker' = IF success THEN recordSuccess(breaker) ELSE recordFailure(breaker)
  /\ counted(success)
  /\ go(c, "settled")
  /\ UNCHANGED <<limiterVars, service, cache>>

\* ... which the outer one, of the same name, records as a success.
nativeSettled(c) ==
  /\ queries[c] = "settled"
  /\ breaker' = recordSuccess(breaker)
  /\ cache' = 0
  /\ go(c, "idle")
  /\ UNCHANGED <<limiterVars, service, streak>>

\* getGasPrice waits for the limiter of its own key; a timeout or an error of the
\* node is answered with a default price.
getGasPrice(c) ==
  \/ admit("price") /\ go(c, "price")
  \/ queueRequest(c, "price") /\ go(c, "priceQueued")
  \/ queueFull("price") /\ go(c, "idle")

\* estimateGas has its gas limit and asks for the price, or an error ends it with defaults.
gasAnswer(c) ==
  /\ service = "gas" /\ queries[c] = "fetch"
  /\ \/ go(c, "idle") /\ UNCHANGED limiterVars
     \/ getGasPrice(c)
  /\ UNCHANGED <<service, breaker, cache, streak>>

\* Fee data, the plain gas price, or the default one.
priceAnswer(c) ==
  /\ queries[c] = "price" /\ go(c, "idle")
  /\ UNCHANGED <<limiterVars, service, breaker, cache, streak>>

\* After a transfer, or when everything cached is dropped.
invalidateCache ==
  /\ cache # NULL /\ cache' = NULL
  /\ UNCHANGED <<limiterVars, service, breaker, queries, streak>>

balanceTick ==
  /\ limiterAges
  /\ breaker' = breakerAges(breaker)
  /\ cache' = IF cache = NULL THEN NULL ELSE older(cache, cacheTTL + 1)
  /\ UNCHANGED <<service, queries, streak>>

Answer(c) ==
  \/ \E success \in BOOLEAN : tokenAnswer(c, success) \/ nativeAnswer(c, success)
  \/ nativeSettled(c) \/ gasAnswer(c) \/ priceAnswer(c)

BalanceNext ==
  \/ \E c \in Callers : getBalance(c) \/ rateLimited(c) \/ Answer(c)
  \/ cleanup /\ UNCHANGED <<service, breaker, cache, queries, streak>>
  \/ invalidateCache \/ balanceTick

\* Time passes, timers fire, and the node's client answers or times out.
BalanceFairness ==
  /\ WF_balanceVars(balanceTick)
  /\ \A c \in Callers :
       WF_balanceVars(rateLimited(c)) /\ WF_balanceVars(Answer(c))

BalanceSpec == BalanceInit /\ [][BalanceNext]_balanceVars /\ BalanceFairness

-----------------------------------------------------------------------------
(* Properties *)

BalanceTypeOK ==
  /\ LimiterTypeOK
  /\ breaker \in Breaker /\ streak \in 0..failureThreshold
  /\ cache \in 0..cacheTTL + 1 \cup {NULL}
  /\ \A c \in Callers : queries[c] \in QuerySteps

Tripped == streak >= failureThreshold /\ breaker.lastFailure < resetTimeout

\* After as many failures in a row as the threshold says, whichever calls they were
\* of and however these overlapped, nobody is let through before the reset time.
BreakerTrips == service = "token" /\ Tripped => ~isCircuitClosed(breaker)

\* Every query is answered: none waits for ever for the limiter, the breaker or a node.
QueriesAreAnswered ==
  \A c \in Callers : queries[c] # "idle" ~> queries[c] = "idle"
=============================================================================
