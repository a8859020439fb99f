---------------------------- MODULE RPCLoadBalancer ----------------------------
(***************************************************************************)
(* The load balancer over the RPC endpoints of one network (hotwallet/     *)
(* services/RPCLoadBalancer.ts).  A health check asks every endpoint at    *)
(* once; the timer's check and those of failing calls overlap and update   *)
(* the same counters as their answers arrive.                              *)
(***************************************************************************)
EXTENDS Naturals, FiniteSets

CONSTANTS
  Providers,
  priority,         \* [Providers -> Nat]: the lowest is tried first
  Calls, Timer,     \* who runs health checks: failing calls and the interval
  maxFailCount, recoveryThreshold, maxRetries,
  MaxFails,         \* bound: failures counted
  MaxOutages        \* bound: changes of the endpoints

ASSUME BalancerAssumption ==
  /\ Providers # {} /\ priority \in [Providers -> Nat]
  /\ Timer \notin Calls
  /\ recoveryThreshold < maxFailCount /\ maxFailCount <= MaxFails /\ MaxFails \in Nat

VARIABLES
  answering,   \* the endpoints that answer in time
  health,      \* provider |-> [isAlive, failCount]
  checks,      \* who checks |-> the endpoints whose answer is awaited
  failovers,   \* call |-> [step, on: the provider called last, retries]
  outages

balancerVars == <<answering, health, checks, failovers, outages>>

Checkers == Calls \cup {Timer}
NoFailover == [step |-> "idle", on |-> CHOOSE p \in Providers : TRUE, retries |-> 0]

BalancerInit ==
  /\ answering = Providers /\ outages = 0
  /\ health = [p \in Providers |-> [isAlive |-> TRUE, failCount |-> 0]]
  /\ checks = [x \in Checkers |-> IF x = Timer THEN Providers ELSE {}]
  /\ failovers = [c \in Calls |-> NoFailover]

alive == {p \in Providers : health[p].isAlive}

\* The living of the best priority (the fastest of them, which may be any), or else
\* one of those that failed least.
best ==
  IF alive # {} THEN {p \in alive : \A q \in alive : priority[p] <= priority[q]}
  ELSE {p \in Providers : \A q \in Providers : health[p].failCount <= health[q].failCount}

-----------------------------------------------------------------------------
(* Health checks                                                           *)

checkHealth ==
  /\ checks[Timer] = {}
  /\ checks' = [checks EXCEPT ![Timer] = Providers]
  /\ UNCHANGED <<answering, health, failovers, outages>>

\* A mark that is left only when the count goes below zero.
recovering_TooLow(h) ==
  LET n == IF h.failCount > 0 THEN h.failCount - 1 ELSE 0 IN
  [failCount |-> n, isAlive |-> n + 1 < maxFailCount - recoveryThreshold]

\* A dead endpoint that answers works its count down before it is alive again.
recovering(h) ==
  LET n == IF h.failCount > 0 THEN h.failCount - 1 ELSE 0 IN
  [failCount |-> n, isAlive |-> n < maxFailCount - recoveryThreshold]

healthy(h) == IF h.isAlive THEN [h EXCEPT !.failCount = 0] ELSE recovering(h)

failing(h) ==
  LET n == IF h.failCount < MaxFails THEN h.failCount + 1 ELSE MaxFails IN
  [failCount |-> n, isAlive |-> h.isAlive /\ n < maxFailCount]

probed(x, p) ==
  /\ p \in checks[x]
  /\ checks' = [checks EXCEPT ![x] = @ \ {p}]
  /\ health' = [health EXCEPT ![p] = IF p \in answering THEN healthy(@) ELSE failing(@)]
  /\ UNCHANGED <<answering, failovers, outages>>

-----------------------------------------------------------------------------
(* Calls: an attempt on the best provider, a health check, the next.       *)

attempt(c, retries) ==
  \E p \in best : failovers' = [failovers EXCEPT ![c] = [step |-> "called", on |-> p, retries |-> retries]]

executeWithFailover(c) ==
  /\ failovers[c].step = "idle"
  /\ attempt(c, 0)
  /\ UNCHANGED <<answering, health, checks, outages>>

callReturns(c) ==
  /\ failovers[c].step = "called" /\ failovers[c].on \in answering
  /\ failovers' = [failovers EXCEPT ![c].step = "idle"]
  /\ UNCHANGED <<answering, health, checks, outages>>

\* After the last retry the call is given up.
callFails(c) ==
  LET retries == failovers[c].retries + 1 IN
  /\ failovers[c].step = "called" /\ failovers[c].on \notin answering
  /\ IF retries < maxRetries
     THEN /\ failovers' = [failovers EXCEPT ![c].step = "checking", ![c].retries = retries]
          /\ checks' = [checks EXCEPT ![c] = Providers]
     ELSE /\ failovers' = [failovers EXCEPT ![c].step = "idle"]
          /\ UNCHANGED checks
  /\ UNCHANGED <<answering, health, outages>>

retryCall(c) ==
  /\ failovers[c].step = "checking" /\ checks[c] = {}
  /\ attempt(c, failovers[c].retries)
  /\ UNCHANGED <<answering, health, checks, outages>>

outage(p) ==
  /\ outages < MaxOutages /\ outages' = outages + 1
  /\ answering' = IF p \in answering THEN answering \ {p} ELSE answering \cup {p}
  /\ UNCHANGED <<health, checks, failovers>>

BalancerNext ==
  \/ checkHealth
  \/ \E x \in Checkers, p \in Providers : probed(x, p)
  \/ \E c \in Calls : executeWithFailover(c) \/ callReturns(c) \/ callFails(c) \/ retryCall(c)
  \/ \E p \in Providers : outage(p)

\* The interval fires, and every probe ends, with its answer or at its timeout.
BalancerFairness ==
  /\ WF_balancerVars(checkHealth)
  /\ \A p \in Providers : WF_balancerVars(\E x \in Checkers : probed(x, p))

BalancerSpec == BalancerInit /\ [][BalancerNext]_balancerVars /\ BalancerFairness

-----------------------------------------------------------------------------
(* Properties *)

BalancerTypeOK ==
  /\ answering \subseteq Providers
  /\ health \in [Providers -> [isAlive : BOOLEAN, failCount : 0..MaxFails]]
  /\ checks \in [Checkers -> SUBSET Providers]
  /\ \A c \in Calls : failovers[c].step \in {"idle", "called", "checking"}

\* The marks follow the endpoints, although checks of the timer and of failing calls
\* overlap and each writes what the other has counted: an endpoint that answers from
\* some time on is alive for good, one that does not is dead.
HealthConverges ==
  \A p \in Providers :
    /\ <>[](p \in answering) => <>[](health[p].isAlive)
    /\ <>[](p \notin answering) => <>[](~health[p].isAlive)
=============================================================================
