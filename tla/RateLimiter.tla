------------------------------ MODULE RateLimiter ------------------------------
(***************************************************************************)
(* The limiter in front of every call to a node (hotwallet/utils/          *)
(* rateLimiter.ts), with a queue, as every service configures it.  Time is *)
(* kept as ages: a timestamp older than what it is compared with does not  *)
(* age further.  waitForAvailability runs to its first await in one step.  *)
(***************************************************************************)
EXTENDS Naturals, Sequences, FiniteSets

CONSTANTS
  Callers, Keys,                    \* who waits, and for which resource:operation
  NULL,
  maxRequests, interval,            \* so many requests within so much time
  maxQueueSize, queueTimeout

ASSUME LimiterAssumption ==
  /\ maxRequests \in Nat \ {0} /\ interval \in Nat \ {0}
  /\ maxQueueSize \in Nat /\ queueTimeout \in Nat \ {0}

VARIABLES
  requests,    \* key |-> ages of the admitted requests, oldest first
  waiting      \* caller |-> its place in a queue [key, age], or NULL

limiterVars == <<requests, waiting>>

LimiterInit ==
  /\ requests = [k \in Keys |-> <<>>]
  /\ waiting = [c \in Callers |-> NULL]

\* The ages in r[1..i] of requests that are not too old.
recent(r) ==
  LET kept[i \in 0..Len(r)] ==
        IF i = 0 THEN <<>>
        ELSE IF r[i] < interval THEN Append(kept[i - 1], r[i]) ELSE kept[i - 1]
  IN kept[Len(r)]

validRequests(k) == recent(requests[k])
limited(k) == Len(validRequests(k)) >= maxRequests
queue(k) == {c \in Callers : waiting[c] # NULL /\ waiting[c].key = k}

admit(k) ==
  /\ ~limited(k)
  /\ requests' = [requests EXCEPT ![k] = Append(validRequests(k), 0)]
  /\ UNCHANGED waiting

\* A queued request is released by processQueue, which only a released request
\* calls: what ends the wait is its timer.
queueRequest(c, k) ==
  /\ limited(k) /\ Cardinality(queue(k)) < maxQueueSize
  /\ requests' = [requests EXCEPT ![k] = validRequests(k)]
  /\ waiting' = [waiting EXCEPT ![c] = [key |-> k, age |-> 0]]

queueFull(k) ==
  /\ limited(k) /\ Cardinality(queue(k)) >= maxQueueSize
  /\ requests' = [requests EXCEPT ![k] = validRequests(k)]
  /\ UNCHANGED waiting

queueTimesOut_WhenFree(c) ==
  /\ waiting[c] # NULL /\ ~limited(waiting[c].key)
  /\ waiting' = [waiting EXCEPT ![c] = NULL]
  /\ UNCHANGED requests

queueTimesOut(c) ==
  /\ waiting[c] # NULL /\ waiting[c].age >= queueTimeout
  /\ waiting' = [waiting EXCEPT ![c] = NULL]
  /\ UNCHANGED requests

\* The timer that forgets old requests; empty queues are the absence of waiters.
cleanup ==
  /\ \E k \in Keys : validRequests(k) # requests[k]
  /\ requests' = [k \in Keys |-> validRequests(k)]
  /\ UNCHANGED waiting

older(age, most) == IF age < most THEN age + 1 ELSE age

limiterAges ==
  /\ requests' = [k \in Keys |-> [i \in DOMAIN requests[k] |-> older(requests[k][i], interval)]]
  /\ waiting' = [c \in Callers |->
       IF waiting[c] = NULL THEN NULL
       ELSE [waiting[c] EXCEPT !.age = older(waiting[c].age, queueTimeout)]]

LimiterTypeOK ==
  /\ \A k \in Keys : requests[k] \in Seq(0..interval)
  /\ \A c \in Callers : waiting[c] \in [key : Keys, age : 0..queueTimeout] \cup {NULL}
=============================================================================
