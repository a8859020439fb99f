---------------------------- MODULE CircuitBreaker ----------------------------
(***************************************************************************)
(* One breaker of the map that hotwallet/utils/circuitBreaker.ts exports.  *)
(* Its functions never await; they are operators on the breaker's state.   *)
(* Times are ages, and failures are counted up to the threshold they are   *)
(* compared with: more of them make no difference to the code.             *)
(***************************************************************************)
EXTENDS Naturals

CONSTANTS failureThreshold, resetTimeout, failureTimeout

\* Every breaker waits 30 s, and forgets failures after 60 s.
ASSUME BreakerAssumption ==
  /\ failureThreshold \in Nat \ {0}
  /\ resetTimeout \in Nat /\ failureTimeout \in Nat /\ resetTimeout <= failureTimeout

Breaker == [failures : 0..failureThreshold, lastFailure : 0..failureTimeout + 1,
            open : BOOLEAN, openTime : 0..resetTimeout]
NewBreaker == [failures |-> 0, lastFailure |-> failureTimeout + 1,
               open |-> FALSE, openTime |-> resetTimeout]

\* Closed, or open for so long that requests are let through again.
isCircuitClosed(b) == b.open => b.openTime >= resetTimeout

\* What the check leaves behind: half-open, or old failures forgotten.
checked(b) ==
  IF b.open THEN [b EXCEPT !.open = FALSE]
  ELSE IF b.lastFailure > failureTimeout THEN [b EXCEPT !.failures = 0] ELSE b

recordSuccess(b) == [b EXCEPT !.failures = 0, !.open = FALSE]

upTo(n, most) == IF n < most THEN n + 1 ELSE most

recordFailure_OneLate(b) ==
  LET counted == [b EXCEPT !.failures = upTo(b.failures, failureThreshold), !.lastFailure = 0] IN
  IF b.failures >= failureThreshold
  THEN [counted EXCEPT !.open = TRUE, !.openTime = 0] ELSE counted

recordFailure(b) ==
  LET counted == [b EXCEPT !.failures = upTo(b.failures, failureThreshold), !.lastFailure = 0] IN
  IF counted.failures >= failureThreshold
  THEN [counted EXCEPT !.open = TRUE, !.openTime = 0] ELSE counted

breakerAges(b) == [b EXCEPT !.lastFailure = upTo(b.lastFailure, failureTimeout + 1),
                            !.openTime = upTo(b.openTime, resetTimeout)]
=============================================================================
