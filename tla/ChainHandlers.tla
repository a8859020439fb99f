--------------------------- MODULE ChainHandlers ---------------------------
(***************************************************************************)
(* The RPC endpoints of one network in hotwallet/handlers/                 *)
(* ChainHandlers.ts: which of them the provider uses, which have failed,   *)
(* and the token balance calls that retry on the provider they began with. *)
(***************************************************************************)
EXTENDS Naturals, FiniteSetsExt

CONSTANTS
  endpointCount,   \* length of the network's list of endpoints
  BalanceCalls,    \* token balance calls in flight
  maxAttempts

ASSUME EndpointsAssumption == endpointCount \in Nat \ {0} /\ maxAttempts \in Nat \ {0}

VARIABLES
  currentRpcIndex,
  failedEndpoints,  \* endpoint |-> "none", "recent" (under five minutes ago), or "past"
  provider,         \* the endpoint the network's provider was made for
  balanceCalls      \* what each call has in hand

handlerVars == <<currentRpcIndex, failedEndpoints, provider, balanceCalls>>

Endpoints == 0 .. endpointCount - 1
NoBalanceCall == [attempts |-> 0, endpoint |-> 0, pending |-> FALSE]

HandlersInit ==
  /\ currentRpcIndex = 0 /\ provider = 0
  /\ failedEndpoints = [e \in Endpoints |-> "none"]
  /\ balanceCalls = [b \in BalanceCalls |-> NoBalanceCall]

after(k) == (currentRpcIndex + k) % endpointCount

nextIndex_OneShort(failed) ==
  LET usable == {k \in 1 .. endpointCount - 1 : failed[after(k)] # "recent"}
  IN  IF usable = {} THEN after(1) ELSE after(Min(usable))

\* The first endpoint from the next one on that did not fail recently, the
\* current one last; the next one if all did.
nextIndex(failed) ==
  LET usable == {k \in 1 .. endpointCount : failed[after(k)] # "recent"}
  IN  IF usable = {} THEN after(1) ELSE after(Min(usable))

\* A failure that is tried again is forgotten.
rotateRpcEndpoint(failed) ==
  LET next == nextIndex(failed)
  IN  IF endpointCount = 1
      THEN /\ failedEndpoints' = failed
           /\ UNCHANGED currentRpcIndex
      ELSE /\ currentRpcIndex' = next
           /\ failedEndpoints' = [failed EXCEPT ![next] = IF @ = "past" THEN "none" ELSE @]

\* rotateEndpoint moves the index and leaves the provider alone.
rotateEndpoint == rotateRpcEndpoint(failedEndpoints) /\ UNCHANGED <<provider, balanceCalls>>

\* Any caller may blame any endpoint; making the new provider may fail.
markEndpointFailed(e) ==
  /\ rotateRpcEndpoint([failedEndpoints EXCEPT ![e] = "recent"])
  /\ provider' \in IF endpointCount = 1 THEN {provider} ELSE {provider, currentRpcIndex'}
  /\ UNCHANGED balanceCalls

recoveryTimePasses(e) ==
  /\ failedEndpoints[e] = "recent"
  /\ failedEndpoints' = [failedEndpoints EXCEPT ![e] = "past"]
  /\ UNCHANGED <<currentRpcIndex, provider, balanceCalls>>

\* A token's getBalance makes its contract for the provider of the moment.
getBalance(b) ==
  /\ ~balanceCalls[b].pending
  /\ balanceCalls' = [balanceCalls EXCEPT ![b] =
                        [attempts |-> 0, endpoint |-> provider, pending |-> TRUE]]
  /\ UNCHANGED <<currentRpcIndex, failedEndpoints, provider>>

\* An attempt fails: it waits and tries the same endpoint, or answers '0.0'.
attemptFails(b) ==
  /\ balanceCalls[b].pending
  /\ balanceCalls' = IF balanceCalls[b].attempts + 1 = maxAttempts
                     THEN [balanceCalls EXCEPT ![b] = NoBalanceCall]
                     ELSE [balanceCalls EXCEPT ![b].attempts = @ + 1]
  /\ UNCHANGED <<currentRpcIndex, failedEndpoints, provider>>

balanceAnswered(b) ==
  /\ balanceCalls[b].pending
  /\ balanceCalls' = [balanceCalls EXCEPT ![b] = NoBalanceCall]
  /\ UNCHANGED <<currentRpcIndex, failedEndpoints, provider>>

HandlersNext ==
  \/ rotateEndpoint
  \/ \E e \in Endpoints : markEndpointFailed(e) \/ recoveryTimePasses(e)
  \/ \E b \in BalanceCalls : getBalance(b) \/ attemptFails(b) \/ balanceAnswered(b)

HandlersSpec == HandlersInit /\ [][HandlersNext]_handlerVars

-----------------------------------------------------------------------------
HandlersTypeOK ==
  /\ currentRpcIndex \in Endpoints /\ provider \in Endpoints
  /\ failedEndpoints \in [Endpoints -> {"none", "recent", "past"}]
  /\ balanceCalls \in [BalanceCalls -> [attempts : 0 .. maxAttempts - 1, endpoint : Endpoints,
                                        pending : BOOLEAN]]

LandsOnUsable ==
  currentRpcIndex' # currentRpcIndex =>
    \/ failedEndpoints'[currentRpcIndex'] # "recent"
    \/ \A e \in Endpoints : failedEndpoints'[e] = "recent"

\* A rotation never lands on an endpoint that failed within the recovery time
\* while another, the current one included, did not, whichever endpoints the
\* callers have blamed and in whatever order their failures have aged.
RotationFindsUsable == [][LandsOnUsable]_handlerVars
=============================================================================
