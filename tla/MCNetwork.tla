------------------------------ MODULE MCNetwork ------------------------------
(***************************************************************************)
(* The four ways from the backend to a chain's nodes, for TLC.  They share *)
(* no state: a behaviour is about one of them, chosen in its first state.  *)
(***************************************************************************)
EXTENDS BalanceService, RPCLoadBalancer, RpcProvider, MonitoringService

VARIABLE part

networkVars == <<part, balanceVars, balancerVars, rpcVars, monitoringVars>>

\* Two endpoints of one priority.
equalPriority == [p \in Providers |-> 1]

Init ==
  /\ part \in {"balances", "balancer", "fallback", "monitoring"}
  /\ BalanceInit /\ BalancerInit /\ RpcInit /\ MonitoringInit
  /\ part # "balances" => service = "native"

Next ==
  /\ UNCHANGED part
  /\ \/ part = "balances" /\ BalanceNext /\ UNCHANGED <<balancerVars, rpcVars, monitoringVars>>
     \/ part = "balancer" /\ BalancerNext /\ UNCHANGED <<balanceVars, rpcVars, monitoringVars>>
     \/ part = "fallback" /\ RpcNext /\ UNCHANGED <<balanceVars, balancerVars, monitoringVars>>
     \/ part = "monitoring" /\ MonitoringNext /\ UNCHANGED <<balanceVars, balancerVars, rpcVars>>

\* The fairness of the part chosen.
Fairness ==
  /\ WF_balanceVars(part = "balances" /\ balanceTick)
  /\ \A c \in Callers : /\ WF_balanceVars(part = "balances" /\ rateLimited(c))
                        /\ WF_balanceVars(part = "balances" /\ Answer(c))
  /\ WF_balancerVars(part = "balancer" /\ checkHealth)
  /\ \A p \in Providers :
       WF_balancerVars(part = "balancer" /\ \E x \in Checkers : probed(x, p))
  /\ \A w \in Links :
       /\ WF_monitoringVars(part = "monitoring" /\ checkConnectionHealth(w))
       /\ WF_monitoringVars(part = "monitoring" /\ \E who \in Waiters : socketOpens(w, who))

Spec == Init /\ [][Next]_networkVars /\ Fairness

\* The state of each part has its type.
NetworkTypeOK == BalanceTypeOK /\ BalancerTypeOK /\ RpcTypeOK /\ MonitoringTypeOK
=============================================================================
