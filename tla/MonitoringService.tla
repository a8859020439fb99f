--------------------------- MODULE MonitoringService ---------------------------
(***************************************************************************)
(* Connection, reconnection and health check of the WebSocket to one node  *)
(* (hotwallet/services/MonitoringService.ts).  Every set-up makes a state  *)
(* object, called a link here; the map keeps one of them for the health    *)
(* check.  Sockets are counted, by what still waits for them.              *)
(***************************************************************************)
EXTENDS Naturals, FiniteSets

CONSTANTS
  Links,                  \* the objects that calls of setupWebSocket make
  maxReconnectAttempts,
  MaxTimers,              \* bound: reconnections scheduled and sockets that are late
  MaxCuts                 \* bound: failures of the network

ASSUME MonitoringAssumption ==
  /\ maxReconnectAttempts \in Nat /\ MaxTimers \in Nat \ {0} /\ MaxCuts \in Nat

VARIABLES
  links,       \* link |-> state of its object, timers and sockets
  registered,  \* the link in wsProviders, at most one
  reachable,   \* the node accepts and answers
  stopped,     \* cleanup has been called
  cuts

monitoringVars == <<links, registered, reachable, stopped, cuts>>

\* Who awaits a connection: the set-up, a reconnection timer, the health check.
Waiters == {"setup", "timer", "health"}
NewLink == [provider |-> "none", isConnecting |-> FALSE, attempts |-> 0, timers |-> 0,
            awaited |-> [x \in Waiters |-> 0], late |-> 0, used |-> FALSE,
            watched |-> FALSE, heard |-> FALSE]

MonitoringInit ==
  /\ links = [w \in Links |-> NewLink]
  /\ registered = {} /\ reachable = TRUE /\ stopped = FALSE /\ cuts = 0

more(n, most) == IF n < most THEN n + 1 ELSE most
put(w, l) == links' = [links EXCEPT ![w] = l]
Outside == <<registered, reachable, stopped, cuts>>

\* A call that finds another attempt under way returns at once.
connectWebSocket(l, who) ==
  IF l.isConnecting THEN l
  ELSE [l EXCEPT !.isConnecting = TRUE, !.attempts = more(@, maxReconnectAttempts + 1),
                 !.awaited[who] = more(@, MaxTimers)]

attemptReconnect(l) ==
  IF l.attempts > maxReconnectAttempts THEN l ELSE [l EXCEPT !.timers = more(@, MaxTimers)]

withoutProvider(l) == [l EXCEPT !.provider = "none", !.heard = FALSE]

setupWebSocket(w) ==
  /\ registered = {} /\ ~links[w].used
  /\ put(w, connectWebSocket([links[w] EXCEPT !.used = TRUE], "setup"))
  /\ UNCHANGED Outside

\* The handler of 'open' and what awaits it; a timer's wait ends with subscribing again.
\* What the object held before is not closed.
socketOpens(w, who) ==
  /\ links[w].awaited[who] > 0 /\ reachable
  /\ put(w, [links[w] EXCEPT !.provider = "open", !.isConnecting = FALSE, !.attempts = 0,
                             !.awaited[who] = @ - 1, !.heard = who = "timer" /\ links[w].watched])
  /\ registered' = IF who = "setup" THEN {w} ELSE registered
  /\ UNCHANGED <<reachable, stopped, cuts>>

connectFails_KeepsFlag(w, who) ==
  /\ links[w].awaited[who] > 0 /\ ~reachable
  /\ \E late \in {links[w].late, more(links[w].late, MaxTimers)} :
       put(w, attemptReconnect([links[w] EXCEPT !.awaited[who] = @ - 1, !.late = late]))
  /\ UNCHANGED Outside

\* Refused, or timed out, with the socket still to come.
connectFails(w, who) ==
  /\ links[w].awaited[who] > 0 /\ ~reachable
  /\ \E late \in {links[w].late, more(links[w].late, MaxTimers)} :
       put(w, attemptReconnect([links[w] EXCEPT !.isConnecting = FALSE,
                                  !.awaited[who] = @ - 1, !.late = late]))
  /\ UNCHANGED Outside

\* A socket that opens after its timeout resets the object and is used by nobody.
lateSocketOpens(w) ==
  /\ links[w].late > 0 /\ reachable
  /\ put(w, [links[w] EXCEPT !.late = @ - 1, !.attempts = 0, !.isConnecting = FALSE])
  /\ UNCHANGED Outside

reconnect(w) ==
  /\ links[w].timers > 0
  /\ LET l == [links[w] EXCEPT !.timers = @ - 1] IN
     put(w, IF l.isConnecting THEN [l EXCEPT !.heard = l.watched /\ l.provider = "open"]
            ELSE connectWebSocket(l, "timer"))
  /\ UNCHANGED Outside

\* The node closes the socket that the object holds, or it stops answering.
socketCloses(w) ==
  /\ links[w].provider # "none" /\ ~reachable
  /\ \/ put(w, attemptReconnect(withoutProvider(links[w])))
     \/ links[w].provider = "open" /\ put(w, [links[w] EXCEPT !.provider = "silent"])
  /\ UNCHANGED Outside

\* Without a provider connect at once; a socket that is closed or does not answer a
\* ping is given up and a reconnection scheduled.
checkConnectionHealth(w) ==
  /\ w \in registered /\ ~stopped
  /\ \/ links[w].provider = "none" /\ ~links[w].isConnecting
        /\ put(w, connectWebSocket(links[w], "health"))
     \/ links[w].provider = "silent" /\ put(w, attemptReconnect(withoutProvider(links[w])))
  /\ UNCHANGED Outside

\* The listeners go to the provider found; NFT transfers are listened to in the same way.
subscribeToAddress(w) ==
  /\ w \in registered /\ links[w].provider = "open" /\ ~links[w].heard
  /\ put(w, [links[w] EXCEPT !.watched = TRUE, !.heard = TRUE])
  /\ UNCHANGED Outside

stopMonitoring(w) ==
  /\ w \in registered /\ links[w].watched
  /\ put(w, [links[w] EXCEPT !.watched = FALSE, !.heard = FALSE])
  /\ UNCHANGED Outside

\* Closing a socket runs its 'close' handler, which schedules a reconnection.
closeAll ==
  /\ ~stopped /\ stopped' = TRUE
  /\ links' = [w \in Links |-> IF w \in registered /\ links[w].provider # "none"
                               THEN attemptReconnect(withoutProvider(links[w])) ELSE links[w]]
  /\ UNCHANGED <<registered, reachable, cuts>>

networkChanges ==
  /\ reachable => cuts < MaxCuts
  /\ reachable' = ~reachable
  /\ cuts' = IF reachable THEN cuts + 1 ELSE cuts
  /\ UNCHANGED <<links, registered, stopped>>

MonitoringNext ==
  \/ \E w \in Links :
       \/ setupWebSocket(w) \/ reconnect(w) \/ lateSocketOpens(w) \/ socketCloses(w)
       \/ checkConnectionHealth(w) \/ subscribeToAddress(w) \/ stopMonitoring(w)
       \/ \E who \in Waiters : socketOpens(w, who) \/ connectFails(w, who)
  \/ closeAll \/ networkChanges

\* The intervals and timers fire, and a node that can be reached accepts in time.
MonitoringFairness ==
  \A w \in Links :
    /\ WF_monitoringVars(checkConnectionHealth(w))
    /\ WF_monitoringVars(\E who \in Waiters : socketOpens(w, who))

MonitoringSpec == MonitoringInit /\ [][MonitoringNext]_monitoringVars /\ MonitoringFairness

-----------------------------------------------------------------------------
(* Properties *)

MonitoringTypeOK ==
  /\ registered \subseteq Links /\ Cardinality(registered) <= 1
  /\ \A w \in Links :
       /\ links[w].provider \in {"none", "open", "silent"}
       /\ links[w].attempts \in 0..maxReconnectAttempts + 1
       /\ {links[w].timers, links[w].late} \subseteq 0..MaxTimers
       /\ links[w].awaited \in [Waiters -> 0..MaxTimers]

\* A connection that was set up comes back after every failure of the network: neither
\* the limit on reconnections nor crossing attempts, late sockets or skipped duplicates
\* leave the object without a provider for good.
ReconnectsEventually ==
  \A w \in Links :
    <>[](reachable /\ ~stopped /\ w \in registered) => <>[](links[w].provider = "open")
=============================================================================
