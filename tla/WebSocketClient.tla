--------------------------- MODULE WebSocketClient ---------------------------
(***************************************************************************)
(* The shared client for web sockets (shared/src/api/websocket/index.ts).  *)
(* The browser reports what becomes of a socket later, and of a socket     *)
(* that has been replaced too: its handlers stay in place.                 *)
(***************************************************************************)
EXTENDS Naturals, Sequences

CONSTANTS
  maxReconnectAttempts,
  MaxSockets             \* bound: sockets opened in all

ASSUME ClientAssumption == maxReconnectAttempts \in Nat \ {0} /\ MaxSockets \in Nat

VARIABLES
  status,                \* what getStatus() tells
  sockets,               \* readyState of every socket made; the last is this.socket
  reconnectAttempts,
  reconnectTimeout       \* whether a reconnection is scheduled

clientVars == <<status, sockets, reconnectAttempts, reconnectTimeout>>

Statuses == {"connecting", "open", "closing", "closed", "reconnecting"}

underWay == sockets # <<>> /\ sockets[Len(sockets)] \in {"connecting", "open"}

ClientInit ==
  /\ status = "closed" /\ sockets = <<>> /\ reconnectAttempts = 0
  /\ reconnectTimeout = FALSE

\* connect(): nothing when the current socket is connecting or open.
openSocket ==
  IF underWay THEN UNCHANGED <<status, sockets>>
  ELSE /\ Len(sockets) < MaxSockets
       /\ status' = "connecting"
       /\ sockets' = Append(sockets, "connecting")

connect ==
  /\ openSocket
  /\ UNCHANGED <<reconnectAttempts, reconnectTimeout>>

\* The scheduled reconnection.
reconnectTimer ==
  /\ reconnectTimeout /\ openSocket
  /\ reconnectTimeout' = FALSE
  /\ UNCHANGED reconnectAttempts

\* disconnect(): no scheduled reconnection survives it.
disconnect_StatusOfOpen ==
  /\ sockets # <<>>
  /\ reconnectTimeout' = FALSE
  /\ status' = IF underWay THEN "closing" ELSE status
  /\ sockets' = [sockets EXCEPT ![Len(sockets)] = IF underWay THEN "closing" ELSE @]
  /\ UNCHANGED reconnectAttempts

disconnect ==
  /\ sockets # <<>>
  /\ reconnectTimeout' = FALSE
  /\ status' = "closing"
  /\ sockets' = [sockets EXCEPT ![Len(sockets)] = IF underWay THEN "closing" ELSE @]
  /\ UNCHANGED reconnectAttempts

onopen(k) ==
  /\ sockets[k] = "connecting"
  /\ sockets' = [sockets EXCEPT ![k] = "open"]
  /\ status' = "open" /\ reconnectAttempts' = 0
  /\ UNCHANGED reconnectTimeout

\* A close is reported; attemptReconnect() follows an unclean one.  A socket
\* closed before it was open never closes cleanly.
onclose(k) == \E wasClean \in BOOLEAN :
  /\ sockets[k] # "closed"
  /\ sockets[k] = "connecting" => ~wasClean
  /\ sockets' = [sockets EXCEPT ![k] = "closed"]
  /\ IF ~wasClean /\ reconnectAttempts < maxReconnectAttempts
     THEN /\ status' = "reconnecting"
          /\ reconnectAttempts' = reconnectAttempts + 1
          /\ reconnectTimeout' = TRUE
     ELSE /\ status' = "closed"
          /\ UNCHANGED <<reconnectAttempts, reconnectTimeout>>

ClientNext ==
  \/ connect \/ reconnectTimer \/ disconnect
  \/ \E k \in 1..Len(sockets) : onopen(k) \/ onclose(k)

ClientSpec == ClientInit /\ [][ClientNext]_clientVars

-----------------------------------------------------------------------------
ClientTypeOK ==
  /\ status \in Statuses
  /\ sockets \in Seq({"connecting", "open", "closing", "closed"}) /\ Len(sockets) <= MaxSockets
  /\ reconnectAttempts \in 0..maxReconnectAttempts
  /\ reconnectTimeout \in BOOLEAN

\* A client that says it is reconnecting is: a reconnection is scheduled, or
\* its socket is connecting or open.  An old socket's late close, which
\* overwrites the status of the new one, does not leave it waiting for nothing.
ClientIsOnItsWay == status = "reconnecting" => reconnectTimeout \/ underWay
=============================================================================
