---------------------------- MODULE Sockets_proofs ----------------------------
(***************************************************************************)
(* Proofs about the two ends of a socket: the server, for every number of  *)
(* sockets, users and channels, and the browser's client.                  *)
(***************************************************************************)
EXTENDS WebSocketGateway, WebSocketClient, TLAPS

(* The maps are functions over connected or once connected sockets.         *)
MapTypes ==
  /\ alive \subseteq Sockets /\ verifying \subseteq Sockets
  /\ inGuard \subseteq Sockets \X allChannels
  /\ socketIdToUserId \in [DOMAIN socketIdToUserId -> Members]
  /\ DOMAIN socketIdToUserId \subseteq Sockets
  /\ userIdToSocketId \in [DOMAIN userIdToSocketId -> SUBSET Sockets]
  /\ clientSubscriptions \in [DOMAIN clientSubscriptions -> SUBSET allChannels]
  /\ DOMAIN clientSubscriptions \subseteq Sockets

(* What the maps hold is of the socket's own user, staking channels apart.   *)
OwnChannels ==
  \A s \in DOMAIN clientSubscriptions : \A c \in clientSubscriptions[s] \ StakingChannels :
    userOf[s] \in about[c]

RegisteredUsers == \A s \in DOMAIN socketIdToUserId : socketIdToUserId[s] = userOf[s]

(* MapsAgree without Range: a user is kept for its sockets, and for those   *)
(* only.                                                                    *)
SameSockets ==
  /\ alive \ verifying \subseteq DOMAIN socketIdToUserId
  /\ DOMAIN clientSubscriptions = DOMAIN socketIdToUserId
  /\ \A s \in DOMAIN socketIdToUserId : socketIdToUserId[s] \in DOMAIN userIdToSocketId
  /\ \A u \in DOMAIN userIdToSocketId :
       /\ userIdToSocketId[u] # {}
       /\ \A s \in Sockets : s \in userIdToSocketId[u] <=> s \in DOMAIN socketIdToUserId /\ socketIdToUserId[s] = u

GatewayInv == MapTypes /\ OwnChannels /\ RegisteredUsers /\ SameSockets

-----------------------------------------------------------------------------
LEMMA WithValues ==
  ASSUME NEW f, NEW k, NEW v
  PROVE  /\ DOMAIN with(f, k, v) = DOMAIN f \cup {k}
         /\ with(f, k, v)[k] = v
         /\ \A x \in DOMAIN f : x # k => with(f, k, v)[x] = f[x]
  BY DEF with

LEMMA WithoutValues ==
  ASSUME NEW f, NEW k
  PROVE  /\ DOMAIN without(f, k) = DOMAIN f \ {k}
         /\ \A x \in DOMAIN f \ {k} : without(f, k)[x] = f[x]
  BY DEF without, Restrict

LEMMA GatewayInvInit == GatewayInit => GatewayInv
<1> SUFFICES ASSUME GatewayInit PROVE GatewayInv
  OBVIOUS
<1>1. DOMAIN <<>> = {}
  OBVIOUS
<1>2. MapTypes
  BY <1>1 DEF GatewayInit, MapTypes
<1> QED BY <1>1, <1>2 DEF GatewayInit, GatewayInv, OwnChannels, RegisteredUsers, SameSockets

LEMMA VerifiedPreserves ==
  ASSUME GatewayInv, NEW s \in Sockets, tokenVerified(s)
  PROVE  GatewayInv'
<1> DEFINE u == userOf[s]
<1>1. u \in Members
  BY GatewayAssumption
<1>2. /\ DOMAIN socketIdToUserId' = DOMAIN socketIdToUserId \cup {s}
      /\ socketIdToUserId'[s] = u
      /\ \A x \in DOMAIN socketIdToUserId : x # s => socketIdToUserId'[x] = socketIdToUserId[x]
  <2>1. socketIdToUserId' = with(socketIdToUserId, s, u)
    BY DEF tokenVerified, getUserIdFromToken
  <2> HIDE DEF u
  <2> QED BY <2>1 DEF with
<1>3. /\ DOMAIN userIdToSocketId' = DOMAIN userIdToSocketId \cup {u}
      /\ userIdToSocketId'[u] = socketsOf(u) \cup {s}
      /\ \A x \in DOMAIN userIdToSocketId : x # u => userIdToSocketId'[x] = userIdToSocketId[x]
  <2>1. userIdToSocketId' = with(userIdToSocketId, u, socketsOf(u) \cup {s})
    BY DEF tokenVerified, getUserIdFromToken
  <2> HIDE DEF u
  <2> QED BY <2>1 DEF with
<1>4. /\ DOMAIN clientSubscriptions' = DOMAIN clientSubscriptions \cup {s}
      /\ clientSubscriptions'[s] = {}
      /\ \A x \in DOMAIN clientSubscriptions :
           x # s => clientSubscriptions'[x] = clientSubscriptions[x]
  <2>1. clientSubscriptions' = with(clientSubscriptions, s, {})
    BY DEF tokenVerified, getUserIdFromToken
  <2> HIDE DEF u
  <2> QED BY <2>1 DEF with
<1>5. /\ alive' = alive /\ inGuard' = inGuard /\ verifying' = verifying \ {s}
  BY DEF tokenVerified
<1>6. socketsOf(u) \subseteq Sockets
  BY DEF socketsOf, GatewayInv, MapTypes
<1>7. \A x \in Sockets : x \in socketsOf(u) <=> x \in DOMAIN socketIdToUserId /\ socketIdToUserId[x] = u
  BY DEF socketsOf, GatewayInv, SameSockets
<1> HIDE DEF u
<1>8. MapTypes'
  <2>1. socketIdToUserId' \in [DOMAIN socketIdToUserId' -> Members]
    <3>1. socketIdToUserId' = [x \in DOMAIN socketIdToUserId' |-> socketIdToUserId'[x]]
      BY DEF tokenVerified, with
    <3> QED BY <1>1, <1>2, <3>1 DEF GatewayInv, MapTypes
  <2>2. userIdToSocketId' \in [DOMAIN userIdToSocketId' -> SUBSET Sockets]
    <3>1. userIdToSocketId' = [x \in DOMAIN userIdToSocketId' |-> userIdToSocketId'[x]]
      BY DEF tokenVerified, with
    <3> QED BY <1>3, <1>6, <3>1 DEF GatewayInv, MapTypes
  <2>3. clientSubscriptions' \in [DOMAIN clientSubscriptions' -> SUBSET allChannels]
    <3>1. clientSubscriptions' = [x \in DOMAIN clientSubscriptions' |-> clientSubscriptions'[x]]
      BY DEF tokenVerified, with
    <3> QED BY <1>4, <3>1 DEF GatewayInv, MapTypes
  <2> QED BY <1>2, <1>4, <1>5, <2>1, <2>2, <2>3 DEF GatewayInv, MapTypes
<1>9. OwnChannels'
  BY <1>4 DEF GatewayInv, OwnChannels
<1>10. RegisteredUsers'
  BY <1>2 DEF GatewayInv, RegisteredUsers, u
<1>11. SameSockets'
  <2>1. alive' \ verifying' \subseteq DOMAIN socketIdToUserId'
    BY <1>2, <1>5 DEF GatewayInv, SameSockets
  <2>2. DOMAIN clientSubscriptions' = DOMAIN socketIdToUserId'
    BY <1>2, <1>4 DEF GatewayInv, SameSockets
  <2>3. \A x \in DOMAIN socketIdToUserId' : socketIdToUserId'[x] \in DOMAIN userIdToSocketId'
    BY <1>2, <1>3 DEF GatewayInv, SameSockets
  <2>4. ASSUME NEW v \in DOMAIN userIdToSocketId'
        PROVE  /\ userIdToSocketId'[v] # {}
               /\ \A x \in Sockets : x \in userIdToSocketId'[v]
                    <=> x \in DOMAIN socketIdToUserId' /\ socketIdToUserId'[x] = v
    <3>1. CASE v = u
      BY <1>2, <1>3, <1>7, <3>1
    <3>2. CASE v # u
      <4>1. v \in DOMAIN userIdToSocketId /\ userIdToSocketId'[v] = userIdToSocketId[v]
        BY <1>3, <2>4, <3>2
      <4>2. s \in DOMAIN socketIdToUserId => socketIdToUserId[s] = u
        BY DEF GatewayInv, RegisteredUsers, u
      <4> QED BY <1>2, <3>2, <4>1, <4>2 DEF GatewayInv, SameSockets
    <3> QED BY <3>1, <3>2
  <2> QED BY <2>1, <2>2, <2>3, <2>4 DEF SameSockets
<1> QED BY <1>8, <1>9, <1>10, <1>11 DEF GatewayInv
\* The maps forget a socket.
LEMMA DisconnectForgets ==
  ASSUME GatewayInv, NEW s \in Sockets, handleDisconnect(s)
  PROVE  /\ DOMAIN socketIdToUserId' = DOMAIN socketIdToUserId \ {s}
         /\ \A x \in DOMAIN socketIdToUserId \ {s} : socketIdToUserId'[x] = socketIdToUserId[x]
         /\ socketIdToUserId' = [x \in DOMAIN socketIdToUserId' |-> socketIdToUserId'[x]]
         /\ DOMAIN clientSubscriptions' = DOMAIN clientSubscriptions \ {s}
         /\ \A x \in DOMAIN clientSubscriptions \ {s} : clientSubscriptions'[x] = clientSubscriptions[x]
         /\ clientSubscriptions' = [x \in DOMAIN clientSubscriptions' |-> clientSubscriptions'[x]]
<1>1. clientSubscriptions' = without(clientSubscriptions, s)
  BY DEF handleDisconnect
<1>2. /\ DOMAIN clientSubscriptions' = DOMAIN clientSubscriptions \ {s}
      /\ \A x \in DOMAIN clientSubscriptions \ {s} : clientSubscriptions'[x] = clientSubscriptions[x]
      /\ clientSubscriptions' = [x \in DOMAIN clientSubscriptions' |-> clientSubscriptions'[x]]
  BY <1>1, WithoutValues DEF without, Restrict
<1>3. CASE s \in DOMAIN socketIdToUserId
  <2>1. socketIdToUserId' = without(socketIdToUserId, s)
    BY <1>3 DEF handleDisconnect
  <2>2. /\ DOMAIN socketIdToUserId' = DOMAIN socketIdToUserId \ {s}
        /\ \A x \in DOMAIN socketIdToUserId \ {s} : socketIdToUserId'[x] = socketIdToUserId[x]
        /\ socketIdToUserId' = [x \in DOMAIN socketIdToUserId' |-> socketIdToUserId'[x]]
    BY <2>1, WithoutValues DEF without, Restrict
  <2> QED BY <1>2, <2>2
<1>4. CASE s \notin DOMAIN socketIdToUserId
  <2>1. socketIdToUserId' = socketIdToUserId
    BY <1>4 DEF handleDisconnect
  <2>2. socketIdToUserId = [x \in DOMAIN socketIdToUserId |-> socketIdToUserId[x]]
    BY DEF GatewayInv, MapTypes
  <2> QED BY <1>2, <1>4, <2>1, <2>2
<1> QED BY <1>3, <1>4

\* A user keeps its other sockets, and is forgotten with the last.
LEMMA DisconnectKeepsOthers ==
  ASSUME GatewayInv, NEW s \in Sockets, handleDisconnect(s)
  PROVE  /\ userIdToSocketId' \in [DOMAIN userIdToSocketId' -> SUBSET Sockets]
         /\ \A u \in DOMAIN userIdToSocketId' :
              /\ u \in DOMAIN userIdToSocketId
              /\ userIdToSocketId'[u] = userIdToSocketId[u] \ {s}
              /\ userIdToSocketId'[u] # {}
         /\ \A u \in DOMAIN userIdToSocketId :
              userIdToSocketId[u] # {s} => u \in DOMAIN userIdToSocketId'
<1>1. \A u \in DOMAIN userIdToSocketId : userIdToSocketId[u] \subseteq Sockets /\ userIdToSocketId[u] # {}
  BY DEF GatewayInv, MapTypes, SameSockets
<1>2. userIdToSocketId \in [DOMAIN userIdToSocketId -> SUBSET Sockets]
  BY DEF GatewayInv, MapTypes
<1>3. CASE s \notin DOMAIN socketIdToUserId
  <2>1. userIdToSocketId' = userIdToSocketId
    BY <1>3 DEF handleDisconnect
  <2>2. \A u \in DOMAIN userIdToSocketId : s \notin userIdToSocketId[u]
    BY <1>3 DEF GatewayInv, SameSockets
  <2> QED BY <1>1, <1>2, <2>1, <2>2
<1>4. CASE s \in DOMAIN socketIdToUserId
  <2> DEFINE v == socketIdToUserId[s]
  <2>1. userIdToSocketId' = removeSocket(v, s)
    BY <1>4 DEF handleDisconnect
  <2>2. v \in DOMAIN userIdToSocketId /\ s \in userIdToSocketId[v]
    BY <1>4 DEF GatewayInv, SameSockets
  <2>3. \A u \in DOMAIN userIdToSocketId : u # v => s \notin userIdToSocketId[u]
    BY <1>4 DEF GatewayInv, SameSockets
  <2> HIDE DEF v
  <2>4. CASE userIdToSocketId[v] = {s}
    <3>1. userIdToSocketId' = without(userIdToSocketId, v)
      BY <2>1, <2>4 DEF removeSocket
    <3>2. /\ DOMAIN userIdToSocketId' = DOMAIN userIdToSocketId \ {v}
          /\ \A u \in DOMAIN userIdToSocketId' : userIdToSocketId'[u] = userIdToSocketId[u]
          /\ userIdToSocketId' = [u \in DOMAIN userIdToSocketId' |-> userIdToSocketId'[u]]
      BY <3>1, WithoutValues DEF without, Restrict
    <3> QED BY <1>1, <2>2, <2>3, <2>4, <3>2
  <2>5. CASE userIdToSocketId[v] # {s}
    <3>1. userIdToSocketId' = [userIdToSocketId EXCEPT ![v] = @ \ {s}]
      BY <2>1, <2>5 DEF removeSocket
    <3>2. DOMAIN userIdToSocketId' = DOMAIN userIdToSocketId
      BY <3>1
    <3>3. userIdToSocketId'[v] = userIdToSocketId[v] \ {s} /\ userIdToSocketId'[v] # {}
      BY <1>2, <2>2, <2>5, <3>1
    <3>4. \A u \in DOMAIN userIdToSocketId : u # v => userIdToSocketId'[u] = userIdToSocketId[u] \ {s}
      BY <1>2, <2>3, <3>1
    <3>5. userIdToSocketId' \in [DOMAIN userIdToSocketId -> SUBSET Sockets]
      BY <1>2, <2>2, <3>1
    <3> QED BY <1>1, <2>3, <3>2, <3>3, <3>4, <3>5
  <2> QED BY <2>4, <2>5
<1> QED BY <1>3, <1>4

LEMMA DisconnectPreserves ==
  ASSUME GatewayInv, NEW s \in Sockets, handleDisconnect(s), inGuard' = inGuard,
         alive' = alive \ {s}, verifying' \subseteq verifying, verifying \ {s} \subseteq verifying'
  PROVE  GatewayInv'
<1>1. /\ DOMAIN socketIdToUserId' = DOMAIN socketIdToUserId \ {s}
      /\ \A x \in DOMAIN socketIdToUserId \ {s} : socketIdToUserId'[x] = socketIdToUserId[x]
      /\ socketIdToUserId' = [x \in DOMAIN socketIdToUserId' |-> socketIdToUserId'[x]]
      /\ DOMAIN clientSubscriptions' = DOMAIN clientSubscriptions \ {s}
      /\ \A x \in DOMAIN clientSubscriptions \ {s} : clientSubscriptions'[x] = clientSubscriptions[x]
      /\ clientSubscriptions' = [x \in DOMAIN clientSubscriptions' |-> clientSubscriptions'[x]]
  BY DisconnectForgets
<1>2. /\ userIdToSocketId' \in [DOMAIN userIdToSocketId' -> SUBSET Sockets]
      /\ \A u \in DOMAIN userIdToSocketId' :
           /\ u \in DOMAIN userIdToSocketId
           /\ userIdToSocketId'[u] = userIdToSocketId[u] \ {s}
           /\ userIdToSocketId'[u] # {}
      /\ \A u \in DOMAIN userIdToSocketId : userIdToSocketId[u] # {s} => u \in DOMAIN userIdToSocketId'
  BY DisconnectKeepsOthers
<1>3. MapTypes'
  <2>1. socketIdToUserId' \in [DOMAIN socketIdToUserId' -> Members]
    BY <1>1 DEF GatewayInv, MapTypes
  <2>2. clientSubscriptions' \in [DOMAIN clientSubscriptions' -> SUBSET allChannels]
    BY <1>1 DEF GatewayInv, MapTypes
  <2> QED BY <1>1, <1>2, <2>1, <2>2 DEF GatewayInv, MapTypes
<1>4. OwnChannels'
  BY <1>1 DEF GatewayInv, OwnChannels
<1>5. RegisteredUsers'
  BY <1>1 DEF GatewayInv, RegisteredUsers
<1>6. SameSockets'
  <2>1. alive' \ verifying' \subseteq DOMAIN socketIdToUserId'
    BY <1>1 DEF GatewayInv, SameSockets
  <2>2. DOMAIN clientSubscriptions' = DOMAIN socketIdToUserId'
    BY <1>1 DEF GatewayInv, SameSockets
  <2>3. ASSUME NEW x \in DOMAIN socketIdToUserId'
        PROVE  socketIdToUserId'[x] \in DOMAIN userIdToSocketId'
    <3>1. x \in DOMAIN socketIdToUserId /\ x # s /\ socketIdToUserId'[x] = socketIdToUserId[x] /\ x \in Sockets
      BY <1>1, <2>3 DEF GatewayInv, MapTypes
    <3>2. socketIdToUserId[x] \in DOMAIN userIdToSocketId /\ x \in userIdToSocketId[socketIdToUserId[x]]
      BY <3>1 DEF GatewayInv, SameSockets
    <3> QED BY <1>2, <3>1, <3>2
  <2>4. ASSUME NEW u \in DOMAIN userIdToSocketId'
        PROVE  /\ userIdToSocketId'[u] # {}
               /\ \A x \in Sockets : x \in userIdToSocketId'[u]
                    <=> x \in DOMAIN socketIdToUserId' /\ socketIdToUserId'[x] = u
    BY <1>1, <1>2, <2>4 DEF GatewayInv, SameSockets
  <2> QED BY <2>1, <2>2, <2>3, <2>4 DEF SameSockets
<1> QED BY <1>3, <1>4, <1>5, <1>6 DEF GatewayInv

\* Messages change the subscriptions of a registered socket at most.
LEMMA MessagesPreserve ==
  ASSUME GatewayInv, NEW s \in Sockets, NEW c \in allChannels,
         handleSubscribe(s, c) \/ handleUnsubscribe(s, c)
  PROVE  GatewayInv'
<1>1. /\ UNCHANGED <<alive, verifying, socketIdToUserId, userIdToSocketId>>
      /\ inGuard' \subseteq inGuard
  BY DEF handleSubscribe, handleUnsubscribe
<1>2. /\ clientSubscriptions' \in [DOMAIN clientSubscriptions -> SUBSET allChannels]
      /\ \A x \in DOMAIN clientSubscriptions : \A d \in clientSubscriptions'[x] :
           d \in clientSubscriptions[x] \/ d \in StakingChannels \/ userOf[x] \in about[d]
  BY DEF handleSubscribe, handleUnsubscribe, canSubscribeToChannel, getUserIdFromToken, GatewayInv, MapTypes
<1>3. DOMAIN clientSubscriptions' = DOMAIN clientSubscriptions
  BY <1>2
<1>4. MapTypes'
  BY <1>1, <1>2, <1>3 DEF GatewayInv, MapTypes
<1>5. OwnChannels'
  BY <1>2, <1>3 DEF GatewayInv, OwnChannels
<1>6. RegisteredUsers'
  BY <1>1 DEF GatewayInv, RegisteredUsers
<1>7. SameSockets'
  BY <1>1, <1>3 DEF GatewayInv, SameSockets
<1> QED BY <1>4, <1>5, <1>6, <1>7 DEF GatewayInv

LEMMA OthersPreserve ==
  ASSUME GatewayInv, UNCHANGED maps,
         alive' \subseteq Sockets, verifying' \subseteq Sockets, inGuard' \subseteq Sockets \X allChannels,
         alive' \ verifying' \subseteq alive \ verifying
  PROVE  GatewayInv'
<1>1. UNCHANGED <<socketIdToUserId, userIdToSocketId, clientSubscriptions>>
  BY DEF maps
<1> QED BY <1>1 DEF GatewayInv, MapTypes, OwnChannels, RegisteredUsers, SameSockets

LEMMA GatewayInvStep == GatewayInv /\ [GatewayNext]_gatewayVars => GatewayInv'
<1> SUFFICES ASSUME GatewayInv, [GatewayNext]_gatewayVars PROVE GatewayInv'
  OBVIOUS
<1>1. ASSUME NEW s \in Sockets, handleConnection(s) PROVE GatewayInv'
  BY <1>1, OthersPreserve DEF handleConnection, GatewayInv, MapTypes
<1>2. ASSUME NEW s \in Sockets, closes(s) PROVE GatewayInv'
  BY <1>2, DisconnectPreserves DEF closes
<1>3. ASSUME NEW s \in Sockets, tokenRefused(s) PROVE GatewayInv'
  <2>1. verifying' = verifying \ {s} /\ alive' = alive \ {s} /\ inGuard' = inGuard
    BY <1>3 DEF tokenRefused
  <2>2. CASE s \in alive
    <3>1. handleDisconnect(s)
      BY <1>3, <2>2 DEF tokenRefused
    <3> QED BY <2>1, <3>1, DisconnectPreserves
  <2>3. CASE s \notin alive
    <3>1. UNCHANGED maps
      BY <1>3, <2>3 DEF tokenRefused
    <3> QED BY <2>1, <2>3, <3>1, OthersPreserve DEF GatewayInv, MapTypes
  <2> QED BY <2>2, <2>3
<1>4. ASSUME NEW s \in Sockets, tokenVerified(s) PROVE GatewayInv'
  BY <1>4, VerifiedPreserves
<1>5. ASSUME NEW s \in Sockets, NEW c \in allChannels, subscribeRefused(s, c) \/ askToSubscribe(s, c)
      PROVE  GatewayInv'
  BY <1>5, OthersPreserve DEF subscribeRefused, askToSubscribe, GatewayInv, MapTypes
<1>6. ASSUME NEW s \in Sockets, NEW c \in allChannels, handleSubscribe(s, c) \/ handleUnsubscribe(s, c)
      PROVE  GatewayInv'
  BY <1>6, MessagesPreserve
<1>7. CASE UNCHANGED gatewayVars
  <2>1. UNCHANGED maps /\ UNCHANGED <<alive, verifying, inGuard>>
    BY <1>7 DEF gatewayVars, maps
  <2> QED BY <2>1, OthersPreserve DEF GatewayInv, MapTypes
<1> QED BY <1>1, <1>2, <1>3, <1>4, <1>5, <1>6, <1>7 DEF GatewayNext

LEMMA GatewayAlwaysInv == GatewaySpec => []GatewayInv
  BY GatewayInvInit, GatewayInvStep, PTL DEF GatewaySpec

(* The three maps tell the same story, however connections, verifications   *)
(* and disconnections overlap.                                              *)
THEOREM MapsAlwaysAgree == GatewaySpec => []MapsAgree
<1>1. ASSUME GatewayInv PROVE MapsAgree
  <2>1. DOMAIN userIdToSocketId = Range(socketIdToUserId)
    <3>1. ASSUME NEW u \in DOMAIN userIdToSocketId PROVE u \in Range(socketIdToUserId)
      <4>1. PICK s \in userIdToSocketId[u] : TRUE
        BY <1>1 DEF GatewayInv, SameSockets
      <4>2. s \in Sockets
        BY <1>1, <4>1 DEF GatewayInv, MapTypes
      <4>3. s \in DOMAIN socketIdToUserId /\ socketIdToUserId[s] = u
        BY <1>1, <4>1, <4>2 DEF GatewayInv, SameSockets
      <4> QED BY <4>3 DEF Range
    <3>2. Range(socketIdToUserId) \subseteq DOMAIN userIdToSocketId
      BY <1>1 DEF GatewayInv, SameSockets, Range
    <3> QED BY <3>1, <3>2
  <2>2. ASSUME NEW u \in DOMAIN userIdToSocketId
        PROVE  userIdToSocketId[u] = {s \in DOMAIN socketIdToUserId : socketIdToUserId[s] = u}
    <3>1. userIdToSocketId[u] \subseteq Sockets /\ DOMAIN socketIdToUserId \subseteq Sockets
      BY <1>1 DEF GatewayInv, MapTypes
    <3>2. \A s \in Sockets : s \in userIdToSocketId[u] <=> s \in DOMAIN socketIdToUserId /\ socketIdToUserId[s] = u
      BY <1>1 DEF GatewayInv, SameSockets
    <3> QED BY <3>1, <3>2
  <2> QED BY <1>1, <2>1, <2>2 DEF MapsAgree, GatewayInv, SameSockets
<1> QED BY <1>1, GatewayAlwaysInv, PTL

(* No event but those of staking positions reaches a socket of a user it is  *)
(* not for.                                                                  *)
THEOREM EventsAreForTheirUsers == GatewaySpec => []EventsReachTheirUsers
<1>1. ASSUME GatewayInv PROVE EventsReachTheirUsers
  <2>1. ASSUME NEW c \in Channels, NEW e \in sendToChannel(c) PROVE userOf[e[1]] \in e[2]
    BY <1>1, <2>1, GatewayAssumption DEF sendToChannel, GatewayInv, OwnChannels
  <2>2. ASSUME NEW u \in Members, NEW e \in sendToUser(u) PROVE userOf[e[1]] \in e[2]
    <3>1. PICK s \in socketsOf(u) : e = <<s, {u}>>
      BY <2>2 DEF sendToUser
    <3>2. u \in DOMAIN userIdToSocketId /\ s \in userIdToSocketId[u]
      BY <3>1 DEF socketsOf
    <3>3. s \in DOMAIN socketIdToUserId /\ socketIdToUserId[s] = u
      BY <1>1, <3>2 DEF GatewayInv, SameSockets, MapTypes
    <3>4. userOf[s] = u
      BY <1>1, <3>3 DEF GatewayInv, RegisteredUsers
    <3> QED BY <3>1, <3>4
  <2>3. ASSUME NEW e \in broadcastNotification PROVE userOf[e[1]] \in e[2]
    BY <1>1, <2>3, GatewayAssumption DEF broadcastNotification, GatewayInv, MapTypes
  <2>4. ASSUME NEW e \in events PROVE userOf[e[1]] \in e[2]
    <3>1. CASE e \in broadcastNotification
      BY <2>3, <3>1
    <3>2. ASSUME NEW c \in Channels, e \in sendToChannel(c) PROVE userOf[e[1]] \in e[2]
      BY <2>1, <3>2
    <3>3. ASSUME NEW u \in Members, e \in sendToUser(u) PROVE userOf[e[1]] \in e[2]
      BY <2>2, <3>3
    <3>4. \/ e \in broadcastNotification
          \/ \E c \in Channels : e \in sendToChannel(c)
          \/ \E u \in Members : e \in sendToUser(u)
      <4>1. CASE e \in channelEvents
        <5>1. PICK c \in Channels : e \in sendToChannel(c)
          BY <4>1 DEF channelEvents
        <5> QED BY <5>1
      <4>2. CASE e \in userEvents
        <5>1. PICK u \in Members : e \in sendToUser(u)
          BY <4>2 DEF userEvents
        <5> QED BY <5>1
      <4>3. CASE e \in transferEvents
        <5>1. PICK T \in {sendNftTransferEvent(from, to) : from \in Channels, to \in Channels} : e \in T
          BY <4>3 DEF transferEvents
        <5>2. PICK from \in Channels, to \in Channels : T = sendNftTransferEvent(from, to)
          BY <5>1
        <5>3. e \in sendToChannel(from) \/ e \in sendToChannel(to)
          BY <5>1, <5>2 DEF sendNftTransferEvent
        <5> QED BY <5>2, <5>3
      <4> QED BY <2>4, <4>1, <4>2, <4>3 DEF events
    <3> QED BY <3>1, <3>2, <3>3, <3>4
  <2> QED BY <2>4 DEF EventsReachTheirUsers
<1> QED BY <1>1, GatewayAlwaysInv, PTL

-----------------------------------------------------------------------------
(* The client.                                                              *)

(* A client that says it is reconnecting is on its way.                    *)
LEMMA ClientStep == ASSUME ClientIsOnItsWay, [ClientNext]_clientVars PROVE ClientIsOnItsWay'
<1>1. CASE connect \/ reconnectTimer
  <2>1. CASE underWay
    BY <1>1, <2>1 DEF connect, reconnectTimer, openSocket, underWay, ClientIsOnItsWay
  <2>2. CASE ~underWay
    BY <1>1, <2>2 DEF connect, reconnectTimer, openSocket, underWay, ClientIsOnItsWay
  <2> QED BY <2>1, <2>2
<1>2. CASE disconnect
  BY <1>2 DEF disconnect, ClientIsOnItsWay
<1>3. ASSUME NEW k \in 1..Len(sockets), onopen(k) \/ onclose(k) PROVE ClientIsOnItsWay'
  BY <1>3 DEF onopen, onclose, ClientIsOnItsWay
<1>4. CASE UNCHANGED clientVars
  BY <1>4 DEF clientVars, underWay, ClientIsOnItsWay
<1> QED BY <1>1, <1>2, <1>3, <1>4 DEF ClientNext

(* A client whose state says that it is reconnecting has a socket opening, or *)
(* a timer that will open one, whatever its sockets do, in any order.        *)
THEOREM ClientsAreOnTheirWay == ClientSpec => []ClientIsOnItsWay
<1>1. ClientInit => ClientIsOnItsWay
  BY DEF ClientInit, ClientIsOnItsWay
<1> QED BY <1>1, ClientStep, PTL DEF ClientSpec

-----------------------------------------------------------------------------
(* Types of the gateway: a socket that is gone is not connected again.      *)

GoneInv == gone \subseteq Sockets \ alive

LEMMA GoneInvStep == ASSUME GatewayInv, GoneInv, [GatewayNext]_gatewayVars PROVE GoneInv'
<1>1. ASSUME UNCHANGED <<alive, gone>> PROVE GoneInv'
  BY <1>1 DEF GoneInv
<1>2. ASSUME NEW s \in Sockets, handleConnection(s) \/ closes(s) \/ tokenRefused(s) PROVE GoneInv'
  BY <1>2 DEF handleConnection, closes, tokenRefused, GoneInv
<1>3. ASSUME NEW s \in Sockets, NEW c \in allChannels,
             \/ subscribeRefused(s, c) \/ askToSubscribe(s, c)
             \/ handleSubscribe(s, c) \/ handleUnsubscribe(s, c)
      PROVE  GoneInv'
  BY <1>1, <1>3 DEF subscribeRefused, askToSubscribe, handleSubscribe, handleUnsubscribe
<1>4. ASSUME NEW s \in Sockets, tokenVerified(s) PROVE GoneInv'
  BY <1>1, <1>4 DEF tokenVerified
<1>5. CASE UNCHANGED gatewayVars
  BY <1>1, <1>5 DEF gatewayVars
<1> QED BY <1>2, <1>3, <1>4, <1>5 DEF GatewayNext

LEMMA GatewayTyped == GatewayInv /\ GoneInv => GatewayTypeOK
<1> SUFFICES ASSUME GatewayInv, GoneInv PROVE GatewayTypeOK
  OBVIOUS
<1>1. DOMAIN userIdToSocketId \subseteq Members
  <2>1. ASSUME NEW u \in DOMAIN userIdToSocketId PROVE u \in Members
    <3>1. PICK s \in userIdToSocketId[u] : TRUE
      BY DEF GatewayInv, SameSockets
    <3>2. s \in DOMAIN socketIdToUserId /\ socketIdToUserId[s] = u
      BY DEF GatewayInv, SameSockets, MapTypes
    <3> QED BY <3>2 DEF GatewayInv, MapTypes
  <2> QED BY <2>1
<1>2. socketIdToUserId \in UNION {[D -> Members] : D \in SUBSET Sockets}
  BY DEF GatewayInv, MapTypes
<1>3. userIdToSocketId \in UNION {[D -> SUBSET Sockets] : D \in SUBSET Members}
  BY <1>1 DEF GatewayInv, MapTypes
<1>4. clientSubscriptions \in UNION {[D -> SUBSET allChannels] : D \in SUBSET Sockets}
  BY DEF GatewayInv, MapTypes
<1> QED BY <1>2, <1>3, <1>4 DEF GatewayInv, MapTypes, GoneInv, GatewayTypeOK

-----------------------------------------------------------------------------
(* Types of the client.                                                     *)
LEMMA ClientTypesStep == ASSUME ClientTypeOK, [ClientNext]_clientVars PROVE ClientTypeOK'
<1> DEFINE Ready == {"connecting", "open", "closing", "closed"}
<1>1. /\ sockets \in Seq(Ready) /\ Len(sockets) \in Nat /\ Len(sockets) <= MaxSockets
      /\ status \in Statuses /\ reconnectAttempts \in 0..maxReconnectAttempts
      /\ reconnectTimeout \in BOOLEAN
  BY DEF ClientTypeOK
<1>2. ASSUME sockets' \in Seq(Ready), Len(sockets') <= MaxSockets, status' \in Statuses,
             reconnectAttempts' \in 0..maxReconnectAttempts, reconnectTimeout' \in BOOLEAN
      PROVE  ClientTypeOK'
  BY <1>2 DEF ClientTypeOK
<1>3. ASSUME NEW k \in 1..Len(sockets), NEW x \in Ready
      PROVE  [sockets EXCEPT ![k] = x] \in Seq(Ready) /\ Len([sockets EXCEPT ![k] = x]) = Len(sockets)
  BY <1>1
<1>4. ASSUME openSocket
      PROVE  sockets' \in Seq(Ready) /\ Len(sockets') <= MaxSockets /\ status' \in Statuses
  <2>1. CASE underWay
    BY <1>1, <1>4, <2>1 DEF openSocket
  <2>2. CASE ~underWay
    <3>1. Len(sockets) < MaxSockets /\ status' = "connecting" /\ sockets' = Append(sockets, "connecting")
      BY <1>4, <2>2 DEF openSocket
    <3>2. Append(sockets, "connecting") \in Seq(Ready) /\ Len(Append(sockets, "connecting")) = Len(sockets) + 1
      BY <1>1
    <3> QED BY <1>1, <3>1, <3>2, ClientAssumption DEF Statuses
  <2> QED BY <2>1, <2>2
<1>5. CASE connect \/ reconnectTimer
  BY <1>1, <1>2, <1>4, <1>5 DEF connect, reconnectTimer
<1>6. CASE disconnect
  <2>1. sockets # <<>> => Len(sockets) \in 1..Len(sockets)
    BY <1>1
  <2>2. PICK x : x = IF underWay THEN "closing" ELSE sockets[Len(sockets)]
    OBVIOUS
  <2>3. sockets' = [sockets EXCEPT ![Len(sockets)] = x] /\ sockets # <<>> /\ status' = "closing"
        /\ reconnectTimeout' = FALSE /\ reconnectAttempts' = reconnectAttempts
    BY <1>6, <2>2 DEF disconnect
  <2>4. x \in Ready
    BY <1>1, <2>1, <2>2, <2>3
  <2> QED BY <1>1, <1>2, <1>3, <2>1, <2>3, <2>4 DEF Statuses
<1>7. ASSUME NEW k \in 1..Len(sockets), onopen(k) PROVE ClientTypeOK'
  <2>1. 0 \in 0..maxReconnectAttempts
    BY ClientAssumption
  <2> QED BY <1>1, <1>2, <1>3, <1>7, <2>1 DEF onopen, Statuses
<1>8. ASSUME NEW k \in 1..Len(sockets), onclose(k) PROVE ClientTypeOK'
  <2>1. sockets' = [sockets EXCEPT ![k] = "closed"]
    BY <1>8 DEF onclose
  <2>2. /\ status' \in {"reconnecting", "closed"} /\ reconnectTimeout' \in {reconnectTimeout, TRUE}
        /\ reconnectAttempts' = reconnectAttempts \/
             (reconnectAttempts < maxReconnectAttempts /\ reconnectAttempts' = reconnectAttempts + 1)
    BY <1>8 DEF onclose
  <2>3. reconnectAttempts' \in 0..maxReconnectAttempts
    BY <1>1, <2>2, ClientAssumption
  <2> QED BY <1>1, <1>2, <1>3, <2>1, <2>2, <2>3 DEF Statuses
<1>9. CASE UNCHANGED clientVars
  BY <1>1, <1>2, <1>9 DEF clientVars
<1> QED BY <1>5, <1>6, <1>7, <1>8, <1>9 DEF ClientNext

LEMMA ClientTypesInit == ClientInit => ClientTypeOK
<1>1. 0 \in 0..maxReconnectAttempts /\ 0 <= MaxSockets
  BY ClientAssumption
<1>2. <<>> \in Seq({"connecting", "open", "closing", "closed"}) /\ Len(<<>>) = 0
  OBVIOUS
<1> QED BY <1>1, <1>2 DEF ClientInit, ClientTypeOK, Statuses
=============================================================================
