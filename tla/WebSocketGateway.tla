-------------------------- MODULE WebSocketGateway --------------------------
(***************************************************************************)
(* The backend's socket server (blockchain/gateways/websocket.gateway.ts): *)
(* who is connected, over which sockets, subscribed to what.  A token is   *)
(* verified, and the guard of a message passed, across awaits; messages    *)
(* are accepted while the connection's own token is still under way.       *)
(***************************************************************************)
EXTENDS Naturals, FiniteSets, Functions

CONSTANTS
  Sockets,   \* socket ids; an id is never given twice
  Members,   \* user ids
  Channels,  \* balance:<address>, nft:<address>, token:price, ...
  StakingChannels,   \* and staking:<positionId>
  userOf,    \* socket |-> the user whose token it presents
  about      \* channel |-> the users its events are for

ASSUME GatewayAssumption ==
  /\ userOf \in [Sockets -> Members]
  /\ about \in [Channels \cup StakingChannels -> SUBSET Members]
  /\ Channels \cap StakingChannels = {}

allChannels == Channels \cup StakingChannels

VARIABLES
  alive,                \* sockets connected
  verifying,            \* sockets whose token is under verification
  gone,                 \* sockets that were connected once
  socketIdToUserId, userIdToSocketId, clientSubscriptions,
  inGuard               \* subscriptions that have not passed their guard: <<socket, channel>>

gatewayVars == <<alive, verifying, gone, socketIdToUserId, userIdToSocketId,
                 clientSubscriptions, inGuard>>
maps == <<socketIdToUserId, userIdToSocketId, clientSubscriptions>>

with(f, k, v) == [x \in DOMAIN f \cup {k} |-> IF x = k THEN v ELSE f[x]]
without(f, k) == Restrict(f, DOMAIN f \ {k})
socketsOf(u) == IF u \in DOMAIN userIdToSocketId THEN userIdToSocketId[u] ELSE {}

GatewayInit ==
  /\ alive = {} /\ verifying = {} /\ gone = {} /\ inGuard = {}
  /\ socketIdToUserId = <<>> /\ userIdToSocketId = <<>> /\ clientSubscriptions = <<>>

\* handleConnection, up to its await.
handleConnection(s) ==
  /\ s \notin alive \cup gone
  /\ alive' = alive \cup {s} /\ verifying' = verifying \cup {s}
  /\ UNCHANGED <<gone, maps, inGuard>>

getUserIdFromToken(s) == userOf[s]

\* getUserIdFromToken has answered: the connection is registered.
tokenVerified(s) == LET u == getUserIdFromToken(s) IN
  /\ s \in verifying
  /\ verifying' = verifying \ {s}
  /\ socketIdToUserId' = with(socketIdToUserId, s, u)
  /\ userIdToSocketId' = with(userIdToSocketId, u, socketsOf(u) \cup {s})
  /\ clientSubscriptions' = with(clientSubscriptions, s, {})
  /\ UNCHANGED <<alive, gone, inGuard>>

removeSocket_Others(u, s) == without(userIdToSocketId, u)

\* What the map holds once a socket of the user is gone.
removeSocket(u, s) ==
  IF userIdToSocketId[u] = {s} THEN without(userIdToSocketId, u)
  ELSE [userIdToSocketId EXCEPT ![u] = @ \ {s}]

handleDisconnect(s) ==
  /\ IF s \in DOMAIN socketIdToUserId
     THEN /\ userIdToSocketId' = removeSocket(socketIdToUserId[s], s)
          /\ socketIdToUserId' = without(socketIdToUserId, s)
     ELSE UNCHANGED <<userIdToSocketId, socketIdToUserId>>
  /\ clientSubscriptions' = without(clientSubscriptions, s)

\* The socket closes, by its client, the network, or the gateway that found no user.
closes(s) ==
  /\ s \in alive
  /\ alive' = alive \ {s} /\ gone' = gone \cup {s}
  /\ handleDisconnect(s)
  /\ UNCHANGED <<verifying, inGuard>>

tokenRefused(s) ==
  /\ s \in verifying
  /\ verifying' = verifying \ {s}
  /\ alive' = alive \ {s} /\ gone' = gone \cup {s}
  /\ IF s \in alive THEN handleDisconnect(s) ELSE UNCHANGED maps
  /\ UNCHANGED inGuard

askToSubscribe(s, c) ==
  /\ s \in alive
  /\ inGuard' = inGuard \cup {<<s, c>>}
  /\ UNCHANGED <<alive, verifying, gone, maps>>

canSubscribeToChannel_AnyAddress(u, c) == TRUE

\* An address's channels are for the user whose address it is, the public ones
\* for all; whose a position is is not looked up, and its channel is for anyone.
canSubscribeToChannel(u, c) == c \in StakingChannels \/ u \in about[c]

\* The guard has passed the message; a socket not registered has nowhere to keep it.
handleSubscribe(s, c) ==
  /\ <<s, c>> \in inGuard
  /\ canSubscribeToChannel(getUserIdFromToken(s), c)
  /\ inGuard' = inGuard \ {<<s, c>>}
  /\ clientSubscriptions' = IF s \in DOMAIN clientSubscriptions
                            THEN [clientSubscriptions EXCEPT ![s] = @ \cup {c}]
                            ELSE clientSubscriptions
  /\ UNCHANGED <<alive, verifying, gone, socketIdToUserId, userIdToSocketId>>

handleUnsubscribe(s, c) ==
  /\ s \in alive \cap DOMAIN clientSubscriptions
  /\ clientSubscriptions' = [clientSubscriptions EXCEPT ![s] = @ \ {c}]
  /\ UNCHANGED <<alive, verifying, gone, socketIdToUserId, userIdToSocketId, inGuard>>

\* The message is refused by its guard or for its channel.
subscribeRefused(s, c) ==
  /\ <<s, c>> \in inGuard
  /\ inGuard' = inGuard \ {<<s, c>>}
  /\ UNCHANGED <<alive, verifying, gone, maps>>

-----------------------------------------------------------------------------
(* Sending changes nothing here: these are the sockets an event goes to,    *)
(* each with the users the event is for.                                    *)
sendToChannel(c) ==
  {<<s, about[c]>> : s \in {x \in DOMAIN clientSubscriptions : c \in clientSubscriptions[x]}}

sendToUser(u) == {<<s, {u}>> : s \in socketsOf(u)}

\* An NFT transfer goes to the channels of both its parties.
sendNftTransferEvent(from, to) == sendToChannel(from) \cup sendToChannel(to)

\* Balance, price and staking events go to one channel each; these are the
\* first two, and sendStakingUpdateEvent the last.
channelEvents == UNION {sendToChannel(c) : c \in Channels}

stakingEvents == UNION {sendToChannel(c) : c \in StakingChannels}

broadcastNotification == {<<s, Members>> : s \in alive}

userEvents == UNION {sendToUser(u) : u \in Members}

transferEvents == UNION {sendNftTransferEvent(from, to) : from \in Channels, to \in Channels}

events == broadcastNotification \cup channelEvents \cup userEvents \cup transferEvents

GatewayNext == \E s \in Sockets :
  \/ handleConnection(s) \/ closes(s) \/ tokenRefused(s) \/ tokenVerified(s)
  \/ \E c \in allChannels : subscribeRefused(s, c)
  \/ \E c \in allChannels : askToSubscribe(s, c) \/ handleSubscribe(s, c) \/ handleUnsubscribe(s, c)

GatewaySpec == GatewayInit /\ [][GatewayNext]_gatewayVars

-----------------------------------------------------------------------------
GatewayTypeOK ==
  /\ alive \subseteq Sockets /\ verifying \subseteq Sockets /\ gone \subseteq Sockets \ alive
  /\ socketIdToUserId \in UNION {[D -> Members] : D \in SUBSET Sockets}
  /\ userIdToSocketId \in UNION {[D -> SUBSET Sockets] : D \in SUBSET Members}
  /\ clientSubscriptions \in UNION {[D -> SUBSET allChannels] : D \in SUBSET Sockets}
  /\ inGuard \subseteq Sockets \X allChannels

\* Whatever the order in which connections are verified and lost, every live
\* connection whose token was verified is the target both of events to its
\* user and of events to its channels, and no user is kept without a socket:
\* the three maps of the gateway tell the same story.
MapsAgree ==
  /\ alive \ verifying \subseteq DOMAIN socketIdToUserId
  /\ DOMAIN clientSubscriptions = DOMAIN socketIdToUserId
  /\ DOMAIN userIdToSocketId = Range(socketIdToUserId)
  /\ \A u \in DOMAIN userIdToSocketId :
       userIdToSocketId[u] = {s \in DOMAIN socketIdToUserId : socketIdToUserId[s] = u}

\* Wherever connections, subscriptions and disconnections overlap, an event
\* is sent to sockets of the users it is for only: both the subscriptions and
\* the sockets kept for a user are of that user's own connections.  Staking
\* events are left out: the gateway lets anyone subscribe to them.
EventsReachTheirUsers == \A e \in events : userOf[e[1]] \in e[2]
=============================================================================
