--------------------------- MODULE Web3AuthService ---------------------------
(***************************************************************************)
(* The server's side of wallet sessions (auth/services/web3-auth.service.  *)
(* ts behind auth/controllers/web3-auth.controller.ts).  A caller has one  *)
(* call at a time; a call is cut at the awaits that let others change the  *)
(* session row it has read.  Repository.save writes the whole row back.    *)
(***************************************************************************)
EXTENDS Naturals, Sequences, TLC

CONSTANTS
  Callers,        \* who may have a call under way
  Others,         \* those whose answers are not followed: other clients of the API
  NULL,
  MaxNonces,      \* bound: challenges asked for
  MaxSecrets,     \* bound: refresh tokens handed out
  MaxLost         \* bound: answers that never arrive

ASSUME Web3Assumption ==
  /\ MaxNonces \in Nat /\ MaxSecrets \in Nat /\ MaxLost \in Nat
  /\ NULL \notin Nat /\ Others \subseteq Callers
  /\ NULL \notin {"challenge", "authenticate", "refresh", "heartbeat", "end", "ok"}

VARIABLES
  nonces,         \* challengeMap: nonce |-> "live" | "late" | "gone"
  sessions,       \* table: row number |-> [active, secret, nonce]
  secrets,        \* refresh tokens handed out so far
  calls,          \* caller |-> its call, and where its handler stands
  lost

serverVars == <<nonces, sessions, secrets, calls, lost>>

NoCall == [at |-> "none", op |-> NULL, session |-> NULL, claimed |-> NULL,
           secret |-> NULL, row |-> NULL, result |-> NULL]

at(c, place, op) == calls[c].at = place /\ calls[c].op = op
move(c, h) == calls' = [calls EXCEPT ![c] = h]
answer(c, h, result) ==
  move(c, IF c \in Others THEN NoCall
          ELSE [h EXCEPT !.at = "answered", !.row = NULL, !.result = result])
refuse(c) == answer(c, calls[c], "denied")

ServerInit ==
  /\ nonces = <<>> /\ sessions = <<>> /\ secrets = 0 /\ lost = 0
  /\ calls = [c \in Callers |-> NoCall]

generateChallenge(c) ==
  /\ at(c, "asked", "challenge") /\ Len(nonces) < MaxNonces
  /\ nonces' = Append(nonces, "live")
  /\ answer(c, [calls[c] EXCEPT !.claimed = Len(nonces) + 1], "ok")
  /\ UNCHANGED <<sessions, secrets, lost>>

fiveMinutesPass(n) ==
  /\ nonces[n] = "live"
  /\ nonces' = [nonces EXCEPT ![n] = "late"]
  /\ UNCHANGED <<sessions, secrets, calls, lost>>

\* From the nonce's lookup to its deletion nothing but promises already settled is
\* awaited; the user and session rows written then are new to everyone.
signIn(c, nonces2) ==
  LET n == calls[c].claimed
      h == [calls[c] EXCEPT !.session = Len(sessions) + 1, !.secret = secrets + 1] IN
  /\ at(c, "asked", "authenticate") /\ secrets < MaxSecrets
  /\ nonces[n] = "live"
  /\ nonces' = nonces2
  /\ sessions' = Append(sessions, [active |-> TRUE, secret |-> secrets + 1, nonce |-> n])
  /\ secrets' = secrets + 1
  /\ answer(c, h, "ok")
  /\ UNCHANGED lost

authenticateUser_KeepsNonce(c) == signIn(c, nonces)

authenticateUser(c) == signIn(c, [nonces EXCEPT ![calls[c].claimed] = "gone"])

\* Wrong network, unknown or late nonce (which is forgotten), or a wrong signature.
authenticateRefused(c) ==
  /\ at(c, "asked", "authenticate")
  /\ LET n == calls[c].claimed IN
     nonces' = IF nonces[n] = "late" THEN [nonces EXCEPT ![n] = "gone"] ELSE nonces
  /\ refuse(c)
  /\ UNCHANGED <<sessions, secrets, lost>>

\* The row whose token is presented, if it is active.
findSession(c) ==
  LET s == calls[c].session IN
  /\ at(c, "asked", "refresh")
  /\ IF sessions[s].active /\ sessions[s].secret = calls[c].secret
     THEN move(c, [calls[c] EXCEPT !.at = "found", !.row = sessions[s]])
     ELSE refuse(c)
  /\ UNCHANGED <<nonces, sessions, secrets, lost>>

saveRow(s, row) == sessions' = [sessions EXCEPT ![s] = row]

\* Another device: the session is deactivated.  Otherwise lastActiveTime is saved,
\* the user read, and the rotated token saved.
deviceMismatch(c) ==
  /\ at(c, "found", "refresh")
  /\ sessions' = [sessions EXCEPT ![calls[c].session].active = FALSE]
  /\ refuse(c)
  /\ UNCHANGED <<nonces, secrets, lost>>

touchSession(c) ==
  /\ at(c, "found", "refresh")
  /\ saveRow(calls[c].session, calls[c].row)
  /\ move(c, [calls[c] EXCEPT !.at = "saved"])
  /\ UNCHANGED <<nonces, secrets, lost>>

rotateToken(c) ==
  LET h == [calls[c] EXCEPT !.secret = secrets + 1] IN
  /\ at(c, "saved", "refresh") /\ secrets < MaxSecrets
  /\ secrets' = secrets + 1
  /\ saveRow(h.session, [h.row EXCEPT !.secret = secrets + 1])
  /\ answer(c, h, "ok")
  /\ UNCHANGED <<nonces, lost>>

\* JwtStrategy and the controller: the session of the access token must be active
\* and be the one named in the body; and the access token lasts a quarter of an hour.
admitted(c) ==
  /\ calls[c].session # NULL /\ sessions[calls[c].session].active
  /\ calls[c].claimed = calls[c].session

guarded(c) == calls[c].at = "asked" /\ calls[c].op \in {"heartbeat", "end"}

notAdmitted(c) ==
  /\ guarded(c)
  /\ refuse(c)
  /\ UNCHANGED <<nonces, sessions, secrets, lost>>

\* The service looks the session up again; ended meanwhile, it answers success: false.
heartbeatFind(c) ==
  /\ guarded(c) /\ calls[c].op = "heartbeat" /\ admitted(c)
  /\ \/ move(c, [calls[c] EXCEPT !.at = "found", !.row = sessions[calls[c].session]])
     \/ answer(c, calls[c], "failed")
  /\ UNCHANGED <<nonces, sessions, secrets, lost>>

updateSessionHeartbeat(c) ==
  /\ at(c, "found", "heartbeat")
  /\ saveRow(calls[c].session, calls[c].row)
  /\ answer(c, calls[c], "ok")
  /\ UNCHANGED <<nonces, secrets, lost>>

endSessionRow(c) ==
  /\ guarded(c) /\ calls[c].op = "end" /\ admitted(c)
  /\ sessions' = [sessions EXCEPT ![calls[c].session].active = FALSE]
  /\ answer(c, calls[c], "ok")
  /\ UNCHANGED <<nonces, secrets, lost>>

\* To the callers, a refusal that is lost is a refusal, except for a heartbeat.
loseAnswer(c) ==
  /\ calls[c].at = "answered" /\ lost < MaxLost
  /\ \/ calls[c].result = "ok"
     \/ calls[c].op = "heartbeat" /\ calls[c].result = "denied"
  /\ lost' = lost + 1
  /\ answer(c, calls[c], "lost")
  /\ UNCHANGED <<nonces, sessions, secrets>>

Handler(c) ==
  \/ generateChallenge(c) \/ authenticateUser(c) \/ authenticateRefused(c)
  \/ findSession(c) \/ deviceMismatch(c) \/ touchSession(c) \/ rotateToken(c)
  \/ notAdmitted(c) \/ heartbeatFind(c) \/ updateSessionHeartbeat(c) \/ endSessionRow(c)

ServerNext ==
  \/ \E c \in Callers : Handler(c) \/ loseAnswer(c)
  \/ \E n \in DOMAIN nonces : fiveMinutesPass(n)

\* "Delete the nonce after successful verification (one-time use)": a nonce opens one
\* session at most, with calls repeated, refused and answered late.
NonceUsedOnce ==
  \A s, t \in DOMAIN sessions : sessions[s].nonce = sessions[t].nonce => s = t
=============================================================================
