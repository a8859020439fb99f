------------------------ MODULE SessionManager_proofs ------------------------
(***************************************************************************)
(* Proofs about wallet sessions, of the server and of the browser's        *)
(* manager, for any number of chains, of callers beside the browser, of    *)
(* sessions, reloads and lost answers.                                     *)
(***************************************************************************)
EXTENDS SessionManager, TLAPS

SessionRow == [active : BOOLEAN, secret : Nat, nonce : Nat]
Session == [id : Nat, active : BOOLEAN, auth : Nat, secret : Nat]

Call == [at : {"none", "asked", "found", "saved", "answered"},
         op : {NULL, "challenge", "authenticate", "refresh", "heartbeat", "end"},
         session : {NULL} \cup Nat, claimed : {NULL} \cup Nat, secret : {NULL} \cup Nat,
         row : {NULL} \cup SessionRow, result : {NULL, "ok", "denied", "failed", "lost"}]

(* The tables.  A session was opened by a nonce that is used up.            *)
TablesOK ==
  /\ nonces \in Seq({"live", "late", "gone"}) /\ sessions \in Seq(SessionRow) /\ secrets \in Nat
  /\ \A s \in DOMAIN sessions :
       sessions[s].nonce \in DOMAIN nonces /\ nonces[sessions[s].nonce] = "gone"
  /\ NonceUsedOnce

(* A call names sessions and nonces that exist, n and table t hold them; a  *)
(* row that it is about to save was opened by the nonce of the row in place. *)
CallOK(x, n, t) ==
  /\ x \in Call
  /\ x.op = NULL => x.at = "none"
  /\ x.session \in {NULL} \cup DOMAIN t
  /\ x.op = "refresh" => x.session \in DOMAIN t /\ x.secret \in Nat
  /\ x.op = "authenticate" => x.claimed \in DOMAIN n
  /\ x.at = "answered" /\ x.result = "ok" =>
       /\ x.op = "challenge" => x.claimed \in DOMAIN n
       /\ x.op = "authenticate" => x.session \in DOMAIN t /\ x.secret \in Nat
  /\ x.at \in {"found", "saved"} =>
       /\ x.session \in DOMAIN t /\ x.row \in SessionRow
       /\ x.row.nonce = t[x.session].nonce

\* A chain's call is the one it waits for.
ChainOK(k, x, t) ==
  /\ k \in {"challenge", "authenticate", "refresh"} => x.op = k
  /\ k = "create" => x.at = "answered" /\ x.session \in DOMAIN t /\ x.secret \in Nat

CallsOK ==
  /\ calls = [c \in Callers |-> calls[c]] /\ chains = [c \in Chains |-> chains[c]]
  /\ \A c \in Callers : CallOK(calls[c], nonces, sessions)
  /\ \A c \in Chains : ChainOK(chains[c], calls[c], sessions)

SessionOK(x, t) == x = NULL \/ (x \in Session /\ x.auth \in DOMAIN t)

BrowserOK ==
  /\ SessionOK(current, sessions) /\ SessionOK(stored, sessions)
  /\ StorageIsCurrent

ManagerInv == TablesOK /\ CallsOK /\ BrowserOK

(* Rows and nonces are added, and a row keeps the nonce that opened it.     *)
Grows ==
  /\ DOMAIN nonces \subseteq DOMAIN nonces' /\ DOMAIN sessions \subseteq DOMAIN sessions'
  /\ \A s \in DOMAIN sessions : sessions'[s].nonce = sessions[s].nonce

-----------------------------------------------------------------------------
LEMMA NullFacts == NULL \notin Nat /\ NULL \notin Session /\ Chains \subseteq Callers
                   /\ \A c \in Chains : c \notin Others
  BY Web3Assumption, ManagerAssumption DEF Session

LEMMA NoCallFacts ==
  /\ NoCall \in Call /\ NoCall.at = "none" /\ NoCall.op = NULL /\ NoCall.session = NULL
  /\ NoCall.result = NULL /\ NoCall.secret = NULL /\ NoCall.claimed = NULL
  BY DEF NoCall, Call

LEMMA CallKeeps ==
  ASSUME NEW x, CallOK(x, nonces, sessions), Grows PROVE CallOK(x, nonces', sessions')
  BY DEF CallOK, Grows

LEMMA ChainKeeps ==
  ASSUME NEW k, NEW x, ChainOK(k, x, sessions), Grows PROVE ChainOK(k, x, sessions')
  BY DEF ChainOK, Grows

\* One call moves, and with it perhaps its chain.
LEMMA CallMoves ==
  ASSUME CallsOK, Grows, NEW c \in Callers, NEW h,
         calls' = [calls EXCEPT ![c] = h], CallOK(h, nonces', sessions'),
         chains' = [d \in Chains |-> chains'[d]], \A d \in Chains \ {c} : chains'[d] = chains[d],
         c \in Chains => ChainOK(chains'[c], h, sessions')
  PROVE  CallsOK'
<1>1. \A d \in Callers : calls'[d] = IF d = c THEN h ELSE calls[d]
  BY DEF CallsOK
<1>2. calls' = [d \in Callers |-> calls'[d]]
  BY DEF CallsOK
<1>3. \A d \in Callers : CallOK(calls'[d], nonces', sessions')
  BY <1>1, CallKeeps DEF CallsOK
<1>4. \A d \in Chains : ChainOK(chains'[d], calls'[d], sessions')
  BY <1>1, ChainKeeps, NullFacts DEF CallsOK
<1> QED BY <1>2, <1>3, <1>4 DEF CallsOK

\* The browser's own state does not change while the tables grow.
LEMMA BrowserKeeps ==
  ASSUME BrowserOK, Grows, UNCHANGED <<current, stored>> PROVE BrowserOK'
  BY DEF BrowserOK, SessionOK, Grows, StorageIsCurrent

LEMMA SameTables == ASSUME TablesOK, UNCHANGED <<nonces, sessions, secrets>> PROVE TablesOK' /\ Grows
  BY DEF TablesOK, NonceUsedOnce, Grows

-----------------------------------------------------------------------------
(* The server.                                                              *)

\* What its caller has in hand once a call is answered.
LEMMA AnswerLemma ==
  ASSUME ManagerInv, NEW c \in Callers, NEW h \in Call, NEW r \in {"ok", "denied", "failed", "lost"},
         answer(c, h, r), Grows, UNCHANGED clientVars,
         h.op = calls[c].op, h.op # NULL, c \in Chains => chains[c] # "create" \/ h = calls[c],
         h.session \in {NULL} \cup DOMAIN sessions',
         h.op = "refresh" => h.session \in DOMAIN sessions' /\ h.secret \in Nat,
         h.op = "authenticate" => h.claimed \in DOMAIN nonces',
         r = "ok" /\ h.op = "challenge" => h.claimed \in DOMAIN nonces',
         r = "ok" /\ h.op = "authenticate" => h.session \in DOMAIN sessions' /\ h.secret \in Nat
  PROVE  CallsOK' /\ BrowserOK'
<1>1. PICK x : x = IF c \in Others THEN NoCall ELSE [h EXCEPT !.at = "answered", !.row = NULL, !.result = r]
  OBVIOUS
<1>2. calls' = [calls EXCEPT ![c] = x]
  BY <1>1 DEF answer, move
<1>3. c \notin Others => /\ x \in Call /\ x.at = "answered" /\ x.result = r /\ x.op = h.op
                         /\ x.session = h.session /\ x.secret = h.secret /\ x.claimed = h.claimed
  BY <1>1 DEF Call
<1>4. CallOK(x, nonces', sessions')
  <2>1. CASE c \in Others
    BY <1>1, <2>1, NoCallFacts, Web3Assumption DEF CallOK
  <2>2. CASE c \notin Others
    BY <1>3, <2>2 DEF CallOK
  <2> QED BY <2>1, <2>2
<1>5. chains' = chains /\ UNCHANGED <<current, stored>>
  BY DEF clientVars
<1>6. c \in Chains => ChainOK(chains'[c], x, sessions')
  BY <1>3, <1>5, NullFacts DEF ManagerInv, CallsOK, ChainOK, Grows
<1> QED BY <1>2, <1>4, <1>5, <1>6, CallMoves, BrowserKeeps DEF ManagerInv, CallsOK

\* A row is written back, with the nonce it was opened by.
LEMMA RowLemma ==
  ASSUME TablesOK, NEW s \in DOMAIN sessions, NEW row \in SessionRow,
         row.nonce = sessions[s].nonce, saveRow(s, row), UNCHANGED nonces, secrets' \in Nat
  PROVE  TablesOK' /\ Grows
<1>1. sessions' \in Seq(SessionRow) /\ DOMAIN sessions' = DOMAIN sessions
  BY DEF TablesOK, saveRow
<1>2. \A t \in DOMAIN sessions : sessions'[t].nonce = sessions[t].nonce
  BY DEF TablesOK, saveRow
<1> QED BY <1>1, <1>2 DEF TablesOK, NonceUsedOnce, Grows

\* A nonce that opened no session changes.
LEMMA NonceLemma ==
  ASSUME TablesOK, NEW n \in DOMAIN nonces, NEW v \in {"late", "gone"}, nonces[n] # "gone",
         nonces' = [nonces EXCEPT ![n] = v], UNCHANGED <<sessions, secrets>>
  PROVE  TablesOK' /\ Grows
<1>1. nonces \in Seq({"live", "late", "gone"}) /\ v \in {"live", "late", "gone"}
  BY DEF TablesOK
<1>3. nonces' \in Seq({"live", "late", "gone"}) /\ DOMAIN nonces' = DOMAIN nonces
  BY <1>1
<1>2. \A m \in DOMAIN nonces : nonces[m] = "gone" => nonces'[m] = "gone"
  BY <1>1
<1> QED BY <1>2, <1>3 DEF TablesOK, NonceUsedOnce, Grows

LEMMA ChallengeStep ==
  ASSUME ManagerInv, NEW c \in Callers, generateChallenge(c), UNCHANGED clientVars
  PROVE  ManagerInv'
<1>1. nonces \in Seq({"live", "late", "gone"}) /\ "live" \in {"live", "late", "gone"}
  BY DEF ManagerInv, TablesOK
<1>2. /\ nonces' \in Seq({"live", "late", "gone"}) /\ DOMAIN nonces' = 1..(Len(nonces) + 1)
      /\ DOMAIN nonces = 1..Len(nonces) /\ Len(nonces) \in Nat
      /\ \A m \in DOMAIN nonces : nonces'[m] = nonces[m]
  BY <1>1 DEF generateChallenge
<1>3. TablesOK' /\ Grows
  BY <1>2 DEF ManagerInv, TablesOK, NonceUsedOnce, Grows, generateChallenge
<1>4. PICK h : h = [calls[c] EXCEPT !.claimed = Len(nonces) + 1]
  OBVIOUS
<1>5. calls[c] \in Call /\ CallOK(calls[c], nonces, sessions)
  BY DEF ManagerInv, CallsOK, CallOK
<1>6. /\ h \in Call /\ h.op = calls[c].op /\ h.session = calls[c].session
      /\ h.claimed = Len(nonces) + 1
  BY <1>2, <1>4, <1>5 DEF Call
<1>7. h.op = "challenge" /\ calls[c].at = "asked" /\ answer(c, h, "ok")
  BY <1>4, <1>6 DEF generateChallenge, at
<1>8. (c \in Chains => chains[c] # "create")
  BY <1>7 DEF ManagerInv, CallsOK, ChainOK
<1>9. h.claimed \in DOMAIN nonces' /\ h.session \in {NULL} \cup DOMAIN sessions'
  BY <1>2, <1>3, <1>5, <1>6 DEF CallOK, Grows
<1>10. CallsOK' /\ BrowserOK'
  BY <1>3, <1>6, <1>7, <1>8, <1>9, AnswerLemma, Web3Assumption
<1> QED BY <1>3, <1>10 DEF ManagerInv

LEMMA SignInStep ==
  ASSUME ManagerInv, NEW c \in Callers, authenticateUser(c), UNCHANGED clientVars
  PROVE  ManagerInv'
<1>1. PICK n : n = calls[c].claimed
  OBVIOUS
<1>2. PICK h : h = [calls[c] EXCEPT !.session = Len(sessions) + 1, !.secret = secrets + 1]
  OBVIOUS
<1>3. PICK row : row = [active |-> TRUE, secret |-> secrets + 1, nonce |-> n]
  OBVIOUS
<1>4. /\ at(c, "asked", "authenticate") /\ nonces[n] = "live"
      /\ nonces' = [nonces EXCEPT ![n] = "gone"] /\ sessions' = Append(sessions, row)
      /\ secrets' = secrets + 1 /\ answer(c, h, "ok")
  BY <1>1, <1>2, <1>3 DEF authenticateUser, signIn
<1>5. calls[c] \in Call /\ CallOK(calls[c], nonces, sessions) /\ n \in DOMAIN nonces
  BY <1>1, <1>4 DEF ManagerInv, CallsOK, CallOK, at
<1>6. /\ nonces \in Seq({"live", "late", "gone"}) /\ sessions \in Seq(SessionRow)
      /\ secrets \in Nat /\ n \in Nat
  BY <1>5 DEF ManagerInv, TablesOK
<1>7. row \in SessionRow /\ row.nonce = n
  BY <1>3, <1>6 DEF SessionRow
<1>8. /\ nonces' \in Seq({"live", "late", "gone"}) /\ DOMAIN nonces' = DOMAIN nonces
      /\ nonces'[n] = "gone" /\ \A m \in DOMAIN nonces : nonces[m] = "gone" => nonces'[m] = "gone"
  BY <1>4, <1>5, <1>6
<1>9. /\ sessions' \in Seq(SessionRow) /\ DOMAIN sessions' = 1..(Len(sessions) + 1)
      /\ DOMAIN sessions = 1..Len(sessions) /\ Len(sessions) \in Nat
      /\ sessions'[Len(sessions) + 1] = row
      /\ \A s \in DOMAIN sessions : sessions'[s] = sessions[s]
  BY <1>4, <1>6, <1>7
<1>10. Grows
  BY <1>8, <1>9 DEF Grows
<1>11. \A s \in DOMAIN sessions : sessions[s].nonce # n
  BY <1>4 DEF ManagerInv, TablesOK
<1>12. TablesOK'
  <2>1. \A s \in DOMAIN sessions' :
          sessions'[s].nonce \in DOMAIN nonces' /\ nonces'[sessions'[s].nonce] = "gone"
    BY <1>5, <1>7, <1>8, <1>9 DEF ManagerInv, TablesOK
  <2>2. NonceUsedOnce'
    BY <1>7, <1>9, <1>11 DEF ManagerInv, TablesOK, NonceUsedOnce
  <2> QED BY <1>4, <1>6, <1>8, <1>9, <2>1, <2>2 DEF TablesOK
<1>13. /\ h \in Call /\ h.op = calls[c].op /\ h.session = Len(sessions) + 1
       /\ h.secret = secrets + 1 /\ h.claimed = n
  <2>1. PICK x, s, k : x = calls[c] /\ s = Len(sessions) + 1 /\ k = secrets + 1
    OBVIOUS
  <2>2. x \in Call /\ s \in Nat /\ k \in Nat /\ x.claimed = n
    BY <1>1, <1>5, <1>6, <1>9, <2>1
  <2>3. h = [x EXCEPT !.session = s, !.secret = k]
    BY <1>2, <2>1
  <2>4. h \in Call /\ h.op = x.op /\ h.session = s /\ h.secret = k /\ h.claimed = n
    BY <2>2, <2>3 DEF Call
  <2> QED BY <2>1, <2>4
<1>14. h.op = "authenticate" /\ (c \in Chains => chains[c] # "create")
  BY <1>4, <1>13 DEF ManagerInv, CallsOK, ChainOK, at
<1>15. h.claimed \in DOMAIN nonces' /\ h.session \in DOMAIN sessions' /\ h.secret \in Nat
  BY <1>5, <1>6, <1>8, <1>9, <1>13
<1>16. CallsOK' /\ BrowserOK'
  BY <1>4, <1>10, <1>13, <1>14, <1>15, AnswerLemma, Web3Assumption
<1> QED BY <1>12, <1>16 DEF ManagerInv

\* A call is answered as it was asked, with a refusal, a failure or, of a heartbeat or
\* an end, with success.
LEMMA PlainAnswer ==
  ASSUME ManagerInv, NEW c \in Callers, NEW r \in {"ok", "denied", "failed", "lost"},
         answer(c, calls[c], r), TablesOK', Grows, UNCHANGED clientVars,
         calls[c].op \in {"challenge", "authenticate", "refresh", "heartbeat", "end"},
         r = "ok" => calls[c].op \in {"heartbeat", "end"}
  PROVE  ManagerInv'
<1>1. CallOK(calls[c], nonces, sessions)
  BY DEF ManagerInv, CallsOK
<1>2. calls[c] \in Call /\ CallOK(calls[c], nonces', sessions')
  BY <1>1, CallKeeps DEF CallOK
<1> QED BY <1>2, AnswerLemma, Web3Assumption DEF ManagerInv, CallOK

\* The handler goes on past an await, with the row that it read.
LEMMA GoesOn ==
  ASSUME ManagerInv, NEW c \in Callers, NEW h \in Call, move(c, h), TablesOK', Grows,
         UNCHANGED clientVars, calls[c].at \in {"asked", "found"}, h.at \in {"found", "saved"},
         h.op = calls[c].op, h.session = calls[c].session, h.secret = calls[c].secret,
         h.claimed = calls[c].claimed, h.session \in DOMAIN sessions, h.row \in SessionRow,
         h.row.nonce = sessions[h.session].nonce
  PROVE  ManagerInv'
<1>1. CallOK(calls[c], nonces', sessions')
  BY CallKeeps DEF ManagerInv, CallsOK
<1>2. CallOK(h, nonces', sessions')
  BY <1>1 DEF CallOK, Grows
<1>3. chains' = chains /\ UNCHANGED <<current, stored>>
  BY DEF clientVars
<1>4. c \in Chains => ChainOK(chains'[c], h, sessions')
  BY <1>3 DEF ManagerInv, CallsOK, ChainOK
<1> QED BY <1>2, <1>3, <1>4, CallMoves, BrowserKeeps DEF ManagerInv, CallsOK, move

LEMMA RefusedStep ==
  ASSUME ManagerInv, NEW c \in Callers, authenticateRefused(c), UNCHANGED clientVars
  PROVE  ManagerInv'
<1>1. calls[c].claimed \in DOMAIN nonces /\ calls[c].op = "authenticate"
  BY DEF ManagerInv, CallsOK, CallOK, authenticateRefused, at
<1>2. TablesOK' /\ Grows
  <2>1. CASE nonces[calls[c].claimed] = "late"
    BY <1>1, <2>1, NonceLemma DEF authenticateRefused, ManagerInv
  <2>2. CASE nonces[calls[c].claimed] # "late"
    BY <2>2, SameTables DEF authenticateRefused, ManagerInv
  <2> QED BY <2>1, <2>2
<1> QED BY <1>1, <1>2, PlainAnswer DEF authenticateRefused, refuse

LEMMA FiveMinutesStep ==
  ASSUME ManagerInv, NEW n \in DOMAIN nonces, fiveMinutesPass(n), UNCHANGED clientVars
  PROVE  ManagerInv'
<1>1. TablesOK' /\ Grows
  BY NonceLemma DEF fiveMinutesPass, ManagerInv
<1>2. CallsOK'
  BY <1>1, CallKeeps, ChainKeeps, NullFacts DEF fiveMinutesPass, clientVars, ManagerInv, CallsOK
<1> QED BY <1>1, <1>2, BrowserKeeps DEF ManagerInv, clientVars

\* A call that found a session holds a row of it.
LEMMA HeldRow ==
  ASSUME ManagerInv, NEW c \in Callers, calls[c].at \in {"found", "saved"}
  PROVE  /\ calls[c] \in Call /\ calls[c].session \in DOMAIN sessions /\ calls[c].row \in SessionRow
         /\ calls[c].row.nonce = sessions[calls[c].session].nonce
         /\ sessions[calls[c].session] \in SessionRow
<1>1. CallOK(calls[c], nonces, sessions) /\ sessions \in Seq(SessionRow)
  BY DEF ManagerInv, CallsOK, TablesOK
<1>2. calls[c] \in Call /\ calls[c].session \in DOMAIN sessions /\ calls[c].row \in SessionRow
      /\ calls[c].row.nonce = sessions[calls[c].session].nonce
  BY <1>1 DEF CallOK
<1> QED BY <1>1, <1>2

LEMMA FindStep ==
  ASSUME ManagerInv, NEW c \in Callers, findSession(c), UNCHANGED clientVars
  PROVE  ManagerInv'
<1>1. TablesOK' /\ Grows
  BY SameTables DEF findSession, ManagerInv
<1>2. calls[c] \in Call /\ calls[c].session \in DOMAIN sessions
  BY DEF ManagerInv, CallsOK, CallOK, findSession, at
<1>3. PICK x, row : x = calls[c] /\ row = sessions[x.session]
  OBVIOUS
<1>4. row \in SessionRow
  BY <1>2, <1>3 DEF ManagerInv, TablesOK
<1>5. CASE move(c, [x EXCEPT !.at = "found", !.row = row])
  <2>1. PICK h : h = [x EXCEPT !.at = "found", !.row = row]
    OBVIOUS
  <2>2. /\ h \in Call /\ h.at = "found" /\ h.op = x.op /\ h.session = x.session
        /\ h.secret = x.secret /\ h.claimed = x.claimed /\ h.row = row
    BY <1>2, <1>3, <1>4, <2>1 DEF Call
  <2> QED BY <1>1, <1>2, <1>3, <1>4, <1>5, <2>1, <2>2, GoesOn DEF findSession, at
<1>6. CASE refuse(c)
  BY <1>1, <1>6, PlainAnswer DEF findSession, at, refuse
<1> QED BY <1>3, <1>5, <1>6 DEF findSession

LEMMA TouchStep ==
  ASSUME ManagerInv, NEW c \in Callers, touchSession(c), UNCHANGED clientVars
  PROVE  ManagerInv'
<1>1. PICK x : x = calls[c]
  OBVIOUS
<1>2. /\ x \in Call /\ x.at = "found" /\ x.session \in DOMAIN sessions /\ x.row \in SessionRow
      /\ x.row.nonce = sessions[x.session].nonce /\ saveRow(x.session, x.row)
      /\ UNCHANGED <<nonces, secrets>> /\ secrets \in Nat
  BY <1>1, HeldRow DEF touchSession, at, ManagerInv, TablesOK
<1>3. TablesOK' /\ Grows
  BY <1>2, RowLemma DEF ManagerInv
<1>4. PICK h : h = [x EXCEPT !.at = "saved"]
  OBVIOUS
<1>5. /\ h \in Call /\ h.at = "saved" /\ h.op = x.op /\ h.session = x.session
      /\ h.secret = x.secret /\ h.claimed = x.claimed /\ h.row = x.row
  BY <1>2, <1>4 DEF Call
<1>6. move(c, h)
  BY <1>1, <1>4 DEF touchSession
<1> QED BY <1>1, <1>2, <1>3, <1>5, <1>6, GoesOn

LEMMA RotateStep ==
  ASSUME ManagerInv, NEW c \in Callers, rotateToken(c), UNCHANGED clientVars
  PROVE  ManagerInv'
<1>1. PICK x, k : x = calls[c] /\ k = secrets + 1
  OBVIOUS
<1>2. /\ x \in Call /\ x.at = "saved" /\ x.op = "refresh" /\ x.session \in DOMAIN sessions
      /\ x.row \in SessionRow /\ x.row.nonce = sessions[x.session].nonce /\ k \in Nat
      /\ secrets' = k /\ UNCHANGED nonces
  BY <1>1, HeldRow DEF rotateToken, at, ManagerInv, TablesOK
<1>3. PICK h, row : h = [x EXCEPT !.secret = k] /\ row = [x.row EXCEPT !.secret = k]
  OBVIOUS
<1>4. /\ h \in Call /\ h.op = x.op /\ h.session = x.session /\ h.secret = k
      /\ h.claimed = x.claimed /\ h.row = x.row
  BY <1>2, <1>3 DEF Call
<1>5. row \in SessionRow /\ row.nonce = x.row.nonce
  BY <1>2, <1>3 DEF SessionRow
<1>6. saveRow(x.session, row) /\ answer(c, h, "ok")
  BY <1>1, <1>3, <1>4 DEF rotateToken
<1>7. TablesOK' /\ Grows
  BY <1>2, <1>5, <1>6, RowLemma DEF ManagerInv
<1>8. c \in Chains => chains[c] # "create"
  BY <1>1, <1>2 DEF ManagerInv, CallsOK, ChainOK
<1>9. CallsOK' /\ BrowserOK'
  BY <1>1, <1>2, <1>4, <1>6, <1>7, <1>8, AnswerLemma, Web3Assumption DEF Grows
<1> QED BY <1>7, <1>9 DEF ManagerInv

\* A session is deactivated: its row keeps all but the flag.
LEMMA Deactivated ==
  ASSUME ManagerInv, NEW s \in DOMAIN sessions, UNCHANGED <<nonces, secrets>>,
         sessions' = [sessions EXCEPT ![s].active = FALSE]
  PROVE  TablesOK' /\ Grows
<1>1. PICK row : row = [sessions[s] EXCEPT !.active = FALSE]
  OBVIOUS
<1>2. sessions[s] \in SessionRow /\ secrets \in Nat
  BY DEF ManagerInv, TablesOK
<1>3. row \in SessionRow /\ row.nonce = sessions[s].nonce
  BY <1>1, <1>2 DEF SessionRow
<1>4. saveRow(s, row)
  BY <1>1 DEF saveRow
<1> QED BY <1>2, <1>3, <1>4, RowLemma DEF ManagerInv

LEMMA MismatchStep ==
  ASSUME ManagerInv, NEW c \in Callers, deviceMismatch(c), UNCHANGED clientVars
  PROVE  ManagerInv'
  BY HeldRow, Deactivated, PlainAnswer DEF deviceMismatch, at, refuse

LEMMA GuardedSteps ==
  ASSUME ManagerInv, NEW c \in Callers, UNCHANGED clientVars,
         notAdmitted(c) \/ heartbeatFind(c) \/ updateSessionHeartbeat(c) \/ endSessionRow(c)
  PROVE  ManagerInv'
<1>1. calls[c] \in Call /\ calls[c].session \in {NULL} \cup DOMAIN sessions /\ secrets \in Nat
  BY DEF ManagerInv, CallsOK, CallOK, TablesOK
<1>2. CASE notAdmitted(c)
  BY <1>2, SameTables, PlainAnswer DEF notAdmitted, guarded, refuse, ManagerInv
<1>3. CASE heartbeatFind(c)
  <2>1. TablesOK' /\ Grows
    BY <1>3, SameTables DEF heartbeatFind, ManagerInv
  <2>2. PICK x, row : x = calls[c] /\ row = sessions[x.session]
    OBVIOUS
  <2>3. /\ x.session \in DOMAIN sessions /\ row \in SessionRow
        /\ x.op = "heartbeat" /\ x.at = "asked"
    BY <1>1, <1>3, <2>2 DEF heartbeatFind, admitted, guarded, ManagerInv, TablesOK
  <2>4. CASE move(c, [x EXCEPT !.at = "found", !.row = row])
    <3>1. PICK h : h = [x EXCEPT !.at = "found", !.row = row]
      OBVIOUS
    <3>2. /\ h \in Call /\ h.at = "found" /\ h.op = x.op /\ h.session = x.session
          /\ h.secret = x.secret /\ h.claimed = x.claimed /\ h.row = row
      BY <1>1, <2>2, <2>3, <3>1 DEF Call
    <3> QED BY <2>1, <2>2, <2>3, <2>4, <3>1, <3>2, GoesOn
  <2>5. CASE answer(c, x, "failed")
    BY <2>1, <2>2, <2>3, <2>5, PlainAnswer
  <2> QED BY <1>3, <2>2, <2>4, <2>5 DEF heartbeatFind
<1>4. CASE updateSessionHeartbeat(c)
  <2>1. TablesOK' /\ Grows
    BY <1>1, <1>4, HeldRow, RowLemma DEF updateSessionHeartbeat, at, ManagerInv
  <2> QED BY <1>4, <2>1, PlainAnswer DEF updateSessionHeartbeat, at
<1>5. CASE endSessionRow(c)
  <2>1. TablesOK' /\ Grows
    BY <1>1, <1>5, Deactivated DEF endSessionRow, admitted
  <2> QED BY <1>5, <2>1, PlainAnswer DEF endSessionRow
<1> QED BY <1>2, <1>3, <1>4, <1>5

LEMMA LoseStep ==
  ASSUME ManagerInv, NEW c \in Callers, loseAnswer(c), UNCHANGED clientVars
  PROVE  ManagerInv'
<1>1. TablesOK' /\ Grows
  BY SameTables DEF loseAnswer, ManagerInv
<1>2. calls[c].op \in {"challenge", "authenticate", "refresh", "heartbeat", "end"}
  BY DEF loseAnswer, ManagerInv, CallsOK, CallOK, Call
<1> QED BY <1>1, <1>2, PlainAnswer DEF loseAnswer

LEMMA ServerStep ==
  ASSUME ManagerInv, ServerNext, UNCHANGED clientVars PROVE ManagerInv'
<1>1. ASSUME NEW c \in Callers, Handler(c) PROVE ManagerInv'
  BY <1>1, ChallengeStep, SignInStep, RefusedStep, FindStep, MismatchStep, TouchStep, RotateStep,
     GuardedSteps DEF Handler
<1> QED BY <1>1, LoseStep, FiveMinutesStep DEF ServerNext

-----------------------------------------------------------------------------
(* The browser.                                                             *)

\* A chain takes a step while the server does nothing.
LEMMA ChainMoves ==
  ASSUME ManagerInv, NEW c \in Chains, NEW k, NEW h, keepServer, move(c, h),
         chains' = [d \in Chains |-> chains'[d]], chains'[c] = k,
         \A d \in Chains \ {c} : chains'[d] = chains[d],
         CallOK(h, nonces, sessions), ChainOK(k, h, sessions)
  PROVE  TablesOK' /\ CallsOK' /\ Grows
<1>1. TablesOK' /\ Grows /\ nonces' = nonces /\ sessions' = sessions
  BY SameTables DEF ManagerInv, keepServer
<1>2. CallOK(h, nonces', sessions') /\ ChainOK(chains'[c], h, sessions')
  BY <1>1
<1> QED BY <1>1, <1>2, CallMoves, NullFacts DEF ManagerInv, move

LEMMA StepFacts ==
  ASSUME ManagerInv, NEW c \in Chains, NEW k, step(c, k)
  PROVE  /\ chains' = [d \in Chains |-> chains'[d]] /\ chains'[c] = k
         /\ \A d \in Chains \ {c} : chains'[d] = chains[d]
  BY DEF ManagerInv, CallsOK, step

LEMMA NothingOK == CallOK(NoCall, nonces, sessions) /\ \A k : k \in {"idle", "tick", "locate", "end"} => ChainOK(k, NoCall, sessions)
  BY NoCallFacts, Web3Assumption DEF CallOK, ChainOK

LEMMA BackStep ==
  ASSUME ManagerInv, NEW c \in Chains, keepServer, back(c)
  PROVE  TablesOK' /\ CallsOK' /\ Grows
  BY StepFacts, ChainMoves, NothingOK DEF back

\* A call that is asked by a session of the browser.
LEMMA FreshCall ==
  ASSUME NEW h, NEW o \in {"challenge", "authenticate", "refresh", "heartbeat", "end"},
         NEW s \in {NULL} \cup DOMAIN sessions, NEW m \in {NULL} \cup Nat, NEW k \in {NULL} \cup Nat,
         TablesOK, o = "refresh" => s \in DOMAIN sessions /\ k \in Nat,
         o = "authenticate" => m \in DOMAIN nonces,
         h = [at |-> "asked", op |-> o, session |-> s, claimed |-> m, secret |-> k,
              row |-> NULL, result |-> NULL]
  PROVE  CallOK(h, nonces, sessions) /\ h.op = o
<1>1. s \in {NULL} \cup Nat
  BY DEF TablesOK
<1>2. h \in Call
  BY <1>1 DEF Call
<1> QED BY <1>2, Web3Assumption DEF CallOK

LEMMA SessionFacts ==
  ASSUME ManagerInv
  PROVE  /\ current # NULL => current \in Session /\ current.auth \in DOMAIN sessions
                              /\ current.auth \in Nat /\ current.id \in Nat /\ current.secret \in Nat
         /\ stored # NULL => stored \in Session
         /\ NULL \notin DOMAIN sessions
  BY NullFacts DEF ManagerInv, BrowserOK, SessionOK, Session, TablesOK

\* A call that is asked, field by field.
AskedOf(x, o) == [x EXCEPT !.at = "asked", !.op = o]
ClaimedOf(s, m) == [NoCall EXCEPT !.session = s, !.claimed = m]
SecretOf(s, k) == [NoCall EXCEPT !.session = s, !.secret = k]

LEMMA AskedRecord ==
  ASSUME NEW o, NEW x, NEW a, NEW b, NEW s, NEW m, NEW k, NEW r, NEW w,
         x = [at |-> a, op |-> b, session |-> s, claimed |-> m, secret |-> k, row |-> r,
              result |-> w]
  PROVE  AskedOf(x, o)
           = [at |-> "asked", op |-> o, session |-> s, claimed |-> m, secret |-> k, row |-> r,
              result |-> w]
<1>1. PICK y : y = [x EXCEPT !.at = "asked"]
  OBVIOUS
<1>2. y = [at |-> "asked", op |-> b, session |-> s, claimed |-> m, secret |-> k, row |-> r,
           result |-> w]
  BY <1>1
<1>3. [y EXCEPT !.op = o]
        = [at |-> "asked", op |-> o, session |-> s, claimed |-> m, secret |-> k, row |-> r,
           result |-> w]
  BY <1>2
<1>4. AskedOf(x, o) = [y EXCEPT !.op = o]
  BY <1>1 DEF AskedOf
<1> QED BY <1>3, <1>4

LEMMA ClaimedRecord ==
  ASSUME NEW s, NEW m
  PROVE  ClaimedOf(s, m)
           = [at |-> "none", op |-> NULL, session |-> s, claimed |-> m, secret |-> NULL,
              row |-> NULL, result |-> NULL]
<1>1. PICK y : y = [NoCall EXCEPT !.session = s]
  OBVIOUS
<1>2. y = [at |-> "none", op |-> NULL, session |-> s, claimed |-> NULL, secret |-> NULL,
           row |-> NULL, result |-> NULL]
  BY <1>1 DEF NoCall
<1>3. [y EXCEPT !.claimed = m]
        = [at |-> "none", op |-> NULL, session |-> s, claimed |-> m, secret |-> NULL,
           row |-> NULL, result |-> NULL]
  BY <1>2
<1>4. ClaimedOf(s, m) = [y EXCEPT !.claimed = m]
  BY <1>1 DEF ClaimedOf
<1> QED BY <1>3, <1>4

LEMMA SecretRecord ==
  ASSUME NEW s, NEW k
  PROVE  SecretOf(s, k)
           = [at |-> "none", op |-> NULL, session |-> s, claimed |-> NULL, secret |-> k,
              row |-> NULL, result |-> NULL]
<1>1. PICK y : y = [NoCall EXCEPT !.session = s]
  OBVIOUS
<1>2. y = [at |-> "none", op |-> NULL, session |-> s, claimed |-> NULL, secret |-> NULL,
           row |-> NULL, result |-> NULL]
  BY <1>1 DEF NoCall
<1>3. [y EXCEPT !.secret = k]
        = [at |-> "none", op |-> NULL, session |-> s, claimed |-> NULL, secret |-> k,
           row |-> NULL, result |-> NULL]
  BY <1>2
<1>4. SecretOf(s, k) = [y EXCEPT !.secret = k]
  BY <1>1 DEF SecretOf
<1> QED BY <1>3, <1>4

LEMMA LoginStep ==
  ASSUME ManagerInv, NEW c \in Chains, login(c) PROVE ManagerInv'
<1>1. PICK h : h = [at |-> "asked", op |-> "challenge", session |-> NULL, claimed |-> NULL,
                    secret |-> NULL, row |-> NULL, result |-> NULL]
  OBVIOUS
<1>5. h = AskedOf(NoCall, "challenge")
  BY <1>1, AskedRecord DEF NoCall
<1>2. move(c, h) /\ step(c, "challenge") /\ keepServer /\ UNCHANGED <<current, stored>>
  BY <1>5 DEF login, ask, AskedOf
<1>3. CallOK(h, nonces, sessions) /\ h.op = "challenge"
  BY <1>1, FreshCall DEF ManagerInv
<1>4. ChainOK("challenge", h, sessions)
  BY <1>3 DEF ChainOK
<1> QED BY <1>2, <1>3, <1>4, StepFacts, ChainMoves, BrowserKeeps DEF ManagerInv

LEMMA ChainFacts ==
  ASSUME ManagerInv, NEW c \in Chains
  PROVE  /\ c \in Callers /\ calls[c] \in Call /\ CallOK(calls[c], nonces, sessions)
         /\ ChainOK(chains[c], calls[c], sessions)
  BY NullFacts DEF ManagerInv, CallsOK, CallOK

LEMMA SignStep ==
  ASSUME ManagerInv, NEW c \in Chains, sign(c) PROVE ManagerInv'
<1>1. UNCHANGED <<current, stored>> /\ keepServer
  BY DEF sign
<1>2. CASE back(c)
  BY <1>1, <1>2, BackStep, BrowserKeeps DEF ManagerInv
<1>3. CASE ok(c) /\ step(c, "authenticate") /\ ask(c, "authenticate", calls[c])
  <2>1. PICK x, h : x = calls[c] /\ h = [x EXCEPT !.at = "asked", !.op = "authenticate"]
    OBVIOUS
  <2>2. /\ x \in Call /\ x.at = "answered" /\ x.result = "ok" /\ x.op = "challenge"
        /\ x.claimed \in DOMAIN nonces /\ x.session \in {NULL} \cup DOMAIN sessions
    BY <1>3, <2>1, ChainFacts DEF sign, answered, ok, CallOK, ChainOK
  <2>3. /\ h \in Call /\ h.at = "asked" /\ h.op = "authenticate" /\ h.session = x.session
        /\ h.claimed = x.claimed
    BY <2>1, <2>2 DEF Call
  <2>4. CallOK(h, nonces, sessions) /\ ChainOK("authenticate", h, sessions)
    BY <2>2, <2>3, Web3Assumption DEF CallOK, ChainOK
  <2>5. move(c, h)
    BY <1>3, <2>1 DEF ask
  <2> QED BY <1>1, <1>3, <2>4, <2>5, StepFacts, ChainMoves, BrowserKeeps DEF ManagerInv
<1> QED BY <1>2, <1>3 DEF sign

LEMMA AuthenticatedStep ==
  ASSUME ManagerInv, NEW c \in Chains, authenticated(c) PROVE ManagerInv'
<1>1. UNCHANGED <<current, stored>> /\ keepServer
  BY DEF authenticated
<1>2. CASE ~ok(c)
  BY <1>1, <1>2, BackStep, BrowserKeeps DEF ManagerInv, authenticated
<1>3. CASE ok(c)
  <2>1. step(c, "create") /\ UNCHANGED calls
    BY <1>3 DEF authenticated
  <2>2. move(c, calls[c])
    BY <2>1 DEF move, ManagerInv, CallsOK
  <2>3. ChainOK("create", calls[c], sessions)
    BY <1>3, ChainFacts DEF authenticated, answered, ok, ChainOK, CallOK
  <2> QED BY <1>1, <2>1, <2>2, <2>3, ChainFacts, StepFacts, ChainMoves, BrowserKeeps DEF ManagerInv
<1> QED BY <1>2, <1>3

LEMMA CreateStep ==
  ASSUME ManagerInv, NEW c \in Chains, createNewSession(c) PROVE ManagerInv'
<1>1. TablesOK' /\ CallsOK' /\ Grows /\ sessions' = sessions
  BY BackStep DEF createNewSession, keepServer
<1>2. calls[c].session \in DOMAIN sessions /\ calls[c].secret \in Nat
  BY ChainFacts DEF createNewSession, ChainOK
<1>3. calls[c].session \in Nat
  BY <1>2 DEF ManagerInv, TablesOK
<1>4. PICK a, k : a = calls[c].session /\ k = calls[c].secret
  OBVIOUS
<1>5. current' = [id |-> 0, active |-> TRUE, auth |-> a, secret |-> k] /\ stored' = current'
  BY <1>4 DEF createNewSession, OwnId
<1>6. current' \in Session /\ current'.auth = a
  BY <1>2, <1>3, <1>4, <1>5 DEF Session
<1> QED BY <1>1, <1>2, <1>4, <1>5, <1>6, NullFacts DEF ManagerInv, BrowserOK, SessionOK, StorageIsCurrent

\* endSession, carried by the chains in E.
LEMMA EndNow ==
  ASSUME ManagerInv, NEW E \in SUBSET Chains, endNow(E), keepServer
  PROVE  ManagerInv'
<1>1. TablesOK' /\ Grows /\ nonces' = nonces /\ sessions' = sessions
  BY SameTables DEF ManagerInv, keepServer
<1>2. CASE current = NULL
  <2>1. /\ current' = current /\ stored' = stored
        /\ chains' = [c \in Chains |-> IF c \in E THEN "idle" ELSE chains[c]]
        /\ calls' = [c \in Callers |-> IF c \in E THEN NoCall ELSE calls[c]]
    BY <1>2 DEF endNow
  <2>2. CallsOK'
    BY <1>1, <2>1, NothingOK, NullFacts DEF ManagerInv, CallsOK
  <2> QED BY <1>1, <2>1, <2>2, BrowserKeeps DEF ManagerInv
<1>3. CASE current # NULL
  <2>1. PICK x : x = endCall
    OBVIOUS
  <2>2. x = [at |-> "asked", op |-> "end", session |-> current.auth, claimed |-> current.id,
             secret |-> NULL, row |-> NULL, result |-> NULL]
    BY <2>1 DEF endCall, NoCall
  <2>3. CallOK(x, nonces, sessions) /\ x.op = "end"
    BY <1>3, <2>2, FreshCall, SessionFacts DEF ManagerInv
  <2>4. ChainOK("end", x, sessions)
    BY DEF ChainOK
  <2>5. /\ current' = [current EXCEPT !.active = FALSE] /\ stored' = stored
        /\ chains' = [c \in Chains |-> IF c \in E THEN "end" ELSE chains[c]]
        /\ calls' = [c \in Callers |-> IF c \in E THEN x ELSE calls[c]]
    BY <1>3, <2>1 DEF endNow
  <2>6. CallsOK'
    BY <1>1, <2>3, <2>4, <2>5, NullFacts DEF ManagerInv, CallsOK
  <2>7. current' \in Session /\ current'.auth = current.auth /\ current'.secret = current.secret
    BY <1>3, <2>5, SessionFacts DEF Session
  <2>8. BrowserOK'
    BY <1>1, <1>3, <2>5, <2>7, NullFacts DEF ManagerInv, BrowserOK, SessionOK, StorageIsCurrent
  <2> QED BY <1>1, <2>6, <2>8 DEF ManagerInv
<1> QED BY <1>2, <1>3

LEMMA EndsStep ==
  ASSUME ManagerInv, NEW c \in Chains,
         logout(c) \/ (heartbeatDenied(c) /\ current = NULL)
           \/ (refreshToken(c) /\ current = NULL) \/ refreshFails(c)
  PROVE  ManagerInv'
<1>1. {c} \in SUBSET Chains /\ \A d \in Chains : {c, d} \in SUBSET Chains
  OBVIOUS
<1>2. CASE logout(c)
  BY <1>1, <1>2, EndNow DEF logout
<1>3. CASE heartbeatDenied(c) /\ current = NULL
  BY <1>1, <1>3, EndNow DEF heartbeatDenied
<1>4. CASE refreshToken(c) /\ current = NULL
  BY <1>1, <1>4, EndNow DEF refreshToken
<1>5. CASE refreshFails(c)
  <2>1. PICK d \in Chains : endNow({c, d})
    BY <1>5 DEF refreshFails
  <2> QED BY <1>1, <1>5, <2>1, EndNow DEF refreshFails
<1> QED BY <1>2, <1>3, <1>4, <1>5

LEMMA SessionEndedStep ==
  ASSUME ManagerInv, NEW c \in Chains, sessionEnded(c) PROVE ManagerInv'
  BY BackStep DEF sessionEnded, ManagerInv, BrowserOK, SessionOK, StorageIsCurrent

LEMMA TickStep ==
  ASSUME ManagerInv, NEW c \in Chains, tick(c) PROVE ManagerInv'
<1>1. move(c, calls[c]) /\ step(c, "tick") /\ keepServer /\ UNCHANGED <<current, stored>>
  BY DEF tick, move, ManagerInv, CallsOK
<1>2. ChainOK("tick", calls[c], sessions)
  BY DEF ChainOK
<1> QED BY <1>1, <1>2, ChainFacts, StepFacts, ChainMoves, BrowserKeeps DEF ManagerInv

LEMMA HeartbeatStep ==
  ASSUME ManagerInv, NEW c \in Chains, heartbeat(c) PROVE ManagerInv'
<1>1. UNCHANGED <<current, stored>> /\ keepServer
  BY DEF heartbeat
<1>2. CASE current = NULL
  BY <1>1, <1>2, BackStep, BrowserKeeps DEF ManagerInv, heartbeat
<1>3. CASE current # NULL
  <2>1. PICK h : h = [at |-> "asked", op |-> "heartbeat", session |-> current.auth,
                      claimed |-> current.id, secret |-> NULL, row |-> NULL, result |-> NULL]
    OBVIOUS
  <2>2. h = AskedOf(ClaimedOf(current.auth, current.id), "heartbeat")
    BY <2>1, AskedRecord, ClaimedRecord
  <2>3. move(c, h) /\ step(c, "heartbeat")
    BY <1>3, <2>2 DEF heartbeat, ask, AskedOf, ClaimedOf
  <2>4. CallOK(h, nonces, sessions) /\ ChainOK("heartbeat", h, sessions)
    BY <1>3, <2>1, FreshCall, SessionFacts DEF ManagerInv, ChainOK
  <2> QED BY <1>1, <2>3, <2>4, StepFacts, ChainMoves, BrowserKeeps DEF ManagerInv
<1> QED BY <1>2, <1>3

LEMMA HeartbeatDoneStep ==
  ASSUME ManagerInv, NEW c \in Chains, heartbeatDone(c) PROVE ManagerInv'
<1>1. TablesOK' /\ CallsOK' /\ sessions' = sessions
  BY BackStep DEF heartbeatDone, keepServer
<1> QED BY <1>1 DEF heartbeatDone, ManagerInv, BrowserOK, SessionOK, StorageIsCurrent

LEMMA DeniedStep ==
  ASSUME ManagerInv, NEW c \in Chains, heartbeatDenied(c), current # NULL PROVE ManagerInv'
<1>1. move(c, NoCall) /\ step(c, "locate") /\ keepServer /\ UNCHANGED <<current, stored>>
  BY DEF heartbeatDenied
<1> QED BY <1>1, NothingOK, StepFacts, ChainMoves, BrowserKeeps DEF ManagerInv

LEMMA RefreshStep ==
  ASSUME ManagerInv, NEW c \in Chains, refreshToken(c), current # NULL PROVE ManagerInv'
<1>1. PICK h : h = [at |-> "asked", op |-> "refresh", session |-> current.auth,
                    claimed |-> NULL, secret |-> current.secret, row |-> NULL, result |-> NULL]
  OBVIOUS
<1>2. h = AskedOf(SecretOf(current.auth, current.secret), "refresh")
  BY <1>1, AskedRecord, SecretRecord
<1>3. move(c, h) /\ step(c, "refresh") /\ keepServer /\ UNCHANGED <<current, stored>>
  BY <1>2 DEF refreshToken, ask, AskedOf, SecretOf
<1>4. CallOK(h, nonces, sessions) /\ ChainOK("refresh", h, sessions)
  BY <1>1, FreshCall, SessionFacts DEF ManagerInv, ChainOK
<1> QED BY <1>3, <1>4, StepFacts, ChainMoves, BrowserKeeps DEF ManagerInv

LEMMA UpdateTokensStep ==
  ASSUME ManagerInv, NEW c \in Chains, updateSessionTokens(c) PROVE ManagerInv'
<1>1. TablesOK' /\ CallsOK' /\ Grows /\ sessions' = sessions
  BY BackStep DEF updateSessionTokens, keepServer
<1>2. CASE current = NULL
  BY <1>1, <1>2 DEF updateSessionTokens, ManagerInv, BrowserOK, SessionOK, StorageIsCurrent
<1>3. CASE current # NULL
  <2>1. PICK a, k : a = calls[c].session /\ k = calls[c].secret
    OBVIOUS
  <2>2. a \in DOMAIN sessions /\ k \in Nat
    BY <2>1, ChainFacts DEF updateSessionTokens, answered, ok, ChainOK, CallOK
  <2>3. a \in Nat
    BY <2>2 DEF ManagerInv, TablesOK
  <2>4. current' = [current EXCEPT !.auth = a, !.secret = k] /\ stored' = current'
    BY <1>3, <2>1 DEF updateSessionTokens
  <2>5. current' \in Session /\ current'.auth = a
    BY <1>3, <2>2, <2>3, <2>4, SessionFacts DEF Session
  <2>6. BrowserOK'
    BY <1>1, <2>2, <2>4, <2>5, NullFacts DEF ManagerInv, BrowserOK, SessionOK, StorageIsCurrent
  <2> QED BY <1>1, <2>6 DEF ManagerInv
<1> QED BY <1>2, <1>3

LEMMA ActiveTimeStep ==
  ASSUME ManagerInv, updateLastActiveTime PROVE ManagerInv'
<1>1. TablesOK' /\ Grows /\ nonces' = nonces /\ sessions' = sessions
  BY SameTables DEF ManagerInv, updateLastActiveTime, serverVars
<1>2. CallsOK'
  BY <1>1 DEF updateLastActiveTime, serverVars, ManagerInv, CallsOK
<1> QED BY <1>1, <1>2 DEF updateLastActiveTime, ManagerInv, BrowserOK, SessionOK, StorageIsCurrent

LEMMA ReloadStep ==
  ASSUME ManagerInv, reload PROVE ManagerInv'
<1>1. TablesOK' /\ Grows /\ nonces' = nonces /\ sessions' = sessions
  BY SameTables DEF ManagerInv, reload, keepServer
<1>2. CallsOK'
  BY <1>1, NothingOK, NullFacts DEF reload, ManagerInv, CallsOK
<1>3. BrowserOK'
  BY <1>1 DEF reload, ManagerInv, BrowserOK, SessionOK, StorageIsCurrent
<1> QED BY <1>1, <1>2, <1>3 DEF ManagerInv

LEMMA OtherStep ==
  ASSUME ManagerInv, NEW c \in Others, otherCall(c) PROVE ManagerInv'
<1>1. /\ TablesOK' /\ Grows /\ nonces' = nonces /\ sessions' = sessions
      /\ chains' = chains /\ UNCHANGED <<current, stored>>
  BY SameTables DEF ManagerInv, otherCall, keepServer
<1>2. PICK o, s, m, h :
        /\ o \in {"authenticate", "heartbeat", "end"} /\ s \in {NULL} \cup DOMAIN sessions
        /\ m \in Nat
        /\ o = "authenticate" => m \in DOMAIN nonces
        /\ h = [at |-> "asked", op |-> o, session |-> s, claimed |-> m, secret |-> NULL,
                row |-> NULL, result |-> NULL]
        /\ move(c, h)
  <2>1. DOMAIN sessions \subseteq Nat /\ DOMAIN nonces \subseteq Nat
    BY DEF ManagerInv, TablesOK
  <2>2. CASE \E s \in DOMAIN sessions, op \in {"heartbeat", "end"} :
               ask(c, op, [NoCall EXCEPT !.session = s, !.claimed = s])
    <3>1. PICK s \in DOMAIN sessions, op \in {"heartbeat", "end"} :
            ask(c, op, [NoCall EXCEPT !.session = s, !.claimed = s])
      BY <2>2
    <3>2. PICK h : h = [at |-> "asked", op |-> op, session |-> s, claimed |-> s, secret |-> NULL,
                        row |-> NULL, result |-> NULL]
      OBVIOUS
    <3>3. h = AskedOf(ClaimedOf(s, s), op)
      BY <3>2, AskedRecord, ClaimedRecord
    <3>4. move(c, h)
      BY <3>1, <3>3 DEF ask, AskedOf, ClaimedOf
    <3> QED BY <2>1, <3>2, <3>4
  <2>3. CASE \E n \in DOMAIN nonces : ask(c, "authenticate", [NoCall EXCEPT !.claimed = n])
    <3>1. PICK n \in DOMAIN nonces : ask(c, "authenticate", [NoCall EXCEPT !.claimed = n])
      BY <2>3
    <3>2. PICK h : h = [at |-> "asked", op |-> "authenticate", session |-> NULL, claimed |-> n,
                        secret |-> NULL, row |-> NULL, result |-> NULL]
      OBVIOUS
    <3>3. PICK x : x = [NoCall EXCEPT !.claimed = n]
      OBVIOUS
    <3>4. x = [at |-> "none", op |-> NULL, session |-> NULL, claimed |-> n, secret |-> NULL,
               row |-> NULL, result |-> NULL]
      BY <3>3 DEF NoCall
    <3>5. h = AskedOf(x, "authenticate")
      BY <3>2, <3>4, AskedRecord
    <3>6. move(c, h)
      BY <3>1, <3>3, <3>5 DEF ask, AskedOf
    <3> QED BY <2>1, <3>2, <3>6
  <2> QED BY <2>2, <2>3 DEF otherCall
<1>3. CallOK(h, nonces, sessions)
  BY <1>2, FreshCall DEF ManagerInv
<1>4. c \in Callers /\ c \notin Chains
  BY NullFacts, Web3Assumption
<1>5. CallsOK'
  BY <1>1, <1>2, <1>3, <1>4, CallMoves DEF ManagerInv, move, CallsOK
<1> QED BY <1>1, <1>5, BrowserKeeps DEF ManagerInv

-----------------------------------------------------------------------------
LEMMA ManagerInductive == ManagerInv /\ [ManagerNext]_managerVars => ManagerInv'
<1> SUFFICES ASSUME ManagerInv, [ManagerNext]_managerVars PROVE ManagerInv'
  OBVIOUS
<1>1. CASE UNCHANGED managerVars
  BY <1>1 DEF managerVars, serverVars, clientVars, ManagerInv, TablesOK, NonceUsedOnce, CallsOK,
              BrowserOK, SessionOK, StorageIsCurrent
<1>2. ASSUME NEW c \in Chains, login(c) \/ logout(c) \/ tick(c) \/ ChainStep(c) PROVE ManagerInv'
  BY <1>2, LoginStep, EndsStep, TickStep, SignStep, AuthenticatedStep, CreateStep, SessionEndedStep,
     HeartbeatStep, HeartbeatDoneStep, DeniedStep, RefreshStep, UpdateTokensStep DEF ChainStep
<1>3. CASE ServerNext /\ UNCHANGED clientVars
  BY <1>3, ServerStep
<1> QED BY <1>1, <1>2, <1>3, ActiveTimeStep, ReloadStep, OtherStep DEF ManagerNext

LEMMA ManagerAlways == ManagerSpec => []ManagerInv
<1>1. ManagerInit => ManagerInv
  <2> SUFFICES ASSUME ManagerInit PROVE ManagerInv
    OBVIOUS
  <2>1. nonces = <<>> /\ sessions = <<>> /\ secrets = 0
    BY DEF ManagerInit, ServerInit
  <2>2. TablesOK
    BY <2>1 DEF TablesOK, NonceUsedOnce
  <2>3. CallsOK
    BY NothingOK, NullFacts DEF ManagerInit, ServerInit, CallsOK
  <2>4. BrowserOK
    BY DEF ManagerInit, BrowserOK, SessionOK, StorageIsCurrent
  <2> QED BY <2>2, <2>3, <2>4 DEF ManagerInv
<1> QED BY <1>1, ManagerInductive, PTL DEF ManagerSpec

\* A challenge's nonce opens one session at most, however many calls repeat it and
\* however late they are answered: authenticateUser and challengeMap.
THEOREM NoncesUsedOnce == ManagerSpec => []NonceUsedOnce
<1>1. ManagerInv => NonceUsedOnce
  BY DEF ManagerInv, TablesOK
<1> QED BY <1>1, ManagerAlways, PTL

\* localStorage holds the current session with its latest tokens, whichever logins,
\* heartbeats, refreshes, logouts and reloads have crossed: session-manager.ts.
THEOREM StorageAlwaysCurrent == ManagerSpec => []StorageIsCurrent
<1>1. ManagerInv => StorageIsCurrent
  BY DEF ManagerInv, BrowserOK
<1> QED BY <1>1, ManagerAlways, PTL
=============================================================================
