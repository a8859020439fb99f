---------------------------- MODULE SessionManager ----------------------------
(***************************************************************************)
(* The browser's session manager (frontend/src/utils/session-manager.ts)   *)
(* and the login hook (hooks/auth/useWeb3Auth.ts) against the server.      *)
(* Every login, heartbeat tick, refresh and logout is a chain of awaits;   *)
(* chains share currentSession, localStorage and the timer.  One tab.      *)
(***************************************************************************)
EXTENDS Web3AuthService

CONSTANTS
  Chains,        \* chains of the browser that may be under way together
  MaxLogins, MaxTicks, MaxReloads, MaxOthers  \* bounds

ASSUME ManagerAssumption ==
  /\ Chains = Callers \ Others
  /\ NULL \notin [id : Nat, active : BOOLEAN, auth : Nat, secret : Nat]
  /\ MaxLogins \in Nat /\ MaxTicks \in Nat
  /\ MaxReloads \in Nat /\ MaxOthers \in Nat

VARIABLES
  current,       \* currentSession: [id, active, auth, secret], or NULL
  stored,        \* localStorage 'userSession'
  timer,         \* the heartbeat interval runs
  chains,        \* chain |-> its step
  logins, ticks, reloads, others  \* counters for the bounds

clientVars == <<current, stored, timer, chains, logins, ticks, reloads, others>>
managerVars == <<serverVars, clientVars>>
bounds == <<logins, ticks, reloads, others>>

\* createNewSession names the session with a UUID of its own, which is no server's id.
OwnId == 0

step(c, s) == chains' = [chains EXCEPT ![c] = s]
back(c) == /\ step(c, "idle") /\ move(c, NoCall)
ask(c, op, h) == move(c, [h EXCEPT !.at = "asked", !.op = op])
answered(c, s) == chains[c] = s /\ calls[c].at = "answered"
ok(c) == calls[c].result = "ok"
endCall == [NoCall EXCEPT !.at = "asked", !.op = "end",
                          !.session = current.auth, !.claimed = current.id]
keepServer == UNCHANGED <<nonces, sessions, secrets, lost>>

ManagerInit ==
  /\ ServerInit
  /\ current = NULL /\ stored = NULL /\ timer = FALSE
  /\ chains = [c \in Chains |-> "idle"]
  /\ logins = 0 /\ ticks = 0 /\ reloads = 0 /\ others = 0

-----------------------------------------------------------------------------
(* Login                                                                   *)

login(c) ==
  /\ chains[c] = "idle" /\ logins < MaxLogins /\ logins' = logins + 1
  /\ step(c, "challenge") /\ ask(c, "challenge", NoCall)
  /\ keepServer /\ UNCHANGED <<current, stored, timer, ticks, reloads, others>>

\* The wallet signs, or the user declines.
sign(c) ==
  /\ answered(c, "challenge")
  /\ \/ ok(c) /\ step(c, "authenticate") /\ ask(c, "authenticate", calls[c])
     \/ back(c)
  /\ keepServer /\ UNCHANGED <<current, stored, timer, bounds>>

\* createNewSession awaits fingerprint and location before it sets the session.
authenticated(c) ==
  /\ answered(c, "authenticate")
  /\ IF ok(c) THEN step(c, "create") /\ UNCHANGED calls ELSE back(c)
  /\ keepServer /\ UNCHANGED <<current, stored, timer, bounds>>

createNewSession(c) ==
  /\ chains[c] = "create"
  /\ current' = [id |-> OwnId, active |-> TRUE,
                 auth |-> calls[c].session, secret |-> calls[c].secret]
  /\ stored' = current' /\ timer' = TRUE
  /\ back(c)
  /\ keepServer /\ UNCHANGED bounds

-----------------------------------------------------------------------------
(* Logout                                                                  *)

\* endSession up to its await: the timer is cleared, and the session, if there is
\* one at the server.  E is the set of chains that carry an end.
endNow(E) ==
  /\ timer' = FALSE
  /\ IF current = NULL
     THEN /\ UNCHANGED current
          /\ chains' = [c \in Chains |-> IF c \in E THEN "idle" ELSE chains[c]]
          /\ calls' = [c \in Callers |-> IF c \in E THEN NoCall ELSE calls[c]]
     ELSE /\ current' = [current EXCEPT !.active = FALSE]
          /\ chains' = [c \in Chains |-> IF c \in E THEN "end" ELSE chains[c]]
          /\ calls' = [c \in Callers |-> IF c \in E THEN endCall ELSE calls[c]]
  /\ UNCHANGED stored

logout(c) ==
  /\ chains[c] = "idle" /\ current # NULL
  /\ endNow({c})
  /\ keepServer /\ UNCHANGED bounds

sessionEnded_OnlyOnSuccess(c) ==
  /\ answered(c, "end")
  /\ IF ok(c) THEN stored' = NULL /\ current' = NULL ELSE UNCHANGED <<stored, current>>
  /\ back(c)
  /\ keepServer /\ UNCHANGED <<timer, bounds>>

sessionEnded_KeepsStorage(c) ==
  /\ answered(c, "end")
  /\ current' = NULL
  /\ back(c)
  /\ keepServer /\ UNCHANGED <<stored, timer, bounds>>

\* Whatever the server answers, and whatever session is current by now.
sessionEnded(c) ==
  /\ answered(c, "end")
  /\ stored' = NULL /\ current' = NULL
  /\ back(c)
  /\ keepServer /\ UNCHANGED <<timer, bounds>>

-----------------------------------------------------------------------------
(* Heartbeat and refresh                                                   *)

tick(c) ==
  /\ chains[c] = "idle" /\ timer /\ ticks < MaxTicks /\ ticks' = ticks + 1
  /\ current # NULL /\ current.active
  /\ step(c, "tick")
  /\ keepServer /\ UNCHANGED <<calls, current, stored, timer, logins, reloads, others>>

\* After the location is known; a session that is gone is an error that is logged.
heartbeat(c) ==
  /\ chains[c] = "tick"
  /\ IF current = NULL THEN back(c)
     ELSE /\ step(c, "heartbeat")
          /\ ask(c, "heartbeat", [NoCall EXCEPT !.session = current.auth, !.claimed = current.id])
  /\ keepServer /\ UNCHANGED <<current, stored, timer, bounds>>

heartbeatDone(c) ==
  /\ answered(c, "heartbeat") /\ calls[c].result # "denied"
  /\ stored' = IF ok(c) /\ current # NULL THEN current ELSE stored
  /\ back(c)
  /\ keepServer /\ UNCHANGED <<current, timer, bounds>>

\* 401: refresh, from fingerprint and location on; without a refresh token, end.
heartbeatDenied(c) ==
  /\ answered(c, "heartbeat") /\ calls[c].result = "denied"
  /\ IF current = NULL
     THEN endNow({c})
     ELSE /\ step(c, "locate") /\ move(c, NoCall)
          /\ UNCHANGED <<current, stored, timer>>
  /\ keepServer /\ UNCHANGED bounds

refreshToken(c) ==
  /\ chains[c] = "locate"
  /\ IF current = NULL
     THEN endNow({c})
     ELSE /\ step(c, "refresh")
          /\ ask(c, "refresh", [NoCall EXCEPT !.session = current.auth, !.secret = current.secret])
          /\ UNCHANGED <<current, stored, timer>>
  /\ keepServer /\ UNCHANGED bounds

updateSessionTokens(c) ==
  /\ answered(c, "refresh") /\ ok(c)
  /\ current' = IF current = NULL THEN NULL
                ELSE [current EXCEPT !.auth = calls[c].session, !.secret = calls[c].secret]
  /\ stored' = IF current = NULL THEN stored ELSE current'
  /\ back(c)
  /\ keepServer /\ UNCHANGED <<timer, bounds>>

\* A failed refresh ends the session, and so does the heartbeat that asked for it:
\* two ends run side by side when another chain is free to carry the second.
refreshFails(c) ==
  /\ answered(c, "refresh") /\ ~ok(c)
  /\ LET free == {d \in Chains : chains[d] = "idle"} IN
     \E d \in IF free = {} THEN {c} ELSE free : endNow({c, d})
  /\ keepServer /\ UNCHANGED bounds

\* The window gains or loses focus.
updateLastActiveTime ==
  /\ current # NULL /\ stored # current
  /\ stored' = current
  /\ UNCHANGED <<serverVars, current, timer, chains, bounds>>

\* The page is loaded again: what is stored is the session, chains are gone.
reload ==
  /\ reloads < MaxReloads /\ lost < MaxLost /\ reloads' = reloads + 1
  /\ \A c \in Chains : calls[c].at \in {"none", "answered"}
  /\ current' = stored /\ timer' = (stored # NULL)
  /\ chains' = [c \in Chains |-> "idle"]
  /\ calls' = [c \in Callers |-> IF c \in Chains THEN NoCall ELSE calls[c]]
  /\ keepServer /\ UNCHANGED <<stored, logins, ticks, others>>

\* Another client of the API ends a session or keeps it alive, by its right id, or
\* repeats an authentication whose answer it has not seen.
otherCall(c) ==
  /\ calls[c].at = "none" /\ others < MaxOthers /\ lost = 0 /\ others' = others + 1
  /\ \/ \E s \in DOMAIN sessions, op \in {"heartbeat", "end"} :
          ask(c, op, [NoCall EXCEPT !.session = s, !.claimed = s])
     \/ \E n \in DOMAIN nonces : ask(c, "authenticate", [NoCall EXCEPT !.claimed = n])
  /\ keepServer
  /\ UNCHANGED <<current, stored, timer, chains, logins, ticks, reloads>>

ChainStep(c) ==
  \/ sign(c) \/ authenticated(c) \/ createNewSession(c) \/ sessionEnded(c)
  \/ heartbeat(c) \/ heartbeatDone(c) \/ heartbeatDenied(c)
  \/ refreshToken(c) \/ updateSessionTokens(c) \/ refreshFails(c)

ManagerNext ==
  \/ \E c \in Chains : login(c) \/ logout(c) \/ tick(c) \/ ChainStep(c)
  \/ updateLastActiveTime \/ reload
  \/ \E c \in Others : otherCall(c)
  \/ ServerNext /\ UNCHANGED clientVars

\* Handlers run to their answer, and a chain goes on when its await is over.
ManagerFairness ==
  \A c \in Chains :
    WF_managerVars(ChainStep(c)) /\ WF_managerVars(Handler(c) /\ UNCHANGED clientVars)

ManagerSpec == ManagerInit /\ [][ManagerNext]_managerVars /\ ManagerFairness

-----------------------------------------------------------------------------
(* Properties *)

\* A reload resumes what the tab was doing: localStorage holds the current session,
\* with its latest tokens, exactly when there is one, whichever chains crossed.
StorageIsCurrent ==
  /\ stored = NULL <=> current = NULL
  /\ current # NULL =>
       stored.auth = current.auth /\ stored.secret = current.secret

\* A logout comes to its end: whatever the server answers, the session is gone from
\* the tab, or the user has logged in again, or has loaded the page anew.
LogoutCompletes ==
  (\E c \in Chains : chains[c] = "end")
    ~> (current = NULL \/ current.active \/ reloads > 0)
=============================================================================
