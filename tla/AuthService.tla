----------------------------- MODULE AuthService -----------------------------
(***************************************************************************)
(* Accounts, wallet login, refresh tokens and password reset of the        *)
(* backend (auth/auth.service.ts, auth/services/wallet-transaction.        *)
(* service.ts).  A request is cut where its handler awaits the database    *)
(* and what it read before may have changed.  Repository.save writes a     *)
(* whole snapshot back; what a transaction has written is seen by nobody   *)
(* before it commits, so it is one step.                                   *)
(***************************************************************************)
EXTENDS Naturals, FiniteSets, Functions

CONSTANTS
  Requests,      \* HTTP requests that may be in flight together
  Emails,
  Addresses,     \* wallet addresses, in lower case
  NULL,
  MaxCalls,      \* bound: requests in all
  MaxFaults,     \* bound: refused writes and restarts
  MaxExpired     \* bound: secrets whose time runs out

ASSUME AuthAssumption ==
  /\ MaxCalls \in Nat /\ MaxFaults \in Nat /\ MaxExpired \in Nat
  /\ NULL \notin Emails \cup Addresses \cup Nat

VARIABLES
  users,         \* table: id |-> [address, verified, vtoken, reset]
  profiles,      \* table: user id |-> [email, password]
  wallets,       \* table: rows [address, user]
  tokens,        \* table of refresh tokens: rows [secret, user]
  expired,       \* the secrets whose expiry date has passed
  supply,        \* ids and secrets handed out so far
  requests,      \* what each request has in hand
  cutOff,        \* history: users whose registration did not come to its end
  calls, faults  \* counters for the bounds

tables == <<users, profiles, wallets, tokens>>
authVars == <<tables, expired, supply, requests, cutOff, calls, faults>>

Idle == [step |-> "idle", user |-> NULL, row |-> NULL, secret |-> NULL,
         email |-> NULL, address |-> NULL]

\* "create" and "profile" and "undo" are the registration's, "issue" its end and login's.
Steps == {"idle", "create", "profile", "undo", "issue", "wallet", "commit", "doomed",
          "findOrCreate", "save", "password", "renew", "drop"}

NewUser(address, verified) ==
  [address |-> address, verified |-> verified, vtoken |-> NULL, reset |-> NULL]
Rows == [address : Addresses \cup {NULL}, verified : BOOLEAN,
         vtoken : 1..supply \cup {NULL}, reset : 1..supply \cup {NULL}]

profileOf(email) == [email |-> email, password |-> 0]

Taken(email) == email # NULL /\ \E u \in DOMAIN profiles : profiles[u].email = email
\* The users that findByEmail leads to, by way of their profile.
Reachable == {u \in DOMAIN profiles : profiles[u].email # NULL}
fresh == supply + 1
tokenFor(u) == [secret |-> fresh, user |-> u]

inserted(table, id, row) ==
  [i \in DOMAIN table \cup {id} |-> IF i = id THEN row ELSE table[i]]

hold(r, h) == requests' = [requests EXCEPT ![r] = h]
finish(r) == hold(r, Idle)
begin(r, h) ==
  /\ requests[r] = Idle /\ calls < MaxCalls
  /\ calls' = calls + 1
  /\ hold(r, h)
  /\ UNCHANGED <<tables, expired, supply, cutOff, faults>>

AuthInit ==
  /\ users = <<>> /\ profiles = <<>> /\ wallets = {} /\ tokens = {}
  /\ expired = {} /\ supply = 0 /\ cutOff = {}
  /\ requests = [r \in Requests |-> Idle]
  /\ calls = 0 /\ faults = 0

-----------------------------------------------------------------------------
(* Registration: user, then profile, then tokens; no transaction.          *)

register(r, e) ==
  /\ ~Taken(e)
  /\ begin(r, [Idle EXCEPT !.step = "create", !.email = e])

createUser(r) ==
  /\ requests[r].step = "create"
  /\ users' = inserted(users, fresh, NewUser(NULL, FALSE))
  /\ supply' = fresh
  /\ hold(r, [requests[r] EXCEPT !.step = "profile", !.user = fresh])
  /\ UNCHANGED <<profiles, wallets, tokens, expired, cutOff, calls, faults>>

createProfile(r) ==
  /\ requests[r].step = "profile" /\ ~Taken(requests[r].email)
  /\ profiles' = inserted(profiles, requests[r].user, profileOf(requests[r].email))
  /\ hold(r, [Idle EXCEPT !.step = "issue", !.user = requests[r].user])
  /\ UNCHANGED <<users, wallets, tokens, expired, supply, cutOff, calls, faults>>

profileFails_KeepsUser(r) ==
  /\ requests[r].step = "profile"
  /\ \/ Taken(requests[r].email) /\ UNCHANGED faults
     \/ faults < MaxFaults /\ faults' = faults + 1
  /\ finish(r)
  /\ UNCHANGED <<tables, expired, supply, cutOff, calls>>

\* A profile that is refused takes its user with it.
profileFails(r) ==
  /\ requests[r].step = "profile"
  /\ \/ Taken(requests[r].email) /\ UNCHANGED faults
     \/ faults < MaxFaults /\ faults' = faults + 1
  /\ hold(r, [requests[r] EXCEPT !.step = "undo"])
  /\ UNCHANGED <<tables, expired, supply, cutOff, calls>>

deleteUser(r) ==
  /\ requests[r].step = "undo"
  /\ users' = Restrict(users, DOMAIN users \ {requests[r].user})
  /\ finish(r)
  /\ UNCHANGED <<profiles, wallets, tokens, expired, supply, cutOff, calls, faults>>

\* An unknown referral code is refused here, after account and tokens are made.
issueTokens(r) ==
  /\ requests[r].step = "issue"
  /\ tokens' = tokens \cup {tokenFor(requests[r].user)}
  /\ supply' = fresh
  /\ finish(r)
  /\ UNCHANGED <<users, profiles, wallets, expired, cutOff, calls, faults>>

(* Login by e-mail; the device checks are logged, never refused.            *)
login(r, u) ==
  /\ u \in Reachable /\ users[u].verified
  /\ begin(r, [Idle EXCEPT !.step = "issue", !.user = u])

-----------------------------------------------------------------------------
(* Login by wallet: one database transaction.                              *)

OwnersOf(a) == {u \in DOMAIN users : users[u].address = a}
WalletOwners(a) == {w.user : w \in {v \in wallets : v.address = a}}
\* The user found: by the address on the user, else by a wallet row, else none.
FoundUsers(a) ==
  IF OwnersOf(a) # {} THEN OwnersOf(a)
  ELSE IF WalletOwners(a) # {} THEN WalletOwners(a) ELSE {NULL}

walletLogin(r, a, e) ==
  \E u \in FoundUsers(a) :
    begin(r, [Idle EXCEPT !.step = "wallet", !.user = u, !.address = a, !.email = e])

\* The missing profile of a known user is created outside the transaction.
needsProfile(h) ==
  h.user # NULL /\ h.email # NULL /\ h.user \notin DOMAIN profiles

walletProfile(r) ==
  /\ requests[r].step = "wallet" /\ needsProfile(requests[r])
  /\ \/ /\ ~Taken(requests[r].email)
        /\ profiles' = inserted(profiles, requests[r].user, profileOf(requests[r].email))
     \/ Taken(requests[r].email) /\ UNCHANGED profiles
  /\ hold(r, [requests[r] EXCEPT !.email = NULL])
  /\ UNCHANGED <<users, wallets, tokens, expired, supply, cutOff, calls, faults>>

\* User, wallet, device, token and session rows are written in the transaction.
\* A write that fails and is only logged (profile, device, session) leaves the
\* transaction doomed: later statements fail, and its commit keeps nothing.
walletWork(r) ==
  /\ requests[r].step = "wallet" /\ ~needsProfile(requests[r])
  /\ \/ hold(r, [requests[r] EXCEPT !.step = "commit"]) /\ UNCHANGED faults
     \/ faults < MaxFaults /\ faults' = faults + 1 /\ hold(r, [requests[r] EXCEPT !.step = "doomed"])
     \/ finish(r) /\ UNCHANGED faults
  /\ UNCHANGED <<tables, expired, supply, cutOff, calls>>

\* What the transaction of h writes becomes visible: a new user with wallet and
\* perhaps a profile, or the missing wallet row of a known one.
landed(h, addressOnUser, withProfile) ==
  LET u == IF h.user = NULL THEN fresh ELSE h.user IN
  /\ h.user = NULL => ~Taken(h.email)
  /\ users' = IF h.user = NULL THEN inserted(users, u, NewUser(addressOnUser, TRUE)) ELSE users
  /\ profiles' = IF h.user = NULL /\ withProfile THEN inserted(profiles, u, profileOf(h.email))
                 ELSE profiles
  /\ wallets' = wallets \cup {[address |-> h.address, user |-> u]}

commitTransaction(r) ==
  LET h == requests[r]
      u == IF h.user = NULL THEN fresh ELSE h.user IN
  /\ h.step = "commit"
  /\ landed(h, h.address, h.email # NULL)
  /\ tokens' = tokens \cup {tokenFor(u)}
  /\ supply' = fresh
  /\ finish(r)
  /\ UNCHANGED <<expired, cutOff, calls, faults>>

\* An e-mail taken meanwhile makes the profile's insert fail, and with it the
\* transaction; of a doomed one the commit keeps nothing and does not say so.
commitKeepsNothing(r) ==
  LET h == requests[r] IN
  /\ \/ h.step = "commit" /\ h.user = NULL /\ Taken(h.email)
     \/ h.step = "doomed"
  /\ finish(r)
  /\ UNCHANGED <<tables, expired, supply, cutOff, calls, faults>>

(* The other way in: user, wallet and profile in one transaction.          *)
findOrCreateUserByWalletAddress(r, a, e) ==
  /\ WalletOwners(a) = {}
  /\ begin(r, [Idle EXCEPT !.step = "findOrCreate", !.address = a, !.email = e])

createUserWithWallet(r) ==
  /\ requests[r].step = "findOrCreate"
  /\ \/ landed(requests[r], NULL, TRUE) /\ supply' = fresh
     \/ UNCHANGED <<users, profiles, wallets, supply>>
  /\ finish(r)
  /\ UNCHANGED <<tokens, expired, cutOff, calls, faults>>

-----------------------------------------------------------------------------
(* Password reset and e-mail verification: read the user, save it later.   *)

saveLater(r, u, row) ==
  begin(r, [Idle EXCEPT !.step = "save", !.user = u, !.row = row])

forgotPassword(r, u) ==
  /\ u \in Reachable
  /\ requests[r] = Idle /\ calls < MaxCalls
  /\ calls' = calls + 1 /\ supply' = fresh
  /\ hold(r, [Idle EXCEPT !.step = "save", !.user = u, !.row = [users[u] EXCEPT !.reset = fresh]])
  /\ UNCHANGED <<tables, expired, cutOff, faults>>

resendVerification(r, u) ==
  /\ u \in Reachable /\ ~users[u].verified
  /\ requests[r] = Idle /\ calls < MaxCalls
  /\ calls' = calls + 1 /\ supply' = fresh
  /\ hold(r, [Idle EXCEPT !.step = "save", !.user = u, !.row = [users[u] EXCEPT !.vtoken = fresh]])
  /\ UNCHANGED <<tables, expired, cutOff, faults>>

verifyEmail(r, u) ==
  /\ u \in DOMAIN users /\ users[u].vtoken # NULL
  /\ saveLater(r, u, [users[u] EXCEPT !.verified = TRUE, !.vtoken = NULL])

\* Any user with a live reset token is compared, not the one the token is of.
resetPassword(r, u) ==
  /\ u \in DOMAIN users /\ users[u].reset \notin expired \cup {NULL}
  /\ begin(r, [Idle EXCEPT !.step = "password", !.user = u, !.row = users[u]])

newPassword(r) ==
  LET h == requests[r] IN
  /\ h.step = "password" /\ h.user \in DOMAIN profiles
  /\ profiles' = [profiles EXCEPT ![h.user].password = h.row.reset]
  /\ hold(r, [h EXCEPT !.step = "save", !.row = [h.row EXCEPT !.reset = NULL]])
  /\ UNCHANGED <<users, wallets, tokens, expired, supply, cutOff, calls, faults>>

save(r) ==
  /\ requests[r].step = "save"
  /\ users' = [users EXCEPT ![requests[r].user] = requests[r].row]
  /\ finish(r)
  /\ UNCHANGED <<profiles, wallets, tokens, expired, supply, cutOff, calls, faults>>

-----------------------------------------------------------------------------
(* Refresh: find the token, create its successor, delete it.               *)

refreshToken(r, t) ==
  /\ t \in tokens /\ t.secret \notin expired
  /\ begin(r, [Idle EXCEPT !.step = "renew", !.user = t.user, !.secret = t.secret])

createRefreshToken_OldFirst(r) ==
  /\ requests[r].step = "renew"
  /\ tokens' = {t \in tokens : t.secret # requests[r].secret}
  /\ hold(r, [requests[r] EXCEPT !.step = "issue"])
  /\ UNCHANGED <<users, profiles, wallets, expired, supply, cutOff, calls, faults>>

createRefreshToken(r) ==
  /\ requests[r].step = "renew"
  /\ tokens' = tokens \cup {tokenFor(requests[r].user)}
  /\ supply' = fresh
  /\ hold(r, [requests[r] EXCEPT !.step = "drop"])
  /\ UNCHANGED <<users, profiles, wallets, expired, cutOff, calls, faults>>

deleteOldToken(r) ==
  /\ requests[r].step = "drop"
  /\ tokens' = {t \in tokens : t.secret # requests[r].secret}
  /\ finish(r)
  /\ UNCHANGED <<users, profiles, wallets, expired, supply, cutOff, calls, faults>>

-----------------------------------------------------------------------------
(* Time, refused writes, restarts.                                         *)

expire(s) ==
  /\ s \notin expired /\ Cardinality(expired) < MaxExpired
  /\ expired' = expired \cup {s}
  /\ UNCHANGED <<tables, supply, requests, cutOff, calls, faults>>

unfinished(r) ==
  IF requests[r].step \in {"profile", "undo"} THEN {requests[r].user} ELSE {}

\* A refused write ends its request; only the profile's has a handler of its own.
writeFails(r) ==
  /\ requests[r].step \in {"create", "undo", "issue", "save", "password", "renew", "drop"}
  /\ faults < MaxFaults /\ faults' = faults + 1
  /\ cutOff' = cutOff \cup unfinished(r)
  /\ finish(r)
  /\ UNCHANGED <<tables, expired, supply, calls>>

crash ==
  /\ faults < MaxFaults /\ faults' = faults + 1
  /\ \E r \in Requests : requests[r] # Idle
  /\ cutOff' = cutOff \cup UNION {unfinished(r) : r \in Requests}
  /\ requests' = [r \in Requests |-> Idle]
  /\ UNCHANGED <<tables, expired, supply, calls>>

Registration(r) ==
  \/ \E e \in Emails : register(r, e)
  \/ createUser(r) \/ createProfile(r) \/ profileFails(r) \/ deleteUser(r) \/ issueTokens(r)
WalletStep(r) ==
  \/ \E a \in Addresses, e \in Emails \cup {NULL} :
       walletLogin(r, a, e) \/ findOrCreateUserByWalletAddress(r, a, e)
  \/ walletProfile(r) \/ walletWork(r) \/ commitTransaction(r) \/ commitKeepsNothing(r)
  \/ createUserWithWallet(r)
AccountStep(r) ==
  \/ \E u \in DOMAIN users :
       login(r, u) \/ forgotPassword(r, u) \/ resendVerification(r, u)
         \/ verifyEmail(r, u) \/ resetPassword(r, u)
  \/ newPassword(r) \/ save(r)
RefreshStep(r) ==
  \/ \E t \in tokens : refreshToken(r, t)
  \/ createRefreshToken(r) \/ deleteOldToken(r)

AuthNext ==
  \/ \E r \in Requests : Registration(r) \/ WalletStep(r) \/ AccountStep(r) \/ RefreshStep(r)
                           \/ writeFails(r)
  \/ \E s \in 1..supply : expire(s)
  \/ crash

AuthSpec == AuthInit /\ [][AuthNext]_authVars

-----------------------------------------------------------------------------
(* Properties *)

\* Types of the tables and of what requests have in hand.
AuthTypeOK ==
  /\ DOMAIN users \subseteq 1..supply /\ \A u \in DOMAIN users : users[u] \in Rows
  /\ \A u \in DOMAIN profiles : profiles[u] \in [email : Emails \cup {NULL}, password : 0..supply]
  /\ wallets \subseteq [address : Addresses, user : 1..supply]
  /\ tokens \subseteq [secret : 1..supply, user : 1..supply]
  /\ \A r \in Requests : requests[r].step \in Steps
  /\ expired \subseteq 1..supply /\ supply \in Nat

\* No row is left without its user: profiles, wallets and refresh tokens belong to a
\* user that exists, although a registration deletes its user again, a wallet login
\* may be rolled back half way, and other requests run meanwhile.
RowsHaveOwners ==
  /\ DOMAIN profiles \subseteq DOMAIN users
  /\ {w.user : w \in wallets} \subseteq DOMAIN users
  /\ {t.user : t \in tokens} \subseteq DOMAIN users

\* No account is left that nobody can log in to: a user has a profile or a wallet,
\* or its registration is still under way, or was cut off by a restart or by a
\* refused write of the clean-up itself.
AccountsAreWhole ==
  \A u \in DOMAIN users \ cutOff :
    \/ u \in DOMAIN profiles \cup {w.user : w \in wallets}
    \/ \E r \in Requests : u \in unfinished(r)

AccountsHoldTogether == RowsHaveOwners /\ AccountsAreWhole

SignedIn(u) == \E t \in tokens : t.user = u

\* A refresh never signs anyone out: with refreshes of one token overlapping, writes
\* refused and restarts at any point, who has a refresh token keeps one.
RefreshKeepsSignedIn ==
  [][\A u \in DOMAIN users : SignedIn(u) => SignedIn(u)']_authVars
=============================================================================
