--------------------------- MODULE Accounts_proofs ---------------------------
(***************************************************************************)
(* Proofs about accounts, wallet login and refresh tokens (AuthService)    *)
(* and the types of the challenges (WalletChallenges), for any number of   *)
(* requests in flight, of users, e-mails, addresses and tokens, and any    *)
(* number of refused writes and restarts.                                  *)
(***************************************************************************)
EXTENDS AuthService, WalletChallenges, TLAPS

IsRequest(h) ==
  h = [step |-> h.step, user |-> h.user, row |-> h.row, secret |-> h.secret,
       email |-> h.email, address |-> h.address]

\* The users that somebody can log in to.
Rooted == DOMAIN profiles \cup {w.user : w \in wallets}

Beginning(h) == h.step \in {"profile", "undo"}

(* A registration is the only one to know the user it has just made, and    *)
(* nothing leads anyone else to it: no row, no secret, no address.          *)
HeldAlone(r) ==
  LET u == requests[r].user IN
  /\ u \in DOMAIN users \ Rooted
  /\ users[u].address = NULL /\ users[u].vtoken = NULL /\ users[u].reset = NULL
  /\ \A q \in Requests \ {r} : requests[q].user # u

(* What a refresh is about to delete belongs to its user, who then has a    *)
(* younger token: a successor may be gone, but only after a successor of    *)
(* its own was made.                                                        *)
RefreshOK(h) ==
  /\ h.step \in {"renew", "drop"} =>
       /\ h.secret \in 1..supply /\ h.user # NULL
       /\ \A t \in tokens : t.secret = h.secret => t.user = h.user
  /\ h.step = "drop" =>
       \E t \in tokens : t.user = h.user /\ t.secret > h.secret

RequestOK(r) ==
  /\ IsRequest(requests[r]) /\ RefreshOK(requests[r])
  /\ IF Beginning(requests[r]) THEN HeldAlone(r)
     ELSE requests[r].user \in Rooted \cup {NULL}
  /\ requests[r].step \in {"issue", "save", "password"} => requests[r].user # NULL

AccountsInv ==
  /\ supply \in Nat
  /\ DOMAIN users \subseteq 1..supply /\ Rooted \subseteq DOMAIN users
  /\ \A t \in tokens : t.user \in Rooted /\ t.secret \in 1..supply
  /\ \A t, s \in tokens : t.secret = s.secret => t.user = s.user
  /\ \A u \in DOMAIN users :
       users[u].address # NULL \/ users[u].vtoken # NULL \/ users[u].reset # NULL => u \in Rooted
  /\ \A u \in DOMAIN users : u \in Rooted \cup cutOff \/ \E r \in Requests : u \in unfinished(r)
  /\ requests = [r \in Requests |-> requests[r]]
  /\ \A r \in Requests : RequestOK(r)

LEMMA AccountsInvInit == AuthInit => AccountsInv
  BY AuthAssumption DEF AuthInit, AccountsInv, RequestOK, Rooted, IsRequest, RefreshOK, Beginning, Idle

-----------------------------------------------------------------------------
(* What a step of request r may do to the tables, and what is left of it.   *)

UsersKept(r) ==
  /\ supply' \in Nat /\ supply <= supply'
  /\ DOMAIN users' \subseteq 1..supply' /\ Rooted' \subseteq DOMAIN users' /\ Rooted \subseteq Rooted'
  /\ \A u \in DOMAIN users \ DOMAIN users' : Beginning(requests[r]) /\ u = requests[r].user
  /\ \A u \in DOMAIN users \cap DOMAIN users' : users'[u] = users[u] \/ u \in Rooted'
  /\ \A u \in DOMAIN users' \ DOMAIN users :
       u \in Rooted' \/
         /\ u \in unfinished(r)'
         /\ users'[u].address = NULL /\ users'[u].vtoken = NULL /\ users'[u].reset = NULL
  /\ \A q \in Requests \ {r} : Beginning(requests[q]) => requests[q].user \notin Rooted'

(* A token that goes leaves a younger one of its user.                       *)
TokensKept ==
  /\ \A t \in tokens : t \in tokens' \/ \E s \in tokens' : s.user = t.user /\ s.secret > t.secret
  /\ \A t \in tokens' \ tokens : t.user \in Rooted' /\ t.secret = supply' /\ supply' = supply + 1
  /\ \A t, s \in tokens' \ tokens : t.user = s.user

RequestLeft(r) ==
  /\ requests' = [q \in Requests |-> requests'[q]]
  /\ \A q \in Requests \ {r} : requests'[q] = requests[q]
  /\ RequestOK(r)'
  /\ cutOff \subseteq cutOff'
  /\ unfinished(r) \cap DOMAIN users' \subseteq unfinished(r)' \cup cutOff' \cup Rooted'

LEMMA StepPreserves ==
  ASSUME AccountsInv, NEW r \in Requests, UsersKept(r), TokensKept, RequestLeft(r)
  PROVE  AccountsInv'
<1>1. supply \in Nat /\ supply' \in Nat /\ supply <= supply' /\ 1..supply \subseteq 1..supply'
  BY DEF AccountsInv, UsersKept
<1>2. \A t \in tokens' : t.user \in Rooted' /\ t.secret \in 1..supply'
  BY <1>1 DEF AccountsInv, UsersKept, TokensKept
<1>3. \A t, s \in tokens' : t.secret = s.secret => t.user = s.user
  BY <1>1 DEF AccountsInv, TokensKept
<1>4. ASSUME NEW u \in DOMAIN users',
             users'[u].address # NULL \/ users'[u].vtoken # NULL \/ users'[u].reset # NULL
      PROVE  u \in Rooted'
  BY <1>4 DEF AccountsInv, UsersKept
<1>5. ASSUME NEW u \in DOMAIN users'
      PROVE  u \in Rooted' \cup cutOff' \/ \E q \in Requests : u \in unfinished(q)'
  <2>1. CASE u \notin DOMAIN users
    BY <1>5, <2>1 DEF UsersKept
  <2>2. CASE u \in Rooted \cup cutOff
    BY <2>2 DEF UsersKept, RequestLeft
  <2>3. ASSUME NEW q \in Requests, u \in unfinished(q)
        PROVE  u \in Rooted' \cup cutOff' \/ \E p \in Requests : u \in unfinished(p)'
    <3>1. CASE q = r
      BY <1>5, <2>3, <3>1 DEF RequestLeft
    <3>2. CASE q # r
      <4>1. unfinished(q)' = unfinished(q)
        BY <3>2 DEF RequestLeft, unfinished
      <4> QED BY <2>3, <4>1
    <3> QED BY <3>1, <3>2
  <2> QED BY <2>1, <2>2, <2>3 DEF AccountsInv
<1>6. ASSUME NEW q \in Requests PROVE RequestOK(q)'
  <2>1. CASE q = r
    BY <2>1 DEF RequestLeft
  <2>2. CASE q # r
    <3>1. requests'[q] = requests[q] /\ RequestOK(q)
      BY <2>2 DEF RequestLeft, AccountsInv
    <3>2. RefreshOK(requests[q])'
      <4>1. ASSUME requests[q].step \in {"renew", "drop"}
            PROVE  /\ requests[q].secret \in 1..supply' /\ requests[q].user # NULL
                   /\ \A t \in tokens' : t.secret = requests[q].secret => t.user = requests[q].user
        BY <1>1, <3>1, <4>1 DEF RequestOK, RefreshOK, TokensKept
      <4>2. ASSUME requests[q].step = "drop"
            PROVE  \E t \in tokens' : t.user = requests[q].user /\ t.secret > requests[q].secret
        <5>1. requests[q].secret \in Nat
          BY <1>1, <3>1, <4>2 DEF RequestOK, RefreshOK
        <5>2. PICK t \in tokens : t.user = requests[q].user /\ t.secret > requests[q].secret
          BY <3>1, <4>2 DEF RequestOK, RefreshOK
        <5>3. CASE t \in tokens'
          BY <5>2, <5>3
        <5>4. CASE t \notin tokens'
          <6>1. PICK s \in tokens' : s.user = t.user /\ s.secret > t.secret
            BY <5>4 DEF TokensKept
          <6>2. s.secret \in Nat /\ t.secret \in Nat
            BY <1>1, <1>2 DEF AccountsInv
          <6> QED BY <5>1, <5>2, <6>1, <6>2
        <5> QED BY <5>3, <5>4
      <4> QED BY <3>1, <4>1, <4>2 DEF RefreshOK
    <3>3. CASE Beginning(requests[q])
      <4> DEFINE u == requests[q].user
      <4>1. /\ u \in DOMAIN users \ Rooted
            /\ users[u].address = NULL /\ users[u].vtoken = NULL /\ users[u].reset = NULL
            /\ \A p \in Requests \ {q} : requests[p].user # u
        BY <3>1, <3>3 DEF RequestOK, HeldAlone
      <4>2. u \notin Rooted' /\ u \in DOMAIN users' /\ users'[u] = users[u]
        BY <2>2, <3>3, <4>1 DEF UsersKept
      <4>3. requests'[r].user # u
        <5>1. CASE Beginning(requests'[r])
          BY <2>2, <3>1, <5>1 DEF RequestLeft, RequestOK, HeldAlone, Beginning
        <5>2. CASE ~Beginning(requests'[r])
          <6>1. requests'[r].user \in Rooted' \cup {NULL}
            BY <5>2 DEF RequestLeft, RequestOK, Beginning
          <6>2. u # NULL
            BY <1>1, <4>1, AuthAssumption DEF AccountsInv
          <6> QED BY <4>2, <6>1, <6>2
        <5> QED BY <5>1, <5>2
      <4>4. \A p \in Requests \ {q} : requests'[p].user # u
        BY <4>1, <4>3 DEF RequestLeft
      <4> QED BY <3>1, <3>2, <3>3, <4>1, <4>2, <4>4 DEF RequestOK, HeldAlone, Beginning, IsRequest
    <3>4. CASE ~Beginning(requests[q])
      BY <3>1, <3>2, <3>4 DEF RequestOK, Beginning, IsRequest, UsersKept
    <3> QED BY <3>3, <3>4
  <2> QED BY <2>1, <2>2
<1> QED BY <1>1, <1>2, <1>3, <1>4, <1>5, <1>6 DEF AccountsInv, UsersKept, RequestLeft

-----------------------------------------------------------------------------
(* The steps, by what they write.                                           *)

LEMMA TablesAlone ==
  ASSUME AccountsInv, NEW r \in Requests, UNCHANGED tables, supply' \in {supply, fresh}
  PROVE  UsersKept(r) /\ TokensKept /\ Rooted' = Rooted
<1>1. users' = users /\ profiles' = profiles /\ wallets' = wallets /\ tokens' = tokens
  BY DEF tables
<1>2. Rooted' = Rooted
  BY <1>1 DEF Rooted
<1>3. supply' \in Nat /\ supply <= supply' /\ 1..supply \subseteq 1..supply'
  BY DEF AccountsInv, fresh
<1>4. \A q \in Requests : Beginning(requests[q]) => requests[q].user \notin Rooted
  BY DEF AccountsInv, RequestOK, HeldAlone
<1> QED BY <1>1, <1>2, <1>3, <1>4 DEF AccountsInv, UsersKept, TokensKept

LEMMA HoldIs ==
  ASSUME AccountsInv, NEW r \in Requests, NEW h, hold(r, h)
  PROVE  /\ requests' = [q \in Requests |-> requests'[q]] /\ requests'[r] = h
         /\ \A q \in Requests \ {r} : requests'[q] = requests[q]
  BY DEF AccountsInv, hold

\* A request that ends, or whose next step is about a user with a row.
LEMMA RequestGoesOn ==
  ASSUME AccountsInv, NEW r \in Requests, NEW h, hold(r, h), IsRequest(h),
         h.step \notin {"renew", "drop", "profile", "undo"},
         h.user \in Rooted' \cup {NULL},
         h.step \in {"issue", "save", "password"} => h.user # NULL,
         cutOff \subseteq cutOff', unfinished(r) \cap DOMAIN users' \subseteq cutOff' \cup Rooted'
  PROVE  RequestLeft(r)
<1>1. requests'[r] = h
  BY HoldIs
<1>2. RequestOK(r)'
  BY <1>1 DEF RequestOK, RefreshOK, Beginning, IsRequest
<1> QED BY <1>2, HoldIs DEF RequestLeft

LEMMA BeginPreserves ==
  ASSUME AccountsInv, NEW r \in Requests, NEW h, IsRequest(h), requests[r] = Idle,
         UNCHANGED <<tables, cutOff>>, supply' \in {supply, fresh}, hold(r, h),
         h.step \notin {"renew", "drop", "profile", "undo"},
         h.user \in Rooted \cup {NULL},
         h.step \in {"issue", "save", "password"} => h.user # NULL
  PROVE  AccountsInv'
<1>1. UsersKept(r) /\ TokensKept /\ Rooted' = Rooted
  BY TablesAlone
<1>2. unfinished(r) = {}
  BY DEF unfinished, Idle
<1>3. RequestLeft(r)
  BY <1>1, <1>2, RequestGoesOn
<1> QED BY <1>1, <1>3, StepPreserves

LEMMA IdleIsRequest == IsRequest(Idle) /\ Idle.user = NULL /\ Idle.step = "idle"
  BY DEF IsRequest, Idle

\* Nobody knows an unfinished user, so those that are known have a row.
LEMMA KnownAreRooted ==
  ASSUME AccountsInv
  PROVE  /\ \A u \in Reachable : u \in Rooted
         /\ \A a \in Addresses : FoundUsers(a) \subseteq Rooted \cup {NULL}
         /\ \A u \in DOMAIN users : users[u].vtoken # NULL \/ users[u].reset # NULL => u \in Rooted
         /\ NULL \notin Rooted
<1>1. \A u \in Reachable : u \in Rooted
  BY DEF Reachable, Rooted
<1>2. ASSUME NEW a \in Addresses PROVE FoundUsers(a) \subseteq Rooted \cup {NULL}
  <2>1. OwnersOf(a) \subseteq Rooted
    BY AuthAssumption DEF OwnersOf, AccountsInv
  <2>2. WalletOwners(a) \subseteq Rooted
    BY DEF WalletOwners, Rooted
  <2> QED BY <2>1, <2>2 DEF FoundUsers
<1>3. NULL \notin Rooted
  BY AuthAssumption DEF AccountsInv
<1> QED BY <1>1, <1>2, <1>3 DEF AccountsInv

LEMMA RequestsBegin ==
  ASSUME AccountsInv, NEW r \in Requests,
         \/ \E e \in Emails : register(r, e)
         \/ \E a \in Addresses, e \in Emails \cup {NULL} :
              walletLogin(r, a, e) \/ findOrCreateUserByWalletAddress(r, a, e)
         \/ \E u \in DOMAIN users :
              login(r, u) \/ forgotPassword(r, u) \/ resendVerification(r, u)
                \/ verifyEmail(r, u) \/ resetPassword(r, u)
  PROVE  AccountsInv'
<1>1. ASSUME NEW h, IsRequest(h), begin(r, h),
             h.step \notin {"renew", "drop", "profile", "undo"},
             h.user \in Rooted \cup {NULL},
             h.step \in {"issue", "save", "password"} => h.user # NULL
      PROVE  AccountsInv'
  <2>1. requests[r] = Idle /\ UNCHANGED <<tables, cutOff>> /\ supply' = supply /\ hold(r, h)
    BY <1>1 DEF begin
  <2> QED BY <1>1, <2>1, BeginPreserves
<1>2. ASSUME NEW e \in Emails, register(r, e) PROVE AccountsInv'
  <2>1. PICK h : h = [Idle EXCEPT !.step = "create", !.email = e]
    OBVIOUS
  <2>2. IsRequest(h) /\ h.step = "create" /\ h.user = NULL
    BY <2>1 DEF IsRequest, Idle
  <2>3. begin(r, h)
    BY <1>2, <2>1 DEF register
  <2> QED BY <1>1, <2>2, <2>3
<1>3. ASSUME NEW a \in Addresses, NEW e \in Emails \cup {NULL}, walletLogin(r, a, e) PROVE AccountsInv'
  <2>1. PICK u \in FoundUsers(a) :
          begin(r, [Idle EXCEPT !.step = "wallet", !.user = u, !.address = a, !.email = e])
    BY <1>3 DEF walletLogin
  <2>2. PICK h : h = [Idle EXCEPT !.step = "wallet", !.user = u, !.address = a, !.email = e]
    OBVIOUS
  <2>3. IsRequest(h) /\ h.step = "wallet" /\ h.user = u
    BY <2>2 DEF IsRequest, Idle
  <2>4. u \in Rooted \cup {NULL}
    BY KnownAreRooted
  <2> QED BY <1>1, <2>1, <2>2, <2>3, <2>4
<1>4. ASSUME NEW a \in Addresses, NEW e \in Emails \cup {NULL}, findOrCreateUserByWalletAddress(r, a, e)
      PROVE  AccountsInv'
  <2>1. PICK h : h = [Idle EXCEPT !.step = "findOrCreate", !.address = a, !.email = e]
    OBVIOUS
  <2>2. IsRequest(h) /\ h.step = "findOrCreate" /\ h.user = NULL
    BY <2>1 DEF IsRequest, Idle
  <2>3. begin(r, h)
    BY <1>4, <2>1 DEF findOrCreateUserByWalletAddress
  <2> QED BY <1>1, <2>2, <2>3
<1>5. ASSUME NEW u \in DOMAIN users, login(r, u) PROVE AccountsInv'
  <2>1. PICK h : h = [Idle EXCEPT !.step = "issue", !.user = u]
    OBVIOUS
  <2>2. IsRequest(h) /\ h.step = "issue" /\ h.user = u
    BY <2>1 DEF IsRequest, Idle
  <2>3. begin(r, h) /\ u \in Rooted /\ u # NULL
    BY <1>5, <2>1, KnownAreRooted DEF login
  <2> QED BY <1>1, <2>2, <2>3
<1>6. ASSUME NEW u \in DOMAIN users, forgotPassword(r, u) \/ resendVerification(r, u)
      PROVE  AccountsInv'
  <2>1. PICK row : hold(r, [Idle EXCEPT !.step = "save", !.user = u, !.row = row])
    BY <1>6 DEF forgotPassword, resendVerification
  <2>2. PICK h : h = [Idle EXCEPT !.step = "save", !.user = u, !.row = row]
    OBVIOUS
  <2>3. IsRequest(h) /\ h.step = "save" /\ h.user = u
    BY <2>2 DEF IsRequest, Idle
  <2>4. u \in Rooted /\ u # NULL
    BY <1>6, KnownAreRooted DEF forgotPassword, resendVerification
  <2>5. requests[r] = Idle /\ UNCHANGED <<tables, cutOff>> /\ supply' = fresh
    BY <1>6 DEF forgotPassword, resendVerification
  <2> QED BY <2>1, <2>2, <2>3, <2>4, <2>5, BeginPreserves
<1>7. ASSUME NEW u \in DOMAIN users, verifyEmail(r, u) \/ resetPassword(r, u) PROVE AccountsInv'
  <2>0. PICK s \in {"save", "password"} :
          \E row : begin(r, [Idle EXCEPT !.step = s, !.user = u, !.row = row])
    BY <1>7 DEF verifyEmail, resetPassword, saveLater
  <2>1. PICK row : begin(r, [Idle EXCEPT !.step = s, !.user = u, !.row = row])
    BY <2>0
  <2>2. PICK h : h = [Idle EXCEPT !.step = s, !.user = u, !.row = row]
    OBVIOUS
  <2>3. IsRequest(h) /\ h.step = s /\ h.user = u
    BY <2>2 DEF IsRequest, Idle
  <2>4. u \in Rooted /\ u # NULL
    BY <1>7, KnownAreRooted DEF verifyEmail, resetPassword
  <2> QED BY <1>1, <2>1, <2>2, <2>3, <2>4
<1> QED BY <1>2, <1>3, <1>4, <1>5, <1>6, <1>7

\* A request that ends without having written anything.
LEMMA FinishPreserves ==
  ASSUME AccountsInv, NEW r \in Requests, finish(r), UNCHANGED <<tables, supply>>,
         cutOff \subseteq cutOff', unfinished(r) \subseteq cutOff'
  PROVE  AccountsInv'
<1>1. UsersKept(r) /\ TokensKept
  BY TablesAlone
<1>2. hold(r, Idle)
  BY DEF finish
<1>3. RequestLeft(r)
  BY <1>2, IdleIsRequest, RequestGoesOn
<1> QED BY <1>1, <1>3, StepPreserves

LEMMA EndsPreserve ==
  ASSUME AccountsInv, NEW r \in Requests, commitKeepsNothing(r) \/ writeFails(r)
  PROVE  AccountsInv'
<1>1. CASE commitKeepsNothing(r)
  <2>1. finish(r) /\ UNCHANGED <<tables, supply, cutOff>> /\ unfinished(r) = {}
    BY <1>1 DEF commitKeepsNothing, unfinished
  <2> QED BY <2>1, FinishPreserves
<1>2. CASE writeFails(r)
  BY <1>2, FinishPreserves DEF writeFails
<1> QED BY <1>1, <1>2

LEMMA ProfileFailsPreserves ==
  ASSUME AccountsInv, NEW r \in Requests, profileFails(r) PROVE AccountsInv'
<1>1. PICK h : h = [requests[r] EXCEPT !.step = "undo"]
  OBVIOUS
<1>2. IsRequest(requests[r]) /\ HeldAlone(r)
  BY DEF AccountsInv, RequestOK, Beginning, profileFails
<1>3. IsRequest(h) /\ h.step = "undo" /\ h.user = requests[r].user
  BY <1>1, <1>2 DEF IsRequest
<1>4. requests[r].step = "profile" /\ hold(r, h) /\ UNCHANGED <<tables, supply, cutOff>>
  BY <1>1 DEF profileFails
<1>5. users' = users /\ UsersKept(r) /\ TokensKept /\ Rooted' = Rooted
  BY <1>4, TablesAlone DEF tables
<1>6. requests'[r] = h /\ \A q \in Requests \ {r} : requests'[q] = requests[q]
  BY <1>4, HoldIs
<1>7. RequestOK(r)'
  BY <1>2, <1>3, <1>5, <1>6 DEF RequestOK, RefreshOK, Beginning, HeldAlone, IsRequest
<1>8. unfinished(r) \subseteq unfinished(r)'
  BY <1>3, <1>4, <1>6 DEF unfinished
<1> QED BY <1>4, <1>5, <1>7, <1>8, HoldIs, StepPreserves DEF RequestLeft

LEMMA WalletWorkPreserves ==
  ASSUME AccountsInv, NEW r \in Requests, walletWork(r) PROVE AccountsInv'
<1>1. requests[r].step = "wallet" /\ UNCHANGED <<tables, supply, cutOff>>
  BY DEF walletWork
<1>2. IsRequest(requests[r]) /\ requests[r].user \in Rooted \cup {NULL} /\ unfinished(r) = {}
  BY <1>1 DEF AccountsInv, RequestOK, Beginning, unfinished
<1>3. ASSUME NEW s \in {"commit", "doomed"}, hold(r, [requests[r] EXCEPT !.step = s])
      PROVE  AccountsInv'
  <2>1. PICK h : h = [requests[r] EXCEPT !.step = s]
    OBVIOUS
  <2>2. IsRequest(h) /\ h.step = s /\ h.user = requests[r].user
    BY <1>2, <2>1 DEF IsRequest
  <2>3. UsersKept(r) /\ TokensKept /\ Rooted' = Rooted
    BY <1>1, TablesAlone
  <2>4. RequestLeft(r)
    BY <1>1, <1>2, <1>3, <2>1, <2>2, <2>3, RequestGoesOn
  <2> QED BY <2>3, <2>4, StepPreserves
<1> QED BY <1>1, <1>2, <1>3, FinishPreserves DEF walletWork

-----------------------------------------------------------------------------
(* New users and rows.                                                      *)

LEMMA CreateUserPreserves ==
  ASSUME AccountsInv, NEW r \in Requests, createUser(r) PROVE AccountsInv'
<1> DEFINE u == fresh
<1>1. /\ requests[r].step = "create" /\ supply \in Nat /\ supply' = u /\ u \in Nat /\ u = supply + 1
      /\ profiles' = profiles /\ wallets' = wallets /\ tokens' = tokens /\ cutOff' = cutOff
      /\ 1..supply \subseteq 1..supply' /\ u \notin 1..supply /\ u # NULL
  BY AuthAssumption DEF AccountsInv, createUser, fresh
<1>2. /\ DOMAIN users' = DOMAIN users \cup {u} /\ u \notin DOMAIN users
      /\ \A v \in DOMAIN users : users'[v] = users[v]
      /\ users'[u] = NewUser(NULL, FALSE)
  BY <1>1 DEF createUser, AccountsInv, inserted
<1>3. Rooted' = Rooted /\ Rooted \subseteq DOMAIN users
  BY <1>1 DEF Rooted, AccountsInv
<1>4. PICK h : h = [requests[r] EXCEPT !.step = "profile", !.user = u]
  OBVIOUS
<1>5. IsRequest(requests[r])
  BY DEF AccountsInv, RequestOK
<1>6. IsRequest(h) /\ h.step = "profile" /\ h.user = u /\ hold(r, h)
  BY <1>4, <1>5 DEF IsRequest, createUser
<1>7. requests'[r] = h /\ \A q \in Requests \ {r} : requests'[q] = requests[q]
  BY <1>6, HoldIs
<1> HIDE DEF u
<1>8. \A q \in Requests : requests[q].user # u
  BY <1>1, <1>2, <1>3 DEF AccountsInv, RequestOK, HeldAlone
<1>9. RequestOK(r)'
  BY <1>2, <1>3, <1>6, <1>7, <1>8 DEF RequestOK, RefreshOK, Beginning, HeldAlone, IsRequest, NewUser
<1>10. u \in unfinished(r)' /\ unfinished(r) = {}
  BY <1>1, <1>6, <1>7 DEF unfinished
<1>11. UsersKept(r)
  BY <1>1, <1>2, <1>3, <1>10 DEF UsersKept, NewUser, AccountsInv, RequestOK, HeldAlone
<1>12. TokensKept
  BY <1>1 DEF TokensKept
<1> QED BY <1>1, <1>6, <1>9, <1>10, <1>11, <1>12, HoldIs, StepPreserves DEF RequestLeft

\* A profile of a user that has none, or a password in one that is there.
LEMMA ProfilePreserves ==
  ASSUME AccountsInv, NEW r \in Requests, NEW u \in DOMAIN users, DOMAIN profiles' = DOMAIN profiles \cup {u},
         UNCHANGED <<users, wallets, tokens, supply, cutOff>>,
         requests[r].user = u, NEW h, hold(r, h), IsRequest(h), h.user \in {u, NULL},
         h.step \notin {"renew", "drop", "profile", "undo"},
         h.step \in {"issue", "save", "password"} => h.user # NULL
  PROVE  AccountsInv'
<1>1. Rooted' = Rooted \cup {u}
  BY DEF Rooted
<1>2. supply \in Nat /\ supply <= supply'
  BY DEF AccountsInv
<1>3. \A q \in Requests \ {r} : Beginning(requests[q]) => requests[q].user \notin Rooted'
  BY <1>1 DEF AccountsInv, RequestOK, HeldAlone
<1>4. UsersKept(r)
  BY <1>1, <1>2, <1>3 DEF UsersKept, AccountsInv
<1>5. TokensKept
  BY DEF TokensKept
<1>6. unfinished(r) \subseteq Rooted'
  BY <1>1 DEF unfinished
<1>7. RequestLeft(r)
  BY <1>1, <1>6, RequestGoesOn
<1> QED BY <1>4, <1>5, <1>7, StepPreserves

LEMMA CreateProfilePreserves ==
  ASSUME AccountsInv, NEW r \in Requests, createProfile(r) PROVE AccountsInv'
<1>1. PICK u : u = requests[r].user
  OBVIOUS
<1>2. PICK h : h = [Idle EXCEPT !.step = "issue", !.user = u]
  OBVIOUS
<1>3. IsRequest(h) /\ h.step = "issue" /\ h.user = u /\ hold(r, h)
  BY <1>1, <1>2 DEF IsRequest, Idle, createProfile
<1>4. u \in DOMAIN users /\ u # NULL
  BY <1>1, AuthAssumption DEF AccountsInv, RequestOK, Beginning, HeldAlone, createProfile
<1>5. DOMAIN profiles' = DOMAIN profiles \cup {u} /\ UNCHANGED <<users, wallets, tokens, supply, cutOff>>
  BY <1>1 DEF createProfile, inserted
<1> QED BY <1>1, <1>3, <1>4, <1>5, ProfilePreserves

LEMMA WalletProfilePreserves ==
  ASSUME AccountsInv, NEW r \in Requests, walletProfile(r) PROVE AccountsInv'
<1>1. PICK u : u = requests[r].user
  OBVIOUS
<1>2. PICK h : h = [requests[r] EXCEPT !.email = NULL]
  OBVIOUS
<1>3. IsRequest(requests[r]) /\ requests[r].step = "wallet" /\ u \in Rooted /\ u # NULL
  BY <1>1 DEF AccountsInv, RequestOK, Beginning, walletProfile, needsProfile
<1>4. IsRequest(h) /\ h.step = "wallet" /\ h.user = u /\ hold(r, h) /\ u \in DOMAIN users
  BY <1>1, <1>2, <1>3 DEF IsRequest, walletProfile, AccountsInv
<1>5. CASE Taken(requests[r].email)
  <2>1. UNCHANGED <<tables, supply, cutOff>> /\ unfinished(r) = {}
    BY <1>3, <1>5 DEF walletProfile, tables, unfinished
  <2>2. UsersKept(r) /\ TokensKept /\ Rooted' = Rooted
    BY <2>1, TablesAlone
  <2>3. RequestLeft(r)
    BY <1>3, <1>4, <2>1, <2>2, RequestGoesOn
  <2> QED BY <2>2, <2>3, StepPreserves
<1>6. CASE ~Taken(requests[r].email)
  <2>1. DOMAIN profiles' = DOMAIN profiles \cup {u} /\ UNCHANGED <<users, wallets, tokens, supply, cutOff>>
    BY <1>1, <1>6 DEF walletProfile, inserted
  <2> QED BY <1>1, <1>4, <2>1, ProfilePreserves
<1> QED BY <1>5, <1>6

LEMMA NewPasswordPreserves ==
  ASSUME AccountsInv, NEW r \in Requests, newPassword(r) PROVE AccountsInv'
<1>1. PICK u : u = requests[r].user
  OBVIOUS
<1>2. PICK h : h = [requests[r] EXCEPT !.step = "save", !.row = [requests[r].row EXCEPT !.reset = NULL]]
  OBVIOUS
<1>3. IsRequest(requests[r])
  BY DEF AccountsInv, RequestOK
<1>4. IsRequest(h) /\ h.step = "save" /\ h.user = u
  BY <1>1, <1>2, <1>3 DEF IsRequest
<1>5. hold(r, h) /\ u \in DOMAIN profiles /\ requests[r].step = "password"
  BY <1>1, <1>2 DEF newPassword
<1>6. u \in DOMAIN users /\ u # NULL
  BY <1>5, AuthAssumption DEF AccountsInv, Rooted
<1>7. DOMAIN profiles' = DOMAIN profiles \cup {u} /\ UNCHANGED <<users, wallets, tokens, supply, cutOff>>
  BY <1>1, <1>5 DEF newPassword
<1> QED BY <1>1, <1>4, <1>5, <1>6, <1>7, ProfilePreserves

\* A registration deletes its user again; nothing was ever made for it.
LEMMA DeleteUserPreserves ==
  ASSUME AccountsInv, NEW r \in Requests, deleteUser(r) PROVE AccountsInv'
<1>1. PICK u : u = requests[r].user
  OBVIOUS
<1>2. /\ requests[r].step = "undo" /\ hold(r, Idle) /\ users' = Restrict(users, DOMAIN users \ {u})
      /\ profiles' = profiles /\ wallets' = wallets /\ tokens' = tokens /\ supply' = supply
      /\ cutOff' = cutOff
  BY <1>1 DEF deleteUser, finish
<1>3. DOMAIN users' = DOMAIN users \ {u} /\ \A v \in DOMAIN users' : users'[v] = users[v]
  BY <1>2 DEF Restrict
<1>4. Rooted' = Rooted /\ u \notin Rooted /\ Beginning(requests[r])
  <2>1. Rooted' = Rooted
    BY <1>2 DEF Rooted
  <2>2. Beginning(requests[r])
    BY <1>2 DEF Beginning
  <2> QED BY <1>1, <2>1, <2>2 DEF AccountsInv, RequestOK, HeldAlone
<1>5. \A q \in Requests : Beginning(requests[q]) => requests[q].user \notin Rooted
  BY DEF AccountsInv, RequestOK, HeldAlone
<1>6. UsersKept(r)
  <2>1. supply' \in Nat /\ supply <= supply'
    BY <1>2 DEF AccountsInv
  <2>2. DOMAIN users' \subseteq 1..supply' /\ Rooted' \subseteq DOMAIN users' /\ Rooted \subseteq Rooted'
    BY <1>2, <1>3, <1>4 DEF AccountsInv
  <2>3. \A v \in DOMAIN users \ DOMAIN users' : Beginning(requests[r]) /\ v = requests[r].user
    BY <1>1, <1>3, <1>4
  <2> HIDE <1>1, <1>2
  <2> QED BY <1>3, <1>4, <1>5, <2>1, <2>2, <2>3 DEF UsersKept
<1>7. TokensKept
  BY <1>2 DEF TokensKept
<1>8. unfinished(r) \cap DOMAIN users' = {}
  BY <1>1, <1>3 DEF unfinished
<1>9. RequestLeft(r)
  BY <1>2, <1>8, IdleIsRequest, RequestGoesOn
<1> QED BY <1>6, <1>7, <1>9, StepPreserves

\* What a transaction of a wallet login leaves when it lands.
LEMMA LandedKeeps ==
  ASSUME AccountsInv, NEW r \in Requests, NEW addressOnUser, NEW withProfile \in BOOLEAN,
         ~Beginning(requests[r]),
         landed(requests[r], addressOnUser, withProfile), supply' = fresh
  PROVE  /\ UsersKept(r)
         /\ (IF requests[r].user = NULL THEN fresh ELSE requests[r].user) \in Rooted'
<1>1. PICK u : u = IF requests[r].user = NULL THEN fresh ELSE requests[r].user
  OBVIOUS
<1>2. /\ supply \in Nat /\ supply' = supply + 1 /\ fresh = supply + 1 /\ supply' \in Nat
      /\ 1..supply \subseteq 1..supply' /\ fresh \notin 1..supply /\ fresh \in 1..supply'
  BY DEF AccountsInv, fresh
<1>3. wallets' = wallets \cup {[address |-> requests[r].address, user |-> u]}
  BY <1>1 DEF landed
<1>4. /\ DOMAIN users' = DOMAIN users \cup {u}
      /\ \A v \in DOMAIN users : users'[v] = users[v]
      /\ DOMAIN profiles' \subseteq DOMAIN profiles \cup {u} /\ DOMAIN profiles \subseteq DOMAIN profiles'
      /\ u \in 1..supply'
  <2>1. CASE requests[r].user = NULL
    <3>1. u = fresh /\ u \notin DOMAIN users
      BY <1>1, <1>2, <2>1 DEF AccountsInv
    <3>2. users' = inserted(users, u, NewUser(addressOnUser, TRUE))
      BY <1>1, <2>1 DEF landed
    <3>3. profiles' \in {profiles, inserted(profiles, u, profileOf(requests[r].email))}
      BY <1>1, <2>1 DEF landed
    <3> QED BY <1>2, <3>1, <3>2, <3>3 DEF inserted
  <2>2. CASE requests[r].user # NULL
    <3>1. u \in DOMAIN users
      BY <1>1, <2>2 DEF AccountsInv, RequestOK
    <3>2. users' = users /\ profiles' = profiles
      BY <2>2 DEF landed
    <3> QED BY <1>2, <3>1, <3>2 DEF AccountsInv
  <2> QED BY <2>1, <2>2
<1>5. Rooted' = Rooted \cup {u}
  <2>1. [address |-> requests[r].address, user |-> u].user = u
    OBVIOUS
  <2>2. {w.user : w \in wallets'} = {w.user : w \in wallets} \cup {u}
    BY <1>3, <2>1
  <2> QED BY <1>4, <2>2 DEF Rooted
<1>6. ASSUME NEW q \in Requests, Beginning(requests[q]) PROVE requests[q].user \notin Rooted'
  <2>1. requests[q].user \in DOMAIN users \ Rooted
    BY <1>6 DEF AccountsInv, RequestOK, HeldAlone
  <2>2. u \in Rooted \/ u \notin DOMAIN users
    BY <1>1, <1>2 DEF AccountsInv, RequestOK
  <2> QED BY <1>5, <2>1, <2>2
<1>7. UsersKept(r)
  BY <1>2, <1>4, <1>5, <1>6 DEF UsersKept, AccountsInv
<1> QED BY <1>1, <1>5, <1>7

LEMMA CommitPreserves ==
  ASSUME AccountsInv, NEW r \in Requests, commitTransaction(r)
  PROVE  AccountsInv' /\ TokensKept
<1>1. PICK u : u = IF requests[r].user = NULL THEN fresh ELSE requests[r].user
  OBVIOUS
<1>2. /\ requests[r].step = "commit" /\ hold(r, Idle) /\ supply' = fresh /\ cutOff' = cutOff
      /\ tokens' = tokens \cup {tokenFor(u)}
      /\ landed(requests[r], requests[r].address, requests[r].email # NULL)
  BY <1>1 DEF commitTransaction, finish
<1>3. ~Beginning(requests[r]) /\ unfinished(r) = {}
  BY <1>2 DEF Beginning, unfinished
<1>4. UsersKept(r) /\ u \in Rooted'
  BY <1>1, <1>2, <1>3, LandedKeeps
<1>5. TokensKept
  BY <1>2, <1>4 DEF TokensKept, tokenFor, fresh
<1>6. RequestLeft(r)
  BY <1>2, <1>3, IdleIsRequest, RequestGoesOn
<1> QED BY <1>4, <1>5, <1>6, StepPreserves

LEMMA CreateUserWithWalletPreserves ==
  ASSUME AccountsInv, NEW r \in Requests, createUserWithWallet(r) PROVE AccountsInv'
<1>1. requests[r].step = "findOrCreate" /\ finish(r) /\ tokens' = tokens /\ cutOff' = cutOff
  BY DEF createUserWithWallet
<1>2. ~Beginning(requests[r]) /\ unfinished(r) = {}
  BY <1>1 DEF Beginning, unfinished
<1>3. CASE landed(requests[r], NULL, TRUE) /\ supply' = fresh
  <2>1. UsersKept(r)
    BY <1>2, <1>3, LandedKeeps
  <2>2. TokensKept
    BY <1>1 DEF TokensKept
  <2>3. RequestLeft(r)
    BY <1>1, <1>2, IdleIsRequest, RequestGoesOn DEF finish
  <2> QED BY <2>1, <2>2, <2>3, StepPreserves
<1>4. CASE UNCHANGED <<users, profiles, wallets, supply>>
  BY <1>1, <1>2, <1>4, FinishPreserves DEF tables
<1> QED BY <1>3, <1>4 DEF createUserWithWallet

LEMMA SaveRowPreserves ==
  ASSUME AccountsInv, NEW r \in Requests, save(r) PROVE AccountsInv'
<1>1. PICK u : u = requests[r].user
  OBVIOUS
<1>2. /\ requests[r].step = "save" /\ hold(r, Idle) /\ users' = [users EXCEPT ![u] = requests[r].row]
      /\ profiles' = profiles /\ wallets' = wallets /\ tokens' = tokens /\ supply' = supply
      /\ cutOff' = cutOff
  BY <1>1 DEF save, finish
<1>3. u \in Rooted /\ unfinished(r) = {}
  BY <1>1, <1>2 DEF AccountsInv, RequestOK, Beginning, unfinished
<1>4. /\ DOMAIN users' = DOMAIN users /\ \A v \in DOMAIN users \ {u} : users'[v] = users[v]
      /\ Rooted' = Rooted
  BY <1>2 DEF Rooted
<1>5. \A q \in Requests : Beginning(requests[q]) => requests[q].user \notin Rooted
  BY DEF AccountsInv, RequestOK, HeldAlone
<1>6. UsersKept(r)
  BY <1>2, <1>3, <1>4, <1>5 DEF UsersKept, AccountsInv
<1>7. TokensKept
  BY <1>2 DEF TokensKept
<1>8. RequestLeft(r)
  BY <1>2, <1>3, IdleIsRequest, RequestGoesOn
<1> QED BY <1>6, <1>7, <1>8, StepPreserves

-----------------------------------------------------------------------------
(* Refresh tokens.                                                          *)

\* A token with the next secret, and nothing else in the tables.
LEMMA TokenAdded ==
  ASSUME AccountsInv, NEW r \in Requests, NEW u \in Rooted, tokens' = tokens \cup {tokenFor(u)},
         supply' = fresh, UNCHANGED <<users, profiles, wallets>>
  PROVE  UsersKept(r) /\ TokensKept /\ Rooted' = Rooted
<1>1. Rooted' = Rooted
  BY DEF Rooted
<1>2. supply \in Nat /\ supply' = supply + 1 /\ supply' \in Nat /\ 1..supply \subseteq 1..supply'
  BY DEF AccountsInv, fresh
<1>3. \A q \in Requests : Beginning(requests[q]) => requests[q].user \notin Rooted
  BY DEF AccountsInv, RequestOK, HeldAlone
<1>4. UsersKept(r)
  BY <1>1, <1>2, <1>3 DEF UsersKept, AccountsInv
<1>5. TokensKept
  BY <1>1, <1>2 DEF TokensKept, tokenFor, fresh
<1> QED BY <1>1, <1>4, <1>5

LEMMA IssueTokensPreserves ==
  ASSUME AccountsInv, NEW r \in Requests, issueTokens(r) PROVE AccountsInv' /\ TokensKept
<1>1. PICK u : u = requests[r].user
  OBVIOUS
<1>2. /\ requests[r].step = "issue" /\ hold(r, Idle) /\ tokens' = tokens \cup {tokenFor(u)}
      /\ supply' = fresh /\ cutOff' = cutOff /\ UNCHANGED <<users, profiles, wallets>>
  BY <1>1 DEF issueTokens, finish
<1>3. u \in Rooted /\ unfinished(r) = {}
  BY <1>1, <1>2 DEF AccountsInv, RequestOK, Beginning, unfinished
<1>4. UsersKept(r) /\ TokensKept
  BY <1>2, <1>3, TokenAdded
<1>5. RequestLeft(r)
  BY <1>2, <1>3, IdleIsRequest, RequestGoesOn
<1> QED BY <1>4, <1>5, StepPreserves

LEMMA RefreshTokenPreserves ==
  ASSUME AccountsInv, NEW r \in Requests, NEW t \in tokens, refreshToken(r, t) PROVE AccountsInv'
<1>1. PICK h : h = [Idle EXCEPT !.step = "renew", !.user = t.user, !.secret = t.secret]
  OBVIOUS
<1>2. IsRequest(h) /\ h.step = "renew" /\ h.user = t.user /\ h.secret = t.secret
  BY <1>1 DEF IsRequest, Idle
<1>3. requests[r] = Idle /\ UNCHANGED <<tables, cutOff>> /\ supply' = supply /\ hold(r, h)
  BY <1>1 DEF refreshToken, begin
<1>4. /\ t.user \in Rooted /\ t.secret \in 1..supply /\ t.user # NULL /\ tokens' = tokens
      /\ \A s \in tokens : s.secret = t.secret => s.user = t.user
  BY <1>3, KnownAreRooted DEF AccountsInv, tables
<1>5. UsersKept(r) /\ TokensKept /\ Rooted' = Rooted
  BY <1>3, TablesAlone
<1>6. requests'[r] = h
  BY <1>3, HoldIs
<1>7. RequestOK(r)'
  BY <1>2, <1>3, <1>4, <1>5, <1>6 DEF RequestOK, RefreshOK, Beginning, IsRequest
<1>8. unfinished(r) = {}
  BY <1>3 DEF unfinished, Idle
<1> QED BY <1>3, <1>5, <1>7, <1>8, HoldIs, StepPreserves DEF RequestLeft

LEMMA CreateTokenPreserves ==
  ASSUME AccountsInv, NEW r \in Requests, createRefreshToken(r) PROVE AccountsInv' /\ TokensKept
<1>1. PICK h : h = [requests[r] EXCEPT !.step = "drop"]
  OBVIOUS
<1>2. PICK u : u = requests[r].user
  OBVIOUS
<1>3. IsRequest(requests[r]) /\ RefreshOK(requests[r]) /\ requests[r].step = "renew" /\ hold(r, h)
  BY <1>1 DEF AccountsInv, RequestOK, createRefreshToken
<1>4. IsRequest(h) /\ h.step = "drop" /\ h.user = u /\ h.secret = requests[r].secret
  BY <1>1, <1>2, <1>3 DEF IsRequest
<1>5. /\ tokens' = tokens \cup {tokenFor(u)} /\ supply' = fresh /\ cutOff' = cutOff
      /\ UNCHANGED <<users, profiles, wallets>>
  BY <1>2 DEF createRefreshToken
<1>6. u \in Rooted /\ u # NULL /\ unfinished(r) = {}
  BY <1>2, <1>3, KnownAreRooted DEF AccountsInv, RequestOK, RefreshOK, Beginning, unfinished
<1>7. UsersKept(r) /\ TokensKept /\ Rooted' = Rooted
  BY <1>5, <1>6, TokenAdded
<1>8. supply \in Nat /\ supply' = supply + 1 /\ 1..supply \subseteq 1..supply'
  BY <1>5 DEF AccountsInv, fresh
<1>9. RefreshOK(h)'
  <2>1. h.secret \in 1..supply /\ \A t \in tokens : t.secret = h.secret => t.user = h.user
    BY <1>2, <1>3, <1>4 DEF RefreshOK
  <2>2. tokenFor(u).user = u /\ tokenFor(u).secret = supply + 1
    BY DEF tokenFor, fresh
  <2> QED BY <1>4, <1>5, <1>6, <1>8, <2>1, <2>2 DEF RefreshOK
<1>10. requests'[r] = h
  BY <1>3, HoldIs
<1>11. RequestOK(r)'
  BY <1>4, <1>6, <1>7, <1>9, <1>10 DEF RequestOK, RefreshOK, Beginning, IsRequest
<1> QED BY <1>3, <1>5, <1>6, <1>7, <1>11, HoldIs, StepPreserves DEF RequestLeft

LEMMA DeleteTokenPreserves ==
  ASSUME AccountsInv, NEW r \in Requests, deleteOldToken(r) PROVE AccountsInv' /\ TokensKept
<1>1. PICK s : s = requests[r].secret
  OBVIOUS
<1>2. /\ requests[r].step = "drop" /\ hold(r, Idle) /\ tokens' = {t \in tokens : t.secret # s}
      /\ supply' = supply /\ cutOff' = cutOff /\ UNCHANGED <<users, profiles, wallets>>
  BY <1>1 DEF deleteOldToken, finish
<1>3. RefreshOK(requests[r]) /\ unfinished(r) = {}
  BY <1>2 DEF AccountsInv, RequestOK, unfinished
<1>4. TokensKept
  <2>1. PICK t \in tokens : t.user = requests[r].user /\ t.secret > s
    BY <1>1, <1>2, <1>3 DEF RefreshOK
  <2>2. s \in Nat /\ t.secret \in Nat
    BY <1>1, <1>2, <1>3 DEF RefreshOK, AccountsInv
  <2>3. t \in tokens'
    BY <1>2, <2>1, <2>2
  <2>4. \A x \in tokens \ tokens' : x.secret = s /\ x.user = t.user
    BY <1>1, <1>2, <1>3, <2>1 DEF RefreshOK
  <2> QED BY <1>2, <2>1, <2>3, <2>4 DEF TokensKept
<1>5. Rooted' = Rooted
  BY <1>2 DEF Rooted
<1>6. \A q \in Requests : Beginning(requests[q]) => requests[q].user \notin Rooted
  BY DEF AccountsInv, RequestOK, HeldAlone
<1>7. UsersKept(r)
  BY <1>2, <1>5, <1>6 DEF UsersKept, AccountsInv
<1>8. RequestLeft(r)
  BY <1>2, <1>3, IdleIsRequest, RequestGoesOn
<1> QED BY <1>4, <1>7, <1>8, StepPreserves

-----------------------------------------------------------------------------
(* A restart: every request is forgotten, unfinished users stay.            *)
LEMMA CrashPreserves == ASSUME AccountsInv, crash PROVE AccountsInv'
<1>1. /\ users' = users /\ profiles' = profiles /\ wallets' = wallets /\ tokens' = tokens
      /\ supply' = supply /\ requests' = [r \in Requests |-> Idle]
      /\ cutOff' = cutOff \cup UNION {unfinished(r) : r \in Requests}
  BY DEF crash, tables
<1>2. Rooted' = Rooted
  BY <1>1 DEF Rooted
<1>3. \A r \in Requests : RequestOK(r)'
  BY <1>1, IdleIsRequest DEF RequestOK, RefreshOK, Beginning, IsRequest
<1>4. \A u \in DOMAIN users : u \in Rooted \cup cutOff'
  BY <1>1 DEF AccountsInv
<1> QED BY <1>1, <1>2, <1>3, <1>4 DEF AccountsInv

LEMMA NothingChanges ==
  ASSUME AccountsInv, UNCHANGED <<tables, supply, requests, cutOff>> PROVE AccountsInv'
<1>1. /\ users' = users /\ profiles' = profiles /\ wallets' = wallets /\ tokens' = tokens
      /\ supply' = supply /\ requests' = requests /\ cutOff' = cutOff
  BY DEF tables
<1>2. Rooted' = Rooted /\ \A r \in Requests : unfinished(r)' = unfinished(r)
  BY <1>1 DEF Rooted, unfinished
<1>3. \A r \in Requests : RequestOK(r)'
  BY <1>1, <1>2 DEF AccountsInv, RequestOK, RefreshOK, Beginning, HeldAlone, IsRequest
<1> QED BY <1>1, <1>2, <1>3 DEF AccountsInv

\* A step that writes no token, or one that keeps everybody signed in.
LEMMA AccountsStep ==
  ASSUME AccountsInv, [AuthNext]_authVars PROVE AccountsInv' /\ (tokens' = tokens \/ TokensKept)
<1>1. ASSUME NEW r \in Requests, Registration(r) PROVE AccountsInv' /\ (tokens' = tokens \/ TokensKept)
  <2>1. CASE \E e \in Emails : register(r, e)
    BY <2>1, RequestsBegin DEF register, begin, tables
  <2>2. CASE createUser(r)
    BY <2>2, CreateUserPreserves DEF createUser
  <2>3. CASE createProfile(r)
    BY <2>3, CreateProfilePreserves DEF createProfile
  <2>4. CASE profileFails(r)
    BY <2>4, ProfileFailsPreserves DEF profileFails, tables
  <2>5. CASE deleteUser(r)
    BY <2>5, DeleteUserPreserves DEF deleteUser
  <2>6. CASE issueTokens(r)
    BY <2>6, IssueTokensPreserves
  <2> QED BY <1>1, <2>1, <2>2, <2>3, <2>4, <2>5, <2>6 DEF Registration
<1>2. ASSUME NEW r \in Requests, WalletStep(r) PROVE AccountsInv' /\ (tokens' = tokens \/ TokensKept)
  <2>1. CASE \E a \in Addresses, e \in Emails \cup {NULL} :
               walletLogin(r, a, e) \/ findOrCreateUserByWalletAddress(r, a, e)
    BY <2>1, RequestsBegin DEF walletLogin, findOrCreateUserByWalletAddress, begin, tables
  <2>2. CASE walletProfile(r)
    BY <2>2, WalletProfilePreserves DEF walletProfile
  <2>3. CASE walletWork(r)
    BY <2>3, WalletWorkPreserves DEF walletWork, tables
  <2>4. CASE commitTransaction(r)
    BY <2>4, CommitPreserves
  <2>5. CASE commitKeepsNothing(r)
    BY <2>5, EndsPreserve DEF commitKeepsNothing, tables
  <2>6. CASE createUserWithWallet(r)
    BY <2>6, CreateUserWithWalletPreserves DEF createUserWithWallet
  <2> QED BY <1>2, <2>1, <2>2, <2>3, <2>4, <2>5, <2>6 DEF WalletStep
<1>3. ASSUME NEW r \in Requests, AccountStep(r) PROVE AccountsInv' /\ (tokens' = tokens \/ TokensKept)
  <2>1. CASE \E u \in DOMAIN users :
               login(r, u) \/ forgotPassword(r, u) \/ resendVerification(r, u)
                 \/ verifyEmail(r, u) \/ resetPassword(r, u)
    BY <2>1, RequestsBegin
       DEF login, forgotPassword, resendVerification, verifyEmail, resetPassword, saveLater, begin, tables
  <2>2. CASE newPassword(r)
    BY <2>2, NewPasswordPreserves DEF newPassword
  <2>3. CASE save(r)
    BY <2>3, SaveRowPreserves DEF save
  <2> QED BY <1>3, <2>1, <2>2, <2>3 DEF AccountStep
<1>4. ASSUME NEW r \in Requests, RefreshStep(r) PROVE AccountsInv' /\ (tokens' = tokens \/ TokensKept)
  <2>1. CASE \E t \in tokens : refreshToken(r, t)
    BY <2>1, RefreshTokenPreserves DEF refreshToken, begin, tables
  <2> QED BY <1>4, <2>1, CreateTokenPreserves, DeleteTokenPreserves DEF RefreshStep
<1>5. ASSUME NEW r \in Requests, writeFails(r) PROVE AccountsInv' /\ (tokens' = tokens \/ TokensKept)
  BY <1>5, EndsPreserve DEF writeFails, tables
<1>6. ASSUME NEW s \in 1..supply, expire(s) PROVE AccountsInv' /\ (tokens' = tokens \/ TokensKept)
  BY <1>6, NothingChanges DEF expire, tables
<1>7. CASE crash
  BY <1>7, CrashPreserves DEF crash, tables
<1>8. CASE UNCHANGED authVars
  BY <1>8, NothingChanges DEF authVars, tables
<1> QED BY <1>1, <1>2, <1>3, <1>4, <1>5, <1>6, <1>7, <1>8 DEF AuthNext

LEMMA AccountsInvariant == AuthSpec => []AccountsInv
<1>1. AccountsInv /\ [AuthNext]_authVars => AccountsInv'
  BY AccountsStep
<1> QED BY <1>1, AccountsInvInit, PTL DEF AuthSpec

(* Rows have their users and accounts a way in, however registrations that   *)
(* delete their user again, wallet logins rolled back half way, stale saves  *)
(* and restarts of auth.service.ts overlap.                                  *)
THEOREM AccountsAlwaysHold == AuthSpec => []AccountsHoldTogether
<1>1. AccountsInv => AccountsHoldTogether
  BY DEF AccountsInv, AccountsHoldTogether, RowsHaveOwners, AccountsAreWhole, Rooted
<1> QED BY <1>1, AccountsInvariant, PTL

(* Who has a refresh token keeps one: the token a refresh deletes leaves a   *)
(* younger one, also when refreshes of it overlap and successors are renewed *)
(* in their turn.                                                            *)
THEOREM RefreshesKeepSignedIn == AuthSpec => RefreshKeepsSignedIn
<1>1. AccountsInv /\ [AuthNext]_authVars => [\A u \in DOMAIN users : SignedIn(u) => SignedIn(u)']_authVars
  <2> SUFFICES ASSUME AccountsInv, [AuthNext]_authVars, NEW u \in DOMAIN users, SignedIn(u)
               PROVE  SignedIn(u)'
    OBVIOUS
  <2>1. PICK t \in tokens : t.user = u
    BY DEF SignedIn
  <2>2. \E s \in tokens' : s.user = u
    BY <2>1, AccountsStep DEF TokensKept
  <2> QED BY <2>2 DEF SignedIn
<1> QED BY <1>1, AccountsInvariant, PTL DEF AuthSpec, RefreshKeepsSignedIn

-----------------------------------------------------------------------------
(* The types of the tables and of what requests have in hand.  Ids and      *)
(* secrets are handed out in order, so a row stays typed as they grow.      *)

ProfileRows == [email : Emails \cup {NULL}, password : 0..supply]

HandTyped(h) ==
  /\ h.step \in Steps
  /\ h.email \in Emails \cup {NULL} /\ h.address \in Addresses \cup {NULL}
  /\ h.step \in {"wallet", "commit", "findOrCreate"} => h.address \in Addresses
  /\ h.step \in {"save", "password"} => h.row \in Rows
  /\ h.step = "password" => h.row.reset # NULL

AccountTypes ==
  /\ \A u \in DOMAIN users : users[u] \in Rows
  /\ \A u \in DOMAIN profiles : profiles[u] \in ProfileRows
  /\ \A w \in wallets : w = [address |-> w.address, user |-> w.user] /\ w.address \in Addresses
  /\ \A t \in tokens : t = [secret |-> t.secret, user |-> t.user]
  /\ \A r \in Requests : HandTyped(requests[r])
  /\ expired \subseteq 1..supply

LEMMA IdleTyped == HandTyped(Idle)
  BY DEF HandTyped, Idle, Steps

LEMMA TypesGrow ==
  ASSUME AccountsInv, supply' \in {supply, fresh}
  PROVE  /\ supply \in Nat /\ supply' \in Nat /\ 1..supply \subseteq 1..supply'
         /\ Rows \subseteq Rows' /\ ProfileRows \subseteq ProfileRows'
         /\ \A h : HandTyped(h) => HandTyped(h)'
<1>1. supply \in Nat /\ supply' \in Nat /\ supply <= supply'
  BY DEF AccountsInv, fresh
<1>2. 1..supply \subseteq 1..supply' /\ 0..supply \subseteq 0..supply'
  BY <1>1
<1>3. Rows \subseteq Rows' /\ ProfileRows \subseteq ProfileRows'
  BY <1>2 DEF Rows, ProfileRows
<1>4. ASSUME NEW h, HandTyped(h) PROVE HandTyped(h)'
  BY <1>3, <1>4 DEF HandTyped
<1> QED BY <1>1, <1>2, <1>3, <1>4

\* What a step of request r writes is typed, and the rest stays as it was.
LEMMA TypesKept ==
  ASSUME AccountsInv, AccountTypes, NEW r \in Requests, supply' \in {supply, fresh}, expired' = expired,
         NEW h, hold(r, h), HandTyped(h)',
         \A u \in DOMAIN users' : users'[u] \in Rows' \/ (u \in DOMAIN users /\ users'[u] = users[u]),
         \A u \in DOMAIN profiles' :
           profiles'[u] \in ProfileRows' \/ (u \in DOMAIN profiles /\ profiles'[u] = profiles[u]),
         \A w \in wallets' \ wallets : w = [address |-> w.address, user |-> w.user] /\ w.address \in Addresses,
         \A t \in tokens' \ tokens : t = [secret |-> t.secret, user |-> t.user]
  PROVE  AccountTypes'
<1>1. /\ 1..supply \subseteq 1..supply' /\ Rows \subseteq Rows' /\ ProfileRows \subseteq ProfileRows'
      /\ \A g : HandTyped(g) => HandTyped(g)'
  BY TypesGrow
<1>2. ASSUME NEW q \in Requests PROVE HandTyped(requests[q])'
  <2>1. PICK g : g = requests'[q]
    OBVIOUS
  <2>2. g = h \/ (q # r /\ g = requests[q])
    BY <2>1, HoldIs
  <2>3. HandTyped(g)'
    BY <1>1, <2>2 DEF AccountTypes
  <2> QED BY <2>1, <2>3
<1>3. \A u \in DOMAIN users' : users'[u] \in Rows'
  BY <1>1 DEF AccountTypes
<1>4. \A u \in DOMAIN profiles' : profiles'[u] \in ProfileRows'
  BY <1>1 DEF AccountTypes
<1> QED BY <1>1, <1>2, <1>3, <1>4 DEF AccountTypes

\* A request goes on or ends, with no row written.
LEMMA HandKept ==
  ASSUME AccountsInv, AccountTypes, NEW r \in Requests, supply' \in {supply, fresh},
         UNCHANGED <<tables, expired>>, NEW h, hold(r, h), HandTyped(h) \/ HandTyped(h)'
  PROVE  AccountTypes'
<1>1. HandTyped(h)'
  BY TypesGrow
<1>2. users' = users /\ profiles' = profiles /\ wallets' = wallets /\ tokens' = tokens /\ expired' = expired
  BY DEF tables
<1> QED BY <1>1, <1>2, TypesKept

LEMMA RequestsBeginTyped ==
  ASSUME AccountsInv, AccountTypes, NEW r \in Requests,
         \/ \E e \in Emails : register(r, e)
         \/ \E a \in Addresses, e \in Emails \cup {NULL} :
              walletLogin(r, a, e) \/ findOrCreateUserByWalletAddress(r, a, e)
         \/ \E u \in DOMAIN users :
              login(r, u) \/ forgotPassword(r, u) \/ resendVerification(r, u)
                \/ verifyEmail(r, u) \/ resetPassword(r, u)
         \/ \E t \in tokens : refreshToken(r, t)
  PROVE  AccountTypes'
<1>1. ASSUME NEW h, begin(r, h), HandTyped(h) PROVE AccountTypes'
  BY <1>1, HandKept DEF begin
<1>2. ASSUME NEW e \in Emails, register(r, e) PROVE AccountTypes'
  <2>1. PICK h : h = [Idle EXCEPT !.step = "create", !.email = e]
    OBVIOUS
  <2>2. HandTyped(h)
    BY <2>1 DEF HandTyped, Idle, Steps
  <2> QED BY <1>1, <1>2, <2>1, <2>2 DEF register
<1>3. ASSUME NEW a \in Addresses, NEW e \in Emails \cup {NULL},
             walletLogin(r, a, e) \/ findOrCreateUserByWalletAddress(r, a, e)
      PROVE  AccountTypes'
  <2>1. CASE walletLogin(r, a, e)
    <3>1. PICK u \in FoundUsers(a) :
            begin(r, [Idle EXCEPT !.step = "wallet", !.user = u, !.address = a, !.email = e])
      BY <2>1 DEF walletLogin
    <3>2. PICK h : h = [Idle EXCEPT !.step = "wallet", !.user = u, !.address = a, !.email = e]
      OBVIOUS
    <3>3. HandTyped(h)
      BY <3>2 DEF HandTyped, Idle, Steps
    <3> QED BY <1>1, <3>1, <3>2, <3>3
  <2>2. CASE findOrCreateUserByWalletAddress(r, a, e)
    <3>1. PICK h : h = [Idle EXCEPT !.step = "findOrCreate", !.address = a, !.email = e]
      OBVIOUS
    <3>2. HandTyped(h)
      BY <3>1 DEF HandTyped, Idle, Steps
    <3> QED BY <1>1, <2>2, <3>1, <3>2 DEF findOrCreateUserByWalletAddress
  <2> QED BY <1>3, <2>1, <2>2
<1>4. ASSUME NEW u \in DOMAIN users, login(r, u) PROVE AccountTypes'
  <2>1. PICK h : h = [Idle EXCEPT !.step = "issue", !.user = u]
    OBVIOUS
  <2>2. HandTyped(h)
    BY <2>1 DEF HandTyped, Idle, Steps
  <2> QED BY <1>1, <1>4, <2>1, <2>2 DEF login
<1>5. ASSUME NEW u \in DOMAIN users, forgotPassword(r, u) \/ resendVerification(r, u) PROVE AccountTypes'
  <2>1. PICK row \in {[users[u] EXCEPT !.reset = fresh], [users[u] EXCEPT !.vtoken = fresh]} :
          hold(r, [Idle EXCEPT !.step = "save", !.user = u, !.row = row])
    BY <1>5 DEF forgotPassword, resendVerification
  <2>2. supply' = fresh /\ UNCHANGED <<tables, expired>>
    BY <1>5 DEF forgotPassword, resendVerification
  <2>3. users[u] \in Rows' /\ fresh \in 1..supply'
    BY <2>2, TypesGrow DEF AccountTypes, fresh
  <2>4. row \in Rows'
    BY <2>1, <2>3 DEF Rows
  <2>5. PICK h : h = [Idle EXCEPT !.step = "save", !.user = u, !.row = row]
    OBVIOUS
  <2>6. HandTyped(h)'
    BY <2>4, <2>5 DEF HandTyped, Idle, Steps
  <2> QED BY <2>1, <2>2, <2>5, <2>6, HandKept
<1>6. ASSUME NEW u \in DOMAIN users, verifyEmail(r, u) PROVE AccountTypes'
  <2>1. PICK row : row = [users[u] EXCEPT !.verified = TRUE, !.vtoken = NULL]
    OBVIOUS
  <2>2. row \in Rows
    BY <2>1 DEF AccountTypes, Rows
  <2>3. PICK h : h = [Idle EXCEPT !.step = "save", !.user = u, !.row = row]
    OBVIOUS
  <2>4. HandTyped(h)
    BY <2>2, <2>3 DEF HandTyped, Idle, Steps
  <2> QED BY <1>1, <1>6, <2>1, <2>3, <2>4 DEF verifyEmail, saveLater
<1>7. ASSUME NEW u \in DOMAIN users, resetPassword(r, u) PROVE AccountTypes'
  <2>1. PICK h : h = [Idle EXCEPT !.step = "password", !.user = u, !.row = users[u]]
    OBVIOUS
  <2>2. HandTyped(h)
    BY <1>7, <2>1 DEF HandTyped, Idle, Steps, AccountTypes, resetPassword
  <2> QED BY <1>1, <1>7, <2>1, <2>2 DEF resetPassword
<1>8. ASSUME NEW t \in tokens, refreshToken(r, t) PROVE AccountTypes'
  <2>1. PICK h : h = [Idle EXCEPT !.step = "renew", !.user = t.user, !.secret = t.secret]
    OBVIOUS
  <2>2. HandTyped(h)
    BY <2>1 DEF HandTyped, Idle, Steps
  <2> QED BY <1>1, <1>8, <2>1, <2>2 DEF refreshToken
<1> QED BY <1>2, <1>3, <1>4, <1>5, <1>6, <1>7, <1>8

\* A request that goes on to another step keeps what it has in hand.
LEMMA NextStepTyped ==
  ASSUME AccountsInv, AccountTypes, NEW r \in Requests, NEW s \in Steps,
         s \notin {"save", "password"}, s \in {"wallet", "commit", "findOrCreate"} => requests[r].step = "wallet"
  PROVE  HandTyped([requests[r] EXCEPT !.step = s])
<1>1. PICK x : x = requests[r]
  OBVIOUS
<1>2. IsRequest(x) /\ HandTyped(x)
  BY <1>1 DEF AccountsInv, RequestOK, AccountTypes
<1>3. PICK h : h = [x EXCEPT !.step = s]
  OBVIOUS
<1>4. /\ h.step = s /\ h.email = x.email /\ h.address = x.address /\ h.row = x.row
  BY <1>2, <1>3 DEF IsRequest
<1>5. HandTyped(h)
  BY <1>1, <1>2, <1>4 DEF HandTyped
<1> QED BY <1>1, <1>3, <1>5

\* A profile that is made has an e-mail and no password yet.
LEMMA NewProfileTyped ==
  ASSUME AccountsInv, AccountTypes, NEW e \in Emails \cup {NULL}, NEW u, supply' \in {supply, fresh},
         profiles' \in {profiles, inserted(profiles, u, profileOf(e))}
  PROVE  \A v \in DOMAIN profiles' :
           profiles'[v] \in ProfileRows' \/ (v \in DOMAIN profiles /\ profiles'[v] = profiles[v])
<1>1. 0 \in 0..supply'
  BY TypesGrow
<1>2. profileOf(e) \in ProfileRows'
  BY <1>1 DEF profileOf, ProfileRows
<1> QED BY <1>2 DEF inserted

LEMMA RegistrationTyped ==
  ASSUME AccountsInv, AccountTypes, NEW r \in Requests,
         createUser(r) \/ createProfile(r) \/ profileFails(r) \/ deleteUser(r) \/ issueTokens(r)
  PROVE  AccountTypes'
<1>1. HandTyped(requests[r]) /\ IsRequest(requests[r])
  BY DEF AccountTypes, AccountsInv, RequestOK
<1>2. CASE createUser(r)
  <2>1. /\ users' = inserted(users, fresh, NewUser(NULL, FALSE)) /\ supply' = fresh
        /\ UNCHANGED <<profiles, wallets, tokens, expired>>
    BY <1>2 DEF createUser
  <2>2. NewUser(NULL, FALSE) \in Rows'
    BY DEF NewUser, Rows
  <2>3. PICK x : x = requests[r]
    OBVIOUS
  <2>4. PICK h : h = [x EXCEPT !.step = "profile", !.user = fresh]
    OBVIOUS
  <2>5. h.step = "profile" /\ h.email = x.email /\ h.address = x.address
    BY <1>1, <2>3, <2>4 DEF IsRequest
  <2>6. HandTyped(h)
    BY <1>1, <2>3, <2>5 DEF HandTyped, Steps
  <2>7. HandTyped(h)' /\ hold(r, h)
    BY <1>2, <2>1, <2>3, <2>4, <2>6, TypesGrow DEF createUser
  <2>8. \A u \in DOMAIN users' : users'[u] \in Rows' \/ (u \in DOMAIN users /\ users'[u] = users[u])
    BY <2>1, <2>2 DEF inserted
  <2> QED BY <2>1, <2>7, <2>8, TypesKept
<1>3. CASE createProfile(r)
  <2>1. /\ profiles' = inserted(profiles, requests[r].user, profileOf(requests[r].email))
        /\ UNCHANGED <<users, wallets, tokens, supply, expired>>
    BY <1>3 DEF createProfile
  <2>2. PICK h : h = [Idle EXCEPT !.step = "issue", !.user = requests[r].user]
    OBVIOUS
  <2>3. HandTyped(h) /\ hold(r, h)
    BY <1>3, <2>2 DEF HandTyped, Idle, Steps, createProfile
  <2>4. requests[r].email \in Emails \cup {NULL}
    BY <1>1 DEF HandTyped
  <2>5. HandTyped(h)'
    BY <2>1, <2>3, TypesGrow
  <2> QED BY <2>1, <2>3, <2>4, <2>5, NewProfileTyped, TypesKept
<1>4. CASE profileFails(r)
  <2>1. HandTyped([requests[r] EXCEPT !.step = "undo"])
    BY NextStepTyped DEF Steps
  <2> QED BY <1>4, <2>1, HandKept DEF profileFails
<1>5. CASE deleteUser(r)
  <2>1. users' = Restrict(users, DOMAIN users \ {requests[r].user}) /\ hold(r, Idle)
        /\ UNCHANGED <<profiles, wallets, tokens, expired, supply>>
    BY <1>5 DEF deleteUser, finish
  <2>2. \A u \in DOMAIN users' : u \in DOMAIN users /\ users'[u] = users[u]
    BY <2>1 DEF Restrict
  <2>3. HandTyped(Idle)'
    BY <2>1, IdleTyped, TypesGrow
  <2> QED BY <2>1, <2>2, <2>3, TypesKept
<1>6. CASE issueTokens(r)
  <2>1. /\ tokens' = tokens \cup {tokenFor(requests[r].user)} /\ supply' = fresh /\ hold(r, Idle)
        /\ UNCHANGED <<users, profiles, wallets, expired>>
    BY <1>6 DEF issueTokens, finish
  <2>2. HandTyped(Idle)'
    BY <2>1, IdleTyped, TypesGrow
  <2> QED BY <2>1, <2>2, TypesKept DEF tokenFor
<1> QED BY <1>2, <1>3, <1>4, <1>5, <1>6

\* What a wallet login's transaction writes when it lands.
LEMMA LandedTyped ==
  ASSUME AccountsInv, AccountTypes, NEW r \in Requests, NEW a \in Addresses \cup {NULL}, NEW withProfile,
         landed(requests[r], a, withProfile), requests[r].address \in Addresses,
         supply' = fresh, expired' = expired, hold(r, Idle),
         \A t \in tokens' \ tokens : t = [secret |-> t.secret, user |-> t.user]
  PROVE  AccountTypes'
<1>1. PICK x : x = requests[r]
  OBVIOUS
<1>2. PICK u : u = IF x.user = NULL THEN fresh ELSE x.user
  OBVIOUS
<1>3. /\ users' \in {users, inserted(users, u, NewUser(a, TRUE))}
      /\ profiles' \in {profiles, inserted(profiles, u, profileOf(x.email))}
      /\ wallets' = wallets \cup {[address |-> x.address, user |-> u]}
  BY <1>1, <1>2 DEF landed
<1>4. x.email \in Emails \cup {NULL}
  BY <1>1 DEF AccountTypes, HandTyped
<1>5. NewUser(a, TRUE) \in Rows'
  BY DEF NewUser, Rows
<1>6. \A v \in DOMAIN users' : users'[v] \in Rows' \/ (v \in DOMAIN users /\ users'[v] = users[v])
  BY <1>3, <1>5 DEF inserted
<1>7. \A v \in DOMAIN profiles' :
        profiles'[v] \in ProfileRows' \/ (v \in DOMAIN profiles /\ profiles'[v] = profiles[v])
  BY <1>3, <1>4, NewProfileTyped
<1>8. HandTyped(Idle)'
  BY IdleTyped, TypesGrow
<1> QED BY <1>1, <1>3, <1>6, <1>7, <1>8, TypesKept

LEMMA WalletStepTyped ==
  ASSUME AccountsInv, AccountTypes, NEW r \in Requests,
         \/ walletProfile(r) \/ walletWork(r) \/ commitTransaction(r) \/ commitKeepsNothing(r)
         \/ createUserWithWallet(r)
  PROVE  AccountTypes'
<1>1. HandTyped(requests[r]) /\ IsRequest(requests[r])
  BY DEF AccountTypes, AccountsInv, RequestOK
<1>2. CASE walletProfile(r)
  <2>1. PICK x : x = requests[r]
    OBVIOUS
  <2>2. /\ profiles' \in {profiles, inserted(profiles, x.user, profileOf(x.email))}
        /\ UNCHANGED <<users, wallets, tokens, supply, expired>> /\ x.step = "wallet"
    BY <1>2, <2>1 DEF walletProfile
  <2>3. PICK h : h = [x EXCEPT !.email = NULL]
    OBVIOUS
  <2>4. h.step = x.step /\ h.email = NULL /\ h.address = x.address
    BY <1>1, <2>1, <2>3 DEF IsRequest
  <2>5. HandTyped(h) /\ hold(r, h)
    BY <1>1, <1>2, <2>1, <2>2, <2>3, <2>4 DEF HandTyped, walletProfile
  <2>6. HandTyped(h)' /\ x.email \in Emails \cup {NULL}
    BY <1>1, <2>1, <2>2, <2>5, TypesGrow DEF HandTyped
  <2> QED BY <2>2, <2>5, <2>6, NewProfileTyped, TypesKept
<1>3. CASE walletWork(r)
  <2>1. requests[r].step = "wallet" /\ UNCHANGED <<tables, expired, supply>>
    BY <1>3 DEF walletWork
  <2>2. ASSUME NEW s \in {"commit", "doomed"}, hold(r, [requests[r] EXCEPT !.step = s]) PROVE AccountTypes'
    <3>1. HandTyped([requests[r] EXCEPT !.step = s])
      BY <2>1, NextStepTyped DEF Steps
    <3> QED BY <2>1, <2>2, <3>1, HandKept
  <2>3. CASE hold(r, Idle)
    BY <2>1, <2>3, IdleTyped, HandKept
  <2> QED BY <1>3, <2>2, <2>3 DEF walletWork, finish
<1>4. CASE commitTransaction(r)
  <2>1. PICK u : tokens' = tokens \cup {tokenFor(u)}
    BY <1>4 DEF commitTransaction
  <2>2. /\ requests[r].step = "commit" /\ supply' = fresh /\ expired' = expired /\ hold(r, Idle)
        /\ landed(requests[r], requests[r].address, requests[r].email # NULL)
    BY <1>4 DEF commitTransaction, finish
  <2>3. requests[r].address \in Addresses
    BY <1>1, <2>2 DEF HandTyped
  <2> QED BY <2>1, <2>2, <2>3, LandedTyped DEF tokenFor
<1>5. CASE commitKeepsNothing(r)
  BY <1>5, IdleTyped, HandKept DEF commitKeepsNothing, finish
<1>6. CASE createUserWithWallet(r)
  <2>1. requests[r].step = "findOrCreate" /\ hold(r, Idle) /\ UNCHANGED <<tokens, expired>>
    BY <1>6 DEF createUserWithWallet, finish
  <2>2. CASE landed(requests[r], NULL, TRUE) /\ supply' = fresh
    <3>1. requests[r].address \in Addresses
      BY <1>1, <2>1 DEF HandTyped
    <3> QED BY <2>1, <2>2, <3>1, LandedTyped
  <2>3. CASE UNCHANGED <<users, profiles, wallets, supply>>
    BY <2>1, <2>3, IdleTyped, HandKept DEF tables
  <2> QED BY <1>6, <2>2, <2>3 DEF createUserWithWallet
<1> QED BY <1>2, <1>3, <1>4, <1>5, <1>6

\* A user saved whole, a new password, and tokens that are renewed.
LEMMA SavesTyped ==
  ASSUME AccountsInv, AccountTypes, NEW r \in Requests,
         newPassword(r) \/ save(r) \/ createRefreshToken(r) \/ deleteOldToken(r)
  PROVE  AccountTypes'
<1>1. HandTyped(requests[r]) /\ IsRequest(requests[r])
  BY DEF AccountTypes, AccountsInv, RequestOK
<1>2. CASE newPassword(r)
  <2>1. PICK x : x = requests[r]
    OBVIOUS
  <2>2. /\ x.step = "password" /\ x.user \in DOMAIN profiles
        /\ profiles' = [profiles EXCEPT ![x.user].password = x.row.reset]
        /\ UNCHANGED <<users, wallets, tokens, expired, supply>>
    BY <1>2, <2>1 DEF newPassword
  <2>3. x.row \in Rows /\ x.row.reset \in 0..supply
    <3>1. x.row \in Rows /\ x.row.reset # NULL
      BY <1>1, <2>1, <2>2 DEF HandTyped
    <3>2. x.row.reset \in 1..supply
      BY <3>1 DEF Rows
    <3> QED BY <3>1, <3>2
  <2>4. PICK row : row = [x.row EXCEPT !.reset = NULL]
    OBVIOUS
  <2>5. row \in Rows
    BY <2>3, <2>4 DEF Rows
  <2>6. PICK h : h = [x EXCEPT !.step = "save", !.row = row]
    OBVIOUS
  <2>7. h.step = "save" /\ h.row = row /\ h.email = x.email /\ h.address = x.address
    BY <1>1, <2>1, <2>6 DEF IsRequest
  <2>8. HandTyped(h) /\ hold(r, h)
    BY <1>1, <1>2, <2>1, <2>4, <2>5, <2>6, <2>7 DEF HandTyped, Steps, newPassword
  <2>9. HandTyped(h)' /\ ProfileRows \subseteq ProfileRows'
    BY <2>2, <2>8, TypesGrow
  <2>10. [profiles[x.user] EXCEPT !.password = x.row.reset] \in ProfileRows
    BY <2>2, <2>3 DEF AccountTypes, ProfileRows
  <2>11. \A v \in DOMAIN profiles' :
           profiles'[v] \in ProfileRows' \/ (v \in DOMAIN profiles /\ profiles'[v] = profiles[v])
    BY <2>2, <2>9, <2>10
  <2> QED BY <2>2, <2>8, <2>9, <2>11, TypesKept
<1>3. CASE save(r)
  <2>1. /\ requests[r].step = "save" /\ users' = [users EXCEPT ![requests[r].user] = requests[r].row]
        /\ hold(r, Idle) /\ UNCHANGED <<profiles, wallets, tokens, expired, supply>>
    BY <1>3 DEF save, finish
  <2>2. requests[r].row \in Rows' /\ HandTyped(Idle)'
    BY <1>1, <2>1, IdleTyped, TypesGrow DEF HandTyped
  <2>3. \A u \in DOMAIN users' : users'[u] \in Rows' \/ (u \in DOMAIN users /\ users'[u] = users[u])
    BY <2>1, <2>2
  <2> QED BY <2>1, <2>2, <2>3, TypesKept
<1>4. CASE createRefreshToken(r)
  <2>1. /\ tokens' = tokens \cup {tokenFor(requests[r].user)} /\ supply' = fresh
        /\ hold(r, [requests[r] EXCEPT !.step = "drop"]) /\ UNCHANGED <<users, profiles, wallets, expired>>
    BY <1>4 DEF createRefreshToken
  <2>2. HandTyped([requests[r] EXCEPT !.step = "drop"])
    BY NextStepTyped DEF Steps
  <2>3. PICK h : h = [requests[r] EXCEPT !.step = "drop"]
    OBVIOUS
  <2>4. HandTyped(h)' /\ hold(r, h)
    BY <2>1, <2>2, <2>3, TypesGrow
  <2> QED BY <2>1, <2>4, TypesKept DEF tokenFor
<1>5. CASE deleteOldToken(r)
  <2>1. /\ tokens' \subseteq tokens /\ hold(r, Idle)
        /\ UNCHANGED <<users, profiles, wallets, expired, supply>>
    BY <1>5 DEF deleteOldToken, finish
  <2>2. HandTyped(Idle)'
    BY <2>1, IdleTyped, TypesGrow
  <2> QED BY <2>1, <2>2, TypesKept
<1> QED BY <1>2, <1>3, <1>4, <1>5

LEMMA AccountTypesStep == ASSUME AccountsInv, AccountTypes, [AuthNext]_authVars PROVE AccountTypes'
<1>1. ASSUME UNCHANGED <<tables, supply>>, expired' \subseteq 1..supply,
             \A r \in Requests : requests'[r] \in {requests[r], Idle}
      PROVE  AccountTypes'
  <2>1. users' = users /\ profiles' = profiles /\ wallets' = wallets /\ tokens' = tokens /\ supply' = supply
    BY <1>1 DEF tables
  <2>2. ASSUME NEW r \in Requests PROVE HandTyped(requests[r])'
    <3>1. PICK g : g = requests'[r]
      OBVIOUS
    <3>2. HandTyped(g)'
      BY <1>1, <2>1, <3>1, IdleTyped, TypesGrow DEF AccountTypes
    <3> QED BY <3>1, <3>2
  <2>3. Rows' = Rows /\ ProfileRows' = ProfileRows
    BY <2>1 DEF Rows, ProfileRows
  <2> QED BY <1>1, <2>1, <2>2, <2>3 DEF AccountTypes
<1>2. ASSUME NEW r \in Requests, Registration(r) PROVE AccountTypes'
  BY <1>2, RequestsBeginTyped, RegistrationTyped DEF Registration
<1>3. ASSUME NEW r \in Requests, WalletStep(r) PROVE AccountTypes'
  BY <1>3, RequestsBeginTyped, WalletStepTyped DEF WalletStep
<1>4. ASSUME NEW r \in Requests, AccountStep(r) PROVE AccountTypes'
  BY <1>4, RequestsBeginTyped, SavesTyped DEF AccountStep
<1>5. ASSUME NEW r \in Requests, RefreshStep(r) PROVE AccountTypes'
  BY <1>5, RequestsBeginTyped, SavesTyped DEF RefreshStep
<1>6. ASSUME NEW r \in Requests, writeFails(r) PROVE AccountTypes'
  BY <1>6, IdleTyped, HandKept DEF writeFails, finish
<1>7. ASSUME NEW s \in 1..supply, expire(s) PROVE AccountTypes'
  BY <1>1, <1>7 DEF expire, AccountTypes
<1>8. CASE crash
  BY <1>1, <1>8 DEF crash, AccountTypes
<1>9. CASE UNCHANGED authVars
  BY <1>1, <1>9 DEF authVars, AccountTypes
<1> QED BY <1>2, <1>3, <1>4, <1>5, <1>6, <1>7, <1>8, <1>9 DEF AuthNext

LEMMA AccountTypesInit == AuthInit => AccountTypes
  BY IdleTyped DEF AuthInit, AccountTypes

\* With the owners of the rows, these are the types of the tables.
LEMMA AccountsTyped == AccountsInv /\ AccountTypes => AuthTypeOK
<1> SUFFICES ASSUME AccountsInv, AccountTypes PROVE AuthTypeOK
  OBVIOUS
<1>1. supply \in Nat /\ DOMAIN users \subseteq 1..supply /\ Rooted \subseteq 1..supply
  BY DEF AccountsInv
<1>2. \A w \in wallets : w.user \in 1..supply /\ w = [address |-> w.address, user |-> w.user]
                         /\ w.address \in Addresses
  BY <1>1 DEF Rooted, AccountTypes
<1>3. \A t \in tokens : t.user \in 1..supply /\ t.secret \in 1..supply
                        /\ t = [secret |-> t.secret, user |-> t.user]
  BY <1>1 DEF AccountsInv, AccountTypes
<1>4. wallets \subseteq [address : Addresses, user : 1..supply]
  BY <1>2
<1>5. tokens \subseteq [secret : 1..supply, user : 1..supply]
  BY <1>3
<1> QED BY <1>1, <1>4, <1>5 DEF AuthTypeOK, AccountTypes, HandTyped, ProfileRows

-----------------------------------------------------------------------------
(* The types of the challenges: what is kept is for addresses that asked,   *)
(* at times that have been.                                                 *)

AskedRow(c) == c.timestamp \in 0..clock /\ c.requestCount \in 1..MAX_CHALLENGE_REQUESTS

AwaitTyped(x) ==
  /\ x.step \in {"idle", "first"} /\ x.at \in 0..clock
  /\ x.step = "first" => x.address \in Askers

ChallengeTypes ==
  /\ clock \in 0..MaxClock /\ issued \in 0..MaxTokens
  /\ DOMAIN asked \subseteq Askers /\ \A a \in DOMAIN asked : AskedRow(asked[a])
  /\ DOMAIN recoveryCache \subseteq 1..issued
  /\ handlers = [h \in Handlers |-> handlers[h]]
  /\ \A h \in Handlers : AwaitTyped(handlers[h])

LEMMA NoneTyped == ASSUME ChallengeTypes PROVE AwaitTyped(None)
  BY ChallengesAssumption DEF ChallengeTypes, AwaitTyped, None

\* Only what was asked changes, and what one request awaits.
LEMMA AskedTyped ==
  ASSUME ChallengeTypes, NEW h \in Handlers, NEW x, AwaitTyped(x),
         handlers' = [handlers EXCEPT ![h] = x] \/ handlers' = handlers,
         DOMAIN asked' \subseteq Askers, \A a \in DOMAIN asked' : AskedRow(asked'[a]),
         UNCHANGED <<clock, issued, recoveryCache>>
  PROVE  ChallengeTypes'
<1>1. handlers' = [g \in Handlers |-> handlers'[g]] /\ \A g \in Handlers : AwaitTyped(handlers'[g])
  BY DEF ChallengeTypes
<1> QED BY <1>1 DEF ChallengeTypes, AskedRow, AwaitTyped

\* The same, where no request is concerned.
LEMMA AskedAlone ==
  ASSUME ChallengeTypes, DOMAIN asked' \subseteq Askers, \A a \in DOMAIN asked' : AskedRow(asked'[a]),
         UNCHANGED <<clock, issued, recoveryCache, handlers>>
  PROVE  ChallengeTypes'
  BY DEF ChallengeTypes, AskedRow, AwaitTyped

LEMMA FirstAnswerTyped ==
  ASSUME ChallengeTypes, NEW h \in Handlers, firstAnswer(h) PROVE ChallengeTypes'
<1>1. PICK x : x = handlers[h]
  OBVIOUS
<1>2. x.address \in Askers /\ x.at \in 0..clock
  BY <1>1 DEF ChallengeTypes, AwaitTyped, firstAnswer
<1>3. PICK row : row = [timestamp |-> x.at, requestCount |-> 1]
  OBVIOUS
<1>4. AskedRow(row)
  BY <1>2, <1>3, ChallengesAssumption DEF AskedRow
<1>5. PICK f : f = [a \in DOMAIN asked \cup {x.address} |-> IF a = x.address THEN row ELSE asked[a]]
  OBVIOUS
<1>6. DOMAIN f \subseteq Askers /\ \A a \in DOMAIN f : AskedRow(f[a])
  BY <1>2, <1>4, <1>5 DEF ChallengeTypes
<1>7. asked' = keep(f, LAMBDA c : clock - c.timestamp <= CHALLENGE_CACHE_EXPIRY)
  BY <1>1, <1>3, <1>5 DEF firstAnswer
<1>8. DOMAIN asked' \subseteq DOMAIN f /\ \A a \in DOMAIN asked' : asked'[a] = f[a]
  BY <1>7 DEF keep, Restrict
<1>9. handlers' = [handlers EXCEPT ![h] = None] /\ UNCHANGED <<clock, issued, recoveryCache>>
  BY DEF firstAnswer, answers
<1> QED BY <1>6, <1>8, <1>9, NoneTyped, AskedTyped

LEMMA ChallengeTypesInit == ChallengesInit => ChallengeTypes
<1> SUFFICES ASSUME ChallengesInit PROVE ChallengeTypes
  OBVIOUS
<1>1. clock = 0 /\ issued = 0 /\ DOMAIN asked = {} /\ DOMAIN recoveryCache = {}
  BY DEF ChallengesInit
<1>2. clock \in 0..MaxClock /\ issued \in 0..MaxTokens /\ 0 \in 0..clock
  BY <1>1, ChallengesAssumption
<1>3. AwaitTyped(None)
  BY <1>2 DEF AwaitTyped, None
<1> QED BY <1>1, <1>2, <1>3 DEF ChallengesInit, ChallengeTypes

LEMMA ChallengeTypesStep ==
  ASSUME ChallengeTypes, [ChallengesNext]_challengeVars PROVE ChallengeTypes'
<1>0. /\ clock \in Nat /\ MaxClock \in Nat /\ MaxTokens \in Nat /\ issued \in Nat
      /\ DOMAIN asked \subseteq Askers /\ \A a \in DOMAIN asked : AskedRow(asked[a])
      /\ \A g \in Handlers : AwaitTyped(handlers[g])
  BY ChallengesAssumption DEF ChallengeTypes
<1>1. CASE ticks
  <2>1. clock' = clock + 1 /\ clock' \in 0..MaxClock /\ 0..clock \subseteq 0..clock'
        /\ UNCHANGED <<asked, recoveryCache, issued, handlers>>
    BY <1>0, <1>1 DEF ticks
  <2>2. \A a \in DOMAIN asked : AskedRow(asked[a])'
    BY <1>0, <2>1 DEF AskedRow
  <2>3. \A h \in Handlers : AwaitTyped(handlers[h])'
    BY <1>0, <2>1 DEF AwaitTyped
  <2> QED BY <2>1, <2>2, <2>3 DEF ChallengeTypes
<1>2. ASSUME NEW a \in Askers, repeatedRequest(a) PROVE ChallengeTypes'
  <2>1. PICK row : row = [timestamp |-> clock, requestCount |-> asked[a].requestCount + 1]
    OBVIOUS
  <2>2. asked' = [asked EXCEPT ![a] = row] /\ UNCHANGED <<clock, recoveryCache, issued, handlers>>
    BY <1>2, <2>1 DEF repeatedRequest
  <2>3. /\ asked[a].requestCount \in 1..MAX_CHALLENGE_REQUESTS
        /\ asked[a].requestCount < MAX_CHALLENGE_REQUESTS
    BY <1>0, <1>2 DEF repeatedRequest, AskedRow
  <2>4. AskedRow(row)
    BY <1>0, <2>1, <2>3, ChallengesAssumption DEF AskedRow
  <2> QED BY <1>0, <2>2, <2>4, AskedAlone
<1>3. ASSUME NEW a \in Askers, walletAuthenticate(a) PROVE ChallengeTypes'
  <2>1. DOMAIN asked' \subseteq DOMAIN asked /\ \A b \in DOMAIN asked' : asked'[b] = asked[b]
    BY <1>3 DEF walletAuthenticate, Restrict
  <2>2. UNCHANGED <<clock, recoveryCache, issued, handlers>>
    BY <1>3 DEF walletAuthenticate
  <2> QED BY <1>0, <2>1, <2>2, AskedAlone
<1>4. ASSUME NEW a \in Askers, recoveryChallenge(a) PROVE ChallengeTypes'
  <2>1. issued' = issued + 1 /\ issued' \in 0..MaxTokens /\ UNCHANGED <<clock, asked, handlers>>
    BY <1>0, <1>4 DEF recoveryChallenge
  <2>2. DOMAIN recoveryCache' \subseteq DOMAIN recoveryCache \cup {issued + 1}
    BY <1>4 DEF recoveryChallenge, cleanupExpiredRecoveryTokens, keep, Restrict
  <2>3. DOMAIN recoveryCache' \subseteq 1..issued'
    BY <1>0, <2>1, <2>2 DEF ChallengeTypes
  <2> QED BY <2>1, <2>3 DEF ChallengeTypes, AskedRow, AwaitTyped
<1>5. ASSUME NEW a \in Askers, NEW h \in Handlers, firstRequest(h, a) PROVE ChallengeTypes'
  <2>1. PICK x : x = [step |-> "first", address |-> a, at |-> clock]
    OBVIOUS
  <2>2. AwaitTyped(x)
    BY <1>0, <2>1 DEF AwaitTyped
  <2>3. handlers' = [handlers EXCEPT ![h] = x] /\ UNCHANGED <<clock, asked, recoveryCache, issued>>
    BY <1>5, <2>1 DEF firstRequest
  <2> QED BY <1>0, <2>2, <2>3, AskedTyped
<1>6. ASSUME NEW h \in Handlers, firstAnswer(h) PROVE ChallengeTypes'
  BY <1>6, FirstAnswerTyped
<1>7. ASSUME NEW h \in Handlers, requestFails(h) PROVE ChallengeTypes'
  <2>1. handlers' = [handlers EXCEPT ![h] = None] /\ UNCHANGED <<clock, asked, recoveryCache, issued>>
    BY <1>7 DEF requestFails, answers
  <2> QED BY <1>0, <2>1, NoneTyped, AskedTyped
<1>8. CASE UNCHANGED challengeVars
  BY <1>0, <1>8, AskedAlone DEF challengeVars
<1> QED BY <1>1, <1>2, <1>3, <1>4, <1>5, <1>6, <1>7, <1>8 DEF ChallengesNext

LEMMA ChallengesTyped == ChallengeTypes => ChallengesTypeOK
  BY DEF ChallengeTypes, ChallengesTypeOK, AskedRow, AwaitTyped
=============================================================================
