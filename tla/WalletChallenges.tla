-------------------------- MODULE WalletChallenges --------------------------
(***************************************************************************)
(* The challenges of wallet login, kept in the memory of two controllers:  *)
(* auth/auth.controller.ts limits how often an address asks and hears of   *)
(* logins; of auth/controllers/wallet-auth.controller.ts only the recovery *)
(* challenge is reached, since the other controller is registered before   *)
(* it on the same routes.  A request is cut where it awaits the service.   *)
(* Time is a clock of ticks.                                               *)
(***************************************************************************)
EXTENDS Naturals, FiniteSets, Functions

CONSTANTS
  Askers,                    \* wallet addresses
  Handlers,                  \* requests in flight
  MaxClock, MaxTokens,       \* bounds: ticks, recovery tokens
  MIN_CHALLENGE_INTERVAL, MAX_CHALLENGE_REQUESTS, CHALLENGE_CACHE_EXPIRY,
  RECOVERY_EXPIRATION

ASSUME ChallengesAssumption ==
  MaxClock \in Nat /\ MaxTokens \in Nat /\ MAX_CHALLENGE_REQUESTS \in Nat \ {0}

VARIABLES
  clock,
  asked,            \* auth.controller: address |-> [timestamp, requestCount]
  recoveryCache,    \* wallet-auth.controller: token |-> [address, expiresAt]
  issued,           \* recovery tokens so far
  handlers          \* what each request awaits

challengeVars == <<clock, asked, recoveryCache, issued, handlers>>

None == [step |-> "idle", address |-> CHOOSE a \in Askers : TRUE, at |-> 0]

keep(f, Test(_)) == Restrict(f, {k \in DOMAIN f : Test(f[k])})
answers(h) == handlers' = [handlers EXCEPT ![h] = None]
free(h) == handlers[h] = None

ChallengesInit ==
  /\ clock = 0 /\ issued = 0 /\ asked = <<>> /\ recoveryCache = <<>>
  /\ handlers = [h \in Handlers |-> None]

ticks == /\ clock < MaxClock /\ clock' = clock + 1
         /\ UNCHANGED <<asked, recoveryCache, issued, handlers>>

-----------------------------------------------------------------------------
(* auth.controller.ts                                                      *)

firstRequest(h, a) ==
  /\ free(h) /\ a \notin DOMAIN asked
  /\ handlers' = [handlers EXCEPT ![h] = [step |-> "first", address |-> a, at |-> clock]]
  /\ UNCHANGED <<clock, asked, recoveryCache, issued>>

\* Refused requests change nothing.
repeatedRequest(a) ==
  /\ a \in DOMAIN asked
  /\ clock - asked[a].timestamp >= MIN_CHALLENGE_INTERVAL
  /\ asked[a].requestCount < MAX_CHALLENGE_REQUESTS
  /\ asked' = [asked EXCEPT ![a] = [timestamp |-> clock, requestCount |-> @.requestCount + 1]]
  /\ UNCHANGED <<clock, recoveryCache, issued, handlers>>

\* The first answer, with the time at which it was asked for; cleanupChallengeCache.
firstAnswer(h) ==
  /\ handlers[h].step = "first"
  /\ asked' = keep([a \in DOMAIN asked \cup {handlers[h].address} |->
                      IF a = handlers[h].address
                      THEN [timestamp |-> handlers[h].at, requestCount |-> 1] ELSE asked[a]],
                   LAMBDA c : clock - c.timestamp <= CHALLENGE_CACHE_EXPIRY)
  /\ answers(h)
  /\ UNCHANGED <<clock, recoveryCache, issued>>

\* walletAuthenticate succeeds, or a test asks: the entry goes.  authenticateWallet logs
\* in on the wallet's signature, or on whatever begins 'valid_recovery:', and looks at
\* no token of the recoveryCache: the login needs nothing of this state, and takes
\* nothing else of it.
walletAuthenticate(a) ==
  /\ a \in DOMAIN asked
  /\ asked' = Restrict(asked, DOMAIN asked \ {a})
  /\ UNCHANGED <<clock, recoveryCache, issued, handlers>>

\* The service refuses, or its database does.
requestFails(h) ==
  /\ ~free(h) /\ answers(h)
  /\ UNCHANGED <<clock, asked, recoveryCache, issued>>

-----------------------------------------------------------------------------
(* wallet-auth.controller.ts                                               *)

cleanupExpiredRecoveryTokens(cache) == keep(cache, LAMBDA r : r.expiresAt >= clock)

recoveryChallenge(a) ==
  /\ issued < MaxTokens /\ issued' = issued + 1
  /\ recoveryCache' = cleanupExpiredRecoveryTokens(
       [t \in DOMAIN recoveryCache \cup {issued + 1} |->
          IF t = issued + 1 THEN [address |-> a, expiresAt |-> clock + RECOVERY_EXPIRATION]
          ELSE recoveryCache[t]])
  /\ UNCHANGED <<clock, asked, handlers>>

ChallengesNext ==
  \/ ticks
  \/ \E a \in Askers : \/ repeatedRequest(a) \/ walletAuthenticate(a) \/ recoveryChallenge(a)
                       \/ \E h \in Handlers : firstRequest(h, a)
  \/ \E h \in Handlers : firstAnswer(h) \/ requestFails(h)

ChallengesSpec == ChallengesInit /\ [][ChallengesNext]_challengeVars

-----------------------------------------------------------------------------
ChallengesTypeOK ==
  /\ clock \in 0..MaxClock /\ issued \in 0..MaxTokens
  /\ \A a \in DOMAIN asked : a \in Askers /\ asked[a].timestamp \in 0..clock
                             /\ asked[a].requestCount \in 1..MAX_CHALLENGE_REQUESTS
  /\ DOMAIN recoveryCache \subseteq 1..issued
  /\ \A h \in Handlers : handlers[h].step \in {"idle", "first"}
=============================================================================
