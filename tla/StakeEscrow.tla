----------------------------- MODULE StakeEscrow -----------------------------
(***************************************************************************)
(* What staking promises: a pot that holds everybody's stakes.  A stake    *)
(* enters the pot, stays there whatever else happens, and leaves it once,  *)
(* whole, for the one who made it.  Anybody may add to the pot; nothing    *)
(* else takes from a pot that has something in it.                         *)
(***************************************************************************)
EXTENDS Integers, Sequences

CONSTANT Stakers

VARIABLES
  pot,    \* the tokens held for the stakers, and what others have added,
          \* less what the pot has been overdrawn by
  held    \* the stakes of each staker, in the order they were made; 0 is returned

escrowVars == <<pot, held>>

EscrowInit ==
  /\ pot = 0
  /\ held = [s \in Stakers |-> <<>>]

Deposit(s, amount) ==
  /\ amount > 0
  /\ pot' = pot + amount
  /\ held' = [held EXCEPT ![s] = Append(@, amount)]

Return(s, i) ==
  /\ held[s][i] > 0
  /\ pot' = pot - held[s][i]
  /\ held' = [held EXCEPT ![s][i] = 0]

Fund ==
  /\ pot' >= pot
  /\ UNCHANGED held

\* A pot with nothing in it can be overdrawn: what it owes is taken from the
\* stakes that come later.
Overdraw ==
  /\ pot <= 0
  /\ pot' < pot
  /\ UNCHANGED held

EscrowNext ==
  \/ Fund
  \/ \E s \in Stakers : Deposit(s, pot' - pot)
  \/ \E s \in Stakers : \E i \in DOMAIN held[s] : Return(s, i)
  \/ Overdraw

EscrowSpec == EscrowInit /\ [][EscrowNext]_escrowVars
=============================================================================
