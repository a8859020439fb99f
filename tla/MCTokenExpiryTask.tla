-------------------------- MODULE MCTokenExpiryTask --------------------------
(***************************************************************************)
(* Instances of TokenExpiryTask for TLC: alice and bob are users, a service *)
(* mints for them, and they neither transfer nor stake.                    *)
(***************************************************************************)
EXTENDS MCSHAHICoin, TokenExpiryTask

=============================================================================
