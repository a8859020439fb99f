----------------------------- MODULE MCSHAHICoin -----------------------------
(***************************************************************************)
(* Instances of SHAHICoin for TLC.  A run disables the operations it is    *)
(* not about by giving them an empty set of inputs.                        *)
(***************************************************************************)
EXTENDS SHAHICoin

CONSTANTS owner, wallet, alice, bob, contract, phone

None == {}

Tiers(one, six, three, default) ==
  [oneYearAPY |-> one, sixMonthAPY |-> six, threeMonthAPY |-> three, defaultAPY |-> default]

\* Staking: rates that make the small amounts pay.
StakingAPY == {Tiers(10000, 7500, 5000, 5000)}
StakingFlags == {<<alice, "INVESTOR">>, <<alice, "BLACKLISTED">>}

\* Minting: alice may be a service's minter, or blacklisted.
MintingFlags == {<<alice, "MINTER">>}
MintingBatches == {<<alice, contract>>, <<owner, alice, alice>>}
MintingTrees == {{owner, alice}}

\* Transfers: bob may be an app, alice may be blacklisted.
TransferFlags == {<<bob, "APP">>, <<alice, "BLACKLISTED">>}
TransferBatches == {<<alice>>}

=============================================================================
