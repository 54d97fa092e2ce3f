---------------------------- MODULE MCAccounting ----------------------------
(***************************************************************************)
(* TLC instances of the two sets of books: VaultLedger with two commands   *)
(* and two agents, and HedgeBook with two agents, two tokens, and sizes    *)
(* for which one token lost is exactly 25 bps, so that the tolerance and   *)
(* the two severities are met on both sides of their boundaries.  They     *)
(* have no state in common, so a behaviour runs one of them.               *)
(***************************************************************************)
EXTENDS VaultLedger, HedgeBook, TLC

CONSTANTS c1, c2, a1, a2

TwoCommands == {c1, c2}
SomeValues  == {-1, 5}
TwoAgents   == {a1, a2}

MCLimit == BuildRiskEngine([notional |-> <<2400>>, exposure |-> <<2000>>, count |-> <<2>>,
                            slippage |-> <<>>, dailyLoss |-> <<>>, drawdown |-> <<>>])

\* A limit on the loss of a day, and no other.
MCDailyLimit == BuildRiskEngine([notional |-> <<>>, exposure |-> <<>>, count |-> <<>>,
                                 slippage |-> <<>>, dailyLoss |-> <<300>>, drawdown |-> <<>>])

\* The vault asks nothing of the market: one will do.
OneMarket == price = (CHOOSE p \in Prices : TRUE) /\ premium = (CHOOSE p \in Premiums : TRUE)

MCInit == VaultInit /\ Init

MCNext ==
    \/ Init /\ OneMarket /\ VaultNext /\ UNCHANGED vars
    \/ VaultInit /\ Next /\ UNCHANGED vaultVars

MCSpec == MCInit /\ [][MCNext]_<<vars, vaultVars>>

Symmetry == Permutations(TwoCommands) \cup Permutations(Underlyings) \cup Permutations(Agents)
=============================================================================
