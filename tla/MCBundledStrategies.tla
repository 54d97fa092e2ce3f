------------------------ MODULE MCBundledStrategies --------------------------
(* An instance of BundledStrategies for TLC. *)
EXTENDS BundledStrategies

CONSTANTS n1, n2

TwoSubnets == {n1, n2}
AllKinds   == {"dca_buy", "alpha_dca", "alpha_momentum", "alpha_yield", "market_maker_basic"}
Configs    == {Known(c, w, k, s) : c \in {-2, 0, 2}, w \in {2, 3}, k \in {-1, 1}, s \in {Absent, Bad, 1}}
=============================================================================
