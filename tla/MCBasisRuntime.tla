--------------------------- MODULE MCBasisRuntime ---------------------------
(***************************************************************************)
(* TLC instances of BasisRuntime.  A decision composes one choice per key. *)
(***************************************************************************)
EXTENDS BasisRuntime, TLC

CONSTANTS
    BTC, ETH,   \* the two keys
    Choices     \* what the strategy may ask for one key

Swap(k, opening, i) == [key |-> k, opening |-> opening, idx |-> i]
Order1(k, kind)     == [key |-> k, kind |-> kind, idx |-> 1]

SwapsOf(k, c) ==
    CASE c \in {"open", "buy"} -> {Swap(k, TRUE, 1)}
      [] c = "split"           -> {Swap(k, TRUE, 1), Swap(k, TRUE, 2)}
      [] c = "close"           -> {Swap(k, FALSE, 1)}
      [] c = "roll"            -> {Swap(k, FALSE, 1), Swap(k, TRUE, 1)}
      [] OTHER                 -> {}

OrdersOf(k, c) ==
    CASE c \in {"open", "sell", "split", "roll"} -> {Order1(k, "short")}
      [] c = "close"            -> {Order1(k, "reduce")}
      [] c = "quote"            -> {Order1(k, "bid"), Order1(k, "short")}
      [] OTHER                  -> {}

\* buy: dca_buy; quote: market_maker_basic; open and close: a basis strategy;
\* split: one that buys its spot leg in two swaps; roll: one that swaps the key
\* both ways in one tick.
MCPlans ==
    { [swaps  |-> UNION {SwapsOf(k, f[k]) : k \in Keys},
       orders |-> UNION {OrdersOf(k, f[k]) : k \in Keys}] : f \in [Keys -> Choices] }

Sym == Permutations(Keys)
=============================================================================
