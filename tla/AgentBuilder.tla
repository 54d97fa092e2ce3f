---------------------------- MODULE AgentBuilder ----------------------------
(***************************************************************************)
(* What the builder makes of an agent's record, the process's config and   *)
(* the keystore: whether the agent's Runtime can be built at all and which *)
(* chains it really swaps on.  It decides who is Broken and who is Unwired *)
(* in AgentLifecycle.                                                      *)
(*                                                                         *)
(* A record is [strategy, accepted, inference, network]: accepted tells    *)
(* whether the strategy's constructor takes the config, inference is <<>>  *)
(* or the provider named before the colon.  A process is [strategies,      *)
(* providers, override, passphrase, keys, solana, bittensor, evm]: what    *)
(* is compiled in, configured and stored in the keystore.                  *)
(***************************************************************************)
EXTENDS FiniteSets

EVMChains == {"ethereum", "base", "avalanche", "bsc"}

\* Without a passphrase the daemon goes on with no keystore.
openKeystoreForServe(p) == IF p.passphrase THEN p.keys ELSE {}

BuildStrategy(a, p) == a.strategy \in p.strategies /\ a.accepted

\* No inference is fine; one that cannot be found is an error.
resolveInference(spec, providers) == spec = <<>> \/ (spec[1] # "" /\ spec[1] \in providers)

\* The override of the process, else the agent's network, else mainnet.
NetworkOf(a, p) ==
    IF p.override # "" THEN p.override ELSE IF a.network # "" THEN a.network ELSE "mainnet"

\* A network is one of two.
BuildHyperliquidVenue(network) == network \in {"mainnet", "testnet"}

-----------------------------------------------------------------------------
(* Swap venues: "off" without config, "unsigned" without a key, "error"    *)
(* when the constructor refuses.                                           *)

\* Jito, the default mode, needs a bundle URL.
BuildSolanaSwapVenue(cfg, keys) ==
    IF ~cfg.rpc THEN "off" ELSE IF "solana" \notin keys THEN "unsigned"
    ELSE IF cfg.mode \in {"", "jito"} /\ ~cfg.bundle THEN "error" ELSE "venue"

BuildBittensorSwapVenue(cfg, keys) ==
    IF ~cfg.rpc THEN "off" ELSE IF "bittensor" \notin keys THEN "unsigned" ELSE "venue"

\* Of the chains with an RPC URL those of other names are dropped, and all of
\* them without a 1inch key.
evmSpotsFromConfig(cfg) == IF cfg.apiKey THEN cfg.chains \intersect EVMChains ELSE {}

\* The key of an EVM chain is the Hyperliquid one.
BuildEVMSwapVenue(keys) == IF "hyperliquid" \notin keys THEN "unsigned" ELSE "venue"

SwapVenue(p, keys, chain) ==
    CASE chain = "solana"    -> BuildSolanaSwapVenue(p.solana, keys)
      [] chain = "bittensor" -> BuildBittensorSwapVenue(p.bittensor, keys)
      [] chain \in EVMChains -> IF chain \in evmSpotsFromConfig(p.evm)
                                THEN BuildEVMSwapVenue(keys) ELSE "off"

Chains == {"solana", "bittensor"} \union EVMChains

\* A chain without a key is left to paper bookkeeping; a chain whose venue
\* cannot be constructed is an error, for agents that never trade there too.
BuildDeps(a, p, keys) ==
    LET venue(c) == SwapVenue(p, keys, c)
    IN  [ok    |-> /\ BuildStrategy(a, p)
                   /\ resolveInference(a.inference, p.providers)
                   /\ BuildHyperliquidVenue(NetworkOf(a, p))
                   /\ \A c \in Chains : venue(c) # "error",
         swaps |-> {c \in Chains : venue(c) = "venue"}]
=============================================================================
