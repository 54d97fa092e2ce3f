-------------------------- MODULE MCAgentLifecycle --------------------------
(***************************************************************************)
(* TLC instances of AgentLifecycle: a daemon whose config wires Solana and *)
(* Bittensor, an agent whose inference provider is not configured, and one *)
(* on an EVM chain for which there is no 1inch key.                        *)
(***************************************************************************)
EXTENDS AgentLifecycle, AgentBuilder, TLC

CONSTANTS basis1, taobot, dca   \* agents

MCProcess ==
    [strategies |-> {"basis", "alpha_dca", "dca_buy"}, providers |-> {}, override |-> "",
     passphrase |-> TRUE, keys |-> {"hyperliquid", "solana", "bittensor"},
     solana |-> [rpc |-> TRUE, mode |-> "", bundle |-> TRUE], bittensor |-> [rpc |-> TRUE],
     evm |-> [apiKey |-> FALSE, chains |-> {"base"}]]

MCRecords ==
    basis1 :> [strategy |-> "basis", accepted |-> TRUE, inference |-> <<>>, network |-> "testnet",
               chain |-> "solana"]
    @@ taobot :> [strategy |-> "alpha_dca", accepted |-> TRUE, inference |-> <<"openrouter">>,
                  network |-> "", chain |-> "bittensor"]
    @@ dca :> [strategy |-> "dca_buy", accepted |-> TRUE, inference |-> <<>>, network |-> "",
               chain |-> "base"]

\* The commands run and kill pass no Bittensor options to the builder.
Config(host) == IF host = "daemon" THEN MCProcess ELSE [MCProcess EXCEPT !.bittensor.rpc = FALSE]

Built(a, host) == BuildDeps(MCRecords[a], Config(host), openKeystoreForServe(Config(host)))

MCBroken  == [host \in {"daemon", "shell", "kill"} |-> {a \in Agents : ~Built(a, host).ok}]
MCUnwired == {a \in Agents : MCRecords[a].chain \notin Built(a, "kill").swaps}
=============================================================================
