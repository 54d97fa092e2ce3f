--------------------------- MODULE MCHyperliquid ---------------------------
(***************************************************************************)
(* TLC instance of Hyperliquid (a daemon with two goroutines and the       *)
(* command line's kill switch, on one account) and of MarketStreams.  They *)
(* have no state in common, so a behaviour runs one of them: the venue     *)
(* when no stream is opened.                                               *)
(***************************************************************************)
EXTENDS Hyperliquid, MarketStreams, TLC

CONSTANTS daemon, cli, tick, api, kill   \* venues and callers

MCVenueOf == (tick :> daemon) @@ (api :> daemon) @@ (kill :> cli)

\* Sizes in thirds of a step.
MCIntents == {[coin |-> "ETH", size |-> 7, tif |-> "fok", cid |-> 1],
              [coin |-> "ETH", size |-> 5, tif |-> "gtc", cid |-> 2],
              [coin |-> "NEW", size |-> 3, tif |-> "alo", cid |-> 3]}

MCInit == Init /\ StreamInit

MCNext ==
    \/ opened = "none" /\ Next /\ UNCHANGED streamVars
    \/ opened # "none" /\ StreamNext /\ UNCHANGED vars

MCSpec == MCInit /\ [][MCNext]_<<vars, streamVars>> /\ StreamFairness
=============================================================================
