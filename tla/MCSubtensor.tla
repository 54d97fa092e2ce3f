---------------------------- MODULE MCSubtensor ----------------------------
(***************************************************************************)
(* An instance of Subtensor for TLC: an agent that may submit, a noise     *)
(* trader and a bootstrap, all signing with the same development key.      *)
(***************************************************************************)
EXTENDS Subtensor, TLC

CONSTANTS taobot, noise, boot1   \* processes

\* Half RAO: a RAO and a half, and more than a u64 holds.
MCAmounts == {3, 7}

\* Who makes how many calls in a behaviour: a swap beside a trade; a trade beside
\* a registration that is started; and a bootstrap that is run again because its
\* registration had not shown in time.
Casts == {(taobot :> 1) @@ (noise :> 1), (boot1 :> 2) @@ (noise :> 1), boot1 :> 3}

MCCalls == (taobot :> 1) @@ (noise :> 1) @@ (boot1 :> 3)

\* The calls that are not the cast's have been made.
Made(cast) == [p \in Procs |-> IF p \in DOMAIN cast THEN MaxCalls[p] - cast[p] ELSE MaxCalls[p]]

MCInit ==
    /\ nonce = 0 /\ pool = {}
    /\ owner = [n \in Slots |-> IF n \in Netuids \cup {0} THEN "other" ELSE "none"]
    /\ \E cast \in Casts : proc = [p \in Procs |-> Idle(Made(cast)[p], "none", "unsent")]
    /\ boot = [p \in Bootstraps |-> NoBoot]

MCSpec == MCInit /\ [][Next]_vars /\ \A p \in Procs : WF_vars(Advance(p))
=============================================================================
