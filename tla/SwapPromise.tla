----------------------------- MODULE SwapPromise -----------------------------
(***************************************************************************)
(* What a SwapVenue promises its callers, with no mention of approvals,    *)
(* nonces or polling: a call broadcasts at most one swap, and it reports a *)
(* swap confirmed or failed only when the chain has so decided.  An error  *)
(* or a "pending" says nothing about the swap.                             *)
(***************************************************************************)
CONSTANT Callers

VARIABLES
    swap,   \* what became of the swap of a caller's current call
    told    \* what the call has returned

promiseVars == <<swap, told>>

Fates   == {"none", "open", "landed", "failed", "void"}
Answers == {"nothing", "error", "pending", "confirmed", "failed"}

Init == swap = [c \in Callers |-> "none"] /\ told = [c \in Callers |-> "nothing"]

Begin(c) ==
    /\ swap' = [swap EXCEPT ![c] = "none"]
    /\ told' = [told EXCEPT ![c] = "nothing"]

\* A broadcast whose answer is lost ends the call with an error; a broadcast
\* may take the place of swaps of other callers.
Broadcast(c) ==
    /\ swap[c] = "none" /\ told[c] = "nothing"
    /\ \E replaced \in SUBSET {d \in Callers : swap[d] = "open"} :
           swap' = [d \in Callers |-> IF d = c THEN "open"
                                      ELSE IF d \in replaced THEN "void" ELSE swap[d]]
    /\ told' = told \/ told' = [told EXCEPT ![c] = "error"]

Replace ==
    /\ \E replaced \in SUBSET {d \in Callers : swap[d] = "open"} :
           swap' = [d \in Callers |-> IF d \in replaced THEN "void" ELSE swap[d]]
    /\ \/ told' = told
       \/ \E c \in Callers : told[c] = "nothing" /\ told' = [told EXCEPT ![c] = "error"]

Settle(c) ==
    /\ swap[c] = "open"
    /\ \E f \in {"landed", "failed", "void"} : swap' = [swap EXCEPT ![c] = f]
    /\ UNCHANGED told

Report(c) ==
    /\ told[c] = "nothing"
    /\ \E a \in Answers \ {"nothing"} :
        /\ a = "confirmed" => swap[c] = "landed"
        /\ a = "failed" => swap[c] = "failed"
        /\ a = "pending" => swap[c] # "none"
        /\ told' = [told EXCEPT ![c] = a]
    /\ UNCHANGED swap

Next == Replace \/ \E c \in Callers : Begin(c) \/ Broadcast(c) \/ Settle(c) \/ Report(c)

Spec == Init /\ [][Next]_promiseVars
=============================================================================
