---------------------------- MODULE MCSwapVenues -----------------------------
(* Instances of SwapVenues for TLC: two 1inch callers and one Jupiter caller. *)
EXTENDS SwapVenues

CONSTANTS e1, e2, s1, owner, USDC

TwoEvm   == {e1, e2}
OneSol   == {s1}
OneToken == {USDC}
None     == {}
=============================================================================
