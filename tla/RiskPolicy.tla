------------------------------ MODULE RiskPolicy ------------------------------
(***************************************************************************)
(* The verdicts of risk.Policy with amounts: the limits on one intent      *)
(* (PreTrade) and the circuit breakers over a portfolio.  A limit of zero  *)
(* is switched off.                                                        *)
(***************************************************************************)
EXTENDS Integers, Sequences

\* The limits of an agent; drawdown is the fraction num/den.
Limits == [notional : Nat, exposure : Nat, count : Nat, slippage : Nat,
           dailyLoss : Nat, num : Nat, den : Nat \ {0}]

\* BuildRiskEngine: an override is <<>> when it is missing or does not parse,
\* and then the limit is switched off.
Override(x) == IF x = <<>> THEN 0 ELSE x[1]

BuildRiskEngine(raw) ==
    [notional |-> Override(raw.notional), exposure |-> Override(raw.exposure),
     count |-> Override(raw.count), slippage |-> Override(raw.slippage),
     dailyLoss |-> Override(raw.dailyLoss),
     num |-> Override(raw.drawdown), den |-> IF raw.drawdown = <<>> THEN 1 ELSE raw.drawdown[2]]

Exceeds(amount, limit) == limit # 0 /\ amount > limit
Reached(count, limit)  == limit # 0 /\ count >= limit

\* An order that only reduces passes whatever is open; another one is added to
\* the exposure of the legs already held.
checkOrder(lim, o, exposure, count) ==
    IF Exceeds(o.notional, lim.notional) THEN "block"
    ELSE IF o.reduceOnly THEN "allow"
    ELSE IF Exceeds(exposure + o.notional, lim.exposure) THEN "block"
    ELSE IF Reached(count, lim.count) THEN "block" ELSE "allow"

\* Only a swap out of USDC opens, and only opening swaps are counted; a swap
\* does not add to the exposure.
checkSwap(lim, s, count) ==
    IF Exceeds(s.slippage, lim.slippage) THEN "block"
    ELSE IF Exceeds(s.in, lim.notional) THEN "block"
    ELSE IF s.opening /\ Reached(count, lim.count) THEN "block" ELSE "allow"

-----------------------------------------------------------------------------
(* Circuit breakers.  drawdown is (mark - nav) / mark, or zero when there   *)
(* is no mark yet; fractions are compared by cross multiplication.  No code *)
(* asks for this verdict: it is here for what the docs say of it.          *)

\* Is the drawdown at least k/d?
DrawdownAtLeast(nav, mark, k, d) == IF mark = 0 THEN k = 0 ELSE (mark - nav) * d >= k * mark

MaxDrawdownBreaker(lim, nav, mark) ==
    IF lim.num = 0 THEN "allow"
    ELSE IF DrawdownAtLeast(nav, mark, lim.num, lim.den) THEN "block"
    ELSE IF DrawdownAtLeast(nav, mark, 8 * lim.num, 10 * lim.den) THEN "warn" ELSE "allow"

DailyLossBreaker(lim, pnl) == IF Reached(-pnl, lim.dailyLoss) THEN "block" ELSE "allow"

\* BuildRiskEngine installs the two breakers in this order; Portfolio answers
\* with the first verdict that is not "allow".
Portfolio(lim, nav, mark, pnl) ==
    LET first == MaxDrawdownBreaker(lim, nav, mark)
    IN  IF first # "allow" THEN first ELSE DailyLossBreaker(lim, pnl)
=============================================================================
