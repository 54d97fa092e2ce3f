------------------------- MODULE BundledStrategies ---------------------------
(***************************************************************************)
(* The five strategies under strategies/ that trade, one agent running one *)
(* of them.  A tick calls Decide, which changes the strategy's own state   *)
(* at once, and the Runtime then executes the intents one by one; each may *)
(* fail or be blocked, and the strategy is not told.  A restart builds the *)
(* strategy anew from its config.                                          *)
(***************************************************************************)
EXTENDS StrategyConfig, Sequences, FiniteSets, FiniteSetsExt, Functions

CONSTANTS
    Kinds,        \* the strategies to run
    RawConfigs,   \* configs an operator may have written
    Subnets,      \* assets: the subnets of the universe
    Asset,        \* the one that dca_buy buys
    Prices,       \* prices an asset may have; each divides Scale
    Scale,        \* returns are whole multiples of 1/Scale
    SpreadBps, ExitBps,   \* market_maker_basic's half-spread, minus the ExitThreshold
    MaxTicks, MaxRestarts, MaxFailures    \* bounds

\* A field of a config is any number, except that a negative window panics at
\* the first tick and is left out.
ASSUME StrategyAssumption ==
    /\ Kinds \subseteq {"dca_buy", "alpha_dca", "alpha_momentum", "alpha_yield", "market_maker_basic"}
    /\ \A raw \in RawConfigs, f \in Fields :
          raw[f] \in {Absent, Bad} \/ (raw[f] \in Int /\ (f = "window" => raw[f] >= 0))
    /\ Asset \in Subnets /\ IsFiniteSet(Subnets)
    /\ Prices \subseteq Nat \ {0} /\ Scale \in Nat
    /\ SpreadBps \in 1 .. 1000 /\ ExitBps \in Nat
    /\ MaxTicks \in Nat /\ MaxRestarts \in Nat /\ MaxFailures \in Nat

VARIABLES
    kind, cfg,    \* the strategy and the config it uses
    \* the strategy's own state
    tickCount, lastBuyAt, history, held,
    \* the decision being executed
    swaps, orders,
    \* the world: positions in the wallet, resting quotes, filled quotes
    wallet, quotes, inventory,
    \* the clock, and history: ticks, restarts, failures, buys decided, assets
    \* whose last swap failed or was forgotten
    now, ticks, restarts, failures, buys, hurt

stratVars == <<tickCount, lastBuyAt, history, held>>
worldVars == <<wallet, quotes, inventory>>
pastVars  == <<now, ticks, restarts, failures, buys, hurt>>
vars == <<kind, cfg, stratVars, swaps, orders, worldVars, pastVars>>

Fresh ==
    /\ tickCount = 0 /\ lastBuyAt = 0
    /\ history = [n \in Subnets |-> <<>>] /\ held = {}

Init ==
    /\ kind \in Kinds
    /\ \E raw \in RawConfigs : cfg = New(kind, raw)
    /\ cfg # Refused
    /\ Fresh
    /\ swaps = {} /\ orders = {}
    /\ wallet = [n \in Subnets |-> 0] /\ quotes = {} /\ inventory = 0
    /\ now = 0 /\ ticks = 0 /\ restarts = 0 /\ failures = 0 /\ buys = 0
    /\ hurt = {}

-----------------------------------------------------------------------------
(* Decide of dca_buy, alpha_dca and market_maker_basic: by the clock or by  *)
(* the tick.                                                               *)

Buy(n)  == [asset |-> n, side |-> "buy"]
Sell(n) == [asset |-> n, side |-> "sell"]

Nothing == swaps' = {} /\ orders' = {} /\ UNCHANGED buys
Trade(s, o) == swaps' = s /\ orders' = o /\ buys' = buys + 1

\* Mutant of CoolingDown: the boundary is compared the other way round.
CoolsTooShortly(t) == lastBuyAt # 0 /\ t - lastBuyAt < cfg["cadence"] - 1

\* A zero lastBuyAt is "never".
CoolingDown(t) == lastBuyAt # 0 /\ t - lastBuyAt < cfg["cadence"]

\* The buy is noted when it is decided.
DcaBuy(t) ==
    /\ IF CoolingDown(t) THEN Nothing /\ UNCHANGED lastBuyAt
       ELSE Trade({Buy(Asset)}, {}) /\ lastBuyAt' = t
    /\ UNCHANGED <<tickCount, history, held>>

\* The remainder of Go does not ask for the sign of the cadence.
Every == IF cfg["cadence"] < 0 THEN -cfg["cadence"] ELSE cfg["cadence"]
OffCadence(count) == count % Every # 0

AlphaDca(t) ==
    /\ tickCount' = tickCount + 1
    /\ IF OffCadence(tickCount') THEN Nothing /\ UNCHANGED lastBuyAt
       ELSE Trade({Buy(n) : n \in Subnets}, {}) /\ lastBuyAt' = t
    /\ UNCHANGED <<history, held>>

\* Prices of quotes are in units of 1/10000 of a price.
Quote(side, mid) ==
    [side |-> side, mid |-> mid,
     price |-> mid * (IF side = "buy" THEN 10000 - SpreadBps ELSE 10000 + SpreadBps)]

\* askVeto: an answer "no", or a provider that cannot answer in the schema, lets
\* the quotes pass; a veto, and any other error, does not.
Vetoes == {"no", "unsupported", "veto", "error"}

\* No cancels: what was quoted before stays at the venue.
MarketMaker(mid, veto) ==
    /\ tickCount' = tickCount + 1
    /\ IF mid = 0 \/ OffCadence(tickCount') \/ veto \in {"veto", "error"} THEN Nothing
       ELSE Trade({}, {Quote("buy", mid), Quote("sell", mid)})
    /\ UNCHANGED <<lastBuyAt, history, held>>

-----------------------------------------------------------------------------
(* Decide of alpha_momentum and alpha_yield: rank the subnets by the prices *)
(* remembered and hold the best.                                           *)

\* A price is appended, and the oldest leave the window.
Remember(hist, price) ==
    LET h == Append(hist, price)
        w == cfg["window"]
    IN  IF Len(h) > w THEN SubSeq(h, Len(h) - w + 1, Len(h)) ELSE h

\* Prices of a market that has none for a subnet, or zero, are not remembered.
Updated(market) ==
    [n \in Subnets |-> IF market[n] = 0 THEN history[n] ELSE Remember(history[n], market[n])]

Scored(h) == {n \in Subnets : Len(h[n]) >= 2}

Oldest(s) == s[1]
Newest(s) == s[Len(s)]

\* momentum = (last - first) / first, compared by cross multiplication.
Faster(h, a, b) == Newest(h[a]) * Oldest(h[b]) > Newest(h[b]) * Oldest(h[a])

FasterPairs(h) == {p \in Scored(h) \X Scored(h) : Faster(h, p[1], p[2])}

AboveExit(h, n) == (Newest(h[n]) - Oldest(h[n])) * 10000 > -(ExitBps * Oldest(h[n]))

\* relativeStdDev: returns in units of 1/Scale; the variance of n returns is
\* (n * sum of squares - square of sum) / n^2.
Return(s, i) == (Scale * (s[i + 1] - s[i])) \div s[i]

Spread(s) ==
    LET steps == 1 .. Len(s) - 1
        sum   == MapThenSumSet(LAMBDA i : Return(s, i), steps)
        sq    == MapThenSumSet(LAMBDA i : Return(s, i) * Return(s, i), steps)
    IN  (Len(s) - 1) * sq - sum * sum

Calmer(h, a, b) ==
    Spread(h[a]) * (Len(h[b]) - 1) * (Len(h[b]) - 1)
        < Spread(h[b]) * (Len(h[a]) - 1) * (Len(h[a]) - 1)

CalmerPairs(h) == {p \in Scored(h) \X Scored(h) : Calmer(h, p[1], p[2])}

Least(a, b) == IF a < b THEN a ELSE b

\* A loop up to TopK takes none if that is negative.
Top == IF cfg["top"] < 0 THEN 0 ELSE cfg["top"]

\* Mutant of TopCount: the loop runs once too often.
TopCountInclusive(S) == Least(Top + 1, Cardinality(S))

TopCount(S) == Least(Top, Cardinality(S))

\* The first TopK after sort.Slice, which leaves ties in any order; better is
\* the set of pairs <<a, b>> in which a ranks before b.
Tops(S, better) ==
    {T \in SUBSET S : Cardinality(T) = TopCount(S) /\ \A a \in T, b \in S \ T : <<b, a>> \notin better}

\* Mutant of Rebalance: what left the target is sold and still believed held.
RebalanceKeeps(target) ==
    /\ IF target = held THEN Nothing
       ELSE Trade({Sell(n) : n \in held \ target} \union {Buy(n) : n \in target \ held}, {})
    /\ held' = held \union target

\* Exits and entries; what is held is what was decided, before any swap runs.
Rebalance(target) ==
    /\ IF target = held THEN Nothing
       ELSE Trade({Sell(n) : n \in held \ target} \union {Buy(n) : n \in target \ held}, {})
    /\ held' = target

AlphaMomentum(market) ==
    /\ history' = Updated(market)
    /\ \E T \in Tops(Scored(history'), FasterPairs(history')) :
           Rebalance({n \in T : AboveExit(history', n)})
    /\ UNCHANGED <<tickCount, lastBuyAt>>

\* Off cadence it only watches, unless it holds nothing yet.
AlphaYield(market) ==
    /\ tickCount' = tickCount + 1
    /\ history' = Updated(market)
    /\ IF OffCadence(tickCount') /\ held # {} THEN Nothing /\ UNCHANGED held
       ELSE \E T \in Tops(Scored(history'), CalmerPairs(history')) : Rebalance(T)
    /\ UNCHANGED lastBuyAt

-----------------------------------------------------------------------------
(* Ticks, execution, restarts.                                             *)

Markets == [Subnets -> Prices \union {0}]

\* Only dca_buy looks at the clock: ticks are one or two units apart for it.
Gaps == IF kind = "dca_buy" THEN {1, 2} ELSE {1}

\* One tick of the agent: the clock has moved on, Decide is called.
Decide ==
    /\ swaps = {} /\ orders = {} /\ ticks < MaxTicks
    /\ ticks' = ticks + 1
    /\ \E d \in Gaps : now' = now + d
    /\ \/ kind = "dca_buy" /\ DcaBuy(now')
       \/ kind = "alpha_dca" /\ AlphaDca(now')
       \/ /\ kind = "market_maker_basic"
          /\ \E mid \in Prices \union {0}, veto \in Vetoes : MarketMaker(mid, veto)
       \/ kind = "alpha_momentum" /\ \E m \in Markets : AlphaMomentum(m)
       \/ kind = "alpha_yield" /\ \E m \in Markets : AlphaYield(m)
    /\ UNCHANGED <<kind, cfg, worldVars, restarts, failures, hurt>>

\* The swaps of a decision are executed in order, its exits first.
IsNext(s) == s \in swaps /\ (s.side = "buy" => \A t \in swaps : t.side = "buy")

\* A swap goes through; alpha that is not there cannot be sold.
SwapLands(s) ==
    /\ IsNext(s)
    /\ s.side = "sell" => wallet[s.asset] > 0
    /\ wallet' = [wallet EXCEPT ![s.asset] = IF s.side = "buy" THEN @ + 1 ELSE @ - 1]
    /\ swaps' = swaps \ {s}
    /\ UNCHANGED <<kind, cfg, stratVars, orders, quotes, inventory, pastVars>>

\* A swap is blocked by the policy or fails.
SwapFails(s) ==
    /\ IsNext(s)
    /\ failures < MaxFailures \/ (s.side = "sell" /\ wallet[s.asset] = 0)
    /\ failures' = IF failures < MaxFailures THEN failures + 1 ELSE failures
    /\ hurt' = hurt \union {s.asset}
    /\ swaps' = swaps \ {s}
    /\ UNCHANGED <<kind, cfg, stratVars, orders, worldVars, now, ticks, restarts, buys>>

\* A limit order rests, or is blocked or refused.
OrderEnds(o) ==
    /\ o \in orders
    /\ quotes' = quotes \union {[side |-> o.side, price |-> o.price, tick |-> ticks]} \/ UNCHANGED quotes
    /\ orders' = orders \ {o}
    /\ UNCHANGED <<kind, cfg, stratVars, swaps, wallet, inventory, pastVars>>

\* The market takes a quote.
Fill(q) ==
    /\ q \in quotes
    /\ quotes' = quotes \ {q}
    /\ inventory' = IF q.side = "buy" THEN inventory + 1 ELSE inventory - 1
    /\ UNCHANGED <<kind, cfg, stratVars, swaps, orders, wallet, pastVars>>

\* The process ends, also in mid tick, and NewRuntime builds the strategy anew:
\* it knows nothing of what it held, bought or saw.
Restart ==
    /\ restarts < MaxRestarts
    /\ restarts' = restarts + 1
    /\ tickCount' = 0 /\ lastBuyAt' = 0 /\ held' = {}
    /\ history' = [n \in Subnets |-> <<>>]
    /\ swaps' = {} /\ orders' = {}
    /\ hurt' = hurt \union {s.asset : s \in swaps} \union {n \in Subnets : wallet[n] > 0}
    /\ UNCHANGED <<kind, cfg, worldVars, now, ticks, failures, buys>>

Next ==
    \/ Decide \/ Restart
    \/ \E s \in swaps : SwapLands(s) \/ SwapFails(s)
    \/ \E o \in orders : OrderEnds(o)
    \/ \E q \in quotes : Fill(q)

Spec == Init /\ [][Next]_vars

-----------------------------------------------------------------------------
(* Properties.                                                             *)

Rotating == kind \in {"alpha_momentum", "alpha_yield"}

\* Every variable stays in its range, and a strategy that counts ticks has a
\* cadence that they can be divided by.
TypeOK ==
    /\ kind \in Kinds /\ cfg \in [Fields -> Int]
    /\ kind \in {"alpha_dca", "market_maker_basic"} => cfg["cadence"] > 0
    /\ kind = "alpha_yield" => cfg["cadence"] # 0
    /\ tickCount \in Nat /\ lastBuyAt \in Nat /\ held \subseteq Subnets
    /\ history \in [Subnets -> Seq(Prices)]
    /\ swaps \subseteq {Buy(n) : n \in Subnets} \union {Sell(n) : n \in Subnets}
    /\ IsFiniteSet(orders) /\ IsFiniteSet(quotes)
    /\ \A q \in orders \union quotes : q.side \in {"buy", "sell"}
    /\ wallet \in [Subnets -> Nat] /\ inventory \in Int
    /\ now \in Nat /\ ticks \in Nat /\ restarts \in Nat /\ failures \in Nat /\ buys \in Nat
    /\ hurt \subseteq Subnets

\* What a rotating strategy would have the wallet hold by now: what it holds, but
\* for the entries that have not run yet, and the exits that have not.
Entering == {n \in Subnets : Buy(n) \in swaps}
Leaving  == {n \in Subnets : Sell(n) \in swaps}
Due      == (held \ Entering) \union Leaving

RotationInOrder ==
    Rotating => /\ Entering \subseteq held /\ Leaving \intersect held = {}
                /\ Cardinality(held) <= Top /\ Cardinality(Due) <= Top

\* Between ticks the rotation strategies' belief about an asset is the wallet's
\* content, unless a swap of it failed or a restart forgot it.
BeliefDriftIsConfined ==
    Rotating /\ swaps = {} =>
        \A n \in Subnets \ hurt : wallet[n] = IF n \in held THEN 1 ELSE 0

\* The same at any time: of what is due.
WalletIsAsDue ==
    Rotating => \A n \in Subnets \ hurt : wallet[n] = IF n \in Due THEN 1 ELSE 0

\* The wallet of a rotation strategy never holds more than TopK positions for
\* every process that ran, and one for every swap that failed.
HoldingsAreBounded ==
    Rotating => SumFunctionOnSet(wallet, Subnets) <= Top * (1 + restarts) + failures

\* What the wallet holds beyond what is due was forgotten by a restart or is an
\* exit that failed.
Surplus(n) ==
    LET due == IF n \in Due THEN 1 ELSE 0
    IN  IF wallet[n] > due THEN wallet[n] - due ELSE 0

SurplusIsBounded ==
    Rotating => SumFunctionOnSet([n \in Subnets |-> Surplus(n)], Subnets) <= Top * restarts + failures

\* The cadence holds across restarts: dca_buy buys once per interval and once
\* more per process, the others never before their number of ticks has passed,
\* and the market maker's inventory is at most one size per refresh.
CadenceBoundsTrading ==
    /\ kind = "dca_buy" /\ cfg["cadence"] > 0 => buys <= 1 + restarts + now \div cfg["cadence"]
    /\ kind \in {"alpha_dca", "market_maker_basic"} => buys * cfg["cadence"] <= ticks
    /\ inventory <= buys /\ -inventory <= buys

\* What the buys of each process have used up of the time, and of the ticks.
TimeIsUsedUp ==
    kind = "dca_buy" /\ cfg["cadence"] > 0 =>
        /\ lastBuyAt <= now
        /\ IF lastBuyAt = 0 THEN cfg["cadence"] * (buys - restarts) <= now
           ELSE cfg["cadence"] * (buys - 1 - restarts) <= lastBuyAt

TicksAreUsedUp ==
    kind \in {"alpha_dca", "market_maker_basic"} =>
        cfg["cadence"] * buys + (tickCount % cfg["cadence"]) <= ticks

\* Every quote on either side, wherever it is by now, belongs to a refresh.
OfSide(S, side) == {q \in S : q.side = side}

QuotesArePaidFor ==
    /\ inventory + Cardinality(OfSide(quotes, "buy")) + Cardinality(OfSide(orders, "buy")) <= buys
    /\ -inventory + Cardinality(OfSide(quotes, "sell")) + Cardinality(OfSide(orders, "sell")) <= buys
=============================================================================
