----------------------------- MODULE HedgeBook -----------------------------
(***************************************************************************)
(* Hedged positions with their amounts: what the risk limits let a tick    *)
(* open, how internal/pnl values the book, and what internal/reconcile     *)
(* says when book, exchange account and wallet disagree.  The agents       *)
(* trade on one account and one wallet.  A tick is one action here; its    *)
(* interleavings are the subject of BasisRuntime.                          *)
(***************************************************************************)
EXTENDS RiskPolicy, FiniteSets, FiniteSetsExt, Functions, SequencesExt

CONSTANTS
    Agents, Underlyings,
    Sizes,        \* sizes of an open, in tokens
    Prices,       \* spot prices
    Premiums,     \* what the perp trades above spot
    Discounts,    \* how far below the mark an order is priced
    Losses,       \* tokens that a leg loses behind the agent's back
    Unit,         \* money units in one USDC; prices and amounts are in money units
    Limit,        \* risk limits of every agent
    MaxOpens,     \* opens in one decision
    MaxTicks,     \* bound on ticks
    MaxEvents     \* bound on market moves and events behind the agents' backs

ASSUME HedgeAssumption ==
    /\ Sizes \subseteq Nat \ {0} /\ Prices \subseteq Nat \ {0} /\ Premiums \subseteq Nat
    /\ Losses \subseteq Nat \ {0} /\ Discounts \subseteq Nat /\ Limit \in Limits /\ Unit \in Nat \ {0}
    /\ MaxOpens \in Nat \ {0} /\ MaxTicks \in Nat /\ MaxEvents \in Nat
    /\ IsFiniteSet(Underlyings) /\ \A p \in Prices, d \in Discounts : d <= p

VARIABLES
    price, premium,
    rows,         \* open rows of strategy_positions, by agent and underlying
    realized,     \* of each agent: the realized columns of its closed rows, in sum
    perp,         \* the account: signed size, and what it was sold for in sum
    wallet,       \* tokens held
    perpUp,       \* the exchange answers
    quotes,       \* what a swap venue does: "none", "quoteFails", "balanceFails" or "up"
    snapshot,     \* latest row of agent_nav_snapshots
    ticks, events

market == <<price, premium>>
venues == <<perp, wallet>>
vars == <<market, rows, realized, venues, perpUp, quotes, snapshot, ticks, events>>

\* A row of strategy_positions, and a position of the account.
Basis(qty, cost, entry) == [qty |-> qty, cost |-> cost, entry |-> entry, realized |-> 0]
Position(qty, proceeds) == [qty |-> qty, proceeds |-> proceeds]

Abs(n) == IF n < 0 THEN -n ELSE n
PerpMark == price + premium

Init ==
    /\ price \in Prices /\ premium \in Premiums
    /\ rows = [a \in Agents |-> << >>]
    /\ realized = [a \in Agents |-> 0]
    /\ perp = [u \in Underlyings |-> Position(0, 0)]
    /\ wallet = [u \in Underlyings |-> 0]
    /\ perpUp = TRUE /\ quotes = "up"
    /\ snapshot = [a \in Agents |-> << >>]
    /\ ticks = 0 /\ events = 0

-----------------------------------------------------------------------------
(* internal/pnl.                                                           *)

\* An account position shows while it is not flat; for a short that sold for
\* proceeds the profit is what buying back leaves of them.
Positions == {u \in Underlyings : perp[u].qty # 0}

\* Mutant of Unrealized: the sign of a long.
UnrealizedLong(u) == -perp[u].proceeds - perp[u].qty * PerpMark

Unrealized(u) == perp[u].proceeds + perp[u].qty * PerpMark

decideStatus(gotSpot, gotPerp) ==
    IF gotSpot /\ gotPerp THEN "ok" ELSE IF gotSpot THEN "perp_no_unrealized"
    ELSE IF gotPerp THEN "spot_at_cost" ELSE "both_at_cost"

\* The spot quantity is taken to be the size of the perp leg, whatever the
\* wallet holds.
SpotQty(u, row) == row.qty

Valuation(status, spot, net) == [status |-> status, spot |-> spot, net |-> net]

\* A leg that cannot be marked is worth what it cost.  Funding
\* and gas are columns that nothing writes.
valueOne(u, row) ==
    LET gotSpot == quotes \in {"up", "balanceFails"}
        gotPerp == perpUp /\ u \in Positions
        spotValue == IF gotSpot THEN SpotQty(u, row) * price ELSE row.cost
    IN  Valuation(decideStatus(gotSpot, gotPerp), spotValue,
                  (spotValue - row.cost) + (IF gotPerp THEN Unrealized(u) ELSE 0))

AggregatesForAgent(a) == realized[a]

\* The book, the account and the premium it was taken at are kept with it.
ValueAgent(a) ==
    LET positions == [u \in DOMAIN rows[a] |-> valueOne(u, rows[a][u])]
    IN  [nav |-> AggregatesForAgent(a) + SumFunction([u \in DOMAIN rows[a] |-> positions[u].net]),
         positions |-> positions, held |-> rows[a], perp |-> perp, premium |-> premium]

-----------------------------------------------------------------------------
(* internal/reconcile.                                                     *)

QtyToleranceBps == 25

\* The difference in bps of what is expected, rounded half up.
relativeBps(diff, expected) ==
    IF expected = 0 THEN 0 ELSE (2 * diff * 10000 + expected) \div (2 * expected)

severityForRel(rel) == IF rel > 100 THEN "critical" ELSE "warning"

isOppositeSide(expected, actual) == expected * actual < 0

Drift(leg, field, severity) == [leg |-> leg, field |-> field, severity |-> severity]

\* Mutant of Expected: a long.
ExpectedLong(row) == row.qty

\* We hold a short, which the account shows as negative.
Expected(row) == -row.qty

perpDrift(u, row) ==
    LET expected == Expected(row)
        actual == perp[u].qty
        rel == relativeBps(Abs(actual - expected), Abs(expected))
    IN  IF ~perpUp THEN {Drift("perp", "exists", "info")}
        ELSE IF u \notin Positions THEN {Drift("perp", "exists", "critical")}
        ELSE IF isOppositeSide(expected, actual) THEN {Drift("perp", "side", "critical")}
        ELSE IF rel > QtyToleranceBps THEN {Drift("perp", "qty", severityForRel(rel))} ELSE {}

\* Mutant of Short: any balance will do.
ShortOfAll(u, row) == wallet[u] = 0

\* A wallet that holds more than the row says is no drift.
Short(u, row) == wallet[u] < row.qty

spotDrift(u, row) ==
    LET rel == relativeBps(Abs(wallet[u] - row.qty), row.qty)
    IN  IF quotes = "none" THEN {Drift("spot", "exists", "info")}
        ELSE IF quotes = "balanceFails" THEN {Drift("spot", "exists", "warning")}
        ELSE IF wallet[u] = 0 /\ row.qty > 0 THEN {Drift("spot", "exists", "critical")}
        ELSE IF Short(u, row) /\ rel > QtyToleranceBps
        THEN {Drift("spot", "qty", severityForRel(rel))} ELSE {}

reconcileOne(u, row) == perpDrift(u, row) \cup spotDrift(u, row)

hasIssue(drifts) == \E d \in drifts : d.severity # "info"

\* The command walks the agents it was asked for and adds the reports up.
Reconcile(S) ==
    LET walk == UNION {{[agent |-> a, underlying |-> u, drifts |-> reconcileOne(u, rows[a][u])]
                         : u \in DOMAIN rows[a]} : a \in S}
    IN  [open |-> Cardinality(walk),
         ok |-> Cardinality({w \in walk : ~hasIssue(w.drifts)}),
         drifts |-> UNION {w.drifts : w \in walk}]

\* With --json the command returns before it looks at --fail-on-drift.
Fails(S, json, failOnDrift) == ~json /\ failOnDrift /\ hasIssue(Reconcile(S).drifts)

-----------------------------------------------------------------------------
(* A tick.  Opens are swaps of USDC and short orders of the same size.     *)

\* Rows of one underlying meet in one position of the account.
TotalBasisExposure(a) == SumFunction([u \in DOMAIN rows[a] |-> rows[a][u].entry * rows[a][u].qty])

\* The positions a check counts: the tracked ones and the ones this tick has
\* let through, without the one the order belongs to.  Only the tracked ones
\* carry legs, so only they weigh in the exposure.
Count(a, inflight) == Cardinality(DOMAIN rows[a]) + Cardinality(inflight)

SwapAllowed(a, o, inflight) ==
    checkSwap(Limit, [slippage |-> 0, in |-> o.qty * price, opening |-> TRUE], Count(a, inflight)) # "block"

\* Mutant of OrderAllowed: what is already open does not weigh.
OrderAllowedAlone(a, o, inflight) ==
    checkOrder([Limit EXCEPT !.exposure = 0], [notional |-> o.limit * o.qty, reduceOnly |-> FALSE],
               0, Count(a, inflight \ {o.u})) # "block"

OrderAllowed(a, o, inflight) ==
    checkOrder(Limit, [notional |-> o.limit * o.qty, reduceOnly |-> FALSE],
               TotalBasisExposure(a), Count(a, inflight \ {o.u})) # "block"

\* The swaps of a decision run first, then its orders, each checked against
\* what passed before it; what is allowed may still fail.
Before(opens, i) == {opens[j].u : j \in 1 .. i - 1}

RunSwaps(a, opens, swapped) ==
    \A i \in DOMAIN opens :
        opens[i].u \in swapped => SwapAllowed(a, opens[i], Before(opens, i) \cap swapped)

RunOrders(a, opens, swapped, filled) ==
    \A i \in DOMAIN opens :
        opens[i].u \in filled => OrderAllowed(a, opens[i], swapped \cup (Before(opens, i) \cap filled))

\* The row is inserted, or the insert fails, which is only logged.
PersistNAVSnapshot(a, nav) ==
    \/ snapshot' = [snapshot EXCEPT ![a] = nav]
    \/ UNCHANGED snapshot

\* persistNAVSnapshot, of the book the tick leaves.
Snapshot(a) == PersistNAVSnapshot(a, ValueAgent(a)')

\* The open of an underlying in a decision, and what a set of legs takes of it.
OpenOf(opens, u) == CHOOSE o \in ToSet(opens) : o.u = u
LegQty(opens, u, S) == IF u \in S THEN OpenOf(opens, u).qty ELSE 0

\* A decision that opens: of each open the swap may land and the order fill.
\* A position is booked when both did, at the price of the intent.
OpenTick(a, opens, swapped, filled) ==
    /\ ticks < MaxTicks
    /\ RunSwaps(a, opens, swapped) /\ RunOrders(a, opens, swapped, filled)
    /\ rows' = [rows EXCEPT ![a] =
                  [u \in DOMAIN @ \cup (swapped \cap filled) |->
                     IF u \in DOMAIN @ THEN @[u]
                     ELSE LET o == OpenOf(opens, u) IN Basis(o.qty, o.qty * price, o.limit)]]
    /\ wallet' = [u \in Underlyings |-> wallet[u] + LegQty(opens, u, swapped)]
    /\ perp' = [u \in Underlyings |-> Position(perp[u].qty - LegQty(opens, u, filled),
                                               perp[u].proceeds + LegQty(opens, u, filled) * PerpMark)]
    /\ ticks' = ticks + 1
    /\ UNCHANGED <<market, realized, perpUp, quotes, events>>
    /\ Snapshot(a)

\* The input of a swap back is tokens, and the limit is USDC.
SwapBackAllowed(row) ==
    checkSwap(Limit, [slippage |-> 0, in |-> row.qty * Unit, opening |-> FALSE], 0) # "block"

ReduceAllowed(row, limit) ==
    checkOrder(Limit, [notional |-> limit * row.qty, reduceOnly |-> TRUE], 0, 0) # "block"

\* A decision that closes: the swap back and a reduce-only order, each of which
\* may fail.  The order takes no more than the account is short.  The row is
\* closed when the order passes; CloseBasis writes no realized column.
CloseTick(a, u, limit, lands, fills) ==
    /\ u \in DOMAIN rows[a] /\ ticks < MaxTicks
    /\ LET row == rows[a][u]
           sold == IF lands /\ SwapBackAllowed(row) /\ wallet[u] >= row.qty THEN row.qty ELSE 0
           passed == fills /\ ReduceAllowed(row, limit)
           back == IF passed THEN Min({row.qty, Max({0, -perp[u].qty})}) ELSE 0
           kept == IF back = 0 THEN 0 ELSE (perp[u].proceeds * back) \div Abs(perp[u].qty)
       IN  /\ rows' = IF passed THEN [rows EXCEPT ![a] = Restrict(@, DOMAIN @ \ {u})] ELSE rows
           /\ realized' = [realized EXCEPT ![a] = @ + (IF passed THEN row.realized ELSE 0)]
           /\ wallet' = [wallet EXCEPT ![u] = @ - sold]
           /\ perp' = [perp EXCEPT ![u] = Position(@.qty + back, @.proceeds - kept)]
    /\ ticks' = ticks + 1
    /\ UNCHANGED <<market, perpUp, quotes, events>>
    /\ Snapshot(a)

-----------------------------------------------------------------------------
(* The world.                                                              *)

Event == events < MaxEvents /\ events' = events + 1

MarketMoves ==
    /\ Event
    /\ price' \in Prices /\ premium' \in Premiums
    /\ UNCHANGED <<rows, realized, venues, perpUp, quotes, snapshot, ticks>>

\* The exchange buys part of the short back, or all of it, or more.
ShortShrinks(u, n) ==
    /\ Event /\ perp[u].qty < 0
    /\ perp' = [perp EXCEPT ![u] = Position(@.qty + n, @.proceeds - n * PerpMark)]
    /\ UNCHANGED <<market, rows, realized, wallet, perpUp, quotes, snapshot, ticks>>

\* Tokens leave the wallet, or come.
WalletMoves(u, n) ==
    /\ Event
    /\ \/ wallet' = [wallet EXCEPT ![u] = Max({0, @ - n})]
       \/ wallet' = [wallet EXCEPT ![u] = @ + n]
    /\ UNCHANGED <<market, rows, realized, perp, perpUp, quotes, snapshot, ticks>>

VenuesChange ==
    /\ Event
    /\ perpUp' \in BOOLEAN /\ quotes' \in {"none", "quoteFails", "balanceFails", "up"}
    /\ UNCHANGED <<market, rows, realized, venues, snapshot, ticks>>

\* A short order is priced at the mark or below it.
Decisions(a) ==
    LET one == {[u |-> u, qty |-> q, limit |-> l] : u \in Underlyings \ DOMAIN rows[a], q \in Sizes,
                                                    l \in {PerpMark - d : d \in Discounts}}
    IN  UNION {{s \in [1 .. n -> one] : \A i, j \in 1 .. n : i # j => s[i].u # s[j].u} : n \in 1 .. MaxOpens}

Next ==
    \/ \E a \in Agents : \E opens \in Decisions(a) :
         LET us == {opens[i].u : i \in DOMAIN opens}
         IN  \E swapped, filled \in SUBSET us : OpenTick(a, opens, swapped, filled)
    \/ \E a \in Agents, u \in Underlyings, limit \in {PerpMark - d : d \in Discounts}, lands, fills \in BOOLEAN :
         CloseTick(a, u, limit, lands, fills)
    \/ MarketMoves \/ VenuesChange
    \/ \E u \in Underlyings, n \in Losses : ShortShrinks(u, n) \/ WalletMoves(u, n)

Spec == Init /\ [][Next]_vars

-----------------------------------------------------------------------------
(* Properties.                                                             *)

BasisSet == [qty : Nat \ {0}, cost : Nat, entry : Nat, realized : {0}]

\* Types, with the signs that BasisValuation documents: a size and what a spot
\* leg is worth are not negative.
TypeOK ==
    /\ price \in Prices /\ premium \in Premiums
    /\ DOMAIN rows = Agents
    /\ \A a \in Agents : DOMAIN rows[a] \subseteq Underlyings /\ \A u \in DOMAIN rows[a] : rows[a][u] \in BasisSet
    /\ realized = [a \in Agents |-> 0]
    /\ perp \in [Underlyings -> [qty : Int, proceeds : Int]] /\ wallet \in [Underlyings -> Nat]
    /\ perpUp \in BOOLEAN /\ quotes \in {"none", "quoteFails", "balanceFails", "up"}
    /\ DOMAIN snapshot = Agents
    /\ ticks \in 0 .. MaxTicks /\ events \in 0 .. MaxEvents

\* What a valuation says of the book it was taken of: it adds up, and a hedge
\* that could be marked is worth what its legs were sold and bought for, less
\* the premium, whatever the price was.
AddsUp(n) ==
    /\ DOMAIN n.held \subseteq Underlyings /\ DOMAIN n.positions = DOMAIN n.held
    /\ n.nav = SumFunction([u \in DOMAIN n.held |-> n.positions[u].net])
    /\ n.premium \in Int
    /\ \A u \in DOMAIN n.held :
         /\ n.held[u] \in BasisSet /\ n.perp[u].proceeds \in Int
         /\ n.positions[u].net \in Int /\ n.positions[u].spot \in Nat
         /\ n.positions[u].status = "ok" /\ n.perp[u].qty = -n.held[u].qty
              => n.positions[u].net = n.perp[u].proceeds - n.held[u].cost - n.held[u].qty * n.premium

SnapshotsAddUp == \A a \in Agents : snapshot[a] # << >> => AddsUp(snapshot[a])

\* The exposure cap of checkOrder can be passed only by the opens of one tick
\* after the first, each no larger than the cap on a leg, if both are set.
ExposureOvershootIsBounded ==
    Limit.exposure # 0 /\ Limit.notional # 0 =>
        \A a \in Agents : TotalBasisExposure(a) <= Limit.exposure + (MaxOpens - 1) * Limit.notional

Holders(u) == {a \in Agents : u \in DOMAIN rows[a]}
AsBooked(a, u) == perp[u].qty = -rows[a][u].qty /\ wallet[u] = rows[a][u].qty

\* A hedge is worth the same whatever the token trades at: a snapshot of a book
\* that is held as booked differs from the live NAV only by what the premium
\* has moved, however far the price has gone in between.
SnapshotIsPriceNeutral ==
    \A a \in Agents :
        LET s == snapshot[a]
            live == ValueAgent(a)
            marked(n) == \A u \in DOMAIN n.positions : n.positions[u].status = "ok"
        IN  (/\ s # << >> /\ s.held = rows[a] /\ marked(s) /\ marked(live)
             /\ \A u \in DOMAIN rows[a] : s.perp[u] = perp[u] /\ perp[u].qty = -rows[a][u].qty)
            => live.nav - s.nav = (s.premium - premium) * SumFunction([u \in DOMAIN rows[a] |-> rows[a][u].qty])

\* "OK" of a report is right: if every venue answers and no issue is found,
\* each row is short on the account by its size and backed in the wallet by
\* its size, to a quarter of a percent and half a basis point of rounding.
CleanMeansHedged ==
    \A a \in Agents : LET r == Reconcile({a}) IN
        r.ok = r.open /\ perpUp /\ quotes \notin {"none", "balanceFails"} =>
            \A u \in DOMAIN rows[a] : LET q == rows[a][u].qty IN
                /\ 20000 * Abs(perp[u].qty + q) < 51 * q
                /\ 20000 * (q - wallet[u]) < 51 * q

\* No false alarm: positions that are as booked, each held by one agent, are
\* no issue, and every agent's report counts them as OK.
BookedLegsAreClean ==
    (quotes # "balanceFails"
     /\ \A a \in Agents : \A u \in DOMAIN rows[a] : Holders(u) = {a} /\ AsBooked(a, u))
    => LET r == Reconcile(Agents) IN r.ok = r.open /\ ~hasIssue(r.drifts)

\* What the risk page of the docs says of the breakers, "Each breaker, when tripped,
\* halts the agent", of the loss within a day: an agent whose recorded NAV trips
\* Portfolio trades no more.  All ticks of the model are of one day, in which the
\* NAV of an agent starts at zero; a snapshot carries no mark.
BreakersHalt ==
    [][\A a \in Agents :
         snapshot[a] # << >> /\ Portfolio(Limit, snapshot[a].nav, 0, snapshot[a].nav) = "block"
           => rows'[a] = rows[a]]_vars
=============================================================================
