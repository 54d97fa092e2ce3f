--------------------------- MODULE StrategyProofs ----------------------------
(***************************************************************************)
(* The bundled strategies, proved: what a rotating strategy believes and   *)
(* what is in the wallet, how much it can come to hold, and how often the  *)
(* others trade, for every universe, price, config and length of a run.    *)
(* Then the simulator that replays a strategy: that its books balance,     *)
(* that it pays every tick once and that it finds the largest decline, for *)
(* every file of ticks, step, fee schedule and sequence of decisions.      *)
(***************************************************************************)
EXTENDS BundledStrategies, Backtest, SumLemmas, SequenceTheorems

-----------------------------------------------------------------------------
(* Configs.                                                                  *)

LEMMA StrategyConstants ==
    /\ Prices \subseteq Nat \ {0} /\ IsFiniteSet(Subnets) /\ Asset \in Subnets
    /\ Kinds \subseteq {"dca_buy", "alpha_dca", "alpha_momentum", "alpha_yield", "market_maker_basic"}
  BY StrategyAssumption

\* The configs that a constructor may return.
ParsedConfigs == [Fields -> Int]

LEMMA ParseTyped ==
    ASSUME NEW raw \in RawConfigs, NEW names
    PROVE  Lenient(raw, names) \in ParsedConfigs /\ Strict(raw, names) \in ParsedConfigs
  <1>1. \A f \in Fields : raw[f] \in {Absent, Bad} \/ raw[f] \in Int
    BY StrategyAssumption
  <1>2. Lenient(raw, names) \in ParsedConfigs
    BY <1>1 DEF Lenient, ParsedConfigs
  <1>3. Refused \in ParsedConfigs
    BY DEF Refused, ParsedConfigs
  <1> QED
    BY <1>2, <1>3 DEF Strict

LEMMA FieldNames == "cadence" \in Fields /\ "top" \in Fields /\ "window" \in Fields /\ "size" \in Fields
  BY DEF Fields

LEMMA DefaultsTyped ==
    ASSUME NEW c \in ParsedConfigs, NEW cadence \in Int, NEW window \in Int, NEW top \in Int, NEW size \in Int
    PROVE  LET d == WithDefaults(c, Known(cadence, window, top, size))
           IN  d \in ParsedConfigs /\ (cadence # 0 => d["cadence"] # 0)
  <1>1. Known(cadence, window, top, size) \in ParsedConfigs
    BY DEF Known, ParsedConfigs, Fields
  <1>2. Known(cadence, window, top, size)["cadence"] = cadence
    BY DEF Known, Fields
  <1> QED
    BY <1>1, <1>2, FieldNames DEF WithDefaults, ParsedConfigs

\* What New returns, for each strategy.
LEMMA ConfigTyped ==
    ASSUME NEW k \in Kinds, NEW raw \in RawConfigs, NEW c, c = New(k, raw), c # Refused
    PROVE  /\ c \in ParsedConfigs
           /\ k \in {"alpha_dca", "market_maker_basic"} => c["cadence"] > 0
           /\ k = "alpha_yield" => c["cadence"] # 0
  <1>1. CASE k = "dca_buy"
    <2>1. c = DcaBuyConfig(raw)
      BY <1>1 DEF New
    <2> QED
      BY <1>1, <2>1, ParseTyped, DefaultsTyped DEF DcaBuyConfig, DcaBuyParse
  <1>2. CASE k = "alpha_dca"
    <2>1. c = AlphaDcaConfig(raw)
      BY <1>2 DEF New
    <2> DEFINE d == WithDefaults(AlphaDcaParse(raw), Known(10, 0, 0, 1))
    <2>2. d \in ParsedConfigs
      BY ParseTyped, DefaultsTyped DEF AlphaDcaParse
    <2>3. c = d /\ d["cadence"] >= 1
      BY <2>1 DEF AlphaDcaConfig
    <2>4. d["cadence"] \in Int
      BY <2>2, FieldNames DEF ParsedConfigs
    <2> HIDE DEF d
    <2> QED
      BY <1>2, <2>2, <2>3, <2>4
  <1>3. CASE k = "alpha_momentum"
    <2>1. c = MomentumConfig(raw)
      BY <1>3 DEF New
    <2> QED
      BY <1>3, <2>1, ParseTyped, DefaultsTyped DEF MomentumConfig, MomentumParse
  <1>4. CASE k = "alpha_yield"
    <2>1. c = YieldConfig(raw)
      BY <1>4 DEF New
    <2> DEFINE d == WithDefaults(YieldParse(raw), Known(50, 30, 3, 10))
    <2>2. YieldParse(raw) \in ParsedConfigs
      BY ParseTyped DEF YieldParse
    <2>3. d \in ParsedConfigs /\ d["cadence"] # 0
      BY <2>2, DefaultsTyped
    <2>4. c = d
      BY <2>1 DEF YieldConfig
    <2> HIDE DEF d
    <2> QED
      BY <1>4, <2>3, <2>4
  <1>5. CASE k = "market_maker_basic"
    <2>1. c = MakerConfig(raw)
      BY <1>5 DEF New
    <2> DEFINE d == WithDefaults(MakerParse(raw), Known(1, 0, 0, 0))
    <2>2. d \in ParsedConfigs
      BY ParseTyped, DefaultsTyped DEF MakerParse
    <2>3. c = d /\ d["cadence"] > 0
      BY <2>1 DEF MakerConfig
    <2> HIDE DEF d
    <2> QED
      BY <1>5, <2>2, <2>3
  <1> QED
    BY <1>1, <1>2, <1>3, <1>4, <1>5, StrategyConstants

-----------------------------------------------------------------------------
(* Types.                                                                    *)

LEMMA SwapFields ==
    \A n : /\ Buy(n).asset = n /\ Buy(n).side = "buy"
           /\ Sell(n).asset = n /\ Sell(n).side = "sell"
  BY Zenon DEF Buy, Sell

LEMMA SwapsApart ==
    \A m, n : /\ Buy(m) # Sell(n)
              /\ (Buy(m) = Buy(n)) => m = n
              /\ (Sell(m) = Sell(n)) => m = n
  <1>1. \A m, n : Buy(m) # Sell(n)
    <2>1. TAKE m, n
    <2>2. Buy(m).side # Sell(n).side
      BY SwapFields
    <2> QED
      BY <2>2, Zenon
  <1>2. ASSUME NEW m, NEW n, Buy(m) = Buy(n) PROVE m = n
    <2>1. Buy(m).asset = m /\ Buy(n).asset = n
      BY SwapFields
    <2> QED
      BY <1>2, <2>1
  <1>3. ASSUME NEW m, NEW n, Sell(m) = Sell(n) PROVE m = n
    <2>1. Sell(m).asset = m /\ Sell(n).asset = n
      BY SwapFields
    <2> QED
      BY <1>3, <2>1
  <1> QED
    BY <1>1, <1>2, <1>3

SwapSet == {Buy(n) : n \in Subnets} \union {Sell(n) : n \in Subnets}

LEMMA TheSwap ==
    ASSUME TypeOK, NEW s \in swaps
    PROVE  /\ s.asset \in Subnets
           /\ \/ s = Buy(s.asset) /\ s.side = "buy"
              \/ s = Sell(s.asset) /\ s.side = "sell"
  <1>1. s \in SwapSet
    BY DEF TypeOK, SwapSet
  <1>2. PICK n \in Subnets : s = Buy(n) \/ s = Sell(n)
    BY <1>1 DEF SwapSet
  <1> QED
    BY <1>2, SwapFields

LEMMA QuoteSides == \A side, mid : Quote(side, mid).side = side
  BY Zenon DEF Quote

-----------------------------------------------------------------------------
\* The window of prices.
LEMMA RememberTyped ==
    ASSUME NEW hist \in Seq(Prices), NEW price \in Prices, TypeOK
    PROVE  Remember(hist, price) \in Seq(Prices)
  <1> DEFINE h == Append(hist, price)
             w == cfg["window"]
  <1>1. h \in Seq(Prices) /\ Len(h) \in Nat /\ \A i \in 1 .. Len(h) : h[i] \in Prices
    BY AppendProperties
  <1>2. w \in Int
    BY FieldNames DEF TypeOK
  <1> HIDE DEF h, w
  <1>3. CASE Len(h) > w
    <2> DEFINE m == Len(h) - w + 1
    <2>1. m \in Int /\ Len(h) \in Int
      BY <1>1, <1>2
    <2>2. CASE m >= 1
      <3>1. \A i \in m .. Len(h) : h[i] \in Prices
        BY <1>1, <2>1, <2>2
      <3> HIDE DEF m
      <3>2. SubSeq(h, m, Len(h)) \in Seq(Prices)
        BY <2>1, <3>1, SubSeqProperties
      <3> QED
        BY <1>3, <3>2 DEF Remember, h, w, m
    <2>3. CASE m < 1
      BY <1>1, <1>2, <1>3, <2>3
    <2> QED
      BY <2>1, <2>2, <2>3
  <1>4. CASE ~(Len(h) > w)
    BY <1>1, <1>4 DEF Remember, h, w
  <1> QED
    BY <1>3, <1>4

LEMMA UpdatedTyped ==
    ASSUME NEW m \in Markets, TypeOK
    PROVE  Updated(m) \in [Subnets -> Seq(Prices)]
  <1>1. ASSUME NEW n \in Subnets
        PROVE  (IF m[n] = 0 THEN history[n] ELSE Remember(history[n], m[n])) \in Seq(Prices)
    <2>1. history[n] \in Seq(Prices) /\ (m[n] # 0 => m[n] \in Prices)
      BY DEF TypeOK, Markets
    <2> QED
      BY <2>1, RememberTyped
  <1> QED
    BY <1>1 DEF Updated

\* What a decision may leave behind.
OrdersTyped(S) == IsFiniteSet(S) /\ \A o \in S : o.side \in {"buy", "sell"}

Decided ==
    /\ tickCount' \in Nat /\ lastBuyAt' \in Nat /\ held' \subseteq Subnets
    /\ history' \in [Subnets -> Seq(Prices)]
    /\ swaps' \subseteq SwapSet /\ OrdersTyped(orders')
    /\ buys' \in Nat

LEMMA NothingTyped ==
    ASSUME TypeOK, Nothing
    PROVE  swaps' \subseteq SwapSet /\ OrdersTyped(orders') /\ buys' \in Nat
  BY FS_EmptySet DEF Nothing, OrdersTyped, TypeOK

LEMMA TradeTyped ==
    ASSUME TypeOK, NEW S \in SUBSET SwapSet, NEW O, OrdersTyped(O), Trade(S, O)
    PROVE  swaps' \subseteq SwapSet /\ OrdersTyped(orders') /\ buys' \in Nat
  BY DEF Trade, TypeOK

LEMMA NoOrders == OrdersTyped({})
  BY FS_EmptySet DEF OrdersTyped

LEMMA DcaTyped ==
    ASSUME TypeOK, NEW at \in Nat, DcaBuy(at)
    PROVE  Decided
  <1>1. {Buy(Asset)} \in SUBSET SwapSet
    BY StrategyConstants DEF SwapSet
  <1>2. swaps' \subseteq SwapSet /\ OrdersTyped(orders') /\ buys' \in Nat
    BY <1>1, NoOrders, NothingTyped, TradeTyped DEF DcaBuy
  <1>3. lastBuyAt' \in Nat
    BY DEF DcaBuy, TypeOK
  <1> QED
    BY <1>2, <1>3 DEF DcaBuy, Decided, TypeOK

LEMMA AlphaDcaTyped ==
    ASSUME TypeOK, NEW at \in Nat, AlphaDca(at)
    PROVE  Decided
  <1>1. {Buy(n) : n \in Subnets} \in SUBSET SwapSet
    BY DEF SwapSet
  <1>2. swaps' \subseteq SwapSet /\ OrdersTyped(orders') /\ buys' \in Nat
    BY <1>1, NoOrders, NothingTyped, TradeTyped DEF AlphaDca
  <1>3. lastBuyAt' \in Nat /\ tickCount' \in Nat
    BY DEF AlphaDca, TypeOK
  <1> QED
    BY <1>2, <1>3 DEF AlphaDca, Decided, TypeOK

LEMMA QuotesTyped ==
    ASSUME NEW mid
    PROVE  OrdersTyped({Quote("buy", mid), Quote("sell", mid)})
  <1>1. {Quote("buy", mid), Quote("sell", mid)} = {Quote("buy", mid)} \cup {Quote("sell", mid)}
    OBVIOUS
  <1>2. IsFiniteSet({Quote("buy", mid), Quote("sell", mid)})
    <2>1. IsFiniteSet({Quote("buy", mid)})
      BY FS_Singleton
    <2> QED
      BY <1>1, <2>1, FS_AddElement
  <1> QED
    BY <1>2, QuoteSides DEF OrdersTyped

LEMMA MakerTyped ==
    ASSUME TypeOK, NEW mid, NEW veto, MarketMaker(mid, veto)
    PROVE  Decided
  <1>1. swaps' \subseteq SwapSet /\ OrdersTyped(orders') /\ buys' \in Nat
    BY QuotesTyped, NothingTyped, TradeTyped DEF MarketMaker
  <1> QED
    BY <1>1 DEF MarketMaker, Decided, TypeOK

LEMMA RebalanceTyped ==
    ASSUME TypeOK, NEW target \in SUBSET Subnets, Rebalance(target)
    PROVE  /\ swaps' \subseteq SwapSet /\ OrdersTyped(orders') /\ buys' \in Nat
           /\ held' \subseteq Subnets
  <1>1. ({Sell(n) : n \in held \ target} \union {Buy(n) : n \in target \ held}) \in SUBSET SwapSet
    BY DEF SwapSet, TypeOK
  <1>2. swaps' \subseteq SwapSet /\ OrdersTyped(orders') /\ buys' \in Nat
    BY <1>1, NoOrders, NothingTyped, TradeTyped DEF Rebalance
  <1> QED
    BY <1>2 DEF Rebalance

LEMMA TopsAreSubnets ==
    ASSUME NEW h, NEW better, NEW T \in Tops(Scored(h), better)
    PROVE  T \in SUBSET Subnets /\ Cardinality(T) = TopCount(Scored(h))
  BY DEF Tops, Scored

\* A rotating strategy off its cadence, or turning to a target.
Rotates ==
    \/ Nothing /\ held' = held
    \/ \E h, better : \E T \in Tops(Scored(h), better) : \E target \in SUBSET T : Rebalance(target)

LEMMA RotatesTyped ==
    ASSUME TypeOK, Rotates
    PROVE  swaps' \subseteq SwapSet /\ OrdersTyped(orders') /\ buys' \in Nat /\ held' \subseteq Subnets
  <1>1. CASE Nothing /\ held' = held
    BY <1>1, NothingTyped DEF TypeOK
  <1>2. ASSUME NEW h, NEW better, NEW T \in Tops(Scored(h), better), NEW target \in SUBSET T, Rebalance(target)
        PROVE  swaps' \subseteq SwapSet /\ OrdersTyped(orders') /\ buys' \in Nat /\ held' \subseteq Subnets
    <2>1. target \in SUBSET Subnets
      BY TopsAreSubnets
    <2> QED
      BY <1>2, <2>1, RebalanceTyped
  <1> QED
    BY <1>1, <1>2 DEF Rotates

LEMMA MomentumRotates ==
    ASSUME NEW m, AlphaMomentum(m)
    PROVE  Rotates
  <1>1. PICK T \in Tops(Scored(history'), FasterPairs(history')) :
               Rebalance({n \in T : AboveExit(history', n)})
    BY DEF AlphaMomentum
  <1>2. {n \in T : AboveExit(history', n)} \in SUBSET T
    OBVIOUS
  <1> QED
    BY <1>1, <1>2, Zenon DEF Rotates

LEMMA YieldRotates ==
    ASSUME NEW m, AlphaYield(m)
    PROVE  Rotates
  <1>1. CASE Nothing /\ UNCHANGED held
    BY <1>1 DEF Rotates
  <1>2. CASE \E T \in Tops(Scored(history'), CalmerPairs(history')) : Rebalance(T)
    <2>1. PICK T \in Tops(Scored(history'), CalmerPairs(history')) : Rebalance(T)
      BY <1>2
    <2>2. T \in SUBSET T
      OBVIOUS
    <2> QED
      BY <2>1, <2>2, Zenon DEF Rotates
  <1> QED
    BY <1>1, <1>2, Zenon DEF AlphaYield

LEMMA RotationTyped ==
    ASSUME TypeOK, NEW m \in Markets, AlphaMomentum(m) \/ AlphaYield(m)
    PROVE  Decided
  <1>1. swaps' \subseteq SwapSet /\ OrdersTyped(orders') /\ buys' \in Nat /\ held' \subseteq Subnets
    BY MomentumRotates, YieldRotates, RotatesTyped
  <1>2. history' \in [Subnets -> Seq(Prices)]
    <2>1. history' = Updated(m)
      BY DEF AlphaMomentum, AlphaYield
    <2> QED
      BY <2>1, UpdatedTyped
  <1>3. tickCount' \in Nat /\ lastBuyAt' \in Nat
    BY DEF AlphaMomentum, AlphaYield, TypeOK
  <1> QED
    BY <1>1, <1>2, <1>3 DEF Decided

LEMMA DecideTyped ==
    ASSUME TypeOK, Decide
    PROVE  TypeOK'
  <1>1. now' \in Nat
    <2>1. PICK d \in Gaps : now' = now + d
      BY DEF Decide
    <2>2. d \in Nat
      BY DEF Gaps
    <2> QED
      BY <2>1, <2>2 DEF TypeOK
  <1>2. Decided
    <2>1. \/ kind = "dca_buy" /\ DcaBuy(now')
          \/ kind = "alpha_dca" /\ AlphaDca(now')
          \/ \E mid \in Prices \union {0}, veto \in Vetoes : MarketMaker(mid, veto)
          \/ \E m \in Markets : AlphaMomentum(m) \/ AlphaYield(m)
      BY DEF Decide
    <2> QED
      BY <1>1, <2>1, DcaTyped, AlphaDcaTyped, MakerTyped, RotationTyped
  <1>3. ticks' \in Nat /\ UNCHANGED <<kind, cfg, wallet, quotes, inventory, restarts, failures, hurt>>
    BY DEF Decide, worldVars, TypeOK
  <1>4. \A q \in orders' \union quotes' : q.side \in {"buy", "sell"}
    BY <1>2, <1>3 DEF Decided, OrdersTyped, TypeOK
  <1> QED
    BY <1>1, <1>2, <1>3, <1>4 DEF TypeOK, Decided, OrdersTyped, SwapSet

LEMMA SwapTyped ==
    ASSUME TypeOK, NEW s \in swaps, SwapLands(s) \/ SwapFails(s)
    PROVE  TypeOK'
  <1>1. s.asset \in Subnets /\ s.side \in {"buy", "sell"}
    BY TheSwap
  <1>2. wallet[s.asset] \in Nat
    BY <1>1 DEF TypeOK
  <1>3. wallet' \in [Subnets -> Nat]
    <2>1. CASE SwapLands(s)
      <3> DEFINE n == s.asset
      <3>1. /\ wallet' = [wallet EXCEPT ![n] = IF s.side = "buy" THEN wallet[n] + 1 ELSE wallet[n] - 1]
            /\ s.side = "sell" => wallet[n] > 0
        BY <2>1 DEF SwapLands
      <3>2. (IF s.side = "buy" THEN wallet[n] + 1 ELSE wallet[n] - 1) \in Nat
        BY <1>1, <1>2, <3>1
      <3> QED
        BY <3>1, <3>2 DEF TypeOK
    <2>2. CASE SwapFails(s)
      BY <2>2 DEF SwapFails, worldVars, TypeOK
    <2> QED
      BY <2>1, <2>2
  <1>4. failures' \in Nat /\ hurt' \subseteq Subnets /\ swaps' \subseteq swaps
    BY <1>1 DEF SwapLands, SwapFails, pastVars, TypeOK
  <1>5. UNCHANGED <<kind, cfg, stratVars, orders, quotes, inventory, now, ticks, restarts, buys>>
    BY DEF SwapLands, SwapFails, worldVars, pastVars
  <1> QED
    BY <1>3, <1>4, <1>5 DEF TypeOK, stratVars

\* A limit order on the book.
Resting(o) == [side |-> o.side, price |-> o.price, tick |-> ticks]

LEMMA OrderEndsTo ==
    ASSUME NEW o, OrderEnds(o)
    PROVE  /\ o \in orders /\ orders' = orders \ {o}
           /\ quotes' = quotes \union {Resting(o)} \/ quotes' = quotes
           /\ Resting(o).side = o.side
           /\ UNCHANGED <<kind, cfg, stratVars, swaps, wallet, inventory, pastVars>>
  BY Zenon DEF OrderEnds, Resting

LEMMA OrderTyped ==
    ASSUME TypeOK, NEW o \in orders, OrderEnds(o)
    PROVE  TypeOK'
  <1>1. /\ orders' = orders \ {o}
        /\ quotes' = quotes \union {Resting(o)} \/ quotes' = quotes
        /\ Resting(o).side = o.side
    BY OrderEndsTo
  <1>2. IsFiniteSet(orders') /\ IsFiniteSet(quotes')
    BY <1>1, FS_AddElement, FS_RemoveElement DEF TypeOK
  <1>3. \A q \in orders' \union quotes' : q.side \in {"buy", "sell"}
    BY <1>1 DEF TypeOK
  <1>4. UNCHANGED <<kind, cfg, stratVars, swaps, wallet, inventory, pastVars>>
    BY OrderEndsTo
  <1> QED
    BY <1>2, <1>3, <1>4 DEF TypeOK, stratVars, pastVars

LEMMA FillTyped ==
    ASSUME TypeOK, NEW q \in quotes, Fill(q)
    PROVE  TypeOK'
  <1>1. IsFiniteSet(quotes') /\ quotes' \subseteq quotes
    BY FS_RemoveElement DEF Fill, TypeOK
  <1>2. inventory' \in Int
    BY DEF Fill, TypeOK
  <1> QED
    BY <1>1, <1>2 DEF Fill, TypeOK, stratVars, pastVars

LEMMA StrategyRestartTyped ==
    ASSUME TypeOK, Restart
    PROVE  TypeOK'
  <1>1. hurt' \subseteq Subnets
    BY TheSwap DEF Restart, TypeOK
  <1>2. history' \in [Subnets -> Seq(Prices)]
    BY DEF Restart
  <1>3. IsFiniteSet(orders')
    BY FS_EmptySet DEF Restart
  <1> QED
    BY <1>1, <1>2, <1>3 DEF Restart, TypeOK, worldVars

StrategyStep ==
    \/ Decide \/ Restart
    \/ \E s \in swaps : SwapLands(s) \/ SwapFails(s)
    \/ \E o \in orders : OrderEnds(o)
    \/ \E q \in quotes : Fill(q)
    \/ UNCHANGED vars

LEMMA StrategySteps == [Next]_vars => StrategyStep
  BY Zenon DEF Next, StrategyStep

LEMMA StrategyTyped == TypeOK /\ [Next]_vars => TypeOK'
  <1> SUFFICES ASSUME TypeOK, StrategyStep PROVE TypeOK'
    BY StrategySteps
  <1>1. CASE UNCHANGED vars
    BY <1>1 DEF TypeOK, vars, stratVars, worldVars, pastVars
  <1> QED
    BY <1>1, DecideTyped, SwapTyped, OrderTyped, FillTyped, StrategyRestartTyped DEF StrategyStep

LEMMA StrategyInit == Init => TypeOK
  <1> SUFFICES ASSUME Init PROVE TypeOK
    OBVIOUS
  <1>1. PICK raw \in RawConfigs : cfg = New(kind, raw)
    BY DEF Init
  <1>2. kind \in Kinds /\ cfg # Refused
    BY DEF Init
  <1>3. /\ cfg \in ParsedConfigs
        /\ kind \in {"alpha_dca", "market_maker_basic"} => cfg["cadence"] > 0
        /\ kind = "alpha_yield" => cfg["cadence"] # 0
    BY <1>1, <1>2, ConfigTyped
  <1>4. IsFiniteSet(orders) /\ IsFiniteSet(quotes) /\ orders = {} /\ quotes = {}
    BY FS_EmptySet DEF Init
  <1>5. wallet \in [Subnets -> Nat] /\ history \in [Subnets -> Seq(Prices)]
    BY DEF Init, Fresh
  <1> QED
    BY <1>2, <1>3, <1>4, <1>5 DEF Init, Fresh, TypeOK, ParsedConfigs

\* The types of the bundled strategies' state and of what they leave behind.
THEOREM StrategyTypeCorrect == Spec => []TypeOK
  BY StrategyInit, StrategyTyped, PTL DEF Spec

-----------------------------------------------------------------------------
(* Rotation.                                                                 *)

LEMMA TopTyped ==
    ASSUME TypeOK
    PROVE  Top \in Nat
  <1>1. cfg["top"] \in Int
    BY FieldNames DEF TypeOK
  <1> QED
    BY <1>1 DEF Top

\* No step changes the strategy or its config.
LEMMA SameStrategy ==
    ASSUME StrategyStep
    PROVE  kind' = kind /\ cfg' = cfg
  BY DEF StrategyStep, Decide, Restart, SwapLands, SwapFails, OrderEnds, Fill, vars

LEMMA SameTop ==
    ASSUME StrategyStep
    PROVE  Top' = Top /\ (Rotating' <=> Rotating)
  BY SameStrategy DEF Top, Rotating

\* The sets that Due is made of.
LEMMA DueSets ==
    /\ Entering \subseteq Subnets /\ Leaving \subseteq Subnets
    /\ Due = (held \ Entering) \union Leaving
    /\ TypeOK => Due \in SUBSET Subnets /\ IsFiniteSet(Due) /\ IsFiniteSet(held)
  <1>1. Entering \subseteq Subnets /\ Leaving \subseteq Subnets
    BY DEF Entering, Leaving
  <1>2. Due = (held \ Entering) \union Leaving
    BY DEF Due
  <1>3. TypeOK => Due \in SUBSET Subnets /\ held \in SUBSET Subnets
    BY <1>1, <1>2 DEF TypeOK
  <1> QED
    BY <1>1, <1>2, <1>3, FS_Subset, StrategyConstants

\* Between decisions what is due is what is held.
LEMMA DueIsHeld ==
    ASSUME swaps = {}
    PROVE  Entering = {} /\ Leaving = {} /\ Due = held
  BY DEF Entering, Leaving, Due

\* A decision changes the belief, and not what is due before its swaps run.
LEMMA DueAfterRotation ==
    ASSUME TypeOK, RotationInOrder, Rotating, swaps = {}, Rotates, Rotating', Top' = Top
    PROVE  RotationInOrder' /\ Due' = Due
  <1>1. Due = held /\ Cardinality(held) <= Top
    BY DueIsHeld DEF RotationInOrder
  <1>2. CASE Nothing /\ held' = held
    <2>1. Entering' = {} /\ Leaving' = {} /\ Due' = held'
      BY <1>2 DEF Nothing, Entering, Leaving, Due
    <2> QED
      BY <1>1, <1>2, <2>1 DEF RotationInOrder
  <1>3. ASSUME NEW h, NEW better, NEW T \in Tops(Scored(h), better), NEW target \in SUBSET T, Rebalance(target)
        PROVE  RotationInOrder' /\ Due' = Due
    <2>1. /\ target \in SUBSET Subnets /\ IsFiniteSet(T) /\ Cardinality(T) = TopCount(Scored(h))
      BY TopsAreSubnets, FS_Subset, StrategyConstants
    <2>2. TopCount(Scored(h)) <= Top /\ Cardinality(T) \in Int /\ Top \in Int
      <3>1. IsFiniteSet(Scored(h))
        BY FS_Subset, StrategyConstants DEF Scored
      <3>2. Cardinality(Scored(h)) \in Nat /\ Top \in Nat /\ Cardinality(T) \in Nat
        BY <2>1, <3>1, FS_CardinalityType, TopTyped
      <3> QED
        BY <3>2 DEF TopCount, Least
    <2>3. Cardinality(target) <= Top
      <3>1. IsFiniteSet(target) /\ Cardinality(target) <= Cardinality(T)
        BY <2>1, FS_Subset
      <3>2. Cardinality(target) \in Int
        BY <3>1, FS_CardinalityType
      <3> QED
        BY <2>1, <2>2, <3>1, <3>2
    <2>4. held' = target /\ held \in SUBSET Subnets
      BY <1>3 DEF Rebalance, TypeOK
    <2>5. swaps' = {Sell(n) : n \in held \ target} \union {Buy(n) : n \in target \ held}
      <3>1. CASE target = held
        <4>1. {Sell(n) : n \in held \ target} \union {Buy(n) : n \in target \ held} = {}
          BY <3>1
        <4> QED
          BY <1>3, <3>1, <4>1 DEF Rebalance, Nothing
      <3>2. CASE target # held
        BY <1>3, <3>2 DEF Rebalance, Trade
      <3> QED
        BY <3>1, <3>2
    <2>6. \A n : /\ (Buy(n) \in swaps') <=> (n \in target \ held)
                 /\ (Sell(n) \in swaps') <=> (n \in held \ target)
      BY <2>5, SwapsApart
    <2>7. Entering' = target \ held /\ Leaving' = held \ target
      BY <2>1, <2>4, <2>6 DEF Entering, Leaving
    <2>8. Due' = held
      BY <2>4, <2>7 DEF Due
    <2> QED
      BY <1>1, <2>3, <2>4, <2>7, <2>8 DEF RotationInOrder
  <1> QED
    BY <1>2, <1>3 DEF Rotates

\* A swap that is done, well or not, leaves its asset due or no longer due.
DueMoves(n, side) ==
    /\ n \in Subnets
    /\ \/ side = "buy" /\ n \notin Due /\ Due' = Due \union {n}
       \/ side = "sell" /\ n \in Due /\ Due' = Due \ {n}

LEMMA DueAfterSwap ==
    ASSUME TypeOK, RotationInOrder, Rotating, Rotating', Top' = Top, NEW s \in swaps, IsNext(s),
           swaps' = swaps \ {s}, held' = held
    PROVE  RotationInOrder' /\ DueMoves(s.asset, s.side)
  <1> DEFINE n == s.asset
  <1>1. n \in Subnets /\ \/ s = Buy(n) /\ s.side = "buy"
                         \/ s = Sell(n) /\ s.side = "sell"
    BY TheSwap
  <1>2. Entering \subseteq held /\ Leaving \intersect held = {} /\ Cardinality(held) <= Top /\ Cardinality(Due) <= Top
    BY DEF RotationInOrder
  <1> HIDE DEF n
  <1>3. CASE s = Buy(n) /\ s.side = "buy"
    <2>1. Leaving = {}
      <3> SUFFICES ASSUME NEW m \in Leaving PROVE FALSE
        OBVIOUS
      <3>1. Sell(m) \in swaps /\ Sell(m).side = "sell"
        BY SwapFields DEF Leaving
      <3> QED
        BY <1>3, <3>1 DEF IsNext
    <2>2. n \in Entering
      BY <1>1, <1>3 DEF Entering
    <2>3. Entering' = Entering \ {n} /\ Leaving' = Leaving
      BY <1>3, SwapsApart DEF Entering, Leaving
    <2>4. Due' = Due \union {n} /\ n \notin Due /\ Due' \in SUBSET held
      BY <1>2, <2>1, <2>2, <2>3 DEF Due
    <2>5. Cardinality(Due') <= Top
      <3>1. IsFiniteSet(held)
        BY DueSets
      <3>2. IsFiniteSet(Due') /\ Cardinality(Due') <= Cardinality(held)
        BY <2>4, <3>1, FS_Subset
      <3>3. Cardinality(Due') \in Int /\ Cardinality(held) \in Int /\ Top \in Int
        BY <3>1, <3>2, FS_CardinalityType, TopTyped
      <3> QED
        BY <1>2, <3>2, <3>3
    <2> QED
      BY <1>1, <1>2, <1>3, <2>1, <2>3, <2>4, <2>5 DEF RotationInOrder, DueMoves, n
  <1>4. CASE s = Sell(n) /\ s.side = "sell"
    <2>1. n \in Leaving
      BY <1>1, <1>4 DEF Leaving
    <2>2. Entering' = Entering /\ Leaving' = Leaving \ {n}
      BY <1>4, SwapsApart DEF Entering, Leaving
    <2>3. Due' = Due \ {n} /\ n \in Due
      BY <1>2, <2>1, <2>2 DEF Due
    <2>4. Cardinality(Due') <= Top
      <3>1. IsFiniteSet(Due)
        BY DueSets
      <3>2. IsFiniteSet(Due') /\ Cardinality(Due') <= Cardinality(Due)
        BY <2>3, <3>1, FS_Subset
      <3>3. Cardinality(Due') \in Int /\ Cardinality(Due) \in Int /\ Top \in Int
        BY <3>1, <3>2, FS_CardinalityType, TopTyped
      <3> QED
        BY <1>2, <3>2, <3>3
    <2> QED
      BY <1>1, <1>2, <1>4, <2>2, <2>3, <2>4 DEF RotationInOrder, DueMoves, n
  <1> QED
    BY <1>1, <1>3, <1>4

LEMMA DueAfterRestart ==
    ASSUME TypeOK, Restart
    PROVE  RotationInOrder' /\ Due' = {}
  <1>1. swaps' = {} /\ held' = {} /\ cfg' = cfg
    BY DEF Restart
  <1>2. Entering' = {} /\ Leaving' = {} /\ Due' = {}
    BY <1>1 DEF Entering, Leaving, Due
  <1>3. Cardinality({}) <= Top
    BY FS_EmptySet, TopTyped
  <1>4. Top' = Top
    BY <1>1 DEF Top
  <1> QED
    BY <1>1, <1>2, <1>3, <1>4 DEF RotationInOrder

\* What each step does to what is due, for a rotating strategy.
RotationStep ==
    \/ Due' = Due /\ UNCHANGED <<wallet, restarts, failures, hurt>>
    \/ \E s \in swaps : DueMoves(s.asset, s.side) /\ (SwapLands(s) \/ SwapFails(s))
    \/ Due' = {} /\ Restart

LEMMA RotationSteps ==
    ASSUME TypeOK, RotationInOrder, Rotating, StrategyStep
    PROVE  RotationInOrder' /\ RotationStep
  <1>1. Rotating' /\ Top' = Top
    BY SameTop
  <1>2. CASE Decide
    <2>1. swaps = {} /\ Rotates
      BY <1>2, MomentumRotates, YieldRotates DEF Decide, Rotating
    <2>2. UNCHANGED <<wallet, restarts, failures, hurt>>
      BY <1>2 DEF Decide, worldVars
    <2> QED
      BY <1>1, <2>1, <2>2, DueAfterRotation DEF RotationStep
  <1>3. CASE Restart
    BY <1>3, DueAfterRestart DEF RotationStep
  <1>4. ASSUME NEW s \in swaps, SwapLands(s) \/ SwapFails(s)
        PROVE  RotationInOrder' /\ RotationStep
    <2>1. IsNext(s) /\ swaps' = swaps \ {s} /\ held' = held
      BY <1>4 DEF SwapLands, SwapFails, stratVars
    <2>2. RotationInOrder' /\ DueMoves(s.asset, s.side)
      BY <1>1, <2>1, DueAfterSwap
    <2> QED
      BY <1>4, <2>2 DEF RotationStep
  <1>5. CASE (\E o \in orders : OrderEnds(o)) \/ (\E q \in quotes : Fill(q)) \/ UNCHANGED vars
    <2>1. UNCHANGED <<swaps, held, wallet, restarts, failures, hurt>>
      BY <1>5 DEF OrderEnds, Fill, vars, stratVars, worldVars, pastVars
    <2>2. Entering' = Entering /\ Leaving' = Leaving /\ Due' = Due
      BY <2>1 DEF Entering, Leaving, Due
    <2> QED
      BY <1>1, <2>1, <2>2 DEF RotationInOrder, RotationStep
  <1> QED
    BY <1>2, <1>3, <1>4, <1>5 DEF StrategyStep

\* What a swap that is done leaves in the wallet.
LEMMA WalletMoves ==
    ASSUME TypeOK, NEW s \in swaps, SwapLands(s)
    PROVE  /\ \A m \in Subnets : m # s.asset => wallet'[m] = wallet[m]
           /\ s.side = "buy" => wallet'[s.asset] = wallet[s.asset] + 1
           /\ s.side = "sell" => wallet[s.asset] > 0 /\ wallet'[s.asset] = wallet[s.asset] - 1
           /\ UNCHANGED <<restarts, failures, hurt>>
  <1>1. s.asset \in Subnets /\ wallet \in [Subnets -> Nat]
    BY TheSwap DEF TypeOK
  <1>2. /\ s.side = "sell" => wallet[s.asset] > 0
        /\ wallet' = [wallet EXCEPT ![s.asset] = IF s.side = "buy" THEN wallet[s.asset] + 1 ELSE wallet[s.asset] - 1]
        /\ UNCHANGED <<restarts, failures, hurt>>
    BY DEF SwapLands, pastVars
  <1> QED
    BY <1>1, <1>2

LEMMA SwapFailsTo ==
    ASSUME TypeOK, NEW s, SwapFails(s)
    PROVE  /\ UNCHANGED <<wallet, restarts>> /\ hurt' = hurt \union {s.asset}
           /\ failures' = failures + 1 \/ (failures' = failures /\ s.side = "sell" /\ wallet[s.asset] = 0)
  BY DEF SwapFails, worldVars

LEMMA WalletStaysAsDue ==
    ASSUME TypeOK, TypeOK', RotationInOrder, WalletIsAsDue, StrategyStep
    PROVE  WalletIsAsDue'
  <1> SUFFICES ASSUME Rotating', NEW n \in Subnets \ hurt'
               PROVE  wallet'[n] = IF n \in Due' THEN 1 ELSE 0
    BY DEF WalletIsAsDue
  <1>1. Rotating /\ RotationStep
    BY SameTop, RotationSteps
  <1>2. \A m \in Subnets \ hurt : wallet[m] = IF m \in Due THEN 1 ELSE 0
    BY <1>1 DEF WalletIsAsDue
  <1>3. CASE Due' = Due /\ UNCHANGED <<wallet, restarts, failures, hurt>>
    BY <1>2, <1>3
  <1>4. ASSUME NEW s \in swaps, DueMoves(s.asset, s.side), SwapLands(s)
        PROVE  wallet'[n] = IF n \in Due' THEN 1 ELSE 0
    BY <1>2, <1>4, WalletMoves DEF DueMoves
  <1>5. ASSUME NEW s \in swaps, DueMoves(s.asset, s.side), SwapFails(s)
        PROVE  wallet'[n] = IF n \in Due' THEN 1 ELSE 0
    BY <1>2, <1>5, SwapFailsTo DEF DueMoves
  <1>6. CASE Due' = {} /\ Restart
    <2>1. wallet' = wallet /\ n \notin {m \in Subnets : wallet[m] > 0} /\ wallet[n] \in Nat
      BY <1>6 DEF Restart, worldVars, TypeOK
    <2> QED
      BY <1>6, <2>1
  <1> QED
    BY <1>1, <1>3, <1>4, <1>5, <1>6 DEF RotationStep

-----------------------------------------------------------------------------
(* Positions.                                                                *)

\* How far a holding is above what is due of it.
Beyond(w, d) ==
    LET due == IF d THEN 1 ELSE 0 IN IF w > due THEN w - due ELSE 0

LEMMA BeyondTyped ==
    ASSUME NEW w \in Nat
    PROVE  \A d \in BOOLEAN : Beyond(w, d) \in Nat /\ w <= Beyond(w, d) + (IF d THEN 1 ELSE 0)
  BY DEF Beyond

LEMMA BeyondMoves ==
    ASSUME NEW w \in Nat
    PROVE  /\ Beyond(w + 1, TRUE) = Beyond(w, FALSE)
           /\ w > 0 => Beyond(w - 1, FALSE) = Beyond(w, TRUE)
           /\ Beyond(w, TRUE) <= Beyond(w, FALSE)
           /\ Beyond(w, FALSE) <= Beyond(w, TRUE) + 1
           /\ w = 0 => Beyond(w, FALSE) = Beyond(w, TRUE)
           /\ Beyond(w, FALSE) = w
  BY DEF Beyond

Surpluses == [n \in Subnets |-> Beyond(wallet[n], n \in Due)]

SurplusForm ==
    /\ SurplusIsBounded <=> (Rotating => SumFunctionOnSet(Surpluses, Subnets) <= Top * restarts + failures)
    /\ \A n \in Subnets : Surpluses[n] = Beyond(wallet[n], n \in Due)

LEMMA TheSurplus == SurplusForm /\ SurplusForm'
  <1>1. [n \in Subnets |-> Surplus(n)] = Surpluses
    BY DEF Surplus, Surpluses, Beyond
  <1>2. \A n \in Subnets : Surpluses[n] = Beyond(wallet[n], n \in Due)
    BY DEF Surpluses
  <1>3. SurplusForm
    BY <1>1, <1>2 DEF SurplusIsBounded, SurplusForm
  <1> QED
    BY <1>3, PTL

SurplusTypes ==
    \A n \in Subnets : /\ Surpluses[n] \in Nat /\ wallet[n] \in Nat
                       /\ wallet[n] <= Surpluses[n] + (IF n \in Due THEN 1 ELSE 0)

LEMMA SurplusTyped == (TypeOK => SurplusTypes) /\ (TypeOK' => SurplusTypes')
  <1>1. ASSUME TypeOK, NEW n \in Subnets
        PROVE  Surpluses[n] \in Nat /\ wallet[n] \in Nat /\ wallet[n] <= Surpluses[n] + (IF n \in Due THEN 1 ELSE 0)
    <2>1. wallet[n] \in Nat /\ (n \in Due) \in BOOLEAN
      BY <1>1 DEF TypeOK
    <2> QED
      BY <2>1, BeyondTyped, TheSurplus DEF SurplusForm
  <1>2. TypeOK => SurplusTypes
    BY <1>1 DEF SurplusTypes
  <1> QED
    BY <1>2, PTL

\* The wallet: what is due and what is beyond.
LEMMA WalletSum ==
    ASSUME TypeOK, Rotating, RotationInOrder
    PROVE  /\ SumFunctionOnSet(wallet, Subnets) <= SumFunctionOnSet(Surpluses, Subnets) + Top
           /\ SumFunctionOnSet(wallet, Subnets) \in Int /\ SumFunctionOnSet(Surpluses, Subnets) \in Int
  <1> DEFINE one == [n \in Subnets |-> IF n \in Due THEN 1 ELSE 0]
             both == [n \in Subnets |-> 1 * Surpluses[n] + one[n]]
  <1>1. \A n \in Subnets : one[n] \in Int /\ one[n] = (IF n \in Due THEN 1 ELSE 0)
    OBVIOUS
  <1>2. \A n \in Subnets : both[n] = 1 * Surpluses[n] + one[n]
    OBVIOUS
  <1> HIDE DEF one, both
  <1>3. \A n \in Subnets : Surpluses[n] \in Int /\ wallet[n] \in Int /\ both[n] \in Int /\ wallet[n] <= both[n]
    BY <1>1, <1>2, SurplusTyped DEF SurplusTypes
  <1>4. IsFiniteSet(Subnets) /\ Due \in SUBSET Subnets
    BY StrategyConstants, DueSets
  <1>5. SumFunctionOnSet(both, Subnets) = 1 * SumFunctionOnSet(Surpluses, Subnets) + SumFunctionOnSet(one, Subnets)
    <2>1. \A n \in Subnets : Surpluses[n] \in Int /\ one[n] \in Int /\ both[n] = 1 * Surpluses[n] + one[n]
      BY <1>1, <1>2, <1>3
    <2>2. 1 \in Int
      OBVIOUS
    <2> QED
      BY <1>4, <2>1, <2>2, SumLinear
  <1>6. SumFunctionOnSet(one, Subnets) = Cardinality(Due)
    BY <1>1, <1>4, SumCounts
  <1>7. SumFunctionOnSet(wallet, Subnets) <= SumFunctionOnSet(both, Subnets)
    BY <1>3, <1>4, SumBelow
  <1>8. /\ SumFunctionOnSet(wallet, Subnets) \in Int /\ SumFunctionOnSet(Surpluses, Subnets) \in Int
        /\ SumFunctionOnSet(both, Subnets) \in Int
    BY <1>3, <1>4, SumTakesOut
  <1>9. Cardinality(Due) <= Top /\ Cardinality(Due) \in Int /\ Top \in Int
    BY DueSets, FS_CardinalityType, TopTyped DEF RotationInOrder
  <1> QED
    BY <1>5, <1>6, <1>7, <1>8, <1>9

LEMMA SurplusStaysBounded ==
    ASSUME TypeOK, TypeOK', RotationInOrder, SurplusIsBounded, StrategyStep
    PROVE  SurplusIsBounded'
  <1> DEFINE sum == SumFunctionOnSet(Surpluses, Subnets)
  <1>1. SUFFICES ASSUME Rotating' PROVE sum' <= Top' * restarts' + failures'
    BY TheSurplus DEF SurplusForm
  <1>2. Rotating /\ RotationStep /\ Top' = Top /\ Top \in Nat
    BY <1>1, SameTop, RotationSteps, TopTyped
  <1>3. sum <= Top * restarts + failures
    BY <1>2, TheSurplus DEF SurplusForm
  <1>4. /\ IsFiniteSet(Subnets) /\ restarts \in Nat /\ failures \in Nat
        /\ \A n \in Subnets : Surpluses[n] = Beyond(wallet[n], n \in Due)
        /\ \A n \in Subnets : Surpluses'[n] = Beyond(wallet'[n], n \in Due')
        /\ \A n \in Subnets : Surpluses[n] \in Int /\ Surpluses'[n] \in Int /\ wallet[n] \in Nat
    <2>1. restarts \in Nat /\ failures \in Nat
      BY DEF TypeOK
    <2>2. SurplusTypes /\ SurplusTypes'
      BY SurplusTyped
    <2>3. \A n \in Subnets : Surpluses[n] \in Int /\ Surpluses'[n] \in Int /\ wallet[n] \in Nat
      BY <2>2 DEF SurplusTypes
    <2>4. /\ \A n \in Subnets : Surpluses[n] = Beyond(wallet[n], n \in Due)
          /\ \A n \in Subnets : Surpluses'[n] = Beyond(wallet'[n], n \in Due')
      BY TheSurplus DEF SurplusForm
    <2> QED
      BY <2>1, <2>3, <2>4, StrategyConstants
  <1>5. sum \in Int /\ sum' \in Int
    BY <1>4, SumTakesOut
  <1>6. Top * restarts \in Int
    BY <1>2, <1>4
  <1>7. CASE Due' = Due /\ UNCHANGED <<wallet, restarts, failures, hurt>>
    <2>1. sum' = sum
      BY <1>4, <1>7, SumAlike
    <2> QED
      BY <1>2, <1>3, <1>7, <2>1
  <1>8. ASSUME NEW s \in swaps, DueMoves(s.asset, s.side), SwapLands(s)
        PROVE  sum' <= Top' * restarts' + failures'
    <2>1. ASSUME NEW n \in Subnets PROVE Surpluses'[n] = Surpluses[n]
      <3>1. CASE n # s.asset
        BY <1>4, <1>8, <3>1, WalletMoves DEF DueMoves
      <3>2. CASE n = s.asset /\ s.side = "buy"
        <4>1. wallet'[n] = wallet[n] + 1 /\ (n \in Due) = FALSE /\ (n \in Due') = TRUE
          BY <1>8, <3>2, WalletMoves DEF DueMoves
        <4> QED
          BY <1>4, <4>1, BeyondMoves
      <3>3. CASE n = s.asset /\ s.side = "sell"
        <4>1. wallet[n] > 0 /\ wallet'[n] = wallet[n] - 1 /\ (n \in Due) = TRUE /\ (n \in Due') = FALSE
          BY <1>8, <3>3, WalletMoves DEF DueMoves
        <4> QED
          BY <1>4, <4>1, BeyondMoves
      <3> QED
        BY <1>8, <3>1, <3>2, <3>3 DEF DueMoves
    <2>2. sum' = sum
      BY <1>4, <2>1, SumAlike
    <2>3. UNCHANGED <<restarts, failures>>
      BY <1>8, WalletMoves
    <2> QED
      BY <1>2, <1>3, <2>2, <2>3
  <1>9. ASSUME NEW s \in swaps, DueMoves(s.asset, s.side), SwapFails(s)
        PROVE  sum' <= Top' * restarts' + failures'
    <2> DEFINE n == s.asset
    <2>1. n \in Subnets /\ \A m \in Subnets \ {n} : Surpluses'[m] = Surpluses[m]
      <3>1. n \in Subnets /\ \A m \in Subnets \ {n} : (m \in Due') = (m \in Due)
        BY <1>9 DEF DueMoves
      <3>2. wallet' = wallet
        BY <1>9, SwapFailsTo
      <3> QED
        BY <1>4, <3>1, <3>2
    <2>2. Surpluses'[n] - Surpluses[n] <= failures' - failures /\ restarts' = restarts /\ failures' \in Int
      <3>1. wallet' = wallet /\ restarts' = restarts
            /\ (failures' = failures + 1 \/ (failures' = failures /\ s.side = "sell" /\ wallet[n] = 0))
        BY <1>9, SwapFailsTo
      <3>2. \/ s.side = "buy" /\ (n \in Due) = FALSE /\ (n \in Due') = TRUE
            \/ s.side = "sell" /\ (n \in Due) = TRUE /\ (n \in Due') = FALSE
        BY <1>9 DEF DueMoves
      <3>3. /\ wallet[n] \in Nat
            /\ Surpluses[n] = Beyond(wallet[n], n \in Due)
            /\ Surpluses'[n] = Beyond(wallet[n], n \in Due')
            /\ Surpluses[n] \in Int /\ Surpluses'[n] \in Int
        BY <1>4, <2>1, <3>1
      <3>4. failures \in Int
        BY <1>4
      <3> HIDE DEF n
      <3>5. CASE s.side = "buy"
        <4>1. Surpluses[n] = Beyond(wallet[n], FALSE) /\ Surpluses'[n] = Beyond(wallet[n], TRUE)
          BY <3>2, <3>3, <3>5
        <4>2. Surpluses'[n] <= Surpluses[n]
          BY <3>3, <4>1, BeyondMoves
        <4> QED
          BY <3>1, <3>3, <3>4, <3>5, <4>2
      <3>6. CASE s.side = "sell"
        <4>1. Surpluses[n] = Beyond(wallet[n], TRUE) /\ Surpluses'[n] = Beyond(wallet[n], FALSE)
          BY <3>2, <3>3, <3>6
        <4>2. Surpluses'[n] <= Surpluses[n] + 1 /\ (wallet[n] = 0 => Surpluses'[n] = Surpluses[n])
          BY <3>3, <4>1, BeyondMoves
        <4> QED
          BY <3>1, <3>3, <3>4, <4>2
      <3> QED
        BY <3>2, <3>5, <3>6
    <2> HIDE DEF n
    <2>3. sum' = sum + Surpluses'[n] - Surpluses[n]
      BY <1>4, <2>1, SumChanges
    <2>4. Surpluses'[n] \in Int /\ Surpluses[n] \in Int
      BY <1>4, <2>1
    <2> HIDE DEF sum
    <2>5. sum' <= Top * restarts + failures'
      BY <1>3, <1>4, <1>5, <1>6, <2>2, <2>3, <2>4
    <2> QED
      BY <1>2, <2>2, <2>5
  <1>10. CASE Due' = {} /\ Restart
    <2>1. restarts' = restarts + 1 /\ failures' = failures /\ wallet' = wallet
      BY <1>10 DEF Restart, worldVars
    <2>2. \A n \in Subnets : wallet[n] \in Int /\ Surpluses'[n] = wallet[n]
      <3>1. ASSUME NEW n \in Subnets PROVE wallet[n] \in Int /\ Surpluses'[n] = wallet[n]
        <4>1. (n \in Due') = FALSE /\ wallet'[n] = wallet[n] /\ wallet[n] \in Nat
          BY <1>4, <1>10, <2>1
        <4> QED
          BY <1>4, <4>1, BeyondMoves
      <3> QED
        BY <3>1
    <2>3. sum' = SumFunctionOnSet(wallet, Subnets)
      BY <1>4, <2>2, SumAlike
    <2>4. SumFunctionOnSet(wallet, Subnets) <= sum + Top
      BY <1>2, WalletSum
    <2>5. Top * (restarts + 1) = Top * restarts + Top
      BY <1>2, <1>4
    <2> HIDE DEF sum
    <2>6. sum' <= Top * (restarts + 1) + failures
      BY <1>2, <1>3, <1>4, <1>5, <1>6, <2>3, <2>4, <2>5
    <2> QED
      BY <1>2, <2>1, <2>6
  <1> QED
    BY <1>2, <1>7, <1>8, <1>9, <1>10 DEF RotationStep

\* Together, an inductive invariant.
RotationInv == TypeOK /\ RotationInOrder /\ WalletIsAsDue /\ SurplusIsBounded

LEMMA RotationStarts == Init => RotationInv
  <1> SUFFICES ASSUME Init PROVE RotationInv
    OBVIOUS
  <1>1. TypeOK
    BY StrategyInit
  <1>2. /\ swaps = {} /\ held = {} /\ restarts = 0 /\ failures = 0
        /\ \A n \in Subnets : wallet[n] = 0
    BY DEF Init, Fresh
  <1>3. Entering = {} /\ Leaving = {} /\ Due = {}
    BY <1>2, DueIsHeld
  <1>4. Cardinality({}) <= Top /\ Top \in Nat
    BY <1>1, FS_EmptySet, TopTyped
  <1>5. RotationInOrder /\ WalletIsAsDue
    BY <1>2, <1>3, <1>4 DEF RotationInOrder, WalletIsAsDue
  <1>6. SurplusIsBounded
    <2>1. \A n \in Subnets : Surpluses[n] = 0
      BY <1>2, <1>3, TheSurplus DEF Beyond, SurplusForm
    <2>2. SumFunctionOnSet(Surpluses, Subnets) = 0
      BY <2>1, StrategyConstants, SumOfZeros
    <2> QED
      BY <1>2, <1>4, <2>2, TheSurplus DEF SurplusForm
  <1> QED
    BY <1>1, <1>5, <1>6 DEF RotationInv

LEMMA RotationStays == RotationInv /\ [Next]_vars => RotationInv'
  <1> SUFFICES ASSUME RotationInv, [Next]_vars PROVE RotationInv'
    OBVIOUS
  <1>1. TypeOK' /\ StrategyStep
    BY StrategyTyped, StrategySteps DEF RotationInv
  <1>2. RotationInOrder'
    <2>1. CASE Rotating
      BY <1>1, <2>1, RotationSteps DEF RotationInv
    <2>2. CASE ~Rotating
      <3>1. ~Rotating'
        BY <1>1, <2>2, SameTop
      <3> QED
        BY <3>1 DEF RotationInOrder
    <2> QED
      BY <2>1, <2>2
  <1> QED
    BY <1>1, <1>2, WalletStaysAsDue, SurplusStaysBounded DEF RotationInv

LEMMA RotationCorrect == Spec => []RotationInv
  BY RotationStarts, RotationStays, PTL DEF Spec

\* Between the ticks of alpha_momentum and alpha_yield, for any universe, prices
\* and config: what Decide wrote into held is in the wallet, up to the assets
\* whose swap executeSwap did not get through and those a new process forgot.
THEOREM BeliefCorrect == Spec => []BeliefDriftIsConfined
  <1>1. RotationInv => BeliefDriftIsConfined
    BY DueIsHeld DEF RotationInv, WalletIsAsDue, BeliefDriftIsConfined
  <1> QED
    BY <1>1, RotationCorrect, PTL

\* The positions of a rotating strategy: TopK for each process, and one for each
\* swap that failed.
THEOREM HoldingsCorrect == Spec => []HoldingsAreBounded
  <1>1. ASSUME RotationInv PROVE HoldingsAreBounded
    <2>1. SUFFICES ASSUME Rotating
                   PROVE  SumFunctionOnSet(wallet, Subnets) <= Top * (1 + restarts) + failures
      BY DEF HoldingsAreBounded
    <2>2. /\ SumFunctionOnSet(wallet, Subnets) <= SumFunctionOnSet(Surpluses, Subnets) + Top
          /\ SumFunctionOnSet(wallet, Subnets) \in Int /\ SumFunctionOnSet(Surpluses, Subnets) \in Int
      BY <1>1, <2>1, WalletSum DEF RotationInv
    <2>3. SumFunctionOnSet(Surpluses, Subnets) <= Top * restarts + failures
      BY <1>1, <2>1, TheSurplus DEF RotationInv, SurplusForm
    <2>4. Top \in Nat /\ restarts \in Nat /\ failures \in Nat
      BY <1>1, TopTyped DEF RotationInv, TypeOK
    <2>5. Top * (1 + restarts) = Top * restarts + Top /\ Top * restarts \in Int
      BY <2>4
    <2> QED
      BY <2>2, <2>3, <2>4, <2>5
  <1>2. RotationInv => HoldingsAreBounded
    BY <1>1
  <1> QED
    BY <1>2, RotationCorrect, PTL

LEMMA SmallProduct ==
    ASSUME NEW d \in Nat, d > 0, NEW k \in Int, NEW m \in Int, d * k < d * m + d
    PROVE  k <= m
  <1> SUFFICES ASSUME k >= m + 1 PROVE FALSE
    OBVIOUS
  <1>1. d * k >= d * (m + 1) /\ d * (m + 1) = d * m + d
    OBVIOUS
  <1> QED
    BY <1>1

\* Counting on moves the remainder by one, or back to zero from the last one.
LEMMA NextRemainder ==
    ASSUME NEW x \in Nat, NEW d \in Nat, d > 0
    PROVE  /\ (x + 1) % d \in Int /\ x % d \in Int /\ 0 <= x % d
           /\ (x + 1) % d <= (x % d) + 1
           /\ (x + 1) % d = 0 => x % d = d - 1
  <1> DEFINE q == x \div d
             r == x % d
             p == (x + 1) \div d
             s == (x + 1) % d
  <1>1. q \in Int /\ r \in Int /\ x = d * q + r /\ 0 <= r /\ r < d /\ d * q \in Int
    BY DividesInto
  <1>2. p \in Int /\ s \in Int /\ x + 1 = d * p + s /\ 0 <= s /\ s < d /\ d * p \in Int
    BY DividesInto
  <1> HIDE DEF q, r, p, s
  <1>3. q <= p
    <2>1. d * q < d * p + d
      BY <1>1, <1>2
    <2> QED
      BY <1>1, <1>2, <2>1, SmallProduct
  <1>4. d * q <= d * p
    BY <1>1, <1>2, <1>3
  <1>5. s <= r + 1
    BY <1>1, <1>2, <1>4
  <1>6. s = 0 => r = d - 1
    <2>1. ASSUME s = 0 PROVE r = d - 1
      <3>1. p # q
        BY <1>1, <1>2, <2>1
      <3>2. p >= q + 1
        BY <1>1, <1>2, <1>3, <3>1
      <3>3. d * p >= d * q + d
        <4>1. d * p >= d * (q + 1) /\ d * (q + 1) = d * q + d
          BY <1>1, <1>2, <3>2
        <4> QED
          BY <4>1
      <3> QED
        BY <1>1, <1>2, <2>1, <3>3
    <2> QED
      BY <2>1
  <1> QED
    BY <1>1, <1>2, <1>5, <1>6 DEF r, s

-----------------------------------------------------------------------------
(* Cadence.                                                                  *)

LEMMA IntervalFits ==
    ASSUME NEW start \in Int, NEW after \in Int, NEW d \in Int, NEW last \in Int, NEW at \in Int,
           start = after + d, after <= last, at - last >= d
    PROVE  start <= at
  OBVIOUS

\* Everything outside the decision and the restart leaves the clock alone.
LEMMA ClockStands ==
    ASSUME StrategyStep, ~Decide, ~Restart
    PROVE  UNCHANGED <<kind, cfg, lastBuyAt, tickCount, now, ticks, restarts, buys>>
  BY DEF StrategyStep, SwapLands, SwapFails, OrderEnds, Fill, vars, stratVars, worldVars, pastVars

CadenceTypes ==
    /\ cfg["cadence"] \in Int /\ lastBuyAt \in Nat /\ tickCount \in Nat /\ now \in Nat
    /\ ticks \in Nat /\ restarts \in Nat /\ buys \in Nat
    /\ kind \in {"alpha_dca", "market_maker_basic"} => cfg["cadence"] > 0

LEMMA CadenceTyped == TypeOK => CadenceTypes
  BY FieldNames DEF TypeOK, CadenceTypes

LEMMA TimeStaysUsedUp ==
    ASSUME TypeOK, TimeIsUsedUp, StrategyStep
    PROVE  TimeIsUsedUp'
  <1> DEFINE c == cfg["cadence"]
             start == c * (buys - restarts)
             after == c * (buys - 1 - restarts)
  <1>1. kind' = kind /\ cfg' = cfg
    BY SameStrategy
  <1>2. SUFFICES ASSUME kind = "dca_buy", c > 0
                 PROVE  /\ lastBuyAt' <= now'
                        /\ IF lastBuyAt' = 0 THEN c * (buys' - restarts') <= now'
                           ELSE c * (buys' - 1 - restarts') <= lastBuyAt'
    BY <1>1 DEF TimeIsUsedUp
  <1>3. lastBuyAt <= now /\ IF lastBuyAt = 0 THEN start <= now ELSE after <= lastBuyAt
    BY <1>2 DEF TimeIsUsedUp
  <1>4. c \in Int /\ lastBuyAt \in Int /\ lastBuyAt >= 0 /\ now \in Int /\ now >= 0 /\ restarts \in Int /\ buys \in Int
    BY CadenceTyped DEF CadenceTypes
  <1> HIDE DEF c
  <1>5. start = after + c /\ start \in Int /\ after \in Int
    BY <1>4
  <1>6. CASE Decide
    <2>1. PICK d \in Gaps : now' = now + d
      BY <1>6 DEF Decide
    <2>2. now' \in Int /\ now' > now /\ restarts' = restarts
      BY <1>4, <1>6, <2>1 DEF Gaps, Decide
    <2>3. DcaBuy(now')
      BY <1>2, <1>6 DEF Decide
    <2>4. CASE CoolingDown(now')
      <3>1. lastBuyAt' = lastBuyAt /\ buys' = buys
        BY <2>3, <2>4 DEF DcaBuy, Nothing
      <3> HIDE DEF start, after
      <3>2. lastBuyAt <= now' /\ IF lastBuyAt = 0 THEN start <= now' ELSE after <= lastBuyAt
        BY <1>3, <1>4, <1>5, <2>2
      <3> QED
        BY <2>2, <3>1, <3>2 DEF start, after
    <2>5. CASE ~CoolingDown(now')
      <3>1. lastBuyAt' = now' /\ buys' = buys + 1
        BY <2>3, <2>5 DEF DcaBuy, Trade
      <3>2. lastBuyAt # 0 => now' - lastBuyAt >= c
        BY <1>4, <2>2, <2>5 DEF CoolingDown, c
      <3>3. c * (buys' - 1 - restarts') = start
        <4>1. buys' - 1 - restarts' = buys - restarts
          BY <1>4, <2>2, <3>1
        <4> QED
          BY <4>1
      <3> HIDE DEF start, after
      <3>4. start <= now'
        <4>1. CASE lastBuyAt = 0
          BY <1>3, <1>4, <1>5, <2>2, <4>1
        <4>2. CASE lastBuyAt # 0
          <5>1. after <= lastBuyAt /\ now' - lastBuyAt >= c
            BY <1>3, <3>2, <4>2
          <5>2. start = after + c /\ start \in Int /\ after \in Int /\ c \in Int /\ lastBuyAt \in Int /\ now' \in Int
            BY <1>4, <1>5, <2>2
          <5> QED
            BY <5>1, <5>2, IntervalFits
        <4> QED
          BY <4>1, <4>2
      <3> QED
        BY <1>4, <2>2, <3>1, <3>3, <3>4
    <2> QED
      BY <2>4, <2>5
  <1>7. CASE Restart
    <2>1. lastBuyAt' = 0 /\ now' = now /\ buys' = buys /\ restarts' = restarts + 1
      BY <1>7 DEF Restart
    <2>2. c * (buys' - restarts') = after
      <3>1. buys' - restarts' = buys - 1 - restarts
        BY <1>4, <2>1
      <3> QED
        BY <3>1
    <2> HIDE DEF start, after
    <2> QED
      BY <1>2, <1>3, <1>4, <1>5, <2>1, <2>2
  <1>8. CASE ~Decide /\ ~Restart
    BY <1>3, <1>8, ClockStands
  <1> QED
    BY <1>6, <1>7, <1>8

\* A decision counts the tick, and trades only when the count is a multiple.
LEMMA CountingDecides ==
    ASSUME TypeOK, Decide, kind \in {"alpha_dca", "market_maker_basic"}
    PROVE  /\ tickCount' = tickCount + 1 /\ ticks' = ticks + 1
           /\ \/ buys' = buys
              \/ buys' = buys + 1 /\ (tickCount + 1) % cfg["cadence"] = 0
  <1>1. Every = cfg["cadence"]
    BY CadenceTyped DEF CadenceTypes, Every
  <1>2. (\E at \in {now'} : AlphaDca(at)) \/ \E mid, veto : MarketMaker(mid, veto)
    BY DEF Decide
  <1> QED
    BY <1>1, <1>2 DEF Decide, AlphaDca, MarketMaker, Nothing, Trade, OffCadence

LEMMA TicksStayUsedUp ==
    ASSUME TypeOK, TicksAreUsedUp, StrategyStep
    PROVE  TicksAreUsedUp'
  <1> DEFINE c == cfg["cadence"]
  <1>1. kind' = kind /\ cfg' = cfg
    BY SameStrategy
  <1>2. SUFFICES ASSUME kind \in {"alpha_dca", "market_maker_basic"}
                 PROVE  c * buys' + (tickCount' % c) <= ticks'
    BY <1>1 DEF TicksAreUsedUp
  <1>3. c * buys + (tickCount % c) <= ticks
    BY <1>2 DEF TicksAreUsedUp
  <1>4. c \in Nat /\ c > 0 /\ tickCount \in Nat /\ ticks \in Nat /\ buys \in Nat
    BY <1>2, CadenceTyped DEF CadenceTypes
  <1> HIDE DEF c
  <1>5. c * buys \in Int /\ tickCount % c \in Int /\ 0 <= tickCount % c
    BY <1>4, DividesInto
  <1>6. CASE Decide
    <2>1. /\ tickCount' = tickCount + 1 /\ ticks' = ticks + 1
          /\ \/ buys' = buys
             \/ buys' = buys + 1 /\ (tickCount + 1) % c = 0
      BY <1>2, <1>6, CountingDecides DEF c
    <2>2. /\ (tickCount + 1) % c \in Int
          /\ (tickCount + 1) % c <= (tickCount % c) + 1
          /\ (tickCount + 1) % c = 0 => tickCount % c = c - 1
      BY <1>4, NextRemainder
    <2>3. c * (buys + 1) = c * buys + c
      BY <1>4
    <2>4. CASE buys' = buys
      BY <1>3, <1>4, <1>5, <2>1, <2>2, <2>4
    <2>5. CASE buys' = buys + 1 /\ (tickCount + 1) % c = 0
      <3>1. c * buys' = c * buys + c /\ tickCount' % c = 0 /\ tickCount % c = c - 1
        BY <2>1, <2>2, <2>3, <2>5
      <3> QED
        BY <1>3, <1>4, <1>5, <2>1, <3>1
    <2> QED
      BY <2>1, <2>4, <2>5
  <1>7. CASE Restart
    <2>1. tickCount' = 0 /\ ticks' = ticks /\ buys' = buys
      BY <1>7 DEF Restart
    <2>2. 0 % c = 0
      BY <1>4
    <2> QED
      BY <1>3, <1>4, <1>5, <2>1, <2>2
  <1>8. CASE ~Decide /\ ~Restart
    BY <1>3, <1>8, ClockStands
  <1> QED
    BY <1>6, <1>7, <1>8

-----------------------------------------------------------------------------
(* Quotes.                                                                   *)

OnSide(S, side) == Cardinality(OfSide(S, side))
OneIf(q, side) == IF q.side = side THEN 1 ELSE 0

LEMMA OnSideTyped ==
    ASSUME NEW S, IsFiniteSet(S), NEW side
    PROVE  IsFiniteSet(OfSide(S, side)) /\ OnSide(S, side) \in Nat
  <1>1. OfSide(S, side) \in SUBSET S
    BY DEF OfSide
  <1>2. IsFiniteSet(OfSide(S, side))
    BY <1>1, FS_Subset
  <1> QED
    BY <1>2, FS_CardinalityType DEF OnSide

LEMMA OnSideRemove ==
    ASSUME NEW S, IsFiniteSet(S), NEW q \in S, NEW side
    PROVE  OnSide(S \ {q}, side) = OnSide(S, side) - OneIf(q, side)
  <1>1. IsFiniteSet(OfSide(S, side)) /\ OnSide(S, side) \in Nat
    BY OnSideTyped
  <1>2. CASE q.side = side
    <2>1. q \in OfSide(S, side) /\ OfSide(S \ {q}, side) = OfSide(S, side) \ {q}
      BY <1>2 DEF OfSide
    <2> QED
      BY <1>1, <1>2, <2>1, FS_RemoveElement DEF OnSide, OneIf
  <1>3. CASE q.side # side
    <2>1. OfSide(S \ {q}, side) = OfSide(S, side)
      BY <1>3 DEF OfSide
    <2> QED
      BY <1>1, <1>3, <2>1 DEF OnSide, OneIf
  <1> QED
    BY <1>2, <1>3

LEMMA OnSideAdd ==
    ASSUME NEW S, IsFiniteSet(S), NEW q, NEW side
    PROVE  OnSide(S \union {q}, side) <= OnSide(S, side) + OneIf(q, side)
  <1>1. IsFiniteSet(OfSide(S, side)) /\ OnSide(S, side) \in Nat
    BY OnSideTyped
  <1>2. CASE q.side = side
    <2>1. OfSide(S \union {q}, side) = OfSide(S, side) \union {q}
      BY <1>2 DEF OfSide
    <2>4. OneIf(q, side) = 1
      BY <1>2 DEF OneIf
    <2>2. CASE q \in OfSide(S, side)
      <3>1. OfSide(S, side) \union {q} = OfSide(S, side)
        BY <2>2
      <3>2. OnSide(S \union {q}, side) = OnSide(S, side)
        BY <2>1, <3>1 DEF OnSide
      <3> QED
        BY <1>1, <2>4, <3>2
    <2>3. CASE q \notin OfSide(S, side)
      <3>1. Cardinality(OfSide(S, side) \union {q}) = Cardinality(OfSide(S, side)) + 1
        BY <1>1, <2>3, FS_AddElement
      <3>2. OnSide(S \union {q}, side) = OnSide(S, side) + 1
        BY <2>1, <3>1 DEF OnSide
      <3> QED
        BY <1>1, <2>4, <3>2
    <2> QED
      BY <2>2, <2>3
  <1>3. CASE q.side # side
    <2>1. OfSide(S \union {q}, side) = OfSide(S, side)
      BY <1>3 DEF OfSide
    <2> QED
      BY <1>1, <1>3, <2>1 DEF OnSide, OneIf
  <1> QED
    BY <1>2, <1>3

LEMMA OnSideNone == \A side : OnSide({}, side) = 0
  <1>1. \A side : OfSide({}, side) = {}
    BY DEF OfSide
  <1> QED
    BY <1>1, FS_EmptySet DEF OnSide

LEMMA OnSideOfTwo ==
    ASSUME NEW mid
    PROVE  /\ OnSide({Quote("buy", mid), Quote("sell", mid)}, "buy") = 1
           /\ OnSide({Quote("buy", mid), Quote("sell", mid)}, "sell") = 1
  <1>1. /\ OfSide({Quote("buy", mid), Quote("sell", mid)}, "buy") = {Quote("buy", mid)}
        /\ OfSide({Quote("buy", mid), Quote("sell", mid)}, "sell") = {Quote("sell", mid)}
    BY QuoteSides DEF OfSide
  <1> QED
    BY <1>1, FS_Singleton DEF OnSide

Bought == inventory + OnSide(quotes, "buy") + OnSide(orders, "buy")
Sold   == -inventory + OnSide(quotes, "sell") + OnSide(orders, "sell")

LEMMA PaidFor == (QuotesArePaidFor <=> Bought <= buys /\ Sold <= buys)
  BY DEF QuotesArePaidFor, Bought, Sold, OnSide

\* An order of a side becomes a quote of it, or none.
LEMMA OneMoves ==
    ASSUME NEW i \in Int, NEW x \in Int, NEW y \in Int, NEW z \in Int, NEW d \in Int, NEW w,
           w = y - d, z <= x + d
    PROVE  i + z + w <= i + x + y
  OBVIOUS

\* A new decision: no order is waiting, and one on each side is quoted at most.
LEMMA DecisionQuotes ==
    ASSUME Decide
    PROVE  \/ buys' = buys /\ orders' = {}
           \/ buys' = buys + 1 /\ orders' = {}
           \/ \E mid : buys' = buys + 1 /\ orders' = {Quote("buy", mid), Quote("sell", mid)}
  <1>1. \/ \E at : DcaBuy(at) \/ AlphaDca(at)
        \/ \E mid, veto : MarketMaker(mid, veto)
        \/ Rotates
    BY MomentumRotates, YieldRotates DEF Decide
  <1>2. CASE \E at : DcaBuy(at) \/ AlphaDca(at)
    BY <1>2 DEF DcaBuy, AlphaDca, Nothing, Trade
  <1>3. CASE \E mid, veto : MarketMaker(mid, veto)
    BY <1>3, Zenon DEF MarketMaker, Nothing, Trade
  <1>4. CASE Rotates
    BY <1>4 DEF Rotates, Rebalance, Nothing, Trade
  <1> QED
    BY <1>1, <1>2, <1>3, <1>4

LEMMA QuotesStayPaidFor ==
    ASSUME TypeOK, TypeOK', QuotesArePaidFor, StrategyStep
    PROVE  QuotesArePaidFor'
  <1>1. Bought <= buys /\ Sold <= buys
    BY PaidFor
  <1>2. SUFFICES Bought' <= buys' /\ Sold' <= buys'
    BY PaidFor DEF QuotesArePaidFor, Bought, Sold, OnSide
  <1>3. IsFiniteSet(orders) /\ IsFiniteSet(quotes) /\ inventory \in Int /\ buys \in Int
    BY DEF TypeOK
  <1> DEFINE QB == OnSide(quotes, "buy")
             QS == OnSide(quotes, "sell")
             OB == OnSide(orders, "buy")
             OS == OnSide(orders, "sell")
  <1>4. QB \in Nat /\ QS \in Nat /\ OB \in Nat /\ OS \in Nat
    BY <1>3, OnSideTyped
  <1>5. /\ Bought = inventory + QB + OB /\ Sold = -inventory + QS + OS
        /\ Bought' = inventory' + QB' + OB' /\ Sold' = -inventory' + QS' + OS'
    BY DEF Bought, Sold
  <1>6. CASE Decide
    <2>1. inventory' = inventory /\ quotes' = quotes /\ orders = {}
      BY <1>6 DEF Decide, worldVars
    <2>2. QB' = QB /\ QS' = QS /\ OB = 0 /\ OS = 0
      BY <2>1, OnSideNone
    <2>3. CASE orders' = {} /\ (buys' = buys \/ buys' = buys + 1)
      <3>1. OB' = 0 /\ OS' = 0
        BY <2>3, OnSideNone
      <3> HIDE DEF QB, QS, OB, OS
      <3> QED
        BY <1>1, <1>3, <1>4, <1>5, <2>1, <2>2, <2>3, <3>1
    <2>4. ASSUME NEW mid, buys' = buys + 1, orders' = {Quote("buy", mid), Quote("sell", mid)}
          PROVE  Bought' <= buys' /\ Sold' <= buys'
      <3>1. OB' = 1 /\ OS' = 1
        BY <2>4, OnSideOfTwo
      <3> HIDE DEF QB, QS, OB, OS
      <3> QED
        BY <1>1, <1>3, <1>4, <1>5, <2>1, <2>2, <2>4, <3>1
    <2> QED
      BY <1>6, <2>3, <2>4, DecisionQuotes
  <1>7. ASSUME NEW o \in orders, OrderEnds(o)
        PROVE  Bought' <= buys' /\ Sold' <= buys'
    <2> DEFINE b == OneIf(o, "buy")
               s == OneIf(o, "sell")
    <2>1. inventory' = inventory /\ buys' = buys /\ b \in Nat /\ s \in Nat
      BY <1>7 DEF OrderEnds, pastVars, OneIf
    <2>2. OB' = OB - b /\ OS' = OS - s
      BY <1>3, <1>7, OnSideRemove DEF OrderEnds
    <2>3. QB' <= QB + b /\ QS' <= QS + s /\ QB' \in Nat /\ QS' \in Nat
      <3>1. quotes' = quotes \union {Resting(o)} \/ quotes' = quotes
        BY <1>7, OrderEndsTo
      <3>2. OneIf(Resting(o), "buy") = b /\ OneIf(Resting(o), "sell") = s
        BY <1>7, OrderEndsTo DEF OneIf
      <3>3. IsFiniteSet(quotes')
        BY DEF TypeOK
      <3>4. QB' \in Nat /\ QS' \in Nat
        BY <3>3, OnSideTyped
      <3>5. CASE quotes' = quotes \union {Resting(o)}
        <4>1. /\ OnSide(quotes \union {Resting(o)}, "buy") <= QB + OneIf(Resting(o), "buy")
              /\ OnSide(quotes \union {Resting(o)}, "sell") <= QS + OneIf(Resting(o), "sell")
          BY <1>3, OnSideAdd
        <4> QED
          BY <3>2, <3>4, <3>5, <4>1
      <3>6. CASE quotes' = quotes
        BY <1>4, <2>1, <3>4, <3>6
      <3> QED
        BY <3>1, <3>4, <3>5, <3>6
    <2> HIDE DEF QB, QS, OB, OS, b, s
    <2>4. QB' \in Int /\ QB \in Int /\ OB \in Int /\ QS' \in Int /\ QS \in Int /\ OS \in Int /\ b \in Int /\ s \in Int
      BY <1>4, <2>1, <2>3
    <2>5. inventory + QB' + OB' <= inventory + QB + OB
      BY <1>3, <2>2, <2>3, <2>4, OneMoves
    <2>6. -inventory + QS' + OS' <= -inventory + QS + OS
      <3>1. -inventory \in Int
        BY <1>3
      <3> QED
        BY <3>1, <2>2, <2>3, <2>4, OneMoves
    <2>7. inventory + QB' + OB' \in Int /\ -inventory + QS' + OS' \in Int
      <3>1. OB' \in Int /\ OS' \in Int
        BY <2>2, <2>4
      <3> QED
        BY <1>3, <2>4, <3>1
    <2>8. Bought \in Int /\ Sold \in Int
      BY <1>3, <1>4, <1>5
    <2>9. Bought' <= Bought /\ Sold' <= Sold /\ Bought' \in Int /\ Sold' \in Int
      BY <1>5, <2>1, <2>5, <2>6, <2>7
    <2> QED
      BY <1>1, <1>3, <2>1, <2>8, <2>9
  <1>8. ASSUME NEW q \in quotes, Fill(q)
        PROVE  Bought' <= buys' /\ Sold' <= buys'
    <2>1. /\ orders' = orders /\ buys' = buys
          /\ quotes' = quotes \ {q}
          /\ inventory' = IF q.side = "buy" THEN inventory + 1 ELSE inventory - 1
      BY <1>8 DEF Fill, pastVars
    <2>2. QB' = QB - OneIf(q, "buy") /\ QS' = QS - OneIf(q, "sell")
      BY <1>3, <2>1, OnSideRemove
    <2>3. OB' = OB /\ OS' = OS
      BY <2>1
    <2>4. \/ q.side = "buy" /\ OneIf(q, "buy") = 1 /\ OneIf(q, "sell") = 0
          \/ q.side = "sell" /\ OneIf(q, "buy") = 0 /\ OneIf(q, "sell") = 1
      BY <1>8 DEF TypeOK, OneIf
    <2> HIDE DEF QB, QS, OB, OS
    <2> QED
      BY <1>1, <1>3, <1>4, <1>5, <2>1, <2>2, <2>3, <2>4
  <1>9. CASE Restart
    <2>1. inventory' = inventory /\ quotes' = quotes /\ orders' = {} /\ buys' = buys
      BY <1>9 DEF Restart, worldVars
    <2>2. QB' = QB /\ QS' = QS /\ OB' = 0 /\ OS' = 0
      BY <2>1, OnSideNone
    <2> HIDE DEF QB, QS, OB, OS
    <2> QED
      BY <1>1, <1>3, <1>4, <1>5, <2>1, <2>2
  <1>10. CASE (\E s \in swaps : SwapLands(s) \/ SwapFails(s)) \/ UNCHANGED vars
    <2>1. UNCHANGED <<inventory, quotes, orders, buys>>
      BY <1>10 DEF SwapLands, SwapFails, vars, worldVars, pastVars
    <2> QED
      BY <1>1, <2>1 DEF Bought, Sold
  <1> QED
    BY <1>6, <1>7, <1>8, <1>9, <1>10 DEF StrategyStep

-----------------------------------------------------------------------------
CadenceInv == TypeOK /\ TimeIsUsedUp /\ TicksAreUsedUp /\ QuotesArePaidFor

LEMMA CadenceStarts == Init => CadenceInv
  <1> SUFFICES ASSUME Init PROVE CadenceInv
    OBVIOUS
  <1>1. TypeOK
    BY StrategyInit
  <1>2. /\ tickCount = 0 /\ lastBuyAt = 0 /\ now = 0 /\ ticks = 0 /\ restarts = 0 /\ buys = 0
        /\ inventory = 0 /\ quotes = {} /\ orders = {}
    BY DEF Init, Fresh
  <1>3. CadenceTypes
    BY <1>1, CadenceTyped
  <1>4. TimeIsUsedUp
    BY <1>2, <1>3 DEF TimeIsUsedUp, CadenceTypes
  <1>5. TicksAreUsedUp
    <2>1. ASSUME NEW d \in Nat, d > 0 PROVE d * 0 + (0 % d) = 0
      BY <2>1
    <2>2. kind \in {"alpha_dca", "market_maker_basic"} => cfg["cadence"] \in Nat /\ cfg["cadence"] > 0
      BY <1>3 DEF CadenceTypes
    <2> QED
      BY <1>2, <2>1, <2>2 DEF TicksAreUsedUp
  <1>6. QuotesArePaidFor
    <2>1. Bought = 0 /\ Sold = 0
      BY <1>2, OnSideNone DEF Bought, Sold
    <2> QED
      BY <1>2, <2>1, PaidFor
  <1> QED
    BY <1>1, <1>4, <1>5, <1>6 DEF CadenceInv

LEMMA CadenceStays == CadenceInv /\ [Next]_vars => CadenceInv'
  <1> SUFFICES ASSUME CadenceInv, [Next]_vars PROVE CadenceInv'
    OBVIOUS
  <1>1. TypeOK' /\ StrategyStep
    BY StrategyTyped, StrategySteps DEF CadenceInv
  <1> QED
    BY <1>1, TimeStaysUsedUp, TicksStayUsedUp, QuotesStayPaidFor DEF CadenceInv

LEMMA TimeBound ==
    ASSUME CadenceInv, kind = "dca_buy", cfg["cadence"] > 0
    PROVE  buys <= 1 + restarts + now \div cfg["cadence"]
  <1> DEFINE c == cfg["cadence"]
             k == buys - 1 - restarts
             q == now \div c
  <1>1. c \in Nat /\ c > 0 /\ lastBuyAt \in Int /\ now \in Int /\ restarts \in Int /\ buys \in Int
    BY CadenceTyped DEF CadenceInv, CadenceTypes
  <1>2. lastBuyAt <= now /\ IF lastBuyAt = 0 THEN c * (buys - restarts) <= now ELSE c * k <= lastBuyAt
    BY DEF CadenceInv, TimeIsUsedUp
  <1> HIDE DEF c
  <1>3. c * (buys - restarts) = c * k + c /\ c * k \in Int /\ k \in Int
    BY <1>1
  <1> HIDE DEF k
  <1>4. c * k <= now
    BY <1>1, <1>2, <1>3
  <1>5. q \in Int /\ c * q \in Int /\ now < c * q + c
    <2>1. now \div c \in Int /\ c * (now \div c) \in Int /\ now = c * (now \div c) + (now % c) /\ now % c < c /\ now % c \in Int
      BY <1>1, DividesInto
    <2> QED
      BY <1>1, <2>1
  <1> HIDE DEF q
  <1>6. k <= q
    <2>1. c * k < c * q + c
      BY <1>1, <1>3, <1>4, <1>5
    <2> QED
      BY <1>1, <1>3, <1>5, <2>1, SmallProduct
  <1>7. buys <= 1 + restarts + q
    BY <1>1, <1>5, <1>6 DEF k
  <1> QED
    BY <1>7 DEF q, c

LEMMA TickBound ==
    ASSUME CadenceInv, kind \in {"alpha_dca", "market_maker_basic"}
    PROVE  buys * cfg["cadence"] <= ticks
  <1> DEFINE c == cfg["cadence"]
  <1>1. c \in Nat /\ c > 0 /\ tickCount \in Nat /\ ticks \in Int /\ buys \in Int
    BY CadenceTyped DEF CadenceInv, CadenceTypes
  <1>2. c * buys + (tickCount % c) <= ticks
    BY DEF CadenceInv, TicksAreUsedUp
  <1> HIDE DEF c
  <1>3. tickCount % c \in Int /\ 0 <= tickCount % c
    BY <1>1, DividesInto
  <1>4. c * buys = buys * c /\ buys * c \in Int
    BY <1>1
  <1>5. buys * c <= ticks
    BY <1>1, <1>2, <1>3, <1>4
  <1> QED
    BY <1>5 DEF c

LEMMA InventoryBound ==
    ASSUME CadenceInv
    PROVE  inventory <= buys /\ -inventory <= buys
  <1>1. Bought <= buys /\ Sold <= buys
    BY PaidFor DEF CadenceInv
  <1>2. IsFiniteSet(orders) /\ IsFiniteSet(quotes) /\ inventory \in Int /\ buys \in Int
    BY DEF CadenceInv, TypeOK
  <1>3. /\ OnSide(quotes, "buy") \in Nat /\ OnSide(quotes, "sell") \in Nat
        /\ OnSide(orders, "buy") \in Nat /\ OnSide(orders, "sell") \in Nat
    BY <1>2, OnSideTyped
  <1> QED
    BY <1>1, <1>2, <1>3 DEF Bought, Sold

\* The cadence of dca_buy (lastBuyAt in Decide), of alpha_dca and of the market
\* maker (tickCount in Decide) bounds what they ask for, however often the
\* process ends, and the inventory of the market maker is at most one size for
\* each refresh: for any interval, spread and length of the run.
THEOREM CadenceCorrect == Spec => []CadenceBoundsTrading
  <1>1. CadenceInv => CadenceBoundsTrading
    BY TimeBound, TickBound, InventoryBound DEF CadenceBoundsTrading
  <1> QED
    BY <1>1, CadenceStarts, CadenceStays, PTL DEF Spec

-----------------------------------------------------------------------------
(* The drawdown.                                                             *)

LEMMA MaxIs ==
    ASSUME NEW S \in SUBSET Int, NEW m \in S, \A x \in S : x <= m
    PROVE  Max(S) = m
  <1>1. Max(S) \in S /\ \A x \in S : Max(S) >= x
    BY DEF Max
  <1>2. Max(S) \in Int /\ m \in Int /\ Max(S) >= m /\ Max(S) <= m
    BY <1>1
  <1> HIDE DEF Max
  <1> QED
    BY <1>2

Accs == [peak : Int, num : Nat, den : Nat \ {0}]

\* What is known of an accumulator, and of the next one.
LEMMA NotedIs ==
    ASSUME NEW acc \in Accs, NEW v \in Int
    PROVE  /\ Noted(acc, v) \in Accs
           /\ v > acc.peak => /\ Noted(acc, v).peak = v
                              /\ Noted(acc, v).num = acc.num /\ Noted(acc, v).den = acc.den
           /\ v <= acc.peak => Noted(acc, v).peak = acc.peak
           /\ v <= acc.peak /\ Worse(acc, v) => Noted(acc, v).num = acc.peak - v /\ Noted(acc, v).den = acc.peak
           /\ v <= acc.peak /\ ~Worse(acc, v) => Noted(acc, v).num = acc.num /\ Noted(acc, v).den = acc.den
  <1>1. acc.peak \in Int /\ acc.num \in Nat /\ acc.den \in Nat /\ acc.den # 0
    BY DEF Accs
  <1>2. CASE v > acc.peak
    <2>1. Noted(acc, v) = [acc EXCEPT !.peak = v]
      BY <1>2 DEF Noted
    <2> QED
      BY <1>1, <1>2, <2>1 DEF Accs
  <1>3. CASE v <= acc.peak /\ Worse(acc, v)
    <2>1. Noted(acc, v) = [peak |-> acc.peak, num |-> acc.peak - v, den |-> acc.peak]
      BY <1>1, <1>3 DEF Noted
    <2>2. acc.peak \in Nat \ {0} /\ acc.peak - v \in Nat
      BY <1>1, <1>3 DEF Worse
    <2> QED
      BY <1>1, <1>3, <2>1, <2>2 DEF Accs
  <1>4. CASE v <= acc.peak /\ ~Worse(acc, v)
    <2>1. Noted(acc, v) = acc
      BY <1>1, <1>4 DEF Noted
    <2> QED
      BY <1>1, <1>4, <2>1
  <1> QED
    BY <1>1, <1>2, <1>3, <1>4

LEMMA DrawdownSteps ==
    ASSUME NEW c \in Seq(Int), c # <<>>
    PROVE  \E f : /\ computeMaxDrawdown(c) = f[Len(c) - 1]
                  /\ f[0] = NoDecline(c[1])
                  /\ \A i \in 1 .. Len(c) - 1 : f[i] = Noted(f[i - 1], c[i + 1])
                  /\ \A i \in 0 .. Len(c) - 1 : f[i] \in Accs
  <1> DEFINE m == Len(c) - 1
             first == NoDecline(c[1])
             step == [x \in (1 .. m) \X Accs |-> Noted(x[2], c[x[1] + 1])]
             Goes(g) == g = [i \in 0 .. m |-> IF i = 0 THEN first ELSE Noted(g[i - 1], c[i + 1])]
  <1>1. m \in Nat /\ (\A i \in 0 .. m : c[i + 1] \in Int) /\ c[1] \in Int
    <2>1. Len(c) \in Nat /\ Len(c) # 0 /\ \A i \in 1 .. Len(c) : c[i] \in Int
      BY EmptySeq
    <2> QED
      BY <2>1
  <1>2. first \in Accs
    BY <1>1 DEF NoDecline, Accs
  <1>3. \A i \in 1 .. m : \A a \in Accs : step[<<i, a>>] = Noted(a, c[i + 1]) /\ Noted(a, c[i + 1]) \in Accs
    <2>1. \A i \in 1 .. m : i \in 0 .. m
      BY <1>1
    <2> QED
      BY <1>1, <2>1, NotedIs
  <1> HIDE DEF m, first, step
  <1>4. PICK f : Steps(f, first, step, m)
    BY <1>1, IntervalRecursion
  <1>5. f[0] = first /\ \A i \in 1 .. m : f[i] = step[<<i, f[i - 1]>>]
    BY <1>1, <1>4 DEF Steps
  <1>6. \A i \in 0 .. m : f[i] \in Accs
    <2> DEFINE G == {i \in 0 .. m : f[i] \in Accs}
    <2>1. 0 \in G
      BY <1>1, <1>2, <1>5
    <2>2. \A i \in 1 .. m : i - 1 \in G => i \in G
      <3> SUFFICES ASSUME NEW i \in 1 .. m, f[i - 1] \in Accs PROVE i \in 0 .. m /\ f[i] \in Accs
        OBVIOUS
      <3>1. i \in 0 .. m
        BY <1>1
      <3> QED
        BY <3>1, <1>3, <1>5
    <2>3. \A i \in 0 .. m : i \in G
      <3> HIDE DEF G
      <3> QED
        BY <1>1, <2>1, <2>2, IntervalInduction
    <2> QED
      BY <2>3
  <1>7. \E g : Goes(g)
    <2>1. ASSUME NEW i \in 0 .. m
          PROVE  f[i] = IF i = 0 THEN first ELSE Noted(f[i - 1], c[i + 1])
      <3>1. CASE i = 0
        BY <1>5, <3>1
      <3>2. CASE i # 0
        <4>1. i \in 1 .. m /\ i - 1 \in 0 .. m
          BY <1>1, <3>2
        <4> QED
          BY <1>3, <1>5, <1>6, <3>2, <4>1
      <3> QED
        BY <3>1, <3>2
    <2>2. f = [i \in 0 .. m |-> f[i]]
      BY <1>4 DEF Steps
    <2>3. Goes(f)
      BY <2>1, <2>2
    <2> QED
      BY <2>3
  <1> DEFINE seen == CHOOSE g : Goes(g)
  <1>8. Goes(seen)
    BY <1>7
  <1>9. computeMaxDrawdown(c) = seen[m]
    BY DEF computeMaxDrawdown, m, first
  <1> HIDE DEF seen
  <1>10. seen[0] = first /\ \A i \in 1 .. m : seen[i] = Noted(seen[i - 1], c[i + 1])
    <2>1. 0 \in 0 .. m /\ \A i \in 1 .. m : i \in 0 .. m /\ i # 0
      BY <1>1
    <2> QED
      BY <1>8, <2>1
  <1>11. \A i \in 0 .. m : seen[i] \in Accs
    <2> DEFINE G == {i \in 0 .. m : seen[i] \in Accs}
    <2>1. 0 \in G
      BY <1>1, <1>2, <1>10
    <2>2. \A i \in 1 .. m : i - 1 \in G => i \in G
      <3> SUFFICES ASSUME NEW i \in 1 .. m, seen[i - 1] \in Accs PROVE i \in 0 .. m /\ seen[i] \in Accs
        OBVIOUS
      <3>1. i \in 0 .. m
        BY <1>1
      <3> QED
        BY <3>1, <1>3, <1>10
    <2>3. \A i \in 0 .. m : i \in G
      <3> HIDE DEF G
      <3> QED
        BY <1>1, <2>1, <2>2, IntervalInduction
    <2> QED
      BY <2>3
  <1> QED
    BY <1>9, <1>10, <1>11 DEF m, first

-----------------------------------------------------------------------------
LEMMA Cancel ==
    ASSUME NEW k \in Nat, k > 0, NEW x \in Int, NEW y \in Int, k * x <= k * y
    PROVE  x <= y
  <1> SUFFICES ASSUME x >= y + 1 PROVE FALSE
    OBVIOUS
  <1>1. k * x >= k * (y + 1) /\ k * (y + 1) = k * y + k
    OBVIOUS
  <1> QED
    BY <1>1

\* A fraction below one is below what is above that one.
LEMMA FractionsOrder ==
    ASSUME NEW x \in Int, NEW top \in Nat, top > 0,
           NEW num \in Nat, NEW den \in Nat, den > 0,
           NEW num2 \in Nat, NEW den2 \in Nat, den2 > 0,
           x * den <= num * top, num * den2 < num2 * den
    PROVE  x * den2 <= num2 * top
  <1>1. den2 * (x * den) <= den2 * (num * top)
    OBVIOUS
  <1>2. top * (num * den2) <= top * (num2 * den)
    OBVIOUS
  <1>3. /\ den2 * (x * den) = den * (x * den2)
        /\ den2 * (num * top) = top * (num * den2)
        /\ top * (num2 * den) = den * (num2 * top)
    OBVIOUS
  <1>4. den * (x * den2) <= den * (num2 * top)
    BY <1>1, <1>2, <1>3
  <1> QED
    BY <1>4, Cancel

TopOf(c, j) == Max({c[i] : i \in 1 .. j})

Declines(c, acc, k) ==
    /\ \A j \in 1 .. k : TopOf(c, j) > 0 => (TopOf(c, j) - c[j]) * acc.den <= acc.num * TopOf(c, j)
    /\ acc.num = 0 \/ \E j \in 1 .. k : TopOf(c, j) = acc.den /\ TopOf(c, j) - c[j] = acc.num

Peaked(c, acc, k) ==
    /\ \E j \in 1 .. k : acc.peak = c[j]
    /\ \A j \in 1 .. k : c[j] <= acc.peak

LEMMA PeakIsTop ==
    ASSUME NEW c \in Seq(Int), NEW k \in 1 .. Len(c), NEW acc, Peaked(c, acc, k)
    PROVE  TopOf(c, k) = acc.peak
  <1>1. {c[i] : i \in 1 .. k} \in SUBSET Int
    OBVIOUS
  <1>2. acc.peak \in {c[i] : i \in 1 .. k} /\ \A x \in {c[i] : i \in 1 .. k} : x <= acc.peak
    BY DEF Peaked
  <1> QED
    BY <1>1, <1>2, MaxIs DEF TopOf

LEMMA TopsTyped ==
    ASSUME NEW c \in Seq(Int), NEW j \in 1 .. Len(c)
    PROVE  TopOf(c, j) \in Int /\ c[j] \in Int /\ c[j] <= TopOf(c, j)
  <1> DEFINE G == {n \in Nat : n >= 1 /\ n <= Len(c) => \E acc \in Accs : Peaked(c, acc, n)}
             m == Len(c)
  <1>1. m \in Nat /\ \A i \in 1 .. m : c[i] \in Int
    OBVIOUS
  <1>2. 0 \in G
    OBVIOUS
  <1>3. \A i \in 1 .. m : i - 1 \in G => i \in G
    <2> SUFFICES ASSUME NEW i \in 1 .. m, i - 1 \in G PROVE \E acc \in Accs : Peaked(c, acc, i)
      OBVIOUS
    <2> DEFINE new(v) == [peak |-> v, num |-> 0, den |-> 1]
    <2>1. \A v \in Int : new(v) \in Accs /\ new(v).peak = v
      BY DEF Accs
    <2>2. CASE i = 1
      <3>1. Peaked(c, new(c[i]), i)
        BY <1>1, <2>1, <2>2 DEF Peaked
      <3> QED
        BY <1>1, <2>1, <3>1
    <2>3. CASE i # 1
      <3>1. i - 1 >= 1 /\ i - 1 <= m /\ 1 .. i = (1 .. i - 1) \cup {i}
        BY <1>1, <2>3
      <3>2. PICK acc \in Accs : Peaked(c, acc, i - 1)
        BY <3>1
      <3>3. acc.peak \in Int /\ c[i] \in Int
        BY <1>1 DEF Accs
      <3>4. CASE c[i] <= acc.peak
        <4>1. Peaked(c, acc, i)
          BY <3>1, <3>2, <3>4 DEF Peaked
        <4> QED
          BY <4>1
      <3>5. CASE c[i] > acc.peak
        <4> HIDE DEF new
        <4>1. \A k \in 1 .. i - 1 : c[k] <= c[i]
          <5>1. \A k \in 1 .. i - 1 : c[k] \in Int /\ c[k] <= acc.peak
            BY <1>1, <3>1, <3>2 DEF Peaked
          <5> QED
            BY <3>3, <3>5, <5>1
        <4>2. Peaked(c, new(c[i]), i)
          BY <2>1, <3>1, <3>3, <4>1 DEF Peaked
        <4> QED
          BY <2>1, <3>3, <4>2
      <3> QED
        BY <3>3, <3>4, <3>5
    <2> QED
      BY <2>2, <2>3
  <1>4. j \in G /\ j \in 1 .. m
    <2> HIDE DEF G
    <2>1. \A i \in 0 .. m : i \in G
      BY <1>1, <1>2, <1>3, IntervalInduction
    <2> QED
      BY <1>1, <2>1
  <1>5. PICK acc \in Accs : Peaked(c, acc, j)
    BY <1>4
  <1>6. TopOf(c, j) = acc.peak
    BY <1>5, PeakIsTop
  <1> QED
    BY <1>4, <1>5, <1>6, <1>1 DEF Peaked, Accs

\* One more value of the curve.
LEMMA DeclineStep ==
    ASSUME NEW c \in Seq(Int), NEW k \in 1 .. Len(c) - 1, NEW acc \in Accs,
           Peaked(c, acc, k), Declines(c, acc, k)
    PROVE  Peaked(c, Noted(acc, c[k + 1]), k + 1) /\ Declines(c, Noted(acc, c[k + 1]), k + 1)
  <1> DEFINE v == c[k + 1]
             new == Noted(acc, v)
             n == k + 1
  <1>1. n \in 1 .. Len(c) /\ k \in 1 .. Len(c) /\ 1 .. n = (1 .. k) \cup {n} /\ Len(c) \in Nat
    OBVIOUS
  <1>2. v \in Int /\ \A j \in 1 .. Len(c) : c[j] \in Int
    BY <1>1
  <1>3. acc.peak \in Int /\ acc.num \in Nat /\ acc.den \in Nat /\ acc.den > 0
    BY DEF Accs
  <1>4. /\ new \in Accs
        /\ v > acc.peak => new.peak = v /\ new.num = acc.num /\ new.den = acc.den
        /\ v <= acc.peak => new.peak = acc.peak
        /\ v <= acc.peak /\ Worse(acc, v) => new.num = acc.peak - v /\ new.den = acc.peak
        /\ v <= acc.peak /\ ~Worse(acc, v) => new.num = acc.num /\ new.den = acc.den
    BY <1>2, NotedIs
  <1>5. c[n] = v
    OBVIOUS
  <1> HIDE DEF v, new, n
  <1>6. Peaked(c, new, n)
    <2>1. \A j \in 1 .. k : c[j] \in Int /\ c[j] <= acc.peak
      BY <1>1, <1>2 DEF Peaked
    <2>2. CASE v > acc.peak
      <3>1. \A j \in 1 .. n : c[j] <= new.peak
        <4>1. new.peak = v
          BY <1>4, <2>2
        <4>2. \A j \in 1 .. k : c[j] <= v
          BY <1>2, <1>3, <2>1, <2>2
        <4>3. \A j \in 1 .. n : j = n \/ j \in 1 .. k
          BY <1>1
        <4>4. c[n] <= v
          BY <1>2, <1>5
        <4> QED
          BY <4>1, <4>2, <4>3, <4>4
      <3> QED
        BY <1>1, <1>4, <1>5, <2>2, <3>1 DEF Peaked
    <2>3. CASE v <= acc.peak
      <3>1. new.peak = acc.peak
        BY <1>4, <2>3
      <3> QED
        BY <1>1, <1>5, <2>1, <2>3, <3>1 DEF Peaked
    <2> QED
      BY <1>2, <1>3, <2>2, <2>3
  <1>7. TopOf(c, n) = new.peak
    BY <1>1, <1>6, PeakIsTop
  <1>8. \A j \in 1 .. k : TopOf(c, j) \in Int /\ c[j] \in Int
    BY <1>1, TopsTyped
  <1>9. CASE v > acc.peak
    <2>1. TopOf(c, n) - c[n] = 0
      BY <1>2, <1>4, <1>5, <1>7, <1>9
    <2>2. 0 * new.den = 0 /\ (TopOf(c, n) > 0 => new.num * TopOf(c, n) >= 0)
      <3>1. new.den \in Int /\ new.num \in Nat /\ TopOf(c, n) \in Int
        BY <1>2, <1>3, <1>4, <1>7, <1>9
      <3> QED
        BY <3>1
    <2>3. \A j \in 1 .. n : TopOf(c, j) > 0 => (TopOf(c, j) - c[j]) * new.den <= new.num * TopOf(c, j)
      <3>1. TopOf(c, n) > 0 => (TopOf(c, n) - c[n]) * new.den <= new.num * TopOf(c, n)
        BY <2>1, <2>2
      <3> QED
        BY <1>1, <1>4, <1>9, <3>1 DEF Declines
    <2> QED
      BY <1>1, <1>4, <1>6, <1>9, <2>3 DEF Declines, v, new, n
  <1>10. CASE v <= acc.peak /\ ~Worse(acc, v)
    <2>1. TopOf(c, n) = acc.peak /\ new.num = acc.num /\ new.den = acc.den
      BY <1>4, <1>7, <1>10
    <2>2. TopOf(c, n) > 0 => (TopOf(c, n) - c[n]) * new.den <= new.num * TopOf(c, n)
      <3>1. (acc.peak - v) * acc.den \in Int /\ acc.num * acc.peak \in Int
        BY <1>2, <1>3
      <3> QED
        BY <1>5, <1>10, <2>1, <3>1 DEF Worse
    <2> QED
      BY <1>1, <1>6, <2>1, <2>2 DEF Declines, v, new, n
  <1>11. CASE v <= acc.peak /\ Worse(acc, v)
    <2>1. TopOf(c, n) = acc.peak /\ new.num = acc.peak - v /\ new.den = acc.peak /\ acc.peak > 0
      BY <1>4, <1>7, <1>11 DEF Worse
    <2>2. acc.num * new.den < new.num * acc.den
      <3>1. (acc.peak - v) * acc.den \in Int /\ acc.num * acc.peak \in Int
        BY <1>2, <1>3
      <3> QED
        BY <1>11, <2>1, <3>1 DEF Worse
    <2>3. new.num \in Nat /\ new.den \in Nat /\ new.den > 0
      BY <1>2, <1>3, <1>11, <2>1
    <2>4. ASSUME NEW j \in 1 .. k, TopOf(c, j) > 0
          PROVE  (TopOf(c, j) - c[j]) * new.den <= new.num * TopOf(c, j)
      <3> DEFINE top == TopOf(c, j)
                 x == top - c[j]
      <3>1. x * acc.den <= acc.num * top
        BY <2>4 DEF Declines
      <3>2. top \in Nat /\ top > 0 /\ x \in Int
        BY <1>8, <2>4
      <3> HIDE DEF top, x
      <3>3. x * new.den <= new.num * top
        BY <1>3, <2>2, <2>3, <3>1, <3>2, FractionsOrder
      <3> QED
        BY <3>3 DEF top, x
    <2>5. (TopOf(c, n) - c[n]) * new.den <= new.num * TopOf(c, n)
      <3>1. (acc.peak - v) * acc.peak \in Int
        BY <1>2, <1>3
      <3> QED
        BY <1>5, <2>1, <3>1
    <2>6. \E j \in 1 .. n : TopOf(c, j) = new.den /\ TopOf(c, j) - c[j] = new.num
      BY <1>1, <1>5, <2>1
    <2>7. \A j \in 1 .. n : TopOf(c, j) > 0 => (TopOf(c, j) - c[j]) * new.den <= new.num * TopOf(c, j)
      BY <1>1, <2>4, <2>5
    <2> QED
      BY <1>6, <2>6, <2>7 DEF Declines, v, new, n
  <1> QED
    BY <1>2, <1>3, <1>9, <1>10, <1>11

\* The loop of computeMaxDrawdown finds the largest decline of any curve.
LEMMA LargestDecline ==
    ASSUME NEW c \in Seq(Int), c # <<>>
    PROVE  computeMaxDrawdown(c) \in Accs /\ Declines(c, computeMaxDrawdown(c), Len(c))
  <1>1. PICK f : /\ computeMaxDrawdown(c) = f[Len(c) - 1]
                 /\ f[0] = NoDecline(c[1])
                 /\ \A i \in 1 .. Len(c) - 1 : f[i] = Noted(f[i - 1], c[i + 1])
                 /\ \A i \in 0 .. Len(c) - 1 : f[i] \in Accs
    BY DrawdownSteps
  <1> DEFINE m == Len(c) - 1
             Good(i) == Peaked(c, f[i], i + 1) /\ Declines(c, f[i], i + 1)
             G == {i \in 0 .. m : Good(i)}
  <1>2. m \in Nat /\ Len(c) = m + 1 /\ c[1] \in Int
    <2>1. Len(c) \in Nat /\ Len(c) # 0 /\ \A i \in 1 .. Len(c) : c[i] \in Int
      BY EmptySeq
    <2> QED
      BY <2>1
  <1>3. Good(0)
    <2>1. f[0].peak = c[1] /\ f[0].num = 0 /\ f[0].den = 1
      BY <1>1 DEF NoDecline
    <2>2. \A j \in 1 .. 0 + 1 : j = 1
      OBVIOUS
    <2>3. Peaked(c, f[0], 0 + 1)
      BY <1>2, <2>1, <2>2 DEF Peaked
    <2>4. TopOf(c, 1) = c[1]
      <3>1. 1 \in 1 .. Len(c) /\ 0 + 1 = 1
        BY <1>2
      <3> QED
        BY <2>1, <2>3, <3>1, PeakIsTop
    <2>5. (TopOf(c, 1) - c[1]) * f[0].den = 0 /\ f[0].num * TopOf(c, 1) = 0
      BY <1>2, <2>1, <2>4
    <2> QED
      BY <2>1, <2>2, <2>3, <2>5 DEF Declines
  <1>4. ASSUME NEW i \in 1 .. m, Good(i - 1)
        PROVE  Good(i)
    <2>1. i \in 1 .. Len(c) - 1 /\ f[i - 1] \in Accs /\ f[i] = Noted(f[i - 1], c[i + 1]) /\ (i - 1) + 1 = i
      <3>1. i - 1 \in 0 .. Len(c) - 1 /\ i \in 1 .. Len(c) - 1
        BY <1>2
      <3> QED
        BY <1>1, <3>1
    <2> QED
      BY <1>4, <2>1, DeclineStep
  <1> HIDE DEF Good
  <1>5. \A i \in 0 .. m : i \in G
    <2>1. 0 \in G
      BY <1>2, <1>3
    <2>2. \A i \in 1 .. m : i - 1 \in G => i \in G
      BY <1>2, <1>4
    <2> HIDE DEF G
    <2> QED
      BY <1>2, <2>1, <2>2, IntervalInduction
  <1>6. Good(m) /\ m \in 0 .. Len(c) - 1
    BY <1>2, <1>5
  <1> HIDE DEF m
  <1> QED
    BY <1>1, <1>2, <1>6 DEF Good, m

-----------------------------------------------------------------------------
(* The portfolio of the backtest.                                            *)

LEMMA ReplayConstants ==
    /\ IsFiniteSet(Symbols) /\ Step \in Nat /\ Step > 0 /\ PerFee \in Nat /\ PerFee > 0
    /\ Notionals \subseteq Nat /\ FeeBps \in Nat /\ Gas \in Nat /\ Start \in Int
    /\ \A f \in Files : f.rows \in Seq(Rows)
  BY BacktestAssumption DEF Start

LEMMA BookTyped ==
    ASSUME NEW pos, IsBook(pos)
    PROVE  /\ IsFiniteSet(DOMAIN pos) /\ DOMAIN pos \subseteq Symbols
           /\ \A s \in DOMAIN pos : /\ pos[s] \in OpenPositions
                                    /\ pos[s].notional \in Nat /\ pos[s].notional # 0 /\ pos[s].funding \in Int
                                    /\ pos[s].openFees \in Nat /\ pos[s].openedAt \in Int
  <1>1. IsFiniteSet(DOMAIN pos)
    BY ReplayConstants, FS_Subset DEF IsBook
  <1> QED
    BY <1>1 DEF IsBook, OpenPositions

Cost(op) == op.notional + op.openFees

LEMMA SpentIs ==
    ASSUME NEW pos, IsBook(pos)
    PROVE  /\ Spent(pos) = SumFunctionOnSet([s \in DOMAIN pos |-> Cost(pos[s])], DOMAIN pos)
           /\ Spent(pos) \in Int /\ \A s \in DOMAIN pos : Cost(pos[s]) \in Int
  <1> DEFINE f == [s \in DOMAIN pos |-> Cost(pos[s])]
  <1>1. \A s \in DOMAIN pos : Cost(pos[s]) \in Int /\ f[s] \in Int
    BY BookTyped DEF Cost
  <1>2. IsFiniteSet(DOMAIN pos) /\ DOMAIN f = DOMAIN pos
    BY BookTyped
  <1>3. Spent(pos) = SumFunction(f)
    BY DEF Spent, Cost
  <1> HIDE DEF f
  <1>4. Spent(pos) = SumFunctionOnSet(f, DOMAIN pos)
    BY <1>2, <1>3, SumIsOnSet
  <1>5. SumFunctionOnSet(f, DOMAIN pos) \in Int
    BY <1>1, <1>2, SumTakesOut
  <1> QED
    BY <1>1, <1>4, <1>5 DEF f

LEMMA RestrictIs ==
    ASSUME NEW pos, NEW D
    PROVE  DOMAIN Restrict(pos, D) = D /\ \A x \in D : Restrict(pos, D)[x] = pos[x]
  BY DEF Restrict

LEMMA SpentWithout ==
    ASSUME NEW pos, IsBook(pos), NEW s \in DOMAIN pos
    PROVE  LET rest == Restrict(pos, DOMAIN pos \ {s})
           IN  IsBook(rest) /\ Spent(rest) = Spent(pos) - Cost(pos[s])
  <1> DEFINE rest == Restrict(pos, DOMAIN pos \ {s})
             f == [x \in DOMAIN pos |-> Cost(pos[x])]
             g == [x \in DOMAIN rest |-> Cost(rest[x])]
  <1>1. DOMAIN rest = DOMAIN pos \ {s} /\ \A x \in DOMAIN pos \ {s} : rest[x] = pos[x]
    BY RestrictIs
  <1>2. IsBook(rest)
    <2>1. rest = [x \in DOMAIN pos \ {s} |-> pos[x]]
      BY DEF Restrict
    <2> QED
      BY <1>1, <2>1 DEF IsBook
  <1> HIDE DEF rest
  <1>3. \A y \in DOMAIN pos : f[y] \in Int
    BY SpentIs
  <1>4. \A y \in DOMAIN pos \ {s} : g[y] = f[y]
    BY <1>1
  <1>5. f[s] = Cost(pos[s])
    OBVIOUS
  <1>6. Spent(rest) = SumFunctionOnSet(g, DOMAIN pos \ {s}) /\ Spent(pos) = SumFunctionOnSet(f, DOMAIN pos)
    BY <1>1, <1>2, SpentIs
  <1> HIDE DEF f, g
  <1>7. Spent(rest) = Spent(pos) - Cost(pos[s])
    <2>1. IsFiniteSet(DOMAIN pos)
      BY BookTyped
    <2> QED
      BY <1>3, <1>4, <1>5, <1>6, <2>1, SumWithout
  <1> QED
    BY <1>2, <1>7 DEF rest

LEMMA SpentWith ==
    ASSUME NEW pos, IsBook(pos), NEW s \in Symbols, s \notin DOMAIN pos, NEW op \in OpenPositions
    PROVE  LET more == [x \in DOMAIN pos \cup {s} |-> IF x = s THEN op ELSE pos[x]]
           IN  IsBook(more) /\ Spent(more) = Spent(pos) + Cost(op)
  <1> DEFINE more == [x \in DOMAIN pos \cup {s} |-> IF x = s THEN op ELSE pos[x]]
             f == [x \in DOMAIN pos |-> Cost(pos[x])]
             g == [x \in DOMAIN more |-> Cost(more[x])]
  <1>1. DOMAIN more = DOMAIN pos \cup {s} /\ more[s] = op /\ \A x \in DOMAIN pos : more[x] = pos[x]
    OBVIOUS
  <1>2. IsBook(more)
    BY <1>1 DEF IsBook
  <1> HIDE DEF more
  <1>3. \A y \in DOMAIN pos : f[y] \in Int
    BY SpentIs
  <1>4. \A y \in DOMAIN pos : g[y] = f[y]
    BY <1>1
  <1>5. g[s] = Cost(op) /\ Cost(op) \in Int
    BY <1>1, <1>2, SpentIs
  <1>6. Spent(more) = SumFunctionOnSet(g, DOMAIN pos \cup {s}) /\ Spent(pos) = SumFunctionOnSet(f, DOMAIN pos)
    BY <1>1, <1>2, SpentIs
  <1> HIDE DEF f, g
  <1>7. Spent(more) = Spent(pos) + Cost(op)
    <2>1. IsFiniteSet(DOMAIN pos)
      BY BookTyped
    <2> QED
      BY <1>3, <1>4, <1>5, <1>6, <2>1, SumWith
  <1> QED
    BY <1>2, <1>7 DEF more

-----------------------------------------------------------------------------
\* The trades.
ClosedOf(list) == {i \in DOMAIN list : list[i].action = "close"}

LEMMA NetIs ==
    ASSUME NEW list \in Seq(Trades)
    PROVE  /\ NetOfClosed(list) = SumFunctionOnSet([i \in ClosedOf(list) |-> list[i].netPnL], ClosedOf(list))
           /\ IsFiniteSet(ClosedOf(list)) /\ NetOfClosed(list) \in Int
           /\ \A i \in ClosedOf(list) : list[i].netPnL \in Int
  <1> DEFINE D == ClosedOf(list)
             f == [i \in D |-> list[i].netPnL]
  <1>1. IsFiniteSet(D)
    <2>1. DOMAIN list = 1 .. Len(list) /\ 1 \in Int /\ Len(list) \in Int /\ D \in SUBSET DOMAIN list
      BY DEF ClosedOf
    <2>2. IsFiniteSet(1 .. Len(list))
      BY <2>1, FS_Interval
    <2> QED
      BY <2>1, <2>2, FS_Subset
  <1>2. \A i \in D : list[i].netPnL \in Int
    <2>1. \A i \in D : list[i] \in Trades
      BY DEF ClosedOf
    <2> QED
      BY <2>1 DEF Trades
  <1>3. NetOfClosed(list) = SumFunction(f) /\ DOMAIN f = D /\ \A i \in D : f[i] \in Int
    BY <1>2 DEF NetOfClosed, ClosedOf
  <1> HIDE DEF f
  <1>4. NetOfClosed(list) = SumFunctionOnSet(f, D) /\ NetOfClosed(list) \in Int
    BY <1>1, <1>3, SumIsOnSet, SumTakesOut
  <1> QED
    BY <1>1, <1>2, <1>4 DEF f

LEMMA NetAppended ==
    ASSUME NEW list \in Seq(Trades), NEW tr \in Trades
    PROVE  /\ Append(list, tr) \in Seq(Trades) /\ Len(Append(list, tr)) = Len(list) + 1
           /\ tr.action = "close" => NetOfClosed(Append(list, tr)) = NetOfClosed(list) + tr.netPnL
           /\ tr.action # "close" => NetOfClosed(Append(list, tr)) = NetOfClosed(list)
  <1> DEFINE longer == Append(list, tr)
             n == Len(list) + 1
             D == ClosedOf(list)
             E == ClosedOf(longer)
             f == [i \in D |-> list[i].netPnL]
             g == [i \in E |-> longer[i].netPnL]
  <1>1. /\ longer \in Seq(Trades) /\ Len(longer) = n /\ longer[n] = tr
        /\ \A i \in 1 .. Len(list) : longer[i] = list[i]
        /\ DOMAIN longer = (1 .. Len(list)) \cup {n} /\ DOMAIN list = 1 .. Len(list)
        /\ n \notin 1 .. Len(list)
    OBVIOUS
  <1>2. /\ NetOfClosed(list) = SumFunctionOnSet(f, D) /\ IsFiniteSet(D) /\ NetOfClosed(list) \in Int
        /\ \A i \in D : f[i] \in Int
    BY NetIs
  <1>3. /\ NetOfClosed(longer) = SumFunctionOnSet(g, E) /\ IsFiniteSet(E)
        /\ \A i \in E : g[i] = longer[i].netPnL /\ longer[i].netPnL \in Int
    BY <1>1, NetIs
  <1> HIDE DEF longer, n
  <1>4. n \notin D /\ \A i \in D : longer[i] = list[i]
    BY <1>1 DEF ClosedOf
  <1>5. CASE tr.action = "close"
    <2>1. E = D \cup {n} /\ g[n] = tr.netPnL /\ tr.netPnL \in Int
      <3>1. E = D \cup {n}
        BY <1>1, <1>5 DEF ClosedOf
      <3> QED
        BY <1>1, <1>3, <3>1
    <2>2. \A i \in D : g[i] = f[i]
      BY <1>4, <2>1
    <2> HIDE DEF D, E, f, g
    <2>4. IsFiniteSet(D) /\ n \notin D /\ g[n] \in Int /\ \A i \in D : f[i] \in Int
      BY <1>2, <1>4, <2>1
    <2>3. SumFunctionOnSet(g, D \cup {n}) = SumFunctionOnSet(f, D) + g[n]
      BY <2>4, <2>2, SumWith
    <2>5. NetOfClosed(longer) = NetOfClosed(list) + tr.netPnL
      BY <1>2, <1>3, <2>1, <2>3
    <2> QED
      BY <1>1, <1>5, <2>5 DEF longer, n
  <1>6. CASE tr.action # "close"
    <2>1. E = D
      BY <1>1, <1>6 DEF ClosedOf
    <2>2. \A i \in D : f[i] = g[i]
      BY <1>4, <2>1
    <2> HIDE DEF D, E, f, g
    <2>3. SumFunctionOnSet(f, D) = SumFunctionOnSet(g, D)
      BY <1>2, <2>2, SumAlike
    <2> QED
      BY <1>1, <1>2, <1>3, <1>6, <2>1, <2>3 DEF longer, n
  <1> QED
    BY <1>5, <1>6

-----------------------------------------------------------------------------
(* Funding.                                                                  *)

LEMMA TickTyped ==
    ASSUME tape \in Seq(Rows)
    PROVE  /\ IsFiniteSet(DOMAIN tape)
           /\ \A i \in DOMAIN tape : /\ tape[i].time \in Int /\ tape[i].rate \in Int /\ tape[i].interval \in Int
                                     /\ tape[i].symbol \in Symbols
  <1>1. DOMAIN tape = 1 .. Len(tape) /\ 1 \in Int /\ Len(tape) \in Int /\ \A i \in DOMAIN tape : tape[i] \in Rows
    OBVIOUS
  <1>2. IsFiniteSet(1 .. Len(tape))
    BY <1>1, FS_Interval
  <1> QED
    BY <1>1, <1>2 DEF Rows

LEMMA PerStepTyped ==
    ASSUME NEW notional \in Nat, NEW interval \in Int, interval # 0
    PROVE  PerStep(notional, interval) \in Int
  <1>1. notional * Step \in Int
    BY ReplayConstants
  <1>2. CASE interval > 0
    <2>1. (notional * Step) \div interval \in Int
      BY <1>1, <1>2, DividesInto
    <2> QED
      BY <1>2, <2>1 DEF PerStep
  <1>3. CASE interval < 0
    <2> DEFINE other == -interval
    <2>1. other \in Nat /\ other > 0
      BY <1>3
    <2> HIDE DEF other
    <2>2. (notional * Step) \div other \in Int
      BY <1>1, <2>1, DividesInto
    <2>3. -((notional * Step) \div other) \in Int
      BY <2>2
    <2> QED
      BY <1>3, <2>3 DEF PerStep, other
  <1> QED
    BY <1>2, <1>3

LEMMA BroughtIs ==
    ASSUME tape \in Seq(Rows), NEW notional \in Nat, NEW ids \in SUBSET DOMAIN tape,
           \A i \in ids : tape[i].interval # 0
    PROVE  /\ Brought(notional, ids) = SumFunctionOnSet([i \in ids |-> Share(notional, i)], ids)
           /\ Brought(notional, ids) \in Int /\ IsFiniteSet(ids)
           /\ \A i \in ids : Share(notional, i) \in Int
  <1> DEFINE f == [i \in ids |-> Share(notional, i)]
  <1>1. \A i \in ids : Share(notional, i) \in Int
    <2> SUFFICES ASSUME NEW i \in ids PROVE Share(notional, i) \in Int
      OBVIOUS
    <2>1. tape[i].rate \in Int /\ tape[i].interval \in Int /\ tape[i].interval # 0
      BY TickTyped
    <2>2. PerStep(notional, tape[i].interval) \in Int
      BY <2>1, PerStepTyped
    <2> QED
      BY <2>1, <2>2 DEF Share
  <1>2. IsFiniteSet(ids)
    BY TickTyped, FS_Subset
  <1>3. Brought(notional, ids) = SumFunction(f) /\ DOMAIN f = ids /\ \A i \in ids : f[i] \in Int
    BY <1>1 DEF Brought
  <1> HIDE DEF f
  <1>4. Brought(notional, ids) = SumFunctionOnSet(f, ids) /\ Brought(notional, ids) \in Int
    BY <1>2, <1>3, SumIsOnSet, SumTakesOut
  <1> QED
    BY <1>1, <1>2, <1>4 DEF f

LEMMA BroughtNone ==
    ASSUME tape \in Seq(Rows), NEW notional \in Nat
    PROVE  Brought(notional, {}) = 0
  <1>1. Brought(notional, {}) = SumFunctionOnSet([i \in {} |-> Share(notional, i)], {})
    BY BroughtIs
  <1> QED
    BY <1>1, SumOfNone

LEMMA BroughtParts ==
    ASSUME tape \in Seq(Rows), NEW notional \in Nat, NEW S \in SUBSET DOMAIN tape, NEW D \in SUBSET DOMAIN tape,
           S \cap D = {}, \A i \in S \cup D : tape[i].interval # 0
    PROVE  Brought(notional, S \cup D) = Brought(notional, S) + Brought(notional, D)
  <1> DEFINE f == [i \in S |-> Share(notional, i)]
             g == [i \in D |-> Share(notional, i)]
             h == [i \in S \cup D |-> Share(notional, i)]
  <1>1. /\ Brought(notional, S) = SumFunctionOnSet(f, S) /\ IsFiniteSet(S)
        /\ Brought(notional, D) = SumFunctionOnSet(g, D) /\ IsFiniteSet(D)
    BY BroughtIs
  <1>2. /\ Brought(notional, S \cup D) = SumFunctionOnSet(h, S \cup D)
        /\ \A i \in S \cup D : Share(notional, i) \in Int
    <2>1. S \cup D \in SUBSET DOMAIN tape
      OBVIOUS
    <2> QED
      BY <2>1, BroughtIs
  <1>3. /\ \A i \in S : h[i] = f[i] /\ h[i] \in Int
        /\ \A i \in D : h[i] = g[i] /\ h[i] \in Int
        /\ \A i \in S \cup D : h[i] \in Int
    BY <1>2
  <1> HIDE DEF f, g, h
  <1>4. SumFunctionOnSet(h, S \cup D) = SumFunctionOnSet(h, S) + SumFunctionOnSet(h, D)
    BY <1>1, <1>3, SumOfTwoSets
  <1>5. SumFunctionOnSet(h, S) = SumFunctionOnSet(f, S) /\ SumFunctionOnSet(h, D) = SumFunctionOnSet(g, D)
    BY <1>1, <1>3, SumAlike
  <1> QED
    BY <1>1, <1>2, <1>4, <1>5

\* The funding of one turn: what came since the last one.
LEMMA AccrualKeeps ==
    ASSUME tape \in Seq(Rows), NEW pos, IsBook(pos), t \in Int, FundedBefore(pos, t - Step), ~DividesByZero(pos, t)
    PROVE  /\ IsBook(accrueFunding(pos, t)) /\ FundedBefore(accrueFunding(pos, t), t)
           /\ DOMAIN accrueFunding(pos, t) = DOMAIN pos
           /\ \A s \in DOMAIN pos : /\ Earned(pos, t, s) \in Int
                                    /\ Cost(accrueFunding(pos, t)[s]) = Cost(pos[s])
  <1> DEFINE new == accrueFunding(pos, t)
  <1>1. DOMAIN new = DOMAIN pos
    BY DEF accrueFunding
  <1>2. Step \in Int /\ Step > 0
    BY ReplayConstants
  <1>3. ASSUME NEW s \in DOMAIN pos
        PROVE  /\ new[s] \in OpenPositions /\ Earned(pos, t, s) \in Int /\ Cost(new[s]) = Cost(pos[s])
               /\ new[s].openedAt <= t
               /\ \A i \in Between(s, new[s].openedAt, t) : tape[i].interval # 0
               /\ new[s].funding = Brought(new[s].notional, Between(s, new[s].openedAt, t))
    <2> DEFINE op == pos[s]
               before == Between(s, op.openedAt, t - Step)
               since == {i \in Window(t) : tape[i].symbol = s}
    <2>1. /\ op \in OpenPositions /\ op.notional \in Nat /\ op.funding \in Int /\ op.openedAt \in Int /\ op.openFees \in Nat
      BY BookTyped
    <2>2. /\ op.openedAt <= t - Step
          /\ \A i \in before : tape[i].interval # 0
          /\ op.funding = Brought(op.notional, before)
      BY DEF FundedBefore
    <2>3. before \in SUBSET DOMAIN tape /\ since \in SUBSET DOMAIN tape
      BY DEF Between, Window
    <2>4. before \cap since = {} /\ Between(s, op.openedAt, t) = before \cup since
      <3>1. \A i \in DOMAIN tape : tape[i].time \in Int
        BY TickTyped
      <3>2. \A i \in DOMAIN tape : /\ ~(tape[i].time < t - Step /\ t - Step <= tape[i].time)
                                   /\ (tape[i].time >= op.openedAt /\ tape[i].time < t)
                                        <=> \/ tape[i].time >= op.openedAt /\ tape[i].time < t - Step
                                            \/ t - Step <= tape[i].time /\ tape[i].time < t
        BY <1>2, <2>1, <2>2, <3>1
      <3> QED
        BY <3>2 DEF Between, Window
    <2>5. \A i \in since : tape[i].interval # 0
      BY DEF DividesByZero
    <2>6. Earned(pos, t, s) = Brought(op.notional, since)
      BY DEF Earned
    <2>7. new[s] = [op EXCEPT !.funding = op.funding + Earned(pos, t, s)]
      BY DEF accrueFunding
    <2> HIDE DEF op, before, since, new
    <2>8. Brought(op.notional, since) \in Int
      BY <2>1, <2>3, <2>5, BroughtIs
    <2>9. Brought(op.notional, before \cup since) = op.funding + Earned(pos, t, s)
      BY <2>1, <2>2, <2>3, <2>4, <2>5, <2>6, BroughtParts
    <2>10. Earned(pos, t, s) \in Int /\ op.funding + Earned(pos, t, s) \in Int
      BY <2>1, <2>6, <2>8
    <2>11. /\ new[s] \in OpenPositions /\ new[s].notional = op.notional /\ new[s].openFees = op.openFees
           /\ new[s].openedAt = op.openedAt /\ new[s].funding = op.funding + Earned(pos, t, s)
      BY <2>1, <2>7, <2>10 DEF OpenPositions
    <2>12. \A i \in Between(s, op.openedAt, t) : tape[i].interval # 0
      BY <2>2, <2>4, <2>5
    <2>13. new[s].openedAt <= t
      BY <1>2, <2>1, <2>2, <2>11
    <2>14. Cost(new[s]) = Cost(pos[s])
      BY <2>11 DEF Cost, op
    <2> QED
      BY <2>4, <2>9, <2>10, <2>11, <2>12, <2>13, <2>14
  <1>4. IsBook(new)
    <2>1. new = [s \in DOMAIN pos |-> new[s]]
      BY DEF accrueFunding
    <2> HIDE DEF new
    <2> QED
      BY <1>1, <1>3, <2>1 DEF IsBook
  <1>5. FundedBefore(new, t)
    <2> HIDE DEF new
    <2> QED
      BY <1>1, <1>3 DEF FundedBefore
  <1> HIDE DEF new
  <1> QED
    BY <1>1, <1>3, <1>4, <1>5 DEF new

-----------------------------------------------------------------------------
(* Closing, opening, and all of a decision.                                  *)

Books == UNION {[S -> OpenPositions] : S \in SUBSET Symbols}

FolioRecords == [cash : Int, pos : Books, trades : Seq(Trades)]

\* Portfolios whose cash is accounted for and whose positions are funded.
Folios ==
    {q \in FolioRecords :
       /\ q.cash + Spent(q.pos) = Start + NetOfClosed(q.trades)
       /\ FundedBefore(q.pos, t)
       /\ Len(trades) <= Len(q.trades)}

LEMMA BooksAre == \A pos : IsBook(pos) => pos \in Books
  BY DEF IsBook, Books

LEMMA BooksOnly == \A pos \in Books : IsBook(pos)
  <1> SUFFICES ASSUME NEW S \in SUBSET Symbols, NEW pos \in [S -> OpenPositions] PROVE IsBook(pos)
    BY DEF Books
  <1> QED
    BY DEF IsBook

LEMMA FolioIn ==
    ASSUME NEW c \in Int, NEW pos, IsBook(pos), NEW made \in Seq(Trades),
           c + Spent(pos) = Start + NetOfClosed(made), FundedBefore(pos, t), Len(trades) <= Len(made)
    PROVE  Folio(c, pos, made) \in Folios
  <1>1. pos \in Books
    BY BooksAre
  <1>2. /\ Folio(c, pos, made) \in FolioRecords
        /\ Folio(c, pos, made).cash = c /\ Folio(c, pos, made).pos = pos /\ Folio(c, pos, made).trades = made
    BY <1>1 DEF Folio, FolioRecords
  <1> QED
    BY <1>2 DEF Folios

LEMMA FolioOut ==
    ASSUME NEW q \in Folios
    PROVE  /\ q.cash \in Int /\ IsBook(q.pos) /\ q.trades \in Seq(Trades)
           /\ q.cash + Spent(q.pos) = Start + NetOfClosed(q.trades)
           /\ FundedBefore(q.pos, t) /\ Len(trades) <= Len(q.trades)
           /\ Spent(q.pos) \in Int /\ NetOfClosed(q.trades) \in Int /\ Start \in Int
  <1>1. /\ q.cash \in Int /\ q.pos \in Books /\ q.trades \in Seq(Trades)
        /\ q.cash + Spent(q.pos) = Start + NetOfClosed(q.trades)
        /\ FundedBefore(q.pos, t) /\ Len(trades) <= Len(q.trades)
    BY DEF Folios, FolioRecords
  <1>2. IsBook(q.pos)
    BY <1>1, BooksOnly
  <1>3. Spent(q.pos) \in Int /\ NetOfClosed(q.trades) \in Int /\ Start \in Int
    BY <1>1, <1>2, SpentIs, NetIs, ReplayConstants
  <1> QED
    BY <1>1, <1>2, <1>3

LEMMA FeesTyped ==
    ASSUME NEW notional \in Nat
    PROVE  openFees(notional) \in Nat /\ closeFees(notional) \in Nat
  <1> DEFINE x == notional * FeeBps
             q == x \div PerFee
  <1>1. x \in Nat /\ PerFee \in Nat /\ PerFee > 0 /\ Gas \in Nat
    BY ReplayConstants
  <1> HIDE DEF x
  <1>2. q \in Nat
    <2>1. q \in Int /\ x = PerFee * q + (x % PerFee) /\ x % PerFee < PerFee /\ x % PerFee \in Int /\ PerFee * q \in Int
      BY <1>1, DividesInto
    <2> HIDE DEF q
    <2>2. q >= 0
      <3> SUFFICES ASSUME q <= -1 PROVE FALSE
        BY <2>1
      <3>1. PerFee * q <= PerFee * (-1) /\ PerFee * (-1) = -PerFee
        BY <1>1, <2>1
      <3> QED
        BY <1>1, <2>1, <3>1
    <2> QED
      BY <2>1, <2>2
  <1> HIDE DEF q
  <1>3. openFees(notional) = q + Gas /\ closeFees(notional) = q + Gas
    BY DEF openFees, closeFees, q, x
  <1> QED
    BY <1>1, <1>2, <1>3

LEMMA CloseTradeIs ==
    ASSUME NEW s \in Symbols, NEW op \in OpenPositions
    PROVE  /\ CloseTrade(s, op) \in Trades /\ CloseTrade(s, op).action = "close"
           /\ CloseTrade(s, op).netPnL = op.funding - (op.openFees + closeFees(op.notional))
  <1>1. op.funding \in Int /\ op.openFees \in Int /\ op.notional \in Nat
    BY DEF OpenPositions
  <1>2. closeFees(op.notional) \in Int
    BY <1>1, FeesTyped
  <1>3. op.openFees + closeFees(op.notional) \in Int /\ op.funding - (op.openFees + closeFees(op.notional)) \in Int
    BY <1>1, <1>2
  <1> QED
    BY <1>1, <1>3 DEF CloseTrade, Trades

LEMMA OpenTradeIs ==
    ASSUME NEW s \in Symbols, NEW fees \in Int
    PROVE  OpenTrade(s, fees) \in Trades /\ OpenTrade(s, fees).action # "close"
  BY DEF OpenTrade, Trades

LEMMA OpenedIs ==
    ASSUME NEW notional \in Nat, notional # 0, t \in Int
    PROVE  /\ Opened(notional) \in OpenPositions /\ Cost(Opened(notional)) = notional + openFees(notional)
           /\ Opened(notional).openedAt = t /\ Opened(notional).funding = 0 /\ Opened(notional).notional = notional
  <1>1. openFees(notional) \in Nat
    BY FeesTyped
  <1> QED
    BY <1>1 DEF Opened, OpenPositions, Cost

LEMMA CloseKeeps ==
    ASSUME trades \in Seq(Trades), NEW q \in Folios, NEW s \in Symbols
    PROVE  close(q, s) \in Folios
  <1>1. CASE s \notin DOMAIN q.pos
    BY <1>1 DEF close
  <1>2. CASE s \in DOMAIN q.pos
    <2> DEFINE op == q.pos[s]
               rest == Restrict(q.pos, DOMAIN q.pos \ {s})
               made == Append(q.trades, CloseTrade(s, op))
               c == q.cash + Proceeds(op)
    <2>1. /\ q.cash \in Int /\ IsBook(q.pos) /\ q.trades \in Seq(Trades)
          /\ q.cash + Spent(q.pos) = Start + NetOfClosed(q.trades)
          /\ FundedBefore(q.pos, t) /\ Len(trades) <= Len(q.trades)
          /\ Spent(q.pos) \in Int /\ NetOfClosed(q.trades) \in Int /\ Start \in Int
      BY FolioOut
    <2>2. op \in OpenPositions /\ op.notional \in Nat /\ op.funding \in Int /\ op.openFees \in Nat
      BY <1>2, <2>1, BookTyped
    <2>3. IsBook(rest) /\ Spent(rest) = Spent(q.pos) - Cost(op)
      BY <1>2, <2>1, SpentWithout
    <2>4. DOMAIN rest \subseteq DOMAIN q.pos /\ \A x \in DOMAIN rest : rest[x] = q.pos[x]
      BY RestrictIs
    <2>5. close(q, s) = Folio(c, rest, made)
      BY <1>2 DEF close
    <2>6. /\ CloseTrade(s, op) \in Trades /\ CloseTrade(s, op).action = "close"
          /\ CloseTrade(s, op).netPnL = op.funding - (op.openFees + closeFees(op.notional))
      BY <2>2, CloseTradeIs
    <2>7. /\ made \in Seq(Trades) /\ Len(made) = Len(q.trades) + 1
          /\ NetOfClosed(made) = NetOfClosed(q.trades) + (op.funding - (op.openFees + closeFees(op.notional)))
      BY <2>1, <2>6, NetAppended
    <2>8. c = q.cash + (op.notional + op.funding - closeFees(op.notional)) /\ Cost(op) = op.notional + op.openFees
      BY DEF Proceeds, Cost
    <2>9. closeFees(op.notional) \in Int /\ op.notional \in Int /\ op.openFees \in Int
      <3> HIDE DEF op
      <3>1. closeFees(op.notional) \in Nat
        BY <2>2, FeesTyped
      <3> QED
        BY <2>2, <3>1
    <2>10. FundedBefore(rest, t)
      <3> HIDE DEF rest
      <3> QED
        BY <2>1, <2>4 DEF FundedBefore
    <2>11. Len(trades) <= Len(made)
      <3>1. Len(q.trades) \in Nat /\ Len(trades) \in Nat
        BY <2>1
      <3> QED
        BY <2>1, <2>7, <3>1
    <2> HIDE DEF op, rest, made, c
    <2>12. c \in Int /\ c + Spent(rest) = Start + NetOfClosed(made)
      <3> DEFINE had == q.cash
                 spent == Spent(q.pos)
                 net == NetOfClosed(q.trades)
                 size == op.notional
                 gain == op.funding
                 paid == op.openFees
                 fee == closeFees(op.notional)
                 spent2 == Spent(rest)
                 net2 == NetOfClosed(made)
                 first == Start
      <3>1. /\ had \in Int /\ spent \in Int /\ first \in Int /\ net \in Int /\ had + spent = first + net
            /\ size \in Int /\ gain \in Int /\ paid \in Int /\ fee \in Int
        BY <2>1, <2>2, <2>9
      <3>2. /\ spent2 = spent - (size + paid) /\ c = had + (size + gain - fee)
            /\ net2 = net + (gain - (paid + fee))
        BY <2>3, <2>7, <2>8
      <3> HIDE DEF had, spent, net, size, gain, paid, fee, spent2, net2, first
      <3>3. c \in Int /\ c + spent2 = first + net2
        BY <3>1, <3>2
      <3> QED
        BY <3>3 DEF spent2, net2, first
    <2> QED
      BY <2>3, <2>5, <2>7, <2>10, <2>11, <2>12, FolioIn
  <1> QED
    BY <1>1, <1>2

LEMMA OpenKeeps ==
    ASSUME tape \in Seq(Rows), trades \in Seq(Trades), t \in Int, NEW q \in Folios, NEW s \in Symbols, NEW notional \in Nat
    PROVE  open(q, s, notional) \in Folios
  <1>1. CASE Unopenable(q, s, notional)
    BY <1>1 DEF open
  <1>2. CASE ~Unopenable(q, s, notional)
    <2> DEFINE fees == openFees(notional)
               op == Opened(notional)
               more == [x \in DOMAIN q.pos \cup {s} |-> IF x = s THEN op ELSE q.pos[x]]
               made == Append(q.trades, OpenTrade(s, fees))
               c == q.cash - notional - fees
    <2>1. /\ q.cash \in Int /\ IsBook(q.pos) /\ q.trades \in Seq(Trades)
          /\ q.cash + Spent(q.pos) = Start + NetOfClosed(q.trades)
          /\ FundedBefore(q.pos, t) /\ Len(trades) <= Len(q.trades)
          /\ Spent(q.pos) \in Int /\ NetOfClosed(q.trades) \in Int /\ Start \in Int
      BY FolioOut
    <2>2. s \notin DOMAIN q.pos /\ notional # 0
      BY <1>2 DEF Unopenable
    <2>3. /\ op \in OpenPositions /\ Cost(op) = notional + fees
          /\ op.openedAt = t /\ op.funding = 0 /\ op.notional = notional /\ fees \in Int
      <3>1. fees \in Nat
        BY FeesTyped
      <3>2. fees \in Int
        <4> HIDE DEF fees
        <4> QED
          BY <3>1
      <3> QED
        BY <2>2, <3>2, OpenedIs
    <2>4. IsBook(more) /\ Spent(more) = Spent(q.pos) + Cost(op)
      BY <2>1, <2>2, <2>3, SpentWith
    <2>5. DOMAIN more = DOMAIN q.pos \cup {s} /\ more[s] = op /\ \A x \in DOMAIN q.pos : more[x] = q.pos[x]
      BY <2>2
    <2>6. open(q, s, notional) = Folio(c, more, made)
      BY <1>2 DEF open
    <2>7. made \in Seq(Trades) /\ Len(made) = Len(q.trades) + 1 /\ NetOfClosed(made) = NetOfClosed(q.trades)
      BY <2>1, <2>3, OpenTradeIs, NetAppended
    <2>8. FundedBefore(more, t)
      <3>1. Between(s, t, t) = {}
        <4>1. \A i \in DOMAIN tape : ~(tape[i].time >= t /\ tape[i].time < t)
          BY TickTyped
        <4> QED
          BY <4>1 DEF Between
      <3>2. Brought(notional, {}) = 0
        BY BroughtNone
      <3> HIDE DEF more, op
      <3>3. /\ more[s].openedAt <= t
            /\ \A i \in Between(s, more[s].openedAt, t) : tape[i].interval # 0
            /\ more[s].funding = Brought(more[s].notional, Between(s, more[s].openedAt, t))
        <4>1. t <= t
          OBVIOUS
        <4>2. more[s].openedAt = t /\ more[s].notional = notional /\ more[s].funding = 0
          BY <2>3, <2>5, Zenon
        <4> QED
          BY <3>1, <3>2, <4>1, <4>2, Zenon
      <3> QED
        BY <2>1, <2>5, <3>3 DEF FundedBefore
    <2>9. Len(trades) <= Len(made)
      <3>1. Len(q.trades) \in Nat /\ Len(trades) \in Nat
        BY <2>1
      <3> QED
        BY <2>1, <2>7, <3>1
    <2> HIDE DEF fees, op, more, made
    <2>10. c \in Int /\ c + Spent(more) = Start + NetOfClosed(made)
      BY <2>1, <2>3, <2>4, <2>7
    <2> QED
      BY <2>4, <2>6, <2>7, <2>8, <2>9, <2>10, FolioIn
  <1> QED
    BY <1>1, <1>2

-----------------------------------------------------------------------------
\* What a strategy asks to open.
Asks == [symbol : Symbols, notional : Nat]

\* All of a decision.
LEMMA ApplyKeeps ==
    ASSUME tape \in Seq(Rows), trades \in Seq(Trades), t \in Int, NEW p \in Folios,
           NEW closes \in Seq(Symbols), NEW opens \in Seq(Asks)
    PROVE  Apply(p, closes, opens) \in Folios
  <1> DEFINE n == Len(closes)
             m == n + Len(opens)
             One(q, i) == IF i <= n THEN close(q, closes[i])
                          ELSE open(q, opens[i - n].symbol, opens[i - n].notional)
             step == [x \in (1 .. m) \X Folios |-> One(x[2], x[1])]
             Goes(g) == g = [i \in 0 .. m |-> IF i = 0 THEN p
                                              ELSE IF i <= n THEN close(g[i - 1], closes[i])
                                              ELSE open(g[i - 1], opens[i - n].symbol, opens[i - n].notional)]
  <1>1. n \in Nat /\ m \in Nat /\ Len(opens) \in Nat
    OBVIOUS
  <1>2. ASSUME NEW i \in 1 .. m, NEW q \in Folios
        PROVE  step[<<i, q>>] = One(q, i) /\ One(q, i) \in Folios
    <2>1. step[<<i, q>>] = One(q, i)
      <3> HIDE DEF m, One
      <3> QED
        OBVIOUS
    <2>2. CASE i <= n
      <3>1. closes[i] \in Symbols
        BY <1>1, <2>2
      <3> QED
        BY <2>1, <2>2, <3>1, CloseKeeps
    <2>3. CASE ~(i <= n)
      <3>1. i - n \in 1 .. Len(opens)
        BY <1>1, <2>3
      <3>2. opens[i - n].symbol \in Symbols /\ opens[i - n].notional \in Nat
        <4> DEFINE j == i - n
        <4>1. j \in 1 .. Len(opens)
          BY <3>1
        <4> HIDE DEF j
        <4>2. opens[j] \in Asks
          BY <4>1
        <4>3. opens[j].symbol \in Symbols /\ opens[j].notional \in Nat
          BY <4>2 DEF Asks
        <4> QED
          BY <4>3 DEF j
      <3>3. open(q, opens[i - n].symbol, opens[i - n].notional) \in Folios
        BY <3>2, OpenKeeps
      <3> QED
        BY <2>1, <2>3, <3>3
    <2> QED
      BY <2>2, <2>3
  <1>3. \A g, i : (IF i <= n THEN close(g[i - 1], closes[i])
                   ELSE open(g[i - 1], opens[i - n].symbol, opens[i - n].notional)) = One(g[i - 1], i)
    OBVIOUS
  <1>4. Apply(p, closes, opens) = (CHOOSE g : Goes(g))[m]
    BY DEF Apply
  <1> HIDE DEF m, step, One
  <1>5. PICK f : Steps(f, p, step, m)
    BY <1>1, IntervalRecursion
  <1>6. f[0] = p /\ \A i \in 1 .. m : f[i] = step[<<i, f[i - 1]>>]
    BY <1>1, <1>5 DEF Steps
  <1>7. \A i \in 0 .. m : f[i] \in Folios
    <2> DEFINE G == {i \in 0 .. m : f[i] \in Folios}
    <2>1. 0 \in G
      BY <1>1, <1>6
    <2>2. \A i \in 1 .. m : i - 1 \in G => i \in G
      <3> SUFFICES ASSUME NEW i \in 1 .. m, f[i - 1] \in Folios PROVE i \in 0 .. m /\ f[i] \in Folios
        OBVIOUS
      <3>1. i \in 0 .. m
        BY <1>1
      <3> QED
        BY <3>1, <1>2, <1>6
    <2>3. \A i \in 0 .. m : i \in G
      <3> HIDE DEF G
      <3> QED
        BY <1>1, <2>1, <2>2, IntervalInduction
    <2> QED
      BY <2>3
  <1>8. \E g : Goes(g)
    <2>1. ASSUME NEW i \in 0 .. m
          PROVE  f[i] = IF i = 0 THEN p
                        ELSE IF i <= n THEN close(f[i - 1], closes[i])
                        ELSE open(f[i - 1], opens[i - n].symbol, opens[i - n].notional)
      <3>1. CASE i = 0
        BY <1>6, <3>1
      <3>2. CASE i # 0
        <4>1. i \in 1 .. m /\ i - 1 \in 0 .. m
          BY <1>1, <3>2
        <4>2. f[i] = One(f[i - 1], i)
          BY <1>2, <1>6, <1>7, <4>1
        <4> QED
          BY <1>3, <3>2, <4>2
      <3> QED
        BY <3>1, <3>2
    <2>2. f = [i \in 0 .. m |-> f[i]]
      BY <1>5 DEF Steps
    <2>3. Goes(f)
      BY <2>1, <2>2, Zenon
    <2> QED
      BY <2>3
  <1> DEFINE after == CHOOSE g : Goes(g)
  <1>9. Goes(after)
    BY <1>8
  <1> HIDE DEF after
  <1>10. after[0] = p /\ \A i \in 1 .. m : after[i] = One(after[i - 1], i)
    <2>1. 0 \in 0 .. m /\ \A i \in 1 .. m : i \in 0 .. m /\ i # 0
      BY <1>1
    <2> QED
      BY <1>3, <1>9, <2>1
  <1>11. \A i \in 0 .. m : after[i] \in Folios
    <2> DEFINE G == {i \in 0 .. m : after[i] \in Folios}
    <2>1. 0 \in G
      BY <1>1, <1>10
    <2>2. \A i \in 1 .. m : i - 1 \in G => i \in G
      <3> SUFFICES ASSUME NEW i \in 1 .. m, after[i - 1] \in Folios PROVE i \in 0 .. m /\ after[i] \in Folios
        OBVIOUS
      <3>1. i \in 0 .. m
        BY <1>1
      <3> QED
        BY <3>1, <1>2, <1>10
    <2>3. \A i \in 0 .. m : i \in G
      <3> HIDE DEF G
      <3> QED
        BY <1>1, <2>1, <2>2, IntervalInduction
    <2> QED
      BY <2>3
  <1>12. m \in 0 .. m
    BY <1>1
  <1>13. Apply(p, closes, opens) = after[m]
    BY <1>4 DEF after
  <1> QED
    BY <1>11, <1>12, <1>13

-----------------------------------------------------------------------------
\* The first and the last tick of a tape.
LEMMA TimesBounded ==
    ASSUME tape \in Seq(Rows), tape # <<>>
    PROVE  /\ Min(Times) \in Int /\ Max(Times) \in Int
           /\ \A i \in DOMAIN tape : tape[i].time <= Max(Times)
  <1>1. Times \in SUBSET Int /\ \A i \in DOMAIN tape : tape[i].time \in Times
    BY TickTyped DEF Times
  <1>2. Times # {}
    <2>1. DOMAIN tape = 1 .. Len(tape) /\ Len(tape) \in Nat /\ Len(tape) # 0
      BY EmptySeq
    <2>2. 1 \in DOMAIN tape
      BY <2>1
    <2> QED
      BY <1>1, <2>2
  <1> DEFINE f == [i \in DOMAIN tape |-> tape[i].time]
             D == DOMAIN tape
  <1>3. IsFiniteSet(D) /\ D # {} /\ (\A i \in D : f[i] \in Int) /\ Times = {f[i] : i \in D}
    BY TickTyped, <1>2 DEF Times
  <1> HIDE DEF Times, f, D
  <1>4. /\ \E m \in Times : \A x \in Times : x <= m
        /\ \E m \in Times : \A x \in Times : m <= x
    <2>1. /\ \E m \in D : \A x \in D : f[x] <= f[m]
          /\ \E m \in D : \A x \in D : f[m] <= f[x]
      BY <1>3, FiniteExtremes
    <2>2. PICK m \in D : \A x \in D : f[x] <= f[m]
      BY <2>1
    <2>3. PICK k \in D : \A x \in D : f[k] <= f[x]
      BY <2>1
    <2>4. f[m] \in Times /\ f[k] \in Times
      BY <1>3
    <2>5. (\A x \in Times : x <= f[m]) /\ (\A x \in Times : f[k] <= x)
      BY <1>3, <2>2, <2>3
    <2> QED
      BY <2>4, <2>5
  <1>5. PICK m \in Times : \A x \in Times : x <= m
    BY <1>4
  <1>6. Max(Times) = m /\ m \in Int
    BY <1>1, <1>5, MaxIs
  <1>7. Min(Times) \in Times
    BY <1>4 DEF Min
  <1> QED
    BY <1>1, <1>5, <1>6, <1>7

LEMMA TruncateIs ==
    ASSUME NEW x \in Int
    PROVE  Truncate(x) \in Int /\ Truncate(x) % Step = 0 /\ x < Truncate(x) + Step
  <1> DEFINE k == x \div Step
             r == x % Step
  <1>1. Step \in Nat /\ Step > 0
    BY ReplayConstants
  <1>2. k \in Int /\ r \in Int /\ Step * k \in Int /\ x = Step * k + r /\ 0 <= r /\ r < Step
    BY <1>1, DividesInto
  <1>3. Truncate(x) = x - r
    BY DEF Truncate
  <1> HIDE DEF k, r
  <1>4. Truncate(x) = Step * k
    BY <1>2, <1>3
  <1>5. (Step * k) % Step = 0
    BY <1>1, <1>2, NoRest
  <1> QED
    BY <1>1, <1>2, <1>3, <1>4, <1>5

-----------------------------------------------------------------------------
(* Run.                                                                      *)

ReplayInv == ReplayTypeOK /\ CashIsAccountedFor /\ FundedSoFar /\ TurnsInStep

LEMMA BoundedSeqs ==
    ASSUME NEW S, NEW n \in Nat, NEW q \in BoundedSeq(S, n)
    PROVE  q \in Seq(S)
  <1>1. PICK m \in 0 .. n : q \in [1 .. m -> S]
    BY DEF BoundedSeq, SeqOf
  <1> QED
    BY <1>1

LEMMA DecisionsTyped ==
    ASSUME tape \in Seq(Rows), NEW closes \in Closes, NEW opens \in Opens
    PROVE  closes \in Seq(Symbols) /\ opens \in Seq(Asks)
  <1>1. MaxCloses \in Nat /\ MaxOpens \in Nat /\ Notionals \subseteq Nat
    BY BacktestAssumption
  <1>2. closes \in Seq(Symbols)
    BY <1>1, BoundedSeqs DEF Closes
  <1>3. DOMAIN MarketSnapshotAt(t) \subseteq Symbols
    BY TickTyped DEF MarketSnapshotAt
  <1> DEFINE shown == [symbol : DOMAIN MarketSnapshotAt(t), notional : Notionals]
  <1>4. shown \subseteq Asks
    BY <1>1, <1>3 DEF Asks
  <1>5. opens \in Seq(shown)
    <2> HIDE DEF shown
    <2> QED
      BY <1>1, BoundedSeqs DEF Opens, shown
  <1> HIDE DEF shown
  <1> QED
    BY <1>2, <1>4, <1>5

LEMMA NavTyped ==
    ASSUME NEW c \in Int, NEW pos, IsBook(pos)
    PROVE  nav(c, pos) \in Int
  <1> DEFINE f == [s \in DOMAIN pos |-> pos[s].notional + pos[s].funding]
  <1>1. IsFiniteSet(DOMAIN pos) /\ DOMAIN f = DOMAIN pos /\ \A s \in DOMAIN pos : f[s] \in Int
    BY BookTyped
  <1>2. nav(c, pos) = c + SumFunction(f)
    BY DEF nav
  <1> HIDE DEF f
  <1>3. SumFunction(f) \in Int
    BY <1>1, SumIsOnSet, SumTakesOut
  <1> QED
    BY <1>2, <1>3

\* A portfolio on which a turn's funding has been paid.
LEMMA CreditedFolio ==
    ASSUME ReplayInv, ~DividesByZero(positions, t)
    PROVE  /\ Folio(cash, accrueFunding(positions, t), trades) \in Folios
           /\ SumFunction([s \in DOMAIN positions |-> Earned(positions, t, s)]) \in Int
  <1> DEFINE credited == accrueFunding(positions, t)
             earned == [s \in DOMAIN positions |-> Earned(positions, t, s)]
  <1>1. /\ tape \in Seq(Rows) /\ t \in Int /\ cash \in Int /\ IsBook(positions) /\ trades \in Seq(Trades)
        /\ cash + Spent(positions) = Start + NetOfClosed(trades)
        /\ FundedBefore(positions, t - Step)
    BY DEF ReplayInv, ReplayTypeOK, CashIsAccountedFor, FundedSoFar, LastTurn
  <1>2. /\ IsBook(credited) /\ FundedBefore(credited, t) /\ DOMAIN credited = DOMAIN positions
        /\ \A s \in DOMAIN positions : /\ Earned(positions, t, s) \in Int
                                       /\ Cost(credited[s]) = Cost(positions[s])
    BY <1>1, AccrualKeeps
  <1>3. Spent(credited) = Spent(positions)
    <2> HIDE DEF credited
    <2> DEFINE f == [s \in DOMAIN positions |-> Cost(positions[s])]
               g == [s \in DOMAIN credited |-> Cost(credited[s])]
               D == DOMAIN positions
    <2>1. /\ Spent(positions) = SumFunctionOnSet(f, D) /\ Spent(credited) = SumFunctionOnSet(g, D)
          /\ \A s \in D : Cost(positions[s]) \in Int
      BY <1>1, <1>2, SpentIs
    <2>2. \A s \in D : f[s] \in Int /\ f[s] = g[s]
      BY <1>2, <2>1
    <2>3. IsFiniteSet(D)
      BY <1>1, BookTyped
    <2> HIDE DEF f, g, D
    <2> QED
      BY <2>1, <2>2, <2>3, SumAlike
  <1>4. SumFunction(earned) \in Int
    <2>1. IsFiniteSet(DOMAIN positions) /\ DOMAIN earned = DOMAIN positions
          /\ \A s \in DOMAIN positions : earned[s] \in Int
      BY <1>1, <1>2, BookTyped
    <2> HIDE DEF earned
    <2> QED
      BY <2>1, SumIsOnSet, SumTakesOut
  <1>5. Len(trades) <= Len(trades)
    BY <1>1
  <1>6. Folio(cash, credited, trades) \in Folios
    <2> HIDE DEF credited
    <2> QED
      BY <1>1, <1>2, <1>3, <1>5, FolioIn
  <1> QED
    BY <1>4, <1>6

LEMMA FeesOfTrades ==
    ASSUME trades \in Seq(Trades), NEW made \in Seq(Trades)
    PROVE  SumFunction([i \in Len(trades) + 1 .. Len(made) |-> made[i].fees]) \in Int
  <1> DEFINE D == Len(trades) + 1 .. Len(made)
             f == [i \in D |-> made[i].fees]
  <1>1. Len(trades) + 1 \in Int /\ Len(made) \in Int /\ D \subseteq DOMAIN made
    OBVIOUS
  <1>2. IsFiniteSet(D)
    BY <1>1, FS_Interval
  <1>3. \A i \in D : made[i].fees \in Int
    <2>1. \A i \in D : made[i] \in Trades
      BY <1>1
    <2> QED
      BY <2>1 DEF Trades
  <1>4. DOMAIN f = D /\ \A i \in D : f[i] \in Int
    BY <1>3
  <1> HIDE DEF D
  <1>5. SumFunction(f) = SumFunctionOnSet(f, D) /\ SumFunctionOnSet(f, D) \in Int
    <2> HIDE DEF f
    <2> QED
      BY <1>2, <1>4, SumIsOnSet, SumTakesOut
  <1> QED
    BY <1>5 DEF D

\* What a turn leaves.
Left(closes, opens) == Apply(Folio(cash, accrueFunding(positions, t), trades), closes, opens)

LEMMA TurnKeeps ==
    ASSUME ReplayInv, NEW closes \in Closes, NEW opens \in Opens, Turn(closes, opens)
    PROVE  ReplayInv'
  <1> DEFINE q == Left(closes, opens)
  <1>1. /\ phase = "running" /\ ~DividesByZero(positions, t)
        /\ cash' = q.cash /\ positions' = q.pos /\ trades' = q.trades
        /\ totalFunding' = totalFunding + SumFunction([s \in DOMAIN positions |-> Earned(positions, t, s)])
        /\ totalFees' = totalFees + SumFunction([i \in Len(trades) + 1 .. Len(q.trades) |-> q.trades[i].fees])
        /\ curve' = Append(curve, nav(q.cash, q.pos))
        /\ t' = t + Step /\ phase' = IF t + Step > EndTime THEN "done" ELSE "running"
        /\ file' = file /\ tape' = tape
    BY DEF Turn, Left
  <1>2. /\ tape \in Seq(Rows) /\ t \in Int /\ trades \in Seq(Trades) /\ file \in Files
        /\ totalFunding \in Int /\ totalFees \in Int /\ curve \in Seq(Int)
    BY DEF ReplayInv, ReplayTypeOK
  <1>3. t % Step = 0 /\ tape # <<>>
    BY <1>1 DEF ReplayInv, TurnsInStep
  <1>4. Step \in Nat /\ Step > 0
    BY ReplayConstants
  <1>5. q \in Folios
    <2>1. closes \in Seq(Symbols) /\ opens \in Seq(Asks)
      BY <1>2, DecisionsTyped
    <2>2. Folio(cash, accrueFunding(positions, t), trades) \in Folios
      BY <1>1, CreditedFolio
    <2> QED
      BY <1>2, <2>1, <2>2, ApplyKeeps DEF Left
  <1> HIDE DEF q
  <1>6. /\ q.cash \in Int /\ IsBook(q.pos) /\ q.trades \in Seq(Trades)
        /\ q.cash + Spent(q.pos) = Start + NetOfClosed(q.trades)
        /\ FundedBefore(q.pos, t)
    BY <1>5, FolioOut
  <1>7. ReplayTypeOK'
    <2>1. totalFunding' \in Int /\ totalFees' \in Int
      <3>1. /\ SumFunction([s \in DOMAIN positions |-> Earned(positions, t, s)]) \in Int
            /\ SumFunction([i \in Len(trades) + 1 .. Len(q.trades) |-> q.trades[i].fees]) \in Int
        BY <1>1, <1>2, <1>6, CreditedFolio, FeesOfTrades
      <3> QED
        BY <1>1, <1>2, <3>1
    <2>2. curve' \in Seq(Int) /\ curve' # <<>>
      <3>1. nav(q.cash, q.pos) \in Int
        BY <1>6, NavTyped
      <3> QED
        BY <1>1, <1>2, <3>1
    <2>3. IsBook(positions)' /\ cash' \in Int /\ trades' \in Seq(Trades)
      BY <1>1, <1>6 DEF IsBook
    <2>4. phase' \in {"running", "done"} /\ file' \in Files /\ tape' \in Seq(Rows) /\ t' \in Int
      BY <1>1, <1>2, <1>4
    <2> QED
      BY <2>1, <2>2, <2>3, <2>4 DEF ReplayTypeOK
  <1>8. CashIsAccountedFor'
    <2>1. /\ CashIsAccountedFor' <=> cash' + Spent(positions') = Start + NetOfClosed(trades')
      BY DEF CashIsAccountedFor
    <2> QED
      BY <1>1, <1>6, <2>1
  <1>9. LastTurn' = t
    BY <1>1, <1>2, <1>4 DEF LastTurn
  <1>10. FundedSoFar'
    <2>1. FundedSoFar' <=> FundedBefore(q.pos, t)
      BY <1>1, <1>9 DEF FundedSoFar, FundedBefore, Between, Brought, Share
    <2> QED
      BY <1>6, <2>1
  <1>11. TurnsInStep'
    <2>1. t' % Step = 0
      BY <1>1, <1>2, <1>3, <1>4, StepsApart
    <2>2. ASSUME phase' = "done", NEW i \in DOMAIN tape
          PROVE  tape[i].time < t
      <3> DEFINE last == Max(Times)
                 end == Truncate(last)
      <3>1. last \in Int /\ tape[i].time <= last
        BY <1>2, <1>3, TimesBounded
      <3>2. tape[i].time \in Int
        BY <1>2, TickTyped
      <3>3. t + Step > end + Step
        BY <1>1, <2>2 DEF EndTime
      <3> HIDE DEF last
      <3>4. end \in Int /\ end % Step = 0 /\ last < end + Step
        BY <3>1, TruncateIs
      <3> HIDE DEF end
      <3>5. end < t
        BY <1>2, <1>4, <3>3, <3>4
      <3>6. end + Step <= t
        BY <1>2, <1>3, <1>4, <3>4, <3>5, StepsApart
      <3> QED
        BY <1>2, <1>4, <3>1, <3>2, <3>4, <3>6
    <2>3. phase' \in {"running", "done"}
      BY <1>1
    <2> QED
      BY <1>1, <1>3, <1>9, <2>1, <2>2, <2>3 DEF TurnsInStep
  <1> QED
    BY <1>7, <1>8, <1>10, <1>11 DEF ReplayInv

-----------------------------------------------------------------------------
TapeBegins == tape \in Seq(Rows) /\ tape # <<>> => Min(Times) \in Int

LEMMA TapeBeginsNext == TapeBegins'
  <1>1. TapeBegins
    BY TimesBounded DEF TapeBegins
  <1> QED
    BY <1>1, PTL

LEMMA NothingOpen ==
    ASSUME NEW pos, DOMAIN pos = {}, NEW to
    PROVE  FundedBefore(pos, to)
  BY DEF FundedBefore

LEMMA LoadKeeps ==
    ASSUME ReplayInv, Load
    PROVE  ReplayInv'
  <1>1. /\ phase = "file" /\ tape' = ReadCSV(file)
        /\ IF tape' = <<>> THEN phase' = "refused" /\ t' = t ELSE phase' = "running" /\ t' = StartTime'
        /\ file' = file /\ cash' = cash /\ positions' = positions /\ trades' = trades
        /\ totalFunding' = totalFunding /\ totalFees' = totalFees /\ curve' = curve
    BY DEF Load, portfolio, result
  <1>2. tape' \in Seq(Rows)
    <2>1. file.rows \in Seq(Rows)
      BY ReplayConstants DEF ReplayInv, ReplayTypeOK
    <2> QED
      BY <1>1, <2>1 DEF ReadCSV
  <1>3. t' \in Int /\ phase' \in {"running", "refused"} /\ (phase' = "running" => tape' # <<>> /\ t' % Step = 0)
    <2>1. CASE tape' = <<>>
      BY <1>1, <2>1 DEF ReplayInv, ReplayTypeOK
    <2>2. CASE tape' # <<>>
      <3> DEFINE first == Min(Times')
      <3>1. first \in Int
        BY <1>2, <2>2, TapeBeginsNext DEF TapeBegins
      <3>2. t' = Truncate(first)
        BY <1>1, <2>2 DEF StartTime
      <3> HIDE DEF first
      <3> QED
        BY <1>1, <2>2, <3>1, <3>2, TruncateIs
    <2> QED
      BY <2>1, <2>2
  <1>4. DOMAIN positions = {}
    BY <1>1 DEF ReplayInv, TurnsInStep
  <1>5. ReplayTypeOK'
    BY <1>1, <1>2, <1>3 DEF ReplayInv, ReplayTypeOK, IsBook
  <1>6. CashIsAccountedFor'
    BY <1>1 DEF ReplayInv, CashIsAccountedFor
  <1>7. FundedSoFar'
    BY <1>1, <1>4 DEF FundedSoFar, FundedBefore
  <1>8. TurnsInStep'
    BY <1>1, <1>3, <1>4 DEF TurnsInStep
  <1> QED
    BY <1>5, <1>6, <1>7, <1>8 DEF ReplayInv

LEMMA SameBooks ==
    ASSUME ReplayInv, file' = file, tape' = tape, t' = t, cash' = cash, positions' = positions, trades' = trades,
           totalFunding' = totalFunding, totalFees' = totalFees, curve' = curve,
           phase' \in {"stopped", "crashed"} \/ phase' = phase
    PROVE  ReplayInv'
  <1>1. ReplayTypeOK'
    BY DEF ReplayInv, ReplayTypeOK, IsBook
  <1>2. CashIsAccountedFor'
    BY DEF ReplayInv, CashIsAccountedFor
  <1>3. FundedSoFar'
    BY DEF ReplayInv, FundedSoFar, LastTurn, FundedBefore, Between, Brought, Share
  <1>4. TurnsInStep'
    BY DEF ReplayInv, TurnsInStep, LastTurn
  <1> QED
    BY <1>1, <1>2, <1>3, <1>4 DEF ReplayInv

LEMMA ReplayStarts == ReplayInit => ReplayInv
  <1> SUFFICES ASSUME ReplayInit PROVE ReplayInv
    OBVIOUS
  <1>1. /\ phase = "file" /\ file \in Files /\ tape = <<>> /\ t = 0 /\ cash = Start /\ positions = << >>
        /\ trades = <<>> /\ totalFunding = 0 /\ totalFees = 0 /\ curve = <<>>
    BY DEF ReplayInit
  <1>2. DOMAIN positions = {} /\ IsBook(positions)
    BY <1>1 DEF IsBook
  <1>3. ReplayTypeOK
    BY <1>1, <1>2, ReplayConstants DEF ReplayTypeOK
  <1>4. CashIsAccountedFor
    <2> DEFINE f == [s \in DOMAIN positions |-> Cost(positions[s])]
               g == [i \in ClosedOf(trades) |-> trades[i].netPnL]
    <2>1. Spent(positions) = SumFunctionOnSet(f, {})
      BY <1>2, SpentIs
    <2>2. ClosedOf(trades) = {}
      BY <1>1 DEF ClosedOf
    <2>3. NetOfClosed(trades) = SumFunctionOnSet(g, {})
      <3>1. trades \in Seq(Trades)
        BY <1>1
      <3> QED
        BY <2>2, <3>1, NetIs
    <2> HIDE DEF f, g
    <2>4. Spent(positions) = 0 /\ NetOfClosed(trades) = 0
      BY <2>1, <2>3, SumOfNone
    <2> QED
      BY <1>1, <2>4, ReplayConstants DEF CashIsAccountedFor
  <1>5. FundedSoFar
    BY <1>2, NothingOpen DEF FundedSoFar
  <1>6. TurnsInStep
    BY <1>1, <1>2 DEF TurnsInStep
  <1> QED
    BY <1>3, <1>4, <1>5, <1>6 DEF ReplayInv

LEMMA ReplayKeeps == ReplayInv /\ [ReplayNext]_replayVars => ReplayInv'
  <1> SUFFICES ASSUME ReplayInv, [ReplayNext]_replayVars PROVE ReplayInv'
    OBVIOUS
  <1>1. CASE Load
    BY <1>1, LoadKeeps
  <1>2. CASE Stop \/ Crash
    BY <1>2, SameBooks DEF Stop, Crash, portfolio, result
  <1>3. ASSUME NEW closes \in Closes, NEW opens \in Opens, Turn(closes, opens)
        PROVE  ReplayInv'
    BY <1>3, TurnKeeps
  <1>4. CASE UNCHANGED replayVars
    BY <1>4, SameBooks DEF replayVars, portfolio, result
  <1> QED
    BY <1>1, <1>2, <1>3, <1>4 DEF ReplayNext

LEMMA ReplayInductive == ReplaySpec => []ReplayInv
  BY ReplayStarts, ReplayKeeps, PTL DEF ReplaySpec

-----------------------------------------------------------------------------
(* What the replay promises.                                                 *)

LEMMA NAVFromCash == ReplayInv => NAVIsExplained
  <1> SUFFICES ASSUME ReplayInv PROVE NAVIsExplained
    OBVIOUS
  <1> DEFINE D == DOMAIN positions
             worth == [s \in D |-> positions[s].notional + positions[s].funding]
             gain == [s \in D |-> positions[s].funding - positions[s].openFees]
             cost == [s \in D |-> Cost(positions[s])]
  <1>1. IsBook(positions) /\ cash \in Int /\ trades \in Seq(Trades) /\ cash + Spent(positions) = Start + NetOfClosed(trades)
    BY DEF ReplayInv, ReplayTypeOK, CashIsAccountedFor
  <1>2. /\ IsFiniteSet(D)
        /\ \A s \in D : /\ positions[s].notional \in Int /\ positions[s].funding \in Int /\ positions[s].openFees \in Int
    BY <1>1, BookTyped
  <1>3. \A s \in D : gain[s] \in Int /\ cost[s] \in Int /\ worth[s] = 1 * gain[s] + cost[s] /\ worth[s] \in Int
    <2> SUFFICES ASSUME NEW s \in D
                 PROVE  gain[s] \in Int /\ cost[s] \in Int /\ worth[s] = 1 * gain[s] + cost[s] /\ worth[s] \in Int
      OBVIOUS
    <2>1. /\ gain[s] = positions[s].funding - positions[s].openFees
          /\ cost[s] = positions[s].notional + positions[s].openFees
          /\ worth[s] = positions[s].notional + positions[s].funding
      BY DEF Cost
    <2> QED
      BY <1>2, <2>1
  <1>4. /\ nav(cash, positions) = cash + SumFunction(worth) /\ DOMAIN worth = D /\ DOMAIN gain = D
        /\ Spent(positions) = SumFunctionOnSet(cost, D)
    BY <1>1, SpentIs DEF nav
  <1>5. NAVIsExplained <=> nav(cash, positions) = Start + NetOfClosed(trades) + SumFunction(gain)
    BY DEF NAVIsExplained
  <1> HIDE DEF worth, gain, cost, D
  <1>6. SumFunctionOnSet(worth, D) = 1 * SumFunctionOnSet(gain, D) + SumFunctionOnSet(cost, D)
    <2>1. 1 \in Int
      OBVIOUS
    <2> QED
      BY <1>2, <1>3, <2>1, SumLinear
  <1>7. SumFunctionOnSet(gain, D) \in Int /\ SumFunctionOnSet(cost, D) \in Int
    BY <1>2, <1>3, SumTakesOut
  <1>8. Start \in Int /\ NetOfClosed(trades) \in Int
    BY <1>1, NetIs, ReplayConstants
  <1>9. SumFunction(worth) = SumFunctionOnSet(worth, D) /\ SumFunction(gain) = SumFunctionOnSet(gain, D)
    BY <1>4, SumIsOnSet
  <1> QED
    BY <1>1, <1>4, <1>5, <1>6, <1>7, <1>8, <1>9

LEMMA TicksFromTurns == ReplayInv => EachTickCountsOnce
  <1> SUFFICES ASSUME ReplayInv, NEW s \in DOMAIN positions
               PROVE  positions[s].funding =
                        Brought(positions[s].notional,
                                {i \in DOMAIN tape : /\ tape[i].symbol = s
                                                     /\ tape[i].time >= positions[s].openedAt
                                                     /\ phase = "done" \/ tape[i].time < LastTurn})
    BY DEF EachTickCountsOnce
  <1>1. positions[s].funding = Brought(positions[s].notional, Between(s, positions[s].openedAt, LastTurn))
    BY DEF ReplayInv, FundedSoFar, FundedBefore
  <1>2. phase = "done" => \A i \in DOMAIN tape : tape[i].time < LastTurn
    BY DEF ReplayInv, TurnsInStep
  <1>3. Between(s, positions[s].openedAt, LastTurn)
          = {i \in DOMAIN tape : /\ tape[i].symbol = s
                                 /\ tape[i].time >= positions[s].openedAt
                                 /\ phase = "done" \/ tape[i].time < LastTurn}
    BY <1>2 DEF Between
  <1> QED
    BY <1>1, <1>3

LEMMA DrawdownFromCurve == ReplayInv => DrawdownIsLargestDecline
  <1> SUFFICES ASSUME ReplayInv, phase = "done" PROVE DrawdownIsLargestDecline
    BY DEF DrawdownIsLargestDecline
  <1> DEFINE d == computeMaxDrawdown(curve)
  <1>1. curve \in Seq(Int) /\ curve # <<>> /\ DOMAIN curve = 1 .. Len(curve)
    BY DEF ReplayInv, ReplayTypeOK
  <1>2. d \in Accs /\ Declines(curve, d, Len(curve))
    BY <1>1, LargestDecline
  <1>3. d.num >= 0 /\ d.den > 0
    BY <1>2 DEF Accs
  <1>4. DrawdownIsLargestDecline <=>
          /\ d.num >= 0 /\ d.den > 0
          /\ \A j \in DOMAIN curve : TopOf(curve, j) > 0 => (TopOf(curve, j) - curve[j]) * d.den <= d.num * TopOf(curve, j)
          /\ d.num = 0 \/ \E j \in DOMAIN curve : TopOf(curve, j) = d.den /\ TopOf(curve, j) - curve[j] = d.num
    BY DEF DrawdownIsLargestDecline, TopOf
  <1> HIDE DEF d
  <1> QED
    BY <1>1, <1>2, <1>3, <1>4 DEF Declines

\* The state of Run has its type in every state of the simulator: the curve of
\* a finished run is not empty, every position and trade is complete, and the
\* totals are numbers because no division by zero was survived.
THEOREM ReplayTypeCorrect == ReplaySpec => []ReplayTypeOK
  <1>1. ReplayInv => ReplayTypeOK
    BY DEF ReplayInv
  <1> QED
    BY <1>1, ReplayInductive, PTL

\* The NAV that the simulator reports is the starting NAV, the net PnL of the
\* closed trades and what the open positions earned less their opening fees,
\* after any run of close, open and accrueFunding and for any fee schedule.
THEOREM NAVCorrect == ReplaySpec => []NAVIsExplained
  BY ReplayInductive, NAVFromCash, PTL

\* Every tick of a position's life is credited by exactly one turn of
\* accrueFunding, and by the end of Run none is left out.
THEOREM TicksCorrect == ReplaySpec => []EachTickCountsOnce
  BY ReplayInductive, TicksFromTurns, PTL

\* The one pass of computeMaxDrawdown finds the largest relative decline from a
\* running maximum of the NAV curve, for curves of any length.
THEOREM DrawdownReportCorrect == ReplaySpec => []DrawdownIsLargestDecline
  BY ReplayInductive, DrawdownFromCurve, PTL
=============================================================================
