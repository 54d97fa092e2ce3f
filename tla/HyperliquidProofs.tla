--------------------------- MODULE HyperliquidProofs ---------------------------
(***************************************************************************)
(* Proofs about the Hyperliquid venue and about the market streams.        *)
(***************************************************************************)
EXTENDS Hyperliquid, MarketStreams, FiniteSetTheorems, SequenceTheorems, TLAPS

-----------------------------------------------------------------------------
(* Records and sizes.                                                        *)

LEMMA Bounds ==
    /\ TTL \in Nat /\ 1 <= TTL /\ Timeout \in Nat /\ 1 <= Timeout /\ Lot \in Nat /\ 1 <= Lot
    /\ MaxOrders \in Nat
    /\ Old \in Nat /\ TTL <= Old /\ Old = TTL + Timeout
  BY HyperliquidAssumption DEF Old

\* Rounding down to a step never adds.
LEMMA RoundsDown ==
    ASSUME NEW size \in Nat, NEW unit \in Nat, 1 <= unit
    PROVE  Truncate(size, unit) \in 0 .. size
  <1> DEFINE q == size \div unit
  <1>1. q \in Nat /\ q * unit <= size
    OBVIOUS
  <1>2. q * unit \in Nat
    BY <1>1
  <1> QED
    BY <1>1, <1>2 DEF Truncate

LEMMA CallTyped ==
    ASSUME NEW pc \in {"idle", "rates", "lookup", "send"}, NEW intent \in Intents \cup {NoIntent},
           NEW age \in 0 .. Timeout, NEW unit \in {1, Lot}
    PROVE  Call(pc, intent, age, unit) \in CallSet
  BY Zenon DEF Call, CallSet

LEMMA CallFields ==
    ASSUME NEW pc, NEW intent, NEW age, NEW unit
    PROVE  /\ Call(pc, intent, age, unit).pc = pc
           /\ Call(pc, intent, age, unit).intent = intent
           /\ Call(pc, intent, age, unit).age = age
  BY Zenon DEF Call

LEMMA CallOf ==
    ASSUME TypeOK, NEW c \in Callers
    PROVE  /\ call[c] \in CallSet /\ call[c].pc \in {"idle", "rates", "lookup", "send"}
           /\ call[c].age \in 0 .. Timeout /\ call[c].unit \in {1, Lot}
           /\ call[c].intent \in Intents \cup {NoIntent} /\ VenueOf[c] \in Venues
           /\ call[c].pc \in {"lookup", "send"} => call[c].intent \in Intents
  <1>1. call[c] \in CallSet /\ (call[c].pc \in {"lookup", "send"} => call[c].intent \in Intents)
    BY DEF TypeOK
  <1>2. VenueOf[c] \in Venues
    BY HyperliquidAssumption
  <1> QED
    BY <1>1, <1>2, Zenon DEF CallSet

\* What a caller may turn to.
CallOK(s) == s \in CallSet /\ (s.pc \in {"lookup", "send"} => s.intent \in Intents)

LEMMA NoIntentOK == CallOK(NoCall) /\ CallOK(Call("rates", NoIntent, 0, 1))
  <1>1. 0 \in 0 .. Timeout
    BY Bounds
  <1> QED
    BY <1>1, CallTyped, CallFields DEF CallOK, NoCall

LEMMA IntentOK ==
    ASSUME NEW intent \in Intents
    PROVE  /\ CallOK(Call("lookup", intent, 0, 1))
           /\ CallOK(Sending(intent, TRUE)) /\ CallOK(Sending(intent, FALSE))
  <1>1. 0 \in 0 .. Timeout
    BY Bounds
  <1>2. /\ Sending(intent, TRUE) = Call("send", intent, 0, 1) \/ Sending(intent, TRUE) = Call("send", intent, 0, Lot)
        /\ Sending(intent, FALSE) = Call("send", intent, 0, 1)
    BY Zenon DEF Sending
  <1>3. \A pc \in {"lookup", "send"}, unit \in {1, Lot} : Call(pc, intent, 0, unit) \in CallSet
    BY <1>1, CallTyped
  <1>4. \A pc \in {"lookup", "send"}, unit \in {1, Lot} : CallOK(Call(pc, intent, 0, unit))
    BY <1>3, CallFields DEF CallOK
  <1> QED
    BY <1>2, <1>4

\* A step of one caller keeps the types of call.
LEMMA OneCaller ==
    ASSUME TypeOK, NEW c \in Callers, NEW s, CallOK(s), call' = [call EXCEPT ![c] = s]
    PROVE  call' \in [Callers -> CallSet] /\ \A d \in Callers : CallOK(call'[d])
  <1>1. call \in [Callers -> CallSet] /\ \A d \in Callers : CallOK(call[d])
    BY DEF TypeOK, CallOK
  <1>2. \A d \in Callers : call'[d] = IF d = c THEN s ELSE call[d]
    BY <1>1
  <1>3. s \in CallSet
    BY DEF CallOK
  <1>4. call' \in [Callers -> CallSet]
    BY <1>1, <1>3
  <1> QED
    BY <1>1, <1>2, <1>4

LEMMA AckTyped ==
    ASSUME NEW status \in {"none", "open", "filled", "rejected", "error"}, NEW oid \in Nat, NEW filled \in Nat
    PROVE  /\ Ack(status, oid, filled) \in AckSet
           /\ Ack(status, oid, filled).status = status /\ Ack(status, oid, filled).oid = oid
           /\ Ack(status, oid, filled).filled = filled
  BY Zenon DEF Ack, AckSet

LEMMA OrderTyped ==
    ASSUME NEW coin \in Coins, NEW i \in Intents, NEW size \in Nat, NEW filled \in Nat,
           NEW state \in {"open", "closed"}
    PROVE  Order(coin, normaliseCloid(i.cid), size, filled, state) \in OrderSet
  BY Zenon DEF Order, OrderSet

LEMMA OrderFields ==
    ASSUME NEW coin, NEW cloid, NEW size, NEW filled, NEW state
    PROVE  LET o == Order(coin, cloid, size, filled, state)
           IN  o.coin = coin /\ o.cloid = cloid /\ o.size = size /\ o.filled = filled /\ o.state = state
  BY Zenon DEF Order

\* An order changed in place.
LEMMA OrderChanged ==
    ASSUME NEW o \in OrderSet, NEW filled \in Nat, NEW state \in {"open", "closed"}
    PROVE  /\ Order(o.coin, o.cloid, o.size, filled, state) \in OrderSet
           /\ o.coin \in Coins /\ o.size \in Nat /\ o.filled \in Nat /\ o.state \in {"open", "closed"}
  BY Zenon DEF Order, OrderSet

\* The order an intent makes: its coin, its client id, and no more than its size.
LEMMA AcceptedOrder ==
    ASSUME TypeOK, NEW c \in Callers, call[c].pc = "send", NEW o \in Accepted(c)
    PROVE  /\ call[c].intent \in Intents /\ o \in OrderSet
           /\ o.cloid = normaliseCloid(call[c].intent.cid)
           /\ o.size = Size(c) /\ Size(c) \in 0 .. call[c].intent.size
           /\ o.coin = call[c].intent.coin
  <1> DEFINE i == call[c].intent
  <1>1. i \in Intents /\ call[c].unit \in {1, Lot}
    BY CallOf
  <1>2. i.coin \in Coins /\ i.size \in Nat
    BY <1>1, HyperliquidAssumption
  <1>3. Size(c) \in 0 .. i.size
    BY <1>1, <1>2, RoundsDown, Bounds DEF Size
  <1>4. PICK f \in 0 .. Size(c), state \in {"open", "closed"} :
          o = Order(i.coin, normaliseCloid(i.cid), Size(c), f, state)
    BY DEF Accepted, Fills
  <1>5. f \in Nat /\ Size(c) \in Nat
    BY <1>2, <1>3
  <1>6. o \in OrderSet
    BY <1>1, <1>2, <1>4, <1>5, OrderTyped
  <1> HIDE DEF i
  <1>7. o.coin = i.coin /\ o.cloid = normaliseCloid(i.cid) /\ o.size = Size(c)
    BY <1>4, OrderFields
  <1> QED
    BY <1>1, <1>3, <1>6, <1>7 DEF i

-----------------------------------------------------------------------------
(* What a step does to the orders of the exchange: nothing, one more, or one *)
(* that is open changed in place.                                            *)

Persists(k) ==
    /\ k \in DOMAIN orders'
    /\ orders'[k].coin = orders[k].coin /\ orders'[k].cloid = orders[k].cloid
    /\ orders'[k].size = orders[k].size
    /\ orders[k].state = "closed" => orders'[k] = orders[k]
    /\ orders'[k].state = "open" => orders[k].state = "open"

NewOrder(k) ==
    /\ k = Len(orders) + 1
    /\ \E i \in Intents : orders'[k].cloid = normaliseCloid(i.cid) /\ orders'[k].size <= i.size
    /\ \A l \in DOMAIN orders : orders[l].cloid # orders'[k].cloid

OrdersMove ==
    /\ orders' \in Seq(OrderSet) /\ Len(orders') <= MaxOrders
    /\ \A k \in DOMAIN orders : Persists(k)
    /\ \A k \in DOMAIN orders' : k \in DOMAIN orders \/ NewOrder(k)

LEMMA OrdersOf ==
    ASSUME TypeOK
    PROVE  /\ orders \in Seq(OrderSet) /\ Len(orders) \in Nat /\ DOMAIN orders = 1 .. Len(orders)
           /\ Len(orders) <= MaxOrders
           /\ \A k \in DOMAIN orders : orders[k] \in OrderSet /\ orders[k].state \in {"open", "closed"}
  <1>1. orders \in Seq(OrderSet) /\ Len(orders) <= MaxOrders
    BY DEF TypeOK
  <1>2. Len(orders) \in Nat /\ DOMAIN orders = 1 .. Len(orders)
    BY <1>1, LenProperties
  <1>3. \A k \in DOMAIN orders : orders[k] \in OrderSet
    BY <1>1, <1>2, ElementOfSeq
  <1>4. \A o \in OrderSet : o.state \in {"open", "closed"}
    BY Zenon DEF OrderSet
  <1> QED
    BY <1>1, <1>2, <1>3, <1>4

LEMMA OrdersStay ==
    ASSUME TypeOK, UNCHANGED orders
    PROVE  OrdersMove
  BY OrdersOf DEF OrdersMove, Persists

LEMMA OpenChanges ==
    ASSUME TypeOK, NEW oid \in Open, NEW filled \in Nat, NEW state \in {"open", "closed"},
           orders' = [orders EXCEPT ![oid] = Order(@.coin, @.cloid, @.size, filled, state)]
    PROVE  OrdersMove
  <1> DEFINE o == orders[oid]
             n == Order(o.coin, o.cloid, o.size, filled, state)
  <1>1. oid \in 1 .. Len(orders) /\ o.state = "open" /\ o \in OrderSet
    BY OrdersOf DEF Open
  <1>2. n \in OrderSet
    BY <1>1, OrderChanged
  <1>3. n.coin = o.coin /\ n.cloid = o.cloid /\ n.size = o.size
    BY OrderFields
  <1>4. orders' = [orders EXCEPT ![oid] = n]
    OBVIOUS
  <1> HIDE DEF n
  <1>5. /\ orders' \in Seq(OrderSet) /\ Len(orders') = Len(orders)
        /\ \A j \in 1 .. Len(orders) : orders'[j] = IF j = oid THEN n ELSE orders[j]
    BY <1>1, <1>2, <1>4, OrdersOf, ExceptSeq
  <1>6. DOMAIN orders' = DOMAIN orders
    BY <1>5, OrdersOf, LenProperties
  <1>7. \A k \in DOMAIN orders : Persists(k)
    <2> SUFFICES ASSUME NEW k \in DOMAIN orders PROVE Persists(k)
      OBVIOUS
    <2>1. CASE k = oid
      BY <1>1, <1>3, <1>5, <1>6, <2>1 DEF Persists
    <2>2. CASE k # oid
      BY <1>5, <1>6, <2>2, OrdersOf DEF Persists
    <2> QED
      BY <2>1, <2>2
  <1> QED
    BY <1>5, <1>6, <1>7, OrdersOf DEF OrdersMove

LEMMA OrderAdded ==
    ASSUME TypeOK, NEW c \in Callers, call[c].pc = "send", ~Refused(c), Len(orders) + 1 <= MaxOrders,
           NEW o \in Accepted(c), orders' = Append(orders, o)
    PROVE  /\ OrdersMove /\ DOMAIN orders' = DOMAIN orders \cup {Len(orders) + 1}
           /\ orders'[Len(orders) + 1] = o
  <1>1. /\ o \in OrderSet /\ call[c].intent \in Intents
        /\ o.cloid = normaliseCloid(call[c].intent.cid) /\ o.size <= call[c].intent.size
    <2>1. /\ o \in OrderSet /\ call[c].intent \in Intents
          /\ o.cloid = normaliseCloid(call[c].intent.cid) /\ o.size \in 0 .. call[c].intent.size
      BY AcceptedOrder
    <2>2. call[c].intent.size \in Nat
      BY <2>1, HyperliquidAssumption
    <2> QED
      BY <2>1, <2>2
  <1>2. /\ orders' \in Seq(OrderSet) /\ Len(orders') = Len(orders) + 1
        /\ \A j \in 1 .. Len(orders) : orders'[j] = orders[j]
        /\ orders'[Len(orders) + 1] = o
    BY <1>1, OrdersOf, AppendProperties
  <1>3. DOMAIN orders' = DOMAIN orders \cup {Len(orders) + 1}
    BY <1>2, OrdersOf, LenProperties
  <1>4. \A k \in DOMAIN orders : Persists(k)
    BY <1>2, <1>3, OrdersOf DEF Persists
  <1>5. NewOrder(Len(orders) + 1)
    BY <1>1, <1>2 DEF NewOrder, Refused
  <1> QED
    BY <1>2, <1>3, <1>4, <1>5 DEF OrdersMove

LEMMA CancelMoves ==
    ASSUME TypeOK, NEW v, NEW oid, NEW coin, CancelAt(v, oid, coin)
    PROVE  OrdersMove
  <1>1. CASE UNCHANGED orders
    BY <1>1, OrdersStay
  <1>2. CASE /\ oid \in Open
             /\ orders' = [orders EXCEPT ![oid] = Order(@.coin, @.cloid, @.size, @.filled, "closed")]
    <2>1. orders[oid].filled \in Nat
      BY <1>2, OrdersOf, OrderChanged DEF Open
    <2> QED
      BY <1>2, <2>1, OpenChanges
  <1> QED
    BY <1>1, <1>2 DEF CancelAt

LEMMA FillMoves ==
    ASSUME TypeOK, Fill
    PROVE  OrdersMove
  <1>1. PICK oid \in Open :
          orders' = [orders EXCEPT ![oid] =
                        Order(@.coin, @.cloid, @.size, @.filled + Lot,
                              IF @.filled + Lot < @.size THEN "open" ELSE "closed")]
    BY DEF Fill
  <1>2. orders[oid].filled \in Nat
    BY OrdersOf, OrderChanged DEF Open
  <1>3. orders[oid].filled + Lot \in Nat
    BY <1>2, Bounds
  <1> QED
    BY <1>1, <1>3, OpenChanges

LEMMA EveryStepMovesOrders ==
    ASSUME TypeOK, [Next]_vars
    PROVE  OrdersMove
  <1>1. ASSUME NEW c \in Callers, Send(c) PROVE OrdersMove
    BY <1>1, OrderAdded, OrdersStay DEF Send
  <1>2. ASSUME NEW c \in Cancellers, Cancel(c) \/ CancelWithSymbol(c) PROVE OrdersMove
    BY <1>2, CancelMoves DEF Cancel, CancelWithSymbol
  <1> QED
    BY <1>1, <1>2, FillMoves, OrdersStay
    DEF Next, vars, FetchOK, FetchFails, FundingRates, Place, OpenOrders, Tick, Restart

-----------------------------------------------------------------------------
(* What a step does to the memory of a session.                              *)

\* What a session knows after a step it knew before, or it is an order with
\* the coin the exchange has for it.
KnownMoves ==
    /\ DOMAIN known' = Venues
    /\ \A v \in Venues : \A o \in DOMAIN known'[v] :
          \/ o \in DOMAIN known[v] /\ known'[v][o] = known[v][o]
          \/ o \in DOMAIN orders' /\ known'[v][o] = orders'[o].coin

LEMMA KnownStays ==
    ASSUME TypeOK, UNCHANGED known
    PROVE  KnownMoves
  BY DEF TypeOK, KnownMoves

LEMMA OneSession ==
    ASSUME TypeOK, NEW v \in Venues, NEW m, known' = [known EXCEPT ![v] = m],
           \A o \in DOMAIN m : \/ o \in DOMAIN known[v] /\ m[o] = known[v][o]
                               \/ o \in DOMAIN orders' /\ m[o] = orders'[o].coin
    PROVE  KnownMoves
  <1>1. DOMAIN known = Venues
    BY DEF TypeOK
  <1>2. DOMAIN known' = Venues /\ \A w \in Venues : known'[w] = IF w = v THEN m ELSE known[w]
    BY <1>1
  <1> QED
    BY <1>2 DEF KnownMoves

LEMMA EveryStepMovesKnown ==
    ASSUME TypeOK, [Next]_vars
    PROVE  KnownMoves
  <1>1. ASSUME NEW c \in Callers, Send(c) PROVE KnownMoves
    <2> DEFINE oid == Len(orders) + 1
               v == VenueOf[c]
    <2>1. v \in Venues /\ DOMAIN known = Venues
      BY HyperliquidAssumption DEF TypeOK
    <2>2. CASE UNCHANGED known
      BY <2>2, KnownStays
    <2>3. CASE \E order \in Accepted(c) : /\ ~Refused(c) /\ oid <= MaxOrders
                                          /\ orders' = Append(orders, order)
                                          /\ known' = rememberOrder(v, oid, order.coin)
      <3>1. PICK order \in Accepted(c) : /\ ~Refused(c) /\ oid <= MaxOrders
                                         /\ orders' = Append(orders, order)
                                         /\ known' = rememberOrder(v, oid, order.coin)
        BY <2>3
      <3>2. call[c].pc = "send"
        BY <1>1 DEF Send
      <3>3. DOMAIN orders' = DOMAIN orders \cup {oid} /\ orders'[oid] = order
        BY <3>1, <3>2, OrderAdded
      <3>4. \A w \in Venues : known'[w] =
               IF w = v THEN [o \in DOMAIN known[v] \cup {oid} |-> IF o = oid THEN order.coin ELSE known[v][o]]
                        ELSE known[w]
        BY <2>1, <3>1 DEF rememberOrder
      <3>5. DOMAIN known' = Venues
        BY <2>1, <3>1 DEF rememberOrder
      <3> QED
        BY <2>1, <3>3, <3>4, <3>5 DEF KnownMoves
    <2> QED
      BY <1>1, <2>2, <2>3 DEF Send
  <1>2. ASSUME NEW c \in Cancellers, NEW oid, NEW coin, CancelAt(VenueOf[c], oid, coin) PROVE KnownMoves
    <2>1. VenueOf[c] \in Venues
      BY HyperliquidAssumption
    <2>2. CASE known' = forgetOrder(VenueOf[c], oid)
      <3>1. DOMAIN known' = Venues
        BY <2>2 DEF forgetOrder, TypeOK
      <3>2. \A w \in Venues : known'[w] =
               IF w = VenueOf[c] THEN [o \in DOMAIN known[w] \ {oid} |-> known[w][o]] ELSE known[w]
        BY <2>2 DEF forgetOrder, TypeOK
      <3> QED
        BY <3>1, <3>2 DEF KnownMoves
    <2> QED
      BY <1>2, <2>2, KnownStays DEF CancelAt
  <1>3. ASSUME NEW c \in Cancellers, OpenOrders(c) PROVE KnownMoves
    <2>1. VenueOf[c] \in Venues
      BY HyperliquidAssumption
    <2>2. known' = [known EXCEPT ![VenueOf[c]] = Learned(VenueOf[c])] /\ UNCHANGED orders
      BY <1>3 DEF OpenOrders
    <2> QED
      BY <2>1, <2>2, OneSession DEF Learned, Open
  <1>4. ASSUME NEW v \in Venues, Restart(v) PROVE KnownMoves
    <2>1. known' = [known EXCEPT ![v] = <<>>] /\ DOMAIN <<>> = {}
      BY <1>4 DEF Restart
    <2>2. DOMAIN known' = Venues /\ \A w \in Venues : known'[w] = IF w = v THEN <<>> ELSE known[w]
      BY <2>1 DEF TypeOK
    <2> QED
      BY <2>1, <2>2 DEF KnownMoves
  <1> QED
    BY <1>1, <1>2, <1>3, <1>4, KnownStays
    DEF Next, vars, FetchOK, FetchFails, FundingRates, Place, Tick, Fill, Cancel, CancelWithSymbol

LEMMA KnownTypes ==
    ASSUME TypeOK, OrdersMove, KnownMoves
    PROVE  /\ DOMAIN known' = Venues
           /\ \A v \in Venues : \A o \in DOMAIN known'[v] :
                 o \in DOMAIN orders' /\ known'[v][o] = orders'[o].coin
  BY DEF TypeOK, OrdersMove, Persists, KnownMoves

-----------------------------------------------------------------------------
(* Types.                                                                    *)

LEMMA CallTypes ==
    ASSUME TypeOK, [Next]_vars
    PROVE  call' \in [Callers -> CallSet] /\ \A d \in Callers : CallOK(call'[d])
  <1>0. call \in [Callers -> CallSet] /\ \A d \in Callers : CallOK(call[d])
    BY DEF TypeOK, CallOK
  <1>1. CASE UNCHANGED call
    BY <1>0, <1>1
  <1>2. ASSUME NEW c \in Callers, Fetching(c), NEW found \in BOOLEAN,
               call' = [call EXCEPT ![c] = AfterFetch(c, found)]
        PROVE  call' \in [Callers -> CallSet] /\ \A d \in Callers : CallOK(call'[d])
    <2>1. CASE call[c].pc = "rates"
      BY <1>2, <2>1, NoIntentOK, OneCaller DEF AfterFetch
    <2>2. CASE call[c].pc = "lookup"
      <3>1. call[c].intent \in Intents
        BY <2>2, CallOf
      <3>2. CallOK(Sending(call[c].intent, found))
        BY <1>2, <3>1, IntentOK
      <3> QED
        BY <1>2, <2>2, <3>2, OneCaller DEF AfterFetch
    <2> QED
      BY <1>2, <2>1, <2>2 DEF Fetching
  <1>3. ASSUME NEW c \in Callers, FetchOK(c) \/ FetchFails(c)
        PROVE  call' \in [Callers -> CallSet] /\ \A d \in Callers : CallOK(call'[d])
    BY <1>2, <1>3 DEF FetchOK, FetchFails
  <1>4. ASSUME NEW c \in Callers, Send(c) \/ FundingRates(c)
        PROVE  call' \in [Callers -> CallSet] /\ \A d \in Callers : CallOK(call'[d])
    BY <1>4, NoIntentOK, OneCaller DEF Send, FundingRates
  <1>5. ASSUME NEW c \in Placers, NEW i \in Intents, Place(c, i)
        PROVE  call' \in [Callers -> CallSet] /\ \A d \in Callers : CallOK(call'[d])
    <2>1. c \in Callers
      BY HyperliquidAssumption
    <2>2. \/ call' = [call EXCEPT ![c] = Sending(i, TRUE)]
          \/ call' = [call EXCEPT ![c] = Call("lookup", i, 0, 1)]
      BY <1>5 DEF Place
    <2> QED
      BY <2>1, <2>2, IntentOK, OneCaller
  <1>6. CASE Tick
    <2>1. call' = [c \in Callers |-> IF Fetching(c) THEN Call(call[c].pc, call[c].intent, call[c].age + 1, 1)
                                     ELSE call[c]]
      BY <1>6 DEF Tick
    <2>2. ASSUME NEW c \in Callers, Fetching(c)
          PROVE  CallOK(Call(call[c].pc, call[c].intent, call[c].age + 1, 1))
      <3>1. call[c].age + 1 \in 0 .. Timeout
        BY <1>6, <2>2, CallOf, Bounds DEF Tick, MayWait
      <3> QED
        <4>1. /\ call[c].pc \in {"rates", "lookup"} /\ call[c].intent \in Intents \cup {NoIntent}
              /\ call[c].pc = "lookup" => call[c].intent \in Intents
          BY <2>2, CallOf DEF Fetching
        <4>2. Call(call[c].pc, call[c].intent, call[c].age + 1, 1) \in CallSet
          BY <3>1, <4>1, CallTyped
        <4> QED
          BY <4>1, <4>2, CallFields DEF CallOK
    <2>3. \A c \in Callers : CallOK(call'[c])
      BY <1>0, <2>1, <2>2
    <2> QED
      BY <2>1, <2>3 DEF CallOK
  <1>7. ASSUME NEW v \in Venues, Restart(v)
        PROVE  call' \in [Callers -> CallSet] /\ \A d \in Callers : CallOK(call'[d])
    <2>1. call' = [c \in Callers |-> IF VenueOf[c] = v THEN NoCall ELSE call[c]]
      BY <1>7 DEF Restart
    <2>2. \A c \in Callers : CallOK(call'[c])
      BY <1>0, <2>1, NoIntentOK
    <2> QED
      BY <2>1, <2>2 DEF CallOK
  <1>8. Watchers \subseteq Callers
    BY HyperliquidAssumption
  <1> QED
    BY <1>1, <1>3, <1>4, <1>5, <1>6, <1>7, <1>8
    DEF Next, vars, Cancel, CancelWithSymbol, OpenOrders, Fill

\* What a step does to the stamps of the cache: they stay, are set by an
\* answer, forgotten, or grow by one.
LEMMA MetaOf ==
    ASSUME NEW m \in MetaSet
    PROVE  m.at \in 0 .. Old /\ m.asof \in 0 .. Old
  BY Zenon DEF MetaSet

LEMMA MetaMoves ==
    ASSUME TypeOK, [Next]_vars, NEW v \in Venues
    PROVE  \/ meta'[v] = meta[v]
           \/ \E age \in 0 .. Timeout : meta'[v] = [at |-> 0, asof |-> age]
           \/ meta'[v] = NoMeta
           \/ meta'[v] = [at |-> Older(meta[v].at), asof |-> Older(meta[v].asof)]
  <1>0. meta \in [Venues -> MetaSet]
    BY DEF TypeOK
  <1>1. ASSUME NEW c \in Callers, FetchOK(c)
        PROVE  meta'[v] = meta[v] \/ \E age \in 0 .. Timeout : meta'[v] = [at |-> 0, asof |-> age]
    <2>1. call[c].age \in 0 .. Timeout /\ VenueOf[c] \in Venues
      BY CallOf
    <2>2. meta' = [meta EXCEPT ![VenueOf[c]] = [at |-> 0, asof |-> call[c].age]]
      BY <1>1 DEF FetchOK
    <2>3. meta'[v] = meta[v] \/ meta'[v] = [at |-> 0, asof |-> call[c].age]
      BY <1>0, <2>1, <2>2
    <2> QED
      BY <2>1, <2>3
  <1>2. ASSUME NEW c \in Callers, FetchFails(c) PROVE meta'[v] = meta[v]
    BY <1>0, <1>2, HyperliquidAssumption DEF FetchFails, Kept
  <1>3. CASE Tick
    BY <1>3 DEF Tick
  <1>4. ASSUME NEW w \in Venues, Restart(w) PROVE meta'[v] = meta[v] \/ meta'[v] = NoMeta
    BY <1>0, <1>4 DEF Restart
  <1> QED
    BY <1>1, <1>2, <1>3, <1>4
    DEF Next, vars, Send, FundingRates, Place, Cancel, CancelWithSymbol, OpenOrders, Fill

LEMMA OlderBounds ==
    ASSUME NEW age \in 0 .. Old
    PROVE  Older(age) \in 0 .. Old /\ Older(age) <= age + 1 /\ (age < Old => Older(age) = age + 1)
           /\ (age = Old => Older(age) = Old)
  BY Bounds DEF Older

LEMMA MetaTypes ==
    ASSUME TypeOK, [Next]_vars
    PROVE  meta' \in [Venues -> MetaSet]
  <1>1. DOMAIN meta' = Venues /\ meta' = [v \in Venues |-> meta'[v]]
    <2>1. meta \in [Venues -> MetaSet]
      BY DEF TypeOK
    <2>2. \/ UNCHANGED meta \/ (\E w, m : meta' = [meta EXCEPT ![w] = m])
          \/ meta' = [v \in Venues |-> [at |-> Older(meta[v].at), asof |-> Older(meta[v].asof)]]
      BY DEF Next, vars, FetchOK, FetchFails, Send, FundingRates, Place, Cancel, CancelWithSymbol,
             OpenOrders, Fill, Tick, Restart
    <2> QED
      BY <2>1, <2>2
  <1>2. ASSUME NEW v \in Venues PROVE meta'[v] \in MetaSet
    <2>1. meta[v].at \in 0 .. Old /\ meta[v].asof \in 0 .. Old /\ meta[v] \in MetaSet
      BY MetaOf DEF TypeOK
    <2>2. \A at \in 0 .. Old, asof \in 0 .. Old : [at |-> at, asof |-> asof] \in MetaSet
      BY Zenon DEF MetaSet
    <2>3. 0 \in 0 .. Old /\ Old \in 0 .. Old /\ 0 .. Timeout \subseteq 0 .. Old
      BY Bounds
    <2>4. Older(meta[v].at) \in 0 .. Old /\ Older(meta[v].asof) \in 0 .. Old
      BY <2>1, OlderBounds
    <2> QED
      BY <2>1, <2>2, <2>3, <2>4, MetaMoves DEF NoMeta
  <1> QED
    BY <1>1, <1>2

\* What a step does to an acknowledgement: it stays, is cleared, is an error,
\* or is what mapOrderStatus makes of the order that was just accepted.
Acked(a) ==
    \/ a \in {NoAck, Rejected, Error}
    \/ /\ DOMAIN orders' = DOMAIN orders \cup {Len(orders) + 1}
       /\ \E size : a = mapOrderStatus(Len(orders) + 1, orders'[Len(orders) + 1], size)

LEMMA AckMoves ==
    ASSUME TypeOK, [Next]_vars, NEW c \in Callers
    PROVE  ack'[c] = ack[c] \/ Acked(ack'[c])
  <1>0. ack \in [Callers -> AckSet]
    BY DEF TypeOK
  <1>1. ASSUME NEW d \in Callers, Send(d) PROVE ack'[c] = ack[c] \/ Acked(ack'[c])
    <2>1. CASE ack' = [ack EXCEPT ![d] = Rejected] \/ ack' = [ack EXCEPT ![d] = Error]
      BY <1>0, <2>1 DEF Acked
    <2>2. CASE \E order \in Accepted(d) :
                  /\ ~Refused(d) /\ Len(orders) + 1 <= MaxOrders /\ orders' = Append(orders, order)
                  /\ ack' = [ack EXCEPT ![d] = mapOrderStatus(Len(orders) + 1, order, Size(d))]
      <3>1. PICK order \in Accepted(d) :
                  /\ ~Refused(d) /\ Len(orders) + 1 <= MaxOrders /\ orders' = Append(orders, order)
                  /\ ack' = [ack EXCEPT ![d] = mapOrderStatus(Len(orders) + 1, order, Size(d))]
        BY <2>2
      <3>2. DOMAIN orders' = DOMAIN orders \cup {Len(orders) + 1} /\ orders'[Len(orders) + 1] = order
        BY <1>1, <3>1, OrderAdded DEF Send
      <3>3. Acked(mapOrderStatus(Len(orders) + 1, order, Size(d)))
        BY <3>2 DEF Acked
      <3> QED
        BY <1>0, <3>1, <3>3
    <2> QED
      BY <1>1, <2>1, <2>2 DEF Send
  <1>2. ASSUME NEW d \in Placers, NEW i \in Intents, Place(d, i) PROVE ack'[c] = ack[c] \/ Acked(ack'[c])
    BY <1>0, <1>2 DEF Place, Acked
  <1>3. ASSUME NEW v \in Venues, Restart(v) PROVE ack'[c] = ack[c] \/ Acked(ack'[c])
    BY <1>3 DEF Restart, Acked
  <1> QED
    BY <1>1, <1>2, <1>3
    DEF Next, vars, FetchOK, FetchFails, FundingRates, Cancel, CancelWithSymbol, OpenOrders, Fill, Tick

\* What is acknowledged is true of the order when it is said.
LEMMA AckedTrue ==
    ASSUME TypeOK, OrdersMove, NEW a, Acked(a)
    PROVE  /\ a \in AckSet
           /\ a.status \in {"open", "filled"} => a.oid \in DOMAIN orders'
           /\ a.status = "filled" => orders'[a.oid].state = "closed" /\ a.filled = orders'[a.oid].filled
  <1>1. CASE a \in {NoAck, Rejected, Error}
    <2>1. 0 \in Nat
      OBVIOUS
    <2>2. a = Ack("none", 0, 0) \/ a = Ack("rejected", 0, 0) \/ a = Ack("error", 0, 0)
      BY <1>1 DEF NoAck, Rejected, Error
    <2>3. a \in AckSet /\ a.status \notin {"open", "filled"}
      BY <2>1, <2>2, AckTyped
    <2> QED
      BY <2>3
  <1>2. CASE ~(a \in {NoAck, Rejected, Error})
    <2> DEFINE oid == Len(orders) + 1
               o == orders'[oid]
    <2>1. PICK size : a = mapOrderStatus(oid, o, size)
      BY <1>2 DEF Acked
    <2>2. oid \in Nat /\ oid \in DOMAIN orders'
      BY <1>2, OrdersOf DEF Acked
    <2>3. o \in OrderSet
      BY <2>2, ElementOfSeq, LenProperties DEF OrdersMove
    <2>4. o.filled \in Nat /\ o.state \in {"open", "closed"}
      BY <2>3, OrderChanged
    <2>5. CASE o.state = "open"
      <3>1. a = Ack("open", oid, 0) /\ 0 \in Nat
        BY <2>1, <2>5 DEF mapOrderStatus
      <3>2. a \in AckSet /\ a.status = "open" /\ a.oid = oid
        BY <2>2, <3>1, AckTyped
      <3> QED
        BY <2>2, <3>2
    <2>6. CASE o.state = "closed"
      <3>1. a = Ack("filled", oid, o.filled)
        BY <2>1, <2>6 DEF mapOrderStatus
      <3>2. a \in AckSet /\ a.status = "filled" /\ a.oid = oid /\ a.filled = o.filled
        BY <2>2, <2>4, <3>1, AckTyped
      <3> QED
        BY <2>2, <2>6, <3>2
    <2> QED
      BY <2>4, <2>5, <2>6
  <1> QED
    BY <1>1, <1>2

\* What a step does to what a session listed: it stays, becomes what is open
\* together with a refreshed memory, or is forgotten.
LEMMA ListedMoves ==
    ASSUME TypeOK, [Next]_vars, NEW v \in Venues
    PROVE  \/ listed'[v] = listed[v]
           \/ listed'[v] = Open /\ UNCHANGED orders /\ known'[v] = Learned(v)
           \/ listed'[v] = {}
  <1>0. listed \in [Venues -> SUBSET (1 .. MaxOrders)] /\ DOMAIN known = Venues
    BY DEF TypeOK
  <1>1. ASSUME NEW c \in Cancellers, OpenOrders(c)
        PROVE  listed'[v] = listed[v] \/ (listed'[v] = Open /\ UNCHANGED orders /\ known'[v] = Learned(v))
    BY <1>0, <1>1 DEF OpenOrders
  <1>2. ASSUME NEW w \in Venues, Restart(w) PROVE listed'[v] = listed[v] \/ listed'[v] = {}
    BY <1>0, <1>2 DEF Restart
  <1> QED
    BY <1>1, <1>2
    DEF Next, vars, FetchOK, FetchFails, Send, FundingRates, Place, Cancel, CancelWithSymbol, Fill, Tick

\* A session forgets an order only when it is over, or with all it listed.
LEMMA Forgets ==
    ASSUME TypeOK, [Next]_vars, NEW v \in Venues, NEW o \in DOMAIN known[v]
    PROVE  o \in DOMAIN known'[v] \/ o \notin Open' \/ listed'[v] = {}
  <1>0. DOMAIN known = Venues /\ DOMAIN listed = Venues
    BY DEF TypeOK
  <1>1. ASSUME NEW c \in Callers, Send(c) PROVE o \in DOMAIN known'[v]
    <2>1. ASSUME NEW w, NEW oid, NEW coin, known' = rememberOrder(w, oid, coin)
          PROVE  o \in DOMAIN known'[v]
      <3>1. known'[v] = known[v] \/ DOMAIN known'[v] = DOMAIN known[v] \cup {oid}
        BY <1>0, <2>1 DEF rememberOrder
      <3> QED
        BY <3>1
    <2> QED
      BY <1>1, <2>1 DEF Send
  <1>2. ASSUME NEW w, NEW oid, NEW coin, CancelAt(w, oid, coin)
        PROVE  o \in DOMAIN known'[v] \/ o \notin Open'
    <2>1. CASE UNCHANGED known
      BY <2>1
    <2>2. CASE /\ oid \in Open /\ known' = forgetOrder(w, oid)
               /\ orders' = [orders EXCEPT ![oid] = Order(@.coin, @.cloid, @.size, @.filled, "closed")]
      <3>1. o \in DOMAIN known'[v] \/ o = oid
        BY <1>0, <2>2 DEF forgetOrder
      <3>2. orders'[oid].state = "closed"
        BY <2>2 DEF Open, Order
      <3> QED
        BY <3>1, <3>2 DEF Open
    <2> QED
      BY <1>2, <2>1, <2>2 DEF CancelAt
  <1>3. ASSUME NEW c \in Cancellers, OpenOrders(c) PROVE o \in DOMAIN known'[v]
    BY <1>0, <1>3 DEF OpenOrders, Learned
  <1>4. ASSUME NEW w \in Venues, Restart(w) PROVE o \in DOMAIN known'[v] \/ listed'[v] = {}
    BY <1>0, <1>4 DEF Restart
  <1> QED
    BY <1>1, <1>2, <1>3, <1>4
    DEF Next, vars, FetchOK, FetchFails, FundingRates, Place, Cancel, CancelWithSymbol, Fill, Tick

LEMMA ListedTypes ==
    ASSUME TypeOK, [Next]_vars
    PROVE  listed' \in [Venues -> SUBSET (1 .. MaxOrders)]
  <1>1. listed \in [Venues -> SUBSET (1 .. MaxOrders)] /\ Open \subseteq 1 .. MaxOrders
    BY OrdersOf, Bounds DEF TypeOK, Open
  <1>2. UNCHANGED listed \/ (\E w, l : l \subseteq 1 .. MaxOrders /\ listed' = [listed EXCEPT ![w] = l])
    BY <1>1
    DEF Next, vars, FetchOK, FetchFails, Send, FundingRates, Place, Cancel, CancelWithSymbol,
        OpenOrders, Fill, Tick, Restart
  <1> QED
    BY <1>1, <1>2

LEMMA AckTypes ==
    ASSUME TypeOK, [Next]_vars
    PROVE  ack' \in [Callers -> AckSet]
  <1>1. ack \in [Callers -> AckSet]
    BY DEF TypeOK
  <1>2. \A c \in Callers : ack'[c] \in AckSet
    BY <1>1, EveryStepMovesOrders, AckMoves, AckedTrue
  <1>3. UNCHANGED ack \/ (\E d, a : ack' = [ack EXCEPT ![d] = a])
        \/ (\E v \in Venues : ack' = [c \in Callers |-> IF VenueOf[c] = v THEN NoAck ELSE ack[c]])
    BY DEF Next, vars, FetchOK, FetchFails, Send, FundingRates, Place, Cancel, CancelWithSymbol,
           OpenOrders, Fill, Tick, Restart
  <1>4. ack' = [c \in Callers |-> ack'[c]]
    BY <1>1, <1>3
  <1> QED
    BY <1>2, <1>4

\* Orders keep their shape, the sessions' maps name orders that exist with
\* their coins, and what is placed is an intent (venue.go, sdk.go).
THEOREM TypeCorrect == Spec => []TypeOK
  <1>1. Init => TypeOK
    <2> SUFFICES ASSUME Init PROVE TypeOK
      OBVIOUS
    <2>1. orders \in Seq(OrderSet) /\ Len(orders) <= MaxOrders
      BY EmptySeq, Bounds DEF Init
    <2>2. NoMeta \in MetaSet
      <3>1. Old \in 0 .. Old
        BY Bounds
      <3> QED
        BY <3>1, Zenon DEF NoMeta, MetaSet
    <2>3. NoAck \in AckSet
      BY AckTyped DEF NoAck
    <2>4. CallOK(NoCall)
      BY NoIntentOK
    <2> QED
      BY <2>1, <2>2, <2>3, <2>4 DEF Init, TypeOK, CallOK
  <1>2. TypeOK /\ [Next]_vars => TypeOK'
    <2> SUFFICES ASSUME TypeOK, [Next]_vars PROVE TypeOK'
      OBVIOUS
    <2>1. OrdersMove /\ KnownMoves
      BY EveryStepMovesOrders, EveryStepMovesKnown
    <2>2. call' \in [Callers -> CallSet]
          /\ \A c \in Callers : call'[c].pc \in {"lookup", "send"} => call'[c].intent \in Intents
      BY CallTypes DEF CallOK
    <2> QED
      BY <2>1, <2>2, KnownTypes, MetaTypes, AckTypes, ListedTypes DEF TypeOK, OrdersMove
  <1> QED
    BY <1>1, <1>2, PTL DEF Spec

-----------------------------------------------------------------------------
(* Safety.                                                                   *)

\* What the cache serves was requested less than TTL + Timeout ago, for any
\* number of overlapping and failing fetches: an answer is stamped when it
\* arrives, at most one HTTP timeout after it was asked for (venue.go refreshMeta).
THEOREM CacheStaysFresh == Spec => []CacheIsFresh
  <1>1. Init => StampsAreLate
    BY Bounds DEF Init, StampsAreLate, NoMeta
  <1>2. TypeOK /\ StampsAreLate /\ [Next]_vars => StampsAreLate'
    <2> SUFFICES ASSUME TypeOK, StampsAreLate, [Next]_vars, NEW v \in Venues
                 PROVE  meta'[v].asof <= meta'[v].at + Timeout
      BY DEF StampsAreLate
    <2>1. /\ meta[v].at \in 0 .. Old /\ meta[v].asof \in 0 .. Old
          /\ meta[v].asof <= meta[v].at + Timeout
      BY MetaOf DEF TypeOK, StampsAreLate
    <2>2. CASE meta'[v] = meta[v]
      BY <2>1, <2>2
    <2>3. CASE \E age \in 0 .. Timeout : meta'[v] = [at |-> 0, asof |-> age]
      BY <2>3, Bounds
    <2>4. CASE meta'[v] = NoMeta
      BY <2>4, Bounds DEF NoMeta
    <2>5. CASE meta'[v] = [at |-> Older(meta[v].at), asof |-> Older(meta[v].asof)]
      <3>1. /\ Older(meta[v].asof) \in 0 .. Old /\ Older(meta[v].asof) <= meta[v].asof + 1
            /\ meta[v].at < Old => Older(meta[v].at) = meta[v].at + 1
            /\ meta[v].at = Old => Older(meta[v].at) = Old
        BY <2>1, OlderBounds
      <3>2. Older(meta[v].asof) <= Older(meta[v].at) + Timeout
        BY <2>1, <3>1, Bounds
      <3> QED
        BY <2>5, <3>2
    <2> QED
      BY <2>2, <2>3, <2>4, <2>5, MetaMoves
  <1>3. TypeOK /\ StampsAreLate => CacheIsFresh
    <2> SUFFICES ASSUME TypeOK, StampsAreLate, NEW v \in Venues, Cached(v)
                 PROVE  meta[v].asof < TTL + Timeout
      BY DEF CacheIsFresh
    <2>1. /\ meta[v].at \in 0 .. Old /\ meta[v].asof \in 0 .. Old
          /\ meta[v].asof <= meta[v].at + Timeout
      BY MetaOf DEF TypeOK, StampsAreLate
    <2> QED
      BY <2>1, Bounds DEF Cached
  <1> QED
    BY <1>1, <1>2, <1>3, TypeCorrect, PTL DEF Spec

\* A client id is used for one order, of no more than its intent's size,
\* whatever answers are lost and whichever process asks again: the id on the
\* wire is a function of the client id (sdk.go normaliseCloid), and the client
\* id fixes the size (pkg/types/order.go DeriveClientID).
THEOREM IntentsOnce == Spec => []OneOrderPerIntent
  <1>1. Init => OrdersAreIntents
    BY DEF Init, OrdersAreIntents
  <1>2. TypeOK /\ OrdersAreIntents /\ [Next]_vars => OrdersAreIntents'
    <2> SUFFICES ASSUME TypeOK, OrdersAreIntents, [Next]_vars PROVE OrdersAreIntents'
      OBVIOUS
    <2>1. OrdersMove
      BY EveryStepMovesOrders
    <2>2. \A k \in DOMAIN orders' :
            \E i \in Intents : orders'[k].cloid = normaliseCloid(i.cid) /\ orders'[k].size <= i.size
      BY <2>1 DEF OrdersMove, Persists, NewOrder, OrdersAreIntents
    <2>3. \A k, l \in DOMAIN orders' : orders'[k].cloid = orders'[l].cloid => k = l
      BY <2>1 DEF OrdersMove, Persists, NewOrder, OrdersAreIntents
    <2> QED
      BY <2>2, <2>3 DEF OrdersAreIntents
  <1>3. OrdersAreIntents => OneOrderPerIntent
    <2> SUFFICES ASSUME OrdersAreIntents PROVE OneOrderPerIntent
      OBVIOUS
    <2>1. ASSUME NEW k \in DOMAIN orders
          PROVE  \E i \in Intents : /\ orders[k].cloid = normaliseCloid(i.cid) /\ orders[k].cloid[1] = i.cid
                                    /\ orders[k].size <= i.size
      BY DEF OrdersAreIntents, normaliseCloid
    <2>2. \A k, l \in DOMAIN orders : orders[k].cloid[1] = orders[l].cloid[1] => k = l
      BY <2>1 DEF OrdersAreIntents
    <2>3. \A k \in DOMAIN orders : \A i \in Intents : orders[k].cloid[1] = i.cid => orders[k].size <= i.size
      BY <2>1, HyperliquidAssumption
    <2> QED
      BY <2>2, <2>3 DEF OneOrderPerIntent
  <1> QED
    BY <1>1, <1>2, <1>3, TypeCorrect, PTL DEF Spec

\* An acknowledgement stays true: "filled" names a closed order with the size it
\* filled, "open" an order that exists; a closed order does not change again
\* (sdk.go mapOrderStatus).
THEOREM AcksCorrect == Spec => []AckMatchesOrder
  <1> DEFINE IInv == AckMatchesOrder /\ AckedExists
  <1>1. Init => IInv
    BY AckTyped DEF Init, AckMatchesOrder, AckedExists, NoAck
  <1>2. TypeOK /\ IInv /\ [Next]_vars => IInv'
    <2> SUFFICES ASSUME TypeOK, IInv, [Next]_vars, NEW c \in Callers
                 PROVE  /\ ack'[c].status \in {"open", "filled"} => ack'[c].oid \in DOMAIN orders'
                        /\ ack'[c].status = "filled" =>
                              /\ orders'[ack'[c].oid].state = "closed"
                              /\ ack'[c].filled = orders'[ack'[c].oid].filled
      BY DEF AckMatchesOrder, AckedExists
    <2>1. OrdersMove
      BY EveryStepMovesOrders
    <2>2. CASE ack'[c] = ack[c]
      BY <2>1, <2>2 DEF OrdersMove, Persists, AckMatchesOrder, AckedExists
    <2>3. CASE Acked(ack'[c])
      BY <2>1, <2>3, AckedTrue
    <2> QED
      BY <2>2, <2>3, AckMoves
  <1>3. IInv => AckMatchesOrder
    OBVIOUS
  <1> QED
    BY <1>1, <1>2, <1>3, TypeCorrect, PTL DEF Spec

\* Every order that OpenOrders listed and that is still open can be cancelled
\* by its id: the memory loses an id only with the order's cancellation or with
\* the process (venue.go OpenOrders, rememberOrder, forgetOrder).
THEOREM ListedCancellable == Spec => []ListedIsCancellable
  <1> DEFINE IInv == ListedIsCancellable /\ ListedExist
  <1>1. Init => IInv
    BY DEF Init, ListedIsCancellable, ListedExist
  <1>2. TypeOK /\ IInv /\ [Next]_vars => IInv'
    <2> SUFFICES ASSUME TypeOK, IInv, [Next]_vars, NEW v \in Venues
                 PROVE  listed'[v] \cap Open' \subseteq DOMAIN known'[v] /\ listed'[v] \subseteq DOMAIN orders'
      BY DEF ListedIsCancellable, ListedExist
    <2>1. OrdersMove
      BY EveryStepMovesOrders
    <2>2. \A k \in DOMAIN orders : k \in Open' => k \in Open
      BY <2>1 DEF OrdersMove, Persists, Open
    <2>3. CASE listed'[v] = listed[v]
      <3>1. \A o \in DOMAIN known[v] : o \in DOMAIN known'[v] \/ o \notin Open' \/ listed'[v] = {}
        BY Forgets
      <3> QED
        BY <2>1, <2>2, <2>3, <3>1 DEF OrdersMove, Persists, ListedIsCancellable, ListedExist
    <2>4. CASE listed'[v] = Open /\ UNCHANGED orders /\ known'[v] = Learned(v)
      BY <2>4 DEF Learned, Open
    <2>5. CASE listed'[v] = {}
      BY <2>5
    <2> QED
      BY <2>3, <2>4, <2>5, ListedMoves
  <1>3. IInv => ListedIsCancellable
    OBVIOUS
  <1> QED
    BY <1>1, <1>2, <1>3, TypeCorrect, PTL DEF Spec

-----------------------------------------------------------------------------
(* The WebSocket stream.                                                     *)

LEMMA FieldsOf ==
    ASSUME NEW w \in WSSet
    PROVE  /\ w.pc \in {"none", "error", "top", "read", "send", "closed"} /\ w.frames \in 0 .. MaxFrames
           /\ w.sock \in Seq(FrameSet) /\ w.held \in 0 .. MaxFrames /\ w.seen \in Seq(Numbers)
           /\ w.buf \in Seq(Numbers) /\ w.got \in Seq(Numbers)
  BY Zenon DEF WSSet

\* What is delivered and what is waiting, in order.
Flow(w) == w.got \o w.buf

\* The state a step may leave, for the two variables that NothingIsLost is about.
StreamOK(w) ==
    /\ w \in WSSet /\ (w.pc = "send" => w.held \in Numbers)
    /\ w.pc = "send" => w.seen = Flow(w) \o <<w.held>>
    /\ w.pc = "closed" => \E rest \in {<<>>} \cup {<<n>> : n \in Numbers} : w.seen = Flow(w) \o rest
    /\ w.pc \notin {"send", "closed"} => w.seen = Flow(w)
    /\ Len(w.buf) <= Cap

LEMMA StreamOKIs == StreamOK(ws) <=> StreamTypeOK /\ HeldIsMissing
  BY DEF StreamOK, StreamTypeOK, HeldIsMissing, Flow

\* Steps that change no event.
SameEvents(w, v) == v.seen = w.seen /\ v.buf = w.buf /\ v.got = w.got /\ v.held = w.held

LEMMA NoEvent ==
    ASSUME NEW w, NEW v \in WSSet, StreamOK(w), SameEvents(w, v),
           \/ v.pc = w.pc
           \/ w.pc \notin {"send", "closed"} /\ v.pc \notin {"send", "closed"}
           \/ w.pc \notin {"send", "closed"} /\ v.pc = "closed"
    PROVE  StreamOK(v)
  <1>1. Flow(v) = Flow(w)
    BY DEF SameEvents, Flow
  <1>2. CASE v.pc = w.pc \/ (w.pc \notin {"send", "closed"} /\ v.pc \notin {"send", "closed"})
    BY <1>1, <1>2 DEF StreamOK, SameEvents
  <1>3. CASE w.pc \notin {"send", "closed"} /\ v.pc = "closed"
    <2>1. Flow(w) \in Seq(Numbers)
      BY FieldsOf, ConcatProperties DEF StreamOK, Flow
    <2>2. v.seen = Flow(v) \o <<>>
      BY <1>1, <1>3, <2>1, ConcatEmptySeq DEF StreamOK, SameEvents
    <2> QED
      BY <1>1, <1>3, <2>2 DEF StreamOK, SameEvents
  <1> QED
    BY <1>2, <1>3

LEMMA SubscribeOK ==
    ASSUME StreamOK(ws), Subscribe
    PROVE  StreamOK(ws')
  <1>1. ws \in WSSet /\ ws.pc = "none"
    BY DEF StreamOK, Subscribe
  <1>2. CASE ws' = [ws EXCEPT !.pc = "top", !.pings = TRUE]
    <2>1. ws' \in WSSet /\ ws'.pc = "top" /\ SameEvents(ws, ws')
      BY <1>1, <1>2, Zenon DEF WSSet, SameEvents
    <2> QED
      BY <1>1, <2>1, NoEvent
  <1>3. CASE ws' = [ws EXCEPT !.pc = "error"]
    <2>1. ws' \in WSSet /\ ws'.pc = "error" /\ SameEvents(ws, ws')
      BY <1>1, <1>3, Zenon DEF WSSet, SameEvents
    <2> QED
      BY <1>1, <2>1, NoEvent
  <1> QED
    BY <1>2, <1>3 DEF Subscribe

LEMMA ArriveOK ==
    ASSUME StreamOK(ws), Arrive
    PROVE  StreamOK(ws')
  <1>1. ws \in WSSet /\ ws.frames < MaxFrames /\ MaxFrames \in Nat
    BY StreamsAssumption DEF StreamOK, Arrive
  <1>2. PICK ch \in Channels :
          ws' = [ws EXCEPT !.frames = @ + 1, !.sock = Append(@, [n |-> ws.frames + 1, channel |-> ch])]
    BY DEF Arrive
  <1>3. ws.frames + 1 \in 1 .. MaxFrames /\ ws.frames + 1 \in 0 .. MaxFrames
    BY <1>1, FieldsOf
  <1>4. [n |-> ws.frames + 1, channel |-> ch] \in FrameSet
    BY <1>3 DEF FrameSet
  <1>5. Append(ws.sock, [n |-> ws.frames + 1, channel |-> ch]) \in Seq(FrameSet)
    BY <1>1, <1>4, FieldsOf, AppendProperties
  <1>6. ws' \in WSSet /\ ws'.pc = ws.pc /\ SameEvents(ws, ws')
    BY <1>1, <1>2, <1>3, <1>5, Zenon DEF WSSet, SameEvents
  <1> QED
    BY <1>6, NoEvent

LEMMA LoopOK ==
    ASSUME StreamOK(ws), LoopTop \/ ReadError \/ PingLoopEnds
    PROVE  StreamOK(ws')
  <1>1. ws \in WSSet
    BY DEF StreamOK
  <1>2. CASE PingLoopEnds
    <2>1. ws' \in WSSet /\ ws'.pc = ws.pc /\ SameEvents(ws, ws')
      BY <1>1, <1>2, Zenon DEF WSSet, SameEvents, PingLoopEnds
    <2> QED
      BY <2>1, NoEvent
  <1>3. CASE LoopTop \/ ReadError
    <2>1. ws' = [ws EXCEPT !.pc = "closed"] \/ ws' = [ws EXCEPT !.pc = "read"]
      BY <1>3 DEF LoopTop, ReadError
    <2>2. ws.pc \in {"top", "read"}
      BY <1>3 DEF LoopTop, ReadError, ReadFails
    <2>3. ws' \in WSSet /\ ws'.pc \in {"read", "closed"} /\ SameEvents(ws, ws')
      BY <1>1, <2>1, Zenon DEF WSSet, SameEvents
    <2> QED
      BY <2>2, <2>3, NoEvent
  <1> QED
    BY <1>2, <1>3

\* A frame is taken off the socket: skipped, or held as the next event.
LEMMA ReadOK ==
    ASSUME StreamOK(ws), Read
    PROVE  StreamOK(ws')
  <1> DEFINE n == Head(ws.sock).n
  <1>1. ws \in WSSet /\ ws.pc = "read" /\ ws.sock \in Seq(FrameSet) /\ ws.sock # <<>>
    BY FieldsOf DEF StreamOK, Read
  <1>2. Tail(ws.sock) \in Seq(FrameSet) /\ Head(ws.sock) \in FrameSet
    BY <1>1, HeadTailProperties
  <1>3. n \in Numbers /\ n \in 0 .. MaxFrames
    <2>1. n \in 1 .. MaxFrames
      BY <1>2, Zenon DEF FrameSet
    <2> QED
      BY <2>1, StreamsAssumption DEF Numbers
  <1>4. CASE ws' = [ws EXCEPT !.sock = Tail(@), !.pc = "top"]
    <2>1. ws' \in WSSet /\ ws'.pc = "top" /\ SameEvents(ws, ws')
      BY <1>1, <1>2, <1>4, Zenon DEF WSSet, SameEvents
    <2> QED
      BY <1>1, <2>1, NoEvent
  <1>5. CASE ws' = [ws EXCEPT !.sock = Tail(@), !.pc = "send", !.held = n, !.seen = Append(@, n)]
    <2>1. Append(ws.seen, n) \in Seq(Numbers) /\ Append(ws.seen, n) = ws.seen \o <<n>>
      <3>1. ws.seen \in Seq(Numbers)
        BY <1>1, FieldsOf
      <3> HIDE DEF n
      <3> QED
        BY <1>3, <3>1, AppendProperties, AppendIsConcat
    <2>2. /\ ws' \in WSSet /\ ws'.pc = "send" /\ ws'.held = n /\ ws'.seen = Append(ws.seen, n)
          /\ ws'.buf = ws.buf /\ ws'.got = ws.got
      BY <1>1, <1>2, <1>3, <1>5, <2>1, Zenon DEF WSSet
    <2>3. ws.seen = Flow(ws) /\ Flow(ws') = Flow(ws) /\ Len(ws.buf) <= Cap
      BY <1>1, <2>2 DEF StreamOK, Flow
    <2> HIDE DEF n
    <2> QED
      BY <1>3, <2>1, <2>2, <2>3 DEF StreamOK
  <1> QED
    BY <1>4, <1>5 DEF Read

\* An event that enters the channel, and one that leaves it, keep the order.
LEMMA Enters ==
    ASSUME NEW g \in Seq(Numbers), NEW b \in Seq(Numbers), NEW e \in Numbers
    PROVE  g \o Append(b, e) = (g \o b) \o <<e>>
  <1>1. <<e>> \in Seq(Numbers) /\ Append(b, e) = b \o <<e>>
    BY AppendIsConcat
  <1> QED
    BY <1>1, ConcatAssociative

LEMMA Leaves ==
    ASSUME NEW g \in Seq(Numbers), NEW b \in Seq(Numbers), b # <<>>
    PROVE  Append(g, Head(b)) \o Tail(b) = g \o b
  <1>1. Head(b) \in Numbers /\ Tail(b) \in Seq(Numbers)
    BY HeadTailProperties
  <1>2. <<Head(b)>> \in Seq(Numbers) /\ Append(g, Head(b)) = g \o <<Head(b)>>
    BY <1>1, AppendIsConcat
  <1>3. <<Head(b)>> \o Tail(b) = b
    <2>1. 1 \in 1 .. Len(b) /\ Len(b) \in 1 .. Len(b)
      BY EmptySeq
    <2>2. /\ SubSeq(b, 1, Len(b)) = <<b[1]>> \o SubSeq(b, 2, Len(b))
          /\ SubSeq(b, 1, Len(b)) = b /\ Tail(b) = SubSeq(b, 2, Len(b))
      BY <2>1, SubSeqRecursiveFirst, SubSeqFull, TailIsSubSeq
    <2>3. Head(b) = b[1]
      OBVIOUS
    <2> QED
      BY <2>2, <2>3
  <1>4. (g \o <<Head(b)>>) \o Tail(b) = g \o (<<Head(b)>> \o Tail(b))
    BY <1>1, <1>2, ConcatAssociative
  <1> QED
    BY <1>2, <1>3, <1>4

\* The held event goes into the channel, or is the one that the end loses.
LEMMA SendEventOK ==
    ASSUME StreamOK(ws), SendEvent
    PROVE  StreamOK(ws')
  <1>1. /\ ws \in WSSet /\ ws.pc = "send" /\ ws.held \in Numbers /\ ws.seen = Flow(ws) \o <<ws.held>>
        /\ ws.buf \in Seq(Numbers) /\ ws.got \in Seq(Numbers) /\ Len(ws.buf) <= Cap
    BY FieldsOf DEF StreamOK, SendEvent
  <1>2. 0 \in 0 .. MaxFrames /\ Cap \in Nat
    BY StreamsAssumption
  <1>3. CASE Deliver
    <2>1. /\ Append(ws.buf, ws.held) \in Seq(Numbers) /\ Append(ws.buf, ws.held) = ws.buf \o <<ws.held>>
          /\ Len(Append(ws.buf, ws.held)) = Len(ws.buf) + 1 /\ Len(ws.buf) \in Nat
          /\ <<ws.held>> \in Seq(Numbers)
      BY <1>1, AppendProperties, AppendIsConcat, LenProperties
    <2>2. /\ ws' \in WSSet /\ ws'.pc = "top" /\ ws'.buf = Append(ws.buf, ws.held) /\ ws'.got = ws.got
          /\ ws'.seen = ws.seen
      BY <1>1, <1>2, <1>3, <2>1, Zenon DEF Deliver, WSSet
    <2>3. Flow(ws') = Flow(ws) \o <<ws.held>>
      BY <1>1, <2>2, Enters DEF Flow
    <2>4. Len(ws'.buf) <= Cap
      BY <1>2, <1>3, <2>1, <2>2 DEF Deliver
    <2> QED
      BY <1>1, <2>2, <2>3, <2>4 DEF StreamOK
  <1>4. CASE ws' = [ws EXCEPT !.pc = "closed", !.held = 0]
    <2>1. /\ ws' \in WSSet /\ ws'.pc = "closed" /\ ws'.buf = ws.buf /\ ws'.got = ws.got /\ ws'.seen = ws.seen
      BY <1>1, <1>2, <1>4, Zenon DEF WSSet
    <2>2. Flow(ws') = Flow(ws)
      BY <2>1 DEF Flow
    <2> QED
      BY <1>1, <2>1, <2>2 DEF StreamOK
  <1> QED
    BY <1>3, <1>4 DEF SendEvent

\* Taking an event from the channel moves it, and nothing else.
LEMMA ReceiveOK ==
    ASSUME StreamOK(ws), ReceiveWS
    PROVE  StreamOK(ws')
  <1>1. ws \in WSSet /\ ws.buf \in Seq(Numbers) /\ ws.got \in Seq(Numbers) /\ ws.buf # <<>> /\ Len(ws.buf) <= Cap
    BY FieldsOf DEF StreamOK, ReceiveWS
  <1>2. /\ Head(ws.buf) \in Numbers /\ Tail(ws.buf) \in Seq(Numbers)
        /\ Len(Tail(ws.buf)) = Len(ws.buf) - 1 /\ Len(ws.buf) \in Nat
        /\ <<Head(ws.buf)>> \in Seq(Numbers)
    BY <1>1, HeadTailProperties, LenProperties
  <1>3. Append(ws.got, Head(ws.buf)) \in Seq(Numbers)
        /\ Append(ws.got, Head(ws.buf)) = ws.got \o <<Head(ws.buf)>>
    BY <1>1, <1>2, AppendProperties, AppendIsConcat
  <1>4. /\ ws' \in WSSet /\ ws'.pc = ws.pc /\ ws'.held = ws.held /\ ws'.seen = ws.seen
        /\ ws'.buf = Tail(ws.buf) /\ ws'.got = Append(ws.got, Head(ws.buf))
    BY <1>1, <1>2, <1>3, Zenon DEF ReceiveWS, WSSet
  <1>5. Flow(ws') = Flow(ws)
    BY <1>1, <1>4, Leaves DEF Flow
  <1>6. Cap \in Nat
    BY StreamsAssumption
  <1>7. Len(ws'.buf) <= Cap
    BY <1>1, <1>2, <1>4, <1>6
  <1> QED
    BY <1>4, <1>5, <1>7 DEF StreamOK

\* A sequence is a prefix of what it was extended to.
LEMMA PrefixOfConcat ==
    ASSUME NEW S, NEW s \in Seq(S), NEW t \in Seq(S)
    PROVE  IsPrefix(s, s \o t) /\ Len(s \o t) - Len(s) = Len(t)
  <1>1. /\ s \o t \in Seq(S) /\ Len(s \o t) = Len(s) + Len(t) /\ Len(s) \in Nat /\ Len(t) \in Nat
    BY ConcatProperties, LenProperties
  <1>2. SubSeq(s, 1, Len(s)) = SubSeq(s \o t, 1, Len(s))
    <2>1. CASE Len(s) = 0
      BY <2>1, SubSeqEmpty
    <2>2. CASE Len(s) # 0
      BY <1>1, <2>2, SubSeqOfConcat1
    <2> QED
      BY <2>1, <2>2
  <1> QED
    BY <1>1, <1>2 DEF IsPrefix

\* Nothing of the WebSocket stream is lost or reordered, for any capacity of
\* the channel, any frames and however slow the consumer: the reader blocks
\* with one event, and only the end of the stream can lose that one (ws.go).
THEOREM NothingLost == StreamSpec => []NothingIsLost
  <1>1. StreamInit => StreamOK(ws)
    <2> SUFFICES ASSUME StreamInit PROVE StreamOK(ws)
      OBVIOUS
    <2>1. 0 \in 0 .. MaxFrames /\ Cap \in Nat
      BY StreamsAssumption
    <2>2. <<>> \in Seq(FrameSet) /\ <<>> \in Seq(Numbers) /\ Len(<<>>) = 0
      BY EmptySeq
    <2>3. /\ ws \in WSSet /\ ws.pc = "none" /\ ws.seen = <<>> /\ ws.buf = <<>> /\ ws.got = <<>>
      BY <2>1, <2>2, Zenon DEF StreamInit, WSSet
    <2>4. <<>> \o <<>> = <<>>
      BY <2>2, ConcatEmptySeq
    <2> QED
      BY <2>1, <2>2, <2>3, <2>4 DEF StreamOK, Flow
  <1>2. StreamOK(ws) /\ [StreamNext]_streamVars => StreamOK(ws)'
    <2> SUFFICES ASSUME StreamOK(ws), [StreamNext]_streamVars PROVE StreamOK(ws')
      OBVIOUS
    <2>1. CASE UNCHANGED ws
      BY <2>1
    <2>2. CASE WSStep
      BY <2>2, LoopOK, ReadOK, SendEventOK DEF WSStep
    <2> QED
      BY <2>1, <2>2, SubscribeOK, ArriveOK, ReceiveOK
      DEF StreamNext, streamVars, CancelContext, SubscribeFeed, FeedStep, PollStart, PollSubnet,
          PollEnds, FeedWaits, ReceiveFeed, ListSubnets, ListStep, FeedHangs, ListHangs
  <1>3. StreamOK(ws) => NothingIsLost
    <2> SUFFICES ASSUME StreamOK(ws) PROVE NothingIsLost
      OBVIOUS
    <2>1. Flow(ws) \in Seq(Numbers) /\ ws.pc \in {"none", "error", "top", "read", "send", "closed"}
      BY FieldsOf, ConcatProperties DEF StreamOK, Flow
    <2>2. PICK rest \in {<<>>} \cup {<<n>> : n \in Numbers} :
            /\ ws.seen = Flow(ws) \o rest
            /\ ws.pc \notin {"send", "closed"} => rest = <<>>
      <3>1. CASE ws.pc = "send"
        BY <3>1 DEF StreamOK
      <3>2. CASE ws.pc = "closed"
        BY <3>2 DEF StreamOK
      <3>3. CASE ws.pc \notin {"send", "closed"}
        BY <2>1, <3>3, ConcatEmptySeq DEF StreamOK
      <3> QED
        BY <3>1, <3>2, <3>3
    <2>3. /\ rest \in Seq(Numbers) /\ Len(rest) \in {0, 1}
          /\ rest = <<>> => Len(rest) = 0
      <3>1. CASE rest = <<>>
        BY <3>1, EmptySeq
      <3>2. ASSUME NEW n \in Numbers, rest = <<n>>
            PROVE  rest \in Seq(Numbers) /\ Len(rest) = 1 /\ rest # <<>>
        BY <3>2
      <3> QED
        BY <2>2, <3>1, <3>2
    <2>4. IsPrefix(Flow(ws), ws.seen) /\ Len(ws.seen) - Len(Flow(ws)) = Len(rest)
      BY <2>1, <2>2, <2>3, PrefixOfConcat
    <2> QED
      <3>1. /\ IsPrefix(ws.got \o ws.buf, ws.seen) /\ Len(ws.buf) <= Cap
            /\ Len(ws.seen) - Len(ws.got \o ws.buf) = Len(rest)
        BY <2>4 DEF StreamOK, Flow
      <3>2. Len(rest) <= (IF ws.pc \in {"send", "closed"} THEN 1 ELSE 0)
        BY <2>2, <2>3
      <3> QED
        BY <3>1, <3>2 DEF NothingIsLost
  <1> QED
    BY <1>1, <1>2, <1>3, PTL DEF StreamSpec
=============================================================================
