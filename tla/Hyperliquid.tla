---------------------------- MODULE Hyperliquid ----------------------------
(***************************************************************************)
(* The Hyperliquid venue adapter: placing and cancelling orders through the*)
(* SDK, the session's memory of which coin an order belongs to, and the    *)
(* cached metadata that serves funding rates and size precision.  Several  *)
(* processes (the daemon, the kill switch on the command line) hold a Venue*)
(* on the same account, and several goroutines may use one Venue.  The     *)
(* exchange is external and modelled from the answers the adapter handles. *)
(*                                                                         *)
(* Sizes are counted in fractions of the venue's size step Lot.            *)
(***************************************************************************)
EXTENDS Integers, Sequences, FiniteSets

CONSTANTS
    Venues,      \* Venue instances: one per process
    Callers,     \* goroutines that use them
    VenueOf,     \* the Venue each caller uses
    Placers, Watchers, Cancellers,   \* callers that place, read rates, cancel
    Signed,      \* the venues that were given a HyperliquidSigner
    Coins, Universe,   \* coins that are asked for; the ones the venue lists
    Intents,     \* order intents: records [coin, size, tif, cid]
    Lot,         \* the venue's size step
    TTL,         \* age at which cached metadata is fetched again: 30 s
    Timeout,     \* the HTTP client's timeout: 15 s
    MaxOrders    \* bound: orders the exchange ever accepts

ASSUME HyperliquidAssumption ==
    /\ VenueOf \in [Callers -> Venues] /\ Signed \subseteq Venues /\ Universe \subseteq Coins
    /\ Placers \cup Watchers \cup Cancellers \subseteq Callers
    /\ Intents \subseteq [coin : Coins, size : Nat, tif : {"gtc", "alo", "ioc", "fok"}, cid : Nat]
    /\ \A i, j \in Intents : i.cid = j.cid => i.coin = j.coin /\ i.size = j.size
    /\ Lot \in Nat \ {0} /\ TTL \in Nat \ {0} /\ Timeout \in Nat \ {0}
    /\ MaxOrders \in Nat

VARIABLES
    orders,    \* external: every order the exchange accepted; its index is the oid
    known,     \* Venue.orderSym: oid to coin, in memory
    meta,      \* Venue.metaAt and the request of the snapshot it stamps, as ages
    listed,    \* history: the oids the last OpenOrders of a venue returned
    call,      \* the call each caller is making
    ack        \* the last OrderAck each caller got

vars == <<orders, known, meta, listed, call, ack>>


\* Times are ages, counted until they make no difference any more.
Old == TTL + Timeout

NoMeta == [at |-> Old, asof |-> Old]
Ack(status, oid, filled) == [status |-> status, oid |-> oid, filled |-> filled]

NoAck == Ack("none", 0, 0)
NoIntent == [coin |-> "none", size |-> 0, tif |-> "none", cid |-> 0]

\* What a caller is doing: the intent of a Place, the age of its fetch, and the
\* step its size is rounded down to (1: it is sent as it is).
Call(pc, intent, age, unit) == [pc |-> pc, intent |-> intent, age |-> age, unit |-> unit]

NoCall == Call("idle", NoIntent, 0, 1)

Init ==
    /\ orders = <<>>
    /\ known = [v \in Venues |-> <<>>]
    /\ meta = [v \in Venues |-> NoMeta]
    /\ listed = [v \in Venues |-> {}]
    /\ call = [c \in Callers |-> NoCall]
    /\ ack = [c \in Callers |-> NoAck]

---------------------------------------------------------------------------
(* The metadata cache.                                                     *)

\* refreshMeta finds a snapshot younger than 30 s.
Cached(v) == meta[v].at < TTL

\* FundingRates: from the cache, or after a fetch.
FundingRates(c) ==
    /\ call[c].pc = "idle"
    /\ ~Cached(VenueOf[c])
    /\ call' = [call EXCEPT ![c] = Call("rates", NoIntent, 0, 1)]
    /\ UNCHANGED <<orders, known, meta, listed, ack>>

\* The coins FundingRates reports for the symbols asked: all of them for none.
Rates(symbols) == {coin \in Universe : symbols = {} \/ coin \in symbols}

\* What follows the size lookup of a Place: the order is sent, rounded down
\* only if the lookup found the coin.
Sending(i, found) == Call("send", i, 0, IF found /\ i.coin \in Rates({}) THEN Lot ELSE 1)

AfterFetch(c, found) == IF call[c].pc = "rates" THEN NoCall ELSE Sending(call[c].intent, found)

Fetching(c) == call[c].pc \in {"rates", "lookup"}

\* The answer replaces the snapshot and its index together, whatever another
\* caller stored meanwhile, and is stamped with the time it arrived.
FetchOK(c) ==
    /\ Fetching(c)
    /\ meta' = [meta EXCEPT ![VenueOf[c]] = [at |-> 0, asof |-> call[c].age]]
    /\ call' = [call EXCEPT ![c] = AfterFetch(c, TRUE)]
    /\ UNCHANGED <<orders, known, listed, ack>>

\* Mutant of Kept: a failed fetch stamps the old snapshot anew.
Restamped(v) == IF meta[v] = NoMeta THEN NoMeta ELSE [meta[v] EXCEPT !.at = 0]

\* A failed fetch leaves the cache as it was.
Kept(v) == meta[v]

FetchFails(c) ==
    /\ Fetching(c)
    /\ meta' = [meta EXCEPT ![VenueOf[c]] = Kept(VenueOf[c])]
    /\ call' = [call EXCEPT ![c] = AfterFetch(c, FALSE)]
    /\ UNCHANGED <<orders, known, listed, ack>>

Older(age) == IF age < Old THEN age + 1 ELSE age

\* A fetch does not outlive the HTTP client's timeout.
MayWait(c) == Fetching(c) => call[c].age < Timeout

\* Time passes.
Tick ==
    /\ \A c \in Callers : MayWait(c)
    /\ call' = [c \in Callers |-> IF Fetching(c) THEN Call(call[c].pc, call[c].intent, call[c].age + 1, 1)
                                   ELSE call[c]]
    /\ meta' = [v \in Venues |-> [at |-> Older(meta[v].at), asof |-> Older(meta[v].asof)]]
    /\ UNCHANGED <<orders, known, listed, ack>>

---------------------------------------------------------------------------
(* Placing an order.                                                       *)

\* Venue.Place: refused without a signer; the size lookup may need a fetch.
Place(c, i) ==
    /\ call[c].pc = "idle"
    /\ VenueOf[c] \in Signed
    /\ call' = [call EXCEPT ![c] =
                   IF Cached(VenueOf[c])
                   THEN Sending(i, TRUE) ELSE Call("lookup", i, 0, 1)]
    /\ ack' = [ack EXCEPT ![c] = NoAck]
    /\ UNCHANGED <<orders, known, meta, listed>>

Truncate(size, unit) == (size \div unit) * unit

Size(c) == Truncate(call[c].intent.size, call[c].unit)

\* mapTIF: fill-or-kill becomes immediate-or-cancel.
mapTIF(tif) == IF tif = "fok" THEN "ioc" ELSE tif

\* Mutant of normaliseCloid: a different id for every attempt.
SaltedCloid(cid) == <<cid, Len(orders)>>

\* normaliseCloid: a hash, a function of the client id alone.
normaliseCloid(cid) == <<cid>>

\* External: the exchange refuses a coin it does not list, a size off its step
\* and a used client id.
Refused(c) ==
    \/ call[c].intent.coin \notin Universe
    \/ Size(c) % Lot # 0
    \/ \E k \in DOMAIN orders : orders[k].cloid = normaliseCloid(call[c].intent.cid)

\* External: an accepted order, filled at once up to some multiple of the
\* step.  What an immediate-or-cancel order does not fill is cancelled, and
\* one that fills nothing is an error; a post-only order only rests.
Order(coin, cloid, size, filled, state) ==
    [coin |-> coin, cloid |-> cloid, size |-> size, filled |-> filled, state |-> state]

Fills(tif, size) ==
    {f \in 0 .. size : /\ f % Lot = 0
                       /\ tif = "ioc" => f # 0
                       /\ tif = "alo" => f = 0}

Accepted(c) ==
    LET i == call[c].intent
        tif == mapTIF(i.tif)
    IN  {Order(i.coin, normaliseCloid(i.cid), Size(c), f,
               IF f < Size(c) /\ tif # "ioc" THEN "open" ELSE "closed") : f \in Fills(tif, Size(c))}

\* Mutant of mapOrderStatus: a fill is taken for the whole order.
AckInFull(oid, order, size) ==
    IF order.state = "open" THEN Ack("open", oid, 0)
    ELSE Ack("filled", oid, size)

\* mapOrderStatus: a resting order is open with nothing filled, any fill of a
\* closed one is "filled" with the size the exchange reports.
mapOrderStatus(oid, order, size) ==
    IF order.state = "open" THEN Ack("open", oid, 0)
    ELSE Ack("filled", oid, order.filled)

Rejected == Ack("rejected", 0, 0)
Error == Ack("error", 0, 0)

rememberOrder(v, oid, coin) ==
    [known EXCEPT ![v] = [o \in DOMAIN @ \cup {oid} |-> IF o = oid THEN coin ELSE @[o]]]

\* The SDK sends the order: refused sizes and transport errors leave nothing
\* behind, a lost answer leaves an order nobody remembers.
Send(c) ==
    LET oid == Len(orders) + 1
        v == VenueOf[c]
    IN  /\ call[c].pc = "send"
        /\ \/ /\ Size(c) > 0 /\ ~Refused(c) /\ oid <= MaxOrders
              /\ \E order \in Accepted(c) :
                    /\ orders' = Append(orders, order)
                    /\ \/ /\ ack' = [ack EXCEPT ![c] = mapOrderStatus(oid, order, Size(c))]
                          /\ known' = rememberOrder(v, oid, order.coin)
                       \/ ack' = [ack EXCEPT ![c] = Error] /\ UNCHANGED known
           \/ /\ Size(c) > 0
              /\ ack' = [ack EXCEPT ![c] = Rejected]
              /\ UNCHANGED <<orders, known>>
           \/ /\ ack' = [ack EXCEPT ![c] = Error]
              /\ UNCHANGED <<orders, known>>
        /\ call' = [call EXCEPT ![c] = NoCall]
        /\ UNCHANGED <<meta, listed>>

---------------------------------------------------------------------------
(* Cancelling, listing, and what happens outside.                          *)

Open == {oid \in DOMAIN orders : orders[oid].state = "open"}

forgetOrder(v, oid) == [known EXCEPT ![v] = [o \in DOMAIN @ \ {oid} |-> @[o]]]

\* The SDK cancels with an oid and a coin: only an open order of that coin is
\* cancelled, anything else is an error and the memory is kept.
CancelAt(v, oid, coin) ==
    \/ /\ oid \in Open /\ orders[oid].coin = coin
       /\ orders' = [orders EXCEPT ![oid] = Order(@.coin, @.cloid, @.size, @.filled, "closed")]
       /\ known' = forgetOrder(v, oid)
    \/ UNCHANGED <<orders, known>>

\* Venue.Cancel: only an order this session knows.
Cancel(c) ==
    /\ call[c].pc = "idle" /\ VenueOf[c] \in Signed
    /\ \E oid \in DOMAIN known[VenueOf[c]] : CancelAt(VenueOf[c], oid, known[VenueOf[c]][oid])
    /\ UNCHANGED <<meta, listed, call, ack>>

\* Venue.CancelWithSymbol: an order whose coin the caller supplies.
CancelWithSymbol(c) ==
    /\ call[c].pc = "idle" /\ VenueOf[c] \in Signed
    /\ \E oid \in DOMAIN orders, coin \in Coins : CancelAt(VenueOf[c], oid, coin)
    /\ UNCHANGED <<meta, listed, call, ack>>

\* Mutant of Learned: OpenOrders does not refresh the session's map.
NotLearned(v) == known[v]

\* The map after OpenOrders: every open order with its coin.
Learned(v) ==
    [o \in Open \cup DOMAIN known[v] |-> IF o \in Open THEN orders[o].coin ELSE known[v][o]]

\* Venue.OpenOrders.
OpenOrders(c) ==
    /\ call[c].pc = "idle"
    /\ listed' = [listed EXCEPT ![VenueOf[c]] = Open]
    /\ known' = [known EXCEPT ![VenueOf[c]] = Learned(VenueOf[c])]
    /\ UNCHANGED <<orders, meta, call, ack>>

\* External: a resting order is filled by one step.
Fill ==
    \E oid \in Open :
        /\ orders' = [orders EXCEPT ![oid] =
                          Order(@.coin, @.cloid, @.size, @.filled + Lot,
                                IF @.filled + Lot < @.size THEN "open" ELSE "closed")]
        /\ UNCHANGED <<known, meta, listed, call, ack>>

\* The process of a venue restarts: its memory is gone.
Restart(v) ==
    /\ known' = [known EXCEPT ![v] = <<>>]
    /\ meta' = [meta EXCEPT ![v] = NoMeta]
    /\ listed' = [listed EXCEPT ![v] = {}]
    /\ call' = [c \in Callers |-> IF VenueOf[c] = v THEN NoCall ELSE call[c]]
    /\ ack' = [c \in Callers |-> IF VenueOf[c] = v THEN NoAck ELSE ack[c]]
    /\ UNCHANGED <<orders>>

Next ==
    \/ \E c \in Callers : FetchOK(c) \/ FetchFails(c) \/ Send(c)
    \/ \E c \in Watchers : FundingRates(c)
    \/ \E c \in Placers, i \in Intents : Place(c, i)
    \/ \E c \in Cancellers : Cancel(c) \/ CancelWithSymbol(c) \/ OpenOrders(c)
    \/ Tick \/ Fill \/ \E v \in Venues : Restart(v)

Spec == Init /\ [][Next]_vars

---------------------------------------------------------------------------
CallSet == [pc : {"idle", "rates", "lookup", "send"}, intent : Intents \cup {NoIntent},
            age : 0 .. Timeout, unit : {1, Lot}]

OrderSet == [coin : Coins, cloid : {normaliseCloid(i.cid) : i \in Intents}, size : Nat, filled : Nat,
             state : {"open", "closed"}]

MetaSet == [at : 0 .. Old, asof : 0 .. Old]

AckSet == [status : {"none", "open", "filled", "rejected", "error"}, oid : Nat, filled : Nat]

\* Types: the session maps name orders that exist with the coin they are for,
\* and what is being placed is an intent.
TypeOK ==
    /\ orders \in Seq(OrderSet) /\ Len(orders) <= MaxOrders
    /\ meta \in [Venues -> MetaSet] /\ call \in [Callers -> CallSet] /\ ack \in [Callers -> AckSet]
    /\ DOMAIN known = Venues /\ listed \in [Venues -> SUBSET (1 .. MaxOrders)]
    /\ \A c \in Callers : call[c].pc \in {"lookup", "send"} => call[c].intent \in Intents
    /\ \A v \in Venues : \A o \in DOMAIN known[v] : o \in DOMAIN orders /\ known[v][o] = orders[o].coin

\* A second Place of one intent never makes a second order, although the
\* answer to the first may be lost and the callers are different processes.
OneOrderPerIntent ==
    /\ \A k, l \in DOMAIN orders : orders[k].cloid[1] = orders[l].cloid[1] => k = l
    /\ \A k \in DOMAIN orders : \A i \in Intents : orders[k].cloid[1] = i.cid => orders[k].size <= i.size

\* An acknowledgement says what the exchange did: "filled" names an order that
\* is over and the size it filled, partial fills of immediate-or-cancel
\* orders included; "open" names an order that was left to rest.
AckMatchesOrder ==
    \A c \in Callers :
        /\ ack[c].status = "filled" =>
              orders[ack[c].oid].state = "closed" /\ ack[c].filled = orders[ack[c].oid].filled
        /\ ack[c].status = "open" => ack[c].oid \in DOMAIN orders

\* Its inductive form: an acknowledged order exists.
AckedExists == \A c \in Callers : ack[c].status \in {"open", "filled"} => ack[c].oid \in DOMAIN orders

\* The inductive form of OneOrderPerIntent: every order is that of an intent,
\* rounded down, and no two have one client id.
OrdersAreIntents ==
    /\ \A k \in DOMAIN orders : \E i \in Intents : orders[k].cloid = normaliseCloid(i.cid) /\ orders[k].size <= i.size
    /\ \A k, l \in DOMAIN orders : orders[k].cloid = orders[l].cloid => k = l

\* After OpenOrders, every listed order that is still open can be cancelled by
\* its id, whoever placed it and whatever else the session forgot since.
ListedIsCancellable == \A v \in Venues : listed[v] \cap Open \subseteq DOMAIN known[v]

\* Its inductive form: what was listed exists.
ListedExist == \A v \in Venues : listed[v] \subseteq DOMAIN orders

\* What the cache serves was requested less than 45 s ago, also when two
\* fetches overlap and the older answer arrives last, and when fetches fail.
CacheIsFresh == \A v \in Venues : Cached(v) => meta[v].asof < TTL + Timeout

\* Its inductive form: a snapshot is at most one request older than its stamp.
StampsAreLate == \A v \in Venues : meta[v].asof <= meta[v].at + Timeout
=============================================================================
