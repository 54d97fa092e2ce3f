---------------------------- MODULE BasisRuntime ----------------------------
(***************************************************************************)
(* One agent's Runtime: the decision tick that executes swaps, then        *)
(* orders, then cancels, and folds the result into the book of open basis  *)
(* positions (internal/agent/runtime.go), the strategy_positions table     *)
(* behind it (internal/agent/store.go), the concurrent-position check of   *)
(* the risk policy (internal/risk/policy.go) and, as environment, what the *)
(* DEX and the perp venue really did with each leg.                        *)
(*                                                                         *)
(* A strategy is a plug-in, so a decision is any member of Plans.  The     *)
(* intents of a decision are sets: executing any remaining member covers   *)
(* every order in which a strategy may list them, and their indexes tell   *)
(* equal intents apart.  Amounts, prices and texts are abstracted; a spot  *)
(* leg and a perp leg are counted in units of one intent.                  *)
(***************************************************************************)
EXTENDS Naturals, FiniteSets

CONSTANTS
    Keys,            \* basis keys (upper-cased BasisKey or symbol)
    Indexes,         \* places of an intent in its list, for legs that are repeated
    Plans,           \* the decisions the strategy may return
    Modes,           \* subset of {"paper", "live"}
    SwitchModes,     \* may set-mode run between two Runtimes of the agent?
    NoVenue,         \* keys whose chain has no SwapVenue wired
    Bittensor,       \* keys whose spot leg trades on Bittensor
    PerpWired,       \* does the agent have a perp venue?
    MaxConcurrentPositions, \* types.RiskLimits; 0 disables the check
    StoreFaults,     \* may a Postgres call fail?
    MaxTicks,        \* bound: ticks in a behaviour
    MaxStops         \* bound: shutdowns and crashes in a behaviour

SwapIntent  == [key : Keys, opening : BOOLEAN, idx : Indexes]
OrderIntent == [key : Keys, kind : {"short", "bid", "reduce"}, idx : Indexes]
Plan        == [swaps : SUBSET SwapIntent, orders : SUBSET OrderIntent]

ASSUME KeysAssumption  == IsFiniteSet(Keys) /\ NoVenue \subseteq Keys
                            /\ Bittensor \subseteq Keys
ASSUME PlansAssumption == Plans \subseteq Plan
ASSUME ParamAssumption == /\ Modes \subseteq {"paper", "live"}
                          /\ StoreFaults \in BOOLEAN /\ SwitchModes \in BOOLEAN
                          /\ PerpWired \in BOOLEAN
                          /\ MaxConcurrentPositions \in Nat
                          /\ MaxTicks \in Nat
                          /\ MaxStops \in Nat

VARIABLES
    mode,            \* agent.Mode, captured when the Runtime is built
    up,              \* is a Runtime of the agent alive?
    ctxDone,         \* Stop has cancelled the loop's context
    pc,              \* where tickOnce is
    dec,             \* the decision being executed
    todo,            \* intents of the current phase not yet executed
    swapOK,          \* keys of swaps that succeeded this tick
    orderOK,         \* keys of orders that succeeded this tick
    inflightOpens,   \* keys of opens accepted this tick
    openBasis,       \* the Runtime's in-memory book: the tick that opened a key
    rows,            \* open rows of strategy_positions, likewise
    lost,            \* history: keys whose last book change was not persisted
    landing,         \* external: broadcast swaps whose fate is unknown
    landed,          \* external: swaps that took effect on chain
    accepted,        \* external: orders the perp venue ever accepted
    filled,          \* external: those of them that filled
    pulled,          \* external: those that were cancelled
    ticks, stops     \* counters of the bounds

tickVars  == <<pc, dec, todo, swapOK, orderOK, inflightOpens>>
bookVars  == <<openBasis, rows, lost>>
venueVars == <<landing, landed, accepted, filled, pulled>>
procVars  == <<mode, up, ctxDone, ticks, stops>>
vars      == <<tickVars, bookVars, venueVars, procVars>>

Phases == {"idle", "swaps", "orders", "closes", "opens"}

NoPlan == [swaps |-> {}, orders |-> {}]

\* A position carries the decision that opened it; 0 is no position.
Book      == [Keys -> 0..MaxTicks]
EmptyBook == [k \in Keys |-> 0]
Tracked(b) == {k \in Keys : b[k] # 0}

\* What reached a venue, identified by the tick that sent it.
Transaction == [key : Keys, opening : BOOLEAN, idx : Indexes, tick : 0..MaxTicks]
Order       == [key : Keys, kind : {"short", "bid", "reduce"}, idx : Indexes,
                tick : 0..MaxTicks]

Tx(s)  == [key |-> s.key, opening |-> s.opening, idx |-> s.idx, tick |-> ticks]
Ord(o) == [key |-> o.key, kind |-> o.kind, idx |-> o.idx, tick |-> ticks]

SpotHeld(k)  == Cardinality({t \in landed : t.key = k /\ t.opening})
                  > Cardinality({t \in landed : t.key = k /\ ~t.opening})
ShortHeld(k) == Cardinality({o \in filled : o.key = k /\ o.kind = "short"})
                  > Cardinality({o \in filled : o.key = k /\ o.kind # "short"})

\* A sale needs the tokens, a reduce-only order needs the short.
CanLand(t) == t.opening \/ SpotHeld(t.key)
CanFill(o) == o.kind = "reduce" => ShortHeld(o.key)

resting == accepted \ (filled \union pulled)

Init ==
    /\ mode \in Modes
    /\ up = TRUE /\ ctxDone = FALSE
    /\ pc = "idle" /\ dec = NoPlan /\ todo = {}
    /\ swapOK = {} /\ orderOK = {} /\ inflightOpens = {}
    /\ openBasis = EmptyBook /\ rows = EmptyBook /\ lost = {}
    /\ landing = {} /\ landed = {}
    /\ accepted = {} /\ filled = {} /\ pulled = {}
    /\ ticks = 0 /\ stops = 0

-----------------------------------------------------------------------------
(* The concurrent-position check (risk.Policy through Risk.PreTrade).       *)

\* Mutant of Count: the phantom entries for the opens of this tick are missing.
CountWithoutInflight(exclude) == Cardinality(Tracked(openBasis))

\* riskSnapshot: tracked positions plus one phantom entry for every open
\* accepted earlier in this tick, except the key an order pairs with.
Count(exclude) == Cardinality(Tracked(openBasis)) + Cardinality(inflightOpens \ exclude)

AtCap(exclude) == /\ MaxConcurrentPositions > 0
                  /\ Count(exclude) >= MaxConcurrentPositions

\* checkSwap: only opening legs take part in the cap.
SwapOverCap(s) == s.opening /\ AtCap({})

\* checkOrder: reduce-only orders bypass the cap; the short that pairs with a
\* swap accepted in this tick does not count that swap again.
OrderOverCap(o) ==
    /\ o.kind # "reduce"
    /\ AtCap(IF o.kind = "short" THEN {o.key} ELSE {})

-----------------------------------------------------------------------------
(* The tick.                                                               *)

\* tickOnce up to executeSwapsThenOrders; an error of the input or of Decide
\* leaves the tick nothing to do.  Nothing here reads the persisted status, and
\* the loop's select may take the ticker although ctx is done.
BeginTick ==
    /\ up /\ pc = "idle" /\ ticks < MaxTicks
    /\ ticks' = ticks + 1
    /\ pc' = "swaps"
    /\ dec' \in Plans \union {NoPlan}
    /\ todo' = dec'.swaps
    /\ swapOK' = {} /\ orderOK' = {} /\ inflightOpens' = {}
    /\ UNCHANGED <<bookVars, venueVars, mode, up, ctxDone, stops>>

\* Mutant of SwapSucceeded: the swap itself is noted where its key belongs.
NoteSwapNotKey(s) ==
    /\ swapOK' = swapOK \union {s}
    /\ inflightOpens' = inflightOpens

\* What executeSwapsThenOrders notes about a swap that executeSwap accepted.
SwapSucceeded(s) ==
    /\ swapOK' = swapOK \union {s.key}
    /\ inflightOpens' = IF s.opening THEN inflightOpens \union {s.key}
                                     ELSE inflightOpens

SwapDidNot == UNCHANGED <<swapOK, inflightOpens>>

\* Recorded as confirmed without touching a DEX: paper mode, or no venue for
\* the chain (the paper-spot fallback, also in live mode).
PaperSwap(s) ==
    /\ ~SwapOverCap(s)
    /\ mode = "paper" \/ s.key \in NoVenue
    /\ SwapSucceeded(s)
    /\ UNCHANGED venueVars

\* Quote, Swap and WaitConfirm all succeed with status confirmed.
ConfirmSwap(s) ==
    /\ ~SwapOverCap(s) /\ ~ctxDone
    /\ mode = "live" /\ s.key \notin NoVenue
    /\ CanLand(s)
    /\ landed' = landed \union {Tx(s)}
    /\ SwapSucceeded(s)
    /\ UNCHANGED <<landing, accepted, filled, pulled>>

\* The Bittensor client submits an extrinsic and never looks for it: Swap and
\* WaitConfirm report it confirmed whatever becomes of it.
TrustSwap(s) ==
    /\ ~SwapOverCap(s) /\ ~ctxDone
    /\ mode = "live" /\ s.key \in Bittensor \ NoVenue
    /\ landing' = landing \union {Tx(s)}
    /\ SwapSucceeded(s)
    /\ UNCHANGED <<landed, accepted, filled, pulled>>

\* Blocked by risk, no quote, rejected on submission or reverted on chain.
FailSwap(s) ==
    /\ SwapDidNot
    /\ UNCHANGED venueVars

\* Swap or WaitConfirm gives up on a transaction that was broadcast: it is
\* recorded as failed and may still land.  The Bittensor client broadcasts
\* without asking the context.
LoseSwap(s) ==
    /\ ~SwapOverCap(s) /\ (~ctxDone \/ s.key \in Bittensor)
    /\ mode = "live" /\ s.key \notin NoVenue
    /\ landing' = landing \union {Tx(s)}
    /\ SwapDidNot
    /\ UNCHANGED <<landed, accepted, filled, pulled>>

ExecuteSwap(s) ==
    /\ up /\ pc = "swaps" /\ s \in todo
    /\ todo' = todo \ {s}
    /\ PaperSwap(s) \/ ConfirmSwap(s) \/ TrustSwap(s) \/ FailSwap(s) \/ LoseSwap(s)
    /\ UNCHANGED <<bookVars, procVars, pc, dec, orderOK>>

\* Orders follow whatever became of the swaps.
BeginOrders ==
    /\ up /\ pc = "swaps" /\ todo = {}
    /\ pc' = "orders"
    /\ todo' = dec.orders
    /\ UNCHANGED <<bookVars, venueVars, procVars, dec, swapOK, orderOK, inflightOpens>>

OrderSucceeded(o) ==
    /\ orderOK' = orderOK \union {o.key}
    /\ inflightOpens' = IF o.kind = "short" /\ o.key \notin swapOK
                        THEN inflightOpens \union {o.key} ELSE inflightOpens

OrderDidNot == UNCHANGED <<orderOK, inflightOpens>>

SendsOrders == mode = "live" /\ PerpWired

\* Recorded as open without touching a venue: paper mode, or no perp venue.
PaperOrder(o) ==
    /\ ~OrderOverCap(o)
    /\ mode = "paper" \/ ~PerpWired
    /\ OrderSucceeded(o)
    /\ UNCHANGED venueVars

\* Mutant of FillOrder: the mode is not looked at.
FillInAnyMode(o) ==
    /\ ~OrderOverCap(o) /\ ~ctxDone /\ CanFill(o)
    /\ accepted' = accepted \union {Ord(o)} /\ filled' = filled \union {Ord(o)}
    /\ OrderSucceeded(o)
    /\ UNCHANGED <<landing, landed, pulled>>

\* Place acknowledges the order as filled.
FillOrder(o) ==
    /\ ~OrderOverCap(o) /\ ~ctxDone /\ SendsOrders /\ CanFill(o)
    /\ accepted' = accepted \union {Ord(o)} /\ filled' = filled \union {Ord(o)}
    /\ OrderSucceeded(o)
    /\ UNCHANGED <<landing, landed, pulled>>

\* Place acknowledges the order as open: any status but rejected is success.
RestOrder(o) ==
    /\ ~OrderOverCap(o) /\ ~ctxDone /\ SendsOrders
    /\ accepted' = accepted \union {Ord(o)}
    /\ OrderSucceeded(o)
    /\ UNCHANGED <<landing, landed, filled, pulled>>

\* Blocked by risk, or Place answers with an error or a rejection.
FailOrder(o) ==
    /\ OrderDidNot
    /\ UNCHANGED venueVars

\* Place returns an error for an order the venue accepted.
LoseOrder(o) ==
    /\ ~OrderOverCap(o) /\ ~ctxDone /\ SendsOrders
    /\ accepted' = accepted \union {Ord(o)}
    /\ OrderDidNot
    /\ UNCHANGED <<landing, landed, filled, pulled>>

ExecuteOrder(o) ==
    /\ up /\ pc = "orders" /\ o \in todo
    /\ todo' = todo \ {o}
    /\ PaperOrder(o) \/ FillOrder(o) \/ RestOrder(o) \/ FailOrder(o) \/ LoseOrder(o)
    /\ UNCHANGED <<bookVars, procVars, pc, dec, swapOK>>

\* executeCancel for the cancels of the decision, which can only name orders
\* of earlier ticks; a cancel that fails is logged and leaves the order.
\* reconcileOpenBasis then starts with the reduce-only orders.
ExecuteCancels ==
    /\ up /\ pc = "orders" /\ todo = {}
    /\ \E gone \in SUBSET {r \in resting : r.tick < ticks} :
         /\ gone # {} => SendsOrders /\ ~ctxDone
         /\ pulled' = pulled \union gone
    /\ pc' = "closes"
    /\ todo' = {o \in dec.orders : o.kind = "reduce"}
    /\ UNCHANGED <<bookVars, procVars, landing, landed, accepted, filled,
                   dec, swapOK, orderOK, inflightOpens>>

-----------------------------------------------------------------------------
(* reconcileOpenBasis, one order at a time under posMu.                    *)

\* Mutant of Persist: a close that matches no row is taken for a success.
PersistMissingCloses(k, v, refused) ==
    /\ ~ctxDone /\ ~refused
    /\ rows' = IF v = 0 THEN rows ELSE [rows EXCEPT ![k] = v]
    /\ lost' = lost \ {k}

\* The book changes at k to v, and so does the row unless the store call
\* fails: its error is only logged, and a cancelled context makes it fail.
Persist(k, v, refused) ==
    \/ /\ ~ctxDone /\ ~refused
       /\ rows' = [rows EXCEPT ![k] = v]
       /\ lost' = lost \ {k}
    \/ /\ ctxDone \/ refused \/ StoreFaults
       /\ UNCHANGED rows
       /\ lost' = lost \union {k}

Record(k, v, refused) ==
    /\ openBasis' = [openBasis EXCEPT ![k] = v]
    /\ Persist(k, v, refused)

\* A successful reduce-only order drops the tracked position and closes its row.
ReconcileClose(o) ==
    /\ up /\ pc = "closes" /\ o \in todo
    /\ todo' = todo \ {o}
    /\ IF openBasis[o.key] # 0 /\ o.key \in orderOK
       THEN Record(o.key, 0, FALSE)
       ELSE UNCHANGED bookVars
    /\ UNCHANGED <<venueVars, procVars, pc, dec, swapOK, orderOK, inflightOpens>>

\* The shorts that pair with an opening swap of the same key.
Pairs == {o \in dec.orders : /\ o.kind = "short"
                             /\ \E s \in dec.swaps : s.opening /\ s.key = o.key}

BeginOpens ==
    /\ up /\ pc = "closes" /\ todo = {}
    /\ pc' = "opens"
    /\ todo' = Pairs
    /\ UNCHANGED <<bookVars, venueVars, procVars, dec, swapOK, orderOK, inflightOpens>>

\* Mutant of BothLegs: the order alone opens the position.
ShortLegOnly(k) == k \in orderOK

BothLegs(k) == k \in swapOK /\ k \in orderOK

\* Both legs succeeded: track the position and insert its row, which the
\* one-open-row-per-underlying index refuses while a stale row is there.
ReconcileOpen(o) ==
    /\ up /\ pc = "opens" /\ o \in todo
    /\ todo' = todo \ {o}
    /\ IF openBasis[o.key] = 0 /\ BothLegs(o.key)
       THEN Record(o.key, ticks, rows[o.key] # 0)
       ELSE UNCHANGED bookVars
    /\ UNCHANGED <<venueVars, procVars, pc, dec, swapOK, orderOK, inflightOpens>>

NoTick == /\ pc' = "idle" /\ dec' = NoPlan /\ todo' = {}
          /\ swapOK' = {} /\ orderOK' = {} /\ inflightOpens' = {}

EndTick ==
    /\ up /\ pc = "opens" /\ todo = {}
    /\ NoTick
    /\ UNCHANGED <<bookVars, venueVars, procVars>>

-----------------------------------------------------------------------------
(* Shutdown, crash and restart.                                            *)

\* Stop cancels the context and does not wait for the tick in flight.
Stop ==
    /\ up /\ ~ctxDone /\ stops < MaxStops
    /\ ctxDone' = TRUE /\ stops' = stops + 1
    /\ UNCHANGED <<tickVars, bookVars, venueVars, mode, up, ticks>>

LoopExits ==
    /\ up /\ ctxDone /\ pc = "idle"
    /\ up' = FALSE
    /\ UNCHANGED <<tickVars, bookVars, venueVars, mode, ctxDone, ticks, stops>>

\* The process ends in the middle of whatever it does.  openBasis keeps the
\* view that was lost, for Restart to be compared with.
Crash ==
    /\ up /\ stops < MaxStops
    /\ up' = FALSE /\ stops' = stops + 1
    /\ NoTick
    /\ UNCHANGED <<bookVars, venueVars, mode, ctxDone, ticks>>

\* Mutant of Hydrate: NewRuntime starts with an empty book.
StartBlank == openBasis' = EmptyBook /\ lost' = {}

\* NewRuntime hydrates openBasis from the open rows; an error of LoadOpenBasis
\* is logged and leaves the book empty.
Hydrate ==
    \/ openBasis' = rows /\ lost' = {}
    \/ StoreFaults /\ openBasis' = EmptyBook /\ lost' = Tracked(rows)

\* The next Runtime of the agent; set-mode may have run in between.
Restart ==
    /\ ~up
    /\ up' = TRUE /\ ctxDone' = FALSE
    /\ mode' = mode \/ (SwitchModes /\ mode' \in Modes)
    /\ Hydrate
    /\ UNCHANGED <<tickVars, venueVars, rows, ticks, stops>>

-----------------------------------------------------------------------------
(* The venues.                                                             *)

\* A transaction that was given up or trusted lands after all (or never does).
Land(t) ==
    /\ t \in landing /\ CanLand(t)
    /\ landing' = landing \ {t}
    /\ landed' = landed \union {t}
    /\ UNCHANGED <<tickVars, bookVars, procVars, accepted, filled, pulled>>

\* A resting order fills (or rests for good).
Match(r) ==
    /\ r \in resting /\ CanFill(r)
    /\ filled' = filled \union {r}
    /\ UNCHANGED <<tickVars, bookVars, procVars, landing, landed, accepted, pulled>>

Next ==
    \/ BeginTick \/ BeginOrders \/ ExecuteCancels \/ BeginOpens \/ EndTick
    \/ \E s \in SwapIntent : ExecuteSwap(s)
    \/ \E o \in OrderIntent : ExecuteOrder(o) \/ ReconcileClose(o) \/ ReconcileOpen(o)
    \/ Stop \/ LoopExits \/ Crash \/ Restart
    \/ \E t \in landing : Land(t)
    \/ \E r \in resting : Match(r)

Spec == Init /\ [][Next]_vars

-----------------------------------------------------------------------------
(* Properties.                                                             *)

\* Every variable stays in its range (the types of Runtime and of the rows).
TypeOK ==
    /\ mode \in {"paper", "live"} /\ up \in BOOLEAN /\ ctxDone \in BOOLEAN
    /\ pc \in Phases /\ dec \in Plan
    /\ todo \subseteq SwapIntent \union OrderIntent
    /\ swapOK \subseteq Keys /\ orderOK \subseteq Keys /\ inflightOpens \subseteq Keys
    /\ openBasis \in Book /\ rows \in Book /\ lost \subseteq Keys
    /\ landing \subseteq Transaction /\ landed \subseteq Transaction
    /\ accepted \subseteq Order /\ filled \subseteq accepted /\ pulled \subseteq accepted
    /\ ticks \in 0..MaxTicks /\ stops \in 0..MaxStops

\* The in-memory book and the open rows of strategy_positions disagree on a
\* key only if the store call of that key's last change failed: neither a
\* crash, a shutdown in mid tick nor a later tick spreads the difference
\* (reconcileOpenBasis, NewRuntime).
DriftIsConfined ==
    \A k \in Keys \ lost : openBasis[k] = rows[k]

\* Keys a decision swaps both ways.  executeSwapsThenOrders merges the success
\* of all swaps of a key in swapOK[key], so the closing one can pass for an
\* opening one that failed and took no slot.
TwoWay(p) == {k \in Keys : \E s, t \in p.swaps :
                 s.key = k /\ t.key = k /\ s.opening /\ ~t.opening}

\* Positions of such keys that the decision at hand has opened.
Unseen(book) == {k \in TwoWay(dec) : book[k] = ticks}

\* A tick opens no position beyond MaxConcurrentPositions, in whatever order
\* the legs run and however they fail: the swap of an open claims a slot that
\* its order, the other intents of the tick and the reconcile pass all respect.
\* The decisions are unrestricted, but keys that the decision swaps both ways
\* are beyond the promise: their opens need no slot, and do not count against
\* the other opens of the tick.
CapRespected ==
    [][ (\E k \in Keys \ TwoWay(dec) : up /\ openBasis[k] = 0 /\ openBasis'[k] # 0)
          => MaxConcurrentPositions = 0
               \/ Cardinality(Tracked(openBasis') \ Unseen(openBasis'))
                    <= MaxConcurrentPositions ]_vars

\* Keys whose swaps go to a venue that reports as confirmed what it has seen.
Witnessed == Keys \ (NoVenue \union Bittensor)

\* An opening swap of k, and a short of it, that decision n brought to a venue.
SwapLanded(k, n) ==
    \E i \in Indexes : [key |-> k, opening |-> TRUE, idx |-> i, tick |-> n] \in landed
ShortAccepted(k, n) ==
    \E i \in Indexes : [key |-> k, kind |-> "short", idx |-> i, tick |-> n] \in accepted

\* The swap and the short of every position, by the decision that opened it.
BackedBy(book) ==
    \A k \in Tracked(book) : /\ k \in Witnessed => SwapLanded(k, book[k])
                             /\ PerpWired => ShortAccepted(k, book[k])

\* Of a live agent, every position in the book, hydrated or not, was opened by
\* a decision whose own swap landed on chain and whose own short the perp venue
\* accepted, as far as there are venues and the client of the chain looks for
\* its transactions (reconcileOpenBasis: "only pairs where BOTH the spot swap
\* and the perp order succeeded are marked open").  It needs decisions that are
\* OneWayPerKey and OneOrderPerOpen, and a mode that never changes: the code
\* ensures none of them.
EveryPositionIsBacked ==
    mode = "live" => BackedBy(openBasis)

\* A paper runtime sends nothing: no order is accepted or cancelled, and no
\* transaction appears or lands, unless an older live one completes.
PaperSendsNothing ==
    [][ mode = "paper" => /\ accepted' = accepted /\ pulled' = pulled
                          /\ landing' \subseteq landing
                          /\ landed' \subseteq landed \union landing ]_vars

\* What agent-runtime.md says of a tick, "If a swap fails, the matching Order
\* (same BasisKey) is dropped": the venue accepts no order whose opening swap
\* of the same decision did not succeed.
SpotFirst ==
    [][ \A s \in dec.swaps : pc = "orders" /\ s.opening /\ s.key \notin swapOK
          => \A r \in accepted' \ accepted : r.key # s.key ]_vars

Abstract == INSTANCE BasisBook WITH
    book <- Tracked(openBasis), unsaved <- lost, running <- up,
    twoWay <- TwoWay(dec), unseen <- Unseen(openBasis)

\* The Runtime implements BasisBook: reconcileOpenBasis, a crash anywhere, a
\* shutdown in mid tick and NewRuntime together never do more to the set of
\* open positions than its Open, Close, Decide, Halt, Restore and Forget.
BookKept == Abstract!Spec

-----------------------------------------------------------------------------
(* Why the properties hold: the strengthenings the proofs use.             *)

\* Where a tick is: what is left to execute comes from the decision, and
\* between ticks, or with no Runtime alive, nothing of a tick is left.
TickShape ==
    /\ dec \in Plans \union {NoPlan}
    /\ ~up => pc = "idle"
    /\ pc # "idle" => ticks # 0
    /\ pc = "idle" => dec = NoPlan /\ swapOK = {} /\ orderOK = {} /\ inflightOpens = {}
    /\ pc = "swaps" => todo \subseteq dec.swaps
    /\ pc \in {"orders", "closes"} => todo \subseteq dec.orders
    /\ pc = "opens" => todo \subseteq Pairs

\* No position is of a decision yet to come.
Dated == \A k \in Keys : openBasis[k] <= ticks /\ rows[k] <= ticks

\* Every key that is opened one way and whose swap succeeded holds a slot of the
\* cap, and the slots taken by tracked positions and accepted opens together fit
\* under it.
SlotsHeld ==
    /\ \A s \in dec.swaps : s.opening /\ s.key \in swapOK \ TwoWay(dec)
                              => s.key \in inflightOpens
    /\ MaxConcurrentPositions > 0 /\ inflightOpens # {}
         => Cardinality((Tracked(openBasis) \ Unseen(openBasis)) \union inflightOpens)
              <= MaxConcurrentPositions

\* No decision swaps a key both ways.
OneWayPerKey == \A p \in Plans : TwoWay(p) = {}

\* A decision that opens a key does nothing else with that key's orders.
OneOrderPerOpen ==
    \A p \in Plans : \A s \in p.swaps, o \in p.orders :
        s.opening /\ s.key = o.key => o.kind = "short"

\* In live mode the flags of the tick tell what the venues did, so the book
\* and the rows name only decisions whose two legs exist.
FlagsAreTrue ==
    mode = "live" =>
        /\ \A s \in dec.swaps :
              s.opening /\ s.key \in swapOK \intersect Witnessed => SwapLanded(s.key, ticks)
        /\ \A s \in dec.swaps :
              s.opening /\ s.key \in orderOK /\ PerpWired => ShortAccepted(s.key, ticks)
        /\ BackedBy(openBasis) /\ BackedBy(rows)
=============================================================================
