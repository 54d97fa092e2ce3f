# A TLA+ model of permafrost

permafrost runs trading agents: a daemon ticks each agent's strategy, sends its
swaps to a DEX and its orders to a perpetuals venue, keeps the resulting basis
positions (spot bought, perp sold short) in Postgres, and gives the operator
commands to start, stop and kill agents. This directory holds TLA+ modules
translated from that code, TLC configurations that check them on small
instances, and TLAPS proofs of their invariants for all instances. Paths below
are relative to the repository's root.

- `tlc -config <run>.cfg <module>.tla` runs a check;
- `tlapm BasisRuntimeProofs.tla` checks the proofs of that module, and so for
  `AgentLifecycleProofs`, `SwapVenuesProofs`, `SubtensorProofs`, `HyperliquidProofs`,
  `AccountingProofs`, `StrategyProofs` and the lemmas they share, `SumLemmas`;
- `PROJECT.json` lists the runs, the source lines behind every definition, one
  mutation of the code per property that the property must catch, the hazards
  and the findings.

## 1. Inventory

| component | state | operations | hard behaviour |
|---|---|---|---|
| decision tick (`internal/agent/runtime.go`) | `openBasis`, the tick's success and in-flight sets, mode, context | `tickOnce`, `executeSwapsThenOrders`, `reconcileOpenBasis`, `Start`, `Stop`, hydration | legs fail apart, a crash or `Stop` in mid tick, cap counted over in-flight opens |
| agent store (`internal/agent/store.go`) | `agents`, `strategy_positions`, decision, order and swap rows | `SetStatus`, `UpsertOpenBasis`, `CloseBasis`, `LoadOpenBasis` | errors that are only logged, one open row per underlying |
| risk policy (`internal/risk`) | limits | `PreTrade` on swaps and orders, circuit breakers | evaluated against a snapshot that ages within the tick |
| loader, supervisor, daemon (`builder.go`, `supervisor.go`, `cli/serve.go`) | the set of Runtimes, one context | boot load, register, shutdown | reads statuses once, writes them back later, does not wait for ticks |
| kill switch (`killswitch.go`) | none of its own | halt, cancel orders, flatten perps, liquidate spot, stop | runs in another process than the loop; every step may fail; continues |
| operator commands (`cli/agent.go`) | the `status` and `mode` columns | start, stop, kill, run, set-mode | race with the loader and with each other |
| Hyperliquid venue (`internal/exchange/hyperliquid`) | session map order → symbol, 30 s metadata cache, websocket | place, cancel, open orders, positions, subscribe | the map is lost at restart, frames are collapsed, the stream ends on any read error |
| swap venues (`internal/swap/*`) | approved-token cache (1inch) | quote, swap, wait for confirmation | expiry, approval before swap, pending at the deadline |
| chain clients (`internal/chain/*`) | connection, nonces at the node | fill, sign, send, poll | two senders with one nonce, a broadcast whose answer is lost, inclusion not looked for and RPCs without a timeout (Bittensor) |
| vault (`internal/vault`) | deposits, withdrawals, lockups, NAV snapshots | record, allocate | high-water mark read and written in two statements |
| PnL engine (`internal/pnl`) | none | valuation of open positions | degraded marks, spot quantity taken from the perp leg |
| reconcile (`internal/reconcile`) | none | comparison of rows, venue and chain | tolerance at its boundary |
| strategies (`strategies/*`) | what a strategy believes it holds | `Decide` | belief updated before the swap succeeds |
| backtest (`internal/backtest`) | cash, positions, NAV curve | replay | conservation of cash, funding windows at step boundaries |
| wallet and keystore (`internal/wallet`) | an encrypted file | add, unlock, save | mostly cryptography; replacement of the file |
| feeds, inference, API, config, assets, CLI reports, desk | caches, tables | reads | little state of their own |

How they interact. `Serve` builds one Runtime per agent that was `running` when
the daemon booted; a Runtime owns its tick loop, its strategy and its venues and
writes rows through the store. The CLI never talks to the daemon: `start`,
`stop`, `kill` and `set-mode` write Postgres, `run` ticks an agent in its own
process, and `kill` builds a Runtime of its own to work on the wallet. So the
shared state is the agents table, the position rows and the wallet itself; the
rest is private to a process and lost with it.

What makes each correct: a tick opens no more positions than the limit and records
only pairs whose two legs exist (each within the conditions of section 4); memory and
rows drift apart only where a store call failed; a halt stays a halt; a kill that
nothing disturbs leaves nothing open; a bad agent does not keep others from starting;
a cancelled loop ends; an approval precedes its swap, a transaction is reported as
what became of it, and a call returns. The vault's high-water mark is the highest NAV
recorded, while recordings do not overlap; a strategy's belief and its wallet part
only where a swap failed or a restart forgot; the backtest's books balance and pay
every tick once; a snapshot of a hedge does not depend on the price, and a report that
says OK is right. Extrinsics of one coldkey do not block each other, one intent makes
one order at the exchange, an acknowledgement tells what happened, a call returns and
a stream whose context is cancelled ends, as long as the node they ask answers.

`PROJECT.json` lists the hazards with the line each bites at and the
properties that would catch it.

## 2. Modules

| module | what it is |
|---|---|
| `BasisBook` | what a Runtime promises about its set of open positions: opens within the limit, closes, halts, restarts |
| `BasisRuntime` | one agent's Runtime, tick by tick, with risk check, rows, crash, shutdown, restart and the venues as environment |
| `BasisRuntimeProofs` | its theorems |
| `MCBasisRuntime` | decisions composed from one choice per key, for TLC |
| `AgentLifecycle` | the daemon, the loops, the operator's commands and the kill switch around one agents table and one wallet |
| `AgentLifecycleProofs` | its theorems |
| `AgentBuilder` | what the builder makes of an agent's record, the config and the keystore: who can be built, who swaps where |
| `MCAgentLifecycle` | agent records for TLC, from which `AgentBuilder` computes who is broken or unwired |
| `SwapPromise` | what a `SwapVenue` promises: one swap per call, reported as the chain decided |
| `SwapVenues` | callers of 1inch and Jupiter over one wallet, with nonces, approvals, receipts and the chains |
| `SwapVenuesProofs` | its theorems |
| `MCSwapVenues` | callers for TLC |
| `RiskPolicy` | the limits of `internal/risk` with amounts, the circuit breakers, and `BuildRiskEngine` |
| `AccountingProofs` | the theorems of `VaultLedger` and of `HedgeBook` |
| `VaultLedger` | the vault's ledger, lockups, allocation, and NAV recording statement by statement |
| `StrategyConfig` | parsing, defaults and validation of the five bundled strategies' configs |
| `BundledStrategies`, `MCBundledStrategies` | their private state over ticks whose swaps and orders may fail |
| `Backtest`, `MCBacktest` | reading the ticks, the replay, portfolio, fees, funding, NAV curve, drawdown |
| `StrategyProofs` | the theorems of `BundledStrategies` and of `Backtest` |
| `HedgeBook` | positions with amounts: exposure limits, PnL valuation, reconciliation |
| `MCAccounting` | `VaultLedger` and `HedgeBook` for TLC |
| `Subtensor`, `MCSubtensor` | the writing side of the Bittensor client: venue, noise trader, bootstrap, over one coldkey |
| `SubtensorProofs` | its theorems |
| `Hyperliquid` | the exchange adapter: orders, session memory, metadata cache |
| `MarketStreams`, `MCHyperliquid` | the websocket stream, the Bittensor feed and the subnet listing |
| `HyperliquidProofs` | the theorems of `Hyperliquid` and of `MarketStreams` |
| `SumLemmas` | sums over finite sets, division, recursion over an interval: what the proofs above need of the library's operators |

`MCHyperliquid` composes `Hyperliquid` and `MarketStreams`, which have no
variable in common; a behaviour opens one of the streams or runs the venue. So does
`MCAccounting` with `VaultLedger` and `HedgeBook`: a behaviour runs one of the two.
`HedgeBook` and `VaultLedger` are built on `RiskPolicy`, `BundledStrategies` on
`StrategyConfig`, `AgentLifecycle`'s instance on `AgentBuilder`. Where two components are
proved in one module, the names of one of them are told apart (`VaultSpec`,
`StreamSpec`, `ReplaySpec`).

### BasisRuntime

The steps of a tick are actions and other steps interleave between them: a
`Stop`, a crash, a late landing, a fill.

| code | model |
|---|---|
| `tickOnce` up to the execution | `BeginTick`: a member of `Plans`, or nothing when the input or `Decide` fails |
| `executeSwap` in the swap loop | `ExecuteSwap`, one of `PaperSwap`, `ConfirmSwap`, `TrustSwap`, `FailSwap`, `LoseSwap` |
| `executeOrder` in the order loop | `ExecuteOrder`, one of `PaperOrder`, `FillOrder`, `RestOrder`, `FailOrder`, `LoseOrder` |
| cancel loop | `ExecuteCancels` |
| `reconcileOpenBasis`, reduce-only pass, pair pass | `ReconcileClose`, `ReconcileOpen`, each with its store call (`Persist`) |
| `riskSnapshot`, `checkSwap`, `checkOrder` | `Count`, `SwapOverCap`, `OrderOverCap` |
| `Stop`, `loop`, process end | `Stop`, `LoopExits`, `Crash` |
| `NewRuntime`, `LoadOpenBasis`, `set-mode` before it | `Restart`, `Hydrate` |

State: `openBasis` and `rows` map a key to the tick that opened it, so that a
position can be traced to its own legs; `swapOK`, `orderOK`, `inflightOpens` are
the tick's sets of the same names in the code; `landing`, `landed`, `accepted`,
`filled`, `pulled` are what really happened at the DEX and the perp venue, which
the code never sees; `lost` remembers the keys whose last store call failed.

Abstracted: amounts, prices and slippage (the limits that read them are a
possible block, `FailSwap`, `FailOrder`), decision, order, swap and NAV rows,
texts and ids. A decision is two sets of intents; executing any remaining member
covers every order a strategy may list them in, and an index tells apart several
swaps or orders of one key. `swapOK` is a set of keys, as in the code, so a swap that
closes a key and one that opens it share a flag; `TwoWay` names the keys a decision
swaps both ways, `Unseen` the positions it has opened on them. `BasisBook` has the
same two notions (`twoWay`, `unseen`), since its limit does not bind such keys.

A cancelled context makes venue and store calls fail, except that the Bittensor
client never asks the context (`LoseSwap`). That client also reports a swap as
confirmed without looking for it (`TrustSwap`). A key in `NoVenue` stands for a
chain without a swap venue: its swaps are paper swaps even in live mode.

### AgentLifecycle

One order, one position and one basis row per agent are enough to tell who
cleaned up what; what a tick does to them is `Trade`. `Boot`, `ListRunning`,
`LoadAgent`, `MarkRunning`, `Listen`, `Shutdown` are the steps of `Serve` and of
`LoadAndStartRunning`; `TripHalts` to `LiquidateLegs` are the steps of `Trip`,
each with its failure; `Halt` is `SetStatus(halted)`, by `stop`, `stop --all` or
`kill`. `Signal`, `Crash` and `Interrupt` are possible at any time.
`Faults` selects what may fail: reading the agents table at boot (`read`),
writing a status (`write`), a call of Trip (`trip`), a process (`process`).
History variables: `halted` (agents whose last command halted them), `raced`
(those halted while the loader held them), `calm` (no loop has traded since the
kill began), `answered` (positions whose closing order was acknowledged).

### SwapVenues

A caller is whoever owns a venue instance: a Runtime of an agent, or the kill
switch, which swaps and does not wait (`GiveUp` at once). All instances sign
with one wallet, so the chain's state is common and the approval cache is not.

| code | model |
|---|---|
| `Quote` answers | `StartCall` |
| head of `Swap` (expiry, then the cache; Jupiter builds the transaction) | `EnterSwap`; an error anywhere is `Fail` |
| `ensureApproved`: allowance, approve, receipt | `ReadAllowance`, `Fill`, `Send`, `ApproveDone` |
| `EstimateAndFill`, `GetTransactionCount("pending")` | `Fill`, `PendingCount` |
| `SendRawTransaction`, Solana's `SendTransaction` | `Send`; `SendLost` when the answer is lost |
| `WaitConfirm`, `WaitForReceipt` | `Confirm`, `GiveUp` |
| process end | `Crash` |
| a node and its blocks (external) | `Accept`, `Mine`, `Settle` |
| the owner revokes an allowance in other software (external) | `Revoke` |

State: `pool`, `landed`, `reverted` and `gone` hold every transaction ever sent,
by what became of it; `mined` and `pending` are the wallet's two transaction
counts; `at` is the place in the code of each caller, `nonce` and `tx` its
locals, forgotten on return; `told` is the answer of its current or last call.

Abstracted: amounts (an allowance is zero or not, as `ensureApproved` looks at
it), gas, calldata, signatures. Assumed of an EVM chain: one node, which neither
drops a transaction from its pool nor reorganises its chain; a node takes any
transaction numbered from `mined` to `pending`, whatever it pays, in place of
the one it holds. A Solana transaction has no number; a fork is a transaction
that goes to `gone`.

### AgentBuilder

Operators, no state: `BuildDeps` of a record, a process and the keys it could
open gives whether the Runtime can be built and the chains it has a swap venue
for. A record and a process hold what decides it (names present or not, a URL
set or not); URLs, keys and endpoints are left out. The instance computes the broken
agents for `serve`, `run` and `kill` apart, as `run` and `kill` pass the builder no
Bittensor options. A missing key or config
leaves a chain to paper bookkeeping, a constructor's error fails the agent.

### RiskPolicy

`checkOrder`, `checkSwap`, the two breakers and `Portfolio` as operators on
integers; a fraction is a numerator and a denominator and is compared by cross
multiplication, as the code's decimals are exact here. `HedgeBook` uses the limits.
No code evaluates a breaker, so no action of any module does either; only the
`breakers` run refers to them. `Portfolio` answers with
the first verdict that is not "allow", so a warning hides a later block, as the
code's loop does.

### VaultLedger

| code | model |
|---|---|
| `Deposit`, `Withdraw`, `AddLockup` and their commands | `Deposit`, `Withdraw`, `AddLockup` with what the code and the table refuse |
| `RecordNAV`: totals, latest mark, compute, insert | `ReadTotals`, `ReadMark`, `ComputeNAV`, `InsertNAV`; `Abort` anywhere |
| `ON CONFLICT (vault_id, time) DO NOTHING` | `InsertNAV` keeps the row that is there |
| `AvailableCapital`, `ActiveLockups`, `ProportionalPolicy` | operators of the same names |

Each command is a process of its own, so other commands fall between its
statements. Amounts are half units, so that the rounding of `numeric(38,9)` and
of decimal division has something to round. `overlapped` is history.

### BundledStrategies

`Decide` is one call of the strategy's `Decide`; its private state
(`tickCount`, `lastBuyAt`, `history`, `held`) changes at once, the decision's
`swaps` and `orders` are then executed one by one and may fail, and the strategy
is not told. `Restart` builds it anew from its config. `wallet`, `quotes` and
`inventory` are what really happened; `hurt` remembers assets whose swap failed
or was forgotten by a restart. Ranking compares returns and variances in
integers; ties are broken either way, as `sort.Slice` leaves them. Some parsers
let a negative cadence or number of positions through; `Every` and `Top` say what the
code then does with it. Symbol and token resolution, sizes in tokens and the text of
the maker's veto are left out.

### Backtest

`Turn` is one turn of the loop of `Run`: funding, decision, closes, opens, NAV.
The strategy is any choice of at most `MaxCloses` closes and `MaxOpens` opens, in any
order; `Apply` runs the lists as the code does, all closes and then the opens, each on
what the one before left (a recursive function over the list's positions). Funding and
fees are integers that divide evenly (an assumption on the constants); an interval may
be negative, which the reader lets through (`PerStep`). A file is a sequence of rows
with the fields of each that do not parse, the mark price among them; its reader
refuses or returns the rows.

### HedgeBook

Two agents book positions with amounts on one account and one wallet. `OpenTick` and
`CloseTick` are whole ticks, whose swaps and orders are checked in order against what
passed before them (`RunSwaps`, `RunOrders`); the interleavings inside a tick are the
subject of `BasisRuntime`. `ShortShrinks`, `WalletMoves` and `VenuesChange` are
liquidations, transfers and outages behind the agents' backs. `valueOne`,
`decideStatus`, `perpDrift`, `spotDrift`, `relativeBps` and `Reconcile` translate
`internal/pnl` and `internal/reconcile`, fallbacks included.

### Subtensor

| code | model |
|---|---|
| `Venue.Quote`, `Venue.Swap` | `QuoteAndSwap` with `SimSwap`, `TAOToRAO`, `StakeCall` |
| noise trader, bootstrap | `Trade`; `CountBefore`, `CountAfter`, `Started`, `BootFails` |
| `connect`, `signAndSubmit` | `Resolve` (nonce from storage), `Submit` |
| `waitForInclusion` | `Wait`, ended by a head, the deadline or `CutOff` |
| an RPC that is never answered | `Hangs`, `QueryHangs` |
| node (external) | `Accepts`, `Block`, `Drop`, `Register`, `OtherRegisters`, `Deregister` |

TAO amounts are half RAO, so that conversions truncate. A refused extrinsic is one
whose nonce is used up or taken in the pool by one of equal priority; the client sets
no tip. `owner` has who registered each netuid; a registration takes the first that is
free. `disturbed` is history: since a bootstrap counted, somebody else registered, a
subnet was deregistered, or the netuids in use had a gap. A process at `hung` is in an
RPC whose answer never comes: the client gives its RPCs no timeout. Assumed of the
node: a simulation does not return a larger input than was asked for
(`decodeSimSwapResult` takes what it gets). Prices, and whether a dispatch succeeds,
are not looked at by the client and not modelled.

### Hyperliquid

A `Venue` belongs to a process; goroutines share it. `Place` is the size lookup
(`FetchOK`, `FetchFails` when the metadata is older than 30 s) and `Send`; the
cache is a pair of ages, since when it was stored and since when it was asked
for, so that overlapping fetches can arrive in either order. `known` is the
session's map from order id to coin, lost in `Restart`. Assumed of the exchange: it
refuses a client id it has seen, a coin it does not list and a size off its step,
and cancels what an immediate-or-cancel order does not fill.

### MarketStreams

The websocket's reader goroutine is `LoopTop`, `Read`, `SendEvent`, with `parseMessage`
choosing the frames that carry an event; `PingLoopEnds` is the other goroutine.
The feed's `poll` is `PollStart`, `PollSubnet`, `PollEnds`; a full channel
loses a quote there, while the websocket blocks. `ListSubnets` counts a uint16.
`FeedHangs` and `ListHangs` are RPCs that are never answered.

## 3. Runs

| run | configuration | what is checked | size |
|---|---|---|---|
| `core` | two keys, cap 1, each key opened, closed, swapped both ways, quoted or left alone, two ticks, one stop, paper and live with switches, store faults, one key on Bittensor, one without a swap venue, no perp venue | `TypeOK`, `CapRespected`, `BookKept` | 523 k states, 20 s |
| `history` | one key, its spot leg bought in two swaps, or closed; three ticks, two stops, store faults, a perp venue | `DriftIsConfined`, `EveryPositionIsBacked`, `PaperSendsNothing` | 7.6 M states, 150 s |
| `lifecycle` | a live agent and one that cannot be built, three commands, two boots, every fault | `TypeOK`, `HaltHoldsOutsideLoad`, `CalmTripCleansUp` | 1.8 M states, 110 s |
| `boot` | three agents, two commands, two boots | liveness: `BadAgentsDoNotStopTheRest`, `CancelledLoopsEnd` | 9 k states, 20 s |
| `swaps` | two 1inch callers, a Jupiter caller, two calls in all, one revocation | `TypeOK`, `SwapsFollowApproval`, `OwnNoncesDistinct`, `PromiseKept`, liveness: `CallsReturn` | 169 k states, 1 min |
| `accounting` | two commands recording at once, one ledger entry, two agents, three clock steps; or two agents, two tokens, two ticks, two events | `SerialHistory`, `MarkIsPeak`, `AllocationConserves`, `ExposureOvershootIsBounded`, `SnapshotIsPriceNeutral`, `CleanMeansHedged`, `BookedLegsAreClean` | 944 k states, 150 s |
| `strategies` | all five strategies, two subnets, two prices, 36 configs, four ticks, a restart, a failure | `BeliefDriftIsConfined`, `HoldingsAreBounded`, `CadenceBoundsTrading` | 309 k states, 15 s |
| `backtest` | 130 files with ticks on, between and just before the turns | `NAVIsExplained`, `EachTickCountsOnce`, `DrawdownIsLargestDecline` | 30 k states, 25 s |
| `subtensor` | an agent's swap beside a trade; a trade beside a bootstrap of two calls; a bootstrap of three calls; four netuids, two polls, registrations by others, deregistrations | `NothingWaitsBehindAGap`, `ReportsMatchThePool`, `NeverMoreThanAsked`, `UndisturbedStartsItsOwn`, liveness: `CallsReturn` | 259 k states, 65 s |
| `hyperliquid` | two goroutines of a daemon and the kill switch, two orders, or one stream | `OneOrderPerIntent`, `AckMatchesOrder`, `ListedIsCancellable`, `CacheIsFresh`, `NothingIsLost`, liveness: `StreamsEnd` | 504 k states, 105 s |
| `spot_first` | one key | `SpotFirst`, violated | |
| `breakers` | one agent with a daily loss limit, three ticks | `BreakersHalt`, violated | |

Why the bounds are enough. Two keys and a cap of one are the smallest instance
in which one open can take the slot of another; the second tick meets the book,
the stale row and the late landing of the first; a stop can fall between any two
steps. Its decisions include one that swaps each key both ways, so that the other
opens of a tick are checked beside the keys the cap does not bind. It has no perp venue:
the cap and the book see of an order only whether it succeeded, and both outcomes are
possible without one. The history run has the venue with all its outcomes; it needs
only one key, since no property of it relates keys, and three ticks and two stops so
that an open, a failed close and a reopen fit with a restart between each. That an open
comes with two swaps lets one of them fail; a short without a spot leg and a spot leg
without a short come of failures too. The lifecycle run needs a start and a halt of the
same agent with a boot on either side, and a kill after them; a second agent
shows that the wallet is shared. Two swap calls are one caller twice (the second
finds the cache filled, and the allowance perhaps revoked), two callers at once
(both read one pending count), or one on each chain. The theorems of section 4 hold
for every value of these bounds.

In the vault of the `accounting` run two recorders and one other command are what the
history can be out of order by, and a negative value exercises a falling NAV; three clock
steps order three rows. In `strategies` two subnets and two held prices are one rotation, four
ticks fill the window of three and turn it over, and a failure and a restart show each
source of drift alone and both together; the configs hold a zero, a wrong type, a
missing field and the negative numbers that the parsers let through. The files of
`backtest` put a tick at every offset in a step of two units, with funding of both
signs, equal times, a zero and a negative interval and rows that must be refused; two
positions may be open. In the hedge of `accounting`, sizes of 400 make one token exactly
the tolerance of 25 bps, so that 400, 401 and 1 stand at both sides of each boundary; two
opens of one tick are enough to pass the exposure cap. In `subtensor` two clients of the coldkey
are enough to read one nonce, to be refused and to wait behind a drop, and a behaviour
has one pair of them: a swap and a trade, or a trade and a registration that is started.
The amounts lie below, at and above a whole RAO and the u64 bound. The bootstrap that is
alone is run again after its first registration went unseen, so that an old registration
can land late, beside accounts that register at any time; of four netuids one is the
root network and one is taken, so that two can be registered and a deregistration
leaves a gap below or above them. `hyperliquid` needs two orders (one fills while the
other rests) and two fetches at once; the streams need a channel of one, a frame in
it, one in the reader's hand and one behind.

Deadlock is not checked: with the counters at their bounds the
system stops.

Fairness. `BasisRuntime` states none. In `AgentLifecycle` a loop whose tick is due begins it
and a tick ends; that its calls return is justified by the timeouts of the HTTP clients,
and is an assumption for an agent on Bittensor, whose RPCs have none (so that
`CancelledLoopsEnd` is about loops whose tick in flight ends); `select` chooses at random
among ready cases, so a loop that can again and again take `ctx.Done` eventually
does, which is strong fairness of `LoopExit` for cancelled loops; the loader and
`Trip` are straight-line code and run on. Nobody is obliged to type a command,
to send a signal, or to crash. In `SwapVenues` a call that can go on does, since
its HTTP clients have timeouts (30 s for nodes and 1inch, 15 s for Jupiter) and its
polling a budget of 90 s; no chain is obliged to mine anything. In `Subtensor` a
process that is in a call goes on (`Advance`) unless its RPC is never answered
(`Hangs`), which may happen to any of them; the ticker of `waitForInclusion` fires until
its own deadline does. In `MarketStreams` the goroutines run, a read of the websocket
ends by its deadline of 60 s, and an RPC of the feed or of the listing may hang; neither
server, node nor consumer is obliged to do anything.

What the passing runs show:

- `CapRespected`: the phantom entries of `riskSnapshot` do close the race between
  several opens of one tick, in every order and with every failure, for keys that the
  decision swaps one way. A key that it swaps both ways can enter the book beyond the
  cap: `swapOK` is set by the closing swap, so that the short of the failed open takes
  no slot from the shorts after it, and `reconcileOpenBasis` opens the pair. Any
  number of keys can do so in one tick; no strategy in the repository makes such a
  decision, and nothing refuses one. What the property claims of them is that they
  cost the other opens of the tick nothing.
- `BookKept`: whatever is interrupted, the Runtime never does more to its book
  than `BasisBook` allows; in particular a restart restores every key whose last
  change was saved, and a failed load costs the whole book but no row.
- `DriftIsConfined`: memory and rows differ on a key only from a failed store
  call of that key until the next successful one or the next restart.
- `EveryPositionIsBacked`: a live position names a decision whose own swap landed
  and whose own short was accepted, also after crash and hydration. It does not see
  what a purchase that was reported as failed and landed adds to the wallet.
- `PaperSendsNothing`: neither mode is able to leak into the other's venues.
- `HaltHoldsOutsideLoad`: the only way to undo a halt is the loader's write-back; a
  halt that falls between its read and its write is lost.
- `CalmTripCleansUp`: listing, cancelling and then reading positions is the right
  order; orders filled under the kill are flattened.
- `SwapsFollowApproval`: the wait for the approve's receipt, the cache and a
  sibling's approval each put an approve before the swap in the order of nonces,
  also when the approve replaces or is replaced by another caller's transaction. That
  the allowance still stands is not claimed: after a revocation swaps are sent and revert.
- `OwnNoncesDistinct`: the pending count keeps the transactions of one venue
  apart. It says nothing of two: callers that read the count before either sends
  do replace each other's transaction, which the model contains and the promise
  allows (a swap that is `void`, reported as pending).
- `PromiseKept`: neither venue calls a swap confirmed that is not on the chain, or
  sends two in a call (the Bittensor client is another matter, see below).
- `CallsReturn`: a call whose transaction was replaced, and so is never mined,
  ends at the deadline.
- `SerialHistory`, `MarkIsPeak`: recordings that do not overlap leave a history in
  order, whose mark is the highest NAV ever recorded, through rounding, abandoned
  recordings and refused inserts; overlapping ones can lower the mark.
- `AllocationConserves`: the two definitions of an active lockup (the query's and
  the method's) agree at the unlock time, and rounding costs half a unit per agent.
- `BeliefDriftIsConfined`, `HoldingsAreBounded`: a failed swap is never noticed by a
  rotating strategy, but it is the only thing besides a restart that is not, and
  each costs at most a position.
- `CadenceBoundsTrading`: what the clock and the tick counters promise, with the one
  extra buy per process that forgetting `lastBuyAt` allows. It bounds trading from
  above: a purchase that failed is skipped for an interval and violates nothing.
- `NAVIsExplained`, `EachTickCountsOnce`: cash, positions and trades are three
  accounts of one thing and agree; the windows of the turns tile the time. Which turn
  pays a tick is claimed, not how much: a tick is paid for the length of a step (see below).
- `DrawdownIsLargestDecline`: one pass with a running peak equals the definition.
- `ExposureOvershootIsBounded`: phantom entries carry no legs, so the exposure cap
  can be passed within one tick, by at most one leg's cap for each further open.
- `SnapshotIsPriceNeutral`: the two legs' signs, the cost basis and the account's
  unrealized profit cancel, whatever the price did in between.
- `CleanMeansHedged`, `BookedLegsAreClean`: no missed drift beyond the tolerance and
  no false alarm, with the report's rounding and with outages.
- `NothingWaitsBehindAGap`: reading the nonce from storage never leaves an extrinsic
  stuck, at the price that a second one in the same block is refused.
- `ReportsMatchThePool`, `NeverMoreThanAsked`: what the client can promise when it does
  not look for its extrinsic, which is the pool's answer and not a block's.
- `UndisturbedStartsItsOwn`: the count and the two seconds of a bootstrap are enough to
  find its own subnet, also when a registration of an earlier run lands late, but only
  as long as nobody else changes the subnets in between.
- `CallsReturn` of `Subtensor`: failing polls do not prolong a wait past its deadline; an
  RPC that is never answered does.
- `OneOrderPerIntent`: the hash of the client id makes a retry, by whichever process,
  the same order.
- `ListedIsCancellable`, `AckMatchesOrder`, `CacheIsFresh`: the session's map,
  partial fills and overlapping fetches.
- `NothingIsLost`, `StreamsEnd`: a slow consumer delays the websocket; cancelling ends
  every goroutine though nobody reads, except one that waits in a Bittensor RPC. The
  events are those `parseMessage` emits; the other coins of a frame never become one.

What the violations show.

- `spot_first`: `docs/concepts/agent-runtime.md:31` says the order of a failed swap is
  dropped; `executeSwapsThenOrders` (`runtime.go:437`) sends it. No fault of a dependency
  is needed beyond the failed swap.
- `breakers`: `docs/concepts/risk-and-killswitch.md:30` says a tripped breaker halts the
  agent; nothing calls `Policy.Portfolio` (`risk/policy.go:115`), and `riskSnapshot`
  (`runtime.go:488`) sets neither NAV nor mark. An agent past its daily loss limit trades
  on.

Seen while reading. Places where code and words differ or a reader may be
surprised; they are in the models unless said otherwise, and no run is made for them.

Runtime and daemon (`internal/agent`, `internal/cli`):

- "a daemon restart hydrates the same position set" (`runtime.go:516-518`) holds only
  where the store calls worked: their errors are logged and dropped (609), and `Stop`
  itself makes the calls of the tick in flight fail; a stale open row then refuses the
  next insert of its key;
- a reduce-only order that rests drops its position from the book like one that fills;
- the loader writes `running` back after `stop` may have written `halted`
  (`builder.go:522`; `cli/agent.go:132-135` says a later `serve` will not restart it);
- no loop reads the status, so a kill from another process does not stop it
  (`runtime.go:233`; `cli/agent.go:398-400`);
- `set-network` is said to be picked up on the next tick (`cli/agent.go:97`) and is
  read only when a Runtime is built; a tick cancels after it orders
  (`agent-runtime.md:30` says before); an agent in live mode whose chain has no swap
  venue still sends the live short (`runtime.go:639`); `sync.Once` keeps the first
  error of `Warmup` until the process ends (`runtime.go:171`);
- one chain that is configured wrongly (Jito without a bundle URL) keeps every agent
  from being built;
- the status of a flatten order is not looked at (`killswitch.go:157`), and its client
  id is the same for a second kill of the same size.

Risk (`internal/risk`): the first warning hides a later block (were a breaker
evaluated); the leg limit also applies to reduce-only orders and compares the
token amount of a swap back with a limit in USDC (`policy.go:52,87`); market orders
have a notional of zero and pass every cap.

Swaps and chains: the Jupiter venue always quotes 50 basis points
(`swap/jupiter/venue.go:115,142`); the approve cache is filled before the swap and is
not dropped when it fails (`oneinch/venue.go:285`; 37-39 say otherwise), any
allowance above zero is taken as enough, and a quote's expiry is looked at once, before
the approve; a Bittensor swap is confirmed without being looked for
(`extrinsic.go:415`; `runtime.go:619-620`) and ignores the slippage; `ListSubnets(65535)`
never ends. `connectTimeout` (`chain/bittensor/client.go:390`) is called the ceiling of
every RPC and is used nowhere: an RPC that is never answered keeps its call, past
`WaitTimeout` and the context (`Hangs`; `CallsReturn` claims nothing of it). `bittensor
bootstrap` is said to activate the subnets it created (`cli/bittensor.go:233`) and starts
number `countAfter - 1` (292), which is another's when somebody registered in between or
a lower netuid was free (`UndisturbedStartsItsOwn` excepts both).

Strategies and backtest: an interval of zero means four hours, an exit threshold of
zero means -2 %, a negative window panics, `min_yield_delta` is read by nothing,
quotes of the maker are never cancelled (`market_maker.go:157-158` says they drop
naturally); a funding interval of zero panics the replay, and `TotalFees` counts the
fees of an opening again at the close. A tick of funding is paid `step / interval` of
its rate in the one turn whose window it is in (`backtest/runner.go:203`): hourly
ticks under a step of two hours are paid double, and under a step of half an hour,
half.

Exchange and feeds: `exchange.go` says that cancelling an unknown order is no error and
`Venue.Cancel` returns one; an order whose answer is lost is remembered by nobody;
`pingLoop` outlives a read error; the websocket does not reconnect; an `allMids` frame
yields one arbitrary coin; the feed drops the newest quote when its channel is full and
may quote a negative bid; nothing in the repository consumes the feed or the stream. The feed's channel is said to
be closed when the context is cancelled (`feed/bittensor/feed.go:64`); a poll that waits in
an RPC (109) never looks at the context (`FeedHangs`).

Reports: the `realized_*` columns are written by nothing; a position of the account
that no row knows is never reported, and two agents that hold one underlying on one
account see each other's short; `reconcile --json` ignores `--fail-on-drift`.

## 4. Proofs

Every safety property of every passing run is a theorem for all values of the
constants that its module's assumptions admit: all sets of keys, agents, assets, files
and decisions, all bounds. One theorem, `PositionsAreBacked`, has conditions of its own,
on the decisions and on the mode. In each
proof module a `TypeOK` comes first (`TypeCorrect`, `BookTypeCorrect`,
`StrategyTypeCorrect`, `ReplayTypeCorrect`), and each invariant below is inductive
together with it.

`BasisRuntimeProofs`

- `DriftConfined`: inductive by itself. A step either leaves the book alone
  (`QuietKeepsBook`) or is one `Record`, or is `Restart`.
- `CapHolds`: no condition on the decisions; the property itself excepts the keys a
  decision swaps both ways. The cap is not inductive, since the check happens when a
  swap is accepted and the open several steps later. `SlotsHeld` says that every key that
  is opened one way and whose swap succeeded holds a slot, and that slots and tracked
  positions, the excepted ones of this tick apart, fit under the cap together;
  `TickShape` says that what is left to execute comes from the decision, `Dated` that
  only this tick's positions carry its number. An open of a key that is not excepted then
  only turns a slot into a position (`OpensHoldSlots`).
- `RuntimeKeepsBook`: refinement of `BasisBook` with `book` the tracked keys,
  `unsaved` the lost ones and `running` the flag `up`. A step is a `Decide` (a tick
  begins or ends), an `Open`, a `Close`, a `Halt` (the loop returns or the process
  dies), a `Restore` or `Forget`, or a stutter; `Open` needs `CapHolds`' invariant,
  `Restore` needs `DriftIsConfined`.
- `PositionsAreBacked`: by `FlagsAreTrue` (the tick's flags tell what the venues
  did, and the rows are backed as well as the book, for the restart). It assumes
  that the mode does not change (`SwitchModes` is false), that a decision swaps no key
  both ways (`OneWayPerKey`) and that one that opens a key has no other order for it
  (`OneOrderPerOpen`). Without the first, paper positions are hydrated by a live Runtime;
  without the second or the third, a closing leg's success stands in for the opening
  one's. The code checks none of them; the bundled strategies keep the two on decisions.
- `PaperIsQuiet`: an action property that needs no invariant; each step that could
  reach a venue looks at the mode of its own Runtime.

`AgentLifecycleProofs`

- `HaltHolds`: inductive, since the loader can only mark what it holds and a halt of
  what it holds is `raced`.
- `TripCleansUp`: by `TripProgress`, what has been cancelled and flattened so far.

`SwapVenuesProofs`

- `NoncesApart`: by `Numbered`, which says where the numbers seen by the node, mined
  and about to be sent lie. A caller about to send has read a count above every
  number it ever used.
- `ApprovalComesFirst`: by `AllowancesAreReal` (whatever a caller counts on, the
  chain's allowance, its cache or its place in the code, goes back to an approve
  that landed) and `Numbered` (that approve is numbered below what is sent later).
- `VenuesKeepPromise`: refinement of `SwapPromise`, with a call's swap mapped to its
  fate (`FateOf`), by `OneSwapPerCall`.

`SubtensorProofs`

- `NoncesCorrect`: by `NoncesKeepUp`: a nonce that a process resolved is not above the
  account's, and the pool holds at most one extrinsic, which has the account's nonce.
- `ReportsCorrect`: by `AcceptedOnceSent`: what is waited for was taken by the pool, and
  what is not yet submitted was not.
- `AmountsCorrect`: the truncations of the quote and of both conversions only lose,
  given that the node simulates no larger input than it was asked to.
- `BootstrapCorrect`: by `NewestAreItsOwn`: while nobody disturbs it, the netuids in
  use have no gap and all from its first count on are the bootstrap's, so that the
  last one by number is; with the failures, drops and late inclusions of its own
  extrinsics.

`HyperliquidProofs`

- `CacheStaysFresh`: by `StampsAreLate`, a snapshot is stamped no later than a timeout
  after it was asked for, also when a slower fetch overwrites a quicker one.
- `IntentsOnce`: by `OrdersAreIntents`, what the exchange holds came from an intent.
- `AcksCorrect`, `ListedCancellable`: by `AckedExists` and `ListedExist`; an order id that
  a session holds is one the exchange gave out.
- `NothingLost`: by `HeldIsMissing`, the event in the reader's hand is exactly what the
  channel and the consumer do not have yet.

`AccountingProofs`

- `HistoryCorrect`, `MarkCorrect`: by `RowsAreReadings` (what is recorded was read from
  the ledger and the clock, a mark is no less than its NAV, a row has a time of its own)
  and `AloneAndAhead` (what an undisturbed recording has gathered so far is ahead of every
  row); `MarkCorrect` also by `MarksWereReached` (every mark, drafts included, is a NAV that
  was recorded, or zero).
- `AllocationCorrect`: rounding is off by half a unit at most for each share, and a sum
  over the weighted agents adds these up.
- `ExposureCorrect`: the exposure is a sum over the rows; a decision's first open is
  checked against it and each further one adds at most one leg's cap.
- `SnapshotCorrect`: by `SnapshotsAddUp`: a snapshot's NAV is the sum of its positions, and
  a hedge that could be marked is worth what its legs were sold and bought for less the
  premium, whatever the price was. The live valuation adds up in the same way.
- `CleanReportCorrect`, `BookedReportCorrect`: no induction; a lemma says what one
  line of the report means for its row (`RowChecked`), for all amounts and outages.

`StrategyProofs`

- `BeliefCorrect`, `HoldingsCorrect`: by `RotationInv`. `Due` is what the wallet would hold
  by now: the belief without the entries, and with the exits, that have not run yet. It
  never has more than `Top` members (`RotationInOrder`), the wallet is as due except on
  `hurt` assets (`WalletIsAsDue`), and what it holds beyond that was forgotten by a
  restart or is an exit that failed (`SurplusIsBounded`).
- `CadenceCorrect`: by `CadenceInv`: buys have used up time since the process began, or
  ticks, and the quotes at the exchange have used up refreshes.
- `NAVCorrect`, `TicksCorrect`: by `ReplayInv`: cash and what the open positions cost
  are the starting NAV and what the closed trades made (`CashIsAccountedFor`); each
  open position was credited exactly the ticks between its opening and the last turn
  (`FundedSoFar`); turns fall on whole steps and the last one is not before any tick
  (`TurnsInStep`). A decision of any length keeps this, by induction over its closes
  and its opens (`CloseKeeps`, `OpenKeeps`, `ApplyKeeps`).
- `DrawdownReportCorrect`: along the curve, the running peak is the maximum so far and
  the noted decline is the largest so far.

`SumLemmas` holds what the library's operators need. `SumFunctionOnSet` and the loop of
`Apply` are recursive functions; that these exist, and what they return, is shown by
an induction stated over sets (a set of subsets that contains the empty one and is
closed under adding an element; an interval likewise), which the provers can use
although they cannot instantiate the induction theorems of the library.

What is assumed of the constants, and why the code justifies it. A client id fixes
coin and size: `DeriveClientID` (`pkg/types/order.go`) hashes both. Noise amounts fit
a u64: larger flags, whose conversion in `uint64(amt * 1e9)` (`cli/bittensor.go:132`)
Go leaves to the platform, are left out. Netuids are among the subnets the chain can
have. A limit order is priced no further below the mark than the price itself: a price
is not negative. A window is not negative: slicing the history with a negative one
panics at the first tick. Notionals of the backtest are natural, and its shares and
fees whole units: the code's decimals are finer, and the units are as fine as one
likes. Sets of keys, agents, assets and subnets are finite. Nothing is assumed of
timing, of the number of callers, or of the order of blocks.

Only model-checked: the liveness properties (`BadAgentsDoNotStopTheRest`,
`CancelledLoopsEnd`, `CallsReturn` of `SwapVenues` and of `Subtensor`, `StreamsEnd`).
Temporal reasoning under fairness needs `ENABLED`, which is beyond the prover.

## 5. Not modelled

- **HTTP API, desk, reports, `doctor`, wizards, `create`, `list`, `logs`,
  scaffolding.** They read rows and print, or ask and write one file; nothing outlives
  the command that another component could disagree with.
- **Wallet and keystore.** Encryption, key derivation and signatures are computations
  over bytes; that the file can be opened, and for which chains it has a key, is an
  input of `AgentBuilder`.
- **Inference.** A request and its answer; the maker's veto treats every answer as
  possible.
- **Configuration, assets, logging, migrations, connection pool.** Tables and parsing;
  what configuration decides about venues is in `AgentBuilder`.
- **Positions and balances of the exchange** are reads and appear as what they return.
- **`Supervisor.Trip`, `TripAll`.** No caller outside tests.
- **Two Runtimes of one agent** (`serve` and `agent run`) over one book. Each counts its
  own positions and the code has nothing to hold between them; `AgentLifecycle` has both
  hosts for the kill switch only. The same goes for the second liquidation by a second
  kill.
- **Prices and slippage of 1inch and Jupiter calls, gas, encodings.**
