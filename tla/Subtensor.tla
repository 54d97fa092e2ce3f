----------------------------- MODULE Subtensor -----------------------------
(***************************************************************************)
(* The writing side of the Bittensor integration: processes that share one *)
(* coldkey (agents trading through the swap venue, the noise trader, the   *)
(* bootstrap command), each with a Client of its own, which builds a call, *)
(* signs it with the nonce it reads from storage, submits it and waits.    *)
(* The chain and its transaction pool are external and modelled from what  *)
(* the client asks of them.  No RPC of the client has a timeout, so any of *)
(* them may stay unanswered for ever.                                      *)
(*                                                                         *)
(* TAO amounts are decimals; the model counts them in half RAO, so that    *)
(* the conversions to RAO have something to truncate.                      *)
(***************************************************************************)
EXTENDS Integers, FiniteSets

CONSTANTS
    Agents,        \* processes that trade through swap/bittensor
    Enabled,       \* the agents whose venue was built with AllowSubmit
    Noise,         \* noise-trader processes
    Bootstraps,    \* bootstrap commands
    Count,         \* bootstrap --count
    Amounts,       \* what strategies ask to swap, in half RAO
    NoiseAmounts,  \* what the noise trader draws, in half RAO
    Netuids,       \* the subnets traded
    MaxU64,        \* the largest RAO amount a u64 holds
    MaxPolls,      \* polls of the finalized head within WaitTimeout
    MaxCalls,      \* bound: calls of each process
    MaxSubnets     \* bound: subnets that exist at a time, the root network included

Procs == Agents \cup Noise \cup Bootstraps

ASSUME SubtensorAssumption ==
    /\ Enabled \subseteq Agents
    /\ Agents \cap Noise = {} /\ Agents \cap Bootstraps = {} /\ Noise \cap Bootstraps = {}
    /\ Count \in Nat \ {0} /\ MaxPolls \in Nat \ {0}
    /\ Amounts \subseteq Int /\ NoiseAmounts \subseteq Nat
    /\ MaxU64 \in Nat \ {0} /\ \A a \in NoiseAmounts : a \div 2 <= MaxU64
    /\ MaxCalls \in [Procs -> Nat] /\ MaxSubnets \in Nat \ {0}
    /\ Netuids \subseteq 1 .. MaxSubnets - 1
    /\ {"none", "other"} \cap Procs = {}

VARIABLES
    nonce,      \* external: System.Account(coldkey).nonce
    pool,       \* external: the coldkey's extrinsics waiting in the node's pool
    owner,      \* external: who registered each netuid ("none": it is free)
    proc,       \* what each process is doing
    boot        \* the local variables of the bootstrap commands

chainVars == <<nonce, pool, owner>>

vars == <<nonce, pool, owner, proc, boot>>

NoCall == [kind |-> "none", netuid |-> 0, rao |-> 0]

---------------------------------------------------------------------------
(* Units.                                                                  *)

RAOToTAO(rao) == 2 * rao

\* Mutant of TAOToRAO: rounds half a RAO up instead of truncating it.
RoundsUp(tao) == IF tao < 0 THEN 0 ELSE IF (tao + 1) \div 2 > MaxU64 THEN MaxU64 ELSE (tao + 1) \div 2

TAOToRAO(tao) == IF tao < 0 THEN 0 ELSE IF tao \div 2 > MaxU64 THEN MaxU64 ELSE tao \div 2

---------------------------------------------------------------------------
(* The calls the client builds.  limit_price and allow_partial are         *)
(* constants of the code: any price, partial fills allowed.                *)

AddStakeCall(netuid, rao) == [kind |-> "add_stake_limit", netuid |-> netuid, rao |-> rao]

RemoveStakeCall(netuid, rao) == [kind |-> "remove_stake_limit", netuid |-> netuid, rao |-> rao]

RegisterNetworkCall == [kind |-> "register_network", netuid |-> 0, rao |-> 0]

StartCallCall(netuid) == [kind |-> "start_call", netuid |-> netuid, rao |-> 0]

StakeCall(isBuy, netuid, rao) ==
    IF isBuy THEN AddStakeCall(netuid, rao) ELSE RemoveStakeCall(netuid, rao)

---------------------------------------------------------------------------
(* A process is a record: where it is, the amount its strategy asked for,  *)
(* the call it is making with its number, the nonce it signs with, the     *)
(* polls it has made, and what its last call reported ("cut off" is a      *)
(* failure after the extrinsic was sent).  "fate" is history: whether the  *)
(* pool took the extrinsic of that last call.  A process at "hung" is in   *)
(* an RPC whose answer never comes.                                        *)

At(pc, asked, call, n, report, fate) ==
    [pc |-> pc, asked |-> asked, call |-> call, n |-> n,
     nonce |-> 0, polls |-> 0, report |-> report, fate |-> fate]

Idle(n, report, fate) == At("idle", 0, NoCall, n, report, fate)

Hung(n, fate) == At("hung", 0, NoCall, n, "none", fate)

\* The locals of the command.  "disturbed" is history: since the command counted,
\* somebody else registered a subnet, one was deregistered, or a netuid below
\* the count was free.
BootAt(pc, before, netuid, made, disturbed) ==
    [pc |-> pc, before |-> before, netuid |-> netuid, made |-> made, disturbed |-> disturbed]

NoBoot == BootAt("idle", 0, 0, 0, FALSE)

\* The root network is netuid 0.
Slots == 0 .. MaxSubnets - 1

Live == {n \in Slots : owner[n] # "none"}

Init ==
    /\ nonce = 0 /\ pool = {}
    /\ owner = [n \in Slots |-> IF n \in Netuids \cup {0} THEN "other" ELSE "none"]
    /\ proc = [p \in Procs |-> Idle(0, "none", "unsent")]
    /\ boot = [p \in Bootstraps |-> NoBoot]

\* The process after its call, with a report to its caller.  The venue hands
\* on only the error of a failed call: the hash of an extrinsic that was
\* accepted is dropped with it.
After(p, report) == Idle(proc[p].n, report, proc[p].fate)

Returns(p, report) == proc' = [proc EXCEPT ![p] = After(p, report)]

\* A call that fails before there is anything to sign.
NotStarted(p) == proc' = [proc EXCEPT ![p] = Idle(@.n + 1, "failed", "unsent")]

\* The first half of every client method builds the call.
Invoke(p, asked, call) ==
    proc' = [proc EXCEPT ![p] = At("resolve", asked, call, @.n + 1, "none", "unsent")]

\* Mutant of NonceFor: the next index after the account's pooled extrinsics.
NonceAfterPool(p) == nonce + Cardinality(pool) + (IF proc[p].n > 1 THEN 1 ELSE 0)

\* The nonce an extrinsic is signed with: the one in storage now.
NonceFor(p) == nonce

\* connect, unless the client holds a connection, and signAndSubmit up to the
\* signature: genesis hash, runtime version and account.  Each may fail, and
\* fails alike.  The reads are separate RPCs of which only the account's can
\* change, so that they count as one step.
Resolve(p) ==
    /\ proc[p].pc = "resolve"
    /\ \/ proc' = [proc EXCEPT ![p].pc = "submit", ![p].nonce = NonceFor(p)]
       \/ Returns(p, "failed")
    /\ UNCHANGED <<nonce, pool, owner, boot>>

\* The signed extrinsic.
Extrinsic(p) == [nonce |-> proc[p].nonce, kind |-> proc[p].call.kind, by |-> p]

\* External: the pool takes an extrinsic whose nonce is not used up and
\* that does not compete with one of the same nonce and the same tip.
Accepts(x) ==
    /\ x.nonce >= nonce
    /\ \A y \in pool : y.nonce # x.nonce

\* author_submitExtrinsic: accepted, refused, or accepted with the answer lost.
Submit(p) ==
    /\ proc[p].pc = "submit"
    /\ \/ /\ Accepts(Extrinsic(p))
          /\ pool' = pool \cup {Extrinsic(p)}
          /\ \/ proc' = [proc EXCEPT ![p] = At("wait", 0, NoCall, @.n, "none", "pooled")]
             \/ proc' = [proc EXCEPT ![p] = Idle(@.n, "cut off", "pooled")]
       \/ /\ ~Accepts(Extrinsic(p))
          /\ Returns(p, "failed") /\ UNCHANGED pool
       \/ Returns(p, "failed") /\ UNCHANGED pool
    /\ UNCHANGED <<nonce, owner, boot>>

\* Mutant of TimedOut: a wait that outlives its deadline is an error.
TimeoutFails(p) == Returns(p, "failed")

\* The deadline passes: the call succeeds without having seen anything.
TimedOut(p) == Returns(p, "ok")

\* Mutant of PollFails: the deadline is renewed while polls fail.
PollsForEver(p) == proc' = [proc EXCEPT ![p].polls = (@ + 1) % MaxPolls]

\* GetFinalizedHead fails: wait for the next tick.
PollFails(p) == proc' = [proc EXCEPT ![p].polls = @ + 1]

\* waitForInclusion: the first finalized head that can be read, whatever it
\* holds, is success; so is the deadline.
Wait(p) ==
    /\ proc[p].pc = "wait"
    /\ \/ proc[p].polls < MaxPolls /\ Returns(p, "ok")
       \/ proc[p].polls < MaxPolls /\ PollFails(p)
       \/ proc[p].polls = MaxPolls /\ TimedOut(p)
    /\ UNCHANGED <<nonce, pool, owner, boot>>

\* The context of the wait is cancelled (shutdown, stop of the agent,
\* interrupt): the call fails, and so does a bootstrap.
CutOff(p) ==
    /\ proc[p].pc = "wait"
    /\ proc' = [proc EXCEPT ![p] = After(p, "cut off")]
    /\ boot' = IF p \in Bootstraps THEN [boot EXCEPT ![p] = NoBoot] ELSE boot
    /\ UNCHANGED chainVars

\* The RPC that a call is in is never answered.  signAndSubmit and
\* waitForInclusion pass it neither their context nor a timeout, and the poll of
\* the finalized head looks at the deadline and the context only between RPCs.
Hangs(p) ==
    /\ proc[p].pc \in {"resolve", "submit", "wait"}
    /\ proc[p].pc = "wait" => proc[p].polls < MaxPolls
    /\ \/ /\ proc' = [proc EXCEPT ![p] = Hung(@.n, @.fate)]
          /\ UNCHANGED pool
       \/ /\ proc[p].pc = "submit" /\ Accepts(Extrinsic(p))
          /\ pool' = pool \cup {Extrinsic(p)}
          /\ proc' = [proc EXCEPT ![p] = Hung(@.n, "pooled")]
    /\ UNCHANGED <<nonce, owner, boot>>

\* The same of a quote or of a count of the subnets.
QueryHangs(p) ==
    /\ proc[p].pc = "idle" /\ proc[p].n < MaxCalls[p]
    /\ p \in Bootstraps /\ boot[p].pc # "idle" => proc[p].report = "ok"
    /\ proc' = [proc EXCEPT ![p] = Hung(@.n + 1, "unsent")]
    /\ UNCHANGED <<nonce, pool, owner, boot>>

---------------------------------------------------------------------------
(* The swap venue.                                                         *)

\* swap_simSwapTaoForAlpha and swap_simSwapAlphaForTao: the pool takes the
\* amount or a part of it.  The client takes the answer as it comes: that it
\* does not exceed what was asked is an assumption about the node.
SimSwap(rao) == 0 .. rao

\* Venue.Quote: the simulation says how much of the amount the pool takes.
Quote(amount) == {RAOToTAO(in) : in \in SimSwap(TAOToRAO(amount))}

\* Venue.Swap of a quote: an expired quote and a venue that may not submit are
\* refused before anything is built; the slippage budget is not used.
Swap(p, isBuy, netuid, amount, quoted) ==
    \/ NotStarted(p)
    \/ p \in Enabled /\ Invoke(p, amount, StakeCall(isBuy, netuid, TAOToRAO(quoted)))

\* An agent quotes and swaps.  Nothing Swap does depends on what the chain did
\* since the quote, except that the quote may have expired.
QuoteAndSwap(p) ==
    /\ proc[p].pc = "idle" /\ proc[p].n < MaxCalls[p]
    /\ \E isBuy \in BOOLEAN, netuid \in Netuids, amount \in Amounts : \E quoted \in Quote(amount) :
          Swap(p, isBuy, netuid, amount, quoted)
    /\ UNCHANGED <<nonce, pool, owner, boot>>

---------------------------------------------------------------------------
(* The noise trader: a random stake or unstake, never of zero RAO.         *)

NoiseRao(a) == IF a \div 2 = 0 THEN 1 ELSE a \div 2

Trade(p) ==
    /\ proc[p].pc = "idle" /\ proc[p].n < MaxCalls[p]
    /\ \E isBuy \in BOOLEAN, netuid \in Netuids, amount \in NoiseAmounts :
          Invoke(p, amount, StakeCall(isBuy, netuid, NoiseRao(amount)))
    /\ UNCHANGED <<nonce, pool, owner, boot>>

---------------------------------------------------------------------------
(* The bootstrap command: count, register_network, count again, start_call *)
(* for the last netuid, Count times over; the first error ends it.         *)

SubnetCount == Cardinality(Live)

Gap == Live # 0 .. SubnetCount - 1

\* The number of subnets, then register_network.
CountBefore(p) ==
    /\ proc[p].pc = "idle" /\ boot[p].pc = "idle" /\ proc[p].n < MaxCalls[p]
    /\ Invoke(p, 0, RegisterNetworkCall)
    /\ boot' = [boot EXCEPT ![p] = BootAt("register", SubnetCount, 0, @.made, Gap)]
    /\ UNCHANGED chainVars

\* Mutant of Grew: accepts an unchanged count.
GrewOrNot(p) == SubnetCount >= boot[p].before

\* countAfter > countBefore.
Grew(p) == SubnetCount > boot[p].before

Registered(p) == proc[p].pc = "idle" /\ boot[p].pc = "register" /\ proc[p].report = "ok"

\* The second count, two seconds later, and start_call.
CountAfter(p) ==
    /\ Registered(p) /\ Grew(p) /\ proc[p].n < MaxCalls[p]
    /\ Invoke(p, 0, StartCallCall(SubnetCount - 1))
    /\ boot' = [boot EXCEPT ![p] = BootAt("start", @.before, SubnetCount - 1, @.made, @.disturbed)]
    /\ UNCHANGED chainVars

\* The subnet is started: the next one, or the end of the command.
Started(p) ==
    /\ proc[p].pc = "idle" /\ boot[p].pc = "start" /\ proc[p].report = "ok"
    /\ boot' = [boot EXCEPT ![p] = BootAt("idle", 0, 0, IF @.made + 1 = Count THEN 0 ELSE @.made + 1, FALSE)]
    /\ UNCHANGED <<nonce, pool, owner, proc>>

\* The command ends with an error: a failed call, a count that cannot be read
\* or one that did not grow.
BootFails(p) ==
    /\ proc[p].pc = "idle" /\ boot[p] # NoBoot
    /\ \/ boot[p].pc = "idle" \/ Registered(p)
       \/ proc[p].report \in {"failed", "cut off"}
    /\ boot' = [boot EXCEPT ![p] = NoBoot]
    /\ UNCHANGED <<nonce, pool, owner, proc>>

---------------------------------------------------------------------------
(* The chain (external).                                                   *)

\* What a bootstrap other than "who" has counted is no longer true.
Disturb(who) ==
    boot' = [p \in Bootstraps |->
                [boot[p] EXCEPT !.disturbed = @ \/ (boot[p].pc # "idle" /\ p # who)]]

\* A registration takes the first free netuid.
Register(who) ==
    \E n \in Slots \ Live :
        /\ \A m \in Slots \ Live : n <= m
        /\ owner' = [owner EXCEPT ![n] = who]
        /\ Disturb(who)

\* A block takes the extrinsic whose nonce is due; its dispatch may fail.
Block ==
    \E x \in pool :
        /\ x.nonce = nonce
        /\ nonce' = nonce + 1 /\ pool' = pool \ {x}
        /\ \/ x.kind = "register_network" /\ Register(x.by)
           \/ UNCHANGED <<owner, boot>>
        /\ UNCHANGED proc

\* The node drops an extrinsic: it restarted, or the extrinsic became invalid.
Drop ==
    \E x \in pool :
        /\ pool' = pool \ {x}
        /\ UNCHANGED <<nonce, owner, proc, boot>>

\* Somebody else registers a subnet.
OtherRegisters == Register("other") /\ UNCHANGED <<nonce, pool, proc>>

\* A subnet is deregistered; its netuid becomes free.
Deregister ==
    \E n \in Live \ {0} :
        /\ owner' = [owner EXCEPT ![n] = "none"]
        /\ Disturb("other")
        /\ UNCHANGED <<nonce, pool, proc>>

---------------------------------------------------------------------------
Advance(p) == Resolve(p) \/ Submit(p) \/ Wait(p)

Next ==
    \/ \E p \in Procs : Advance(p) \/ CutOff(p) \/ Hangs(p)
    \/ \E p \in Agents \cup Bootstraps : QueryHangs(p)
    \/ \E p \in Agents : QuoteAndSwap(p)
    \/ \E p \in Noise : Trade(p)
    \/ \E p \in Bootstraps : CountBefore(p) \/ CountAfter(p) \/ Started(p) \/ BootFails(p)
    \/ Block \/ Drop \/ OtherRegisters \/ Deregister

\* The goroutine of a call runs, and so does the ticker of its wait.  An RPC
\* may nevertheless never come back: Hangs takes the process out of Advance.
Spec == Init /\ [][Next]_vars /\ \A p \in Procs : WF_vars(Advance(p))

---------------------------------------------------------------------------
Kinds == {"add_stake_limit", "remove_stake_limit", "register_network", "start_call"}

Calls == [kind : Kinds, netuid : 0 .. MaxSubnets, rao : 0 .. MaxU64]

States == [pc : {"idle", "resolve", "submit", "wait", "hung"}, asked : Int, call : Calls \cup {NoCall},
           n : Nat, nonce : Nat, polls : 0 .. MaxPolls,
           report : {"none", "ok", "failed", "cut off"}, fate : {"unsent", "pooled"}]

BootStates == [pc : {"idle", "register", "start"}, before : 0 .. MaxSubnets,
               netuid : 0 .. MaxSubnets, made : 0 .. Count - 1, disturbed : BOOLEAN]

\* What a process can be: its call is held until it is sent.
ProcOK(p, s) ==
    /\ s \in States /\ s.n <= MaxCalls[p]
    /\ (s.pc \in {"resolve", "submit"}) <=> (s.call # NoCall)

\* Types: amounts fit a u64 once they are RAO, a process holds a call only until
\* it is sent, and every pooled extrinsic is a call the client builds.
TypeOK ==
    /\ nonce \in Nat /\ owner \in [Slots -> Procs \cup {"none", "other"}]
    /\ pool \subseteq [nonce : Nat, kind : Kinds, by : Procs]
    /\ proc \in [Procs -> States] /\ boot \in [Bootstraps -> BootStates]
    /\ \A p \in Procs : ProcOK(p, proc[p])

\* Because every extrinsic is signed with the nonce of storage, nothing ever
\* waits in the pool behind a nonce that nobody will use: the coldkey has at
\* most one extrinsic there, and the next block can take it.  (The price: two
\* swaps of one tick get the same nonce and the second is refused.)
NothingWaitsBehindAGap ==
    /\ \A x \in pool : x.nonce = nonce
    /\ Cardinality(pool) <= 1

\* What a caller is told agrees with the pool: a call reported as successful
\* was accepted, and a call reported as failed was not, unless its wait was
\* cut off or the answer to its submission was lost.
ReportsMatchThePool ==
    \A p \in Procs :
        /\ proc[p].report = "ok" => proc[p].fate = "pooled"
        /\ proc[p].report = "failed" => proc[p].fate = "unsent"

\* Through the quote and both unit conversions, a swap never moves more than
\* the strategy asked for, fractions of a RAO and amounts past u64 included,
\* provided the node simulates no larger input than it was asked to.
NeverMoreThanAsked ==
    \A p \in Agents :
        proc[p].call # NoCall => RAOToTAO(proc[p].call.rao) <= (IF proc[p].asked < 0 THEN 0 ELSE proc[p].asked)

\* Left undisturbed, a bootstrap starts a subnet that it registered itself:
\* although its wait looks for no inclusion and a failed registration may land
\* later, the count grows by its own registrations only, and countAfter - 1 is
\* the last of them.
UndisturbedStartsItsOwn ==
    \A p \in Bootstraps :
        boot[p].pc = "start" /\ ~boot[p].disturbed => owner[boot[p].netuid] = p

\* The inductive form of UndisturbedStartsItsOwn: the netuids in use have no gap,
\* and those past the first count are the bootstrap's.
LastAreItsOwn(p) ==
    \E m \in Nat :
        /\ Live = 0 .. m - 1 /\ boot[p].before <= m
        /\ \A n \in boot[p].before .. m - 1 : owner[n] = p
        /\ boot[p].pc = "start" => boot[p].netuid \in boot[p].before .. m - 1

NewestAreItsOwn ==
    \A p \in Bootstraps : boot[p].pc # "idle" /\ ~boot[p].disturbed => LastAreItsOwn(p)

\* The inductive form of NothingWaitsBehindAGap: a nonce that was read is never
\* ahead of storage, and the pool has one extrinsic, with the nonce that is due.
NoncesKeepUp ==
    /\ \A p \in Procs : proc[p].pc = "submit" => proc[p].nonce <= nonce
    /\ \A x, y \in pool : x = y /\ x.nonce = nonce

\* The inductive form of ReportsMatchThePool: what is being waited for was
\* accepted, what is not yet sent was not.
AcceptedOnceSent ==
    \A p \in Procs : /\ proc[p].pc = "wait" => proc[p].fate = "pooled"
                     /\ proc[p].pc \in {"resolve", "submit"} => proc[p].fate = "unsent"

\* Every call returns unless the node leaves one of its RPCs unanswered, even
\* when every poll of the finalized head fails.
CallsReturn ==
    \A p \in Procs : proc[p].pc \in {"resolve", "submit", "wait"} ~> proc[p].pc \in {"idle", "hung"}
=============================================================================
