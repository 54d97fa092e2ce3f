--------------------------- MODULE AgentLifecycle ---------------------------
(***************************************************************************)
(* Who runs an agent and who stops it: the status column of the agents     *)
(* table, the daemon that loads running agents once per boot (builder.go,  *)
(* serve.go), the tick loops it or a foreground `agent run` owns           *)
(* (runtime.go), and the operator's start, stop and kill commands, the     *)
(* last with the steps of Runtime.Trip (killswitch.go).  They share        *)
(* Postgres and the perp wallet and nothing else.                          *)
(*                                                                         *)
(* What one tick does is the subject of BasisRuntime; here it may touch    *)
(* the agent's order, position and basis row, one of each per agent.       *)
(***************************************************************************)
EXTENDS Naturals

CONSTANTS
    Agents,
    Live,            \* the agents in live mode
    Broken,          \* in each process: agents whose BuildDeps or Warmup fails
    Unwired,         \* agents whose spot chain has no SwapVenue in `agent kill`
    Foreground,      \* agents somebody may `agent run`
    LiquidateSpot,   \* the --liquidate-spot flag of kill
    Faults,          \* what may fail, of FaultKinds
    MaxCommands,     \* bound: start, stop and kill commands
    MaxBoots         \* bound: starts of the daemon

ASSUME AgentsAssumption ==
    Live \subseteq Agents /\ Broken \in [{"daemon", "shell", "kill"} -> SUBSET Agents] /\ Unwired \subseteq Agents
      /\ Foreground \subseteq Agents

\* Reading the agents table at boot, writing a status, a call of Trip, a process.
FaultKinds == {"read", "write", "trip", "process"}

ASSUME FlagsAssumption == LiquidateSpot \in BOOLEAN /\ Faults \subseteq FaultKinds
ASSUME BoundsAssumption == MaxCommands \in Nat /\ MaxBoots \in Nat

VARIABLES
    status,          \* agents.status
    daemon,          \* where Serve is
    term,            \* has the daemon's signal context been cancelled?
    todo,            \* agents of Loader's list not yet looked at
    marking,         \* the agent just started, its status not yet re-set
    loop,            \* every tick loop: of the daemon or of the foreground run
    cancelled,       \* loops whose context is done
    orders,          \* external: agents with an order resting in the wallet
    positions,       \* external: agents with an open perp position
    basis,           \* agents with an open row in strategy_positions
    killPc, killer,  \* where Trip is, and for which agent
    killList,        \* what Trip has still to cancel or to flatten
    killErr,         \* firstErr # nil
    answered,        \* positions whose closing order Place acknowledged
    sold,            \* agents whose spot leg Trip has submitted for sale
    calm,            \* history: no loop has traded since the kill began
    halted,          \* history: agents whose last command halted them
    raced,           \* history: those halted while the loader held them
    commands, boots  \* counters of the bounds

bootVars    == <<daemon, term, todo, marking, boots>>
loopVars    == <<loop, cancelled>>
walletVars  == <<orders, positions, basis>>
killVars    == <<killPc, killer, killList, killErr, answered, sold>>
commandVars == <<halted, raced, commands>>
vars        == <<status, bootVars, loopVars, walletVars, killVars, calm, commandVars>>

Hosts == {"daemon", "shell"}
Loops == Hosts \X Agents
OwnedBy(h) == {h} \X Agents

\* Agents the loader has read as running and will still start or mark.
Held == todo \union marking

Init ==
    /\ status = [a \in Agents |-> "stopped"]
    /\ daemon = "down" /\ term = FALSE /\ todo = {} /\ marking = {}
    /\ loop = [l \in Loops |-> "none"] /\ cancelled = {}
    /\ orders = {} /\ positions = {} /\ basis = {}
    /\ killPc = "none" /\ killer = {} /\ killList = {} /\ killErr = FALSE
    /\ answered = {} /\ sold = {} /\ calm = FALSE
    /\ halted = {} /\ raced = {}
    /\ commands = 0 /\ boots = 0

-----------------------------------------------------------------------------
(* A tick loop.                                                            *)

BeginTick(l) ==
    /\ loop[l] = "idle"
    /\ loop' = [loop EXCEPT ![l] = "tick"]
    /\ UNCHANGED <<status, bootVars, cancelled, walletVars, killVars, calm, commandVars>>

\* A tick of a live agent places, cancels or fills an order, changes its
\* position or its row.  Venue and store calls fail once the context is done.
Trade(l) ==
    /\ loop[l] = "tick" /\ l \notin cancelled /\ l[2] \in Live
    /\ \/ orders' \in {orders \union {l[2]}, orders \ {l[2]}} /\ UNCHANGED <<positions, basis>>
       \/ positions' \in {positions \union {l[2]}, positions \ {l[2]}} /\ UNCHANGED <<orders, basis>>
       \/ basis' \in {basis \union {l[2]}, basis \ {l[2]}} /\ UNCHANGED <<orders, positions>>
    /\ calm' = FALSE
    /\ UNCHANGED <<status, bootVars, loopVars, killVars, commandVars>>

EndTick(l) ==
    /\ loop[l] = "tick"
    /\ loop' = [loop EXCEPT ![l] = "idle"]
    /\ UNCHANGED <<status, bootVars, cancelled, walletVars, killVars, calm, commandVars>>

\* Mutant of LoopExit: the daemon's select has no case for ctx.Done.
ExitShellOnly(l) ==
    /\ loop[l] = "idle" /\ l[1] = "shell"
    /\ loop' = [loop EXCEPT ![l] = "none"]
    /\ cancelled' = cancelled \ {l}
    /\ UNCHANGED <<status, bootVars, walletVars, killVars, calm, commandVars>>

\* Between ticks, select may take ctx.Done; a foreground run may also have
\* reached its --ticks.
LoopExit(l) ==
    /\ loop[l] = "idle" /\ (l \in cancelled \/ l[1] = "shell")
    /\ loop' = [loop EXCEPT ![l] = "none"]
    /\ cancelled' = cancelled \ {l}
    /\ UNCHANGED <<status, bootVars, walletVars, killVars, calm, commandVars>>

\* A process that ends takes its loops with it, in mid tick or not.
LoopsGone(h) ==
    /\ loop' = [l \in Loops |-> IF l[1] = h THEN "none" ELSE loop[l]]
    /\ cancelled' = cancelled \ OwnedBy(h)

-----------------------------------------------------------------------------
(* The foreground run of an agent.  It does not look at the status.        *)

Run(a) ==
    /\ a \in Foreground \ Broken["shell"] /\ loop[<<"shell", a>>] = "none"
    /\ loop' = [loop EXCEPT ![<<"shell", a>>] = "tick"]
    /\ UNCHANGED <<status, bootVars, cancelled, walletVars, killVars, calm, commandVars>>

Interrupt(a) ==
    /\ loop[<<"shell", a>>] # "none"
    /\ cancelled' = cancelled \union {<<"shell", a>>}
    /\ UNCHANGED <<status, bootVars, loop, walletVars, killVars, calm, commandVars>>

-----------------------------------------------------------------------------
(* The daemon.                                                             *)

Boot ==
    /\ daemon = "down" /\ boots < MaxBoots
    /\ daemon' = "list" /\ boots' = boots + 1
    /\ UNCHANGED <<status, term, todo, marking, loopVars, walletVars, killVars, calm, commandVars>>

\* Mutant of ListRunning: every agent is started.
ListEverything ==
    /\ daemon = "list"
    /\ daemon' = "load" /\ todo' = Agents
    /\ UNCHANGED <<status, term, marking, boots, loopVars, walletVars, killVars, calm, commandVars>>

\* LoadAndStartRunning lists the agents and keeps the running ones.  The
\* status is read here and not again; without a list nothing is loaded.
ListRunning ==
    /\ daemon = "list"
    /\ \/ ~term /\ daemon' = "load" /\ todo' = {a \in Agents : status[a] = "running"}
       \/ (term \/ "read" \in Faults) /\ daemon' = "serve" /\ UNCHANGED todo
    /\ UNCHANGED <<status, term, marking, boots, loopVars, walletVars, killVars, calm, commandVars>>

\* Mutant of LoadAgent: a bad agent ends the load.
LoadUntilBroken(a) ==
    /\ daemon = "load" /\ marking = {} /\ a \in todo
    /\ IF a \in Broken["daemon"]
       THEN todo' = {} /\ UNCHANGED <<loop, marking>>
       ELSE /\ todo' = todo \ {a}
            /\ loop' = [loop EXCEPT ![<<"daemon", a>>] = "tick"]
            /\ marking' = {a}
    /\ UNCHANGED <<status, daemon, term, boots, cancelled, walletVars, killVars, calm, commandVars>>

\* Get, BuildDeps, NewRuntime, Register and Start of one listed agent; an
\* error anywhere skips this agent only.  The loop's first tick is immediate.
LoadAgent(a) ==
    /\ daemon = "load" /\ marking = {} /\ a \in todo
    /\ todo' = todo \ {a}
    /\ \/ /\ ~term /\ a \notin Broken["daemon"]
          /\ loop' = [loop EXCEPT ![<<"daemon", a>>] = "tick"]
          /\ marking' = {a}
       \/ (term \/ a \in Broken["daemon"] \/ "read" \in Faults) /\ UNCHANGED <<loop, marking>>
    /\ UNCHANGED <<status, daemon, term, boots, cancelled, walletVars, killVars, calm, commandVars>>

\* Mutant of MarkRunning: the status written is none of types.go.
MarkStarted(a) ==
    /\ daemon = "load" /\ a \in marking
    /\ marking' = {}
    /\ status' = [status EXCEPT ![a] = "started"]
    /\ UNCHANGED <<daemon, term, todo, boots, loopVars, walletVars, killVars, calm, commandVars>>

\* "We re-set it on every boot": the error of SetStatus is dropped.
MarkRunning(a) ==
    /\ daemon = "load" /\ a \in marking
    /\ marking' = {}
    /\ \/ ~term /\ status' = [status EXCEPT ![a] = "running"]
       \/ (term \/ "write" \in Faults) /\ UNCHANGED status
    /\ UNCHANGED <<daemon, term, todo, boots, loopVars, walletVars, killVars, calm, commandVars>>

Listen ==
    /\ daemon = "load" /\ todo = {} /\ marking = {}
    /\ daemon' = "serve"
    /\ UNCHANGED <<status, term, todo, marking, boots, loopVars, walletVars, killVars, calm, commandVars>>

\* SIGINT or SIGTERM: the context every loop of the daemon descends from.
Signal ==
    /\ daemon # "down" /\ ~term
    /\ term' = TRUE
    /\ cancelled' = cancelled \union {l \in OwnedBy("daemon") : loop[l] # "none"}
    /\ UNCHANGED <<status, daemon, todo, marking, boots, loop, walletVars, killVars, calm, commandVars>>

\* Listen returns, on the signal or because the server fails, and every
\* Runtime is stopped: its context is cancelled and nobody waits for it.
Shutdown ==
    /\ daemon = "serve" /\ (term \/ "process" \in Faults)
    /\ daemon' = "exit"
    /\ cancelled' = cancelled \union {l \in OwnedBy("daemon") : loop[l] # "none"}
    /\ UNCHANGED <<status, term, todo, marking, boots, loop, walletVars, killVars, calm, commandVars>>

Down ==
    /\ daemon' = "down" /\ term' = FALSE /\ todo' = {} /\ marking' = {}
    /\ LoopsGone("daemon")
    /\ UNCHANGED <<status, boots, walletVars, killVars, calm, commandVars>>

ProcessExits == daemon = "exit" /\ Down

Crash == "process" \in Faults /\ daemon # "down" /\ Down

-----------------------------------------------------------------------------
(* Operator commands.                                                      *)

Command == commands < MaxCommands /\ commands' = commands + 1

StartCommand(a) ==
    /\ Command
    /\ status' = [status EXCEPT ![a] = "running"]
    /\ halted' = halted \ {a} /\ raced' = raced \ {a}
    /\ UNCHANGED <<bootVars, loopVars, walletVars, killVars, calm>>

\* A halting write, and whether the loader holds the agent meanwhile.
Halt(S) ==
    /\ status' = [a \in Agents |-> IF a \in S THEN "halted" ELSE status[a]]
    /\ halted' = halted \union S
    /\ raced' = (raced \ S) \union (S \intersect Held)

\* agent stop <id> or --all: the status, and nothing else.
StopCommand(S) ==
    /\ Command
    /\ Halt(S)
    /\ UNCHANGED <<bootVars, loopVars, walletVars, killVars, calm>>

\* agent kill: a paper agent is done once its status is set.
KillCommand(a) ==
    /\ Command /\ killPc \in {"none", "done"}
    /\ Halt({a})
    /\ IF a \in Live
       THEN /\ killPc' = "halt" /\ killer' = {a} /\ killErr' = FALSE
            /\ killList' = {} /\ answered' = {} /\ sold' = {} /\ calm' = TRUE
       ELSE UNCHANGED <<killVars, calm>>
    /\ UNCHANGED <<bootVars, loopVars, walletVars>>

\* The keystore or BuildDeps fails, or the command is interrupted: no Trip.
KillDies ==
    /\ "process" \in Faults \/ killer \subseteq Broken["kill"]
    /\ killPc \notin {"none", "done"}
    /\ killPc' = "none" /\ killer' = {} /\ killList' = {} /\ killErr' = FALSE
    /\ UNCHANGED <<status, bootVars, loopVars, walletVars, answered, sold, calm, commandVars>>

-----------------------------------------------------------------------------
(* Trip, on a Runtime of its own: Stop finds no loop to stop.              *)

GoOn(from, to) == killPc = from /\ killPc' = to

TripHalts ==
    /\ GoOn("halt", "orders") /\ killer \intersect Broken["kill"] = {}
    /\ \/ Halt(killer)
       \/ "write" \in Faults /\ UNCHANGED <<status, halted, raced>>
    /\ UNCHANGED <<bootVars, loopVars, walletVars, killer, killList, killErr, answered, sold,
                   calm, commands>>

\* OpenOrders returns every order of the wallet, of whatever agent.
ListOrders ==
    /\ \/ GoOn("orders", "cancel") /\ killList' = orders /\ UNCHANGED killErr
       \/ "trip" \in Faults /\ GoOn("orders", "positions") /\ killErr' = TRUE /\ UNCHANGED killList
    /\ UNCHANGED <<status, bootVars, loopVars, walletVars, killer, answered, sold, calm, commandVars>>

\* Mutant of CancelOrder: the error of Cancel is logged and forgotten.
CancelSilently(a) ==
    /\ killPc = "cancel" /\ a \in killList
    /\ killList' = killList \ {a}
    /\ orders' = orders \ {a} \/ ("trip" \in Faults /\ orders' = orders)
    /\ UNCHANGED <<status, bootVars, loopVars, positions, basis, killPc, killer, killErr,
                   answered, sold, calm, commandVars>>

\* A failure is recorded and the next order follows.
CancelOrder(a) ==
    /\ killPc = "cancel" /\ a \in killList
    /\ killList' = killList \ {a}
    /\ \/ orders' = orders \ {a} /\ UNCHANGED killErr
       \/ ("trip" \in Faults \/ a \notin orders) /\ killErr' = TRUE /\ UNCHANGED orders
    /\ UNCHANGED <<status, bootVars, loopVars, positions, basis, killPc, killer, answered, sold,
                   calm, commandVars>>

CancelsDone ==
    /\ GoOn("cancel", "positions") /\ killList = {}
    /\ UNCHANGED <<status, bootVars, loopVars, walletVars, killer, killList, killErr, answered,
                   sold, calm, commandVars>>

ReadPositions ==
    /\ \/ GoOn("positions", "flatten") /\ killList' = positions /\ UNCHANGED killErr
       \/ "trip" \in Faults /\ GoOn("positions", "spot") /\ killErr' = TRUE /\ UNCHANGED killList
    /\ UNCHANGED <<status, bootVars, loopVars, walletVars, killer, answered, sold, calm, commandVars>>

\* A reduce-only market order; the status of its acknowledgement is not read,
\* so the position may stay.
Flatten(a) ==
    /\ killPc = "flatten" /\ a \in killList
    /\ killList' = killList \ {a}
    /\ \/ /\ answered' = answered \union {a}
          /\ positions' \in {positions, positions \ {a}}
          /\ UNCHANGED killErr
       \/ "trip" \in Faults /\ killErr' = TRUE /\ UNCHANGED <<answered, positions>>
    /\ UNCHANGED <<status, bootVars, loopVars, orders, basis, killPc, killer, sold, calm, commandVars>>

FlattenDone ==
    /\ GoOn("flatten", "spot") /\ killList = {}
    /\ UNCHANGED <<status, bootVars, loopVars, walletVars, killer, killList, killErr, answered,
                   sold, calm, commandVars>>

\* LoadOpenBasis, Quote and Swap for the agent's row; an unwired chain is
\* skipped with a warning, and the swap is not waited for.
LiquidateLegs ==
    /\ GoOn("spot", "done")
    /\ \/ /\ sold' = IF LiquidateSpot THEN (killer \intersect basis) \ Unwired ELSE {}
          /\ UNCHANGED killErr
       \/ LiquidateSpot /\ "trip" \in Faults /\ killErr' = TRUE /\ UNCHANGED sold
    /\ UNCHANGED <<status, bootVars, loopVars, walletVars, killer, killList, answered, calm,
                   commandVars>>

-----------------------------------------------------------------------------
\* A resting order fills: it opens a position, or closes the one there is.
Fill(a) ==
    /\ a \in orders
    /\ orders' = orders \ {a}
    /\ positions' \in {positions \union {a}, positions \ {a}}
    /\ UNCHANGED <<status, bootVars, loopVars, basis, killVars, calm, commandVars>>

TripStep == \/ TripHalts \/ ListOrders \/ CancelsDone \/ ReadPositions \/ FlattenDone
            \/ LiquidateLegs
            \/ \E a \in Agents : CancelOrder(a) \/ Flatten(a)

LoaderStep == ListRunning \/ Listen \/ (\E a \in Agents : LoadAgent(a) \/ MarkRunning(a))

Next ==
    \/ \E l \in Loops : BeginTick(l) \/ Trade(l) \/ EndTick(l) \/ LoopExit(l)
    \/ \E a \in Agents : Run(a) \/ Interrupt(a) \/ Fill(a)
    \/ Boot \/ LoaderStep \/ Signal \/ Shutdown \/ ProcessExits \/ Crash
    \/ \E a \in Agents : StartCommand(a) \/ KillCommand(a) \/ StopCommand({a})
    \/ StopCommand(Agents)
    \/ TripStep \/ KillDies

\* Loops are scheduled, and a select that can always again take ctx.Done
\* eventually does.  That the calls of a tick return is assumed: HTTP clients have
\* timeouts, the RPCs of an agent on Bittensor have none (see Subtensor).  The
\* loader and Trip run to their end.  Nobody has to type a command, send a signal
\* or crash.
Fairness ==
    /\ \A l \in Loops : WF_vars(BeginTick(l)) /\ WF_vars(EndTick(l))
                          /\ SF_vars(l \in cancelled /\ LoopExit(l))
    /\ WF_vars(LoaderStep) /\ WF_vars(TripStep)

Spec == Init /\ [][Next]_vars /\ Fairness

-----------------------------------------------------------------------------
(* Properties.                                                             *)

\* Every variable stays in its range (types.go, Serve, Trip).
TypeOK ==
    /\ status \in [Agents -> {"stopped", "running", "halted"}]
    /\ daemon \in {"down", "list", "load", "serve", "exit"} /\ term \in BOOLEAN
    /\ todo \subseteq Agents /\ marking \subseteq Agents
    /\ loop \in [Loops -> {"none", "idle", "tick"}] /\ cancelled \subseteq Loops
    /\ orders \subseteq Agents /\ positions \subseteq Agents /\ basis \subseteq Agents
    /\ killPc \in {"none", "halt", "orders", "cancel", "positions", "flatten", "spot", "done"}
    /\ killer \subseteq Agents /\ killList \subseteq Agents /\ killErr \in BOOLEAN
    /\ answered \subseteq Agents /\ sold \subseteq Agents /\ calm \in BOOLEAN
    /\ halted \subseteq Agents /\ raced \subseteq Agents
    /\ commands \in 0..MaxCommands /\ boots \in 0..MaxBoots

\* The halt of an agent, by stop or by kill, stays in the agents table and no
\* later boot picks the agent up, provided no loader held it when the halt was
\* written; starts, stops and kills of any agent, faults, crashes and boots
\* may come in any order (LoadAndStartRunning against SetStatus).
HaltHoldsOutsideLoad ==
    \A a \in halted \ raced : status[a] = "halted" /\ a \notin Held

\* Trip, when it returns no error and no loop has traded meanwhile, leaves no
\* order resting in the wallet and no position without an acknowledged closing
\* order, even if orders fill under its hands: what fills before it is
\* cancelled is among the positions, which are read afterwards.
CalmTripCleansUp ==
    killPc = "done" /\ ~killErr /\ calm =>
        /\ orders = {}
        /\ positions \subseteq answered
        /\ LiquidateSpot => (killer \intersect basis) \ Unwired \subseteq sold

\* Why it holds: what Trip has cleaned up so far, step by step.
TripProgress ==
    calm /\ ~killErr =>
        /\ killPc = "cancel" => orders \subseteq killList
        /\ killPc \in {"positions", "flatten", "spot", "done"} => orders = {}
        /\ killPc = "flatten" => positions \subseteq killList \union answered
        /\ killPc \in {"spot", "done"} => positions \subseteq answered
        /\ killPc = "done" /\ LiquidateSpot => (killer \intersect basis) \ Unwired \subseteq sold

\* Whatever the bad agents of a boot do, a running agent that can be built is
\* ticking in the end, unless somebody halts it or the daemon stops
\* (LoadAndStartRunning: "one bad agent does not stop the rest").
BadAgentsDoNotStopTheRest ==
    \A a \in Agents \ Broken["daemon"] :
        daemon = "list" /\ status[a] = "running"
          ~> \/ loop[<<"daemon", a>>] # "none"
             \/ a \in halted \/ term \/ daemon \in {"exit", "down"}

\* A loop whose context is cancelled, by Stop, a signal or Ctrl-C, ends after
\* the tick in flight, if the calls of that tick return, however its ticker races
\* the cancellation.
CancelledLoopsEnd ==
    \A l \in Loops : l \in cancelled ~> loop[l] = "none"
=============================================================================
