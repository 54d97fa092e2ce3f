------------------------ MODULE AgentLifecycleProofs ------------------------
(***************************************************************************)
(* What holds of AgentLifecycle for every set of agents, whatever fails    *)
(* and however many commands and boots there are.                          *)
(***************************************************************************)
EXTENDS AgentLifecycle, TLAPS

USE AgentsAssumption, FlagsAssumption, BoundsAssumption

\* The steps of a loop other than its trades, and the start and interruption
\* of a foreground run.
LoopStep == \/ \E l \in Loops : BeginTick(l) \/ EndTick(l) \/ LoopExit(l)
            \/ \E a \in Agents : Run(a) \/ Interrupt(a)

\* They change nothing but the loops.
LEMMA LoopStepsAreLocal ==
    LoopStep => UNCHANGED <<status, bootVars, walletVars, killVars, calm, commandVars>>
BY DEF LoopStep, BeginTick, EndTick, LoopExit, Run, Interrupt

\* They keep the loops' types.
LEMMA LoopStepsKeepTypes ==
    ASSUME TypeOK, LoopStep
    PROVE  loop' \in [Loops -> {"none", "idle", "tick"}] /\ cancelled' \subseteq Loops
<1>1. ASSUME NEW l \in Loops, BeginTick(l) \/ EndTick(l) \/ LoopExit(l)
      PROVE  loop' \in [Loops -> {"none", "idle", "tick"}] /\ cancelled' \subseteq Loops
  BY <1>1 DEF BeginTick, EndTick, LoopExit, TypeOK
<1>2. ASSUME NEW a \in Agents, Run(a) \/ Interrupt(a)
      PROVE  loop' \in [Loops -> {"none", "idle", "tick"}] /\ cancelled' \subseteq Loops
  <2>1. <<"shell", a>> \in Loops
    BY DEF Loops, Hosts
  <2> QED
    BY <1>2, <2>1 DEF Run, Interrupt, TypeOK
<1> QED
  BY <1>1, <1>2 DEF LoopStep

\* Every variable keeps its type (AgentLifecycle!TypeOK).
THEOREM TypeCorrect == Spec => []TypeOK
<1>1. Init => TypeOK
  <2> SUFFICES ASSUME Init PROVE TypeOK
    OBVIOUS
  <2>1. status \in [Agents -> {"stopped", "running", "halted"}]
          /\ loop \in [Loops -> {"none", "idle", "tick"}]
    BY DEF Init
  <2>2. commands \in 0..MaxCommands /\ boots \in 0..MaxBoots
    BY DEF Init
  <2>3. term \in BOOLEAN /\ killErr \in BOOLEAN /\ calm \in BOOLEAN
    BY DEF Init
  <2> QED
    BY <2>1, <2>2, <2>3 DEF Init, TypeOK
<1>2. TypeOK /\ [Next]_vars => TypeOK'
  <2> SUFFICES ASSUME TypeOK, [Next]_vars PROVE TypeOK'
    OBVIOUS
  <2>1. CASE LoopStep
    BY <2>1, LoopStepsAreLocal, LoopStepsKeepTypes
    DEF TypeOK, bootVars, walletVars, killVars, commandVars
  <2>2. ASSUME NEW l \in Loops, Trade(l) PROVE TypeOK'
    <3>1. l[2] \in Agents
      BY DEF Loops
    <3>2. orders' \subseteq Agents /\ positions' \subseteq Agents /\ basis' \subseteq Agents
      BY <2>2, <3>1 DEF Trade, TypeOK
    <3> QED
      BY <2>2, <3>2 DEF Trade, TypeOK, bootVars, loopVars, killVars, commandVars
  <2>3. ASSUME NEW a \in Agents, Fill(a) PROVE TypeOK'
    BY <2>3 DEF Fill, TypeOK, bootVars, loopVars, killVars, commandVars
  <2>4. CASE Boot
    BY <2>4 DEF Boot, TypeOK, loopVars, walletVars, killVars, commandVars
  <2>5. CASE ListRunning
    BY <2>5 DEF ListRunning, TypeOK, loopVars, walletVars, killVars, commandVars
  <2>6. ASSUME NEW a \in Agents, LoadAgent(a) PROVE TypeOK'
    <3>1. <<"daemon", a>> \in Loops
      BY DEF Loops, Hosts
    <3> QED
      BY <2>6, <3>1 DEF LoadAgent, TypeOK, walletVars, killVars, commandVars
  <2>7. ASSUME NEW a \in Agents, MarkRunning(a) PROVE TypeOK'
    BY <2>7 DEF MarkRunning, TypeOK, loopVars, walletVars, killVars, commandVars
  <2>8. CASE Listen
    BY <2>8 DEF Listen, TypeOK, loopVars, walletVars, killVars, commandVars
  <2>9. CASE Signal \/ Shutdown
    <3>1. OwnedBy("daemon") \subseteq Loops
      BY DEF OwnedBy, Loops, Hosts
    <3> QED
      BY <2>9, <3>1 DEF Signal, Shutdown, TypeOK, walletVars, killVars, commandVars
  <2>10. CASE ProcessExits \/ Crash
    BY <2>10 DEF ProcessExits, Crash, Down, LoopsGone, TypeOK, walletVars, killVars, commandVars
  <2>11. ASSUME NEW a \in Agents, StartCommand(a) PROVE TypeOK'
    BY <2>11 DEF StartCommand, Command, TypeOK, bootVars, loopVars, walletVars, killVars
  <2>12. ASSUME NEW S \in SUBSET Agents, StopCommand(S) PROVE TypeOK'
    BY <2>12 DEF StopCommand, Command, Halt, TypeOK, bootVars, loopVars, walletVars, killVars
  <2>13. ASSUME NEW a \in Agents, KillCommand(a) PROVE TypeOK'
    <3>1. status' \in [Agents -> {"stopped", "running", "halted"}] /\ halted' \subseteq Agents
            /\ raced' \subseteq Agents /\ commands' \in 0..MaxCommands
      BY <2>13 DEF KillCommand, Command, Halt, TypeOK
    <3> QED
      BY <2>13, <3>1 DEF KillCommand, TypeOK, bootVars, loopVars, walletVars, killVars
  <2>14. CASE KillDies
    BY <2>14 DEF KillDies, TypeOK, bootVars, loopVars, walletVars, commandVars
  <2>15. CASE TripHalts
    BY <2>15 DEF TripHalts, GoOn, Halt, TypeOK, bootVars, loopVars, walletVars
  <2>16. CASE ListOrders \/ CancelsDone \/ ReadPositions \/ FlattenDone
    BY <2>16 DEF ListOrders, CancelsDone, ReadPositions, FlattenDone, GoOn, TypeOK, bootVars,
                 loopVars, walletVars, commandVars
  <2>17. CASE LiquidateLegs
    BY <2>17 DEF LiquidateLegs, GoOn, TypeOK, bootVars, loopVars, walletVars, commandVars
  <2>18. ASSUME NEW a \in Agents, CancelOrder(a) \/ Flatten(a) PROVE TypeOK'
    BY <2>18 DEF CancelOrder, Flatten, TypeOK, bootVars, loopVars, commandVars
  <2>19. CASE UNCHANGED vars
    BY <2>19 DEF vars, TypeOK, bootVars, loopVars, walletVars, killVars, commandVars
  <2> QED
    BY <2>1, <2>2, <2>3, <2>4, <2>5, <2>6, <2>7, <2>8, <2>9, <2>10, <2>11, <2>12, <2>13,
       <2>14, <2>15, <2>16, <2>17, <2>18, <2>19 DEF Next, LoaderStep, TripStep, LoopStep
<1> QED
  BY <1>1, <1>2, PTL DEF Spec

-----------------------------------------------------------------------------
(* The halt.                                                               *)

\* A halting write settles the status of its agents and no other's.
LEMMA HaltSettles ==
    ASSUME TypeOK, HaltHoldsOutsideLoad, NEW S \in SUBSET Agents, Halt(S), UNCHANGED bootVars
    PROVE  HaltHoldsOutsideLoad'
BY DEF Halt, HaltHoldsOutsideLoad, Held, TypeOK, bootVars

\* The halt of an agent no loader holds is not undone by boots, loads, faults
\* or other agents' commands (AgentLifecycle!HaltHoldsOutsideLoad).
THEOREM HaltHolds == Spec => []HaltHoldsOutsideLoad
<1>1. Init => HaltHoldsOutsideLoad
  BY DEF Init, HaltHoldsOutsideLoad
<1>2. TypeOK /\ HaltHoldsOutsideLoad /\ [Next]_vars => HaltHoldsOutsideLoad'
  <2> SUFFICES ASSUME TypeOK, HaltHoldsOutsideLoad, [Next]_vars PROVE HaltHoldsOutsideLoad'
    OBVIOUS
  <2> USE DEF HaltHoldsOutsideLoad, Held
  <2>1. ASSUME UNCHANGED <<status, todo, marking, halted, raced>> PROVE HaltHoldsOutsideLoad'
    BY <2>1
  <2>2. CASE LoopStep
    BY <2>1, <2>2, LoopStepsAreLocal DEF bootVars, commandVars
  <2>3. ASSUME NEW l \in Loops, Trade(l) PROVE HaltHoldsOutsideLoad'
    BY <2>1, <2>3 DEF Trade, bootVars, commandVars
  <2>4. ASSUME NEW a \in Agents, Fill(a) PROVE HaltHoldsOutsideLoad'
    BY <2>1, <2>4 DEF Fill, bootVars, commandVars
  <2>5. CASE Boot \/ Listen \/ Signal \/ Shutdown
    BY <2>1, <2>5 DEF Boot, Listen, Signal, Shutdown, commandVars
  <2>6. CASE ListRunning
    BY <2>6 DEF ListRunning, commandVars
  <2>7. ASSUME NEW a \in Agents, LoadAgent(a) PROVE HaltHoldsOutsideLoad'
    BY <2>7 DEF LoadAgent, commandVars
  <2>8. ASSUME NEW a \in Agents, MarkRunning(a) PROVE HaltHoldsOutsideLoad'
    BY <2>8 DEF MarkRunning, commandVars, TypeOK
  <2>9. CASE ProcessExits \/ Crash
    BY <2>9 DEF ProcessExits, Crash, Down, commandVars
  <2>10. ASSUME NEW a \in Agents, StartCommand(a) PROVE HaltHoldsOutsideLoad'
    BY <2>10 DEF StartCommand, bootVars, TypeOK
  <2>11. ASSUME NEW S \in SUBSET Agents, StopCommand(S) PROVE HaltHoldsOutsideLoad'
    BY <2>11, HaltSettles DEF StopCommand
  <2>12. ASSUME NEW a \in Agents, KillCommand(a) PROVE HaltHoldsOutsideLoad'
    BY <2>12, HaltSettles DEF KillCommand
  <2>13. CASE TripHalts
    <3>1. killer \in SUBSET Agents
      BY DEF TypeOK
    <3> QED
      BY <2>1, <2>13, <3>1, HaltSettles DEF TripHalts, bootVars
  <2>14. CASE KillDies \/ ListOrders \/ CancelsDone \/ ReadPositions \/ FlattenDone \/ LiquidateLegs
    BY <2>1, <2>14 DEF KillDies, ListOrders, CancelsDone, ReadPositions, FlattenDone,
                       LiquidateLegs, bootVars, commandVars
  <2>15. ASSUME NEW a \in Agents, CancelOrder(a) \/ Flatten(a) PROVE HaltHoldsOutsideLoad'
    BY <2>1, <2>15 DEF CancelOrder, Flatten, bootVars, commandVars
  <2>16. CASE UNCHANGED vars
    BY <2>1, <2>16 DEF vars, bootVars, commandVars
  <2> QED
    BY <2>2, <2>3, <2>4, <2>5, <2>6, <2>7, <2>8, <2>9, <2>10, <2>11, <2>12, <2>13, <2>14,
       <2>15, <2>16 DEF Next, LoaderStep, TripStep, LoopStep
<1> QED
  BY <1>1, <1>2, TypeCorrect, PTL DEF Spec

-----------------------------------------------------------------------------
(* The kill switch.                                                        *)

\* While no loop trades and nothing fails, Trip's cleaning only advances.
LEMMA TripInvariant == Spec => []TripProgress
<1>1. Init => TripProgress
  BY DEF Init, TripProgress
<1>2. TypeOK /\ TripProgress /\ [Next]_vars => TripProgress'
  <2> SUFFICES ASSUME TypeOK, TripProgress, [Next]_vars PROVE TripProgress'
    OBVIOUS
  <2> USE DEF TripProgress
  <2>1. ASSUME UNCHANGED <<walletVars, killVars, calm>> PROVE TripProgress'
    BY <2>1 DEF walletVars, killVars
  <2>2. CASE LoopStep
    BY <2>1, <2>2, LoopStepsAreLocal
  <2>3. ASSUME NEW l \in Loops, Trade(l) PROVE TripProgress'
    BY <2>3 DEF Trade
  <2>4. ASSUME NEW a \in Agents, Fill(a) PROVE TripProgress'
    BY <2>4 DEF Fill, killVars
  <2>5. CASE Boot \/ ListRunning \/ Listen \/ Signal \/ Shutdown \/ ProcessExits \/ Crash
    BY <2>1, <2>5 DEF Boot, ListRunning, Listen, Signal, Shutdown, ProcessExits, Crash, Down
  <2>6. ASSUME NEW a \in Agents, LoadAgent(a) \/ MarkRunning(a) \/ StartCommand(a)
        PROVE  TripProgress'
    BY <2>1, <2>6 DEF LoadAgent, MarkRunning, StartCommand
  <2>7. ASSUME NEW S \in SUBSET Agents, StopCommand(S) PROVE TripProgress'
    BY <2>1, <2>7 DEF StopCommand
  <2>8. ASSUME NEW a \in Agents, KillCommand(a) PROVE TripProgress'
    BY <2>1, <2>8 DEF KillCommand, walletVars
  <2>9. CASE KillDies \/ TripHalts
    BY <2>9 DEF KillDies, TripHalts, GoOn
  <2>10. CASE ListOrders
    BY <2>10 DEF ListOrders, GoOn, walletVars
  <2>11. ASSUME NEW a \in Agents, CancelOrder(a) PROVE TripProgress'
    BY <2>11 DEF CancelOrder
  <2>12. CASE CancelsDone
    BY <2>12 DEF CancelsDone, GoOn, walletVars
  <2>13. CASE ReadPositions
    BY <2>13 DEF ReadPositions, GoOn, walletVars
  <2>14. ASSUME NEW a \in Agents, Flatten(a) PROVE TripProgress'
    BY <2>14 DEF Flatten
  <2>15. CASE FlattenDone
    BY <2>15 DEF FlattenDone, GoOn, walletVars
  <2>16. CASE LiquidateLegs
    BY <2>16 DEF LiquidateLegs, GoOn, walletVars
  <2>17. CASE UNCHANGED vars
    BY <2>1, <2>17 DEF vars
  <2> QED
    BY <2>2, <2>3, <2>4, <2>5, <2>6, <2>7, <2>8, <2>9, <2>10, <2>11, <2>12, <2>13, <2>14,
       <2>15, <2>16, <2>17 DEF Next, LoaderStep, TripStep, LoopStep
<1> QED
  BY <1>1, <1>2, TypeCorrect, PTL DEF Spec

\* A kill that reports no error, undisturbed by loops, has left no resting
\* order and no position unanswered (AgentLifecycle!CalmTripCleansUp).
THEOREM TripCleansUp == Spec => []CalmTripCleansUp
<1>1. TripProgress => CalmTripCleansUp
  BY DEF TripProgress, CalmTripCleansUp
<1> QED
  BY <1>1, TripInvariant, PTL
=============================================================================
