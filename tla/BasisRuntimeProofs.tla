-------------------------- MODULE BasisRuntimeProofs --------------------------
(***************************************************************************)
(* What holds of BasisRuntime for every set of keys, every repertoire of   *)
(* decisions, every limit and every number of ticks and interruptions.     *)
(***************************************************************************)
EXTENDS BasisRuntime, TLAPS, FiniteSetTheorems

USE KeysAssumption, PlansAssumption, ParamAssumption

\* The values a Runtime starts with: an empty book and no decision.
LEMMA Blank == EmptyBook \in Book /\ NoPlan \in Plan
<1>1. EmptyBook \in Book
  BY DEF EmptyBook, Book
<1>2. NoPlan \in Plan
  BY DEF NoPlan, Plan
<1> QED
  BY <1>1, <1>2

\* Every variable keeps its type (BasisRuntime!TypeOK).
THEOREM TypeCorrect == Spec => []TypeOK
<1>1. Init => TypeOK
  <2> SUFFICES ASSUME Init PROVE TypeOK
    OBVIOUS
  <2>1. mode \in {"paper", "live"} /\ up \in BOOLEAN /\ ctxDone \in BOOLEAN
    BY DEF Init
  <2>2. pc \in Phases /\ dec \in Plan /\ openBasis \in Book /\ rows \in Book
    BY Blank DEF Init, Phases
  <2>3. ticks \in 0..MaxTicks /\ stops \in 0..MaxStops
    BY DEF Init
  <2> QED
    BY <2>1, <2>2, <2>3 DEF Init, TypeOK
<1>2. TypeOK /\ [Next]_vars => TypeOK'
  <2> SUFFICES ASSUME TypeOK, [Next]_vars PROVE TypeOK'
    OBVIOUS
  <2>1. CASE BeginTick
    <3>1. dec' \in Plan
      BY <2>1, Blank DEF BeginTick
    <3>2. todo' \subseteq SwapIntent
      BY <2>1, <3>1 DEF BeginTick, Plan
    <3> QED
      BY <2>1, <3>1, <3>2 DEF BeginTick, TypeOK, Phases, bookVars, venueVars
  <2>2. CASE BeginOrders
    BY <2>2 DEF BeginOrders, TypeOK, Phases, Plan, bookVars, venueVars, procVars
  <2>3. CASE ExecuteCancels
    <3>1. pulled' \subseteq accepted'
      BY <2>3 DEF ExecuteCancels, TypeOK, resting
    <3> QED
      BY <2>3, <3>1 DEF ExecuteCancels, TypeOK, Phases, Plan, bookVars, procVars
  <2>4. CASE BeginOpens
    BY <2>4 DEF BeginOpens, TypeOK, Phases, Plan, Pairs, bookVars, venueVars, procVars
  <2>5. CASE EndTick
    BY <2>5, Blank DEF EndTick, NoTick, TypeOK, Phases, bookVars, venueVars, procVars
  <2>6. ASSUME NEW s \in SwapIntent, ExecuteSwap(s) PROVE TypeOK'
    <3>1. Tx(s) \in Transaction
      BY DEF Tx, Transaction, SwapIntent, TypeOK
    <3>2. s.key \in Keys
      BY DEF SwapIntent
    <3> QED
      BY <2>6, <3>1, <3>2
      DEF ExecuteSwap, PaperSwap, ConfirmSwap, TrustSwap, FailSwap, LoseSwap, SwapSucceeded, SwapDidNot,
          TypeOK, bookVars, venueVars, procVars
  <2>7. ASSUME NEW o \in OrderIntent, ExecuteOrder(o) PROVE TypeOK'
    <3>1. Ord(o) \in Order
      BY DEF Ord, Order, OrderIntent, TypeOK
    <3>2. o.key \in Keys
      BY DEF OrderIntent
    <3> QED
      BY <2>7, <3>1, <3>2
      DEF ExecuteOrder, PaperOrder, FillOrder, RestOrder, FailOrder, LoseOrder, OrderSucceeded,
          OrderDidNot, TypeOK, bookVars, venueVars, procVars
  <2>8. ASSUME NEW o \in OrderIntent, ReconcileClose(o) PROVE TypeOK'
    BY <2>8
    DEF ReconcileClose, Record, Persist, OrderIntent, TypeOK, Book, bookVars, venueVars, procVars
  <2>9. ASSUME NEW o \in OrderIntent, ReconcileOpen(o) PROVE TypeOK'
    BY <2>9
    DEF ReconcileOpen, Record, Persist, OrderIntent, TypeOK, Book, bookVars, venueVars, procVars
  <2>10. CASE Stop
    BY <2>10 DEF Stop, TypeOK, tickVars, bookVars, venueVars
  <2>11. CASE LoopExits
    BY <2>11 DEF LoopExits, TypeOK, tickVars, bookVars, venueVars
  <2>12. CASE Crash
    <3>0. stops' \in 0..MaxStops
      BY <2>12 DEF Crash, TypeOK
    <3>1. up' \in BOOLEAN
      BY <2>12 DEF Crash
    <3>2. pc' \in Phases /\ dec' \in Plan
      BY <2>12, Blank DEF Crash, NoTick, Phases
    <3> QED
      BY <2>12, <3>0, <3>1, <3>2 DEF Crash, NoTick, TypeOK, bookVars, venueVars
  <2>13. CASE Restart
    <3>1. mode' \in {"paper", "live"} /\ up' \in BOOLEAN /\ ctxDone' \in BOOLEAN
      BY <2>13 DEF Restart, TypeOK
    <3>2. openBasis' \in Book /\ rows' \in Book /\ lost' \subseteq Keys
      BY <2>13, Blank DEF Restart, Hydrate, TypeOK, Tracked
    <3> QED
      BY <2>13, <3>1, <3>2 DEF Restart, TypeOK, tickVars, venueVars
  <2>14. ASSUME NEW t \in landing, Land(t) PROVE TypeOK'
    BY <2>14 DEF Land, TypeOK, tickVars, bookVars, procVars
  <2>15. ASSUME NEW r \in resting, Match(r) PROVE TypeOK'
    BY <2>15 DEF Match, TypeOK, resting, tickVars, bookVars, procVars
  <2>16. CASE UNCHANGED vars
    BY <2>16 DEF vars, TypeOK, tickVars, bookVars, venueVars, procVars
  <2> QED
    BY <2>1, <2>2, <2>3, <2>4, <2>5, <2>6, <2>7, <2>8, <2>9, <2>10, <2>11, <2>12, <2>13,
       <2>14, <2>15, <2>16 DEF Next
<1> QED
  BY <1>1, <1>2, PTL DEF Spec

-----------------------------------------------------------------------------
(* The shape of a tick.                                                    *)

\* Whatever the strategy returns is a Plan, and the empty one trades nothing.
LEMMA PlansArePlans ==
    /\ \A p \in Plans \union {NoPlan} : p \in Plan
    /\ TwoWay(NoPlan) = {}
BY Blank DEF NoPlan, TwoWay

\* What a tick has left to do stems from its decision, and no tick is half
\* done when the Runtime is idle or gone.
LEMMA ShapeInvariant == Spec => []TickShape
<1>1. Init => TickShape
  BY DEF Init, TickShape, NoPlan
<1>2. TypeOK /\ TickShape /\ [Next]_vars => TickShape'
  <2> SUFFICES ASSUME TypeOK, TickShape, [Next]_vars PROVE TickShape'
    OBVIOUS
  <2>1. CASE BeginTick
    BY <2>1 DEF BeginTick, TickShape, TypeOK
  <2>2. CASE BeginOrders
    BY <2>2 DEF BeginOrders, TickShape, procVars
  <2>3. CASE ExecuteCancels
    BY <2>3 DEF ExecuteCancels, TickShape, procVars
  <2>4. CASE BeginOpens
    BY <2>4 DEF BeginOpens, TickShape, Pairs, procVars
  <2>5. CASE EndTick
    BY <2>5 DEF EndTick, NoTick, TickShape, procVars
  <2>6. ASSUME NEW s \in SwapIntent, ExecuteSwap(s) PROVE TickShape'
    BY <2>6 DEF ExecuteSwap, TickShape, procVars
  <2>7. ASSUME NEW o \in OrderIntent, ExecuteOrder(o) PROVE TickShape'
    BY <2>7 DEF ExecuteOrder, TickShape, procVars
  <2>8. ASSUME NEW o \in OrderIntent, ReconcileClose(o) PROVE TickShape'
    BY <2>8 DEF ReconcileClose, TickShape, procVars
  <2>9. ASSUME NEW o \in OrderIntent, ReconcileOpen(o) PROVE TickShape'
    BY <2>9 DEF ReconcileOpen, TickShape, Pairs, procVars
  <2>10. CASE Stop
    BY <2>10 DEF Stop, TickShape, Pairs, tickVars
  <2>11. CASE LoopExits
    BY <2>11 DEF LoopExits, TickShape, Pairs, tickVars
  <2>12. CASE Crash
    BY <2>12 DEF Crash, NoTick, TickShape
  <2>13. CASE Restart
    BY <2>13 DEF Restart, TickShape, Pairs, tickVars
  <2>14. ASSUME NEW t \in landing, Land(t) PROVE TickShape'
    BY <2>14 DEF Land, TickShape, Pairs, tickVars, procVars
  <2>15. ASSUME NEW r \in resting, Match(r) PROVE TickShape'
    BY <2>15 DEF Match, TickShape, Pairs, tickVars, procVars
  <2>16. CASE UNCHANGED vars
    BY <2>16 DEF vars, TickShape, Pairs, tickVars, procVars
  <2> QED
    BY <2>1, <2>2, <2>3, <2>4, <2>5, <2>6, <2>7, <2>8, <2>9, <2>10, <2>11, <2>12, <2>13,
       <2>14, <2>15, <2>16 DEF Next
<1> QED
  BY <1>1, <1>2, TypeCorrect, PTL DEF Spec

-----------------------------------------------------------------------------
(* The book and the rows.                                                  *)

\* The actions other than the two reconcile steps and the restart.
Quiet == \/ BeginTick \/ BeginOrders \/ ExecuteCancels \/ BeginOpens \/ EndTick
         \/ \E s \in SwapIntent : ExecuteSwap(s)
         \/ \E o \in OrderIntent : ExecuteOrder(o)
         \/ Stop \/ LoopExits \/ Crash
         \/ \E t \in landing : Land(t)
         \/ \E r \in resting : Match(r)
         \/ UNCHANGED vars

\* They leave the book, the rows and their difference alone.
LEMMA QuietKeepsBook == Quiet => UNCHANGED bookVars
BY DEF Quiet, BeginTick, BeginOrders, ExecuteCancels, BeginOpens, EndTick, ExecuteSwap,
       ExecuteOrder, Stop, LoopExits, Crash, Land, Match, vars

\* At most they end the Runtime.
LEMMA QuietAtMostHalts == Quiet => up' = up \/ (up /\ up' = FALSE)
BY DEF Quiet, BeginTick, BeginOrders, ExecuteCancels, BeginOpens, EndTick, ExecuteSwap,
       ExecuteOrder, Stop, LoopExits, Crash, Land, Match, vars, procVars

\* Every step is quiet, a reconcile step or a restart.
LEMMA StepKinds ==
    [Next]_vars => \/ Quiet
                   \/ \E o \in OrderIntent : ReconcileClose(o) \/ ReconcileOpen(o)
                   \/ Restart
BY DEF Next, Quiet

\* The in-memory book and strategy_positions differ only where a store call
\* failed (BasisRuntime!DriftIsConfined).
THEOREM DriftConfined == Spec => []DriftIsConfined
<1>1. Init => DriftIsConfined
  BY DEF Init, DriftIsConfined
<1>2. TypeOK /\ DriftIsConfined /\ [Next]_vars => DriftIsConfined'
  <2> SUFFICES ASSUME TypeOK, DriftIsConfined, [Next]_vars PROVE DriftIsConfined'
    OBVIOUS
  <2>1. CASE Quiet
    BY <2>1, QuietKeepsBook DEF bookVars, DriftIsConfined
  <2>2. ASSUME NEW o \in OrderIntent, ReconcileClose(o) PROVE DriftIsConfined'
    BY <2>2 DEF ReconcileClose, Record, Persist, DriftIsConfined, TypeOK, Book, OrderIntent, bookVars
  <2>3. ASSUME NEW o \in OrderIntent, ReconcileOpen(o) PROVE DriftIsConfined'
    BY <2>3 DEF ReconcileOpen, Record, Persist, DriftIsConfined, TypeOK, Book, OrderIntent, bookVars
  <2>4. CASE Restart
    BY <2>4 DEF Restart, Hydrate, DriftIsConfined, Tracked, EmptyBook, TypeOK, Book
  <2> QED
    BY <2>1, <2>2, <2>3, <2>4, StepKinds
<1> QED
  BY <1>1, <1>2, TypeCorrect, PTL DEF Spec

-----------------------------------------------------------------------------
(* The cap on concurrent positions.                                        *)

\* An open accepted below the cap takes the last free slot at most.
LEMMA OneMoreFits ==
    ASSUME NEW S, S \subseteq Keys, NEW T, T \subseteq Keys, NEW k \in Keys, NEW N \in Nat,
           Cardinality(S) + Cardinality(T \ {k}) < N
    PROVE  Cardinality(S \union (T \union {k})) <= N
<1>1. IsFiniteSet(S) /\ IsFiniteSet(T) /\ IsFiniteSet(T \ {k})
  BY FS_Subset
<1>2. IsFiniteSet({k}) /\ Cardinality({k}) = 1
  BY FS_Singleton
<1> DEFINE U == S \union (T \ {k})
<1>3. IsFiniteSet(U) /\ Cardinality(U) <= Cardinality(S) + Cardinality(T \ {k})
  <2>1. /\ IsFiniteSet(U)
        /\ Cardinality(U) = Cardinality(S) + Cardinality(T \ {k}) - Cardinality(S \intersect (T \ {k}))
    BY <1>1, FS_Union
  <2>2. Cardinality(S \intersect (T \ {k})) \in Nat
    BY <1>1, FS_Intersection, FS_CardinalityType
  <2> QED
    BY <1>1, <2>1, <2>2, FS_CardinalityType
<1>4. Cardinality(U \union {k}) <= Cardinality(U) + 1
  <2>1. Cardinality(U \union {k}) = IF k \in U THEN Cardinality(U) ELSE Cardinality(U) + 1
    BY <1>3, FS_AddElement
  <2> QED
    BY <1>3, <2>1, FS_CardinalityType
<1>5. S \union (T \union {k}) = U \union {k}
  OBVIOUS
<1>6. Cardinality(S) \in Nat /\ Cardinality(T \ {k}) \in Nat /\ Cardinality(U) \in Nat
      /\ Cardinality(U \union {k}) \in Nat
  BY <1>1, <1>2, <1>3, FS_CardinalityType, FS_Union
<1> HIDE DEF U
<1>7. Cardinality(U \union {k}) <= N
  BY <1>3, <1>4, <1>6
<1> QED
  BY <1>5, <1>7

\* Fewer elements of a set of keys never count more.
LEMMA FewerCount ==
    ASSUME NEW S, NEW T, S \subseteq T, T \subseteq Keys
    PROVE  /\ Cardinality(S) \in Nat /\ Cardinality(T) \in Nat
           /\ Cardinality(S) <= Cardinality(T)
           /\ S # T => Cardinality(S) < Cardinality(T)
BY FS_Subset, FS_CardinalityType

\* Only keys are tracked.
LEMMA TrackedKeys == ASSUME NEW b PROVE Tracked(b) \subseteq Keys
BY DEF Tracked

\* Positions are of decisions already taken, so a new decision has opened none.
LEMMA DatesInvariant == Spec => []Dated
<1>1. Init => Dated
  BY DEF Init, Dated, EmptyBook
<1>2. TypeOK /\ Dated /\ [Next]_vars => Dated'
  <2> SUFFICES ASSUME TypeOK, Dated, [Next]_vars PROVE Dated'
    OBVIOUS
  <2>1. CASE Quiet
    <3>1. ticks <= ticks'
      BY <2>1 DEF Quiet, BeginTick, BeginOrders, ExecuteCancels, BeginOpens, EndTick,
         ExecuteSwap, ExecuteOrder, Stop, LoopExits, Crash, Land, Match, vars, procVars, TypeOK
    <3>2. ticks \in Nat /\ ticks' \in Nat
      BY <2>1 DEF Quiet, BeginTick, BeginOrders, ExecuteCancels, BeginOpens, EndTick,
         ExecuteSwap, ExecuteOrder, Stop, LoopExits, Crash, Land, Match, vars, procVars, TypeOK
    <3>3. openBasis' = openBasis /\ rows' = rows
      BY <2>1, QuietKeepsBook DEF bookVars
    <3> QED
      BY <3>1, <3>2, <3>3 DEF Dated, TypeOK, Book
  <2>2. ASSUME NEW o \in OrderIntent, ReconcileClose(o) PROVE Dated'
    BY <2>2 DEF ReconcileClose, Record, Persist, Dated, TypeOK, Book, OrderIntent, bookVars, procVars
  <2>3. ASSUME NEW o \in OrderIntent, ReconcileOpen(o) PROVE Dated'
    BY <2>3 DEF ReconcileOpen, Record, Persist, Dated, TypeOK, Book, OrderIntent, bookVars, procVars
  <2>4. CASE Restart
    BY <2>4 DEF Restart, Hydrate, Dated, EmptyBook, TypeOK
  <2> QED
    BY <2>1, <2>2, <2>3, <2>4, StepKinds
<1> QED
  BY <1>1, <1>2, TypeCorrect, PTL DEF Spec

\* Leaving out the positions the check has not seen never counts more.
LEMMA UnseenIsLess ==
    ASSUME NEW b, NEW S, S \subseteq Keys, NEW U, NEW N \in Nat,
           Cardinality(Tracked(b) \union S) <= N
    PROVE  Cardinality((Tracked(b) \ U) \union S) <= N
<1>1. /\ (Tracked(b) \ U) \union S \subseteq Tracked(b) \union S
      /\ Tracked(b) \union S \subseteq Keys
  BY TrackedKeys
<1>2. /\ Cardinality((Tracked(b) \ U) \union S) \in Nat
      /\ Cardinality(Tracked(b) \union S) \in Nat
      /\ Cardinality((Tracked(b) \ U) \union S) <= Cardinality(Tracked(b) \union S)
  BY <1>1, FewerCount
<1> QED
  BY <1>2

\* The reconcile pass opens a key only if it holds a slot or is swapped both ways.
LEMMA OpensHoldSlots ==
    ASSUME TypeOK, TickShape, SlotsHeld, NEW o \in OrderIntent, ReconcileOpen(o),
           openBasis' # openBasis
    PROVE  /\ o.key \in inflightOpens \/ o.key \in TwoWay(dec)
           /\ openBasis[o.key] = 0
           /\ openBasis' = [openBasis EXCEPT ![o.key] = ticks]
           /\ Tracked(openBasis') = Tracked(openBasis) \union {o.key}
<1>1. o.key \in Keys
  BY DEF OrderIntent
<1>2. openBasis[o.key] = 0 /\ (o.key \in inflightOpens \/ o.key \in TwoWay(dec))
  BY DEF ReconcileOpen, BothLegs, Pairs, TickShape, SlotsHeld, bookVars
<1>3. openBasis' = [openBasis EXCEPT ![o.key] = ticks]
  BY DEF ReconcileOpen, Record, bookVars
<1>4. openBasis' \in Book /\ openBasis \in Book
  BY <1>1, <1>3 DEF TypeOK, Book
<1>5. openBasis'[o.key] # 0
  BY <1>1, <1>3 DEF TypeOK, Book, TickShape, ReconcileOpen
<1> QED
  BY <1>1, <1>2, <1>3, <1>4, <1>5 DEF Tracked, Book

\* Slots are claimed before they are filled: the strengthening of CapRespected.
LEMMA SlotsInvariant == Spec => []SlotsHeld
<1>1. Init => SlotsHeld
  BY DEF Init, SlotsHeld, NoPlan
<1>2. TypeOK /\ TickShape /\ SlotsHeld /\ [Next]_vars => SlotsHeld'
  <2> SUFFICES ASSUME TypeOK, TickShape, SlotsHeld, [Next]_vars PROVE SlotsHeld'
    OBVIOUS
  <2> USE DEF SlotsHeld, Unseen
  <2>1. CASE BeginTick
    BY <2>1 DEF BeginTick
  <2>2. CASE BeginOrders \/ ExecuteCancels \/ BeginOpens
    BY <2>2 DEF BeginOrders, ExecuteCancels, BeginOpens, bookVars, procVars
  <2>3. CASE EndTick \/ Crash
    BY <2>3 DEF EndTick, Crash, NoTick, NoPlan
  <2>4. ASSUME NEW s \in SwapIntent, ExecuteSwap(s) PROVE SlotsHeld'
    <3>1. CASE UNCHANGED <<swapOK, inflightOpens>>
      BY <2>4, <3>1 DEF ExecuteSwap, bookVars, procVars
    <3>2. CASE ~SwapOverCap(s) /\ SwapSucceeded(s)
      <4>1. /\ s \in dec.swaps /\ s.key \in Keys
            /\ dec' = dec /\ ticks' = ticks /\ openBasis' = openBasis
        BY <2>4 DEF ExecuteSwap, TickShape, SwapIntent, bookVars, procVars
      <4>2. \A t \in dec'.swaps :
               t.opening /\ t.key \in swapOK' \ TwoWay(dec') => t.key \in inflightOpens'
        <5> SUFFICES ASSUME NEW t \in dec.swaps, t.opening, t.key \in swapOK' \ TwoWay(dec)
                     PROVE  t.key \in inflightOpens'
          BY <4>1
        <5>1. t.key = s.key => s.opening
          <6>1. s.opening \in BOOLEAN
            BY DEF SwapIntent
          <6> QED
            BY <4>1, <6>1 DEF TwoWay
        <5> QED
          BY <3>2, <5>1 DEF SwapSucceeded
      <4>3. CASE ~s.opening
        BY <3>2, <4>1, <4>2, <4>3 DEF SwapSucceeded
      <4>4. CASE s.opening
        <5> SUFFICES ASSUME MaxConcurrentPositions > 0
                     PROVE  Cardinality(Tracked(openBasis) \union (inflightOpens \union {s.key}))
                              <= MaxConcurrentPositions
          <6>1. inflightOpens' = inflightOpens \union {s.key}
            BY <3>2, <4>4 DEF SwapSucceeded
          <6>2. inflightOpens' \subseteq Keys
            BY <4>1, <6>1 DEF TypeOK
          <6> QED
            BY <4>1, <4>2, <6>1, <6>2, UnseenIsLess
        <5>1. Cardinality(Tracked(openBasis)) + Cardinality(inflightOpens \ {}) < MaxConcurrentPositions
          <6>1. inflightOpens \ {} \subseteq Keys
            BY DEF TypeOK
          <6>2. /\ Cardinality(Tracked(openBasis)) \in Nat
                /\ Cardinality(inflightOpens \ {}) \in Nat
            BY <6>1, TrackedKeys, FewerCount
          <6> QED
            BY <3>2, <4>4, <6>2 DEF SwapOverCap, AtCap, Count
        <5>2. Cardinality(inflightOpens \ {s.key}) <= Cardinality(inflightOpens \ {})
          BY FewerCount DEF TypeOK
        <5>3. Cardinality(Tracked(openBasis)) + Cardinality(inflightOpens \ {s.key})
                < MaxConcurrentPositions
          <6>1. inflightOpens \ {} \subseteq Keys /\ inflightOpens \ {s.key} \subseteq Keys
            BY DEF TypeOK
          <6>2. /\ Cardinality(Tracked(openBasis)) \in Nat
                /\ Cardinality(inflightOpens \ {}) \in Nat
                /\ Cardinality(inflightOpens \ {s.key}) \in Nat
            BY <6>1, TrackedKeys, FewerCount
          <6> QED
            BY <5>1, <5>2, <6>2
        <5> QED
          BY <4>1, <5>3, OneMoreFits, TrackedKeys DEF TypeOK
      <4> QED
        BY <4>3, <4>4
    <3> QED
      BY <2>4, <3>1, <3>2
      DEF ExecuteSwap, PaperSwap, ConfirmSwap, TrustSwap, FailSwap, LoseSwap, SwapDidNot
  <2>5. ASSUME NEW o \in OrderIntent, ExecuteOrder(o) PROVE SlotsHeld'
    <3>1. /\ dec' = dec /\ ticks' = ticks /\ swapOK' = swapOK /\ openBasis' = openBasis
          /\ o.key \in Keys
      BY <2>5 DEF ExecuteOrder, bookVars, procVars, OrderIntent
    <3>2. CASE UNCHANGED inflightOpens
      BY <3>1, <3>2
    <3>3. CASE ~OrderOverCap(o) /\ o.kind = "short" /\ inflightOpens' = inflightOpens \union {o.key}
      <4> SUFFICES ASSUME MaxConcurrentPositions > 0
                   PROVE  Cardinality(Tracked(openBasis) \union (inflightOpens \union {o.key}))
                            <= MaxConcurrentPositions
        <5>1. inflightOpens' \subseteq Keys
          BY <3>1, <3>3 DEF TypeOK
        <5> QED
          BY <3>1, <3>3, <5>1, UnseenIsLess
      <4>1. inflightOpens \ {o.key} \subseteq Keys
        BY DEF TypeOK
      <4>2. Cardinality(Tracked(openBasis)) \in Nat /\ Cardinality(inflightOpens \ {o.key}) \in Nat
        BY <4>1, TrackedKeys, FewerCount
      <4>3. Cardinality(Tracked(openBasis)) + Cardinality(inflightOpens \ {o.key})
              < MaxConcurrentPositions
        BY <3>3, <4>2 DEF OrderOverCap, AtCap, Count
      <4> QED
        BY <3>1, <4>3, OneMoreFits, TrackedKeys DEF TypeOK
    <3> QED
      BY <2>5, <3>2, <3>3
      DEF ExecuteOrder, PaperOrder, FillOrder, RestOrder, FailOrder, LoseOrder,
          OrderSucceeded, OrderDidNot
  <2>6. ASSUME NEW o \in OrderIntent, ReconcileClose(o) PROVE SlotsHeld'
    <3>2. dec' = dec /\ ticks' = ticks /\ swapOK' = swapOK /\ inflightOpens' = inflightOpens
      BY <2>6 DEF ReconcileClose, procVars
    <3> DEFINE Old == (Tracked(openBasis) \ Unseen(openBasis)) \union inflightOpens
               Now == (Tracked(openBasis') \ Unseen(openBasis)') \union inflightOpens
    <3>1. Now \subseteq Old /\ Old \subseteq Keys
      <4>1. \A k \in Keys : openBasis'[k] = openBasis[k] \/ openBasis'[k] = 0
        BY <2>6 DEF ReconcileClose, Record, TypeOK, Book, OrderIntent, bookVars
      <4>2. \A k \in Keys : openBasis'[k] # 0 => openBasis'[k] = openBasis[k]
        BY <4>1
      <4> QED
        BY <3>2, <4>2 DEF Tracked, TypeOK
    <3>3. Cardinality(Now) \in Nat /\ Cardinality(Old) \in Nat
          /\ Cardinality(Now) <= Cardinality(Old)
      BY <3>1, FewerCount
    <3> HIDE DEF Old, Now
    <3>4. MaxConcurrentPositions > 0 /\ inflightOpens # {}
            => Cardinality(Now) <= MaxConcurrentPositions
      <4>1. MaxConcurrentPositions > 0 /\ inflightOpens # {}
            => Cardinality(Old) <= MaxConcurrentPositions
        BY DEF Old
      <4> QED
        BY <3>3, <4>1
    <3> QED
      BY <3>2, <3>4 DEF Now
  <2>7. ASSUME NEW o \in OrderIntent, ReconcileOpen(o) PROVE SlotsHeld'
    <3>1. dec' = dec /\ ticks' = ticks /\ swapOK' = swapOK /\ inflightOpens' = inflightOpens
      BY <2>7 DEF ReconcileOpen, procVars
    <3>2. (Tracked(openBasis') \ Unseen(openBasis)') \union inflightOpens
            = (Tracked(openBasis) \ Unseen(openBasis)) \union inflightOpens
      <4>1. CASE openBasis' = openBasis
        BY <3>1, <4>1
      <4>2. CASE openBasis' # openBasis
        <5>1. /\ o.key \in inflightOpens \/ o.key \in TwoWay(dec)
              /\ o.key \in Keys /\ openBasis' = [openBasis EXCEPT ![o.key] = ticks]
          BY <2>7, <4>2, OpensHoldSlots DEF OrderIntent
        <5>2. \A k \in Keys \ {o.key} : openBasis'[k] = openBasis[k]
          BY <5>1 DEF TypeOK, Book
        <5>3. openBasis'[o.key] = ticks
          BY <5>1 DEF TypeOK, Book
        <5>4. openBasis[o.key] = 0 /\ ticks # 0
          BY <2>7, <4>2, OpensHoldSlots DEF TickShape, ReconcileOpen
        <5> QED
          BY <3>1, <5>1, <5>2, <5>3, <5>4 DEF Tracked
      <4> QED
        BY <4>1, <4>2
    <3> QED
      BY <3>1, <3>2
  <2>8. CASE Stop \/ LoopExits
    BY <2>8 DEF Stop, LoopExits, tickVars, bookVars, TwoWay
  <2>9. CASE Restart
    <3>1. inflightOpens' = {} /\ swapOK' = {}
      BY <2>9 DEF Restart, TickShape, tickVars
    <3> QED
      BY <3>1
  <2>10. ASSUME NEW t \in landing, Land(t) PROVE SlotsHeld'
    BY <2>10 DEF Land, tickVars, bookVars, procVars
  <2>11. ASSUME NEW r \in resting, Match(r) PROVE SlotsHeld'
    BY <2>11 DEF Match, tickVars, bookVars, procVars
  <2>12. CASE UNCHANGED vars
    BY <2>12 DEF vars, tickVars, bookVars, procVars
  <2> QED
    BY <2>1, <2>2, <2>3, <2>4, <2>5, <2>6, <2>7, <2>8, <2>9, <2>10, <2>11, <2>12 DEF Next
<1> QED
  BY <1>1, <1>2, TypeCorrect, ShapeInvariant, PTL DEF Spec

\* No tick opens a position beyond MaxConcurrentPositions
\* (BasisRuntime!CapRespected), whatever the decisions are, as long as they do
\* not swap that key both ways: what the reconcile pass opens was counted when
\* its swap was accepted.
THEOREM CapHolds == Spec => CapRespected
<1> DEFINE Opens == \E k \in Keys \ TwoWay(dec) : up /\ openBasis[k] = 0 /\ openBasis'[k] # 0
           Fits  == \/ MaxConcurrentPositions = 0
                    \/ Cardinality(Tracked(openBasis') \ Unseen(openBasis'))
                         <= MaxConcurrentPositions
<1>1. TypeOK /\ TickShape /\ SlotsHeld /\ SlotsHeld' /\ [Next]_vars => [Opens => Fits]_vars
  <2> SUFFICES ASSUME TypeOK, TickShape, SlotsHeld, SlotsHeld', [Next]_vars, Opens PROVE Fits
    OBVIOUS
  <2>1. CASE Quiet
    BY <2>1, QuietKeepsBook DEF bookVars
  <2>2. ASSUME NEW o \in OrderIntent, ReconcileClose(o) PROVE Fits
    BY <2>2 DEF ReconcileClose, Record, TypeOK, Book, OrderIntent, bookVars
  <2>3. ASSUME NEW o \in OrderIntent, ReconcileOpen(o) PROVE Fits
    <3>1. PICK k \in Keys \ TwoWay(dec) : openBasis[k] = 0 /\ openBasis'[k] # 0
      OBVIOUS
    <3>2. openBasis' # openBasis
      BY <3>1
    <3>3. o.key = k
      BY <2>3, <3>1, <3>2, OpensHoldSlots DEF TypeOK, Book
    <3>4. inflightOpens # {} /\ inflightOpens \subseteq Keys
      BY <2>3, <3>1, <3>2, <3>3, OpensHoldSlots DEF TypeOK
    <3>5. dec' = dec /\ ticks' = ticks /\ inflightOpens' = inflightOpens
      BY <2>3 DEF ReconcileOpen, procVars
    <3>6. Unseen(openBasis)' = Unseen(openBasis')
      BY <3>5 DEF Unseen
    <3> DEFINE T == Tracked(openBasis') \ Unseen(openBasis')
    <3>7. /\ Cardinality(T) \in Nat /\ Cardinality(T \union inflightOpens) \in Nat
          /\ Cardinality(T) <= Cardinality(T \union inflightOpens)
      <4>1. T \subseteq T \union inflightOpens /\ T \union inflightOpens \subseteq Keys
        BY <3>4, TrackedKeys
      <4> QED
        BY <4>1, FewerCount
    <3>8. MaxConcurrentPositions > 0
            => Cardinality(T \union inflightOpens) <= MaxConcurrentPositions
      BY <3>4, <3>5, <3>6 DEF SlotsHeld
    <3> HIDE DEF T
    <3>9. MaxConcurrentPositions = 0 \/ Cardinality(T) <= MaxConcurrentPositions
      BY <3>7, <3>8
    <3> QED
      BY <3>9 DEF T
  <2>4. CASE Restart
    BY <2>4 DEF Restart
  <2> QED
    BY <2>1, <2>2, <2>3, <2>4, StepKinds
<1>2. [][Opens => Fits]_vars <=> CapRespected
  BY PTL DEF CapRespected
<1> QED
  BY <1>1, <1>2, TypeCorrect, ShapeInvariant, SlotsInvariant, PTL DEF Spec

-----------------------------------------------------------------------------
(* The Runtime implements the abstract book.                               *)

\* A step of the Runtime is a step of BasisBook or leaves its book alone.
LEMMA BookSteps ==
    ASSUME TypeOK, TickShape, Dated, SlotsHeld, DriftIsConfined, [Next]_vars
    PROVE  [Abstract!Next]_(Abstract!bookVars)
<1> USE DEF Abstract!bookVars, Abstract!Next
<1>1. CASE Quiet
  <2>0. Tracked(openBasis)' = Tracked(openBasis) /\ lost' = lost /\ openBasis' = openBasis
    BY <1>1, QuietKeepsBook DEF bookVars, Tracked
  <2>1. CASE up' = up /\ dec' = dec /\ ticks' = ticks
    BY <2>0, <2>1 DEF Unseen
  <2>2. CASE BeginTick
    <3>1. up /\ up' = up /\ dec' \in Plan /\ ticks' = ticks + 1
      BY <2>2, PlansArePlans DEF BeginTick
    <3>2. Unseen(openBasis)' = {}
      <4>1. \A k \in Keys : openBasis[k] \in Nat /\ openBasis[k] <= ticks
        BY DEF Dated, TypeOK, Book
      <4> QED
        BY <2>0, <3>1, <4>1 DEF Unseen, TwoWay, TypeOK
    <3>3. TwoWay(dec)' \subseteq Keys
      BY DEF TwoWay
    <3> QED
      BY <2>0, <3>1, <3>2, <3>3 DEF Abstract!Decide
  <2>3. CASE EndTick \/ Crash
    <3>1. TwoWay(dec)' = {} /\ Unseen(openBasis)' = {}
      BY <2>3, PlansArePlans DEF EndTick, Crash, NoTick, Unseen
    <3>2. up /\ (up' = up \/ up' = FALSE)
      BY <2>3 DEF EndTick, Crash, procVars
    <3> QED
      BY <2>0, <3>1, <3>2 DEF Abstract!Decide, Abstract!Halt, Abstract!NoDecision
  <2>4. CASE LoopExits
    <3>1. dec = NoPlan /\ dec' = NoPlan /\ up /\ up' = FALSE
      BY <2>4 DEF LoopExits, TickShape, tickVars
    <3>2. TwoWay(dec)' = {} /\ Unseen(openBasis)' = {}
      BY <3>1, PlansArePlans DEF Unseen
    <3> QED
      BY <2>0, <3>1, <3>2 DEF Abstract!Halt, Abstract!NoDecision
  <2> QED
    BY <1>1, <2>1, <2>2, <2>3, <2>4
    DEF Quiet, BeginOrders, ExecuteCancels, BeginOpens, ExecuteSwap, ExecuteOrder, Stop, Land,
        Match, vars, tickVars, procVars
<1>2. ASSUME NEW o \in OrderIntent, ReconcileClose(o)
      PROVE  [Abstract!Next]_(Abstract!bookVars)
  <2>0. up /\ up' = up /\ dec' = dec /\ ticks' = ticks
    BY <1>2 DEF ReconcileClose, procVars
  <2>1. CASE UNCHANGED bookVars
    BY <2>0, <2>1 DEF bookVars, Tracked, Unseen
  <2>2. CASE openBasis[o.key] # 0 /\ Record(o.key, 0, FALSE)
    <3>1. o.key \in Keys /\ o.key \in Tracked(openBasis)
      BY <2>2 DEF OrderIntent, Tracked
    <3>2. Tracked(openBasis') = Tracked(openBasis) \ {o.key}
      BY <2>2, <3>1 DEF Record, Tracked, TypeOK, Book
    <3>3. Abstract!Saves(o.key)
      BY <2>2 DEF Record, Persist, Abstract!Saves
    <3>4. Unseen(openBasis)' = Unseen(openBasis) \ {o.key}
      BY <1>2, <2>0, <2>2, <3>1
      DEF Record, Unseen, TypeOK, Book, TickShape, ReconcileClose, TwoWay
    <3> QED
      BY <2>0, <3>1, <3>2, <3>3, <3>4 DEF Abstract!Close
  <2> QED
    BY <1>2, <2>1, <2>2 DEF ReconcileClose
<1>3. ASSUME NEW o \in OrderIntent, ReconcileOpen(o)
      PROVE  [Abstract!Next]_(Abstract!bookVars)
  <2>0. up /\ up' = up /\ dec' = dec /\ ticks' = ticks
    BY <1>3 DEF ReconcileOpen, procVars
  <2>1. CASE UNCHANGED bookVars
    BY <2>0, <2>1 DEF bookVars, Tracked, Unseen
  <2>2. CASE ~UNCHANGED bookVars
    <3>1. openBasis[o.key] = 0 /\ Record(o.key, ticks, rows[o.key] # 0)
      BY <1>3, <2>2 DEF ReconcileOpen
    <3>2. openBasis' # openBasis
      BY <1>3, <3>1 DEF Record, TypeOK, Book, OrderIntent, TickShape, ReconcileOpen
    <3>3. /\ o.key \in inflightOpens \/ o.key \in TwoWay(dec)
          /\ o.key \in Keys /\ o.key \notin Tracked(openBasis)
          /\ openBasis' = [openBasis EXCEPT ![o.key] = ticks]
          /\ Tracked(openBasis') = Tracked(openBasis) \union {o.key}
      BY <1>3, <3>2, OpensHoldSlots DEF OrderIntent, Tracked
    <3>4. o.key \in TwoWay(dec) \/ Abstract!HasRoom
      <4> SUFFICES ASSUME o.key \in inflightOpens, MaxConcurrentPositions # 0
                   PROVE  Cardinality(Tracked(openBasis) \ Unseen(openBasis))
                            < MaxConcurrentPositions
        <5>1. Abstract!Cardinality(Tracked(openBasis) \ Unseen(openBasis))
                = Cardinality(Tracked(openBasis) \ Unseen(openBasis))
          BY DEF Abstract!Cardinality, Cardinality, Abstract!IsFiniteSet, IsFiniteSet
        <5> QED
          BY <3>3, <5>1 DEF Abstract!HasRoom
      <4> DEFINE S == Tracked(openBasis) \ Unseen(openBasis)
      <4>1. S \subseteq S \union inflightOpens /\ S \union inflightOpens \subseteq Keys
            /\ S # S \union inflightOpens
        BY <3>3, TrackedKeys DEF TypeOK
      <4>2. /\ Cardinality(S) \in Nat /\ Cardinality(S \union inflightOpens) \in Nat
            /\ Cardinality(S) < Cardinality(S \union inflightOpens)
        BY <4>1, FewerCount
      <4>3. Cardinality(S \union inflightOpens) <= MaxConcurrentPositions
        BY DEF SlotsHeld
      <4> HIDE DEF S
      <4>4. Cardinality(S) < MaxConcurrentPositions
        BY <4>2, <4>3
      <4> QED
        BY <4>4 DEF S
    <3>6. Unseen(openBasis)' = Unseen(openBasis) \union ({o.key} \intersect TwoWay(dec))
      <4>1. \A k \in Keys \ {o.key} : openBasis'[k] = openBasis[k]
        BY <3>3 DEF TypeOK, Book
      <4>2. openBasis'[o.key] = ticks
        BY <3>3 DEF TypeOK, Book
      <4>3. TwoWay(dec) \subseteq Keys
        BY DEF TwoWay
      <4> QED
        BY <2>0, <3>3, <4>1, <4>2, <4>3 DEF Unseen
    <3>5. Abstract!Saves(o.key)
      BY <3>1 DEF Record, Persist, Abstract!Saves
    <3> QED
      BY <2>0, <3>3, <3>4, <3>5, <3>6 DEF Abstract!Open
  <2> QED
    BY <2>1, <2>2
<1>4. CASE Restart
  <2>0. ~up /\ up' = TRUE /\ UNCHANGED TwoWay(dec) /\ UNCHANGED Unseen(openBasis)
    <3>1. dec = NoPlan /\ dec' = NoPlan
      BY <1>4 DEF Restart, TickShape, tickVars
    <3> QED
      BY <1>4, <3>1, PlansArePlans DEF Restart, Unseen
  <2>1. CASE openBasis' = rows /\ lost' = {}
    <3>1. Tracked(openBasis') \ lost = Tracked(openBasis) \ lost
      BY <2>1 DEF Tracked, DriftIsConfined
    <3> QED
      BY <2>0, <2>1, <3>1, TrackedKeys DEF Abstract!Restore
  <2>2. CASE StoreFaults /\ openBasis' = EmptyBook /\ lost' = Tracked(rows)
    <3>1. Tracked(openBasis') = {}
      BY <2>2 DEF Tracked, EmptyBook
    <3>2. Tracked(openBasis) \ lost \subseteq Tracked(rows)
      BY DEF Tracked, DriftIsConfined
    <3> QED
      BY <2>0, <2>2, <3>1, <3>2, TrackedKeys DEF Abstract!Forget
  <2> QED
    BY <1>4, <2>1, <2>2 DEF Restart, Hydrate
<1> QED
  BY <1>1, <1>2, <1>3, <1>4, StepKinds

\* Ticks, legs, shutdowns, crashes and restarts of the Runtime amount to the
\* six actions of BasisBook (BasisRuntime!BookKept).
THEOREM RuntimeKeepsBook == Spec => BookKept
<1>1. Init => Abstract!Init
  BY PlansArePlans DEF Init, Abstract!Init, Abstract!NoDecision, Tracked, Unseen, EmptyBook
<1>2. TypeOK /\ TickShape /\ Dated /\ SlotsHeld /\ DriftIsConfined /\ [Next]_vars
        => [Abstract!Next]_(Abstract!bookVars)
  BY BookSteps
<1> QED
  BY <1>1, <1>2, TypeCorrect, ShapeInvariant, DatesInvariant, SlotsInvariant, DriftConfined, PTL
  DEF Spec, BookKept, Abstract!Spec

-----------------------------------------------------------------------------
(* Positions and the legs behind them.                                     *)

\* The flags of a live agent's tick are true and its book names only decisions
\* whose legs exist, on three conditions the code does not check: the mode of the
\* agent never changes, no decision swaps a key both ways, and none mixes the
\* opening of a key with another kind of order for it.
LEMMA FlagsInvariant ==
    ASSUME SwitchModes = FALSE, OneWayPerKey, OneOrderPerOpen
    PROVE  Spec => []FlagsAreTrue
<1>1. Init => FlagsAreTrue
  BY DEF Init, FlagsAreTrue, BackedBy, Tracked, EmptyBook, NoPlan
<1>2. TypeOK /\ TickShape /\ FlagsAreTrue /\ [Next]_vars => FlagsAreTrue'
  <2> SUFFICES ASSUME TypeOK, TickShape, FlagsAreTrue, [Next]_vars, mode' = "live"
               PROVE  FlagsAreTrue'
    BY DEF FlagsAreTrue
  <2>0. mode = "live"
    <3>1. mode' = mode
      BY DEF Next, BeginTick, BeginOrders, ExecuteCancels, BeginOpens, EndTick, ExecuteSwap,
             ExecuteOrder, ReconcileClose, ReconcileOpen, Stop, LoopExits, Crash, Restart,
             Land, Match, vars, procVars
    <3> QED
      BY <3>1
  <2> USE <2>0 DEF FlagsAreTrue
  <2>a. landed \subseteq landed' /\ accepted \subseteq accepted'
    BY DEF Next, BeginTick, BeginOrders, ExecuteCancels, BeginOpens, EndTick, ExecuteSwap,
           PaperSwap, ConfirmSwap, TrustSwap, FailSwap, LoseSwap, ExecuteOrder, PaperOrder, FillOrder,
           RestOrder, FailOrder, LoseOrder, ReconcileClose, ReconcileOpen, Stop, LoopExits,
           Crash, Restart, Land, Match, vars, venueVars
  <2>b. ASSUME UNCHANGED bookVars PROVE BackedBy(openBasis)' /\ BackedBy(rows)'
    BY <2>a, <2>b DEF BackedBy, SwapLanded, ShortAccepted, Tracked, bookVars
  <2>c. ASSUME NEW k, NEW n
        PROVE  /\ SwapLanded(k, n) => SwapLanded(k, n)'
               /\ ShortAccepted(k, n) => ShortAccepted(k, n)'
    BY <2>a DEF SwapLanded, ShortAccepted
  <2>1. CASE BeginTick
    BY <2>1, <2>b DEF BeginTick
  <2>2. CASE BeginOrders \/ ExecuteCancels \/ BeginOpens
    BY <2>2, <2>b, <2>c DEF BeginOrders, ExecuteCancels, BeginOpens, procVars
  <2>3. CASE EndTick \/ Crash
    BY <2>3, <2>b DEF EndTick, Crash, NoTick, NoPlan
  <2>4. ASSUME NEW s \in SwapIntent, ExecuteSwap(s) PROVE FlagsAreTrue'
    <3>1. /\ dec' = dec /\ orderOK' = orderOK /\ ticks' = ticks /\ s \in dec.swaps
          /\ UNCHANGED bookVars
      BY <2>4 DEF ExecuteSwap, TickShape, procVars
    <3>2. ASSUME NEW t \in dec.swaps, t.opening, t.key \in swapOK' \intersect Witnessed
                 PROVE  SwapLanded(t.key, ticks)'
      <4>1. t.key = s.key => s.opening
        <5>1. dec \in Plans /\ TwoWay(dec) = {}
          BY <3>1 DEF TickShape, NoPlan, OneWayPerKey
        <5>2. s.opening \in BOOLEAN /\ s.key \in Keys
          BY DEF SwapIntent
        <5> SUFFICES ASSUME t.key = s.key, ~s.opening PROVE FALSE
          OBVIOUS
        <5>3. \E u, v \in dec.swaps : u.key = s.key /\ v.key = s.key /\ u.opening /\ ~v.opening
          BY <3>1, <3>2
        <5>4. s.key \in TwoWay(dec)
          BY <5>2, <5>3 DEF TwoWay
        <5> QED
          BY <5>1, <5>4
      <4>2. CASE t.key \in swapOK
        BY <2>a, <3>1, <3>2, <4>2 DEF SwapLanded
      <4>3. CASE t.key \notin swapOK
        <5>1. ConfirmSwap(s) /\ t.key = s.key
          BY <2>4, <3>2, <4>3
          DEF Witnessed, ExecuteSwap, PaperSwap, ConfirmSwap, TrustSwap, FailSwap, LoseSwap, SwapSucceeded, SwapDidNot
        <5>2. Tx(s) \in landed' /\ Tx(s) = [key |-> t.key, opening |-> TRUE, idx |-> s.idx, tick |-> ticks]
          <6>1. s.opening = TRUE
            BY <4>1, <5>1 DEF SwapIntent
          <6> QED
            BY <5>1, <6>1 DEF ConfirmSwap, Tx
        <5>3. s.idx \in Indexes
          BY DEF SwapIntent
        <5> QED
          BY <3>1, <5>2, <5>3 DEF SwapLanded
      <4> QED
        BY <4>2, <4>3
    <3>3. \A t \in dec'.swaps : t.opening /\ t.key \in swapOK' \intersect Witnessed
                                   => SwapLanded(t.key, ticks)'
      BY <3>1, <3>2
    <3>4. \A t \in dec'.swaps : t.opening /\ t.key \in orderOK' /\ PerpWired
                                   => ShortAccepted(t.key, ticks)'
      BY <2>a, <3>1 DEF ShortAccepted
    <3> QED
      BY <2>b, <3>1, <3>3, <3>4
  <2>5. ASSUME NEW o \in OrderIntent, ExecuteOrder(o) PROVE FlagsAreTrue'
    <3>1. /\ dec' = dec /\ swapOK' = swapOK /\ ticks' = ticks /\ o \in dec.orders
          /\ UNCHANGED bookVars
      BY <2>5 DEF ExecuteOrder, TickShape, procVars
    <3>2. ASSUME NEW s \in dec.swaps, s.opening, s.key \in orderOK', PerpWired
          PROVE  ShortAccepted(s.key, ticks)'
      <4>1. CASE s.key \in orderOK
        BY <2>a, <3>1, <3>2, <4>1 DEF ShortAccepted
      <4>2. CASE s.key \notin orderOK
        <5>1. o.key = s.key /\ Ord(o) \in accepted'
          BY <2>5, <3>2, <4>2
          DEF ExecuteOrder, PaperOrder, FillOrder, RestOrder, FailOrder, LoseOrder,
              OrderSucceeded, OrderDidNot
        <5>2. dec \in Plans
          BY <3>1 DEF TickShape, NoPlan
        <5>3. o.kind = "short"
          BY <3>1, <3>2, <5>1, <5>2 DEF OneOrderPerOpen
        <5>4. o.idx \in Indexes
          BY DEF OrderIntent
        <5> QED
          BY <3>1, <5>1, <5>3, <5>4 DEF Ord, ShortAccepted
      <4> QED
        BY <4>1, <4>2
    <3> QED
      BY <2>b, <2>c, <3>1, <3>2
  <2>6. ASSUME NEW o \in OrderIntent, ReconcileClose(o) PROVE FlagsAreTrue'
    <3>1. /\ dec' = dec /\ swapOK' = swapOK /\ orderOK' = orderOK /\ ticks' = ticks
          /\ landed' = landed /\ accepted' = accepted
      BY <2>6 DEF ReconcileClose, procVars, venueVars
    <3>2. BackedBy(openBasis)'
      BY <2>6, <3>1
      DEF ReconcileClose, Record, BackedBy, SwapLanded, ShortAccepted, Tracked, TypeOK, Book, OrderIntent, bookVars
    <3>3. BackedBy(rows)'
      BY <2>6, <3>1
      DEF ReconcileClose, Record, Persist, BackedBy, SwapLanded, ShortAccepted, Tracked, TypeOK, Book, OrderIntent, bookVars
    <3> QED
      BY <2>c, <3>1, <3>2, <3>3
  <2>7. ASSUME NEW o \in OrderIntent, ReconcileOpen(o) PROVE FlagsAreTrue'
    <3>1. /\ dec' = dec /\ swapOK' = swapOK /\ orderOK' = orderOK /\ ticks' = ticks
          /\ landed' = landed /\ accepted' = accepted
      BY <2>7 DEF ReconcileOpen, procVars, venueVars
    <3>2. BothLegs(o.key) => /\ o.key \in Witnessed => SwapLanded(o.key, ticks)
                             /\ PerpWired => ShortAccepted(o.key, ticks)
      <4>1. PICK s \in dec.swaps : s.opening /\ s.key = o.key
        BY <2>7 DEF ReconcileOpen, TickShape, Pairs
      <4> QED
        BY <4>1 DEF BothLegs
    <3>3. BackedBy(openBasis)'
      BY <2>7, <3>1, <3>2
      DEF ReconcileOpen, Record, BackedBy, SwapLanded, ShortAccepted, Tracked, TypeOK, Book, OrderIntent, bookVars
    <3>4. BackedBy(rows)'
      BY <2>7, <3>1, <3>2
      DEF ReconcileOpen, Record, Persist, BackedBy, SwapLanded, ShortAccepted, Tracked, TypeOK, Book, OrderIntent, bookVars
    <3> QED
      BY <2>c, <3>1, <3>3, <3>4
  <2>8. CASE Stop \/ LoopExits
    BY <2>8, <2>b, <2>c DEF Stop, LoopExits, tickVars
  <2>9. CASE Restart
    <3>1. swapOK' = {} /\ orderOK' = {} /\ landed' = landed /\ accepted' = accepted /\ rows' = rows
      BY <2>9 DEF Restart, TickShape, tickVars, venueVars
    <3>2. BackedBy(openBasis)' /\ BackedBy(rows)'
      BY <2>9, <3>1
      DEF Restart, Hydrate, BackedBy, SwapLanded, ShortAccepted, Tracked, EmptyBook
    <3> QED
      BY <3>1, <3>2
  <2>10. ASSUME NEW t \in landing, Land(t) PROVE FlagsAreTrue'
    BY <2>10, <2>b, <2>c DEF Land, tickVars, procVars
  <2>11. ASSUME NEW r \in resting, Match(r) PROVE FlagsAreTrue'
    BY <2>11, <2>b, <2>c DEF Match, tickVars, procVars
  <2>12. CASE UNCHANGED vars
    BY <2>12, <2>b, <2>c DEF vars, tickVars, procVars
  <2> QED
    BY <2>1, <2>2, <2>3, <2>4, <2>5, <2>6, <2>7, <2>8, <2>9, <2>10, <2>11, <2>12 DEF Next
<1> QED
  BY <1>1, <1>2, TypeCorrect, ShapeInvariant, PTL DEF Spec

\* Every position of a live agent has its two legs
\* (BasisRuntime!EveryPositionIsBacked), on the same three conditions.
THEOREM PositionsAreBacked ==
    ASSUME SwitchModes = FALSE, OneWayPerKey, OneOrderPerOpen
    PROVE  Spec => []EveryPositionIsBacked
<1>1. FlagsAreTrue => EveryPositionIsBacked
  BY DEF FlagsAreTrue, EveryPositionIsBacked
<1> QED
  BY <1>1, FlagsInvariant, PTL

\* In paper mode no step of a tick reaches a venue, in whatever order set-mode,
\* shutdowns and restarts fall: executeSwap, executeOrder and executeCancel
\* look at the mode the Runtime was built with, and what still lands was sent
\* by an earlier live Runtime.
THEOREM PaperIsQuiet == Spec => PaperSendsNothing
<1> DEFINE Silent == mode = "paper" => /\ accepted' = accepted /\ pulled' = pulled
                                      /\ landing' \subseteq landing
                                      /\ landed' \subseteq landed \union landing
<1>1. ASSUME [Next]_vars PROVE Silent
  <2> SUFFICES ASSUME mode = "paper" PROVE Silent
    OBVIOUS
  <2>1. CASE UNCHANGED venueVars
    BY <2>1 DEF venueVars
  <2>2. CASE BeginTick \/ BeginOrders \/ BeginOpens \/ EndTick \/ Stop \/ LoopExits \/ Crash \/ Restart
    <3>1. UNCHANGED venueVars
      BY <2>2 DEF BeginTick, BeginOrders, BeginOpens, EndTick, Stop, LoopExits, Crash, Restart
    <3> QED
      BY <2>1, <3>1
  <2>3. CASE ExecuteCancels
    BY <2>3 DEF ExecuteCancels, SendsOrders
  <2>4. ASSUME NEW s \in SwapIntent, ExecuteSwap(s) PROVE Silent
    <3>1. PaperSwap(s) \/ FailSwap(s)
      BY <2>4 DEF ExecuteSwap, ConfirmSwap, TrustSwap, LoseSwap
    <3> QED
      BY <2>1, <3>1 DEF PaperSwap, FailSwap
  <2>5. ASSUME NEW o \in OrderIntent, ExecuteOrder(o) PROVE Silent
    <3>1. PaperOrder(o) \/ FailOrder(o)
      BY <2>5 DEF ExecuteOrder, FillOrder, RestOrder, LoseOrder, SendsOrders
    <3> QED
      BY <2>1, <3>1 DEF PaperOrder, FailOrder
  <2>6. ASSUME NEW o \in OrderIntent, ReconcileClose(o) \/ ReconcileOpen(o) PROVE Silent
    BY <2>1, <2>6 DEF ReconcileClose, ReconcileOpen
  <2>7. ASSUME NEW t \in landing, Land(t) PROVE Silent
    BY <2>7 DEF Land
  <2>8. ASSUME NEW r \in resting, Match(r) PROVE Silent
    BY <2>8 DEF Match
  <2>9. CASE UNCHANGED vars
    BY <2>1, <2>9 DEF vars
  <2> QED
    BY <1>1, <2>2, <2>3, <2>4, <2>5, <2>6, <2>7, <2>8, <2>9 DEF Next
<1> QED
  BY <1>1, PTL DEF Spec, PaperSendsNothing
===============================================================================
