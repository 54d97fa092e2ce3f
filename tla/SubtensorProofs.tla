--------------------------- MODULE SubtensorProofs ---------------------------
(***************************************************************************)
(* Proofs about Subtensor, for any processes, amounts and bounds.          *)
(***************************************************************************)
EXTENDS Subtensor, FiniteSetTheorems, TLAPS

-----------------------------------------------------------------------------
(* Units and calls.                                                        *)

\* TAOToRAO truncates into a u64.
LEMMA RaoFitsU64 ==
    ASSUME NEW tao \in Int
    PROVE  /\ TAOToRAO(tao) \in 0 .. MaxU64
           /\ RAOToTAO(TAOToRAO(tao)) <= (IF tao < 0 THEN 0 ELSE tao)
  BY SubtensorAssumption DEF TAOToRAO, RAOToTAO

\* The RAO a swap stakes for a quote: what the quote said, and no more than was
\* asked for.
LEMMA QuotedRao ==
    ASSUME NEW amount \in Amounts, NEW quoted \in Quote(amount)
    PROVE  /\ TAOToRAO(quoted) \in 0 .. MaxU64
           /\ RAOToTAO(TAOToRAO(quoted)) <= (IF amount < 0 THEN 0 ELSE amount)
  <1>1. PICK in \in 0 .. TAOToRAO(amount) : quoted = RAOToTAO(in)
    BY DEF Quote, SimSwap
  <1>2. amount \in Int /\ MaxU64 \in Nat
    BY SubtensorAssumption
  <1>3. TAOToRAO(amount) \in 0 .. MaxU64
    BY <1>2, RaoFitsU64
  <1>4. in \in 0 .. MaxU64 /\ quoted = 2 * in
    BY <1>1, <1>2, <1>3 DEF RAOToTAO
  <1>5. TAOToRAO(quoted) = in
    BY <1>2, <1>4 DEF TAOToRAO
  <1>6. RAOToTAO(TAOToRAO(amount)) <= (IF amount < 0 THEN 0 ELSE amount)
    BY <1>2, RaoFitsU64
  <1> QED
    BY <1>1, <1>2, <1>3, <1>4, <1>5, <1>6 DEF RAOToTAO

\* The calls the client builds are typed.
LEMMA StakeCallTyped ==
    ASSUME NEW isBuy, NEW netuid \in Netuids, NEW rao \in 0 .. MaxU64
    PROVE  /\ StakeCall(isBuy, netuid, rao) \in Calls \ {NoCall}
           /\ StakeCall(isBuy, netuid, rao).rao = rao
  BY SubtensorAssumption DEF StakeCall, AddStakeCall, RemoveStakeCall, Calls, Kinds, NoCall

-----------------------------------------------------------------------------
(* Types.                                                                  *)

\* A step of one process that leaves it well typed keeps the types of proc.
LEMMA OneProcess ==
    ASSUME TypeOK, NEW p \in Procs, NEW s, proc' = [proc EXCEPT ![p] = s], ProcOK(p, s)
    PROVE  /\ proc' \in [Procs -> States]
           /\ \A q \in Procs : ProcOK(q, proc'[q])
  <1>1. proc \in [Procs -> States] /\ \A q \in Procs : ProcOK(q, proc[q])
    BY DEF TypeOK
  <1>2. s \in States
    BY DEF ProcOK
  <1>3. \A q \in Procs : proc'[q] = IF q = p THEN s ELSE proc[q]
    BY <1>1
  <1>4. proc' \in [Procs -> States]
    BY <1>1, <1>2
  <1> QED
    BY <1>1, <1>3, <1>4

\* Bounds as the proofs use them.
LEMMA ZeroTyped == 0 \in Int /\ 0 \in Nat /\ 0 \in 0 .. MaxPolls
  BY SubtensorAssumption

LEMMA Bounds ==
    /\ MaxU64 \in Nat /\ 1 <= MaxU64 /\ MaxSubnets \in Nat /\ 1 <= MaxSubnets
    /\ Count \in Nat /\ 1 <= Count /\ MaxPolls \in Nat
    /\ Netuids \subseteq 0 .. MaxSubnets /\ Amounts \subseteq Int /\ NoiseAmounts \subseteq Nat
    /\ NoBoot \in BootStates
  BY SubtensorAssumption DEF NoBoot, BootAt, BootStates

LEMMA CallBound ==
    ASSUME NEW p \in Procs
    PROVE  MaxCalls[p] \in Nat /\ 0 <= MaxCalls[p]
  BY SubtensorAssumption

\* The records that the steps write are well typed.
LEMMA IdleTyped ==
    ASSUME NEW p \in Procs, NEW n \in Nat, n <= MaxCalls[p],
           NEW report \in {"none", "ok", "failed", "cut off"}, NEW fate \in {"unsent", "pooled"}
    PROVE  /\ ProcOK(p, Idle(n, report, fate))
           /\ ProcOK(p, At("wait", 0, NoCall, n, report, fate))
           /\ ProcOK(p, At("hung", 0, NoCall, n, report, fate))
  BY ZeroTyped, Zenon DEF ProcOK, Idle, At, States

LEMMA CallTyped ==
    ASSUME NEW p \in Procs, NEW n \in Nat, n <= MaxCalls[p], NEW asked \in Int,
           NEW call \in Calls \ {NoCall}
    PROVE  ProcOK(p, At("resolve", asked, call, n, "none", "unsent"))
  BY ZeroTyped, Zenon DEF ProcOK, At, States

\* Fields of a state that is changed in place.
LEMMA ReadNonce ==
    ASSUME NEW s \in States, NEW k \in Nat
    PROVE  LET t == [s EXCEPT !.pc = "submit", !.nonce = k]
           IN  /\ t \in States /\ t.pc = "submit" /\ t.call = s.call /\ t.n = s.n /\ t.nonce = k
               /\ t.asked = s.asked /\ t.report = s.report /\ t.fate = s.fate
  BY Zenon DEF States

LEMMA CountPoll ==
    ASSUME NEW s \in States, s.polls < MaxPolls
    PROVE  LET t == [s EXCEPT !.polls = @ + 1]
           IN  /\ t \in States /\ t.pc = s.pc /\ t.call = s.call /\ t.n = s.n /\ t.nonce = s.nonce
               /\ t.asked = s.asked /\ t.report = s.report /\ t.fate = s.fate
  <1>1. s.polls \in 0 .. MaxPolls
    BY Zenon DEF States
  <1>2. s.polls + 1 \in 0 .. MaxPolls
    BY <1>1, Bounds
  <1> QED
    BY <1>2, Zenon DEF States

\* A process as the types have it.
LEMMA ProcessTyped ==
    ASSUME TypeOK, NEW p \in Procs
    PROVE  /\ proc[p] \in States /\ proc[p].n \in Nat /\ proc[p].n <= MaxCalls[p]
           /\ proc[p].fate \in {"unsent", "pooled"} /\ MaxCalls[p] \in Nat
           /\ (proc[p].pc \in {"resolve", "submit"}) <=> (proc[p].call # NoCall)
           /\ ProcOK(p, proc[p])
  <1>1. ProcOK(p, proc[p])
    BY DEF TypeOK
  <1>2. /\ proc[p] \in States /\ proc[p].n <= MaxCalls[p]
        /\ (proc[p].pc \in {"resolve", "submit"}) <=> (proc[p].call # NoCall)
    BY <1>1 DEF ProcOK
  <1>3. proc[p].n \in Nat /\ proc[p].fate \in {"unsent", "pooled"}
    BY <1>2, Zenon DEF States
  <1> QED
    BY <1>1, <1>2, <1>3, CallBound

\* Its end, however it is reported.
LEMMA ReturnTypes ==
    ASSUME TypeOK, NEW p \in Procs, NEW report \in {"ok", "failed", "cut off"},
           Returns(p, report), UNCHANGED <<chainVars, boot>>
    PROVE  TypeOK'
  <1>1. ProcOK(p, Idle(proc[p].n, report, proc[p].fate))
    BY ProcessTyped, IdleTyped
  <1>2. proc' \in [Procs -> States] /\ \A q \in Procs : ProcOK(q, proc'[q])
    BY <1>1, OneProcess DEF Returns, After
  <1> QED
    BY <1>2 DEF TypeOK, chainVars

\* The steps of a call keep the types.
LEMMA AdvanceTypes ==
    ASSUME TypeOK, NEW p \in Procs, Advance(p)
    PROVE  TypeOK'
  <1>1. proc[p] \in States /\ nonce \in Nat
    BY DEF TypeOK
  <1>2. CASE Resolve(p)
    <2>1. CASE Returns(p, "failed")
      BY <1>2, <2>1, ReturnTypes DEF Resolve, chainVars
    <2>2. CASE proc' = [proc EXCEPT ![p].pc = "submit", ![p].nonce = NonceFor(p)]
      <3> DEFINE s == [proc[p] EXCEPT !.pc = "submit", !.nonce = nonce]
      <3>1. s \in States /\ s.pc = "submit" /\ s.call = proc[p].call /\ s.n = proc[p].n
        BY <1>1, ReadNonce
      <3>2. proc' = [proc EXCEPT ![p] = s]
        BY <1>1, <2>2 DEF TypeOK, NonceFor
      <3>3. ProcOK(p, s)
        BY <1>2, <3>1, ProcessTyped DEF ProcOK, Resolve
      <3> HIDE DEF s
      <3> QED
        BY <1>2, <3>2, <3>3, OneProcess DEF Resolve, TypeOK
    <2> QED
      BY <1>2, <2>1, <2>2 DEF Resolve
  <1>3. CASE Submit(p)
    <2>1. ASSUME Returns(p, "failed"), UNCHANGED pool PROVE TypeOK'
      BY <1>3, <2>1, ReturnTypes DEF Submit, chainVars
    <2>2. ASSUME pool' = pool \cup {Extrinsic(p)},
                 \/ proc' = [proc EXCEPT ![p] = At("wait", 0, NoCall, @.n, "none", "pooled")]
                 \/ proc' = [proc EXCEPT ![p] = Idle(@.n, "cut off", "pooled")]
          PROVE  TypeOK'
      <3>1. proc[p].call \in Calls /\ proc[p].nonce \in Nat
        BY <1>1, <1>3, ProcessTyped DEF Submit, States
      <3>2. Extrinsic(p) \in [nonce : Nat, kind : Kinds, by : Procs]
        BY <3>1 DEF Extrinsic, Calls
      <3>3. pool' \subseteq [nonce : Nat, kind : Kinds, by : Procs]
        BY <2>2, <3>2 DEF TypeOK
      <3>4. /\ proc' \in [Procs -> States]
            /\ \A q \in Procs : ProcOK(q, proc'[q])
        <4>1. /\ ProcOK(p, At("wait", 0, NoCall, proc[p].n, "none", "pooled"))
              /\ ProcOK(p, Idle(proc[p].n, "cut off", "pooled"))
          BY ProcessTyped, IdleTyped
        <4> QED
          BY <2>2, <4>1, OneProcess
      <3> QED
        BY <1>3, <3>3, <3>4 DEF Submit, TypeOK
    <2> QED
      BY <1>3, <2>1, <2>2 DEF Submit
  <1>4. CASE Wait(p)
    <2>1. CASE Returns(p, "ok")
      BY <1>4, <2>1, ReturnTypes DEF Wait, chainVars
    <2>2. CASE proc[p].polls < MaxPolls /\ PollFails(p)
      <3> DEFINE s == [proc[p] EXCEPT !.polls = @ + 1]
      <3>1. s \in States /\ s.pc = proc[p].pc /\ s.call = proc[p].call /\ s.n = proc[p].n
        BY <1>1, <2>2, CountPoll
      <3>2. proc' = [proc EXCEPT ![p] = s]
        BY <1>1, <2>2 DEF TypeOK, PollFails
      <3>3. ProcOK(p, s)
        BY <3>1, ProcessTyped DEF ProcOK
      <3> HIDE DEF s
      <3> QED
        BY <1>4, <3>2, <3>3, OneProcess DEF Wait, TypeOK
    <2> QED
      BY <1>4, <2>1, <2>2 DEF Wait, TimedOut
  <1> QED
    BY <1>2, <1>3, <1>4 DEF Advance

\* An RPC that is never answered keeps the types.
LEMMA HangTypes ==
    ASSUME TypeOK, NEW p \in Procs, Hangs(p) \/ QueryHangs(p)
    PROVE  TypeOK'
  <1>1. /\ ProcOK(p, Hung(proc[p].n, proc[p].fate)) /\ ProcOK(p, Hung(proc[p].n, "pooled"))
        /\ proc[p].n < MaxCalls[p] => ProcOK(p, Hung(proc[p].n + 1, "unsent"))
    <2>1. ASSUME NEW n \in Nat, n <= MaxCalls[p], NEW fate \in {"unsent", "pooled"}
          PROVE  ProcOK(p, Hung(n, fate))
      BY <2>1, IdleTyped DEF Hung
    <2>2. proc[p].n \in Nat /\ proc[p].n <= MaxCalls[p] /\ proc[p].fate \in {"unsent", "pooled"}
      BY ProcessTyped
    <2>3. proc[p].n + 1 \in Nat /\ (proc[p].n < MaxCalls[p] => proc[p].n + 1 <= MaxCalls[p])
      BY <2>2, CallBound
    <2> QED
      BY <2>1, <2>2, <2>3
  <1>2. /\ proc' \in [Procs -> States]
        /\ \A q \in Procs : ProcOK(q, proc'[q])
    BY <1>1, OneProcess DEF Hangs, QueryHangs
  <1>3. pool' \subseteq [nonce : Nat, kind : Kinds, by : Procs]
    <2>1. CASE UNCHANGED pool
      BY <2>1 DEF TypeOK
    <2>2. CASE proc[p].pc = "submit" /\ pool' = pool \cup {Extrinsic(p)}
      <3>1. proc[p].call \in Calls /\ proc[p].nonce \in Nat
        BY <2>2, ProcessTyped DEF States
      <3> QED
        BY <2>2, <3>1 DEF TypeOK, Extrinsic, Calls
    <2> QED
      BY <2>1, <2>2 DEF Hangs, QueryHangs
  <1> QED
    BY <1>2, <1>3 DEF Hangs, QueryHangs, TypeOK

\* A call that begins keeps the types.
LEMMA InvokeTypes ==
    ASSUME TypeOK, NEW p \in Procs, proc[p].n < MaxCalls[p],
           NEW asked \in Int, NEW call \in Calls \ {NoCall}, Invoke(p, asked, call),
           UNCHANGED chainVars, boot' \in [Bootstraps -> BootStates]
    PROVE  TypeOK'
  <1>1. proc[p].n + 1 \in Nat /\ proc[p].n + 1 <= MaxCalls[p]
    BY ProcessTyped
  <1>2. ProcOK(p, At("resolve", asked, call, proc[p].n + 1, "none", "unsent"))
    BY <1>1, CallTyped
  <1>3. proc' \in [Procs -> States] /\ \A q \in Procs : ProcOK(q, proc'[q])
    BY <1>2, OneProcess DEF Invoke
  <1> QED
    BY <1>3 DEF TypeOK, chainVars

\* So does the agents' swap, refused or begun.
LEMMA SwapTypes ==
    ASSUME TypeOK, NEW p \in Agents, QuoteAndSwap(p)
    PROVE  TypeOK'
  <1>1. PICK isBuy \in BOOLEAN, netuid \in Netuids, amount \in Amounts : \E quoted \in Quote(amount) :
           Swap(p, isBuy, netuid, amount, quoted)
    BY DEF QuoteAndSwap
  <1>2. PICK quoted \in Quote(amount) : Swap(p, isBuy, netuid, amount, quoted)
    BY <1>1
  <1>3. /\ p \in Procs /\ proc[p].n < MaxCalls[p] /\ UNCHANGED <<chainVars, boot>>
        /\ boot \in [Bootstraps -> BootStates]
    BY DEF QuoteAndSwap, Procs, chainVars, TypeOK
  <1>4. CASE NotStarted(p)
    <2>1. ProcOK(p, Idle(proc[p].n + 1, "failed", "unsent"))
      <3>1. proc[p].n + 1 \in Nat /\ proc[p].n + 1 <= MaxCalls[p]
        BY <1>3, ProcessTyped
      <3> QED
        BY <1>3, <3>1, IdleTyped
    <2> QED
      BY <1>3, <1>4, <2>1, OneProcess DEF NotStarted, TypeOK, chainVars
  <1>5. CASE Invoke(p, amount, StakeCall(isBuy, netuid, TAOToRAO(quoted)))
    <2>1. TAOToRAO(quoted) \in 0 .. MaxU64 /\ amount \in Int
      BY QuotedRao, Bounds
    <2>2. StakeCall(isBuy, netuid, TAOToRAO(quoted)) \in Calls \ {NoCall}
      BY <2>1, StakeCallTyped
    <2> QED
      BY <1>3, <1>5, <2>1, <2>2, InvokeTypes
  <1> QED
    BY <1>2, <1>4, <1>5 DEF Swap

\* And the noise trader's.
LEMMA TradeTypes ==
    ASSUME TypeOK, NEW p \in Noise, Trade(p)
    PROVE  TypeOK'
  <1>1. PICK isBuy \in BOOLEAN, netuid \in Netuids, amount \in NoiseAmounts :
           Invoke(p, amount, StakeCall(isBuy, netuid, NoiseRao(amount)))
    BY DEF Trade
  <1>2. NoiseRao(amount) \in 0 .. MaxU64 /\ amount \in Int
    BY SubtensorAssumption DEF NoiseRao
  <1>3. StakeCall(isBuy, netuid, NoiseRao(amount)) \in Calls \ {NoCall}
    BY <1>2, StakeCallTyped
  <1>4. /\ p \in Procs /\ proc[p].n < MaxCalls[p] /\ UNCHANGED <<chainVars, boot>>
        /\ boot \in [Bootstraps -> BootStates]
    BY DEF Trade, Procs, chainVars, TypeOK
  <1> QED
    BY <1>1, <1>2, <1>3, <1>4, InvokeTypes

\* Netuids in use are counted within the bound.
LEMMA CountTyped == SubnetCount \in 0 .. MaxSubnets /\ IsFiniteSet(Live)
  <1>1. IsFiniteSet(Slots) /\ Cardinality(Slots) = MaxSubnets
    <2>1. /\ IsFiniteSet(0 .. MaxSubnets - 1)
          /\ Cardinality(0 .. MaxSubnets - 1) = IF 0 > MaxSubnets - 1 THEN 0 ELSE (MaxSubnets - 1) - 0 + 1
      BY Bounds, FS_Interval
    <2> QED
      BY <2>1, Bounds DEF Slots
  <1>2. Live \subseteq Slots
    BY DEF Live
  <1>3. IsFiniteSet(Live) /\ Cardinality(Live) <= Cardinality(Slots) /\ Cardinality(Live) \in Nat
    BY <1>1, <1>2, FS_Subset, FS_CardinalityType
  <1> QED
    BY <1>1, <1>3, Bounds DEF SubnetCount

\* The bootstrap command keeps the types of its locals.
LEMMA BootTypes ==
    ASSUME TypeOK, NEW p \in Bootstraps,
           CountBefore(p) \/ CountAfter(p) \/ Started(p) \/ BootFails(p)
    PROVE  TypeOK'
  <1>1. /\ p \in Procs /\ boot[p] \in BootStates /\ boot \in [Bootstraps -> BootStates]
        /\ SubnetCount \in 0 .. MaxSubnets
    BY CountTyped DEF TypeOK, Procs
  <1>2. /\ boot[p].made \in 0 .. Count - 1 /\ boot[p].before \in 0 .. MaxSubnets
        /\ boot[p].disturbed \in BOOLEAN
    BY <1>1, Zenon DEF BootStates
  <1>3. CASE CountBefore(p)
    <2>1. RegisterNetworkCall \in Calls \ {NoCall}
      BY Bounds DEF RegisterNetworkCall, Calls, Kinds, NoCall
    <2>2. boot' \in [Bootstraps -> BootStates]
      <3>1. BootAt("register", SubnetCount, 0, boot[p].made, Gap) \in BootStates
        BY <1>1, <1>2, Bounds DEF BootAt, BootStates, Gap
      <3> QED
        BY <1>1, <1>3, <3>1 DEF CountBefore
    <2> QED
      BY <1>1, <1>3, <2>1, <2>2, InvokeTypes DEF CountBefore
  <1>4. CASE CountAfter(p)
    <2>1. SubnetCount - 1 \in 0 .. MaxSubnets
      BY <1>1, <1>2, <1>4, Bounds DEF CountAfter, Grew
    <2>2. StartCallCall(SubnetCount - 1) \in Calls \ {NoCall}
      BY <2>1, Bounds DEF StartCallCall, Calls, Kinds, NoCall
    <2>3. boot' \in [Bootstraps -> BootStates]
      <3>1. BootAt("start", boot[p].before, SubnetCount - 1, boot[p].made, boot[p].disturbed)
              \in BootStates
        BY <1>2, <2>1 DEF BootAt, BootStates
      <3> QED
        BY <1>1, <1>4, <3>1 DEF CountAfter
    <2> QED
      BY <1>1, <1>4, <2>2, <2>3, InvokeTypes DEF CountAfter
  <1>5. CASE Started(p)
    <2>1. boot' \in [Bootstraps -> BootStates]
      <3> DEFINE made == IF boot[p].made + 1 = Count THEN 0 ELSE boot[p].made + 1
      <3>1. made \in 0 .. Count - 1
        BY <1>2, Bounds
      <3>2. BootAt("idle", 0, 0, made, FALSE) \in BootStates
        BY <3>1, Bounds DEF BootAt, BootStates
      <3> QED
        BY <1>1, <1>5, <3>2 DEF Started
    <2> QED
      BY <1>5, <2>1 DEF Started, TypeOK
  <1>6. CASE BootFails(p)
    BY <1>6, Bounds DEF BootFails, TypeOK
  <1> QED
    BY <1>3, <1>4, <1>5, <1>6

\* A cancelled wait keeps the types.
LEMMA CutOffTypes ==
    ASSUME TypeOK, NEW p \in Procs, CutOff(p)
    PROVE  TypeOK'
  <1>1. boot' \in [Bootstraps -> BootStates]
    BY Bounds DEF CutOff, TypeOK
  <1>2. ProcOK(p, Idle(proc[p].n, "cut off", proc[p].fate))
    BY ProcessTyped, IdleTyped
  <1>3. proc' \in [Procs -> States] /\ \A q \in Procs : ProcOK(q, proc'[q])
    BY <1>2, OneProcess DEF CutOff, After
  <1> QED
    BY <1>1, <1>3 DEF CutOff, TypeOK, chainVars

\* A registration, by whomever, and a deregistration keep the types.
LEMMA DisturbTypes ==
    ASSUME TypeOK, NEW who, Disturb(who)
    PROVE  boot' \in [Bootstraps -> BootStates]
  <1>1. ASSUME NEW p \in Bootstraps, NEW b \in BOOLEAN
        PROVE  [boot[p] EXCEPT !.disturbed = b] \in BootStates
    <2>1. boot[p] \in BootStates
      BY DEF TypeOK
    <2> QED
      BY <2>1 DEF BootStates
  <1>2. \A p \in Bootstraps : (boot[p].disturbed \/ (boot[p].pc # "idle" /\ p # who)) \in BOOLEAN
    OBVIOUS
  <1> QED
    BY <1>1, <1>2 DEF Disturb

LEMMA RegisterTypes ==
    ASSUME TypeOK, NEW who \in Procs \cup {"none", "other"}, Register(who)
    PROVE  /\ owner' \in [Slots -> Procs \cup {"none", "other"}]
           /\ boot' \in [Bootstraps -> BootStates]
  BY DisturbTypes DEF Register, TypeOK

\* Every RAO amount fits a u64, every netuid is one of the chain's, and the
\* processes' and the command's locals keep their ranges (client.go,
\* extrinsic.go, cli/bittensor.go).
THEOREM TypeCorrect == Spec => []TypeOK
  <1>1. Init => TypeOK
    <2> SUFFICES ASSUME Init PROVE TypeOK
      OBVIOUS
    <2>1. owner \in [Slots -> Procs \cup {"none", "other"}]
      BY DEF Init
    <2>2. \A p \in Procs : ProcOK(p, Idle(0, "none", "unsent"))
      BY IdleTyped, CallBound
    <2>3. \A p \in Procs : Idle(0, "none", "unsent") \in States
      BY <2>2 DEF ProcOK
    <2> QED
      BY <2>1, <2>2, <2>3, Bounds DEF Init, TypeOK
  <1>2. TypeOK /\ [Next]_vars => TypeOK'
    <2> SUFFICES ASSUME TypeOK, [Next]_vars PROVE TypeOK'
      OBVIOUS
    <2>1. CASE UNCHANGED vars
      BY <2>1 DEF vars, TypeOK
    <2>2. CASE Block
      <3>1. PICK x \in pool : /\ nonce' = nonce + 1 /\ pool' = pool \ {x} /\ UNCHANGED proc
                              /\ Register(x.by) \/ UNCHANGED <<owner, boot>>
        BY <2>2 DEF Block
      <3>2. x.by \in Procs
        BY DEF TypeOK
      <3>3. /\ owner' \in [Slots -> Procs \cup {"none", "other"}]
            /\ boot' \in [Bootstraps -> BootStates]
        BY <3>1, <3>2, RegisterTypes DEF TypeOK
      <3> QED
        BY <3>1, <3>3 DEF TypeOK
    <2>3. CASE Drop
      BY <2>3 DEF Drop, TypeOK
    <2>4. CASE OtherRegisters
      BY <2>4, RegisterTypes DEF OtherRegisters, TypeOK
    <2>5. CASE Deregister
      BY <2>5, DisturbTypes DEF Deregister, TypeOK
    <2>6. Agents \subseteq Procs /\ Bootstraps \subseteq Procs
      BY DEF Procs
    <2> QED
      BY <2>1, <2>2, <2>3, <2>4, <2>5, <2>6, AdvanceTypes, CutOffTypes, HangTypes, SwapTypes,
         TradeTypes, BootTypes
      DEF Next
  <1> QED
    BY <1>1, <1>2, PTL DEF Spec
-----------------------------------------------------------------------------
(* What a step does to a process: it leaves it alone, reads the nonce, ends  *)
(* the call before or after it was sent, sends it, polls once more, fails    *)
(* before there is a call, begins one, or stalls in an RPC.                  *)

ReadsNonce(s, t) ==
    /\ s.pc = "resolve" /\ t.pc = "submit" /\ t.nonce = nonce
    /\ t.call = s.call /\ t.asked = s.asked /\ t.report = s.report /\ t.fate = s.fate

Ends(s, t) ==
    \E report \in {"ok", "failed", "cut off"} :
        /\ t = Idle(s.n, report, s.fate)
        /\ IF report = "failed" THEN s.pc \in {"resolve", "submit"} ELSE s.pc = "wait"

Sends(s, t) ==
    /\ s.pc = "submit"
    /\ t \in {At("wait", 0, NoCall, s.n, "none", "pooled"), Idle(s.n, "cut off", "pooled")}

PollsAgain(s, t) ==
    /\ s.pc = "wait" /\ t.pc = s.pc /\ t.call = s.call /\ t.asked = s.asked
    /\ t.report = s.report /\ t.fate = s.fate

Begins(p, t, n) ==
    \E asked \in Int, call \in Calls :
        /\ t = At("resolve", asked, call, n, "none", "unsent")
        /\ p \in Agents => RAOToTAO(call.rao) <= (IF asked < 0 THEN 0 ELSE asked)

Stalls(t) == t.pc = "hung" /\ t.call = NoCall /\ t.report = "none"

Moves(p, s, t) ==
    \/ t = s \/ Stalls(t) \/ ReadsNonce(s, t) \/ Ends(s, t) \/ Sends(s, t) \/ PollsAgain(s, t)
    \/ t = Idle(s.n + 1, "failed", "unsent") \/ Begins(p, t, s.n + 1)

LEMMA OneMoves ==
    ASSUME TypeOK, NEW p \in Procs, NEW t, proc' = [proc EXCEPT ![p] = t], Moves(p, proc[p], t)
    PROVE  \A q \in Procs : Moves(q, proc[q], proc'[q])
  <1>1. \A q \in Procs : proc'[q] = IF q = p THEN t ELSE proc[q]
    BY DEF TypeOK
  <1> QED
    BY <1>1 DEF Moves

LEMMA AdvanceMoves ==
    ASSUME TypeOK, NEW p \in Procs, Advance(p)
    PROVE  \A q \in Procs : Moves(q, proc[q], proc'[q])
  <1>1. proc[p] \in States /\ nonce \in Nat /\ proc \in [Procs -> States]
    BY DEF TypeOK
  <1>2. ASSUME NEW report \in {"ok", "failed", "cut off"}, Returns(p, report),
               IF report = "failed" THEN proc[p].pc \in {"resolve", "submit"} ELSE proc[p].pc = "wait"
        PROVE  \A q \in Procs : Moves(q, proc[q], proc'[q])
    <2>1. Ends(proc[p], After(p, report))
      BY <1>2 DEF Ends, After
    <2> QED
      BY <1>2, <2>1, OneMoves DEF Returns, Moves
  <1>3. CASE Resolve(p)
    <2>1. CASE Returns(p, "failed")
      BY <1>2, <1>3, <2>1 DEF Resolve
    <2>2. CASE proc' = [proc EXCEPT ![p].pc = "submit", ![p].nonce = NonceFor(p)]
      <3> DEFINE s == [proc[p] EXCEPT !.pc = "submit", !.nonce = nonce]
      <3>1. /\ s.pc = "submit" /\ s.call = proc[p].call /\ s.nonce = nonce
            /\ s.asked = proc[p].asked /\ s.report = proc[p].report /\ s.fate = proc[p].fate
        BY <1>1, ReadNonce
      <3>2. proc' = [proc EXCEPT ![p] = s]
        BY <1>1, <2>2 DEF NonceFor
      <3> HIDE DEF s
      <3>3. Moves(p, proc[p], s)
        BY <1>3, <3>1 DEF Resolve, Moves, ReadsNonce
      <3> QED
        BY <3>2, <3>3, OneMoves
    <2> QED
      BY <1>3, <2>1, <2>2 DEF Resolve
  <1>4. CASE Submit(p)
    <2>1. CASE Returns(p, "failed")
      BY <1>2, <1>4, <2>1 DEF Submit
    <2>2. CASE \/ proc' = [proc EXCEPT ![p] = At("wait", 0, NoCall, @.n, "none", "pooled")]
               \/ proc' = [proc EXCEPT ![p] = Idle(@.n, "cut off", "pooled")]
      <3>1. /\ Moves(p, proc[p], At("wait", 0, NoCall, proc[p].n, "none", "pooled"))
            /\ Moves(p, proc[p], Idle(proc[p].n, "cut off", "pooled"))
        BY <1>4 DEF Submit, Moves, Sends
      <3> QED
        BY <2>2, <3>1, OneMoves
    <2> QED
      BY <1>4, <2>1, <2>2 DEF Submit
  <1>5. CASE Wait(p)
    <2>1. CASE Returns(p, "ok")
      BY <1>2, <1>5, <2>1 DEF Wait
    <2>2. CASE proc[p].polls < MaxPolls /\ PollFails(p)
      <3> DEFINE s == [proc[p] EXCEPT !.polls = @ + 1]
      <3>1. /\ s.pc = proc[p].pc /\ s.call = proc[p].call /\ s.asked = proc[p].asked
            /\ s.report = proc[p].report /\ s.fate = proc[p].fate
        BY <1>1, <2>2, CountPoll
      <3>2. proc' = [proc EXCEPT ![p] = s]
        BY <1>1, <2>2 DEF PollFails
      <3> HIDE DEF s
      <3>3. Moves(p, proc[p], s)
        BY <1>5, <3>1 DEF Wait, Moves, PollsAgain
      <3> QED
        BY <3>2, <3>3, OneMoves
    <2> QED
      BY <1>5, <2>1, <2>2 DEF Wait, TimedOut
  <1> QED
    BY <1>3, <1>4, <1>5 DEF Advance

LEMMA InvokeMoves ==
    ASSUME TypeOK, NEW p \in Procs, NEW asked \in Int, NEW call \in Calls, Invoke(p, asked, call),
           p \in Agents => RAOToTAO(call.rao) <= (IF asked < 0 THEN 0 ELSE asked)
    PROVE  \A q \in Procs : Moves(q, proc[q], proc'[q])
  <1>1. Begins(p, At("resolve", asked, call, proc[p].n + 1, "none", "unsent"), proc[p].n + 1)
    BY DEF Begins
  <1> QED
    BY <1>1, OneMoves DEF Invoke, Moves

LEMMA CallerMoves ==
    ASSUME TypeOK
    PROVE  /\ \A p \in Agents : QuoteAndSwap(p) => \A q \in Procs : Moves(q, proc[q], proc'[q])
           /\ \A p \in Noise : Trade(p) => \A q \in Procs : Moves(q, proc[q], proc'[q])
           /\ \A p \in Bootstraps : CountBefore(p) \/ CountAfter(p) =>
                 \A q \in Procs : Moves(q, proc[q], proc'[q])
  <1>1. ASSUME NEW p \in Agents, QuoteAndSwap(p)
        PROVE  \A q \in Procs : Moves(q, proc[q], proc'[q])
    <2>1. PICK isBuy \in BOOLEAN, netuid \in Netuids, amount \in Amounts : \E quoted \in Quote(amount) :
             Swap(p, isBuy, netuid, amount, quoted)
      BY <1>1 DEF QuoteAndSwap
    <2>2. PICK quoted \in Quote(amount) : Swap(p, isBuy, netuid, amount, quoted)
      BY <2>1
    <2>3. p \in Procs
      BY DEF Procs
    <2>4. CASE NotStarted(p)
      BY <2>3, <2>4, OneMoves DEF NotStarted, Moves
    <2>5. CASE Invoke(p, amount, StakeCall(isBuy, netuid, TAOToRAO(quoted)))
      <3>1. /\ TAOToRAO(quoted) \in 0 .. MaxU64 /\ amount \in Int
            /\ RAOToTAO(TAOToRAO(quoted)) <= (IF amount < 0 THEN 0 ELSE amount)
        BY QuotedRao, Bounds
      <3>2. /\ StakeCall(isBuy, netuid, TAOToRAO(quoted)) \in Calls
            /\ StakeCall(isBuy, netuid, TAOToRAO(quoted)).rao = TAOToRAO(quoted)
        BY <3>1, StakeCallTyped
      <3> QED
        BY <2>3, <2>5, <3>1, <3>2, InvokeMoves
    <2> QED
      BY <2>2, <2>4, <2>5 DEF Swap
  <1>2. ASSUME NEW p \in Noise, Trade(p)
        PROVE  \A q \in Procs : Moves(q, proc[q], proc'[q])
    <2>1. PICK isBuy \in BOOLEAN, netuid \in Netuids, amount \in NoiseAmounts :
             Invoke(p, amount, StakeCall(isBuy, netuid, NoiseRao(amount)))
      BY <1>2 DEF Trade
    <2>2. NoiseRao(amount) \in 0 .. MaxU64 /\ amount \in Int /\ p \in Procs /\ p \notin Agents
      BY SubtensorAssumption DEF NoiseRao, Procs
    <2>3. StakeCall(isBuy, netuid, NoiseRao(amount)) \in Calls
      BY <2>2, StakeCallTyped
    <2> QED
      BY <2>1, <2>2, <2>3, InvokeMoves
  <1>3. ASSUME NEW p \in Bootstraps, CountBefore(p) \/ CountAfter(p)
        PROVE  \A q \in Procs : Moves(q, proc[q], proc'[q])
    <2>1. p \in Procs /\ p \notin Agents /\ 0 \in Int
      BY SubtensorAssumption DEF Procs
    <2>2. CASE CountBefore(p)
      <3>1. RegisterNetworkCall \in Calls
        BY Bounds DEF RegisterNetworkCall, Calls, Kinds
      <3> QED
        BY <2>1, <2>2, <3>1, InvokeMoves DEF CountBefore
    <2>3. CASE CountAfter(p)
      <3>1. boot[p].before \in 0 .. MaxSubnets
        <4>1. boot[p] \in BootStates
          BY DEF TypeOK
        <4> QED
          BY <4>1, Zenon DEF BootStates
      <3>2. SubnetCount - 1 \in 0 .. MaxSubnets
        BY <2>3, <3>1, CountTyped, Bounds DEF CountAfter, Grew
      <3>3. StartCallCall(SubnetCount - 1) \in Calls
        BY <3>2, Bounds DEF StartCallCall, Calls, Kinds
      <3> QED
        BY <2>1, <2>3, <3>3, InvokeMoves DEF CountAfter
    <2> QED
      BY <1>3, <2>2, <2>3
  <1> QED
    BY <1>1, <1>2, <1>3

LEMMA EveryStepMoves ==
    ASSUME TypeOK, [Next]_vars
    PROVE  \A q \in Procs : Moves(q, proc[q], proc'[q])
  <1>1. ASSUME UNCHANGED proc PROVE \A q \in Procs : Moves(q, proc[q], proc'[q])
    BY <1>1 DEF Moves
  <1>2. ASSUME NEW p \in Procs, CutOff(p) PROVE \A q \in Procs : Moves(q, proc[q], proc'[q])
    <2>1. Ends(proc[p], After(p, "cut off"))
      BY <1>2 DEF CutOff, Ends, After
    <2> QED
      BY <1>2, <2>1, OneMoves DEF CutOff, Moves
  <1>3. ASSUME Block \/ Drop \/ OtherRegisters \/ Deregister \/ UNCHANGED vars
               \/ \E p \in Bootstraps : Started(p) \/ BootFails(p)
        PROVE  UNCHANGED proc
    BY <1>3 DEF Block, Drop, OtherRegisters, Deregister, vars, Started, BootFails
  <1>4. ASSUME NEW p \in Procs, Hangs(p) \/ QueryHangs(p)
        PROVE  \A q \in Procs : Moves(q, proc[q], proc'[q])
    <2>1. ASSUME NEW n, NEW fate, proc' = [proc EXCEPT ![p] = Hung(n, fate)]
          PROVE  \A q \in Procs : Moves(q, proc[q], proc'[q])
      <3>1. Moves(p, proc[p], Hung(n, fate))
        BY DEF Moves, Stalls, Hung, At
      <3> QED
        BY <2>1, <3>1, OneMoves
    <2> QED
      BY <1>4, <2>1 DEF Hangs, QueryHangs
  <1>5. Agents \subseteq Procs /\ Bootstraps \subseteq Procs
    BY DEF Procs
  <1> QED
    BY <1>1, <1>2, <1>3, <1>4, <1>5, AdvanceMoves, CallerMoves DEF Next

-----------------------------------------------------------------------------
(* Safety.                                                                   *)

LEMMA WaitFields ==
    ASSUME NEW n
    PROVE  LET t == At("wait", 0, NoCall, n, "none", "pooled")
           IN  t.pc = "wait" /\ t.call = NoCall /\ t.report = "none" /\ t.fate = "pooled"
  BY DEF At

LEMMA EndsFields ==
    ASSUME NEW s, NEW t, Ends(s, t)
    PROVE  /\ t.pc = "idle" /\ t.call = NoCall /\ t.fate = s.fate
           /\ \/ t.report = "failed" /\ s.pc \in {"resolve", "submit"}
              \/ t.report \in {"ok", "cut off"} /\ s.pc = "wait"
  <1>1. PICK report \in {"ok", "failed", "cut off"} :
          /\ t = Idle(s.n, report, s.fate)
          /\ IF report = "failed" THEN s.pc \in {"resolve", "submit"} ELSE s.pc = "wait"
    BY DEF Ends
  <1>2. t = Idle(s.n, report, s.fate)
    BY <1>1
  <1>3. t.pc = "idle" /\ t.call = NoCall /\ t.fate = s.fate /\ t.report = report
    BY ONLY <1>2, Zenon DEF Idle, At
  <1> QED
    BY <1>1, <1>3

LEMMA SendsFields ==
    ASSUME NEW s, NEW t, Sends(s, t)
    PROVE  /\ t.call = NoCall /\ t.fate = "pooled"
           /\ \/ t.pc = "wait" /\ t.report = "none"
              \/ t.pc = "idle" /\ t.report = "cut off"
  <1>1. CASE t = At("wait", 0, NoCall, s.n, "none", "pooled")
    BY <1>1, WaitFields
  <1>2. CASE t = Idle(s.n, "cut off", "pooled")
    BY <1>2, Zenon DEF Idle, At
  <1> QED
    BY <1>1, <1>2 DEF Sends

\* What is said of a call agrees with the fate of its extrinsic at every step.
Told(s) ==
    /\ s.report = "ok" => s.fate = "pooled"
    /\ s.report = "failed" => s.fate = "unsent"
    /\ s.pc = "wait" => s.fate = "pooled"
    /\ s.pc \in {"resolve", "submit"} => s.fate = "unsent"

LEMMA ToldMoves ==
    ASSUME NEW p, NEW s, NEW t, Moves(p, s, t), Told(s)
    PROVE  Told(t)
  <1>1. CASE ReadsNonce(s, t)
    BY <1>1 DEF ReadsNonce, Told
  <1>2. CASE Ends(s, t)
    BY <1>2, EndsFields DEF Told
  <1>3. CASE Sends(s, t)
    BY <1>3, SendsFields DEF Told
  <1>4. CASE PollsAgain(s, t)
    BY <1>4 DEF PollsAgain, Told
  <1>5. CASE t = Idle(s.n + 1, "failed", "unsent")
    BY <1>5 DEF Idle, At, Told
  <1>6. CASE Begins(p, t, s.n + 1)
    BY <1>6 DEF Begins, At, Told
  <1>7. CASE Stalls(t)
    BY <1>7 DEF Stalls, Told
  <1> QED
    BY <1>1, <1>2, <1>3, <1>4, <1>5, <1>6, <1>7 DEF Moves

\* What a caller is told agrees with the pool, for every interleaving of the
\* processes, lost answers and cut-off waits: the error paths of signAndSubmit
\* that come before the pool took the extrinsic leave it unsent, and the two
\* after it do not report plain failure (extrinsic.go).
THEOREM ReportsCorrect == Spec => []ReportsMatchThePool
  <1> DEFINE IInv == \A p \in Procs : Told(proc[p])
  <1>1. Init => IInv
    BY DEF Init, Told, Idle, At
  <1>2. TypeOK /\ IInv /\ [Next]_vars => IInv'
    BY EveryStepMoves, ToldMoves
  <1>3. IInv => ReportsMatchThePool
    BY DEF ReportsMatchThePool, Told
  <1> QED
    BY <1>1, <1>2, <1>3, TypeCorrect, PTL DEF Spec

\* A call holds no more than was asked for when it began, and as long as it is held.
Asked(s) == s.call # NoCall => RAOToTAO(s.call.rao) <= (IF s.asked < 0 THEN 0 ELSE s.asked)

LEMMA AskedMoves ==
    ASSUME NEW p \in Agents, NEW s, NEW t, Moves(p, s, t), Asked(s)
    PROVE  Asked(t)
  <1>1. CASE ReadsNonce(s, t) \/ PollsAgain(s, t)
    BY <1>1 DEF ReadsNonce, PollsAgain, Asked
  <1>2. CASE Ends(s, t) \/ Sends(s, t)
    BY <1>2, EndsFields, SendsFields DEF Asked
  <1>3. CASE Begins(p, t, s.n + 1)
    <2>1. PICK asked \in Int, call \in Calls :
            /\ t = At("resolve", asked, call, s.n + 1, "none", "unsent")
            /\ RAOToTAO(call.rao) <= (IF asked < 0 THEN 0 ELSE asked)
      BY <1>3 DEF Begins
    <2>2. t.call = call /\ t.asked = asked
      BY <2>1 DEF At
    <2> QED
      BY <2>1, <2>2 DEF Asked
  <1>4. CASE t = Idle(s.n + 1, "failed", "unsent")
    BY <1>4 DEF Idle, At, Asked
  <1>5. CASE Stalls(t)
    BY <1>5 DEF Stalls, Asked
  <1> QED
    BY <1>1, <1>2, <1>3, <1>4, <1>5 DEF Moves

\* Through the quote and both conversions, an agent's call never stakes more
\* than its strategy asked for, for every amount, u64 range and interleaving, as
\* long as the node simulates no larger input than it was asked to
\* (types.go TAOToRAO and RAOToTAO, swap/bittensor Quote and Swap).
THEOREM AmountsCorrect == Spec => []NeverMoreThanAsked
  <1> DEFINE IInv == \A p \in Agents : Asked(proc[p])
  <1>1. Init => IInv
    BY DEF Init, Asked, Idle, At, Procs
  <1>2. TypeOK /\ IInv /\ [Next]_vars => IInv'
    <2> SUFFICES ASSUME TypeOK, IInv, [Next]_vars, NEW p \in Agents PROVE Asked(proc'[p])
      OBVIOUS
    <2>1. Moves(p, proc[p], proc'[p])
      BY EveryStepMoves DEF Procs
    <2> QED
      BY <2>1, AskedMoves
  <1>3. IInv => NeverMoreThanAsked
    BY DEF NeverMoreThanAsked, Asked
  <1> QED
    BY <1>1, <1>2, <1>3, TypeCorrect, PTL DEF Spec

\* A process that is about to submit read its nonce in this step or had it.
LEMMA NonceRead ==
    ASSUME NEW p, NEW s, NEW t, Moves(p, s, t), t.pc = "submit"
    PROVE  t = s \/ t.nonce = nonce
  <1>1. CASE ReadsNonce(s, t)
    BY <1>1 DEF ReadsNonce
  <1>2. ~Ends(s, t)
    BY EndsFields
  <1>3. ~Sends(s, t)
    BY SendsFields
  <1>4. ~PollsAgain(s, t)
    BY DEF PollsAgain
  <1>5. t # Idle(s.n + 1, "failed", "unsent")
    BY DEF Idle, At
  <1>6. ~Begins(p, t, s.n + 1)
    BY DEF Begins, At
  <1>7. ~Stalls(t)
    BY DEF Stalls
  <1> QED
    BY <1>1, <1>2, <1>3, <1>4, <1>5, <1>6, <1>7 DEF Moves

\* The storage nonce never goes back, and moves only with a block.
LEMMA NonceMoves ==
    ASSUME TypeOK, [Next]_vars
    PROVE  nonce' \in Nat /\ nonce <= nonce'
  <1>1. nonce \in Nat
    BY DEF TypeOK
  <1>2. nonce' = nonce \/ nonce' = nonce + 1
    BY DEF Next, vars, chainVars, Advance, Resolve, Submit, Wait, CutOff, QuoteAndSwap, Trade,
           CountBefore, CountAfter, Started, BootFails, Block, Drop, OtherRegisters, Deregister,
           Hangs, QueryHangs
  <1> QED
    BY <1>1, <1>2

\* Whatever the processes that share the coldkey do, and whatever the node
\* drops, at most one of its extrinsics is in the pool and its nonce is the
\* one that is due (extrinsic.go, the nonce read from storage).
THEOREM NoncesCorrect == Spec => []NothingWaitsBehindAGap
  <1>1. Init => NoncesKeepUp
    BY DEF Init, NoncesKeepUp, Idle, At
  <1>2. TypeOK /\ NoncesKeepUp /\ [Next]_vars => NoncesKeepUp'
    <2> SUFFICES ASSUME TypeOK, NoncesKeepUp, [Next]_vars PROVE NoncesKeepUp'
      OBVIOUS
    <2>1. ASSUME NEW p \in Procs, proc'[p].pc = "submit" PROVE proc'[p].nonce <= nonce'
      <3>1. Moves(p, proc[p], proc'[p]) /\ nonce \in Nat /\ nonce' \in Nat /\ nonce <= nonce'
        BY EveryStepMoves, NonceMoves DEF TypeOK
      <3>2. proc[p] \in States /\ (proc[p].pc = "submit" => proc[p].nonce <= nonce)
        BY DEF TypeOK, NoncesKeepUp
      <3>3. proc[p].nonce \in Nat
        BY <3>2, Zenon DEF States
      <3>4. proc'[p] = proc[p] \/ proc'[p].nonce = nonce
        BY <2>1, <3>1, NonceRead
      <3> QED
        BY <2>1, <3>1, <3>2, <3>3, <3>4
    <2>2. \A x, y \in pool' : x = y /\ x.nonce = nonce'
      <3>1. CASE UNCHANGED pool /\ UNCHANGED nonce
        BY <3>1 DEF NoncesKeepUp
      <3>2. CASE \E p \in Procs : proc[p].pc = "submit" /\ Accepts(Extrinsic(p)) /\ UNCHANGED nonce
                    /\ pool' = pool \cup {Extrinsic(p)}
        <4>1. PICK p \in Procs : proc[p].pc = "submit" /\ Accepts(Extrinsic(p)) /\ UNCHANGED nonce
                    /\ pool' = pool \cup {Extrinsic(p)}
          BY <3>2
        <4>2. proc[p].nonce \in Nat /\ proc[p].nonce <= nonce /\ nonce \in Nat
          <5>1. proc[p] \in States /\ proc[p].nonce <= nonce /\ nonce \in Nat
            BY <4>1 DEF TypeOK, NoncesKeepUp
          <5> QED
            BY <5>1, Zenon DEF States
        <4>3. Extrinsic(p).nonce = nonce
          BY <4>1, <4>2 DEF Accepts, Extrinsic
        <4>4. pool = {}
          BY <4>1, <4>3 DEF Accepts, NoncesKeepUp
        <4> QED
          BY <4>1, <4>3, <4>4
      <3>3. CASE Block
        BY <3>3 DEF Block, NoncesKeepUp
      <3>4. CASE Drop
        BY <3>4 DEF Drop, NoncesKeepUp
      <3> QED
        BY <3>1, <3>2, <3>3, <3>4
        DEF Next, vars, chainVars, Advance, Resolve, Submit, Wait, CutOff, QuoteAndSwap, Trade,
            CountBefore, CountAfter, Started, BootFails, OtherRegisters, Deregister, Hangs, QueryHangs
    <2> QED
      BY <2>1, <2>2 DEF NoncesKeepUp
  <1>3. NoncesKeepUp => NothingWaitsBehindAGap
    <2> SUFFICES ASSUME NoncesKeepUp PROVE NothingWaitsBehindAGap
      OBVIOUS
    <2>1. CASE pool = {}
      BY <2>1, FS_EmptySet DEF NothingWaitsBehindAGap
    <2>2. ASSUME NEW x \in pool PROVE NothingWaitsBehindAGap
      <3>1. pool = {x}
        BY <2>2 DEF NoncesKeepUp
      <3> QED
        BY <3>1, FS_Singleton DEF NoncesKeepUp, NothingWaitsBehindAGap
    <2> QED
      BY <2>1, <2>2
  <1> QED
    BY <1>1, <1>2, <1>3, TypeCorrect, PTL DEF Spec

-----------------------------------------------------------------------------
(* The bootstrap command.                                                    *)

\* How many netuids there are when they have no gap.
LEMMA NoGapCount ==
    ASSUME NEW m \in Nat, Live = 0 .. m - 1
    PROVE  SubnetCount = m
  <1>1. Cardinality(0 .. m - 1) = IF 0 > m - 1 THEN 0 ELSE (m - 1) - 0 + 1
    BY FS_Interval
  <1> QED
    BY <1>1 DEF SubnetCount

\* What a registration takes when there is no gap is the next netuid.
LEMMA NextNetuid ==
    ASSUME NEW m \in Nat, Live = 0 .. m - 1, NEW who, who # "none", TypeOK, Register(who)
    PROVE  /\ Live' = 0 .. m
           /\ owner'[m] = who
           /\ \A n \in 0 .. m - 1 : owner'[n] = owner[n]
  <1>1. PICK n \in Slots \ Live : /\ \A k \in Slots \ Live : n <= k
                                  /\ owner' = [owner EXCEPT ![n] = who]
    BY DEF Register
  <1>2. n = m
    <2>1. n \in Nat /\ n < MaxSubnets /\ MaxSubnets \in Nat /\ m <= n
      BY Bounds DEF Slots
    <2>2. m \in Slots \ Live
      BY <2>1 DEF Slots
    <2>3. n <= m
      BY <1>1, <2>2
    <2> QED
      BY <2>1, <2>3
  <1>3. \A k \in Slots : owner'[k] = IF k = m THEN who ELSE owner[k]
    BY <1>1, <1>2 DEF TypeOK
  <1>4. m \in Slots /\ 0 .. m - 1 \subseteq Slots
    BY <1>1, <1>2 DEF Live
  <1>5. Live' = Live \cup {m}
    BY <1>3, <1>4 DEF Live, Slots
  <1> QED
    BY <1>3, <1>4, <1>5

\* Left undisturbed, a bootstrap starts a subnet of its own, for every number of
\* processes that share its key and every fate of their registrations
\* (cli/bittensor.go, countAfter - 1 between two counts around register_network).
THEOREM BootstrapCorrect == Spec => []UndisturbedStartsItsOwn
  <1>1. Init => NewestAreItsOwn
    BY DEF Init, NewestAreItsOwn, NoBoot, BootAt
  <1>2. TypeOK /\ NewestAreItsOwn /\ [Next]_vars => NewestAreItsOwn'
    <2> SUFFICES ASSUME TypeOK, NewestAreItsOwn, [Next]_vars PROVE NewestAreItsOwn'
      OBVIOUS
    <2>1. CASE UNCHANGED <<owner, boot>>
      BY <2>1 DEF NewestAreItsOwn, LastAreItsOwn, Live
    <2>2. ASSUME NEW p \in Bootstraps, NEW b, boot' = [boot EXCEPT ![p] = b], UNCHANGED owner,
                 b.pc # "idle" /\ ~b.disturbed => LastAreItsOwn(p)'
          PROVE  NewestAreItsOwn'
      <3>1. \A q \in Bootstraps : boot'[q] = IF q = p THEN b ELSE boot[q]
        BY <2>2 DEF TypeOK
      <3>2. ASSUME NEW q \in Bootstraps, q # p, boot'[q].pc # "idle", ~boot'[q].disturbed
            PROVE  LastAreItsOwn(q)'
        <4>1. boot'[q] = boot[q] /\ LastAreItsOwn(q)
          BY <3>1, <3>2 DEF NewestAreItsOwn
        <4> QED
          BY <2>2, <4>1 DEF LastAreItsOwn, Live
      <3> QED
        BY <2>2, <3>1, <3>2 DEF NewestAreItsOwn
    <2>3. ASSUME NEW p \in Bootstraps, CountBefore(p) PROVE NewestAreItsOwn'
      <3> DEFINE b == BootAt("register", SubnetCount, 0, boot[p].made, Gap)
      <3>1. boot' = [boot EXCEPT ![p] = b] /\ UNCHANGED owner
        BY <2>3 DEF CountBefore, chainVars
      <3>2. b.pc = "register" /\ b.before = SubnetCount /\ b.disturbed = Gap
        BY DEF BootAt
      <3> HIDE DEF b
      <3>3. ASSUME ~b.disturbed PROVE LastAreItsOwn(p)'
        <4>1. boot'[p] = b
          BY <3>1 DEF TypeOK
        <4>2. SubnetCount \in Nat /\ Live = 0 .. SubnetCount - 1
          <5>1. Live = 0 .. SubnetCount - 1
            BY <3>2, <3>3, Zenon DEF Gap
          <5>2. SubnetCount \in 0 .. MaxSubnets
            BY CountTyped
          <5> QED
            BY <5>1, <5>2
        <4>3. Live' = Live
          BY <3>1 DEF Live
        <4>4. \A n \in b.before .. SubnetCount - 1 : owner'[n] = p
          BY <3>2, <4>2
        <4> QED
          BY <3>2, <4>1, <4>2, <4>3, <4>4 DEF LastAreItsOwn
      <3> QED
        BY <2>2, <3>1, <3>3
    <2>4. ASSUME NEW p \in Bootstraps, CountAfter(p) PROVE NewestAreItsOwn'
      <3> DEFINE b == BootAt("start", boot[p].before, SubnetCount - 1, boot[p].made, boot[p].disturbed)
      <3>1. boot' = [boot EXCEPT ![p] = b] /\ UNCHANGED owner /\ Grew(p) /\ boot[p].pc = "register"
        BY <2>4 DEF CountAfter, Registered, chainVars
      <3>2. /\ b.pc = "start" /\ b.before = boot[p].before /\ b.disturbed = boot[p].disturbed
            /\ b.netuid = SubnetCount - 1
        BY DEF BootAt
      <3> HIDE DEF b
      <3>3. ASSUME ~b.disturbed PROVE LastAreItsOwn(p)'
        <4>1. boot'[p] = b
          BY <3>1 DEF TypeOK
        <4>2. PICK m \in Nat : /\ Live = 0 .. m - 1 /\ boot[p].before <= m
                               /\ \A n \in boot[p].before .. m - 1 : owner[n] = p
          BY <3>1, <3>2, <3>3 DEF NewestAreItsOwn, LastAreItsOwn
        <4>3. SubnetCount = m /\ boot[p].before < m
          BY <3>1, <4>2, NoGapCount DEF Grew
        <4>4. boot[p].before \in Nat
          <5>1. boot[p] \in BootStates
            BY DEF TypeOK
          <5>2. boot[p].before \in 0 .. MaxSubnets
            BY <5>1, Zenon DEF BootStates
          <5> QED
            BY <5>2
        <4>5. b.netuid \in b.before .. m - 1
          BY <3>2, <4>3, <4>4
        <4>6. Live' = Live
          BY <3>1 DEF Live
        <4> QED
          BY <3>1, <3>2, <4>1, <4>2, <4>5, <4>6 DEF LastAreItsOwn
      <3> QED
        BY <2>2, <3>1, <3>3
    <2>5. ASSUME NEW p \in Bootstraps, Started(p) PROVE NewestAreItsOwn'
      BY <2>2, <2>5 DEF Started, BootAt
    <2>6. ASSUME NEW p \in Bootstraps, BootFails(p) PROVE NewestAreItsOwn'
      BY <2>2, <2>6 DEF BootFails, NoBoot, BootAt
    <2>7. ASSUME NEW p \in Procs, CutOff(p) PROVE NewestAreItsOwn'
      <3>1. CASE p \in Bootstraps
        BY <2>2, <2>7, <3>1 DEF CutOff, NoBoot, BootAt, chainVars
      <3>2. CASE p \notin Bootstraps
        BY <2>1, <2>7, <3>2 DEF CutOff, chainVars
      <3> QED
        BY <3>1, <3>2
    <2>8. ASSUME NEW who, Disturb(who)
          PROVE  \A p \in Bootstraps :
                    /\ boot'[p].pc = boot[p].pc /\ boot'[p].before = boot[p].before
                    /\ boot'[p].netuid = boot[p].netuid
                    /\ ~boot'[p].disturbed => ~boot[p].disturbed /\ (boot[p].pc = "idle" \/ p = who)
      <3>2. \A p \in Bootstraps :
               boot'[p] = [boot[p] EXCEPT !.disturbed = @ \/ (boot[p].pc # "idle" /\ p # who)]
        BY <2>8 DEF Disturb
      <3> TAKE p \in Bootstraps
      <3> DEFINE d == boot[p].disturbed \/ (boot[p].pc # "idle" /\ p # who)
      <3>3. boot'[p] = [boot[p] EXCEPT !.disturbed = d]
        BY <3>2, Zenon
      <3>4. /\ boot'[p].pc = boot[p].pc /\ boot'[p].before = boot[p].before
            /\ boot'[p].netuid = boot[p].netuid /\ boot'[p].disturbed = d
        <4>1. boot[p] \in BootStates
          BY DEF TypeOK
        <4> HIDE DEF d
        <4> QED
          BY <3>3, <4>1, Zenon DEF BootStates
      <3> QED
        BY <3>4, Zenon
    <2>9. ASSUME NEW who \in Procs \cup {"other"}, Register(who) PROVE NewestAreItsOwn'
      <3> SUFFICES ASSUME NEW p \in Bootstraps, boot'[p].pc # "idle", ~boot'[p].disturbed
                   PROVE  LastAreItsOwn(p)'
        BY DEF NewestAreItsOwn
      <3>1. /\ boot'[p].pc = boot[p].pc /\ boot'[p].before = boot[p].before
            /\ boot'[p].netuid = boot[p].netuid /\ ~boot[p].disturbed /\ p = who
        BY <2>8, <2>9 DEF Register
      <3>2. PICK m \in Nat :
              /\ Live = 0 .. m - 1 /\ boot[p].before <= m
              /\ \A n \in boot[p].before .. m - 1 : owner[n] = p
              /\ boot[p].pc = "start" => boot[p].netuid \in boot[p].before .. m - 1
        BY <3>1 DEF NewestAreItsOwn, LastAreItsOwn
      <3>3. who # "none"
        BY SubtensorAssumption
      <3>4. Live' = 0 .. (m + 1) - 1 /\ owner'[m] = p /\ \A n \in 0 .. m - 1 : owner'[n] = owner[n]
        BY <2>9, <3>1, <3>2, <3>3, NextNetuid
      <3>5. boot[p].before \in Nat
        <4>1. boot[p] \in BootStates
          BY DEF TypeOK
        <4>2. boot[p].before \in 0 .. MaxSubnets
          BY <4>1, Zenon DEF BootStates
        <4> QED
          BY <4>2
      <3>6. m + 1 \in Nat /\ boot[p].before <= m + 1
        BY <3>2, <3>5
      <3>7. \A n \in boot[p].before .. (m + 1) - 1 : owner'[n] = p
        BY <3>2, <3>4, <3>5
      <3>8. boot[p].pc = "start" => boot[p].netuid \in boot[p].before .. (m + 1) - 1
        BY <3>2, <3>5
      <3> QED
        BY <3>1, <3>4, <3>6, <3>7, <3>8 DEF LastAreItsOwn
    <2>10. CASE Block
      <3>1. PICK x \in pool : Register(x.by) \/ UNCHANGED <<owner, boot>>
        BY <2>10 DEF Block
      <3>2. x.by \in Procs
        BY DEF TypeOK
      <3> QED
        BY <2>1, <2>9, <3>1, <3>2
    <2>11. CASE OtherRegisters
      BY <2>9, <2>11 DEF OtherRegisters
    <2>12. CASE Deregister
      <3>1. Disturb("other") /\ \A p \in Bootstraps : p # "other"
        BY <2>12, SubtensorAssumption DEF Deregister, Procs
      <3> QED
        BY <2>8, <3>1 DEF NewestAreItsOwn
    <2> QED
      BY <2>1, <2>3, <2>4, <2>5, <2>6, <2>7, <2>10, <2>11, <2>12
      DEF Next, vars, Advance, Resolve, Submit, Wait, QuoteAndSwap, Trade, Drop, Hangs, QueryHangs
  <1>3. NewestAreItsOwn => UndisturbedStartsItsOwn
    <2> SUFFICES ASSUME NewestAreItsOwn, NEW p \in Bootstraps, boot[p].pc = "start", ~boot[p].disturbed
                 PROVE  owner[boot[p].netuid] = p
      BY DEF UndisturbedStartsItsOwn
    <2> QED
      BY DEF NewestAreItsOwn, LastAreItsOwn
  <1> QED
    BY <1>1, <1>2, <1>3, TypeCorrect, PTL DEF Spec
=============================================================================
