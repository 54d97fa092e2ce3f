-------------------------- MODULE SwapVenuesProofs ---------------------------
(***************************************************************************)
(* Proofs about SwapVenues, for any callers, tokens and bounds.            *)
(***************************************************************************)
EXTENDS SwapVenues, TLAPS

USE VenueAssumption

-----------------------------------------------------------------------------
(* Types.                                                                  *)

\* What a call signs is a transaction.
LEMMA SignedIsTx ==
    ASSUME TypeOK, NEW c \in Callers
    PROVE  Signed(c) \in Tx
  BY DEF TypeOK, Signed, Tx, Callers

\* Accepting a transaction keeps the types of the chain.
LEMMA AcceptTypes ==
    ASSUME TypeOK, NEW x \in Tx, Accept(x)
    PROVE  /\ pool' \subseteq Tx /\ landed' \subseteq Tx /\ reverted' \subseteq Tx
           /\ gone' \subseteq Tx /\ mined' \in Nat /\ pending' \in Nat
           /\ allowed' \subseteq Tokens /\ revokes' \in Nat
  BY DEF TypeOK, Accept, Rivals

\* So does every step of a call.
LEMMA CallTypes ==
    ASSUME TypeOK, NEW c \in Callers, CallStep(c)
    PROVE  TypeOK'
  <1>1. Signed(c) \in Tx
    BY SignedIsTx
  <1>2. CASE Fail(c)
    BY <1>2 DEF TypeOK, Fail, Return, Goto, chainVars, Places
  <1>3. CASE EnterSwap(c)
    BY <1>3 DEF TypeOK, EnterSwap, Goto, chainVars, Places
  <1>4. CASE ReadAllowance(c)
    BY <1>4 DEF TypeOK, ReadAllowance, Goto, chainVars, Places
  <1>5. CASE Fill(c)
    BY <1>5 DEF TypeOK, Fill, Goto, PendingCount, chainVars, Places
  <1>6. CASE Send(c)
    BY <1>1, <1>6, AcceptTypes DEF TypeOK, Send, Goto, Places
  <1>7. CASE SendLost(c)
    BY <1>1, <1>7, AcceptTypes DEF TypeOK, SendLost, Return, Goto, Places
  <1>8. CASE ApproveDone(c)
    BY <1>8 DEF TypeOK, ApproveDone, Goto, chainVars, Places
  <1>9. CASE Confirm(c)
    BY <1>9 DEF TypeOK, Confirm, Return, Goto, chainVars, Places
  <1>10. CASE GiveUp(c)
    BY <1>10 DEF TypeOK, GiveUp, Return, Goto, chainVars, Places
  <1> QED
    BY <1>2, <1>3, <1>4, <1>5, <1>6, <1>7, <1>8, <1>9, <1>10 DEF CallStep

\* The variables keep their ranges (the fields of Venue, the locals of its
\* methods, the wallet's account).
THEOREM TypeCorrect == Spec => []TypeOK
  <1>1. Init => TypeOK
    BY DEF Init, TypeOK, Places
  <1>2. TypeOK /\ [Next]_vars => TypeOK'
    <2> SUFFICES ASSUME TypeOK, [Next]_vars PROVE TypeOK'
      OBVIOUS
    <2>1. CASE UNCHANGED vars
      BY <2>1 DEF TypeOK, vars, chainVars, callVars
    <2>2. ASSUME NEW c \in Callers, StartCall(c) PROVE TypeOK'
      BY <2>2 DEF TypeOK, StartCall, Goto, chainVars, Places
    <2>3. ASSUME NEW c \in Callers, CallStep(c) PROVE TypeOK'
      BY <2>3, CallTypes
    <2>4. ASSUME NEW c \in Callers, Crash(c) PROVE TypeOK'
      BY <2>4 DEF TypeOK, Crash, Return, Goto, chainVars, Places
    <2>5. ASSUME NEW x \in pool, Mine(x) PROVE TypeOK'
      BY <2>5 DEF TypeOK, Mine, callVars, Tx
    <2>6. ASSUME NEW x \in pool, Settle(x) PROVE TypeOK'
      BY <2>6 DEF TypeOK, Settle, callVars
    <2>7. ASSUME NEW t \in Tokens, Revoke(t) PROVE TypeOK'
      BY <2>7 DEF TypeOK, Revoke, callVars, Tx
    <2> QED
      BY <2>1, <2>2, <2>3, <2>4, <2>5, <2>6, <2>7 DEF Next
  <1> QED
    BY <1>1, <1>2, PTL DEF Spec

-----------------------------------------------------------------------------
(* Numbers.                                                                *)

\* A step in which the node's view and the calls' numbers stay.
LEMMA QuietNumbers ==
    ASSUME Numbered, UNCHANGED <<pool, landed, reverted, gone, mined, pending>>,
           \A c \in EvmCallers : at'[c] \in {"sendApprove", "send"} =>
               at[c] \in {"sendApprove", "send"} /\ nonce'[c] = nonce[c]
    PROVE  Numbered'
  BY DEF Numbered, Known, IsEvm

\* Fill takes a number above all that were sent.
LEMMA FillNumbers ==
    ASSUME TypeOK, Numbered, NEW c \in Callers, Fill(c)
    PROVE  Numbered'
  <1>1. ASSUME NEW x \in Known, x.by = c, c \in EvmCallers PROVE x.nonce < pending
    BY <1>1 DEF Numbered, IsEvm
  <1> QED
    BY <1>1 DEF TypeOK, Numbered, Known, IsEvm, Fill, Goto, PendingCount, chainVars, Callers

\* What is sent has a number that its sender has not used.
LEMMA SendNumbers ==
    ASSUME TypeOK, Numbered, NEW c \in Callers, at[c] \in {"sendApprove", "send"},
           Accept(Signed(c)),
           \A d \in Callers : d # c => at'[d] = at[d] /\ nonce'[d] = nonce[d],
           at'[c] \notin {"sendApprove", "send"}
    PROVE  Numbered'
  <1> DEFINE x == Signed(c)
  <1>1. x \in Tx /\ x.by = c
    BY SignedIsTx DEF Signed
  <1>2. pending \in Nat /\ mined \in Nat /\ pending' \in Nat /\ pending' >= pending
    BY DEF TypeOK, Accept
  <1>3. Known' \subseteq Known \union {x} /\ landed' = landed /\ mined' = mined
    BY DEF Accept, Known, Rivals
  <1>4. \A y \in Known' : IsEvm(y) => y.nonce < pending'
    <2> SUFFICES ASSUME NEW y \in Known', IsEvm(y) PROVE y.nonce < pending'
      OBVIOUS
    <2>1. CASE y = x
      BY <1>1, <1>2, <2>1 DEF Accept, Tx
    <2>2. CASE y \in Known
      <3>1. y \in Tx /\ y.nonce < pending
        BY <2>2 DEF Numbered, TypeOK, Known
      <3> QED
        BY <1>2, <3>1 DEF Tx
    <2> QED
      BY <1>3, <2>1, <2>2
  <1>5. ASSUME NEW d \in EvmCallers, at'[d] \in {"sendApprove", "send"}
        PROVE  nonce'[d] <= pending' /\ \A y \in Known' : y.by = d => y.nonce < nonce'[d]
    <2>1. d # c /\ at[d] \in {"sendApprove", "send"} /\ nonce'[d] = nonce[d]
      BY <1>5 DEF Callers
    <2>2. nonce[d] \in Nat
      BY DEF TypeOK, Callers
    <2> QED
      BY <1>1, <1>2, <1>3, <2>1, <2>2 DEF Numbered
  <1> QED
    BY <1>2, <1>3, <1>4, <1>5 DEF Numbered, IsEvm

\* Numbered is kept by every step.
LEMMA NumbersStay ==
    ASSUME TypeOK, Numbered, [Next]_vars
    PROVE  Numbered'
  <1>1. CASE UNCHANGED vars
    BY <1>1, QuietNumbers DEF vars, chainVars, callVars
  <1>2. ASSUME NEW c \in Callers, StartCall(c) PROVE Numbered'
    BY <1>2, QuietNumbers DEF StartCall, Goto, chainVars, TypeOK, Callers
  <1>3. ASSUME NEW c \in Callers, CallStep(c) PROVE Numbered'
    <2>1. CASE Fail(c)
      BY <2>1, QuietNumbers DEF Fail, Return, Goto, chainVars, TypeOK, Callers
    <2>2. CASE EnterSwap(c)
      <3>1. \A d \in EvmCallers : at'[d] \in {"sendApprove", "send"} =>
               at[d] \in {"sendApprove", "send"} /\ nonce'[d] = nonce[d]
        BY <2>2 DEF EnterSwap, Goto, TypeOK, Callers
      <3> QED
        BY <2>2, <3>1, QuietNumbers DEF EnterSwap, chainVars
    <2>3. CASE ReadAllowance(c)
      BY <2>3, QuietNumbers DEF ReadAllowance, Goto, chainVars, TypeOK, Callers
    <2>4. CASE Fill(c)
      BY <2>4, FillNumbers
    <2>5. CASE Send(c)
      BY <2>5, SendNumbers DEF Send, Goto, TypeOK
    <2>6. CASE SendLost(c)
      BY <2>6, SendNumbers DEF SendLost, Return, Goto, TypeOK
    <2>7. CASE ApproveDone(c)
      BY <2>7, QuietNumbers DEF ApproveDone, Goto, chainVars, TypeOK, Callers
    <2>8. CASE Confirm(c)
      BY <2>8, QuietNumbers DEF Confirm, Return, Goto, chainVars, TypeOK, Callers
    <2>9. CASE GiveUp(c)
      BY <2>9, QuietNumbers DEF GiveUp, Return, Goto, chainVars, TypeOK, Callers
    <2> QED
      BY <1>3, <2>1, <2>2, <2>3, <2>4, <2>5, <2>6, <2>7, <2>8, <2>9 DEF CallStep
  <1>4. ASSUME NEW c \in Callers, Crash(c) PROVE Numbered'
    BY <1>4, QuietNumbers DEF Crash, Return, Goto, chainVars, TypeOK, Callers
  <1>5. ASSUME NEW x \in pool, Mine(x) PROVE Numbered'
    <2>1. Known' = Known /\ mined' = mined + 1 /\ pending' = pending /\ at' = at /\ nonce' = nonce
      BY <1>5 DEF Mine, Known, callVars
    <2>2. x.nonce = mined /\ x.nonce < pending /\ mined \in Nat /\ pending \in Nat
      BY <1>5 DEF Mine, Numbered, TypeOK, Known
    <2>3. \A y \in landed' : IsEvm(y) => y.nonce < mined'
      <3>1. landed' \subseteq landed \union {x}
        BY <1>5 DEF Mine
      <3>2. \A y \in landed : y.nonce \in Nat
        BY DEF TypeOK, Tx
      <3> QED
        BY <2>1, <2>2, <3>1, <3>2 DEF Numbered
    <2> QED
      BY <2>1, <2>2, <2>3 DEF Numbered, IsEvm
  <1>6. ASSUME NEW x \in pool, Settle(x) PROVE Numbered'
    <2>1. Known' = Known /\ mined' = mined /\ pending' = pending /\ at' = at /\ nonce' = nonce
      BY <1>6 DEF Settle, Known, callVars
    <2>2. \A y \in landed' : IsEvm(y) => y \in landed
      BY <1>6 DEF Settle
    <2> QED
      BY <2>1, <2>2 DEF Numbered, IsEvm
  <1>7. ASSUME NEW t \in Tokens, Revoke(t) PROVE Numbered'
    <2> DEFINE x == [by |-> Owner, call |-> revokes, kind |-> "revoke",
                     token |-> t, nonce |-> pending]
    <2>1. /\ Known' = Known \union {x} /\ landed' = landed /\ mined' = mined
          /\ pending' = pending + 1 /\ at' = at /\ nonce' = nonce
      BY <1>7 DEF Revoke, Known, callVars
    <2>2. pending \in Nat /\ mined \in Nat /\ \A y \in Known : y.nonce \in Nat
      BY DEF TypeOK, Known, Tx
    <2>3. \A c \in EvmCallers : nonce[c] \in Nat /\ x.by # c /\ x.nonce = pending
      BY DEF TypeOK, Callers
    <2> QED
      BY <2>1, <2>2, <2>3 DEF Numbered, IsEvm
  <1> QED
    BY <1>1, <1>2, <1>3, <1>4, <1>5, <1>6, <1>7 DEF Next

LEMMA InitNumbered == Init => Numbered
  BY DEF Init, Numbered, Known, Callers

\* Two transactions of one venue never carry one number.
LEMMA DistinctStays ==
    ASSUME TypeOK, Numbered, OwnNoncesDistinct, [Next]_vars
    PROVE  OwnNoncesDistinct'
  <1>1. CASE Known' \subseteq Known
    BY <1>1 DEF OwnNoncesDistinct, IsEvm
  <1>2. ASSUME NEW c \in Callers, at[c] \in {"sendApprove", "send"}, Accept(Signed(c))
        PROVE  OwnNoncesDistinct'
    <2> DEFINE x == Signed(c)
    <2>1. Known' \subseteq Known \union {x} /\ x.by = c
      BY <1>2 DEF Accept, Known, Rivals, Signed
    <2>2. CASE c \in SolanaCallers
      BY <2>1, <2>2 DEF OwnNoncesDistinct, IsEvm
    <2>3. CASE c \in EvmCallers
      <3>1. \A y \in Known : y.by = c => y.nonce < x.nonce /\ y.nonce \in Nat
        BY <1>2, <2>3 DEF Numbered, Signed, TypeOK, Known, Tx
      <3>2. x.nonce \in Nat
        BY <1>2, SignedIsTx DEF Tx
      <3> QED
        BY <2>1, <3>1, <3>2 DEF OwnNoncesDistinct, IsEvm
    <2> QED
      BY <2>2, <2>3 DEF Callers
  <1>3. ASSUME NEW t \in Tokens, Revoke(t) PROVE OwnNoncesDistinct'
    <2> DEFINE x == [by |-> Owner, call |-> revokes, kind |-> "revoke",
                     token |-> t, nonce |-> pending]
    <2>1. Known' = Known \union {x} /\ x.nonce = pending
      BY <1>3 DEF Revoke, Known
    <2>2. \A y \in Known : IsEvm(y) => y.nonce < pending /\ y.nonce \in Nat
      BY DEF Numbered, TypeOK, Known, Tx
    <2>3. pending \in Nat
      BY DEF TypeOK
    <2> QED
      BY <2>1, <2>2, <2>3 DEF OwnNoncesDistinct, IsEvm
  <1>4. ASSUME NEW c \in Callers, CallStep(c), ~(Send(c) \/ SendLost(c))
        PROVE  Known' \subseteq Known
    BY <1>4 DEF CallStep, Fail, EnterSwap, ReadAllowance, Fill, ApproveDone, Confirm, GiveUp,
                chainVars, Known
  <1>5. ASSUME NEW c \in Callers, StartCall(c) \/ Crash(c) PROVE Known' \subseteq Known
    BY <1>5 DEF StartCall, Crash, chainVars, Known
  <1>6. ASSUME NEW x \in pool, Mine(x) \/ Settle(x) PROVE Known' \subseteq Known
    BY <1>6 DEF Mine, Settle, Known
  <1>7. ASSUME UNCHANGED vars PROVE Known' \subseteq Known
    BY <1>7 DEF vars, chainVars, Known
  <1>8. ASSUME NEW c \in Callers, Send(c) \/ SendLost(c) PROVE OwnNoncesDistinct'
    BY <1>2, <1>8 DEF Send, SendLost
  <1> QED
    BY <1>1, <1>3, <1>4, <1>5, <1>6, <1>7, <1>8 DEF Next

\* A venue numbers its transactions apart (EstimateAndFill, SignAndSend,
\* GetTransactionCount), whoever else uses the wallet.
THEOREM NoncesApart == Spec => []OwnNoncesDistinct
  <1>1. Init => Numbered /\ OwnNoncesDistinct
    BY InitNumbered DEF Init, OwnNoncesDistinct, Known
  <1>2. TypeOK /\ Numbered /\ OwnNoncesDistinct /\ [Next]_vars
          => (Numbered /\ OwnNoncesDistinct)'
    BY NumbersStay, DistinctStays
  <1> QED
    BY <1>1, <1>2, TypeCorrect, PTL DEF Spec

-----------------------------------------------------------------------------
(* Allowances.                                                             *)

\* A step that only lets calls forget or go on, the chain standing still.
LEMMA QuietAllowances ==
    ASSUME TypeOK, TypeOK', AllowancesAreReal,
           UNCHANGED <<landed, mined, allowed, token>>,
           \A c \in EvmCallers :
              /\ approved'[c] \subseteq approved[c]
              /\ at'[c] \in {"fill", "send", "waitApprove"} =>
                    at'[c] = at[c] /\ nonce'[c] = nonce[c] /\ tx'[c] = tx[c]
    PROVE  AllowancesAreReal'
  BY DEF AllowancesAreReal, ApprovedBefore, IsEvm

\* Calls meet their first duties: an allowance read or mined before the swap is
\* numbered.
LEMMA CallAllowances ==
    ASSUME TypeOK, TypeOK', Numbered, AllowancesAreReal, NEW c \in Callers, CallStep(c)
    PROVE  AllowancesAreReal'
  <1>1. CASE Fail(c)
    BY <1>1, QuietAllowances DEF Fail, Return, Goto, chainVars, TypeOK, Callers
  <1>2. CASE EnterSwap(c)
    <2>1. /\ UNCHANGED <<landed, mined, allowed, token, approved, nonce, tx>>
          /\ \A d \in EvmCallers : d # c => at'[d] = at[d]
          /\ c \in EvmCallers => (at'[c] = "fill" /\ token[c] \in approved[c]) \/ at'[c] = "allowance"
      BY <1>2 DEF EnterSwap, Goto, chainVars, TypeOK, Callers
    <2> QED
      BY <2>1 DEF AllowancesAreReal, ApprovedBefore, IsEvm
  <1>3. CASE ReadAllowance(c)
    <2>1. /\ UNCHANGED <<landed, mined, allowed, token, nonce, tx>>
          /\ \A d \in EvmCallers : d # c => at'[d] = at[d] /\ approved'[d] = approved[d]
          /\ c \in EvmCallers =>
                \/ /\ token[c] \in allowed /\ at'[c] = "fill"
                   /\ approved'[c] = approved[c] \union {token[c]}
                \/ at'[c] = "fillApprove" /\ approved'[c] = approved[c]
      BY <1>3 DEF ReadAllowance, Goto, chainVars, TypeOK, Callers
    <2> QED
      BY <2>1 DEF AllowancesAreReal, ApprovedBefore, IsEvm
  <1>4. CASE Fill(c)
    <2>1. /\ UNCHANGED <<landed, mined, allowed, token, approved, tx>>
          /\ \A d \in EvmCallers : d # c => at'[d] = at[d] /\ nonce'[d] = nonce[d]
          /\ c \in EvmCallers =>
                \/ at[c] = "fill" /\ at'[c] = "send" /\ nonce'[c] = pending
                \/ at'[c] = "sendApprove"
      BY <1>4 DEF Fill, Goto, PendingCount, chainVars, TypeOK, Callers
    <2>2. mined \in Nat /\ pending \in Nat /\ mined <= pending
      BY DEF TypeOK, Numbered
    <2>3. \A t : ApprovedBefore(t, mined) => ApprovedBefore(t, pending)
      BY <2>2 DEF ApprovedBefore, TypeOK, Tx
    <2> QED
      BY <2>1, <2>3 DEF AllowancesAreReal, ApprovedBefore, IsEvm
  <1>5. CASE Send(c)
    <2>1. /\ UNCHANGED <<landed, mined, allowed, token, approved, nonce>>
          /\ \A d \in EvmCallers : d # c => at'[d] = at[d] /\ tx'[d] = tx[d]
          /\ c \in EvmCallers =>
                \/ at[c] = "send" /\ at'[c] = "wait"
                \/ at[c] = "sendApprove" /\ at'[c] = "waitApprove" /\ tx'[c] = Signed(c)
      BY <1>5 DEF Send, Accept, Goto, TypeOK, Callers
    <2>2. at[c] = "sendApprove" =>
             Signed(c).by = c /\ Signed(c).kind = "approve" /\ Signed(c).token = token[c]
      BY DEF Signed
    <2> QED
      BY <2>1, <2>2 DEF AllowancesAreReal, ApprovedBefore, IsEvm
  <1>6. CASE SendLost(c)
    BY <1>6, QuietAllowances DEF SendLost, Accept, Return, Goto, TypeOK, Callers
  <1>7. CASE ApproveDone(c)
    <2>1. /\ UNCHANGED <<landed, mined, allowed, token, nonce, tx>>
          /\ \A d \in EvmCallers : d # c => at'[d] = at[d] /\ approved'[d] = approved[d]
          /\ at[c] = "waitApprove" /\ tx[c] \in landed /\ at'[c] = "fill"
          /\ approved'[c] = approved[c] \union {token[c]}
      BY <1>7 DEF ApproveDone, ApproveMined, Goto, chainVars, TypeOK, Callers
    <2>2. c \in EvmCallers => ApprovedBefore(token[c], mined)
      BY <2>1 DEF AllowancesAreReal, ApprovedBefore, IsEvm, Numbered
    <2> QED
      BY <2>1, <2>2 DEF AllowancesAreReal, ApprovedBefore, IsEvm
  <1>8. CASE Confirm(c)
    BY <1>8, QuietAllowances DEF Confirm, Return, Goto, chainVars, TypeOK, Callers
  <1>9. CASE GiveUp(c)
    BY <1>9, QuietAllowances DEF GiveUp, Return, Goto, chainVars, TypeOK, Callers
  <1> QED
    BY <1>1, <1>2, <1>3, <1>4, <1>5, <1>6, <1>7, <1>8, <1>9 DEF CallStep

\* AllowancesAreReal is kept by every step.
LEMMA AllowancesStay ==
    ASSUME TypeOK, TypeOK', Numbered, AllowancesAreReal, [Next]_vars
    PROVE  AllowancesAreReal'
  <1>1. CASE UNCHANGED vars
    BY <1>1, QuietAllowances DEF vars, chainVars, callVars
  <1>2. ASSUME NEW c \in Callers, StartCall(c) PROVE AllowancesAreReal'
    <2>1. /\ UNCHANGED <<landed, mined, allowed, approved, nonce, tx>>
          /\ \A d \in EvmCallers : d # c => at'[d] = at[d] /\ token'[d] = token[d]
          /\ at'[c] = "quoted"
      BY <1>2 DEF StartCall, Goto, chainVars, TypeOK, Callers
    <2> QED
      BY <2>1 DEF AllowancesAreReal, ApprovedBefore, IsEvm
  <1>3. ASSUME NEW c \in Callers, CallStep(c) PROVE AllowancesAreReal'
    BY <1>3, CallAllowances
  <1>4. ASSUME NEW c \in Callers, Crash(c) PROVE AllowancesAreReal'
    BY <1>4, QuietAllowances DEF Crash, Return, Goto, chainVars, TypeOK, Callers
  <1>5. ASSUME NEW x \in pool, Mine(x) PROVE AllowancesAreReal'
    <2>1. /\ landed \subseteq landed' /\ mined' = mined + 1 /\ mined \in Nat
          /\ UNCHANGED <<approved, at, token, nonce, tx>> /\ landed' \subseteq Tx
      BY <1>5 DEF Mine, callVars, TypeOK
    <2>2. \A t : ApprovedBefore(t, mined) => ApprovedBefore(t, mined)'
      BY <2>1 DEF ApprovedBefore, IsEvm, Tx
    <2>3. \A t, n : ApprovedBefore(t, n) => ApprovedBefore(t, n)'
      BY <2>1 DEF ApprovedBefore, IsEvm
    <2>4. \A t \in allowed' : t \in allowed \/ (x \in landed' /\ x.kind = "approve" /\ x.token = t)
      BY <1>5 DEF Mine, TypeOK, Tx
    <2>5. IsEvm(x) /\ x.nonce < mined + 1 /\ IsEvm(x)'
      BY <1>5, <2>1 DEF Mine, IsEvm
    <2>6. \A t \in allowed' : ApprovedBefore(t, mined)'
      BY <2>1, <2>2, <2>4, <2>5 DEF AllowancesAreReal, ApprovedBefore
    <2>7. \A c \in EvmCallers : at'[c] = "send" => ApprovedBefore(token[c], nonce[c])'
      BY <2>1, <2>3 DEF AllowancesAreReal
    <2> QED
      BY <2>1, <2>2, <2>6, <2>7 DEF AllowancesAreReal
  <1>6. ASSUME NEW x \in pool, Settle(x) PROVE AllowancesAreReal'
    <2>1. /\ landed \subseteq landed'
          /\ UNCHANGED <<mined, allowed, approved, at, token, nonce, tx>>
      BY <1>6 DEF Settle, callVars
    <2>2. \A t, n : ApprovedBefore(t, n) => ApprovedBefore(t, n)'
      BY <2>1 DEF ApprovedBefore, IsEvm
    <2> QED
      BY <2>1, <2>2 DEF AllowancesAreReal
  <1>7. ASSUME NEW t \in Tokens, Revoke(t) PROVE AllowancesAreReal'
    BY <1>7, QuietAllowances DEF Revoke, callVars
  <1> QED
    BY <1>1, <1>2, <1>3, <1>4, <1>5, <1>6, <1>7 DEF Next

\* No swap is broadcast that is not preceded by an approve.
LEMMA FollowsStays ==
    ASSUME TypeOK, AllowancesAreReal, SwapsFollowApproval, [Next]_vars
    PROVE  SwapsFollowApproval'
  <1>1. landed \subseteq landed'
    BY DEF Next, vars, chainVars, StartCall, CallStep, Fail, EnterSwap, ReadAllowance, Fill,
           Send, SendLost, Accept, ApproveDone, Confirm, GiveUp, Crash, Mine, Settle, Revoke
  <1>2. \A t, n : ApprovedBefore(t, n) => ApprovedBefore(t, n)'
    BY <1>1 DEF ApprovedBefore, IsEvm
  <1>3. CASE Known' \subseteq Known
    BY <1>2, <1>3 DEF SwapsFollowApproval, IsEvm
  <1>4. ASSUME NEW c \in Callers, Send(c) \/ SendLost(c) PROVE SwapsFollowApproval'
    <2>1. Known' \subseteq Known \union {Signed(c)} /\ at[c] \in {"sendApprove", "send"}
      BY <1>4 DEF Send, SendLost, Accept, Known, Rivals
    <2>2. IsEvm(Signed(c)) /\ Signed(c).kind = "swap"
            => ApprovedBefore(Signed(c).token, Signed(c).nonce)
      BY <2>1 DEF Signed, IsEvm, Callers, AllowancesAreReal
    <2> QED
      BY <1>2, <2>1, <2>2 DEF SwapsFollowApproval, IsEvm
  <1>5. ASSUME NEW t \in Tokens, Revoke(t) PROVE SwapsFollowApproval'
    <2>1. \A y \in Known' : y \in Known \/ y.kind # "swap"
      BY <1>5 DEF Revoke, Known
    <2> QED
      BY <1>2, <2>1 DEF SwapsFollowApproval, IsEvm
  <1>6. ASSUME NEW c \in Callers, CallStep(c), ~(Send(c) \/ SendLost(c))
        PROVE  Known' \subseteq Known
    BY <1>6 DEF CallStep, Fail, EnterSwap, ReadAllowance, Fill, ApproveDone, Confirm, GiveUp,
                chainVars, Known
  <1>7. ASSUME NEW c \in Callers, StartCall(c) \/ Crash(c) PROVE Known' \subseteq Known
    BY <1>7 DEF StartCall, Crash, chainVars, Known
  <1>8. ASSUME NEW x \in pool, Mine(x) \/ Settle(x) PROVE Known' \subseteq Known
    BY <1>8 DEF Mine, Settle, Known
  <1>9. ASSUME UNCHANGED vars PROVE Known' \subseteq Known
    BY <1>9 DEF vars, chainVars, Known
  <1> QED
    BY <1>3, <1>4, <1>5, <1>6, <1>7, <1>8, <1>9 DEF Next

\* Venue.Swap never broadcasts a swap before an approve of its token is mined
\* (ensureApproved), with any number of callers, lost answers and revocations.
THEOREM ApprovalComesFirst == Spec => []SwapsFollowApproval
  <1>1. Init => Numbered /\ AllowancesAreReal /\ SwapsFollowApproval
    <2> SUFFICES ASSUME Init PROVE AllowancesAreReal /\ SwapsFollowApproval
      BY InitNumbered
    <2>1. AllowancesAreReal
      BY DEF Init, AllowancesAreReal, ApprovedBefore, Callers
    <2>2. SwapsFollowApproval
      BY DEF Init, SwapsFollowApproval, Known
    <2> QED
      BY <2>1, <2>2
  <1>2. TypeOK /\ TypeOK' /\ Numbered /\ AllowancesAreReal /\ SwapsFollowApproval /\ [Next]_vars
          => (Numbered /\ AllowancesAreReal /\ SwapsFollowApproval)'
    BY NumbersStay, AllowancesStay, FollowsStays
  <1> QED
    BY <1>1, <1>2, TypeCorrect, PTL DEF Spec

-----------------------------------------------------------------------------
(* The promise: one swap per call.                                         *)

\* A step in which nothing is sent and the chain stands still.
LEMMA QuietCalls ==
    ASSUME OneSwapPerCall, UNCHANGED <<pool, landed, reverted, gone, call, calls>>,
           NEW c \in Callers,
           \A d \in Callers : d # c => at'[d] = at[d] /\ told'[d] = told[d] /\ tx'[d] = tx[d],
           c \in SolanaCallers => at'[c] \in {"idle", "quoted", "send", "wait"},
           \/ at'[c] = "idle"
           \/ at[c] \notin {"idle", "wait"} /\ at'[c] # "wait" /\ told'[c] = told[c]
    PROVE  OneSwapPerCall'
  <1>1. Known' = Known /\ \A d \in Callers : SwapOf(d)' = SwapOf(d)
    BY DEF Known, SwapOf
  <1> QED
    BY <1>1 DEF OneSwapPerCall

\* What is sent is new, and is the swap of its sender's call or no swap.
LEMMA SentIsNew ==
    ASSUME TypeOK, Numbered, OneSwapPerCall, NEW c \in Callers,
           at[c] \in {"sendApprove", "send"}, Accept(Signed(c)), UNCHANGED call
    PROVE  /\ Signed(c) \notin Known
           /\ Known' = Known \union {Signed(c)}
           /\ SwapOf(c) = {}
           /\ SwapOf(c)' = IF at[c] = "send" THEN {Signed(c)} ELSE {}
           /\ \A d \in Callers \ {c} : SwapOf(d)' = SwapOf(d)
  <1> DEFINE x == Signed(c)
  <1>1. SwapOf(c) = {}
    BY DEF OneSwapPerCall
  <1>2. x.by = c /\ x.call = call[c] /\ x.kind = (IF at[c] = "send" THEN "swap" ELSE "approve")
    BY DEF Signed
  <1>3. x \notin Known
    <2>1. CASE at[c] = "send"
      BY <1>1, <1>2, <2>1 DEF SwapOf
    <2>2. CASE at[c] = "sendApprove"
      <3>1. c \in EvmCallers
        BY <2>2 DEF OneSwapPerCall, Callers
      <3>2. x.nonce = nonce[c] /\ nonce[c] \in Nat
        BY <3>1 DEF Signed, Callers, TypeOK
      <3> QED
        BY <1>2, <2>2, <3>1, <3>2 DEF Numbered
    <2> QED
      BY <2>1, <2>2
  <1>4. Known' = Known \union {x}
    BY DEF Accept, Known, Rivals
  <1>5. \A d \in Callers \ {c} : SwapOf(d)' = SwapOf(d)
    BY <1>2, <1>4 DEF SwapOf
  <1>6. SwapOf(c)' = IF at[c] = "send" THEN {x} ELSE {}
    <2>1. \A y : y \in SwapOf(c)' <=> y = x /\ at[c] = "send"
      BY <1>1, <1>2, <1>4 DEF SwapOf
    <2> QED
      BY <2>1
  <1> QED
    BY <1>1, <1>3, <1>4, <1>5, <1>6

\* Sending keeps OneSwapPerCall, answered or not.
LEMMA SendKeepsOne ==
    ASSUME TypeOK, Numbered, OneSwapPerCall, NEW c \in Callers, Send(c) \/ SendLost(c)
    PROVE  OneSwapPerCall'
  <1> DEFINE x == Signed(c)
  <1>1. at[c] \in {"sendApprove", "send"} /\ Accept(x) /\ UNCHANGED <<call, calls>>
    BY DEF Send, SendLost
  <1>2. /\ x \notin Known /\ Known' = Known \union {x} /\ SwapOf(c) = {}
        /\ SwapOf(c)' = (IF at[c] = "send" THEN {x} ELSE {})
        /\ \A d \in Callers \ {c} : SwapOf(d)' = SwapOf(d)
    BY <1>1, SentIsNew
  <1>3. \A y \in Known' : y.by \in Callers => y.call <= calls'
    BY <1>1, <1>2 DEF OneSwapPerCall, Signed
  <1>4. /\ pool' \intersect (landed' \union reverted' \union gone') = {}
        /\ landed' \intersect (reverted' \union gone') = {} /\ reverted' \intersect gone' = {}
    <2>1. /\ pool' = (pool \ Rivals(x)) \union {x} /\ gone' = gone \union Rivals(x)
          /\ landed' = landed /\ reverted' = reverted /\ Rivals(x) \subseteq pool
      BY <1>1 DEF Accept, Rivals
    <2> QED
      BY <1>2, <2>1 DEF OneSwapPerCall, Known
  <1>5. ASSUME NEW d \in Callers, d # c
        PROVE  at'[d] = at[d] /\ told'[d] = told[d] /\ tx'[d] = tx[d]
    BY <1>5 DEF Send, SendLost, Return, Goto, TypeOK
  <1>6. \/ at'[c] = "idle"
        \/ at[c] = "sendApprove" /\ at'[c] = "waitApprove" /\ told'[c] = told[c]
        \/ at[c] = "send" /\ at'[c] = "wait" /\ told'[c] = told[c] /\ tx'[c] = x
    BY DEF Send, SendLost, Return, Goto, TypeOK
  <1>7. \A d \in Callers : \A y, z \in SwapOf(d)' : y = z
    BY <1>2 DEF OneSwapPerCall
  <1>8. c \in SolanaCallers => at'[c] \in {"idle", "quoted", "send", "wait"}
    BY <1>1, <1>6 DEF OneSwapPerCall
  <1> QED
    BY <1>1, <1>2, <1>3, <1>4, <1>5, <1>6, <1>7, <1>8 DEF OneSwapPerCall

\* The chain decides on what was in the pool, and only on that.
LEMMA ChainKeepsOne ==
    ASSUME OneSwapPerCall, NEW x \in pool, Mine(x) \/ Settle(x)
    PROVE  /\ OneSwapPerCall'
           /\ pool' = pool \ {x} /\ x \in landed' \union reverted' \union gone'
           /\ \A y : y # x => /\ y \in landed' <=> y \in landed
                              /\ y \in reverted' <=> y \in reverted
                              /\ y \in gone' <=> y \in gone
           /\ \A c \in Callers : SwapOf(c)' = SwapOf(c)
           /\ told' = told
  <1>1. /\ pool' = pool \ {x} /\ UNCHANGED callVars
        /\ \/ landed' = landed \union {x} /\ reverted' = reverted /\ gone' = gone
           \/ landed' = landed /\ reverted' = reverted \union {x} /\ gone' = gone
           \/ landed' = landed /\ reverted' = reverted /\ gone' = gone \union {x}
    BY DEF Mine, Settle
  <1>2. Known' = Known /\ \A c \in Callers : SwapOf(c)' = SwapOf(c)
    BY <1>1 DEF Known, SwapOf, callVars
  <1>3. /\ pool' \intersect (landed' \union reverted' \union gone') = {}
        /\ landed' \intersect (reverted' \union gone') = {} /\ reverted' \intersect gone' = {}
    BY <1>1 DEF OneSwapPerCall
  <1>4. OneSwapPerCall'
    BY <1>1, <1>2, <1>3 DEF OneSwapPerCall, callVars
  <1> QED
    BY <1>1, <1>2, <1>4 DEF callVars

\* A new call has no swap.
LEMMA StartKeepsOne ==
    ASSUME TypeOK, OneSwapPerCall, NEW c \in Callers, StartCall(c)
    PROVE  /\ OneSwapPerCall'
           /\ SwapOf(c)' = {} /\ \A d \in Callers \ {c} : SwapOf(d)' = SwapOf(d)
  <1>1. /\ UNCHANGED <<pool, landed, reverted, gone, tx>>
        /\ calls' = calls + 1 /\ calls \in Nat /\ call'[c] = calls + 1
        /\ at'[c] = "quoted" /\ told'[c] = "nothing"
        /\ \A d \in Callers : d # c => /\ at'[d] = at[d] /\ told'[d] = told[d]
                                       /\ call'[d] = call[d]
    BY DEF StartCall, Goto, chainVars, TypeOK
  <1>2. Known' = Known
    BY <1>1 DEF Known
  <1>3. \A x \in Known : x.call \in Nat
    BY DEF TypeOK, Known, Tx
  <1>4. \A x \in Known : x.by = c => x.call <= calls
    BY DEF OneSwapPerCall
  <1>5. SwapOf(c)' = {}
    BY <1>1, <1>2, <1>3, <1>4 DEF SwapOf
  <1>6. \A d \in Callers \ {c} : SwapOf(d)' = SwapOf(d)
    BY <1>1, <1>2 DEF SwapOf
  <1>7. \A d \in Callers : call[d] \in Nat
    BY DEF TypeOK
  <1>8. \A x \in Known' : x.by \in Callers => x.call <= calls'
    BY <1>1, <1>2, <1>3 DEF OneSwapPerCall
  <1>9. \A d \in Callers : call'[d] <= calls'
    BY <1>1, <1>7 DEF OneSwapPerCall
  <1> QED
    BY <1>1, <1>5, <1>6, <1>8, <1>9 DEF OneSwapPerCall

\* A revocation is none of the calls' business.
LEMMA RevokeKeepsOne ==
    ASSUME TypeOK, Numbered, OneSwapPerCall, NEW t \in Tokens, Revoke(t)
    PROVE  OneSwapPerCall' /\ \A c \in Callers : FateOf(c)' = FateOf(c)
  <1> DEFINE x == [by |-> Owner, call |-> revokes, kind |-> "revoke",
                   token |-> t, nonce |-> pending]
  <1>1. /\ pool' = pool \union {x} /\ UNCHANGED <<landed, reverted, gone>>
        /\ UNCHANGED callVars
    BY DEF Revoke
  <1>2. x \notin Known
    BY DEF Numbered, IsEvm, Callers, TypeOK
  <1>3. Known' = Known \union {x} /\ x.by = Owner
    BY <1>1 DEF Known
  <1>4. \A c \in Callers : SwapOf(c)' = SwapOf(c)
    BY <1>1, <1>3 DEF SwapOf, callVars
  <1>5. \A c \in Callers : SwapOf(c)' \intersect pool' = SwapOf(c) \intersect pool
    BY <1>1, <1>2, <1>4 DEF SwapOf
  <1>6. /\ pool' \intersect (landed' \union reverted' \union gone') = {}
        /\ landed' \intersect (reverted' \union gone') = {} /\ reverted' \intersect gone' = {}
    BY <1>1, <1>2 DEF OneSwapPerCall, Known
  <1>7. OneSwapPerCall'
    BY <1>1, <1>3, <1>4, <1>6 DEF OneSwapPerCall, callVars
  <1> QED
    BY <1>1, <1>4, <1>5, <1>7 DEF FateOf

\* OneSwapPerCall is kept by every step.
LEMMA OneStays ==
    ASSUME TypeOK, Numbered, OneSwapPerCall, [Next]_vars
    PROVE  OneSwapPerCall'
  <1>1. CASE UNCHANGED vars
    BY <1>1 DEF OneSwapPerCall, SwapOf, Known, vars, chainVars, callVars
  <1>2. ASSUME NEW c \in Callers, StartCall(c) PROVE OneSwapPerCall'
    BY <1>2, StartKeepsOne
  <1>3. ASSUME NEW c \in Callers, CallStep(c) PROVE OneSwapPerCall'
    <2>1. CASE Fail(c)
      BY <2>1, QuietCalls DEF Fail, Return, Goto, chainVars, TypeOK
    <2>2. CASE EnterSwap(c)
      BY <2>2, QuietCalls DEF EnterSwap, Goto, chainVars, TypeOK
    <2>3. CASE ReadAllowance(c)
      <3>1. c \notin SolanaCallers
        BY <2>3 DEF ReadAllowance, OneSwapPerCall
      <3> QED
        BY <2>3, <3>1, QuietCalls DEF ReadAllowance, Goto, chainVars, TypeOK
    <2>4. CASE Fill(c)
      <3>1. c \notin SolanaCallers
        BY <2>4 DEF Fill, OneSwapPerCall
      <3> QED
        BY <2>4, <3>1, QuietCalls DEF Fill, Goto, chainVars, TypeOK
    <2>5. CASE Send(c) \/ SendLost(c)
      BY <2>5, SendKeepsOne
    <2>6. CASE ApproveDone(c)
      <3>1. c \notin SolanaCallers
        BY <2>6 DEF ApproveDone, ApproveMined, OneSwapPerCall
      <3> QED
        BY <2>6, <3>1, QuietCalls DEF ApproveDone, ApproveMined, Goto, chainVars, TypeOK
    <2>7. CASE Confirm(c)
      BY <2>7, QuietCalls DEF Confirm, Return, Goto, chainVars, TypeOK
    <2>8. CASE GiveUp(c)
      BY <2>8, QuietCalls DEF GiveUp, Return, Goto, chainVars, TypeOK
    <2> QED
      BY <1>3, <2>1, <2>2, <2>3, <2>4, <2>5, <2>6, <2>7, <2>8 DEF CallStep
  <1>4. ASSUME NEW c \in Callers, Crash(c) PROVE OneSwapPerCall'
    BY <1>4, QuietCalls DEF Crash, Return, Goto, chainVars, TypeOK
  <1>5. ASSUME NEW x \in pool, Mine(x) \/ Settle(x) PROVE OneSwapPerCall'
    BY <1>5, ChainKeepsOne
  <1>6. ASSUME NEW t \in Tokens, Revoke(t) PROVE OneSwapPerCall'
    BY <1>6, RevokeKeepsOne
  <1> QED
    BY <1>1, <1>2, <1>3, <1>4, <1>5, <1>6 DEF Next

LEMMA InitOne == Init => OneSwapPerCall
  BY DEF Init, OneSwapPerCall, SwapOf, Known, Callers

-----------------------------------------------------------------------------
(* The promise: its steps.                                                 *)

\* The fate of a call's swap is where its transaction is.
LEMMA FateIsPlace ==
    ASSUME OneSwapPerCall, NEW c \in Callers
    PROVE  /\ SwapOf(c) = {} => FateOf(c) = "none"
           /\ \A x \in SwapOf(c) : FateOf(c) = IF x \in pool THEN "open"
                                               ELSE IF x \in landed THEN "landed"
                                               ELSE IF x \in reverted THEN "failed" ELSE "void"
  <1>1. SwapOf(c) = {} => FateOf(c) = "none"
    BY DEF FateOf
  <1>2. ASSUME NEW x \in SwapOf(c)
        PROVE  FateOf(c) = IF x \in pool THEN "open"
                           ELSE IF x \in landed THEN "landed"
                           ELSE IF x \in reverted THEN "failed" ELSE "void"
    <2>1. SwapOf(c) = {x} /\ x \in Known
      BY <1>2 DEF OneSwapPerCall, SwapOf
    <2>2. \A S : SwapOf(c) \intersect S # {} <=> x \in S
      BY <2>1
    <2> QED
      BY <2>1, <2>2 DEF FateOf, Known
  <1> QED
    BY <1>1, <1>2

\* Sending opens the sender's swap, and makes others' void at most.
LEMMA SendFates ==
    ASSUME TypeOK, Numbered, OneSwapPerCall, OneSwapPerCall', NEW c \in Callers,
           at[c] \in {"sendApprove", "send"}, Accept(Signed(c)), UNCHANGED call
    PROVE  /\ FateOf(c) = "none"
           /\ FateOf(c)' = IF at[c] = "send" THEN "open" ELSE "none"
           /\ \A d \in Callers \ {c} :
                 FateOf(d)' = FateOf(d) \/ (FateOf(d) = "open" /\ FateOf(d)' = "void")
  <1> DEFINE x == Signed(c)
  <1>1. /\ x \notin Known /\ SwapOf(c) = {}
        /\ SwapOf(c)' = (IF at[c] = "send" THEN {x} ELSE {})
        /\ \A d \in Callers \ {c} : SwapOf(d)' = SwapOf(d)
    BY SentIsNew
  <1>2. /\ pool' = (pool \ Rivals(x)) \union {x} /\ gone' = gone \union Rivals(x)
        /\ landed' = landed /\ reverted' = reverted
    BY DEF Accept
  <1>3. FateOf(c) = "none"
    BY <1>1, FateIsPlace
  <1>4. SwapOf(c)' = {} => FateOf(c)' = "none"
    BY DEF FateOf
  <1>5. at[c] = "send" => FateOf(c)' = "open"
    BY <1>1, <1>2 DEF FateOf
  <1>6. ASSUME NEW d \in Callers \ {c}
        PROVE  FateOf(d)' = FateOf(d) \/ (FateOf(d) = "open" /\ FateOf(d)' = "void")
    <2>1. CASE SwapOf(d) = {}
      BY <1>1, <2>1 DEF FateOf
    <2>2. ASSUME NEW y \in SwapOf(d)
          PROVE  FateOf(d)' = FateOf(d) \/ (FateOf(d) = "open" /\ FateOf(d)' = "void")
      <3>1. y \in SwapOf(d)' /\ y # x /\ y \in Known
        BY <1>1, <2>2 DEF SwapOf
      <3>2. SwapOf(d) = {y} /\ SwapOf(d)' = {y}
        BY <1>1, <2>2 DEF OneSwapPerCall
      <3>3. CASE y \in pool /\ y \in pool'
        BY <3>2, <3>3 DEF FateOf
      <3>4. CASE y \in pool /\ y \notin pool'
        <4>1. y \in gone' /\ y \notin landed' /\ y \notin reverted'
          BY <1>2, <3>1, <3>4 DEF OneSwapPerCall
        <4> QED
          BY <3>2, <3>4, <4>1 DEF FateOf
      <3>5. CASE y \notin pool
        <4>1. y \notin pool' /\ (y \in gone' <=> y \in gone)
          BY <1>2, <3>1, <3>5 DEF Rivals
        <4> QED
          BY <1>2, <3>2, <3>5, <4>1 DEF FateOf
      <3> QED
        BY <3>3, <3>4, <3>5
    <2> QED
      BY <2>1, <2>2
  <1> QED
    BY <1>1, <1>3, <1>4, <1>5, <1>6

\* A step in which nothing is sent and the chain stands still changes no fate.
LEMMA QuietFates ==
    ASSUME UNCHANGED <<pool, landed, reverted, gone, call>>
    PROVE  \A c \in Callers : FateOf(c)' = FateOf(c)
  BY DEF FateOf, SwapOf, Known

Fate == [c \in Callers |-> FateOf(c)]

\* What a call does to fates and answers, it may by the promise.
LEMMA CallKeepsPromise ==
    ASSUME TypeOK, Numbered, OneSwapPerCall, OneSwapPerCall', NEW c \in Callers, CallStep(c)
    PROVE  [Promise!Next]_<<Fate, told>>
  <1> DEFINE Quiet == UNCHANGED <<pool, landed, reverted, gone, call>>
  <1>1. Quiet => Fate' = Fate
    BY QuietFates DEF Fate
  <1>2. ASSUME NEW a \in {"error", "pending", "confirmed", "failed"}, Quiet, at[c] # "idle",
               told' = [told EXCEPT ![c] = a], a = "confirmed" => FateOf(c) = "landed",
               a = "failed" => FateOf(c) = "failed", a = "pending" => FateOf(c) # "none"
        PROVE  Promise!Report(c)
    <2>1. told[c] = "nothing"
      BY <1>2 DEF OneSwapPerCall
    <2> QED
      BY <1>1, <1>2, <2>1 DEF Promise!Report, Promise!Answers, Fate
  <1>3. CASE Fail(c)
    BY <1>2, <1>3 DEF Fail, Return, chainVars, Promise!Next
  <1>4. CASE EnterSwap(c) \/ ReadAllowance(c) \/ Fill(c) \/ ApproveDone(c)
    BY <1>1, <1>4 DEF EnterSwap, ReadAllowance, Fill, ApproveDone, chainVars
  <1>5. CASE Send(c) \/ SendLost(c)
    <2> DEFINE R == {d \in Callers : FateOf(d) = "open" /\ FateOf(d)' = "void"}
    <2>1. /\ at[c] \in {"sendApprove", "send"} /\ told[c] = "nothing"
          /\ told' = told \/ told' = [told EXCEPT ![c] = "error"]
      BY <1>5 DEF Send, SendLost, Return, OneSwapPerCall
    <2>2. /\ FateOf(c) = "none" /\ FateOf(c)' = (IF at[c] = "send" THEN "open" ELSE "none")
          /\ \A d \in Callers \ {c} :
                FateOf(d)' = FateOf(d) \/ (FateOf(d) = "open" /\ FateOf(d)' = "void")
      BY <1>5, <2>1, SendFates DEF Send, SendLost
    <2>3. R \in SUBSET {d \in Callers : Fate[d] = "open"}
      BY DEF Fate
    <2>4. CASE at[c] = "send"
      <3>1. Fate' = [d \in Callers |-> IF d = c THEN "open"
                                       ELSE IF d \in R THEN "void" ELSE Fate[d]]
        BY <2>2, <2>4 DEF Fate
      <3>2. Promise!Broadcast(c)
        BY <2>1, <2>2, <2>3, <3>1 DEF Promise!Broadcast, Fate
      <3> QED
        BY <3>2 DEF Promise!Next
    <2>5. CASE at[c] = "sendApprove"
      <3>1. Fate' = [d \in Callers |-> IF d \in R THEN "void" ELSE Fate[d]]
        BY <2>2, <2>5 DEF Fate
      <3>2. Promise!Replace
        BY <2>1, <2>3, <3>1 DEF Promise!Replace, Fate
      <3> QED
        BY <3>2 DEF Promise!Next
    <2> QED
      BY <2>1, <2>4, <2>5
  <1>6. CASE Confirm(c)
    <2>1. Quiet /\ at[c] = "wait" /\ tx[c] \in SwapOf(c)
      BY <1>6 DEF Confirm, chainVars, OneSwapPerCall
    <2>2. tx[c] \in landed => FateOf(c) = "landed"
      BY <2>1, FateIsPlace DEF OneSwapPerCall
    <2>3. tx[c] \in reverted => FateOf(c) = "failed"
      BY <2>1, FateIsPlace DEF OneSwapPerCall
    <2> QED
      BY <1>2, <1>6, <2>1, <2>2, <2>3 DEF Confirm, Return, Promise!Next
  <1>7. CASE GiveUp(c)
    <2>1. Quiet /\ at[c] = "wait" /\ tx[c] \in SwapOf(c)
      BY <1>7 DEF GiveUp, chainVars, OneSwapPerCall
    <2>2. FateOf(c) # "none"
      BY <2>1, FateIsPlace
    <2> QED
      BY <1>2, <1>7, <2>1, <2>2 DEF GiveUp, Return, Promise!Next
  <1> QED
    BY <1>3, <1>4, <1>5, <1>6, <1>7 DEF CallStep

\* Both venues implement SwapPromise: a call broadcasts one swap at most and
\* reports confirmed or failed only what the chain decided, through
\* replacements, lost answers and crashes.
THEOREM VenuesKeepPromise == Spec => PromiseKept
  <1>1. Init => Numbered /\ OneSwapPerCall /\ Promise!Init
    <2> SUFFICES ASSUME Init PROVE Promise!Init
      BY InitNumbered, InitOne
    <2>1. \A c \in Callers : FateOf(c) = "none"
      BY DEF Init, FateOf, SwapOf, Known
    <2> QED
      BY <2>1 DEF Init, Promise!Init
  <1>2. ASSUME TypeOK, Numbered, OneSwapPerCall, OneSwapPerCall', [Next]_vars
        PROVE  [Promise!Next]_<<Fate, told>>
    <2>1. CASE UNCHANGED vars
      BY <2>1, QuietFates DEF vars, chainVars, callVars, Fate
    <2>2. ASSUME NEW c \in Callers, StartCall(c) PROVE [Promise!Next]_<<Fate, told>>
      <3>1. /\ SwapOf(c)' = {} /\ \A d \in Callers \ {c} : SwapOf(d)' = SwapOf(d)
            /\ UNCHANGED <<pool, landed, reverted, gone>>
            /\ told' = [told EXCEPT ![c] = "nothing"]
        BY <1>2, <2>2, StartKeepsOne DEF StartCall, chainVars
      <3>2. FateOf(c)' = "none" /\ \A d \in Callers \ {c} : FateOf(d)' = FateOf(d)
        BY <3>1 DEF FateOf
      <3>3. Promise!Begin(c)
        BY <3>1, <3>2 DEF Promise!Begin, Fate
      <3> QED
        BY <3>3 DEF Promise!Next
    <2>3. ASSUME NEW c \in Callers, CallStep(c) PROVE [Promise!Next]_<<Fate, told>>
      BY <1>2, <2>3, CallKeepsPromise
    <2>4. ASSUME NEW c \in Callers, Crash(c) PROVE [Promise!Next]_<<Fate, told>>
      <3>1. Fate' = Fate
        BY <2>4, QuietFates DEF Crash, chainVars, Fate
      <3>2. CASE at[c] = "idle"
        <4>1. told' = [told EXCEPT ![c] = told[c]] /\ told = [d \in Callers |-> told[d]]
          BY <1>2, <2>4, <3>2 DEF Crash, Return, TypeOK
        <4>2. told' = told
          BY <4>1
        <4> QED
          BY <3>1, <4>2
      <3>3. CASE at[c] # "idle"
        <4>1. Promise!Report(c)
          BY <1>2, <2>4, <3>1, <3>3
             DEF Crash, Return, OneSwapPerCall, Promise!Report, Promise!Answers, Fate
        <4> QED
          BY <4>1 DEF Promise!Next
      <3> QED
        BY <3>2, <3>3
    <2>5. ASSUME NEW x \in pool, Mine(x) \/ Settle(x) PROVE [Promise!Next]_<<Fate, told>>
      <3>1. /\ pool' = pool \ {x} /\ x \in landed' \union reverted' \union gone'
            /\ \A y : y # x => /\ y \in landed' <=> y \in landed
                               /\ y \in reverted' <=> y \in reverted
                               /\ y \in gone' <=> y \in gone
            /\ \A c \in Callers : SwapOf(c)' = SwapOf(c)
            /\ told' = told
        BY <1>2, <2>5, ChainKeepsOne
      <3>2. ASSUME NEW c \in Callers, x \notin SwapOf(c) PROVE FateOf(c)' = FateOf(c)
        <4>1. CASE SwapOf(c) = {}
          BY <3>1, <4>1 DEF FateOf
        <4>2. ASSUME NEW y \in SwapOf(c) PROVE FateOf(c)' = FateOf(c)
          <5>1. SwapOf(c) = {y} /\ y # x
            BY <1>2, <3>2, <4>2 DEF OneSwapPerCall
          <5> QED
            BY <3>1, <5>1 DEF FateOf
        <4> QED
          BY <4>1, <4>2
      <3>3. CASE \A c \in Callers : x \notin SwapOf(c)
        BY <3>1, <3>2, <3>3 DEF Fate
      <3>4. ASSUME NEW c \in Callers, x \in SwapOf(c) PROVE Promise!Settle(c)
        <4>1. SwapOf(c) = {x}
          BY <1>2, <3>4 DEF OneSwapPerCall
        <4>2. FateOf(c) = "open" /\ FateOf(c)' \in {"landed", "failed", "void"}
          BY <3>1, <4>1 DEF FateOf
        <4>3. \A d \in Callers \ {c} : FateOf(d)' = FateOf(d)
          BY <3>2, <3>4 DEF SwapOf
        <4> QED
          BY <3>1, <4>2, <4>3 DEF Promise!Settle, Fate
      <3> QED
        BY <3>3, <3>4 DEF Promise!Next
    <2>6. ASSUME NEW t \in Tokens, Revoke(t) PROVE [Promise!Next]_<<Fate, told>>
      BY <1>2, <2>6, RevokeKeepsOne DEF Revoke, callVars, Fate
    <2> QED
      BY <1>2, <2>1, <2>2, <2>3, <2>4, <2>5, <2>6 DEF Next
  <1>3. TypeOK /\ Numbered /\ OneSwapPerCall /\ [Next]_vars
          => (Numbered /\ OneSwapPerCall)'
    BY NumbersStay, OneStays
  <1>4. ASSUME TypeOK, Numbered, OneSwapPerCall, OneSwapPerCall', [Next]_vars
        PROVE  [Promise!Next]_Promise!promiseVars
    BY <1>2, <1>4 DEF Promise!promiseVars, Fate
  <1> QED
    BY <1>1, <1>3, <1>4, TypeCorrect, PTL DEF Spec, PromiseKept, Promise!Spec
=============================================================================
