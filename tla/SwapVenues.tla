----------------------------- MODULE SwapVenues ------------------------------
(***************************************************************************)
(* The swap venues of internal/swap with their chains: callers (a Runtime  *)
(* per agent, a kill_switch) each own a venue instance, all sign with the  *)
(* one wallet.  A 1inch call approves the token if it has to, waits for    *)
(* the approve, then swaps; its transactions are numbered by the node's    *)
(* pending count, read before the transaction is sent.  A Jupiter call     *)
(* sends one transaction, which lands, fails or expires.                   *)
(***************************************************************************)
EXTENDS Naturals, FiniteSets

CONSTANTS
    EvmCallers,      \* callers of a oneinch.Venue, on one EVM chain
    SolanaCallers,   \* callers of a jupiter.Venue
    Owner,           \* the wallet's owner, who signs with other software
    Tokens,          \* ERC-20 tokens that are sold
    Preapproved,     \* tokens whose router allowance is not zero at first
    MaxCalls,        \* bound: Quote-Swap-WaitConfirm calls of all callers
    MaxRevokes       \* bound: allowances that the owner takes back

Callers == EvmCallers \union SolanaCallers

ASSUME VenueAssumption ==
    /\ EvmCallers \intersect SolanaCallers = {} /\ Owner \notin Callers
    /\ Preapproved \subseteq Tokens
    /\ MaxCalls \in Nat /\ MaxRevokes \in Nat

VARIABLES
    \* the chains: the nodes' pools, and what the blocks decided
    pool, landed, reverted, gone,
    mined, pending,     \* transaction counts of the wallet: "latest", "pending"
    allowed,            \* tokens with a router allowance that is not zero
    revokes,            \* revocations sent
    \* the venue instances
    approved,           \* Venue.approved of each caller
    at, token, nonce, tx,   \* where a call is, what it sells, what it read and sent
    told,               \* what the call returned
    call, calls         \* the number of a caller's call, and of calls begun

chainVars == <<pool, landed, reverted, gone, mined, pending, allowed, revokes>>
callVars  == <<at, token, nonce, tx, told, call, calls>>
vars      == <<chainVars, approved, callVars>>

Tx == [by : Callers \union {Owner}, call : Nat, kind : {"approve", "swap", "revoke"},
       token : Tokens, nonce : Nat]
NoTx == [by |-> Owner, call |-> 0, kind |-> "revoke",
         token |-> CHOOSE t \in Tokens : TRUE, nonce |-> 0]

Known  == pool \union landed \union reverted \union gone
IsEvm(x) == x.by \notin SolanaCallers

Places == {"idle", "quoted", "allowance", "fillApprove", "sendApprove", "waitApprove",
           "fill", "send", "wait"}

Init ==
    /\ pool = {} /\ landed = {} /\ reverted = {} /\ gone = {}
    /\ mined = 0 /\ pending = 0 /\ allowed = Preapproved /\ revokes = 0
    /\ approved = [c \in Callers |-> {}]
    /\ at = [c \in Callers |-> "idle"]
    /\ token \in [Callers -> Tokens]
    /\ nonce = [c \in Callers |-> 0]
    /\ tx = [c \in Callers |-> NoTx]
    /\ told = [c \in Callers |-> "nothing"]
    /\ call = [c \in Callers |-> 0] /\ calls = 0

-----------------------------------------------------------------------------
(* Ways for a call to go on.                                               *)

Goto(c, place) == at' = [at EXCEPT ![c] = place]

\* The call returns; what it read and sent is forgotten.
Return(c, answer) ==
    /\ Goto(c, "idle")
    /\ told' = [told EXCEPT ![c] = answer]
    /\ nonce' = [nonce EXCEPT ![c] = 0]
    /\ tx' = [tx EXCEPT ![c] = NoTx]

-----------------------------------------------------------------------------
(* One call: Quote, Swap, WaitConfirm.                                     *)

\* Quote answers; until Swap is called the quote ages.
StartCall(c) ==
    /\ at[c] = "idle" /\ calls < MaxCalls
    /\ calls' = calls + 1 /\ call' = [call EXCEPT ![c] = calls']
    /\ \E t \in Tokens : token' = [token EXCEPT ![c] = t]
    /\ told' = [told EXCEPT ![c] = "nothing"]
    /\ Goto(c, "quoted")
    /\ UNCHANGED <<chainVars, approved, nonce, tx>>

\* A call fails wherever an answer it waits for is an error: Swap refuses an
\* expired quote, an aggregator or a node does not answer, ctx is cancelled.
\* A wait that ends so is GiveUp's.
Fail(c) ==
    /\ at[c] \notin {"idle", "wait"}
    /\ Return(c, "error")
    /\ UNCHANGED <<chainVars, approved, token, call, calls>>

\* Jupiter has built the transaction; 1inch first looks into its cache.
EnterSwap(c) ==
    /\ at[c] = "quoted"
    /\ Goto(c, IF c \in SolanaCallers THEN "send"
               ELSE IF token[c] \in approved[c] THEN "fill" ELSE "allowance")
    /\ UNCHANGED <<chainVars, approved, token, nonce, tx, told, call, calls>>

\* ensureApproved trusts any allowance but zero, and remembers it.
ReadAllowance(c) ==
    /\ at[c] = "allowance"
    /\ IF token[c] \in allowed
       THEN /\ approved' = [approved EXCEPT ![c] = @ \union {token[c]}]
            /\ Goto(c, "fill")
       ELSE Goto(c, "fillApprove") /\ UNCHANGED approved
    /\ UNCHANGED <<chainVars, token, nonce, tx, told, call, calls>>

\* Mutant of PendingCount: the count of mined transactions is asked for.
LatestCount == mined

\* Mutant of PendingCount: a count of transactions is taken for the last number.
LastNonce == pending - 1

\* GetTransactionCount asks for the pending count.
PendingCount == pending

\* EstimateAndFill numbers the transaction.
Fill(c) ==
    /\ at[c] \in {"fillApprove", "fill"}
    /\ nonce' = [nonce EXCEPT ![c] = PendingCount]
    /\ Goto(c, IF at[c] = "fill" THEN "send" ELSE "sendApprove")
    /\ UNCHANGED <<chainVars, approved, token, tx, told, call, calls>>

\* The transaction that a call at "sendApprove" or "send" has signed.
Signed(c) == [by |-> c, call |-> call[c],
              kind |-> IF at[c] = "send" THEN "swap" ELSE "approve",
              token |-> token[c],
              nonce |-> IF c \in SolanaCallers THEN 0 ELSE nonce[c]]

Rivals(x) == {y \in pool : IsEvm(x) /\ IsEvm(y) /\ y.nonce = x.nonce}

\* The node takes the next transaction of the wallet, or a better paid one in
\* place of one it holds; a number already mined is refused.
Accept(x) ==
    /\ IsEvm(x) => x.nonce \in mined .. pending
    /\ pool' = (pool \ Rivals(x)) \union {x}
    /\ gone' = gone \union Rivals(x)
    /\ pending' = IF IsEvm(x) /\ x.nonce = pending THEN pending + 1 ELSE pending
    /\ UNCHANGED <<landed, reverted, mined, allowed, revokes>>

Send(c) ==
    /\ at[c] \in {"sendApprove", "send"}
    /\ Accept(Signed(c))
    /\ tx' = [tx EXCEPT ![c] = Signed(c)]
    /\ Goto(c, IF at[c] = "send" THEN "wait" ELSE "waitApprove")
    /\ UNCHANGED <<approved, token, nonce, told, call, calls>>

\* The node has the transaction, the caller does not get the answer.
SendLost(c) ==
    /\ at[c] \in {"sendApprove", "send"}
    /\ Accept(Signed(c))
    /\ Return(c, "error")
    /\ UNCHANGED <<approved, token, call, calls>>

\* Mutant of ApproveMined: the approve need not have succeeded.
ApproveSent(c) == at[c] = "waitApprove"

\* WaitForReceipt of the approve.
ApproveMined(c) == at[c] = "waitApprove" /\ tx[c] \in landed

ApproveDone(c) ==
    /\ ApproveMined(c)
    /\ approved' = [approved EXCEPT ![c] = @ \union {token[c]}]
    /\ Goto(c, "fill")
    /\ UNCHANGED <<chainVars, token, nonce, tx, told, call, calls>>

\* Mutant of Confirm: a broadcast transaction is taken for a confirmed one.
TrustBroadcast(c) ==
    /\ at[c] = "wait"
    /\ Return(c, "confirmed")
    /\ UNCHANGED <<chainVars, approved, token, call, calls>>

\* WaitConfirm: what the chain says.
Confirm(c) ==
    /\ at[c] = "wait"
    /\ \/ tx[c] \in landed /\ Return(c, "confirmed")
       \/ tx[c] \in reverted /\ Return(c, "failed")
    /\ UNCHANGED <<chainVars, approved, token, call, calls>>

\* Mutant of GiveUp: a wait has no deadline.
WaitOn(c) == FALSE

\* WaitConfirm's deadline, an error of the node (1inch), ctx (Jupiter: error);
\* kill_switch does not wait at all.
GiveUp(c) ==
    /\ at[c] = "wait"
    /\ Return(c, "pending") \/ (c \in SolanaCallers /\ Return(c, "error"))
    /\ UNCHANGED <<chainVars, approved, token, call, calls>>

CallStep(c) ==
    \/ Fail(c) \/ EnterSwap(c) \/ ReadAllowance(c) \/ Fill(c)
    \/ Send(c) \/ SendLost(c) \/ ApproveDone(c) \/ Confirm(c) \/ GiveUp(c)

\* The process ends: the cache goes with it.
Crash(c) ==
    /\ Return(c, IF at[c] = "idle" THEN told[c] ELSE "error")
    /\ approved' = [approved EXCEPT ![c] = {}]
    /\ UNCHANGED <<chainVars, token, call, calls>>

-----------------------------------------------------------------------------
(* The chains.                                                             *)

\* Blocks take the wallet's transactions in the order of their numbers.  A swap
\* needs an allowance, and may fail for other reasons too.
Mine(x) ==
    /\ x \in pool /\ IsEvm(x) /\ x.nonce = mined
    /\ mined' = mined + 1
    /\ pool' = pool \ {x}
    /\ \/ /\ landed' = landed \union {x} /\ UNCHANGED reverted
          /\ x.kind = "swap" => x.token \in allowed
          /\ allowed' = CASE x.kind = "approve" -> allowed \union {x.token}
                          [] x.kind = "revoke"  -> allowed \ {x.token}
                          [] x.kind = "swap"    -> allowed
       \/ reverted' = reverted \union {x} /\ UNCHANGED <<landed, allowed>>
    /\ UNCHANGED <<gone, pending, revokes, approved, callVars>>

\* A Solana transaction lands, fails, or outlives its blockhash.
Settle(x) ==
    /\ x \in pool /\ ~IsEvm(x)
    /\ pool' = pool \ {x}
    /\ \/ landed' = landed \union {x} /\ UNCHANGED <<reverted, gone>>
       \/ reverted' = reverted \union {x} /\ UNCHANGED <<landed, gone>>
       \/ gone' = gone \union {x} /\ UNCHANGED <<landed, reverted>>
    /\ UNCHANGED <<mined, pending, allowed, revokes, approved, callVars>>

\* The owner takes an allowance back, with a transaction of the same wallet.
Revoke(t) ==
    /\ revokes < MaxRevokes
    /\ revokes' = revokes + 1
    /\ pool' = pool \union {[by |-> Owner, call |-> revokes, kind |-> "revoke",
                             token |-> t, nonce |-> pending]}
    /\ pending' = pending + 1
    /\ UNCHANGED <<landed, reverted, gone, mined, allowed, approved, callVars>>

Next ==
    \/ \E c \in Callers : StartCall(c) \/ CallStep(c) \/ Crash(c)
    \/ \E x \in pool : Mine(x) \/ Settle(x)
    \/ \E t \in Tokens : Revoke(t)

\* Every wait of a call is bounded: HTTP clients have timeouts (30 s, 15 s),
\* polling has a budget (90 s).  Nothing is asked of chains or of callers.
Fairness == \A c \in Callers : WF_vars(CallStep(c))

Spec == Init /\ [][Next]_vars

FairSpec == Spec /\ Fairness

-----------------------------------------------------------------------------
(* Properties.                                                             *)

\* Every variable stays in its range.
TypeOK ==
    /\ pool \subseteq Tx /\ landed \subseteq Tx /\ reverted \subseteq Tx /\ gone \subseteq Tx
    /\ mined \in Nat /\ pending \in Nat /\ allowed \subseteq Tokens /\ revokes \in Nat
    /\ approved \in [Callers -> SUBSET Tokens]
    /\ at \in [Callers -> Places] /\ token \in [Callers -> Tokens]
    /\ nonce \in [Callers -> Nat] /\ tx \in [Callers -> Tx \union {NoTx}]
    /\ told \in [Callers -> {"nothing", "error", "pending", "confirmed", "failed"}]
    /\ call \in [Callers -> Nat] /\ calls \in Nat

\* Was t approved by a transaction of a smaller number than n, or before?
ApprovedBefore(t, n) ==
    \/ t \in Preapproved
    \/ \E a \in landed : IsEvm(a) /\ a.kind = "approve" /\ a.token = t /\ a.nonce < n

\* Venue.Swap's "we MUST NOT broadcast the swap before the approve is mined":
\* every swap that a 1inch venue ever sent follows, in the order of the chain,
\* an approve of its token that succeeded, whoever sent that.
SwapsFollowApproval ==
    \A x \in Known : IsEvm(x) /\ x.kind = "swap" => ApprovedBefore(x.token, x.nonce)

\* GetTransactionCount's "back-to-back txs in the same tick get distinct
\* nonces": no venue ever sends two transactions of one number, so none of its
\* own takes another's place; only callers that share the wallet collide.
OwnNoncesDistinct ==
    \A x, y \in Known : IsEvm(x) /\ x.by = y.by /\ x.nonce = y.nonce => x = y

\* Both venues keep what SwapVenue promises: one swap per call, reported
\* confirmed or failed only as the chain decided, across replaced transactions,
\* lost answers and restarts.
SwapOf(c) == {x \in Known : x.by = c /\ x.call = call[c] /\ x.kind = "swap"}

FateOf(c) ==
    IF SwapOf(c) = {} THEN "none"
    ELSE IF SwapOf(c) \intersect pool # {} THEN "open"
    ELSE IF SwapOf(c) \intersect landed # {} THEN "landed"
    ELSE IF SwapOf(c) \intersect reverted # {} THEN "failed" ELSE "void"

Promise == INSTANCE SwapPromise WITH swap <- [c \in Callers |-> FateOf(c)]

PromiseKept == Promise!Spec

\* A call returns, also when its transaction was replaced and will never be
\* mined.
CallsReturn == \A c \in Callers : at[c] # "idle" ~> at[c] = "idle"

-----------------------------------------------------------------------------
(* Why the properties hold: the strengthenings the proofs use.             *)

\* The numbers of what the node ever saw, of what is mined, and of what a call
\* is about to send.
Numbered ==
    /\ mined <= pending
    /\ \A x \in Known : IsEvm(x) => x.nonce < pending
    /\ \A x \in landed : IsEvm(x) => x.nonce < mined
    /\ \A c \in EvmCallers : at[c] \in {"sendApprove", "send"} =>
          /\ nonce[c] <= pending
          /\ \A x \in Known : x.by = c => x.nonce < nonce[c]

\* Whoever counts on an allowance has the order of the chain on his side.
AllowancesAreReal ==
    /\ \A t \in allowed : ApprovedBefore(t, mined)
    /\ \A c \in EvmCallers :
          /\ \A t \in approved[c] : ApprovedBefore(t, mined)
          /\ at[c] = "fill" => ApprovedBefore(token[c], mined)
          /\ at[c] = "send" => ApprovedBefore(token[c], nonce[c])
          /\ at[c] = "waitApprove" =>
                tx[c].by = c /\ tx[c].kind = "approve" /\ tx[c].token = token[c]

\* A call's swap is what it waits for, and there is none before; the chain
\* decides on a transaction once.
OneSwapPerCall ==
    /\ \A x \in Known : x.by \in Callers => x.call <= calls
    /\ pool \intersect (landed \union reverted \union gone) = {}
    /\ landed \intersect (reverted \union gone) = {} /\ reverted \intersect gone = {}
    /\ \A c \in Callers :
          /\ call[c] <= calls
          /\ c \in SolanaCallers => at[c] \in {"idle", "quoted", "send", "wait"}
          /\ \A x, y \in SwapOf(c) : x = y
          /\ at[c] # "idle" => told[c] = "nothing"
          /\ at[c] \notin {"idle", "wait"} => SwapOf(c) = {}
          /\ at[c] = "wait" => tx[c] \in SwapOf(c)
=============================================================================
