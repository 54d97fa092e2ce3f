----------------------------- MODULE VaultLedger -----------------------------
(***************************************************************************)
(* The vault's accounting in internal/vault: append-only deposits and      *)
(* withdrawals, lockups, and NAV snapshots that carry the high-water mark  *)
(* from one to the next.  The vault's commands are processes of their own; *)
(* recording a NAV reads the ledger, reads the latest mark, takes the time *)
(* and inserts, in four statements that other commands fall between.       *)
(***************************************************************************)
EXTENDS Integers, FiniteSets, Functions

CONSTANTS
    Commands,     \* processes of the vault command
    Amounts,      \* amounts that operators type, finer than a stored amount
    Values,       \* cash and positions values that operators type
    Funded,       \* agents that capital is allocated to
    Weights,      \* weights of an agent
    MaxTime,      \* bound on the clock
    MaxEntries    \* bound on ledger entries

ASSUME VaultAssumption ==
    /\ Amounts \subseteq Int /\ Values \subseteq Int /\ Weights \subseteq Nat
    /\ IsFiniteSet(Funded) /\ MaxTime \in Nat /\ MaxEntries \in Nat

VARIABLES
    now,          \* the clock; a row inserted takes a step of it
    deposits, withdrawals,   \* sums of the two tables
    entries,      \* ledger entries and lockups written
    lockups,      \* rows of lockups
    navs,         \* rows of nav_snapshots
    at,           \* where each command is
    draft,        \* the NAV inputs that each command has gathered
    overlapped    \* history: two recordings were under way at once

ledgerVars == <<deposits, withdrawals, entries, lockups>>
vaultVars == <<now, ledgerVars, navs, at, draft, overlapped>>

Places == {"idle", "totals", "mark", "computed"}
Recording == {c \in Commands : at[c] # "idle"}

\* A column numeric(38,9) rounds what it is given, half away from zero.  The
\* unit of Amounts and Values is half of the stored one.
Numeric(x) == IF x >= 0 THEN (x + 1) \div 2 ELSE -((1 - x) \div 2)

Draft(nav, dep, wit, hwm, time) == [nav |-> nav, dep |-> dep, wit |-> wit, hwm |-> hwm, time |-> time]
NoDraft == Draft(0, 0, 0, 0, 0)

VaultInit ==
    /\ now = 0 /\ deposits = 0 /\ withdrawals = 0 /\ entries = 0
    /\ lockups = {} /\ navs = {}
    /\ at = [c \in Commands |-> "idle"]
    /\ draft = [c \in Commands |-> NoDraft]
    /\ overlapped = FALSE

Elapse == now < MaxTime /\ now' = now + 1

-----------------------------------------------------------------------------
(* The ledger.  The code refuses what is not positive, the table what       *)
(* rounds to zero.                                                         *)

Insertable(amount) == amount > 0 /\ Numeric(amount) > 0

Enter(amount) ==
    /\ Insertable(amount) /\ entries < MaxEntries
    /\ entries' = entries + 1
    /\ UNCHANGED <<now, navs, at, draft, overlapped>>

Deposit(amount) ==
    /\ Enter(amount)
    /\ deposits' = deposits + Numeric(amount)
    /\ UNCHANGED <<withdrawals, lockups>>

\* Not compared with the NAV, nor with what is locked.
Withdraw(amount) ==
    /\ Enter(amount)
    /\ withdrawals' = withdrawals + Numeric(amount)
    /\ UNCHANGED <<deposits, lockups>>

AddLockup(amount, until) ==
    /\ until > now
    /\ Enter(amount)
    /\ lockups' = lockups \union {[id |-> entries, amount |-> Numeric(amount), until |-> until]}
    /\ UNCHANGED <<deposits, withdrawals>>

\* The commands pass on any amount and time that parse.
DepositCmd  == \E a \in Amounts : Deposit(a)
WithdrawCmd == \E a \in Amounts : Withdraw(a)
LockupCmd   == \E a \in Amounts, until \in 0 .. MaxTime : AddLockup(a, until)

-----------------------------------------------------------------------------
(* RecordNAV, statement by statement.                                      *)

\* LedgerTotals.
ReadTotals(c, cash, positions) ==
    /\ at[c] = "idle"
    /\ overlapped' = (overlapped \/ Recording # {})
    /\ draft' = [draft EXCEPT ![c] = Draft(cash + positions, deposits, withdrawals, 0, 0)]
    /\ at' = [at EXCEPT ![c] = "totals"]
    /\ UNCHANGED <<now, ledgerVars, navs>>

\* LatestNAV: the row of the greatest time.
Latest == CHOOSE s \in navs : \A t \in navs : t.time <= s.time

\* Mutant of ReadMark: any earlier snapshot may be taken for the latest one.
ReadOldMark(c) ==
    /\ at[c] = "totals"
    /\ draft' = [draft EXCEPT ![c].hwm =
                    IF navs = {} THEN 0 ELSE (CHOOSE s \in navs : \A t \in navs : t.time >= s.time).hwm]
    /\ at' = [at EXCEPT ![c] = "mark"]
    /\ UNCHANGED <<now, ledgerVars, navs, overlapped>>

ReadMark(c) ==
    /\ at[c] = "totals"
    /\ draft' = [draft EXCEPT ![c].hwm = IF navs = {} THEN 0 ELSE Latest.hwm]
    /\ at' = [at EXCEPT ![c] = "mark"]
    /\ UNCHANGED <<now, ledgerVars, navs, overlapped>>

\* Mutant of Mark: the new NAV always becomes the mark.
LastMark(hwm, nav) == nav

\* The running maximum.
Mark(hwm, nav) == IF nav > hwm THEN nav ELSE hwm

\* ComputeNAV with the time of now.  A mark that was read is in stored units, a
\* NAV is not.
ComputeNAV(c) ==
    /\ at[c] = "mark"
    /\ draft' = [draft EXCEPT ![c].hwm = Mark(2 * @, draft[c].nav), ![c].time = now]
    /\ at' = [at EXCEPT ![c] = "computed"]
    /\ UNCHANGED <<now, ledgerVars, navs, overlapped>>

\* The row that a draft becomes.
Row(d) == [time |-> d.time, nav |-> Numeric(d.nav), hwm |-> Numeric(d.hwm),
           dep |-> d.dep, wit |-> d.wit]

\* ON CONFLICT (vault_id, time) DO NOTHING.
InsertNAV(c) ==
    /\ at[c] = "computed"
    /\ navs' = IF \E s \in navs : s.time = draft[c].time THEN navs
               ELSE navs \union {Row(draft[c])}
    /\ at' = [at EXCEPT ![c] = "idle"]
    /\ draft' = [draft EXCEPT ![c] = NoDraft]
    /\ Elapse
    /\ UNCHANGED <<ledgerVars, overlapped>>

\* A statement fails or the command is interrupted.
Abort(c) ==
    /\ at[c] # "idle"
    /\ at' = [at EXCEPT ![c] = "idle"]
    /\ draft' = [draft EXCEPT ![c] = NoDraft]
    /\ UNCHANGED <<now, ledgerVars, navs, overlapped>>

Record(c) ==
    \/ \E cash, positions \in Values : ReadTotals(c, cash, positions)
    \/ ReadMark(c) \/ ComputeNAV(c) \/ InsertNAV(c) \/ Abort(c)

VaultNext ==
    \/ DepositCmd \/ WithdrawCmd \/ LockupCmd
    \/ \E c \in Commands : Record(c)
    \/ Elapse /\ UNCHANGED <<ledgerVars, navs, at, draft, overlapped>>

VaultSpec == VaultInit /\ [][VaultNext]_vaultVars

-----------------------------------------------------------------------------
(* Capital: AvailableCapital, ActiveLockups and ProportionalPolicy.         *)

Amount(S) == SumFunction([l \in S |-> l.amount])

\* Mutant of IsActive: a lockup still holds at its unlock time.
HoldsAtUnlock(l, t) == t <= l.until

\* Lockup.IsActive.
IsActive(l, t) == t < l.until

Locked(t) == Amount({l \in lockups : IsActive(l, t)})

AvailableCapital(cash, t) == IF cash < Locked(t) THEN 0 ELSE cash - Locked(t)

\* The query of ActiveLockups.
ActiveLockups(t) == {l \in lockups : l.until > t}

\* Decimal division rounds to a number of digits, half away from zero.
DivRound(a, b) == (2 * a + b) \div (2 * b)

Allocate(available, w) ==
    LET total == SumFunction(w)
    IN  [a \in DOMAIN w |-> IF total = 0 \/ available = 0 THEN 0
                            ELSE DivRound(available * w[a], total)]

-----------------------------------------------------------------------------
(* Properties.                                                             *)

Row0 == [time : Nat, nav : Int, hwm : Nat, dep : Nat, wit : Nat]
DraftSet == [nav : Int, dep : Nat, wit : Nat, hwm : Nat, time : Nat]

\* Every variable stays in its range.
VaultTypeOK ==
    /\ now \in Nat /\ deposits \in Nat /\ withdrawals \in Nat /\ entries \in Nat
    /\ lockups \subseteq [id : Nat, amount : Nat, until : Nat] /\ IsFiniteSet(lockups)
    /\ navs \subseteq Row0
    /\ at \in [Commands -> Places] /\ overlapped \in BOOLEAN
    /\ draft \in [Commands -> DraftSet]

\* What is recorded was read from the ledger and from the clock, a mark is no
\* less than its NAV, and a row has a time of its own: the parts of the inductive
\* invariant that hold however recordings overlap.
RowsAreReadings ==
    /\ \A c \in Commands :
         /\ draft[c].dep <= deposits /\ draft[c].wit <= withdrawals /\ draft[c].time <= now
         /\ at[c] = "computed" => draft[c].nav <= draft[c].hwm
    /\ \A s \in navs : /\ s.time < now /\ s.dep <= deposits /\ s.wit <= withdrawals
                       /\ s.nav <= s.hwm
    /\ \A s, t \in navs : s.time = t.time => s = t

\* Of a recording that was alone from its start: nobody else records, and what
\* it has gathered so far is ahead of every row.  The rest of the inductive
\* invariant.
AloneAndAhead ==
    ~overlapped =>
        /\ \A c, d \in Recording : c = d
        /\ \A c \in Recording : \A s \in navs :
             /\ s.dep <= draft[c].dep /\ s.wit <= draft[c].wit
             /\ at[c] = "mark" => s.hwm <= draft[c].hwm
             /\ at[c] = "computed" => s.hwm <= Numeric(draft[c].hwm) /\ s.time < draft[c].time

Marks == {0} \cup {s.nav : s \in navs}

\* Every mark is a NAV that was recorded, or zero: the part of the inductive
\* invariant that MarkIsPeak adds.  It holds however recordings overlap.
MarksWereReached ==
    /\ \A s \in navs : s.hwm \in Marks
    /\ \A c \in Commands :
         /\ at[c] = "mark" => draft[c].hwm \in Marks
         /\ at[c] = "computed" => Numeric(draft[c].hwm) \in Marks \/ draft[c].hwm = draft[c].nav

\* As long as no two recordings overlap, the history is in order: a later row
\* has seen every deposit, withdrawal and mark of an earlier one.
SerialHistory ==
    ~overlapped => \A s, t \in navs :
        s.time < t.time => s.dep <= t.dep /\ s.wit <= t.wit /\ s.hwm <= t.hwm

\* "The high-water mark is the running maximum", through the row that ComputeNAV's
\* caller read, the statements between, the conversions to a column and back, and
\* recordings that were cut short: the mark of the latest row is the greatest NAV
\* ever recorded, or zero while none was positive.
MarkIsPeak ==
    ~overlapped /\ navs # {} =>
        /\ \A s \in navs : s.nav <= Latest.hwm
        /\ Latest.hwm \in Marks

\* What is not locked is given out, up to half a unit of rounding per agent, and
\* nothing when no agent has a weight: ProportionalPolicy on AvailableCapital,
\* with what ActiveLockups lists at the moment, the unlock time included.
AllocationConserves ==
    \A cash \in Values, w \in [Funded -> Weights] :
        LET listed == Amount(ActiveLockups(now))
            free == IF listed > cash THEN 0 ELSE cash - listed
            given == SumFunction(Allocate(AvailableCapital(cash, now), w))
            shares == Cardinality({a \in Funded : w[a] # 0})
        IN  /\ 2 * (given - free) <= shares
            /\ shares # 0 => 2 * (free - given) <= shares
=============================================================================
