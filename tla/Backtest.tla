------------------------------ MODULE Backtest ------------------------------
(***************************************************************************)
(* The simulator of internal/backtest: a file of funding ticks is read,    *)
(* sorted and replayed step by step through a strategy, and a portfolio    *)
(* of delta-neutral positions earns the funding and pays the fees.  One    *)
(* action is one turn of the loop of Run: funding, decision, closes,       *)
(* opens, NAV.  The strategy is any choice of orders and swaps.            *)
(***************************************************************************)
EXTENDS Integers, Sequences, FiniteSets, FiniteSetsExt, SequencesExt, Functions

CONSTANTS
    Symbols,      \* symbols of a tick
    Files,        \* files to replay: a header (set of columns) and rows, a row
                  \* with the columns of it that do not parse
    Notionals,    \* notionals a strategy asks for, zero among them
    Step,         \* StepInterval
    StartingNAV,  \* --starting-nav; zero means the default
    DefaultNAV,   \* 10_000 in the code
    FeeBps,       \* perp, swap and slippage bps together
    Gas,          \* GasUSDPerSwap
    PerFee,       \* 10_000 in the code: what FeeBps is a part of
    MaxCloses, MaxOpens   \* bounds of a decision

Columns == {"time", "symbol", "rate", "interval"}

\* A row of a file; an interval is any number.
Rows == [time : Int, symbol : Symbols, rate : Int, interval : Int, mark : Nat,
         unreadable : SUBSET (Columns \cup {"mark_price"})]

Size(n) == IF n < 0 THEN -n ELSE n

\* Every share of a tick, and every fee, is a whole number of units.
ASSUME BacktestAssumption ==
    /\ IsFiniteSet(Symbols) /\ \A f \in Files : f.rows \in Seq(Rows)
    /\ Step \in Nat \ {0} /\ PerFee \in Nat \ {0} /\ Notionals \subseteq Nat
    /\ FeeBps \in Nat /\ Gas \in Nat /\ StartingNAV \in Int /\ DefaultNAV \in Nat \ {0}
    /\ \A n \in Notionals : (n * FeeBps) % PerFee = 0
    /\ \A f \in Files : \A i \in DOMAIN f.rows :
         f.rows[i].interval # 0 => \A n \in Notionals : (n * Step) % Size(f.rows[i].interval) = 0
    /\ MaxCloses \in Nat /\ MaxOpens \in Nat

VARIABLES
    phase,        \* "file", "running", "done", "refused", "stopped" or "crashed"
    file,         \* the file that --csv names
    tape,         \* the ticks read
    t,            \* the time of the next turn
    cash,         \* portfolio.cash
    positions,    \* portfolio.positions, by symbol
    trades,       \* Result.Trades
    totalFunding, totalFees,
    curve         \* Result.NAVCurve, its values

portfolio == <<cash, positions>>
result == <<trades, totalFunding, totalFees, curve>>
replayVars == <<phase, file, tape, t, portfolio, result>>

-----------------------------------------------------------------------------
(* Reading the ticks.                                                      *)

\* One bad field refuses the whole file, a mark price too if there is a column
\* of them; a file needs the other four columns and one row.  An interval of zero
\* is a number like any other.
ReadCSV(f) ==
    IF /\ f.rows # <<>> /\ Columns \subseteq f.header
       /\ \A i \in DOMAIN f.rows : f.rows[i].unreadable \cap f.header = {}
    THEN f.rows ELSE <<>>

Truncate(time) == time - (time % Step)
Times == {tape[i].time : i \in DOMAIN tape}
StartTime == Truncate(Min(Times))
EndTime == Truncate(Max(Times)) + Step

\* What the strategy is shown at a time: for every symbol seen so far one of
\* its latest ticks (sort.Slice leaves the order of equal times open), with a
\* mark of one where the file has none.
MarketSnapshotAt(time) ==
    LET seen == {i \in DOMAIN tape : tape[i].time <= time}
        latest(s) == {i \in seen : /\ tape[i].symbol = s
                                   /\ \A j \in seen : tape[j].symbol = s => tape[j].time <= tape[i].time}
    IN  [s \in {tape[i].symbol : i \in seen} |->
           {[rate |-> tape[i].rate, mark |-> IF tape[i].mark = 0 THEN 1 ELSE tape[i].mark] : i \in latest(s)}]

-----------------------------------------------------------------------------
(* The portfolio.                                                          *)

OpenPositions == [notional : Nat \ {0}, funding : Int, openFees : Nat, openedAt : Int]
IsBook(pos) == DOMAIN pos \subseteq Symbols /\ pos \in [DOMAIN pos -> OpenPositions]
Trades == [action : {"open", "close"}, symbol : Symbols, funding : Int, fees : Int, netPnL : Int]

nav(c, pos) == c + SumFunction([s \in DOMAIN pos |-> pos[s].notional + pos[s].funding])

openFees(notional)  == (notional * FeeBps) \div PerFee + Gas
closeFees(notional) == (notional * FeeBps) \div PerFee + Gas

\* Mutant of Window: a tick on the boundary belongs to two steps.
WindowInclusive(time) == {i \in DOMAIN tape : time - Step <= tape[i].time /\ tape[i].time <= time}

\* The ticks of the step that ends at a time, and what one of them brings.
Window(time) == {i \in DOMAIN tape : time - Step <= tape[i].time /\ tape[i].time < time}

\* The part of an interval that a step is, in whole units of the notional.
PerStep(notional, interval) ==
    IF interval > 0 THEN (notional * Step) \div interval ELSE -((notional * Step) \div (-interval))

Share(notional, i) == PerStep(notional, tape[i].interval) * tape[i].rate

Brought(notional, ids) == SumFunction([i \in ids |-> Share(notional, i)])

Earned(pos, time, s) == Brought(pos[s].notional, {i \in Window(time) : tape[i].symbol = s})

accrueFunding(pos, time) == [s \in DOMAIN pos |-> [pos[s] EXCEPT !.funding = @ + Earned(pos, time, s)]]

\* Dividing by an interval of zero panics, once a position meets such a tick.
DividesByZero(pos, time) == \E i \in Window(time) : tape[i].symbol \in DOMAIN pos /\ tape[i].interval = 0

\* Mutant of Proceeds: the fee of closing is reported and not paid.
ProceedsUnpaid(op) == op.notional + op.funding

Proceeds(op) == op.notional + op.funding - closeFees(op.notional)

\* A portfolio with the trades it has made.
Folio(c, pos, made) == [cash |-> c, pos |-> pos, trades |-> made]

CloseTrade(s, op) ==
    LET total == op.openFees + closeFees(op.notional)
    IN  [action |-> "close", symbol |-> s, funding |-> op.funding, fees |-> total, netPnL |-> op.funding - total]

OpenTrade(s, fees) == [action |-> "open", symbol |-> s, funding |-> 0, fees |-> fees, netPnL |-> 0]

close(p, s) ==
    IF s \notin DOMAIN p.pos THEN p
    ELSE Folio(p.cash + Proceeds(p.pos[s]), Restrict(p.pos, DOMAIN p.pos \ {s}),
               Append(p.trades, CloseTrade(s, p.pos[s])))

Unopenable(p, s, notional) == s \in DOMAIN p.pos \/ notional = 0 \/ p.cash < notional + openFees(notional)

Opened(notional) == [notional |-> notional, funding |-> 0, openFees |-> openFees(notional), openedAt |-> t]

open(p, s, notional) ==
    IF Unopenable(p, s, notional) THEN p
    ELSE Folio(p.cash - notional - openFees(notional),
               [x \in DOMAIN p.pos \cup {s} |-> IF x = s THEN Opened(notional) ELSE p.pos[x]],
               Append(p.trades, OpenTrade(s, openFees(notional))))

\* The closes of a decision run before its opens, each on what the last one left.
Apply(p, closes, opens) ==
    LET n == Len(closes)
        after[i \in 0 .. n + Len(opens)] ==
            IF i = 0 THEN p
            ELSE IF i <= n THEN close(after[i - 1], closes[i])
            ELSE open(after[i - 1], opens[i - n].symbol, opens[i - n].notional)
    IN  after[n + Len(opens)]

\* Declines are fractions num/den.
NoDecline(v) == [peak |-> v, num |-> 0, den |-> 1]

Worse(acc, v) == acc.peak > 0 /\ (acc.peak - v) * acc.den > acc.num * acc.peak

\* Mutant of Noted: a decline from the first value instead of the peak.
NotedFromStart(acc, v) ==
    IF Worse(acc, v) THEN [peak |-> acc.peak, num |-> acc.peak - v, den |-> acc.peak] ELSE acc

Noted(acc, v) ==
    IF v > acc.peak THEN [acc EXCEPT !.peak = v]
    ELSE IF Worse(acc, v) THEN [peak |-> acc.peak, num |-> acc.peak - v, den |-> acc.peak] ELSE acc

\* computeMaxDrawdown of a curve that is not empty: one pass with a running peak.
computeMaxDrawdown(c) ==
    LET seen[i \in 0 .. Len(c) - 1] ==
            IF i = 0 THEN NoDecline(c[1]) ELSE Noted(seen[i - 1], c[i + 1])
    IN  seen[Len(c) - 1]

-----------------------------------------------------------------------------
(* Run.                                                                    *)

Start == IF StartingNAV = 0 THEN DefaultNAV ELSE StartingNAV

ReplayInit ==
    /\ phase = "file" /\ file \in Files
    /\ tape = <<>> /\ t = 0 /\ cash = Start /\ positions = << >>
    /\ trades = <<>> /\ totalFunding = 0 /\ totalFees = 0 /\ curve = <<>>

Load ==
    /\ phase = "file"
    /\ tape' = ReadCSV(file)
    /\ IF tape' = <<>> THEN phase' = "refused" /\ t' = t
       ELSE phase' = "running" /\ t' = StartTime'
    /\ UNCHANGED <<file, portfolio, result>>

\* One turn of the loop, with the orders and swaps the strategy answers with.
Turn(closes, opens) ==
    /\ phase = "running" /\ ~DividesByZero(positions, t)
    /\ LET credited == accrueFunding(positions, t)
           after == Apply(Folio(cash, credited, trades), closes, opens)
       IN  /\ cash' = after.cash /\ positions' = after.pos /\ trades' = after.trades
           /\ totalFunding' = totalFunding + SumFunction([s \in DOMAIN positions |-> Earned(positions, t, s)])
           /\ totalFees' = totalFees + SumFunction([i \in Len(trades) + 1 .. Len(after.trades) |->
                                                         after.trades[i].fees])
           /\ curve' = Append(curve, nav(after.cash, after.pos))
    /\ t' = t + Step
    /\ phase' = IF t + Step > EndTime THEN "done" ELSE "running"
    /\ UNCHANGED <<file, tape>>

\* The context ends between two turns, or Decide fails: the result so far is dropped.
Stop ==
    /\ phase = "running" /\ phase' = "stopped"
    /\ UNCHANGED <<file, tape, t, portfolio, result>>

Crash ==
    /\ phase = "running" /\ DividesByZero(positions, t) /\ phase' = "crashed"
    /\ UNCHANGED <<file, tape, t, portfolio, result>>

\* A strategy opens what it is shown and closes what it likes.
Closes == BoundedSeq(Symbols, MaxCloses)
Opens == BoundedSeq([symbol : DOMAIN MarketSnapshotAt(t), notional : Notionals], MaxOpens)

ReplayNext ==
    \/ Load \/ Stop \/ Crash
    \/ \E closes \in Closes, opens \in Opens : Turn(closes, opens)

ReplaySpec == ReplayInit /\ [][ReplayNext]_replayVars

-----------------------------------------------------------------------------
(* Properties.                                                             *)

ReplayTypeOK ==
    /\ phase \in {"file", "running", "done", "refused", "stopped", "crashed"}
    /\ file \in Files /\ tape \in Seq(Rows) /\ t \in Int
    /\ cash \in Int /\ IsBook(positions) /\ trades \in Seq(Trades)
    /\ totalFunding \in Int /\ totalFees \in Int
    /\ curve \in Seq(Int) /\ (phase = "done" => curve # <<>>)

LastTurn == t - Step

NetOfClosed(list) ==
    LET closed == {i \in DOMAIN list : list[i].action = "close"}
    IN  SumFunction([i \in closed |-> list[i].netPnL])

\* The books balance: what the NAV has gained is the net PnL of the closed
\* trades and what the open positions have earned less the fees of opening
\* them, though the fees of an opening appear in two trades.
NAVIsExplained ==
    nav(cash, positions) =
        Start + NetOfClosed(trades)
              + SumFunction([s \in DOMAIN positions |-> positions[s].funding - positions[s].openFees])

\* The cash that is not there was paid for what is open.
Spent(pos) == SumFunction([s \in DOMAIN pos |-> pos[s].notional + pos[s].openFees])

CashIsAccountedFor == cash + Spent(positions) = Start + NetOfClosed(trades)

\* The ticks of a symbol from a time on, before another.
Between(s, from, to) ==
    {i \in DOMAIN tape : tape[i].symbol = s /\ tape[i].time >= from /\ tape[i].time < to}

\* A tick counts once for a position that was open when it came and for no
\* other: the windows of the turns neither overlap nor leave a gap, and the
\* turn after the last tick does not miss it.  (How much a tick brings is another
\* matter: always the part of its rate that a step is of its interval.)
EachTickCountsOnce ==
    \A s \in DOMAIN positions :
        positions[s].funding =
            Brought(positions[s].notional,
                    {i \in DOMAIN tape : /\ tape[i].symbol = s
                                         /\ tape[i].time >= positions[s].openedAt
                                         /\ phase = "done" \/ tape[i].time < LastTurn})

\* Every position has earned what came after it was opened and before the last
\* turn, and no tick of that divides by zero.
FundedBefore(pos, to) ==
    \A s \in DOMAIN pos :
        /\ pos[s].openedAt <= to
        /\ \A i \in Between(s, pos[s].openedAt, to) : tape[i].interval # 0
        /\ pos[s].funding = Brought(pos[s].notional, Between(s, pos[s].openedAt, to))

FundedSoFar == FundedBefore(positions, LastTurn)

\* The turns fall on whole steps, and the last one is after every tick.
TurnsInStep ==
    /\ phase \in {"file", "refused"} => DOMAIN positions = {}
    /\ phase = "running" => t % Step = 0 /\ tape # <<>>
    /\ phase = "done" => \A i \in DOMAIN tape : tape[i].time < LastTurn

\* The drawdown reported is the largest decline from a running maximum.
DrawdownIsLargestDecline ==
    phase = "done" =>
        LET d == computeMaxDrawdown(curve)
            top(j) == Max({curve[i] : i \in 1 .. j})
        IN  /\ d.num >= 0 /\ d.den > 0
            /\ \A j \in DOMAIN curve : top(j) > 0 => (top(j) - curve[j]) * d.den <= d.num * top(j)
            /\ d.num = 0 \/ \E j \in DOMAIN curve : top(j) = d.den /\ top(j) - curve[j] = d.num

=============================================================================
