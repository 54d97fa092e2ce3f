----------------------------- MODULE MCBacktest -----------------------------
(* Files that put ticks on, between and just before the turns of a two-unit *)
(* step: dense and sparse series, both signs, equal times, a zero interval, *)
(* and files that must be refused.                                         *)
EXTENDS Backtest

Row(time, symbol, rate, interval) ==
    [time |-> time, symbol |-> symbol, rate |-> rate, interval |-> interval, mark |-> 0, unreadable |-> {}]
File(rows) == [header |-> Columns, rows |-> rows]

Series == {File(<<Row(a, "A", r, 2), Row(b, "A", 2, i), Row(c, "B", q, 4)>>) :
             a \in {3}, b \in 0 .. 4, c \in {0, 3, 5}, r \in {-3, 1}, q \in {-5, 1}, i \in {1, 4}}

MCFiles == Series \cup {
    File(<<Row(3, "A", 2, 2), Row(0, "A", 1, 2), Row(2, "A", -1, 2)>>),
    File(<<Row(0, "A", 1, 4), Row(4, "B", 1, 4)>>),
    File(<<Row(1, "A", -3, 1), Row(1, "A", 1, 2), Row(2, "B", 2, 4)>>),
    File(<<Row(0, "A", 1, 2), Row(2, "A", 1, 0)>>),
    File(<<Row(0, "A", 1, -2), Row(2, "A", 1, -1)>>),
    File(<<Row(0, "A", 1, 2), [Row(1, "B", 1, 2) EXCEPT !.unreadable = {"rate"}]>>),
    File(<<Row(0, "A", 1, 2), [Row(1, "B", 1, 2) EXCEPT !.unreadable = {"mark_price"}]>>),
    [header |-> Columns \cup {"mark_price"},
     rows |-> <<Row(0, "A", 1, 2), [Row(1, "B", 1, 2) EXCEPT !.unreadable = {"mark_price"}]>>],
    File(<<>>),
    [header |-> Columns \ {"rate"}, rows |-> <<Row(0, "A", 1, 2)>>] }
=============================================================================
