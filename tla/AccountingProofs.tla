--------------------------- MODULE AccountingProofs ----------------------------
(***************************************************************************)
(* Proofs about the money: the vault's NAV history and allocations, and    *)
(* the hedged book with its valuation and its reconciliation.              *)
(***************************************************************************)
EXTENDS VaultLedger, HedgeBook, SumLemmas

-----------------------------------------------------------------------------
(* Numbers.                                                                  *)

\* A column keeps the order of what it is given, and a stored number comes back
\* as it was.
LEMMA Rounding ==
    /\ \A x \in Int : Numeric(x) \in Int
    /\ \A x, y \in Int : x <= y => Numeric(x) <= Numeric(y)
    /\ \A x \in Int : Numeric(2 * x) = x
    /\ \A x \in Nat : Numeric(x) \in Nat
  BY DEF Numeric

LEMMA TopOf ==
    ASSUME NEW S \in SUBSET Nat, S # {}, NEW b \in Nat, \A n \in S : n <= b
    PROVE  \E m \in S : \A n \in S : n <= m
  <1> DEFINE Gaps == {b - n : n \in S}
  <1>1. \A n \in S : n \in Nat /\ b - n \in Nat
    OBVIOUS
  <1>2. Gaps \in SUBSET Nat /\ Gaps # {}
    BY <1>1
  <1>3. PICK g \in Gaps : \A h \in Gaps : g <= h
    BY <1>2, LeastNumber
  <1>4. PICK m \in S : g = b - m
    BY <1>3
  <1>5. ASSUME NEW n \in S PROVE n <= m
    <2>1. b - n \in Gaps
      OBVIOUS
    <2> QED
      BY <1>1, <1>3, <1>4, <2>1
  <1> QED
    BY <1>5

\* The latest row is one of the rows, and no row is later.
LEMMA LatestIsLast ==
    ASSUME VaultTypeOK, RowsAreReadings, navs # {}
    PROVE  Latest \in navs /\ \A t \in navs : t.time <= Latest.time
  <1> DEFINE S == {s.time : s \in navs}
  <1>1. navs \subseteq Row0 /\ now \in Nat /\ \A s \in navs : s.time < now
    BY DEF VaultTypeOK, RowsAreReadings
  <1>2. S \in SUBSET Nat /\ S # {} /\ \A n \in S : n <= now
    BY <1>1 DEF Row0
  <1>3. PICK m \in S : \A n \in S : n <= m
    BY <1>1, <1>2, TopOf
  <1>4. \E s \in navs : \A t \in navs : t.time <= s.time
    BY <1>3
  <1> QED
    BY <1>4 DEF Latest

-----------------------------------------------------------------------------
(* Records.                                                                  *)

LEMMA DraftTyped ==
    ASSUME NEW nav \in Int, NEW dep \in Nat, NEW wit \in Nat, NEW hwm \in Nat, NEW time \in Nat
    PROVE  Draft(nav, dep, wit, hwm, time) \in DraftSet
  BY Zenon DEF Draft, DraftSet

LEMMA RowOf ==
    ASSUME NEW d \in DraftSet
    PROVE  /\ Row(d) \in Row0
           /\ Row(d).time = d.time /\ Row(d).nav = Numeric(d.nav) /\ Row(d).hwm = Numeric(d.hwm)
           /\ Row(d).dep = d.dep /\ Row(d).wit = d.wit
  <1>1. d.nav \in Int /\ d.dep \in Nat /\ d.wit \in Nat /\ d.hwm \in Nat /\ d.time \in Nat
    BY DEF DraftSet
  <1>2. Numeric(d.nav) \in Int /\ Numeric(d.hwm) \in Nat
    BY <1>1, Rounding
  <1> QED
    BY <1>1, <1>2, Zenon DEF Row, Row0

LEMMA DraftFields ==
    ASSUME NEW nav, NEW dep, NEW wit, NEW hwm, NEW time
    PROVE  /\ Draft(nav, dep, wit, hwm, time).nav = nav /\ Draft(nav, dep, wit, hwm, time).dep = dep
           /\ Draft(nav, dep, wit, hwm, time).wit = wit /\ Draft(nav, dep, wit, hwm, time).hwm = hwm
           /\ Draft(nav, dep, wit, hwm, time).time = time
  BY Zenon DEF Draft

LEMMA WithMark ==
    ASSUME NEW d \in DraftSet, NEW h \in Nat
    PROVE  LET e == [d EXCEPT !.hwm = h]
           IN  e \in DraftSet /\ e.nav = d.nav /\ e.dep = d.dep /\ e.wit = d.wit /\ e.hwm = h
               /\ e.time = d.time
  BY DEF DraftSet

LEMMA WithMarkAndTime ==
    ASSUME NEW d \in DraftSet, NEW h \in Nat, NEW t \in Nat
    PROVE  LET e == [d EXCEPT !.hwm = h, !.time = t]
           IN  e \in DraftSet /\ e.nav = d.nav /\ e.dep = d.dep /\ e.wit = d.wit /\ e.hwm = h
               /\ e.time = t
  BY DEF DraftSet

LEMMA DraftOf ==
    ASSUME VaultTypeOK, NEW c \in Commands
    PROVE  /\ draft[c] \in DraftSet /\ at[c] \in Places
           /\ draft[c].nav \in Int /\ draft[c].dep \in Nat /\ draft[c].wit \in Nat
           /\ draft[c].hwm \in Nat /\ draft[c].time \in Nat
  <1>1. draft[c] \in DraftSet /\ at[c] \in Places
    BY DEF VaultTypeOK
  <1> QED
    BY <1>1 DEF DraftSet

LEMMA RowFields ==
    ASSUME VaultTypeOK, NEW s \in navs
    PROVE  s.time \in Nat /\ s.nav \in Int /\ s.hwm \in Nat /\ s.dep \in Nat /\ s.wit \in Nat
  BY DEF VaultTypeOK, Row0

LEMMA AmountStored ==
    ASSUME NEW amount \in Amounts, Insertable(amount)
    PROVE  Numeric(amount) \in Nat
  <1>1. amount \in Int /\ amount > 0
    BY VaultAssumption DEF Insertable
  <1> QED
    BY <1>1, Rounding

-----------------------------------------------------------------------------
(* Types.                                                                    *)

LEMMA ReadTotalsTyped ==
    ASSUME VaultTypeOK, NEW c \in Commands, NEW cash \in Values, NEW positions \in Values,
           ReadTotals(c, cash, positions)
    PROVE  VaultTypeOK'
  <1>1. cash + positions \in Int
    BY VaultAssumption
  <1>2. Draft(cash + positions, deposits, withdrawals, 0, 0) \in DraftSet
    BY <1>1, DraftTyped DEF VaultTypeOK
  <1>3. draft' \in [Commands -> DraftSet]
    BY <1>2 DEF VaultTypeOK, ReadTotals
  <1>4. at' \in [Commands -> Places]
    BY DEF VaultTypeOK, ReadTotals, Places
  <1>5. overlapped' \in BOOLEAN
    BY Zenon DEF VaultTypeOK, ReadTotals
  <1> QED
    BY <1>3, <1>4, <1>5 DEF VaultTypeOK, ReadTotals, ledgerVars

LEMMA HeldMark ==
    ASSUME VaultTypeOK, RowsAreReadings
    PROVE  (IF navs = {} THEN 0 ELSE Latest.hwm) \in Nat
  BY LatestIsLast, RowFields

LEMMA ReadMarkTyped ==
    ASSUME VaultTypeOK, RowsAreReadings, NEW c \in Commands, ReadMark(c)
    PROVE  VaultTypeOK'
  <1> DEFINE h == IF navs = {} THEN 0 ELSE Latest.hwm
  <1>1. h \in Nat
    BY HeldMark
  <1>2. [draft[c] EXCEPT !.hwm = h] \in DraftSet
    BY <1>1, DraftOf, WithMark
  <1>3. draft' = [draft EXCEPT ![c] = [draft[c] EXCEPT !.hwm = h]]
    BY DEF ReadMark
  <1> HIDE DEF h
  <1>4. draft' \in [Commands -> DraftSet]
    BY <1>2, <1>3 DEF VaultTypeOK
  <1>5. at' \in [Commands -> Places]
    BY DEF VaultTypeOK, ReadMark, Places
  <1> QED
    BY <1>4, <1>5, Zenon DEF VaultTypeOK, ReadMark, ledgerVars

LEMMA MarkTyped ==
    ASSUME VaultTypeOK, NEW c \in Commands
    PROVE  /\ Mark(2 * draft[c].hwm, draft[c].nav) \in Nat
           /\ Mark(2 * draft[c].hwm, draft[c].nav) >= 2 * draft[c].hwm
           /\ Mark(2 * draft[c].hwm, draft[c].nav) >= draft[c].nav
  BY DraftOf DEF Mark

LEMMA ComputeTyped ==
    ASSUME VaultTypeOK, NEW c \in Commands, ComputeNAV(c)
    PROVE  /\ VaultTypeOK'
           /\ draft' = [draft EXCEPT ![c] = [draft[c] EXCEPT !.hwm = Mark(2 * draft[c].hwm, draft[c].nav),
                                                            !.time = now]]
  <1> DEFINE h == Mark(2 * draft[c].hwm, draft[c].nav)
  <1>1. h \in Nat /\ now \in Nat
    BY MarkTyped DEF VaultTypeOK
  <1>2. [draft[c] EXCEPT !.hwm = h, !.time = now] \in DraftSet
    BY <1>1, DraftOf, WithMarkAndTime
  <1>3. draft' = [draft EXCEPT ![c] = [draft[c] EXCEPT !.hwm = h, !.time = now]]
    BY DEF ComputeNAV, VaultTypeOK
  <1> HIDE DEF h
  <1>4. draft' \in [Commands -> DraftSet]
    BY <1>2, <1>3 DEF VaultTypeOK
  <1>5. at' \in [Commands -> Places]
    BY DEF VaultTypeOK, ComputeNAV, Places
  <1>6. VaultTypeOK'
    BY <1>4, <1>5, Zenon DEF VaultTypeOK, ComputeNAV, ledgerVars
  <1> QED
    BY <1>3, <1>6 DEF h

LEMMA NoDraftTyped == NoDraft \in DraftSet
  BY DraftTyped DEF NoDraft

LEMMA InsertTyped ==
    ASSUME VaultTypeOK, NEW c \in Commands, InsertNAV(c)
    PROVE  VaultTypeOK'
  <1>1. Row(draft[c]) \in Row0
    BY DraftOf, RowOf
  <1>2. navs' \subseteq Row0
    BY <1>1 DEF VaultTypeOK, InsertNAV
  <1>3. draft' \in [Commands -> DraftSet]
    BY NoDraftTyped DEF VaultTypeOK, InsertNAV
  <1>4. at' \in [Commands -> Places]
    BY DEF VaultTypeOK, InsertNAV, Places
  <1>5. now' \in Nat
    BY DEF VaultTypeOK, InsertNAV, Elapse
  <1> QED
    BY <1>2, <1>3, <1>4, <1>5, Zenon DEF VaultTypeOK, InsertNAV, ledgerVars

LEMMA AbortTyped ==
    ASSUME VaultTypeOK, NEW c \in Commands, Abort(c)
    PROVE  VaultTypeOK'
  <1>3. draft' \in [Commands -> DraftSet]
    BY NoDraftTyped DEF VaultTypeOK, Abort
  <1>4. at' \in [Commands -> Places]
    BY DEF VaultTypeOK, Abort, Places
  <1> QED
    BY <1>3, <1>4, Zenon DEF VaultTypeOK, Abort, ledgerVars

\* The ledger only grows, and its commands leave the rest alone.
LEMMA LedgerGrows ==
    ASSUME VaultTypeOK, DepositCmd \/ WithdrawCmd \/ LockupCmd
    PROVE  /\ VaultTypeOK' /\ deposits' >= deposits /\ withdrawals' >= withdrawals
           /\ UNCHANGED <<now, navs, at, draft, overlapped>>
  <1>1. CASE DepositCmd
    <2>1. PICK a \in Amounts : Deposit(a)
      BY <1>1 DEF DepositCmd
    <2>2. Numeric(a) \in Nat
      BY <2>1, AmountStored DEF Deposit, Enter
    <2>3. deposits' \in Nat /\ deposits' >= deposits /\ entries' \in Nat
      BY <2>1, <2>2 DEF Deposit, Enter, VaultTypeOK
    <2>4. UNCHANGED <<now, navs, at, draft, overlapped, withdrawals, lockups>> /\ withdrawals \in Nat
      BY <2>1 DEF Deposit, Enter, VaultTypeOK
    <2>5. VaultTypeOK'
      BY <2>3, <2>4, Zenon DEF VaultTypeOK
    <2> QED
      BY <2>3, <2>4, <2>5
  <1>2. CASE WithdrawCmd
    <2>1. PICK a \in Amounts : Withdraw(a)
      BY <1>2 DEF WithdrawCmd
    <2>2. Numeric(a) \in Nat
      BY <2>1, AmountStored DEF Withdraw, Enter
    <2>3. withdrawals' \in Nat /\ withdrawals' >= withdrawals /\ entries' \in Nat
      BY <2>1, <2>2 DEF Withdraw, Enter, VaultTypeOK
    <2>4. UNCHANGED <<now, navs, at, draft, overlapped, deposits, lockups>> /\ deposits \in Nat
      BY <2>1 DEF Withdraw, Enter, VaultTypeOK
    <2>5. VaultTypeOK'
      BY <2>3, <2>4, Zenon DEF VaultTypeOK
    <2> QED
      BY <2>3, <2>4, <2>5
  <1>3. CASE LockupCmd
    <2>1. PICK a \in Amounts, until \in 0 .. MaxTime : AddLockup(a, until)
      BY <1>3 DEF LockupCmd
    <2>2. Numeric(a) \in Nat /\ until \in Nat /\ entries \in Nat
      BY <2>1, AmountStored DEF AddLockup, Enter, VaultTypeOK
    <2>3. [id |-> entries, amount |-> Numeric(a), until |-> until] \in [id : Nat, amount : Nat, until : Nat]
      BY <2>2, Zenon
    <2>4. lockups' \subseteq [id : Nat, amount : Nat, until : Nat] /\ IsFiniteSet(lockups')
      BY <2>1, <2>3, FS_AddElement, Zenon DEF AddLockup, VaultTypeOK
    <2>5. entries' \in Nat
      BY <2>1 DEF AddLockup, Enter, VaultTypeOK
    <2>6. /\ UNCHANGED <<now, navs, at, draft, overlapped, deposits, withdrawals>>
          /\ deposits \in Nat /\ withdrawals \in Nat
      BY <2>1 DEF AddLockup, Enter, VaultTypeOK
    <2>7. VaultTypeOK'
      BY <2>4, <2>5, <2>6, Zenon DEF VaultTypeOK
    <2> QED
      BY <2>6, <2>7
  <1> QED
    BY <1>1, <1>2, <1>3

-----------------------------------------------------------------------------
(* What a recording does to its draft.                                       *)

\* The other commands keep theirs.
LEMMA OthersKeep ==
    ASSUME VaultTypeOK, NEW c \in Commands, Record(c), NEW d \in Commands, d # c
    PROVE  draft'[d] = draft[d] /\ at'[d] = at[d]
  BY DEF VaultTypeOK, Record, ReadTotals, ReadMark, ComputeNAV, InsertNAV, Abort

LEMMA TotalsRead ==
    ASSUME VaultTypeOK, NEW c \in Commands, NEW cash, NEW positions, ReadTotals(c, cash, positions)
    PROVE  /\ at[c] = "idle" /\ at'[c] = "totals"
           /\ draft'[c].dep = deposits /\ draft'[c].wit = withdrawals /\ draft'[c].time = 0
  <1>1. draft'[c] = Draft(cash + positions, deposits, withdrawals, 0, 0)
    BY DEF VaultTypeOK, ReadTotals
  <1>2. at[c] = "idle" /\ at'[c] = "totals"
    BY DEF VaultTypeOK, ReadTotals
  <1> QED
    BY <1>1, <1>2, DraftFields

LEMMA MarkRead ==
    ASSUME VaultTypeOK, RowsAreReadings, NEW c \in Commands, ReadMark(c)
    PROVE  /\ at[c] = "totals" /\ at'[c] = "mark"
           /\ draft'[c].dep = draft[c].dep /\ draft'[c].wit = draft[c].wit /\ draft'[c].time = draft[c].time
           /\ draft'[c].hwm = IF navs = {} THEN 0 ELSE Latest.hwm
  <1> DEFINE h == IF navs = {} THEN 0 ELSE Latest.hwm
  <1>1. h \in Nat
    BY HeldMark
  <1>2. draft' = [draft EXCEPT ![c] = [draft[c] EXCEPT !.hwm = h]]
    BY DEF ReadMark
  <1>3. draft'[c] = [draft[c] EXCEPT !.hwm = h]
    BY <1>2 DEF VaultTypeOK
  <1>4. at[c] = "totals" /\ at'[c] = "mark"
    BY DEF VaultTypeOK, ReadMark
  <1> HIDE DEF h
  <1>5. /\ draft'[c].dep = draft[c].dep /\ draft'[c].wit = draft[c].wit /\ draft'[c].time = draft[c].time
        /\ draft'[c].hwm = h
    BY <1>1, <1>3, DraftOf, WithMark
  <1> QED
    BY <1>4, <1>5 DEF h

LEMMA NAVComputed ==
    ASSUME VaultTypeOK, NEW c \in Commands, ComputeNAV(c)
    PROVE  /\ at[c] = "mark" /\ at'[c] = "computed"
           /\ draft'[c].dep = draft[c].dep /\ draft'[c].wit = draft[c].wit /\ draft'[c].time = now
           /\ draft'[c].nav = draft[c].nav /\ draft'[c].nav <= draft'[c].hwm
           /\ 2 * draft[c].hwm <= draft'[c].hwm
           /\ draft'[c].hwm = Mark(2 * draft[c].hwm, draft[c].nav)
  <1> DEFINE h == Mark(2 * draft[c].hwm, draft[c].nav)
  <1>1. h \in Nat /\ now \in Nat /\ h >= 2 * draft[c].hwm /\ h >= draft[c].nav
    BY MarkTyped DEF VaultTypeOK
  <1>2. draft'[c] = [draft[c] EXCEPT !.hwm = h, !.time = now]
    BY ComputeTyped DEF VaultTypeOK
  <1>3. at[c] = "mark" /\ at'[c] = "computed"
    BY DEF VaultTypeOK, ComputeNAV
  <1> HIDE DEF h
  <1>4. draft[c] \in DraftSet
    BY DraftOf
  <1>5. /\ draft'[c].dep = draft[c].dep /\ draft'[c].wit = draft[c].wit /\ draft'[c].time = now
        /\ draft'[c].nav = draft[c].nav /\ draft'[c].hwm = h
    <2> DEFINE e == [draft[c] EXCEPT !.hwm = h, !.time = now]
    <2>1. e.dep = draft[c].dep /\ e.wit = draft[c].wit /\ e.time = now /\ e.nav = draft[c].nav /\ e.hwm = h
      BY <1>1, <1>4 DEF DraftSet
    <2>2. draft'[c] = e
      BY <1>2
    <2> QED
      BY <2>1, <2>2, Zenon
  <1> QED
    BY <1>1, <1>3, <1>5, DraftOf DEF h

\* A recording that ends leaves an empty draft.
LEMMA DraftDropped ==
    ASSUME VaultTypeOK, NEW c \in Commands, InsertNAV(c) \/ Abort(c)
    PROVE  /\ at'[c] = "idle" /\ at[c] # "idle"
           /\ draft'[c].dep = 0 /\ draft'[c].wit = 0 /\ draft'[c].time = 0
  <1>1. draft'[c] = Draft(0, 0, 0, 0, 0)
    BY DEF VaultTypeOK, InsertNAV, Abort, NoDraft
  <1>2. at'[c] = "idle" /\ at[c] # "idle"
    BY DEF VaultTypeOK, InsertNAV, Abort
  <1> QED
    BY <1>1, <1>2, DraftFields

\* A row is inserted only by InsertNAV, which then takes a step of the clock, and
\* the row is the draft's.
LEMMA RowInserted ==
    ASSUME VaultTypeOK, NEW c \in Commands, InsertNAV(c), NEW s \in navs'
    PROVE  /\ now' = now + 1 /\ at[c] = "computed"
           /\ s \in navs \/ /\ s = Row(draft[c])
                            /\ s.time = draft[c].time /\ s.nav = Numeric(draft[c].nav)
                            /\ s.hwm = Numeric(draft[c].hwm)
                            /\ s.dep = draft[c].dep /\ s.wit = draft[c].wit
                            /\ \A t \in navs : t.time # s.time
  <1>1. now' = now + 1 /\ at[c] = "computed"
    BY DEF InsertNAV, Elapse
  <1>2. CASE s \in navs
    BY <1>1, <1>2
  <1>3. CASE s \notin navs
    <2>1. s = Row(draft[c]) /\ \A t \in navs : t.time # draft[c].time
      BY <1>3, Zenon DEF InsertNAV
    <2> QED
      BY <1>1, <2>1, DraftOf, RowOf
  <1> QED
    BY <1>2, <1>3

-----------------------------------------------------------------------------
(* Rows and drafts are readings.                                             *)

LEMMA DraftsStayReadings ==
    ASSUME VaultTypeOK, RowsAreReadings, NEW c \in Commands, Record(c), NEW d \in Commands
    PROVE  /\ draft'[d].dep <= deposits' /\ draft'[d].wit <= withdrawals' /\ draft'[d].time <= now'
           /\ at'[d] = "computed" => draft'[d].nav <= draft'[d].hwm
  <1>1. deposits' = deposits /\ withdrawals' = withdrawals /\ now' \in Nat /\ now <= now'
    BY DEF VaultTypeOK, Record, ReadTotals, ReadMark, ComputeNAV, InsertNAV, Abort, Elapse, ledgerVars
  <1>2. /\ draft[d].dep <= deposits /\ draft[d].wit <= withdrawals /\ draft[d].time <= now
        /\ at[d] = "computed" => draft[d].nav <= draft[d].hwm
    BY DEF RowsAreReadings
  <1>3. deposits \in Nat /\ withdrawals \in Nat /\ now \in Nat /\ draft[d].time \in Nat
    BY DraftOf DEF VaultTypeOK
  <1>4. CASE d # c
    BY <1>1, <1>2, <1>3, <1>4, OthersKeep
  <1>5. CASE d = c
    <2>1. CASE \E cash, positions \in Values : ReadTotals(c, cash, positions)
      BY <1>1, <1>3, <1>5, <2>1, TotalsRead
    <2>2. CASE ReadMark(c)
      BY <1>1, <1>2, <1>3, <1>5, <2>2, MarkRead
    <2>3. CASE ComputeNAV(c)
      BY <1>1, <1>2, <1>3, <1>5, <2>3, NAVComputed
    <2>4. CASE InsertNAV(c) \/ Abort(c)
      BY <1>1, <1>3, <1>5, <2>4, DraftDropped
    <2> QED
      BY <2>1, <2>2, <2>3, <2>4 DEF Record
  <1> QED
    BY <1>4, <1>5

LEMMA RowsStayReadings ==
    ASSUME VaultTypeOK, RowsAreReadings, NEW c \in Commands, InsertNAV(c), NEW s \in navs'
    PROVE  /\ s.time < now' /\ s.dep <= deposits' /\ s.wit <= withdrawals' /\ s.nav <= s.hwm
           /\ \A t \in navs' : s.time = t.time => s = t
  <1>1. deposits' = deposits /\ withdrawals' = withdrawals /\ now \in Nat
    BY DEF VaultTypeOK, InsertNAV, ledgerVars
  <1>2. now' = now + 1 /\ at[c] = "computed"
    BY RowInserted
  <1>3. CASE s \in navs
    BY <1>1, <1>2, <1>3, RowInserted, RowFields DEF RowsAreReadings
  <1>4. CASE s \notin navs
    <2>1. /\ s.time = draft[c].time /\ s.nav = Numeric(draft[c].nav) /\ s.hwm = Numeric(draft[c].hwm)
          /\ s.dep = draft[c].dep /\ s.wit = draft[c].wit /\ \A t \in navs : t.time # s.time
      BY <1>4, RowInserted
    <2>2. /\ draft[c].dep <= deposits /\ draft[c].wit <= withdrawals /\ draft[c].time <= now
          /\ draft[c].nav <= draft[c].hwm
      BY <1>2 DEF RowsAreReadings
    <2>3. s.nav <= s.hwm
      BY <2>1, <2>2, Rounding, DraftOf
    <2>4. s.time < now'
      BY <1>1, <1>2, <2>1, <2>2, DraftOf
    <2>5. \A t \in navs' : s.time = t.time => s = t
      <3>1. SUFFICES ASSUME NEW t \in navs', s.time = t.time
                     PROVE  s = t
        OBVIOUS
      <3>2. t \notin navs
        BY <2>1, <3>1
      <3> QED
        BY <1>4, <3>2, RowInserted
    <2> QED
      BY <1>1, <2>1, <2>2, <2>3, <2>4, <2>5
  <1> QED
    BY <1>3, <1>4

LEMMA ReadingsKept ==
    ASSUME VaultTypeOK, RowsAreReadings, [VaultNext]_vaultVars
    PROVE  VaultTypeOK' /\ RowsAreReadings'
  <1>1. CASE DepositCmd \/ WithdrawCmd \/ LockupCmd
    <2>1. /\ VaultTypeOK' /\ deposits' >= deposits /\ withdrawals' >= withdrawals
          /\ UNCHANGED <<now, navs, at, draft, overlapped>>
      BY <1>1, LedgerGrows
    <2>2. deposits \in Nat /\ withdrawals \in Nat /\ deposits' \in Nat /\ withdrawals' \in Nat
      BY <2>1 DEF VaultTypeOK
    <2>3. \A c \in Commands : draft[c].dep \in Nat /\ draft[c].wit \in Nat
      BY DraftOf
    <2>4. \A s \in navs : s.dep \in Nat /\ s.wit \in Nat
      BY RowFields
    <2>5. RowsAreReadings'
      BY <2>1, <2>2, <2>3, <2>4 DEF RowsAreReadings
    <2> QED
      BY <2>1, <2>5
  <1>2. CASE \E c \in Commands : Record(c)
    <2>1. PICK c \in Commands : Record(c)
      BY <1>2
    <2>2. VaultTypeOK'
      BY <2>1, ReadTotalsTyped, ReadMarkTyped, ComputeTyped, InsertTyped, AbortTyped DEF Record
    <2>3. \A d \in Commands :
            /\ draft'[d].dep <= deposits' /\ draft'[d].wit <= withdrawals' /\ draft'[d].time <= now'
            /\ at'[d] = "computed" => draft'[d].nav <= draft'[d].hwm
      BY <2>1, DraftsStayReadings
    <2>4. \A s \in navs' : /\ s.time < now' /\ s.dep <= deposits' /\ s.wit <= withdrawals'
                           /\ s.nav <= s.hwm /\ \A t \in navs' : s.time = t.time => s = t
      <3>1. CASE InsertNAV(c)
        BY <3>1, RowsStayReadings
      <3>2. CASE ~InsertNAV(c)
        <4>1. UNCHANGED <<now, navs, deposits, withdrawals>>
          BY <2>1, <3>2 DEF Record, ReadTotals, ReadMark, ComputeNAV, Abort, ledgerVars
        <4> QED
          BY <4>1 DEF RowsAreReadings
      <3> QED
        BY <3>1, <3>2
    <2> QED
      BY <2>2, <2>3, <2>4 DEF RowsAreReadings
  <1>3. CASE Elapse /\ UNCHANGED <<ledgerVars, navs, at, draft, overlapped>>
    <2>1. now' = now + 1 /\ now \in Nat /\ UNCHANGED <<ledgerVars, navs, at, draft, overlapped>>
      BY <1>3 DEF Elapse, VaultTypeOK
    <2>2. VaultTypeOK'
      BY <2>1 DEF VaultTypeOK, ledgerVars
    <2>3. \A c \in Commands : draft[c].time \in Nat
      BY DraftOf
    <2>4. \A s \in navs : s.time \in Nat
      BY RowFields
    <2>5. RowsAreReadings'
      BY <2>1, <2>3, <2>4 DEF RowsAreReadings, ledgerVars
    <2> QED
      BY <2>2, <2>5
  <1>4. CASE UNCHANGED vaultVars
    BY <1>4, Zenon DEF VaultTypeOK, RowsAreReadings, vaultVars, ledgerVars
  <1> QED
    BY <1>1, <1>2, <1>3, <1>4 DEF VaultNext

-----------------------------------------------------------------------------
(* A recording that is alone is ahead of every row.                          *)

\* What AloneAndAhead says of one recording and one row.
AheadOf(d, place, s) ==
    /\ s.dep <= d.dep /\ s.wit <= d.wit
    /\ place = "mark" => s.hwm <= d.hwm
    /\ place = "computed" => s.hwm <= Numeric(d.hwm) /\ s.time < d.time

LEMMA LatestIsHighest ==
    ASSUME VaultTypeOK, RowsAreReadings, SerialHistory, ~overlapped, NEW s \in navs
    PROVE  s.hwm <= Latest.hwm
  <1>1. Latest \in navs /\ s.time <= Latest.time
    BY LatestIsLast
  <1>2. s.time \in Nat /\ Latest.time \in Nat /\ s.hwm \in Nat
    BY <1>1, RowFields
  <1>3. CASE s.time = Latest.time
    <2>1. s = Latest
      BY <1>1, <1>3 DEF RowsAreReadings
    <2> QED
      BY <1>2, <2>1
  <1>4. CASE s.time < Latest.time
    BY <1>1, <1>4 DEF SerialHistory
  <1> QED
    BY <1>1, <1>2, <1>3, <1>4

LEMMA StaysAhead ==
    ASSUME VaultTypeOK, RowsAreReadings, SerialHistory, AloneAndAhead, ~overlapped,
           NEW c \in Commands, Record(c), ~InsertNAV(c), at'[c] # "idle", NEW s \in navs
    PROVE  AheadOf(draft'[c], at'[c], s)
  <1>1. s.dep <= deposits /\ s.wit <= withdrawals /\ s.time < now
    BY DEF RowsAreReadings
  <1>2. at[c] # "idle" => /\ s.dep <= draft[c].dep /\ s.wit <= draft[c].wit
                          /\ at[c] = "mark" => s.hwm <= draft[c].hwm
    BY DEF AloneAndAhead, Recording
  <1>3. s.time \in Nat /\ s.hwm \in Nat /\ draft[c].hwm \in Nat
    BY RowFields, DraftOf
  <1>4. CASE \E cash, positions \in Values : ReadTotals(c, cash, positions)
    BY <1>1, <1>4, TotalsRead DEF AheadOf
  <1>5. CASE ReadMark(c)
    <2>1. s.hwm <= Latest.hwm /\ navs # {}
      BY LatestIsHighest
    <2> QED
      BY <1>2, <1>5, <2>1, MarkRead DEF AheadOf
  <1>6. CASE ComputeNAV(c)
    <2>1. /\ at[c] = "mark" /\ at'[c] = "computed" /\ draft'[c].time = now
          /\ draft'[c].dep = draft[c].dep /\ draft'[c].wit = draft[c].wit
          /\ 2 * draft[c].hwm <= draft'[c].hwm
      BY <1>6, NAVComputed
    <2>2. draft'[c].hwm \in Int
      <3>1. VaultTypeOK'
        BY <1>6, ComputeTyped
      <3> QED
        BY <3>1 DEF VaultTypeOK, DraftSet
    <2>3. 2 * s.hwm <= draft'[c].hwm /\ 2 * s.hwm \in Int
      BY <1>2, <1>3, <2>1, <2>2
    <2>4. s.hwm <= Numeric(draft'[c].hwm)
      <3> DEFINE h == draft'[c].hwm
      <3>1. s.hwm \in Int /\ h \in Int /\ 2 * s.hwm <= h
        BY <1>3, <2>2, <2>3
      <3> HIDE DEF h
      <3>2. Numeric(2 * s.hwm) = s.hwm /\ Numeric(2 * s.hwm) <= Numeric(h)
        BY <2>3, <3>1, Rounding
      <3> QED
        BY <3>2 DEF h
    <2> QED
      BY <1>1, <1>2, <2>1, <2>4 DEF AheadOf
  <1>7. CASE Abort(c)
    BY <1>7, DraftDropped
  <1> QED
    BY <1>4, <1>5, <1>6, <1>7 DEF Record

\* A recording that starts while another is under way makes the history say so.
LEMMA StaysAlone ==
    ASSUME VaultTypeOK, AloneAndAhead, NEW c \in Commands, Record(c), ~overlapped'
    PROVE  ~overlapped /\ \A d \in Recording' : d = c
  <1>1. ~overlapped
    BY Zenon DEF Record, ReadTotals, ReadMark, ComputeNAV, InsertNAV, Abort
  <1>2. SUFFICES ASSUME NEW d \in Commands, at'[d] # "idle", d # c
                 PROVE  FALSE
    BY <1>1 DEF Recording
  <1>3. d \in Recording
    BY <1>2, OthersKeep DEF Recording
  <1>4. CASE at[c] = "idle"
    <2>1. PICK cash, positions \in Values : ReadTotals(c, cash, positions)
      BY <1>4, Zenon DEF Record, ReadMark, ComputeNAV, InsertNAV, Abort
    <2> QED
      BY <1>3, <2>1, Zenon DEF ReadTotals
  <1>5. CASE at[c] # "idle"
    BY <1>1, <1>2, <1>3, <1>5 DEF AloneAndAhead, Recording
  <1> QED
    BY <1>4, <1>5

LEMMA AheadKept ==
    ASSUME VaultTypeOK, RowsAreReadings, SerialHistory, AloneAndAhead, [VaultNext]_vaultVars
    PROVE  AloneAndAhead'
  <1> SUFFICES ASSUME ~overlapped'
               PROVE  /\ \A c, d \in Recording' : c = d
                      /\ \A c \in Recording' : \A s \in navs' : AheadOf(draft'[c], at'[c], s)
    BY DEF AloneAndAhead, AheadOf
  <1>1. CASE UNCHANGED <<navs, at, draft, overlapped>>
    <2>1. ~overlapped /\ Recording' = Recording
      BY <1>1, Zenon DEF Recording
    <2> QED
      BY <1>1, <2>1 DEF AloneAndAhead, AheadOf
  <1>2. CASE \E c \in Commands : Record(c)
    <2>1. PICK c \in Commands : Record(c)
      BY <1>2
    <2>2. ~overlapped /\ \A d \in Recording' : d = c
      BY <2>1, StaysAlone
    <2>3. ASSUME NEW s \in navs', at'[c] # "idle"
          PROVE  AheadOf(draft'[c], at'[c], s)
      <3>1. ~InsertNAV(c)
        BY <2>1, <2>3, DraftDropped
      <3>2. navs' = navs
        BY <2>1, <3>1 DEF Record, ReadTotals, ReadMark, ComputeNAV, Abort
      <3> QED
        BY <2>1, <2>2, <2>3, <3>1, <3>2, StaysAhead
    <2> QED
      BY <2>2, <2>3 DEF Recording
  <1>3. CASE DepositCmd \/ WithdrawCmd \/ LockupCmd
    BY <1>1, <1>3, LedgerGrows
  <1>4. CASE UNCHANGED vaultVars
    BY <1>1, <1>4 DEF vaultVars
  <1> QED
    BY <1>1, <1>2, <1>3, <1>4 DEF VaultNext

-----------------------------------------------------------------------------
(* The history stays in order.                                               *)

LEMMA OrderKept ==
    ASSUME VaultTypeOK, RowsAreReadings, SerialHistory, AloneAndAhead, [VaultNext]_vaultVars
    PROVE  SerialHistory'
  <1> SUFFICES ASSUME ~overlapped', NEW s \in navs', NEW t \in navs', s.time < t.time
               PROVE  s.dep <= t.dep /\ s.wit <= t.wit /\ s.hwm <= t.hwm
    BY DEF SerialHistory
  <1>1. CASE UNCHANGED <<navs, overlapped>>
    <2>1. ~overlapped
      BY <1>1
    <2> QED
      BY <1>1, <2>1 DEF SerialHistory
  <1>2. ASSUME NEW c \in Commands, InsertNAV(c)
        PROVE  s.dep <= t.dep /\ s.wit <= t.wit /\ s.hwm <= t.hwm
    <2>1. ~overlapped
      BY <1>2 DEF InsertNAV
    <2>2. at[c] = "computed" /\ c \in Recording
      BY <1>2, RowInserted DEF Recording
    <2>3. \A u \in navs : u.dep <= draft[c].dep /\ u.wit <= draft[c].wit
                          /\ u.hwm <= Numeric(draft[c].hwm) /\ u.time < draft[c].time
      BY <2>1, <2>2 DEF AloneAndAhead
    <2>4. CASE s \in navs /\ t \in navs
      BY <2>1, <2>4 DEF SerialHistory
    <2>5. CASE s \in navs /\ t \notin navs
      <3>1. t.hwm = Numeric(draft[c].hwm) /\ t.dep = draft[c].dep /\ t.wit = draft[c].wit
        BY <1>2, <2>5, RowInserted
      <3> QED
        BY <2>3, <2>5, <3>1
    <2>6. CASE s \notin navs
      <3>1. s = Row(draft[c]) /\ s.time = draft[c].time
        BY <1>2, <2>6, RowInserted
      <3>2. CASE t \in navs
        BY <2>3, <3>1, <3>2, DraftOf, RowFields
      <3>3. CASE t \notin navs
        <4>1. t.time = draft[c].time
          BY <1>2, <3>3, RowInserted
        <4> QED
          BY <3>1, <4>1, DraftOf
      <3> QED
        BY <3>2, <3>3
    <2> QED
      BY <2>4, <2>5, <2>6
  <1>3. ASSUME NEW c \in Commands, Record(c), ~InsertNAV(c)
        PROVE  s.dep <= t.dep /\ s.wit <= t.wit /\ s.hwm <= t.hwm
    <2>1. navs' = navs
      BY <1>3 DEF Record, ReadTotals, ReadMark, ComputeNAV, Abort
    <2>2. ~overlapped
      BY <1>3, StaysAlone
    <2> QED
      BY <2>1, <2>2 DEF SerialHistory
  <1>4. CASE DepositCmd \/ WithdrawCmd \/ LockupCmd
    BY <1>1, <1>4, LedgerGrows
  <1> QED
    BY <1>1, <1>2, <1>3, <1>4 DEF VaultNext, vaultVars

-----------------------------------------------------------------------------
(* Marks are NAVs that were recorded.                                        *)

LEMMA DraftsStayReached ==
    ASSUME VaultTypeOK, RowsAreReadings, MarksWereReached, NEW c \in Commands, Record(c),
           Marks \subseteq Marks', NEW d \in Commands
    PROVE  /\ at'[d] = "mark" => draft'[d].hwm \in Marks'
           /\ at'[d] = "computed" => Numeric(draft'[d].hwm) \in Marks' \/ draft'[d].hwm = draft'[d].nav
  <1>1. CASE d # c
    BY <1>1, OthersKeep DEF MarksWereReached
  <1>2. CASE d = c
    <2>1. CASE \E cash, positions \in Values : ReadTotals(c, cash, positions)
      BY <1>2, <2>1, TotalsRead
    <2>2. CASE ReadMark(c)
      <3>1. at'[c] = "mark" /\ draft'[c].hwm = IF navs = {} THEN 0 ELSE Latest.hwm
        BY <2>2, MarkRead
      <3>2. navs # {} => Latest \in navs
        BY LatestIsLast
      <3>3. 0 \in Marks
        BY DEF Marks
      <3>4. draft'[c].hwm \in Marks
        BY <3>1, <3>2, <3>3 DEF MarksWereReached
      <3> QED
        BY <1>2, <3>1, <3>4
    <2>3. CASE ComputeNAV(c)
      <3>1. /\ at[c] = "mark" /\ at'[c] = "computed" /\ draft'[c].nav = draft[c].nav
            /\ draft'[c].hwm = Mark(2 * draft[c].hwm, draft[c].nav)
        BY <2>3, NAVComputed
      <3>2. draft[c].hwm \in Nat /\ draft[c].hwm \in Marks
        BY <3>1, DraftOf DEF MarksWereReached
      <3>3. draft'[c].hwm = draft[c].nav \/ draft'[c].hwm = 2 * draft[c].hwm
        BY <3>1 DEF Mark
      <3>4. Numeric(2 * draft[c].hwm) = draft[c].hwm
        BY <3>2, Rounding
      <3> QED
        BY <1>2, <3>1, <3>2, <3>3, <3>4
    <2>4. CASE InsertNAV(c) \/ Abort(c)
      BY <1>2, <2>4, DraftDropped
    <2> QED
      BY <2>1, <2>2, <2>3, <2>4 DEF Record
  <1> QED
    BY <1>1, <1>2

LEMMA MarksKept ==
    ASSUME VaultTypeOK, RowsAreReadings, MarksWereReached, [VaultNext]_vaultVars
    PROVE  MarksWereReached'
  <1>1. CASE UNCHANGED <<navs, at, draft>>
    BY <1>1 DEF MarksWereReached, Marks
  <1>2. CASE \E c \in Commands : Record(c)
    <2>1. PICK c \in Commands : Record(c)
      BY <1>2
    <2>2. navs \subseteq navs'
      BY <2>1 DEF Record, ReadTotals, ReadMark, ComputeNAV, InsertNAV, Abort
    <2>3. Marks \subseteq Marks'
      BY <2>2 DEF Marks
    <2>4. ASSUME NEW s \in navs' PROVE s.hwm \in Marks'
      <3>1. CASE s \in navs
        BY <2>3, <3>1 DEF MarksWereReached
      <3>2. CASE s \notin navs
        <4>1. InsertNAV(c)
          BY <2>1, <3>2 DEF Record, ReadTotals, ReadMark, ComputeNAV, Abort
        <4>2. at[c] = "computed" /\ s.hwm = Numeric(draft[c].hwm) /\ s.nav = Numeric(draft[c].nav)
          BY <3>2, <4>1, RowInserted
        <4>3. s.nav \in Marks'
          BY <2>4 DEF Marks
        <4> QED
          BY <2>3, <4>2, <4>3 DEF MarksWereReached
      <3> QED
        BY <3>1, <3>2
    <2> QED
      BY <2>1, <2>3, <2>4, DraftsStayReached DEF MarksWereReached
  <1>3. CASE DepositCmd \/ WithdrawCmd \/ LockupCmd
    BY <1>1, <1>3, LedgerGrows
  <1> QED
    BY <1>1, <1>2, <1>3 DEF VaultNext, vaultVars

-----------------------------------------------------------------------------
(* Theorems.                                                                 *)

\* The inductive invariant.
HistoryInv == VaultTypeOK /\ RowsAreReadings /\ AloneAndAhead /\ SerialHistory /\ MarksWereReached

LEMMA HistoryHolds == VaultSpec => []HistoryInv
  <1>1. VaultInit => HistoryInv
    <2>1. SUFFICES ASSUME VaultInit PROVE HistoryInv
      OBVIOUS
    <2>2. /\ draft \in [Commands -> DraftSet] /\ at \in [Commands -> Places]
          /\ \A c \in Commands : draft[c] = Draft(0, 0, 0, 0, 0)
      BY <2>1, NoDraftTyped DEF VaultInit, Places, NoDraft
    <2>3. VaultTypeOK
      BY <2>1, <2>2, FS_EmptySet, Zenon, 0 \in Nat DEF VaultInit, VaultTypeOK
    <2>4. \A c \in Commands : draft[c].dep = 0 /\ draft[c].wit = 0 /\ draft[c].time = 0 /\ at[c] = "idle"
      BY <2>1, <2>2, DraftFields DEF VaultInit
    <2>5. RowsAreReadings
      BY <2>1, <2>4 DEF VaultInit, RowsAreReadings
    <2>6. AloneAndAhead /\ SerialHistory
      BY <2>1, <2>4 DEF VaultInit, AloneAndAhead, SerialHistory, Recording
    <2>7. MarksWereReached
      BY <2>1, <2>4 DEF VaultInit, MarksWereReached
    <2> QED
      BY <2>3, <2>5, <2>6, <2>7 DEF HistoryInv
  <1>2. HistoryInv /\ [VaultNext]_vaultVars => HistoryInv'
    BY ReadingsKept, AheadKept, OrderKept, MarksKept DEF HistoryInv
  <1> QED
    BY <1>1, <1>2, PTL DEF VaultSpec

\* Every variable keeps its type, whatever commands run and overlap.
THEOREM TypeCorrect == VaultSpec => []VaultTypeOK
  <1>1. HistoryInv => VaultTypeOK
    BY DEF HistoryInv
  <1> QED
    BY <1>1, HistoryHolds, PTL

\* RecordNAV in four statements, and no lock: as long as recordings do not
\* overlap, each row has seen every deposit, withdrawal and mark of the rows
\* before it, whatever the ledger does between the statements.
THEOREM HistoryCorrect == VaultSpec => []SerialHistory
  <1>1. HistoryInv => SerialHistory
    BY DEF HistoryInv
  <1> QED
    BY <1>1, HistoryHolds, PTL

LEMMA LatestIsPeak == HistoryInv => MarkIsPeak
  <1> SUFFICES ASSUME HistoryInv, ~overlapped, navs # {}
               PROVE  /\ \A s \in navs : s.nav <= Latest.hwm
                      /\ Latest.hwm \in Marks
    BY DEF MarkIsPeak
  <1>1. VaultTypeOK /\ RowsAreReadings /\ SerialHistory /\ MarksWereReached
    BY DEF HistoryInv
  <1>2. Latest \in navs
    BY <1>1, LatestIsLast
  <1>3. ASSUME NEW s \in navs PROVE s.nav <= Latest.hwm
    <2>1. s.hwm <= Latest.hwm /\ s.nav <= s.hwm
      BY <1>1, LatestIsHighest DEF RowsAreReadings
    <2>2. s.nav \in Int /\ s.hwm \in Nat /\ Latest.hwm \in Nat
      BY <1>1, <1>2, RowFields
    <2> QED
      BY <2>1, <2>2
  <1> QED
    BY <1>1, <1>2, <1>3 DEF MarksWereReached

\* The mark that RecordNAV carries from row to row is the greatest NAV ever
\* recorded, for every history of recordings that do not overlap, whatever was
\* cut short or fell between their statements.
THEOREM MarkCorrect == VaultSpec => []MarkIsPeak
  BY HistoryHolds, LatestIsPeak, PTL

-----------------------------------------------------------------------------
(* Allocation.                                                               *)

\* A quotient, rounded down.
LEMMA Quotient ==
    ASSUME NEW x \in Int, NEW d \in Nat, d > 0
    PROVE  x \div d \in Int /\ (x \div d) * d <= x /\ x < (x \div d) * d + d
  OBVIOUS

\* Rounded half away from zero: half a unit off at most.
LEMMA RoundedShare ==
    ASSUME NEW b \in Nat, NEW t \in Nat, t > 0
    PROVE  /\ DivRound(b, t) \in Int
           /\ (2 * t) * DivRound(b, t) <= 2 * b + t
           /\ 2 * b - t <= (2 * t) * DivRound(b, t)
           /\ b = 0 => DivRound(b, t) = 0
  <1> DEFINE q == (2 * b + t) \div (2 * t)
  <1>1. q \in Int /\ q * (2 * t) <= 2 * b + t /\ 2 * b + t < q * (2 * t) + 2 * t
    BY Quotient
  <1>2. DivRound(b, t) = q
    BY DEF DivRound
  <1> HIDE DEF q
  <1>3. q * (2 * t) = (2 * t) * q /\ (2 * t) * q \in Int
    BY <1>1
  <1>4. ASSUME b = 0 PROVE q = 0
    <2>1. q * (2 * t) <= t /\ t < q * (2 * t) + 2 * t /\ q * (2 * t) \in Int
      BY <1>1, <1>4
    <2>2. q >= 1 => q * (2 * t) >= 2 * t
      BY <1>1
    <2>3. q <= -1 => q * (2 * t) <= -(2 * t)
      BY <1>1
    <2>4. ~(q >= 1) /\ ~(q <= -1)
      BY <2>1, <2>2, <2>3
    <2> QED
      BY <1>1, <2>4
  <1> QED
    BY <1>1, <1>2, <1>3, <1>4

LEMMA PositiveFactor ==
    ASSUME NEW t \in Nat, t > 0, NEW x \in Int, NEW y \in Int, t * x <= t * y
    PROVE  x <= y
  <1> SUFFICES ASSUME x >= y + 1 PROVE FALSE
    OBVIOUS
  <1>1. t * x >= t * (y + 1) /\ t * (y + 1) = t * y + t
    OBVIOUS
  <1> QED
    BY <1>1

\* What is listed as locked is what AvailableCapital takes off.
LEMMA FreeCapital ==
    ASSUME VaultTypeOK, NEW cash \in Int
    PROVE  LET listed == Amount(ActiveLockups(now))
           IN  /\ AvailableCapital(cash, now) = IF listed > cash THEN 0 ELSE cash - listed
               /\ AvailableCapital(cash, now) \in Nat
  <1> DEFINE L == ActiveLockups(now)
  <1>1. L = {l \in lockups : IsActive(l, now)}
    BY DEF ActiveLockups, IsActive, VaultTypeOK
  <1>2. IsFiniteSet(L)
    <2>1. L \in SUBSET lockups
      BY DEF ActiveLockups
    <2> QED
      BY <2>1, FS_Subset DEF VaultTypeOK
  <1>3. Amount(L) = SumFunctionOnSet([l \in L |-> l.amount], L)
    BY DEF Amount, SumFunction
  <1>4. \A l \in L : [k \in L |-> k.amount][l] \in Nat
    BY DEF ActiveLockups, VaultTypeOK
  <1> HIDE DEF L
  <1>5. Amount(L) \in Nat
    BY <1>2, <1>3, <1>4, SumOfNaturals
  <1>6. Locked(now) = Amount(L)
    BY <1>1 DEF Locked
  <1> QED
    BY <1>5, <1>6 DEF AvailableCapital, L

LEMMA SharesConserve ==
    ASSUME NEW free \in Nat, NEW w \in [Funded -> Weights]
    PROVE  LET given == SumFunction(Allocate(free, w))
               shares == Cardinality({a \in Funded : w[a] # 0})
           IN  /\ 2 * (given - free) <= shares
               /\ shares # 0 => 2 * (free - given) <= shares
  <1> DEFINE total == SumFunctionOnSet(w, Funded)
             Holders0 == {a \in Funded : w[a] # 0}
             shares == Cardinality(Holders0)
             part == Allocate(free, w)
             given == SumFunctionOnSet(part, Funded)
             one == [a \in Funded |-> IF a \in Holders0 THEN 1 ELSE 0]
  <1>1. IsFiniteSet(Funded) /\ \A a \in Funded : w[a] \in Nat
    BY VaultAssumption
  <1>2. SumFunction(w) = total /\ SumFunction(part) = given
    BY DEF SumFunction, Allocate
  <1>3. total \in Nat /\ shares \in Nat
    BY <1>1, SumOfNaturals, FS_Subset, FS_CardinalityType
  <1>4. \A a \in Funded : part[a] = IF total = 0 \/ free = 0 THEN 0 ELSE DivRound(free * w[a], total)
    BY <1>2 DEF Allocate
  <1>5. SumFunctionOnSet(one, Funded) = shares
    <2>1. Holders0 \in SUBSET Funded /\ \A a \in Funded : one[a] = IF a \in Holders0 THEN 1 ELSE 0
      OBVIOUS
    <2> HIDE DEF Holders0, one
    <2> QED
      BY <1>1, <2>1, SumCounts
  <1>6. \A a \in Funded : one[a] = (IF w[a] # 0 THEN 1 ELSE 0)
    OBVIOUS
  <1>7. shares # 0 => total # 0
    <2>1. SUFFICES ASSUME shares # 0 PROVE total # 0
      OBVIOUS
    <2>2. PICK a \in Holders0 : TRUE
      BY <2>1, FS_EmptySet
    <2>3. w[a] <= total /\ w[a] \in Nat /\ w[a] # 0
      BY <1>1, <2>2, SumAboveEach
    <2> QED
      BY <1>3, <2>3
  <1> HIDE DEF total, Holders0, shares, part, given, one
  <1>8. CASE total = 0 \/ free = 0
    <2>1. given = 0
      BY <1>1, <1>4, <1>8, SumOfZeros DEF given
    <2> QED
      BY <1>2, <1>3, <1>7, <1>8, <2>1 DEF shares, Holders0, part
  <1>9. CASE total # 0 /\ free # 0
    <2>1. \A a \in Funded : free * w[a] \in Nat
      BY <1>1
    <2>2. ASSUME NEW a \in Funded
          PROVE  /\ part[a] \in Int /\ one[a] \in Int
                 /\ (2 * total) * part[a] <= (2 * free) * w[a] + total * one[a]
                 /\ (2 * free) * w[a] <= (2 * total) * part[a] + total * one[a]
      <3>1. part[a] = DivRound(free * w[a], total) /\ total \in Nat /\ total > 0
        BY <1>3, <1>4, <1>9
      <3>2. /\ part[a] \in Int
            /\ (2 * total) * part[a] <= 2 * (free * w[a]) + total
            /\ 2 * (free * w[a]) - total <= (2 * total) * part[a]
            /\ free * w[a] = 0 => part[a] = 0
        BY <2>1, <3>1, RoundedShare
      <3>3. (2 * free) * w[a] = 2 * (free * w[a]) /\ w[a] \in Nat /\ (2 * total) * part[a] \in Int
        BY <1>1, <3>1, <3>2
      <3>4. CASE w[a] = 0
        <4>1. part[a] = 0 /\ one[a] = 0
          BY <1>6, <3>2, <3>4
        <4> QED
          BY <1>3, <3>4, <4>1
      <3>5. CASE w[a] # 0
        <4>1. one[a] = 1 /\ total * 1 = total
          BY <1>3, <1>6, <3>5
        <4> QED
          BY <2>1, <3>1, <3>2, <3>3, <4>1
      <3> QED
        BY <3>4, <3>5
    <2> DEFINE P == [a \in Funded |-> (2 * total) * part[a]]
               Q == [a \in Funded |-> (2 * free) * w[a]]
               I == [a \in Funded |-> total * one[a]]
               QI == [a \in Funded |-> 1 * Q[a] + I[a]]
               PI == [a \in Funded |-> 1 * P[a] + I[a]]
    <2>3. \A a \in Funded : P[a] \in Int /\ Q[a] \in Int /\ I[a] \in Int
      BY <1>1, <1>3, <2>2
    <2>4. given \in Int
      BY <1>1, <2>2, SumTakesOut DEF given
    <2>5. SumFunctionOnSet(P, Funded) = (2 * total) * given
      <3>1. \A a \in Funded : part[a] \in Int /\ P[a] = (2 * total) * part[a]
        BY <2>2
      <3>2. 2 * total \in Int
        BY <1>3
      <3> HIDE DEF P
      <3> QED
        BY <1>1, <3>1, <3>2, SumScaled DEF given
    <2>6. SumFunctionOnSet(Q, Funded) = (2 * free) * total
      <3>1. \A a \in Funded : w[a] \in Int /\ Q[a] = (2 * free) * w[a]
        BY <1>1
      <3> HIDE DEF Q
      <3> QED
        BY <1>1, <3>1, SumScaled DEF total
    <2>7. SumFunctionOnSet(I, Funded) = total * shares
      <3>1. \A a \in Funded : one[a] \in Int /\ I[a] = total * one[a]
        BY <2>2
      <3> HIDE DEF I
      <3> QED
        <4>1. total \in Int
          BY <1>3
        <4>2. SumFunctionOnSet(I, Funded) = total * SumFunctionOnSet(one, Funded)
          BY <1>1, <3>1, <4>1, SumScaled
        <4> QED
          BY <1>5, <4>2
    <2>8. SumFunctionOnSet(QI, Funded) = 1 * SumFunctionOnSet(Q, Funded) + SumFunctionOnSet(I, Funded)
      <3>1. \A a \in Funded : Q[a] \in Int /\ I[a] \in Int /\ QI[a] = 1 * Q[a] + I[a]
        BY <2>3
      <3> HIDE DEF Q, I, QI
      <3> QED
        BY <1>1, <3>1, SumLinear
    <2>9. SumFunctionOnSet(PI, Funded) = 1 * SumFunctionOnSet(P, Funded) + SumFunctionOnSet(I, Funded)
      <3>1. \A a \in Funded : P[a] \in Int /\ I[a] \in Int /\ PI[a] = 1 * P[a] + I[a]
        BY <2>3
      <3> HIDE DEF P, I, PI
      <3> QED
        BY <1>1, <3>1, SumLinear
    <2>10. SumFunctionOnSet(P, Funded) <= SumFunctionOnSet(QI, Funded)
      <3>1. \A a \in Funded : P[a] \in Int /\ QI[a] \in Int /\ P[a] <= QI[a]
        BY <2>2, <2>3
      <3> HIDE DEF P, QI
      <3> QED
        BY <1>1, <3>1, SumBelow
    <2>11. SumFunctionOnSet(Q, Funded) <= SumFunctionOnSet(PI, Funded)
      <3>1. \A a \in Funded : Q[a] \in Int /\ PI[a] \in Int /\ Q[a] <= PI[a]
        BY <2>2, <2>3
      <3> HIDE DEF Q, PI
      <3> QED
        BY <1>1, <3>1, SumBelow
    <2> HIDE DEF P, Q, I, QI, PI
    <2>12. /\ (2 * total) * given = total * (2 * given) /\ (2 * free) * total = total * (2 * free)
           /\ total * (2 * given) \in Int /\ total * (2 * free) \in Int /\ total * shares \in Int
      BY <1>3, <2>4
    <2>13. /\ total * (2 * given) <= total * (2 * free) + total * shares
           /\ total * (2 * free) <= total * (2 * given) + total * shares
      BY <2>5, <2>6, <2>7, <2>8, <2>9, <2>10, <2>11, <2>12
    <2>14. /\ total * (2 * free) + total * shares = total * (2 * free + shares)
           /\ total * (2 * given) + total * shares = total * (2 * given + shares)
      BY <1>3, <2>4
    <2>15. 2 * given <= 2 * free + shares /\ 2 * free <= 2 * given + shares
      BY <1>3, <1>9, <2>4, <2>13, <2>14, PositiveFactor
    <2>16. 2 * (given - free) <= shares /\ 2 * (free - given) <= shares
      BY <1>3, <2>4, <2>15
    <2> QED
      BY <1>2, <2>16 DEF shares, Holders0, part
  <1> QED
    BY <1>8, <1>9

\* ProportionalPolicy on AvailableCapital: for any agents, weights, lockups and
\* cash, what is given out is what is free, up to half a unit per weighted agent.
THEOREM AllocationCorrect == VaultSpec => []AllocationConserves
  <1>1. HistoryInv => AllocationConserves
    <2>1. SUFFICES ASSUME HistoryInv, NEW cash \in Values, NEW w \in [Funded -> Weights]
                   PROVE  LET listed == Amount(ActiveLockups(now))
                              free == IF listed > cash THEN 0 ELSE cash - listed
                              given == SumFunction(Allocate(AvailableCapital(cash, now), w))
                              shares == Cardinality({a \in Funded : w[a] # 0})
                          IN  /\ 2 * (given - free) <= shares
                              /\ shares # 0 => 2 * (free - given) <= shares
      BY DEF AllocationConserves
    <2>2. cash \in Int
      BY VaultAssumption
    <2>3. VaultTypeOK
      BY <2>1 DEF HistoryInv
    <2> QED
      BY <2>2, <2>3, FreeCapital, SharesConserve
  <1> QED
    BY <1>1, HistoryHolds, PTL

-----------------------------------------------------------------------------
(* The hedged book.                                                          *)

LEMMA HedgeConstants ==
    /\ Sizes \subseteq Nat \ {0} /\ Prices \subseteq Nat \ {0} /\ Premiums \subseteq Nat
    /\ Losses \subseteq Nat \ {0} /\ Discounts \subseteq Nat /\ MaxOpens \in Nat /\ 1 <= MaxOpens
    /\ \A p \in Prices, d \in Discounts : d <= p
    /\ Limit.exposure \in Nat /\ Limit.notional \in Nat
  BY HedgeAssumption DEF Limits

LEMMA BasisTyped ==
    ASSUME NEW qty \in Nat \ {0}, NEW cost \in Nat, NEW entry \in Nat
    PROVE  /\ Basis(qty, cost, entry) \in BasisSet
           /\ Basis(qty, cost, entry).qty = qty /\ Basis(qty, cost, entry).cost = cost
           /\ Basis(qty, cost, entry).entry = entry
  BY Zenon DEF Basis, BasisSet

PositionSet == [qty : Int, proceeds : Int]

LEMMA PositionTyped ==
    ASSUME NEW qty \in Int, NEW proceeds \in Int
    PROVE  /\ Position(qty, proceeds) \in PositionSet
           /\ Position(qty, proceeds).qty = qty /\ Position(qty, proceeds).proceeds = proceeds
  BY Zenon DEF Position, PositionSet

LEMMA PricesTyped ==
    ASSUME TypeOK
    PROVE  price \in Nat /\ price >= 1 /\ premium \in Nat /\ PerpMark \in Nat /\ PerpMark >= price
  BY HedgeConstants DEF TypeOK, PerpMark

LEMMA RowOfBook ==
    ASSUME TypeOK, NEW a \in Agents, NEW u \in DOMAIN rows[a]
    PROVE  /\ u \in Underlyings /\ rows[a][u] \in BasisSet
           /\ rows[a][u].qty \in Nat /\ rows[a][u].qty >= 1 /\ rows[a][u].cost \in Nat
           /\ rows[a][u].entry \in Nat /\ rows[a][u].realized = 0
  <1>1. u \in Underlyings /\ rows[a][u] \in BasisSet
    BY DEF TypeOK
  <1> QED
    BY <1>1 DEF BasisSet

LEMMA PositionOf ==
    ASSUME TypeOK, NEW u \in Underlyings
    PROVE  perp[u].qty \in Int /\ perp[u].proceeds \in Int /\ wallet[u] \in Nat
  BY DEF TypeOK

LEMMA FiniteBook ==
    ASSUME TypeOK, NEW a \in Agents
    PROVE  IsFiniteSet(DOMAIN rows[a]) /\ DOMAIN rows[a] \in SUBSET Underlyings
  <1>1. DOMAIN rows[a] \in SUBSET Underlyings
    BY DEF TypeOK
  <1> QED
    BY <1>1, FS_Subset, HedgeAssumption

\* What a decision opens.
Opened(opens) == {opens[i].u : i \in DOMAIN opens}

LEMMA OpensTyped ==
    ASSUME TypeOK, NEW a \in Agents, NEW opens \in Decisions(a)
    PROVE  /\ \E n \in 1 .. MaxOpens : DOMAIN opens = 1 .. n
           /\ \A i \in DOMAIN opens : /\ opens[i].u \in Underlyings \ DOMAIN rows[a]
                                      /\ opens[i].qty \in Nat \ {0} /\ opens[i].limit \in Nat
  <1> DEFINE one == {[u |-> u, qty |-> q, limit |-> l] : u \in Underlyings \ DOMAIN rows[a], q \in Sizes,
                                                        l \in {PerpMark - d : d \in Discounts}}
  <1>1. PICK n \in 1 .. MaxOpens : opens \in [1 .. n -> one]
    BY DEF Decisions
  <1>2. \A o \in one : o.u \in Underlyings \ DOMAIN rows[a] /\ o.qty \in Sizes
                       /\ \E d \in Discounts : o.limit = PerpMark - d
    OBVIOUS
  <1> HIDE DEF one
  <1>3. \A d \in Discounts : PerpMark - d \in Nat
    <2>1. \A d \in Discounts : d \in Nat /\ d <= price
      BY HedgeConstants DEF TypeOK
    <2> QED
      BY <2>1, PricesTyped
  <1>4. \A o \in one : o.u \in Underlyings \ DOMAIN rows[a] /\ o.qty \in Nat \ {0} /\ o.limit \in Nat
    BY <1>2, <1>3, HedgeConstants
  <1> QED
    BY <1>1, <1>4

LEMMA TheOpen ==
    ASSUME NEW opens, NEW u \in Opened(opens)
    PROVE  \E i \in DOMAIN opens : OpenOf(opens, u) = opens[i] /\ opens[i].u = u
  <1>1. \E o \in ToSet(opens) : o.u = u
    BY DEF Opened, ToSet
  <1>2. OpenOf(opens, u) \in ToSet(opens) /\ OpenOf(opens, u).u = u
    BY <1>1, Zenon DEF OpenOf
  <1> QED
    BY <1>2 DEF ToSet

LEMMA LegTyped ==
    ASSUME TypeOK, NEW a \in Agents, NEW opens \in Decisions(a), NEW S \in SUBSET Opened(opens),
           NEW u \in Underlyings
    PROVE  LegQty(opens, u, S) \in Nat
  <1>1. CASE u \in S
    <2>1. PICK i \in DOMAIN opens : OpenOf(opens, u) = opens[i]
      BY <1>1, TheOpen
    <2> QED
      BY <1>1, <2>1, OpensTyped DEF LegQty
  <1>2. CASE u \notin S
    BY <1>2 DEF LegQty
  <1> QED
    BY <1>1, <1>2

\* The book after a decision that opens.
BookOpened(a, opens, N) ==
    /\ DOMAIN rows' = Agents /\ \A b \in Agents \ {a} : rows'[b] = rows[b]
    /\ DOMAIN rows'[a] = DOMAIN rows[a] \cup N
    /\ N \cap DOMAIN rows[a] = {}
    /\ \A u \in DOMAIN rows[a] : rows'[a][u] = rows[a][u]
    /\ \A u \in N : \E i \in DOMAIN opens :
         /\ opens[i].u = u /\ rows'[a][u] \in BasisSet
         /\ rows'[a][u].qty = opens[i].qty /\ rows'[a][u].entry = opens[i].limit

LEMMA BookAfterOpen ==
    ASSUME TypeOK, NEW a \in Agents, NEW opens \in Decisions(a), NEW swapped \in SUBSET Opened(opens),
           NEW filled \in SUBSET Opened(opens), OpenTick(a, opens, swapped, filled)
    PROVE  BookOpened(a, opens, swapped \cap filled)
  <1> DEFINE N == swapped \cap filled
             book == [u \in DOMAIN rows[a] \cup N |->
                       IF u \in DOMAIN rows[a] THEN rows[a][u]
                       ELSE LET o == OpenOf(opens, u) IN Basis(o.qty, o.qty * price, o.limit)]
  <1>1. rows' = [rows EXCEPT ![a] = book] /\ DOMAIN rows = Agents
    BY DEF OpenTick, TypeOK
  <1>2. N \cap DOMAIN rows[a] = {}
    BY OpensTyped DEF Opened
  <1>3. rows'[a] = book /\ DOMAIN rows' = Agents /\ \A b \in Agents \ {a} : rows'[b] = rows[b]
    BY <1>1
  <1>4. ASSUME NEW u \in N
        PROVE  \E i \in DOMAIN opens :
                /\ opens[i].u = u /\ book[u] \in BasisSet
                /\ book[u].qty = opens[i].qty /\ book[u].entry = opens[i].limit
    <2>1. PICK i \in DOMAIN opens : OpenOf(opens, u) = opens[i] /\ opens[i].u = u
      BY TheOpen
    <2>2. book[u] = Basis(opens[i].qty, opens[i].qty * price, opens[i].limit)
      BY <1>2, <2>1
    <2>3. opens[i].qty \in Nat \ {0} /\ opens[i].limit \in Nat
      BY OpensTyped
    <2>4. opens[i].qty * price \in Nat
      BY <2>3, PricesTyped
    <2> HIDE DEF book
    <2> QED
      BY <2>1, <2>2, <2>3, <2>4, BasisTyped
  <1>5. DOMAIN book = DOMAIN rows[a] \cup N /\ \A u \in DOMAIN rows[a] : book[u] = rows[a][u]
    OBVIOUS
  <1> HIDE DEF book, N
  <1>6. rows'[a] = book /\ DOMAIN rows' = Agents /\ \A b \in Agents \ {a} : rows'[b] = rows[b]
    BY <1>3
  <1> QED
    BY <1>2, <1>4, <1>5, <1>6 DEF N, BookOpened

LEMMA OpenTyped ==
    ASSUME TypeOK, NEW a \in Agents, NEW opens \in Decisions(a), NEW swapped \in SUBSET Opened(opens),
           NEW filled \in SUBSET Opened(opens), OpenTick(a, opens, swapped, filled)
    PROVE  TypeOK'
  <1>1. /\ DOMAIN rows' = Agents
        /\ \A b \in Agents : DOMAIN rows'[b] \subseteq Underlyings /\ \A u \in DOMAIN rows'[b] : rows'[b][u] \in BasisSet
    <2>1. (swapped \cap filled) \subseteq Underlyings
      BY OpensTyped DEF Opened
    <2>2. BookOpened(a, opens, swapped \cap filled)
      BY BookAfterOpen
    <2>3. DOMAIN rows'[a] \subseteq Underlyings
      BY <2>1, <2>2, FiniteBook DEF BookOpened
    <2>4. \A u \in DOMAIN rows'[a] : rows'[a][u] \in BasisSet
      BY <2>2, RowOfBook DEF BookOpened
    <2> QED
      BY <2>2, <2>3, <2>4 DEF TypeOK, BookOpened
  <1>2. wallet' \in [Underlyings -> Nat]
    <2>1. \A u \in Underlyings : wallet[u] + LegQty(opens, u, swapped) \in Nat
      BY LegTyped, PositionOf
    <2> QED
      BY <2>1 DEF OpenTick
  <1>3. perp' \in [Underlyings -> PositionSet]
    <2>1. ASSUME NEW u \in Underlyings
          PROVE  Position(perp[u].qty - LegQty(opens, u, filled),
                          perp[u].proceeds + LegQty(opens, u, filled) * PerpMark) \in PositionSet
      <3>1. /\ LegQty(opens, u, filled) \in Nat /\ PerpMark \in Nat
            /\ perp[u].qty \in Int /\ perp[u].proceeds \in Int
        BY LegTyped, PositionOf, PricesTyped
      <3>2. LegQty(opens, u, filled) * PerpMark \in Nat
        BY <3>1
      <3>3. /\ perp[u].qty - LegQty(opens, u, filled) \in Int
            /\ perp[u].proceeds + LegQty(opens, u, filled) * PerpMark \in Int
        BY <3>1, <3>2
      <3> QED
        BY <3>3, PositionTyped
    <2> QED
      BY <2>1 DEF OpenTick
  <1>4. DOMAIN snapshot' = Agents
    BY DEF OpenTick, Snapshot, PersistNAVSnapshot, TypeOK
  <1>5. ticks' \in 0 .. MaxTicks
    BY HedgeAssumption DEF OpenTick, TypeOK
  <1> QED
    BY <1>1, <1>2, <1>3, <1>4, <1>5 DEF OpenTick, TypeOK, PositionSet, market

\* The smaller and the larger of two.
LEMMA OfTwo ==
    ASSUME NEW x \in Int, NEW y \in Int
    PROVE  /\ Min({x, y}) \in {x, y} /\ Min({x, y}) <= x /\ Min({x, y}) <= y
           /\ Max({x, y}) \in {x, y} /\ Max({x, y}) >= x /\ Max({x, y}) >= y
  <1>1. \E m \in {x, y} : \A n \in {x, y} : m <= n
    OBVIOUS
  <1>2. \E m \in {x, y} : \A n \in {x, y} : m >= n
    OBVIOUS
  <1>3. Min({x, y}) \in {x, y} /\ \A n \in {x, y} : Min({x, y}) <= n
    BY <1>1, Zenon DEF Min
  <1>4. Max({x, y}) \in {x, y} /\ \A n \in {x, y} : Max({x, y}) >= n
    BY <1>2, Zenon DEF Max
  <1> QED
    BY <1>3, <1>4

\* What a reduce-only order buys back: nothing of a long, and no more than the
\* short or the row.
LEMMA BuysBack ==
    ASSUME NEW qty \in Int, NEW size \in Nat
    PROVE  LET back == Min({size, Max({0, -qty})})
           IN  back \in Nat /\ back <= size /\ (back = 0 \/ back <= -qty)
  <1> DEFINE m == Max({0, -qty})
  <1>1. m \in Nat /\ (m = 0 \/ m = -qty)
    <2>1. -qty \in Int /\ 0 \in Int
      OBVIOUS
    <2>2. m \in {0, -qty} /\ m >= 0
      BY <2>1, OfTwo
    <2> QED
      BY <2>1, <2>2
  <1> HIDE DEF m
  <1>2. Min({size, m}) \in {size, m} /\ Min({size, m}) <= size /\ Min({size, m}) <= m
    BY <1>1, OfTwo
  <1>3. LET back == Min({size, m}) IN back \in Nat /\ back <= size /\ (back = 0 \/ back <= -qty)
    BY <1>1, <1>2
  <1> QED
    BY <1>3 DEF m

\* The book after a decision that closes.
BookClosed(a, u) ==
    /\ DOMAIN rows' = Agents /\ \A b \in Agents \ {a} : rows'[b] = rows[b]
    /\ \/ rows'[a] = rows[a]
       \/ /\ DOMAIN rows'[a] = DOMAIN rows[a] \ {u}
          /\ \A v \in DOMAIN rows[a] \ {u} : rows'[a][v] = rows[a][v]

LEMMA BookAfterClose ==
    ASSUME TypeOK, NEW a \in Agents, NEW u \in Underlyings, NEW limit, NEW lands, NEW fills,
           CloseTick(a, u, limit, lands, fills)
    PROVE  u \in DOMAIN rows[a] /\ BookClosed(a, u)
  <1> DEFINE rest == Restrict(rows[a], DOMAIN rows[a] \ {u})
  <1>1. u \in DOMAIN rows[a] /\ DOMAIN rows = Agents
    BY DEF CloseTick, TypeOK
  <1>2. rows' = rows \/ rows' = [rows EXCEPT ![a] = rest]
    BY DEF CloseTick
  <1>3. DOMAIN rest = DOMAIN rows[a] \ {u} /\ \A v \in DOMAIN rows[a] \ {u} : rest[v] = rows[a][v]
    BY DEF Restrict
  <1> HIDE DEF rest
  <1>4. CASE rows' = rows
    BY <1>1, <1>4 DEF BookClosed
  <1>5. CASE rows' = [rows EXCEPT ![a] = rest]
    <2>1. rows'[a] = rest /\ DOMAIN rows' = Agents /\ \A b \in Agents \ {a} : rows'[b] = rows[b]
      BY <1>1, <1>5
    <2> QED
      BY <1>1, <1>3, <2>1 DEF BookClosed
  <1> QED
    BY <1>2, <1>4, <1>5

LEMMA CloseTyped ==
    ASSUME TypeOK, NEW a \in Agents, NEW u \in Underlyings, NEW limit, NEW lands, NEW fills,
           CloseTick(a, u, limit, lands, fills)
    PROVE  TypeOK'
  <1> DEFINE row == rows[a][u]
             sold == IF lands /\ SwapBackAllowed(row) /\ wallet[u] >= row.qty THEN row.qty ELSE 0
             passed == fills /\ ReduceAllowed(row, limit)
             back == IF passed THEN Min({row.qty, Max({0, -perp[u].qty})}) ELSE 0
             kept == IF back = 0 THEN 0 ELSE (perp[u].proceeds * back) \div Abs(perp[u].qty)
  <1>1. u \in DOMAIN rows[a] /\ BookClosed(a, u)
    BY BookAfterClose
  <1>2. /\ DOMAIN rows' = Agents
        /\ \A b \in Agents : DOMAIN rows'[b] \subseteq Underlyings /\ \A v \in DOMAIN rows'[b] : rows'[b][v] \in BasisSet
    BY <1>1 DEF TypeOK, BookClosed
  <1>3. row.qty \in Nat /\ row.realized = 0 /\ wallet[u] \in Nat /\ perp[u].qty \in Int /\ perp[u].proceeds \in Int
    BY <1>1, RowOfBook, PositionOf
  <1>4. realized' = [b \in Agents |-> 0]
    BY <1>3 DEF CloseTick, TypeOK
  <1>5. wallet' \in [Underlyings -> Nat]
    <2>1. wallet' = [wallet EXCEPT ![u] = wallet[u] - sold]
      BY DEF CloseTick
    <2>2. wallet[u] - sold \in Nat
      BY <1>3
    <2> HIDE DEF sold
    <2> QED
      BY <2>1, <2>2 DEF TypeOK
  <1>6. perp' \in [Underlyings -> PositionSet]
    <2>1. back \in Nat /\ (back = 0 \/ back <= -perp[u].qty)
      BY <1>3, BuysBack
    <2>2. perp' = [perp EXCEPT ![u] = Position(perp[u].qty + back, perp[u].proceeds - kept)]
      BY DEF CloseTick
    <2> HIDE DEF back
    <2>3. kept \in Int
      <3>1. CASE back = 0
        BY <3>1
      <3>2. CASE back # 0
        <4>1. Abs(perp[u].qty) \in Nat /\ Abs(perp[u].qty) > 0
          BY <1>3, <2>1, <3>2 DEF Abs
        <4>2. perp[u].proceeds * back \in Int
          BY <1>3, <2>1
        <4>3. (perp[u].proceeds * back) \div Abs(perp[u].qty) \in Int
          BY <4>1, <4>2
        <4> QED
          BY <3>2, <4>3
      <3> QED
        BY <3>1, <3>2
    <2> HIDE DEF kept
    <2>4. perp[u].qty + back \in Int /\ perp[u].proceeds - kept \in Int
      BY <1>3, <2>1, <2>3
    <2>5. Position(perp[u].qty + back, perp[u].proceeds - kept) \in PositionSet
      BY <2>4, PositionTyped
    <2> QED
      BY <2>2, <2>5 DEF TypeOK, PositionSet
  <1>7. DOMAIN snapshot' = Agents
    BY DEF CloseTick, Snapshot, PersistNAVSnapshot, TypeOK
  <1>8. ticks' \in 0 .. MaxTicks
    BY HedgeAssumption DEF CloseTick, TypeOK
  <1>9. UNCHANGED <<market, perpUp, quotes, events>>
    BY DEF CloseTick
  <1> QED
    BY <1>2, <1>4, <1>5, <1>6, <1>7, <1>8, <1>9 DEF TypeOK, PositionSet, market

\* The world leaves the book and the snapshots alone.
World ==
    \/ MarketMoves \/ VenuesChange
    \/ \E u \in Underlyings, n \in Losses : ShortShrinks(u, n) \/ WalletMoves(u, n)

LEMMA WorldKeeps ==
    ASSUME World
    PROVE  UNCHANGED <<rows, realized, snapshot, ticks>>
  BY DEF World, MarketMoves, VenuesChange, ShortShrinks, WalletMoves

LEMMA WorldTyped ==
    ASSUME TypeOK, World
    PROVE  TypeOK'
  <1>1. UNCHANGED <<rows, realized, snapshot, ticks>>
    BY WorldKeeps
  <1>2. events' \in 0 .. MaxEvents
    <2>1. events \in 0 .. MaxEvents /\ (events' = events \/ (events < MaxEvents /\ events' = events + 1))
      BY DEF World, MarketMoves, VenuesChange, ShortShrinks, WalletMoves, Event, TypeOK
    <2>2. MaxEvents \in Nat
      BY HedgeAssumption
    <2> QED
      BY <2>1, <2>2
  <1>3. price' \in Prices /\ premium' \in Premiums
    BY DEF World, MarketMoves, VenuesChange, ShortShrinks, WalletMoves, TypeOK, market
  <1>4. perpUp' \in BOOLEAN /\ quotes' \in {"none", "quoteFails", "balanceFails", "up"}
    BY Zenon DEF World, MarketMoves, VenuesChange, ShortShrinks, WalletMoves, TypeOK
  <1>5. perp' \in [Underlyings -> PositionSet] /\ wallet' \in [Underlyings -> Nat]
    <2>1. CASE MarketMoves \/ VenuesChange
      BY <2>1 DEF MarketMoves, VenuesChange, venues, TypeOK, PositionSet
    <2>2. CASE \E u \in Underlyings, n \in Losses : ShortShrinks(u, n) \/ WalletMoves(u, n)
      <3>1. PICK u \in Underlyings, n \in Losses : ShortShrinks(u, n) \/ WalletMoves(u, n)
        BY <2>2
      <3>2. n \in Nat /\ perp[u].qty \in Int /\ perp[u].proceeds \in Int /\ wallet[u] \in Nat /\ PerpMark \in Nat
        BY PositionOf, HedgeConstants, PricesTyped
      <3>3. CASE ShortShrinks(u, n)
        <4>1. n * PerpMark \in Nat
          BY <3>2
        <4>2. perp[u].qty + n \in Int /\ perp[u].proceeds - n * PerpMark \in Int
          BY <3>2, <4>1
        <4>3. Position(perp[u].qty + n, perp[u].proceeds - n * PerpMark) \in PositionSet
          BY <4>2, PositionTyped
        <4> QED
          BY <3>3, <4>3 DEF ShortShrinks, TypeOK, PositionSet
      <3>4. CASE WalletMoves(u, n)
        <4>1. Max({0, wallet[u] - n}) \in Nat /\ wallet[u] + n \in Nat
          <5>1. wallet[u] - n \in Int /\ 0 \in Int
            BY <3>2
          <5>2. Max({0, wallet[u] - n}) \in {0, wallet[u] - n} /\ Max({0, wallet[u] - n}) >= 0
            BY <5>1, OfTwo
          <5> QED
            BY <3>2, <5>1, <5>2
        <4> QED
          BY <3>4, <4>1 DEF WalletMoves, TypeOK, PositionSet
      <3> QED
        BY <3>1, <3>3, <3>4
    <2> QED
      BY <2>1, <2>2 DEF World
  <1> QED
    BY <1>1, <1>2, <1>3, <1>4, <1>5 DEF TypeOK, PositionSet

\* What a step is.
HedgeStep ==
    \/ \E a \in Agents : \E opens \in Decisions(a) : \E swapped, filled \in SUBSET Opened(opens) :
         OpenTick(a, opens, swapped, filled)
    \/ \E a \in Agents, u \in Underlyings : \E limit, lands, fills : CloseTick(a, u, limit, lands, fills)
    \/ World
    \/ UNCHANGED vars

LEMMA HedgeSteps == [Next]_vars => HedgeStep
  BY Zenon DEF Next, HedgeStep, World, Opened

LEMMA HedgeTyped == TypeOK /\ [Next]_vars => TypeOK'
  <1> SUFFICES ASSUME TypeOK, HedgeStep PROVE TypeOK'
    BY HedgeSteps
  <1>1. CASE UNCHANGED vars
    BY <1>1 DEF TypeOK, vars, market, venues
  <1> QED
    BY <1>1, OpenTyped, CloseTyped, WorldTyped DEF HedgeStep

LEMMA HedgeInit == Init => TypeOK
  <1> SUFFICES ASSUME Init PROVE TypeOK
    OBVIOUS
  <1>1. perp \in [Underlyings -> PositionSet] /\ wallet \in [Underlyings -> Nat]
    BY PositionTyped DEF Init
  <1>2. \A a \in Agents : DOMAIN rows[a] = {}
    BY DEF Init
  <1>3. DOMAIN rows = Agents /\ DOMAIN snapshot = Agents
    BY DEF Init
  <1>4. ticks \in 0 .. MaxTicks /\ events \in 0 .. MaxEvents
    BY HedgeAssumption DEF Init
  <1>5. perpUp \in BOOLEAN /\ quotes \in {"none", "quoteFails", "balanceFails", "up"}
    BY Zenon DEF Init
  <1> QED
    BY <1>1, <1>2, <1>3, <1>4, <1>5 DEF Init, TypeOK, PositionSet

\* The types of the hedged book, with the signs that BasisValuation
\* (pnl/pnl.go) documents: sizes, costs and wallet balances stay natural, and
\* no closed row leaves a realized amount.
THEOREM BookTypeCorrect == Spec => []TypeOK
  BY HedgeInit, HedgeTyped, PTL DEF Spec

-----------------------------------------------------------------------------
(* The exposure.                                                             *)

\* What the legs of a book weigh in the exposure.
Weight(book) == [u \in DOMAIN book |-> book[u].entry * book[u].qty]

LEMMA ExposureIsSum ==
    ASSUME TypeOK, NEW a \in Agents
    PROVE  /\ TotalBasisExposure(a) = SumFunctionOnSet(Weight(rows[a]), DOMAIN rows[a])
           /\ \A u \in DOMAIN rows[a] : Weight(rows[a])[u] \in Nat
           /\ TotalBasisExposure(a) \in Nat
  <1>1. TotalBasisExposure(a) = SumFunctionOnSet(Weight(rows[a]), DOMAIN rows[a])
    BY Zenon DEF TotalBasisExposure, SumFunction, Weight
  <1>2. ASSUME NEW u \in DOMAIN rows[a] PROVE Weight(rows[a])[u] \in Nat
    <2>1. rows[a][u].entry \in Nat /\ rows[a][u].qty \in Nat
      BY RowOfBook
    <2>2. rows[a][u].entry * rows[a][u].qty \in Nat
      BY <2>1
    <2> QED
      BY <2>2 DEF Weight
  <1> QED
    BY <1>1, <1>2, FiniteBook, SumOfNaturals

\* The same book weighs the same.
LEMMA ExposureKept ==
    ASSUME NEW a, rows'[a] = rows[a]
    PROVE  TotalBasisExposure(a)' = TotalBasisExposure(a)
  <1> DEFINE E(book) == SumFunction([u \in DOMAIN book |-> book[u].entry * book[u].qty])
  <1>1. TotalBasisExposure(a) = E(rows[a]) /\ TotalBasisExposure(a)' = E(rows'[a])
    BY Zenon DEF TotalBasisExposure
  <1> HIDE DEF E
  <1> QED
    BY <1>1

\* The same of a state and of the one after it.
ExposuresAreSums ==
    \A a \in Agents :
        /\ TotalBasisExposure(a) = SumFunctionOnSet(Weight(rows[a]), DOMAIN rows[a])
        /\ \A u \in DOMAIN rows[a] : Weight(rows[a])[u] \in Nat
        /\ IsFiniteSet(DOMAIN rows[a])

LEMMA ExposureNext == (TypeOK => ExposuresAreSums) /\ (TypeOK' => ExposuresAreSums')
  <1>1. TypeOK => ExposuresAreSums
    BY ExposureIsSum, FiniteBook DEF ExposuresAreSums
  <1> QED
    BY <1>1, PTL

\* An order that passes leaves the exposure within its limit, and is itself
\* within the limit of a leg.
LEMMA OrderWithinLimits ==
    ASSUME TypeOK, NEW a \in Agents, NEW o, o.limit \in Nat, o.qty \in Nat, NEW inflight,
           OrderAllowed(a, o, inflight), Limit.exposure # 0, Limit.notional # 0
    PROVE  /\ TotalBasisExposure(a) + o.limit * o.qty <= Limit.exposure
           /\ o.limit * o.qty <= Limit.notional
  <1> DEFINE leg == [notional |-> o.limit * o.qty, reduceOnly |-> FALSE]
             n == o.limit * o.qty
  <1>1. leg.notional = n /\ leg.reduceOnly = FALSE /\ n \in Nat
    OBVIOUS
  <1>2. checkOrder(Limit, leg, TotalBasisExposure(a), Count(a, inflight \ {o.u})) # "block"
    BY DEF OrderAllowed
  <1> HIDE DEF leg
  <1>3. ~Exceeds(leg.notional, Limit.notional) /\ ~Exceeds(TotalBasisExposure(a) + leg.notional, Limit.exposure)
    BY <1>1, <1>2 DEF checkOrder
  <1> HIDE DEF n
  <1>4. n <= Limit.notional /\ TotalBasisExposure(a) + n <= Limit.exposure
    BY <1>1, <1>3, ExposureIsSum, HedgeConstants DEF Exceeds
  <1> QED
    BY <1>4 DEF n

\* A decision opens no more than MaxOpens.
LEMMA OpensCounted ==
    ASSUME TypeOK, NEW a \in Agents, NEW opens \in Decisions(a), NEW N \in SUBSET Opened(opens)
    PROVE  IsFiniteSet(N) /\ Cardinality(N) \in Nat /\ Cardinality(N) <= MaxOpens
  <1>1. PICK n \in 1 .. MaxOpens : DOMAIN opens = 1 .. n
    BY OpensTyped
  <1>2. MaxOpens \in Nat /\ n \in Nat /\ n >= 1 /\ n <= MaxOpens
    BY <1>1, HedgeConstants
  <1> DEFINE f == [i \in 1 .. n |-> opens[i].u]
  <1>3. f \in Surjection(1 .. n, Opened(opens))
    BY <1>1 DEF Surjection, Opened
  <1>4. IsFiniteSet(1 .. n) /\ Cardinality(1 .. n) = n
    BY <1>2, FS_Interval
  <1>5. IsFiniteSet(Opened(opens)) /\ Cardinality(Opened(opens)) <= n
    BY <1>3, <1>4, FS_Surjection
  <1>6. IsFiniteSet(N) /\ Cardinality(N) <= Cardinality(Opened(opens))
    BY <1>5, FS_Subset
  <1>7. Cardinality(N) \in Nat /\ Cardinality(Opened(opens)) \in Nat
    BY <1>5, <1>6, FS_CardinalityType
  <1> QED
    BY <1>2, <1>5, <1>6, <1>7

LEMMA MonotoneFactor ==
    ASSUME NEW k \in Nat, NEW x \in Int, NEW y \in Int, x <= y
    PROVE  k * x <= k * y
  <1>1. k * (y - x) >= 0 /\ k * (y - x) = k * y - k * x
    OBVIOUS
  <1> QED
    BY <1>1

LEMMA OpensBounded ==
    ASSUME TypeOK, TypeOK', NEW a \in Agents, NEW opens \in Decisions(a), NEW swapped \in SUBSET Opened(opens),
           NEW filled \in SUBSET Opened(opens), OpenTick(a, opens, swapped, filled),
           ExposureOvershootIsBounded
    PROVE  ExposureOvershootIsBounded'
  <1> SUFFICES ASSUME Limit.exposure # 0, Limit.notional # 0, NEW b \in Agents
               PROVE  TotalBasisExposure(b)' <= Limit.exposure + (MaxOpens - 1) * Limit.notional
    BY DEF ExposureOvershootIsBounded
  <1> DEFINE N == swapped \cap filled
             w == Weight(rows'[a])
             D == DOMAIN rows[a]
             k == Limit.notional
  <1>1. BookOpened(a, opens, N)
    BY BookAfterOpen
  <1>2. k \in Nat /\ Limit.exposure \in Nat /\ MaxOpens \in Nat
    BY HedgeConstants
  <1>3. IsFiniteSet(N) /\ Cardinality(N) \in Nat /\ Cardinality(N) <= MaxOpens
    BY OpensCounted
  <1> HIDE DEF N
  <1>4. CASE b # a \/ N = {}
    <2>1. TotalBasisExposure(b)' = TotalBasisExposure(b)
      <3>1. CASE b # a
        BY <1>1, <3>1, ExposureKept DEF BookOpened
      <3>2. CASE b = a /\ N = {}
        <4>1. /\ TotalBasisExposure(a)' = SumFunctionOnSet(w, D)
              /\ \A u \in D : w[u] \in Nat
          BY <1>1, <3>2, ExposureNext DEF BookOpened, ExposuresAreSums
        <4>2. TotalBasisExposure(a) = SumFunctionOnSet(Weight(rows[a]), D)
          BY ExposureIsSum
        <4>3. \A u \in D : w[u] = Weight(rows[a])[u]
          BY <1>1, <3>2 DEF Weight, BookOpened
        <4>4. IsFiniteSet(D)
          BY FiniteBook
        <4> HIDE DEF w, D
        <4>5. SumFunctionOnSet(w, D) = SumFunctionOnSet(Weight(rows[a]), D)
          BY <4>1, <4>3, <4>4, SumAlike
        <4> QED
          BY <3>2, <4>1, <4>2, <4>5
      <3> QED
        BY <1>4, <3>1, <3>2
    <2> QED
      BY <2>1 DEF ExposureOvershootIsBounded
  <1>5. CASE b = a /\ N # {}
    <2>1. PICK x \in N : TRUE
      BY <1>5
    <2>2. \A u \in N : /\ w[u] \in Nat /\ w[u] <= k
                       /\ TotalBasisExposure(a) + w[u] <= Limit.exposure
      <3>1. TAKE u \in N
      <3>2. PICK i \in DOMAIN opens : /\ opens[i].u = u
                                      /\ rows'[a][u].qty = opens[i].qty /\ rows'[a][u].entry = opens[i].limit
        BY <1>1 DEF BookOpened
      <3>3. opens[i].qty \in Nat /\ opens[i].limit \in Nat
        BY OpensTyped
      <3>4. OrderAllowed(a, opens[i], swapped \cup (Before(opens, i) \cap filled))
        BY <3>2 DEF N, OpenTick, RunOrders
      <3>5. /\ TotalBasisExposure(a) + opens[i].limit * opens[i].qty <= Limit.exposure
            /\ opens[i].limit * opens[i].qty <= k
        BY <3>3, <3>4, OrderWithinLimits
      <3>6. w[u] = opens[i].limit * opens[i].qty
        BY <1>1, <3>2 DEF Weight, BookOpened
      <3>7. opens[i].limit * opens[i].qty \in Nat
        BY <3>3
      <3> HIDE DEF w, k
      <3> QED
        BY <3>5, <3>6, <3>7
    <2>3. /\ IsFiniteSet(D) /\ D \cap N = {}
          /\ TotalBasisExposure(a)' = SumFunctionOnSet(w, D \cup N)
          /\ \A u \in D \cup N : w[u] \in Int
      <3>1. IsFiniteSet(D) /\ D \cap N = {} /\ DOMAIN rows'[a] = D \cup N
        BY <1>1, FiniteBook DEF BookOpened
      <3>2. /\ TotalBasisExposure(a)' = SumFunctionOnSet(w, DOMAIN rows'[a])
            /\ \A u \in DOMAIN rows'[a] : w[u] \in Nat
        BY ExposureNext DEF ExposuresAreSums
      <3> HIDE DEF w, D
      <3> QED
        BY <3>1, <3>2
    <2>4. SumFunctionOnSet(w, D) = TotalBasisExposure(a)
      <3>1. TotalBasisExposure(a) = SumFunctionOnSet(Weight(rows[a]), D)
        BY ExposureIsSum
      <3>2. \A u \in D : w[u] = Weight(rows[a])[u]
        BY <1>1 DEF Weight, BookOpened
      <3> HIDE DEF w, D
      <3>3. SumFunctionOnSet(w, D) = SumFunctionOnSet(Weight(rows[a]), D)
        BY <2>3, <3>2, SumAlike
      <3> QED
        BY <3>1, <3>3
    <2>5. TotalBasisExposure(a) \in Int
      BY ExposureIsSum
    <2> HIDE DEF w, D, k
    <2>6. SumFunctionOnSet(w, D \cup N) = SumFunctionOnSet(w, D) + SumFunctionOnSet(w, N)
      BY <1>3, <2>3, SumOfTwoSets
    <2>7. /\ IsFiniteSet(N \ {x}) /\ Cardinality(N \ {x}) = Cardinality(N) - 1
          /\ Cardinality(N \ {x}) \in Nat
      BY <1>3, <2>1, FS_RemoveElement, FS_CardinalityType
    <2>8. SumFunctionOnSet(w, N) = w[x] + SumFunctionOnSet(w, N \ {x})
      BY <1>3, <2>1, <2>3, SumTakesOut
    <2>9. /\ SumFunctionOnSet(w, N \ {x}) <= k * Cardinality(N \ {x})
          /\ SumFunctionOnSet(w, N \ {x}) \in Int
      <3>1. \A u \in N \ {x} : w[u] \in Int /\ w[u] <= k
        BY <2>2
      <3>2. SumFunctionOnSet(w, N \ {x}) <= k * Cardinality(N \ {x})
        <4>1. k \in Int /\ IsFiniteSet(N \ {x})
          BY <1>2, <2>7
        <4> DEFINE M == N \ {x}
        <4>2. IsFiniteSet(M) /\ \A u \in M : w[u] \in Int /\ w[u] <= k
          BY <3>1, <4>1
        <4> HIDE DEF M
        <4>3. SumFunctionOnSet(w, M) <= k * Cardinality(M)
          BY <4>1, <4>2, SumAtMost
        <4> QED
          BY <4>3 DEF M
      <3> QED
        BY <2>7, <3>1, <3>2, SumTakesOut
    <2>10. k * Cardinality(N \ {x}) <= k * (MaxOpens - 1)
      BY <1>2, <1>3, <2>7, MonotoneFactor
    <2>11. k * Cardinality(N \ {x}) \in Int /\ k * (MaxOpens - 1) \in Int /\ k * (MaxOpens - 1) = (MaxOpens - 1) * k
      BY <1>2, <2>7
    <2>12. w[x] \in Nat /\ TotalBasisExposure(a) + w[x] <= Limit.exposure
      BY <2>1, <2>2
    <2>13. TotalBasisExposure(a)' <= Limit.exposure + (MaxOpens - 1) * k
      BY <1>2, <2>3, <2>4, <2>5, <2>6, <2>8, <2>9, <2>10, <2>11, <2>12
    <2> QED
      BY <1>5, <2>13 DEF k
  <1> QED
    BY <1>4, <1>5

LEMMA CloseBounded ==
    ASSUME TypeOK, TypeOK', NEW a \in Agents, NEW u \in Underlyings, NEW limit, NEW lands, NEW fills,
           CloseTick(a, u, limit, lands, fills), ExposureOvershootIsBounded
    PROVE  ExposureOvershootIsBounded'
  <1> SUFFICES ASSUME NEW b \in Agents
               PROVE  TotalBasisExposure(b)' \in Int /\ TotalBasisExposure(b)' <= TotalBasisExposure(b)
    <2>1. \A b \in Agents : TotalBasisExposure(b) \in Nat
      BY ExposureIsSum
    <2>2. Limit.exposure + (MaxOpens - 1) * Limit.notional \in Int
      BY HedgeConstants
    <2> QED
      BY <2>1, <2>2 DEF ExposureOvershootIsBounded
  <1>1. u \in DOMAIN rows[a] /\ BookClosed(a, u)
    BY BookAfterClose
  <1>2. TotalBasisExposure(b) \in Nat
    BY ExposureIsSum
  <1>3. CASE rows'[b] = rows[b]
    BY <1>2, <1>3, ExposureKept
  <1>4. CASE rows'[b] # rows[b]
    <2> DEFINE D == DOMAIN rows[a]
               w == Weight(rows[a])
               v == Weight(rows'[a])
    <2>1. /\ b = a /\ DOMAIN rows'[a] = D \ {u}
          /\ \A x \in D \ {u} : rows'[a][x] = rows[a][x]
      BY <1>1, <1>4 DEF BookClosed
    <2>2. /\ TotalBasisExposure(a)' = SumFunctionOnSet(v, D \ {u})
          /\ TotalBasisExposure(a) = SumFunctionOnSet(w, D)
          /\ \A x \in D : w[x] \in Nat
          /\ IsFiniteSet(D)
      BY <2>1, ExposureNext, ExposureIsSum, FiniteBook DEF ExposuresAreSums
    <2>3. \A x \in D \ {u} : w[x] = v[x]
      BY <2>1 DEF Weight
    <2>4. u \in D
      BY <1>1
    <2> HIDE DEF D, w, v
    <2>5. IsFiniteSet(D \ {u})
      BY <2>2, FS_Subset
    <2>6. SumFunctionOnSet(w, D \ {u}) = SumFunctionOnSet(v, D \ {u})
      BY <2>2, <2>3, <2>5, SumAlike
    <2>7. SumFunctionOnSet(w, D) = w[u] + SumFunctionOnSet(w, D \ {u})
      BY <2>2, <2>4, SumTakesOut
    <2>8. SumFunctionOnSet(w, D \ {u}) \in Int /\ w[u] \in Nat
      BY <2>2, <2>4, <2>5, SumTakesOut
    <2> QED
      BY <2>1, <2>2, <2>6, <2>7, <2>8
  <1> QED
    BY <1>3, <1>4

LEMMA ExposureStep == TypeOK /\ TypeOK' /\ ExposureOvershootIsBounded /\ [Next]_vars => ExposureOvershootIsBounded'
  <1> SUFFICES ASSUME TypeOK, TypeOK', ExposureOvershootIsBounded, HedgeStep PROVE ExposureOvershootIsBounded'
    BY HedgeSteps
  <1>1. CASE World \/ UNCHANGED vars
    <2>1. rows' = rows
      BY <1>1, WorldKeeps DEF vars
    <2>2. \A a \in Agents : TotalBasisExposure(a)' = TotalBasisExposure(a)
      BY <2>1, ExposureKept
    <2> QED
      BY <2>2 DEF ExposureOvershootIsBounded
  <1> QED
    BY <1>1, OpensBounded, CloseBounded DEF HedgeStep

LEMMA ExposureInit == TypeOK /\ Init => ExposureOvershootIsBounded
  <1> SUFFICES ASSUME TypeOK, Init, NEW a \in Agents
               PROVE  TotalBasisExposure(a) <= Limit.exposure + (MaxOpens - 1) * Limit.notional
    BY DEF ExposureOvershootIsBounded
  <1>1. DOMAIN rows[a] = {}
    BY DEF Init
  <1>2. TotalBasisExposure(a) = 0
    BY <1>1, ExposureIsSum, SumOfNone
  <1>3. (MaxOpens - 1) * Limit.notional \in Nat
    BY HedgeConstants
  <1> QED
    BY <1>2, <1>3, HedgeConstants

\* However the opens of a tick interleave with what is open already, the
\* exposure that checkOrder measures (risk/policy.go) passes its limit by no
\* more than the legs that the rest of one decision adds.
THEOREM ExposureCorrect == Spec => []ExposureOvershootIsBounded
  <1>1. Init => TypeOK /\ ExposureOvershootIsBounded
    BY HedgeInit, ExposureInit
  <1>2. TypeOK /\ ExposureOvershootIsBounded /\ [Next]_vars => TypeOK' /\ ExposureOvershootIsBounded'
    BY HedgeTyped, ExposureStep
  <1> QED
    BY <1>1, <1>2, PTL DEF Spec

-----------------------------------------------------------------------------
(* Valuations.                                                               *)

LEMMA ValuationFields ==
    ASSUME NEW status, NEW spot, NEW net
    PROVE  /\ Valuation(status, spot, net).status = status
           /\ Valuation(status, spot, net).spot = spot /\ Valuation(status, spot, net).net = net
  BY Zenon DEF Valuation

\* What is left of a hedge of which both legs could be marked.
LEMMA HedgeIsWorth ==
    ASSUME NEW q \in Int, NEW p \in Int, NEW m \in Int, NEW c \in Int, NEW s \in Int, NEW w \in Int, w = -q
    PROVE  (q * p - c) + (s + w * (p + m)) = s - c - q * m
  <1>1. w * (p + m) = -(q * p) - q * m /\ q * p \in Int /\ q * m \in Int
    OBVIOUS
  <1> QED
    BY <1>1

LEMMA ValuedRight ==
    ASSUME TypeOK, NEW a \in Agents, NEW u \in DOMAIN rows[a]
    PROVE  LET v == valueOne(u, rows[a][u])
           IN  /\ v.net \in Int /\ v.spot \in Nat
               /\ v.status = "ok" /\ perp[u].qty = -rows[a][u].qty
                    => v.net = perp[u].proceeds - rows[a][u].cost - rows[a][u].qty * premium
  <1> DEFINE row == rows[a][u]
             gotSpot == quotes \in {"up", "balanceFails"}
             gotPerp == perpUp /\ u \in Positions
             spotValue == IF gotSpot THEN row.qty * price ELSE row.cost
             gain == IF gotPerp THEN Unrealized(u) ELSE 0
  <1>1. valueOne(u, row) = Valuation(decideStatus(gotSpot, gotPerp), spotValue, (spotValue - row.cost) + gain)
    BY Zenon DEF valueOne, SpotQty
  <1>2. /\ row.qty \in Nat /\ row.cost \in Nat /\ price \in Nat /\ premium \in Nat /\ u \in Underlyings
        /\ perp[u].qty \in Int /\ perp[u].proceeds \in Int
    BY RowOfBook, PricesTyped, PositionOf
  <1>3. Unrealized(u) = perp[u].proceeds + perp[u].qty * (price + premium)
    BY DEF Unrealized, PerpMark
  <1>4. row.qty * price \in Nat /\ perp[u].qty * (price + premium) \in Int
    BY <1>2
  <1>5. spotValue \in Nat /\ gain \in Int
    BY <1>2, <1>3, <1>4
  <1>6. decideStatus(gotSpot, gotPerp) = "ok" => gotSpot /\ gotPerp
    BY Zenon DEF decideStatus
  <1>7. ASSUME gotSpot, gotPerp, perp[u].qty = -row.qty
        PROVE  (spotValue - row.cost) + gain = perp[u].proceeds - row.cost - row.qty * premium
    <2>1. spotValue = row.qty * price /\ gain = perp[u].proceeds + perp[u].qty * (price + premium)
      BY <1>3, <1>7
    <2> HIDE DEF spotValue, gain
    <2>2. perp[u].qty = -row.qty
      BY <1>7
    <2> QED
      BY <1>2, <2>1, <2>2, HedgeIsWorth
  <1> HIDE DEF gotSpot, gotPerp, spotValue, gain
  <1>8. (spotValue - row.cost) + gain \in Int
    BY <1>2, <1>5
  <1> QED
    BY <1>1, <1>5, <1>6, <1>7, <1>8, ValuationFields

LEMMA LiveFields ==
    ASSUME NEW a
    PROVE  LET v == ValueAgent(a)
           IN  /\ v.held = rows[a] /\ v.perp = perp /\ v.premium = premium
               /\ v.positions = [u \in DOMAIN rows[a] |-> valueOne(u, rows[a][u])]
               /\ v.nav = AggregatesForAgent(a) + SumFunction([u \in DOMAIN rows[a] |-> v.positions[u].net])
  BY Zenon DEF ValueAgent

LEMMA SumIsOnItsDomain ==
    ASSUME NEW S, NEW f, f = [u \in S |-> f[u]]
    PROVE  SumFunction(f) = SumFunctionOnSet(f, S)
  <1>1. DOMAIN f = S
    OBVIOUS
  <1> QED
    BY <1>1, Zenon DEF SumFunction

LEMMA LiveAdds ==
    ASSUME TypeOK, NEW a \in Agents
    PROVE  AddsUp(ValueAgent(a))
  <1> DEFINE v == ValueAgent(a)
             D == DOMAIN rows[a]
             net == [u \in D |-> v.positions[u].net]
  <1>1. /\ v.held = rows[a] /\ v.perp = perp /\ v.premium = premium
        /\ v.positions = [u \in D |-> valueOne(u, rows[a][u])]
        /\ v.nav = AggregatesForAgent(a) + SumFunction(net)
    BY LiveFields
  <1>2. D \in SUBSET Underlyings /\ IsFiniteSet(D)
    BY FiniteBook
  <1> HIDE DEF v, D
  <1>3. DOMAIN v.positions = D /\ \A u \in D : v.positions[u] = valueOne(u, rows[a][u])
    BY <1>1
  <1>4. ASSUME NEW u \in D
        PROVE  /\ rows[a][u] \in BasisSet /\ perp[u].proceeds \in Int
               /\ v.positions[u].net \in Int /\ v.positions[u].spot \in Nat
               /\ v.positions[u].status = "ok" /\ perp[u].qty = -rows[a][u].qty
                    => v.positions[u].net = perp[u].proceeds - rows[a][u].cost - rows[a][u].qty * premium
    <2>1. u \in DOMAIN rows[a] /\ v.positions[u] = valueOne(u, rows[a][u])
      BY <1>3 DEF D
    <2>2. rows[a][u] \in BasisSet /\ perp[u].proceeds \in Int
      BY <2>1, RowOfBook, PositionOf
    <2> QED
      BY <2>1, <2>2, ValuedRight
  <1>5. AggregatesForAgent(a) = 0
    BY DEF AggregatesForAgent, TypeOK
  <1>6. SumFunction(net) \in Int
    <2>1. net = [u \in D |-> net[u]] /\ \A u \in D : net[u] \in Int
      BY <1>4
    <2> HIDE DEF net
    <2>2. SumFunctionOnSet(net, D) \in Int
      BY <1>2, <2>1, SumTakesOut
    <2> QED
      BY <2>1, <2>2, SumIsOnItsDomain
  <1>7. v.nav = SumFunction(net)
    <2> HIDE DEF net
    <2> QED
      BY <1>1, <1>5, <1>6
  <1>8. premium \in Int
    BY PricesTyped
  <1>9. DOMAIN v.held = D
    BY <1>1 DEF D
  <1> SUFFICES AddsUp(v)
    BY DEF v
  <1>10. v.nav = SumFunction([u \in DOMAIN v.held |-> v.positions[u].net])
    BY <1>7, <1>9, Zenon
  <1> HIDE DEF net
  <1> QED
    BY <1>1, <1>2, <1>3, <1>4, <1>8, <1>9, <1>10 DEF AddsUp

\* The valuation of every agent, live.
LiveAddsUp == \A a \in Agents : AddsUp(ValueAgent(a))

LEMMA LiveNext == (TypeOK => LiveAddsUp) /\ (TypeOK' => LiveAddsUp')
  <1>1. TypeOK => LiveAddsUp
    BY LiveAdds DEF LiveAddsUp
  <1> QED
    BY <1>1, PTL

LEMMA SnapshotsStep == TypeOK /\ TypeOK' /\ SnapshotsAddUp /\ [Next]_vars => SnapshotsAddUp'
  <1> SUFFICES ASSUME TypeOK, TypeOK', SnapshotsAddUp, HedgeStep PROVE SnapshotsAddUp'
    BY HedgeSteps
  <1>1. CASE World \/ UNCHANGED vars
    <2>1. snapshot' = snapshot
      BY <1>1, WorldKeeps DEF vars
    <2> QED
      BY <2>1 DEF SnapshotsAddUp
  <1>2. ASSUME NEW a \in Agents, Snapshot(a)
        PROVE  SnapshotsAddUp'
    <2>1. \/ snapshot' = [snapshot EXCEPT ![a] = ValueAgent(a)']
          \/ snapshot' = snapshot
      BY <1>2 DEF Snapshot, PersistNAVSnapshot
    <2>2. AddsUp(ValueAgent(a)')
      BY LiveNext DEF LiveAddsUp
    <2>3. DOMAIN snapshot = Agents
      BY DEF TypeOK
    <2>4. \A b \in Agents : snapshot'[b] = snapshot[b] \/ AddsUp(snapshot'[b])
      BY <2>1, <2>2, <2>3
    <2> QED
      BY <2>4 DEF SnapshotsAddUp
  <1> QED
    <2>1. ASSUME NEW a \in Agents, NEW opens \in Decisions(a), NEW swapped, NEW filled,
                 OpenTick(a, opens, swapped, filled)
          PROVE  Snapshot(a)
      BY <2>1, Zenon DEF OpenTick
    <2>2. ASSUME NEW a \in Agents, NEW u, NEW limit, NEW lands, NEW fills, CloseTick(a, u, limit, lands, fills)
          PROVE  Snapshot(a)
      BY <2>2, Zenon DEF CloseTick
    <2> QED
      BY <1>1, <1>2, <2>1, <2>2, Zenon DEF HedgeStep

LEMMA SnapshotsInit == Init => SnapshotsAddUp
  BY DEF Init, SnapshotsAddUp

LEMMA OfPremiums ==
    ASSUME NEW s \in Int, NEW c \in Int, NEW q \in Int, NEW m \in Int, NEW n \in Int
    PROVE  s - c - q * n = (m - n) * q + (s - c - q * m)
  <1>1. (m - n) * q = m * q - n * q /\ m * q \in Int /\ n * q \in Int
    OBVIOUS
  <1>2. q * n = n * q /\ q * m = m * q
    OBVIOUS
  <1> QED
    BY <1>1, <1>2

\* Two valuations of the same book, of which all could be marked.
LEMMA NeutralPair ==
    ASSUME NEW s, NEW l, NEW D, IsFiniteSet(D), AddsUp(s), AddsUp(l), NEW book,
           s.held = book, l.held = book, DOMAIN book = D,
           \A u \in D : s.positions[u].status = "ok" /\ l.positions[u].status = "ok",
           \A u \in D : s.perp[u] = l.perp[u] /\ l.perp[u].qty = -book[u].qty
    PROVE  l.nav - s.nav = (s.premium - l.premium) * SumFunction([u \in D |-> book[u].qty])
  <1> DEFINE q == [u \in D |-> book[u].qty]
             f == [u \in D |-> s.positions[u].net]
             g == [u \in D |-> l.positions[u].net]
             k == s.premium - l.premium
  <1>1. /\ s.nav = SumFunction([u \in DOMAIN s.held |-> s.positions[u].net])
        /\ l.nav = SumFunction([u \in DOMAIN l.held |-> l.positions[u].net])
    BY Zenon DEF AddsUp
  <1>2. s.nav = SumFunctionOnSet(f, D) /\ l.nav = SumFunctionOnSet(g, D)
        /\ SumFunction(q) = SumFunctionOnSet(q, D)
    <2>1. DOMAIN f = D /\ DOMAIN g = D /\ DOMAIN q = D
      OBVIOUS
    <2>2. s.nav = SumFunction(f) /\ l.nav = SumFunction(g)
      BY <1>1, Zenon
    <2> HIDE DEF f, g, q
    <2> QED
      BY <2>1, <2>2, Zenon DEF SumFunction
  <1>3. s.premium \in Int /\ l.premium \in Int
    BY DEF AddsUp
  <1>4. ASSUME NEW u \in D
        PROVE  q[u] \in Int /\ f[u] \in Int /\ g[u] = k * q[u] + f[u]
    <2>1. book[u].qty \in Int /\ book[u].cost \in Int
      BY DEF AddsUp, BasisSet
    <2>2. /\ s.perp[u].proceeds \in Int /\ s.positions[u].net \in Int
          /\ s.positions[u].net = s.perp[u].proceeds - book[u].cost - book[u].qty * s.premium
      BY DEF AddsUp
    <2>3. l.positions[u].net = l.perp[u].proceeds - book[u].cost - book[u].qty * l.premium
      BY DEF AddsUp
    <2>4. l.perp[u].proceeds = s.perp[u].proceeds
      OBVIOUS
    <2>5. l.positions[u].net = k * book[u].qty + s.positions[u].net
      BY <1>3, <2>1, <2>2, <2>3, <2>4, OfPremiums
    <2> QED
      BY <2>1, <2>2, <2>5
  <1>5. k \in Int
    BY <1>3
  <1> HIDE DEF q, f, g, k
  <1>6. SumFunctionOnSet(g, D) = k * SumFunctionOnSet(q, D) + SumFunctionOnSet(f, D)
    BY <1>4, <1>5, SumLinear
  <1>7. SumFunctionOnSet(q, D) \in Int /\ SumFunctionOnSet(f, D) \in Int
    BY <1>4, SumTakesOut
  <1>8. k * SumFunctionOnSet(q, D) \in Int
    BY <1>5, <1>7
  <1>9. l.nav - s.nav = k * SumFunction(q)
    BY <1>2, <1>6, <1>7, <1>8
  <1> QED
    BY <1>9 DEF k, q

LEMMA SnapshotsNeutral == TypeOK /\ SnapshotsAddUp => SnapshotIsPriceNeutral
  <1> SUFFICES ASSUME TypeOK, SnapshotsAddUp, NEW a \in Agents,
                      snapshot[a] # << >>, snapshot[a].held = rows[a],
                      \A u \in DOMAIN snapshot[a].positions : snapshot[a].positions[u].status = "ok",
                      \A u \in DOMAIN ValueAgent(a).positions : ValueAgent(a).positions[u].status = "ok",
                      \A u \in DOMAIN rows[a] : snapshot[a].perp[u] = perp[u] /\ perp[u].qty = -rows[a][u].qty
               PROVE  ValueAgent(a).nav - snapshot[a].nav
                        = (snapshot[a].premium - premium) * SumFunction([u \in DOMAIN rows[a] |-> rows[a][u].qty])
    BY Zenon DEF SnapshotIsPriceNeutral
  <1> DEFINE s == snapshot[a]
             l == ValueAgent(a)
             D == DOMAIN rows[a]
  <1>1. AddsUp(s)
    BY DEF SnapshotsAddUp
  <1>2. AddsUp(l) /\ l.held = rows[a] /\ l.perp = perp /\ l.premium = premium
    BY LiveAdds, LiveFields
  <1>3. IsFiniteSet(D) /\ DOMAIN s.positions = D /\ DOMAIN l.positions = D
    BY <1>1, <1>2, FiniteBook DEF AddsUp
  <1>4. \A u \in D : s.positions[u].status = "ok" /\ l.positions[u].status = "ok"
    BY <1>3
  <1>5. \A u \in D : s.perp[u] = l.perp[u] /\ l.perp[u].qty = -rows[a][u].qty
    BY <1>2
  <1>6. s.held = rows[a]
    OBVIOUS
  <1> HIDE DEF s, l
  <1>7. l.nav - s.nav = (s.premium - l.premium) * SumFunction([u \in D |-> rows[a][u].qty])
    BY <1>1, <1>2, <1>3, <1>4, <1>5, <1>6, NeutralPair
  <1> QED
    BY <1>2, <1>7 DEF s, l

\* A snapshot that persistNAVSnapshot (runtime.go) took of a book that is still
\* held as booked differs from the live value of ValueAgent (pnl/pnl.go)
\* only by the premium, whatever the price did.
THEOREM SnapshotCorrect == Spec => []SnapshotIsPriceNeutral
  <1>1. Init => TypeOK /\ SnapshotsAddUp
    BY HedgeInit, SnapshotsInit
  <1>2. TypeOK /\ SnapshotsAddUp /\ [Next]_vars => TypeOK' /\ SnapshotsAddUp'
    BY HedgeTyped, SnapshotsStep
  <1> QED
    BY <1>1, <1>2, SnapshotsNeutral, PTL DEF Spec

-----------------------------------------------------------------------------
(* Reports.                                                                  *)

\* Rounded half up: a difference that is reported as 25 bps or less is below
\* 25.5 bps, and no difference is reported as 0.
LEMMA RoundedBps ==
    ASSUME NEW d \in Nat, NEW q \in Nat, q > 0
    PROVE  /\ relativeBps(d, q) \in Int
           /\ relativeBps(d, q) <= QtyToleranceBps => 20000 * d < 51 * q
           /\ d = 0 => relativeBps(d, q) <= QtyToleranceBps
  <1> DEFINE x == 2 * d * 10000 + q
             n == 2 * q
             b == x \div n
  <1>1. x \in Int /\ n \in Nat /\ n > 0 /\ x = 20000 * d + q
    OBVIOUS
  <1>2. relativeBps(d, q) = b
    BY DEF relativeBps
  <1>3. n = 2 * q
    OBVIOUS
  <1> HIDE DEF x, n
  <1>4. b \in Int /\ b * n <= x /\ x < b * n + n
    BY <1>1, Quotient
  <1> HIDE DEF b
  <1>5. ASSUME b <= 25 PROVE 20000 * d < 51 * q
    <2>1. (25 - b) * n >= 0 /\ (25 - b) * n = 25 * n - b * n /\ b * n \in Int
      BY <1>1, <1>4, <1>5
    <2> QED
      BY <1>1, <1>3, <1>4, <2>1
  <1>6. ASSUME d = 0 PROVE b <= 25
    <2> SUFFICES ASSUME b >= 26 PROVE FALSE
      BY <1>4
    <2>1. (b - 1) * n >= 0 /\ (b - 1) * n = b * n - n /\ b * n \in Int
      BY <1>1, <1>4
    <2> QED
      BY <1>1, <1>3, <1>4, <1>6, <2>1
  <1> QED
    BY <1>2, <1>4, <1>5, <1>6 DEF QtyToleranceBps

LEMMA DriftSeverity ==
    ASSUME NEW leg, NEW field, NEW severity
    PROVE  Drift(leg, field, severity).severity = severity
  BY Zenon DEF Drift

LEMMA GraveDrift == \A rel : severityForRel(rel) # "info"
  BY DEF severityForRel

LEMMA PositiveSquare ==
    ASSUME NEW q \in Nat, q > 0
    PROVE  ~((-q) * (-q) < 0)
  <1>1. (-q) * (-q) = q * q /\ q * q >= 0
    OBVIOUS
  <1> QED
    BY <1>1

\* A row without an issue is hedged, and a row as booked has none.
LEMMA RowChecked ==
    ASSUME TypeOK, NEW a \in Agents, NEW u \in DOMAIN rows[a]
    PROVE  LET row == rows[a][u]
               clean == ~hasIssue(reconcileOne(u, row))
           IN  /\ clean /\ perpUp /\ quotes \notin {"none", "balanceFails"}
                    => /\ 20000 * Abs(perp[u].qty + row.qty) < 51 * row.qty
                       /\ 20000 * (row.qty - wallet[u]) < 51 * row.qty
               /\ AsBooked(a, u) /\ quotes # "balanceFails" => clean
  <1> DEFINE row == rows[a][u]
             q == row.qty
             p == perp[u].qty
             w == wallet[u]
             pd == perpDrift(u, row)
             sd == spotDrift(u, row)
             prel == relativeBps(Abs(p + q), q)
             srel == relativeBps(Abs(w - q), q)
  <1>1. q \in Nat /\ q > 0 /\ p \in Int /\ w \in Nat /\ u \in Underlyings
    BY RowOfBook, PositionOf
  <1>2. Abs(p + q) \in Nat /\ Abs(w - q) \in Nat /\ Abs(-q) = q /\ p - (-q) = p + q
    BY <1>1 DEF Abs
  <1>3. hasIssue(reconcileOne(u, row)) <=> hasIssue(pd) \/ hasIssue(sd)
    BY Zenon DEF hasIssue, reconcileOne
  <1>4. pd = IF ~perpUp THEN {Drift("perp", "exists", "info")}
             ELSE IF u \notin Positions THEN {Drift("perp", "exists", "critical")}
             ELSE IF (-q) * p < 0 THEN {Drift("perp", "side", "critical")}
             ELSE IF prel > QtyToleranceBps THEN {Drift("perp", "qty", severityForRel(prel))} ELSE {}
    <2>1. Abs(p - (-q)) = Abs(p + q)
      BY <1>2
    <2> QED
      BY <1>2, <2>1 DEF perpDrift, Expected, isOppositeSide
  <1>5. sd = IF quotes = "none" THEN {Drift("spot", "exists", "info")}
             ELSE IF quotes = "balanceFails" THEN {Drift("spot", "exists", "warning")}
             ELSE IF w = 0 /\ q > 0 THEN {Drift("spot", "exists", "critical")}
             ELSE IF w < q /\ srel > QtyToleranceBps THEN {Drift("spot", "qty", severityForRel(srel))} ELSE {}
    BY DEF spotDrift, Short
  <1>6. u \in Positions <=> p # 0
    BY <1>1 DEF Positions
  <1>7. /\ \A leg, field, severity : hasIssue({Drift(leg, field, severity)}) <=> (severity # "info")
        /\ ~hasIssue({})
    <2>1. ASSUME NEW leg, NEW field, NEW severity
          PROVE  hasIssue({Drift(leg, field, severity)}) <=> (severity # "info")
      <3> DEFINE d == Drift(leg, field, severity)
      <3>1. d.severity = severity
        BY DriftSeverity
      <3> HIDE DEF d
      <3>2. hasIssue({d}) <=> (d.severity # "info")
        BY DEF hasIssue
      <3> QED
        BY <3>1, <3>2 DEF d
    <2>2. ~hasIssue({})
      BY DEF hasIssue
    <2> QED
      BY <2>1, <2>2
  <1>8. ASSUME ~hasIssue(pd), perpUp
        PROVE  20000 * Abs(p + q) < 51 * q
    <2> HIDE DEF pd, prel
    <2>1. ~(prel > QtyToleranceBps)
      BY <1>4, <1>7, <1>8, GraveDrift
    <2>2. prel \in Int /\ (prel <= QtyToleranceBps => 20000 * Abs(p + q) < 51 * q)
      BY <1>1, <1>2, RoundedBps DEF prel
    <2> QED
      BY <2>1, <2>2 DEF QtyToleranceBps
  <1>9. ASSUME ~hasIssue(sd), quotes \notin {"none", "balanceFails"}
        PROVE  20000 * (q - w) < 51 * q
    <2>1. CASE w >= q
      BY <1>1, <2>1
    <2>2. CASE w < q
      <3> HIDE DEF sd, srel
      <3>1. ~(srel > QtyToleranceBps)
        BY <1>5, <1>7, <1>9, <2>2, GraveDrift
      <3>2. srel \in Int /\ (srel <= QtyToleranceBps => 20000 * Abs(w - q) < 51 * q)
        BY <1>1, <1>2, RoundedBps DEF srel
      <3>3. Abs(w - q) = q - w
        BY <1>1, <2>2 DEF Abs
      <3> QED
        BY <3>1, <3>2, <3>3 DEF QtyToleranceBps
    <2> QED
      BY <1>1, <2>1, <2>2
  <1>10. ASSUME AsBooked(a, u), quotes # "balanceFails"
         PROVE  ~hasIssue(pd) /\ ~hasIssue(sd)
    <2>1. p = -q /\ w = q
      BY <1>10 DEF AsBooked
    <2>2. Abs(p + q) = 0
      BY <1>1, <2>1 DEF Abs
    <2>3. prel \in Int /\ prel <= QtyToleranceBps
      BY <1>1, <2>2, RoundedBps
    <2>4. ~((-q) * p < 0)
      BY <1>1, <2>1, PositiveSquare
    <2> HIDE DEF pd, sd, prel, srel
    <2>5. ~(prel > QtyToleranceBps) /\ p # 0 /\ w # 0 /\ ~(w < q)
      BY <1>1, <2>1, <2>3 DEF QtyToleranceBps
    <2>6. ~hasIssue(pd)
      BY <1>4, <1>6, <1>7, <2>4, <2>5
    <2>7. ~hasIssue(sd)
      BY <1>5, <1>7, <1>10, <2>5
    <2> QED
      BY <2>6, <2>7
  <1> HIDE DEF pd, sd
  <1> QED
    BY <1>3, <1>8, <1>9, <1>10

\* What the command walks.
Line(a, u) == [agent |-> a, underlying |-> u, drifts |-> reconcileOne(u, rows[a][u])]
Walk(S) == UNION {{Line(a, u) : u \in DOMAIN rows[a]} : a \in S}
Clean(S) == {w \in Walk(S) : ~hasIssue(w.drifts)}

LEMMA ReportFields ==
    ASSUME NEW S
    PROVE  /\ Reconcile(S).open = Cardinality(Walk(S)) /\ Reconcile(S).ok = Cardinality(Clean(S))
           /\ Reconcile(S).drifts = UNION {w.drifts : w \in Walk(S)}
  BY Zenon DEF Reconcile, Walk, Line, Clean

LEMMA LineDrifts ==
    ASSUME NEW a, NEW u
    PROVE  Line(a, u).drifts = reconcileOne(u, rows[a][u])
  BY Zenon DEF Line

LEMMA CleanHedged == TypeOK => CleanMeansHedged
  <1> SUFFICES ASSUME TypeOK, NEW a \in Agents, Reconcile({a}).ok = Reconcile({a}).open, perpUp,
                      quotes \notin {"none", "balanceFails"}, NEW u \in DOMAIN rows[a]
               PROVE  /\ 20000 * Abs(perp[u].qty + rows[a][u].qty) < 51 * rows[a][u].qty
                      /\ 20000 * (rows[a][u].qty - wallet[u]) < 51 * rows[a][u].qty
    BY DEF CleanMeansHedged
  <1> DEFINE D == DOMAIN rows[a]
             f == [v \in D |-> Line(a, v)]
  <1>1. f \in Surjection(D, Walk({a}))
    BY DEF Surjection, Walk
  <1>2. IsFiniteSet(Walk({a}))
    BY <1>1, FiniteBook, FS_Surjection
  <1>3. Clean({a}) = Walk({a})
    <2>1. Clean({a}) \in SUBSET Walk({a})
      BY DEF Clean
    <2>2. Cardinality(Clean({a})) = Cardinality(Walk({a}))
      BY ReportFields
    <2> QED
      BY <1>2, <2>1, <2>2, FS_Subset
  <1>4. Line(a, u) \in Walk({a})
    BY DEF Walk
  <1>5. ~hasIssue(Line(a, u).drifts)
    BY <1>3, <1>4, Zenon DEF Clean
  <1> QED
    BY <1>5, LineDrifts, RowChecked

LEMMA BookedClean == TypeOK => BookedLegsAreClean
  <1> SUFFICES ASSUME TypeOK, quotes # "balanceFails", \A a \in Agents : \A u \in DOMAIN rows[a] : AsBooked(a, u)
               PROVE  Reconcile(Agents).ok = Reconcile(Agents).open /\ ~hasIssue(Reconcile(Agents).drifts)
    BY Zenon DEF BookedLegsAreClean
  <1>1. \A a \in Agents : \A u \in DOMAIN rows[a] : ~hasIssue(reconcileOne(u, rows[a][u]))
    BY RowChecked
  <1>2. \A w \in Walk(Agents) : ~hasIssue(w.drifts)
    <2>1. TAKE w \in Walk(Agents)
    <2>2. PICK a \in Agents : w \in {Line(a, u) : u \in DOMAIN rows[a]}
      BY DEF Walk
    <2>3. PICK u \in DOMAIN rows[a] : w = Line(a, u)
      BY <2>2
    <2> QED
      BY <1>1, <2>3, LineDrifts
  <1>3. Clean(Agents) = Walk(Agents)
    BY <1>2 DEF Clean
  <1>4. ~hasIssue(UNION {w.drifts : w \in Walk(Agents)})
    BY <1>2, Zenon DEF hasIssue
  <1> QED
    BY <1>3, <1>4, ReportFields

\* "OK" of a report (reconcile.go): if every row is OK and both venues answered,
\* every row is short and backed in the wallet by its size, to a quarter of a
\* percent and half a basis point.
THEOREM CleanReportCorrect == Spec => []CleanMeansHedged
  BY BookTypeCorrect, CleanHedged, PTL

\* The other way around: legs that are held as booked raise no issue in the
\* report (reconcile.go), whoever holds them and whatever the book.
THEOREM BookedReportCorrect == Spec => []BookedLegsAreClean
  BY BookTypeCorrect, BookedClean, PTL
=============================================================================
