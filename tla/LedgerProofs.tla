----------------------------- MODULE LedgerProofs -----------------------------
(***************************************************************************)
(* Ledger for every number of members, advances and periods, and for every *)
(* amount, salary and rate: the tables stay well typed, recovered amounts  *)
(* never drift from the recovery rows, and nobody repays more than was     *)
(* advanced or than the pay allows.                                        *)
(***************************************************************************)
EXTENDS Ledger, DeductionProofs

(* What the safety invariants need besides themselves: an advance that     *)
(* exists is for a positive amount, a free slot has nothing recovered.     *)
RowShape ==
    \A a \in AdvanceIds :
        /\ advance[a].exists => advance[a].amount > 0
        /\ ~advance[a].exists => advance[a].recoveredAmount = 0

LedgerInv ==
    /\ TypeOK
    /\ RowShape
    /\ RecoveredMatchesRows
    /\ NeverOverRecovered

(* The deductions a recovery may record: a positive one is at most what is *)
(* outstanding, of an advance that exists and is open.                     *)
Deductible(ded) ==
    /\ ded \in [AdvanceIds -> Int]
    /\ \A a \in AdvanceIds : ded[a] > 0 =>
          /\ advance[a].exists /\ ~advance[a].closed
          /\ ded[a] <= Outstanding(advance[a])

-----------------------------------------------------------------------------
(* What a period asks of an open advance is at most what is outstanding.   *)
(* It may be less than nothing: no validation looks at every instalment.   *)
LEMMA RequestedBounds ==
    ASSUME LedgerInv, NEW a \in AdvanceIds, advance[a].exists, ~advance[a].closed
    PROVE  /\ Outstanding(advance[a]) \in Nat \ {0}
           /\ Requested(advance[a]) \in Int
           /\ Requested(advance[a]) <= Outstanding(advance[a])
  <1>1. /\ advance[a] \in Advance
        /\ advance[a].amount \in Nat \ {0}
        /\ advance[a].recoveredAmount \in Nat
        /\ advance[a].recoveredAmount < advance[a].amount
    BY DEF LedgerInv, TypeOK, Advance, RowShape, RecoveredMatchesRows
  <1>2. Outstanding(advance[a]) \in Nat \ {0}
    BY <1>1 DEF Outstanding
  <1>3. advance[a].instalmentAmount # None => advance[a].instalmentAmount \in Int
    BY <1>1 DEF Advance
  <1>4. QED
    BY <1>1, <1>2, <1>3 DEF Requested, Least, Outstanding

LEMMA RequestsType ==
    ASSUME LedgerInv, NEW m, NEW o \in Orders
    PROVE  RequestsOf(m, o) \in [1..NumAdvances -> Int]
  <1>1. ASSUME NEW i \in AdvanceIds
        PROVE  RequestsOf(m, o)[i] \in Int
    <2>1. o[i] \in AdvanceIds
      BY DEF Orders
    <2>2. CASE Recoverable(o[i], m)
      <3>1. Requested(advance[o[i]]) \in Int
        BY <2>1, <2>2, RequestedBounds DEF Recoverable
      <3>2. QED
        BY <2>2, <3>1 DEF RequestsOf
    <2>3. CASE ~Recoverable(o[i], m)
      BY <2>3 DEF RequestsOf
    <2>4. QED
      BY <2>2, <2>3
  <1>2. QED
    BY <1>1 DEF RequestsOf, AdvanceIds

(* The capped deductions of a payroll run, whatever the headroom. *)
LEMMA CappedDeductible ==
    ASSUME LedgerInv, LedgerAssumption, NEW m, NEW o \in Orders, NEW headroom \in Nat
    PROVE  Deductible(Capped(m, o, headroom))
  <1>1. ASSUME NEW a \in AdvanceIds, Recoverable(a, m)
        PROVE  /\ Capped(m, o, headroom)[a] \in Int
               /\ Capped(m, o, headroom)[a] <= Outstanding(advance[a])
    <2> DEFINE i == Position(o, a)
    <2>1. i \in AdvanceIds /\ o[i] = a
      <3>1. \E k \in AdvanceIds : o[k] = a
        BY DEF Orders
      <3>2. QED
        BY <3>1 DEF Position
    <2> HIDE DEF i
    <2>2. RequestsOf(m, o)[i] = Requested(advance[a])
      BY <1>1, <2>1 DEF RequestsOf
    <2>3. Requested(advance[a]) \in Int /\ Requested(advance[a]) <= Outstanding(advance[a])
      BY <1>1, RequestedBounds DEF Recoverable
    <2>4. /\ DeductedAt(RequestsOf(m, o), headroom, NumAdvances)[i] \in Int
          /\ DeductedAt(RequestsOf(m, o), headroom, NumAdvances)[i] <= Requested(advance[a])
      <3>1. NumAdvances \in Nat /\ i \in 1..NumAdvances
        BY <2>1 DEF LedgerAssumption, AdvanceIds
      <3>2. \A k \in 1..NumAdvances :
              /\ DeductedAt(RequestsOf(m, o), headroom, NumAdvances)[k] \in Int
              /\ DeductedAt(RequestsOf(m, o), headroom, NumAdvances)[k] <= RequestsOf(m, o)[k]
        BY <3>1, RequestsType, DeductionBounds
      <3>3. QED
        BY <3>1, <3>2, <2>2
    <2>5. Outstanding(advance[a]) \in Int
      BY DEF LedgerInv, TypeOK, Advance, Outstanding
    <2>6. Capped(m, o, headroom)[a] = DeductedAt(RequestsOf(m, o), headroom, NumAdvances)[i]
      BY <1>1 DEF Capped, i
    <2>7. QED
      BY <2>3, <2>4, <2>5, <2>6
  <1>2. ASSUME NEW a \in AdvanceIds, ~Recoverable(a, m)
        PROVE  Capped(m, o, headroom)[a] = 0
    BY <1>2 DEF Capped
  <1>3. \A a \in AdvanceIds : Outstanding(advance[a]) \in Int
    BY DEF LedgerInv, TypeOK, Advance, Outstanding
  <1>4. \A a \in AdvanceIds : Capped(m, o, headroom)[a] \in Int
    BY <1>1, <1>2
  <1>5. Capped(m, o, headroom) \in [AdvanceIds -> Int]
    <2>1. Capped(m, o, headroom) = [a \in AdvanceIds |-> Capped(m, o, headroom)[a]]
      BY DEF Capped
    <2>2. QED
      BY <1>4, <2>1
  <1>6. \A a \in AdvanceIds : Capped(m, o, headroom)[a] > 0 => Recoverable(a, m)
    BY <1>2
  <1>7. QED
    BY <1>1, <1>3, <1>5, <1>6 DEF Deductible, Recoverable

LEMMA UncappedDeductible ==
    ASSUME LedgerInv, NEW m
    PROVE  Deductible(Uncapped(m))
  <1>1. \A a \in AdvanceIds : Outstanding(advance[a]) \in Int
    BY DEF LedgerInv, TypeOK, Advance, Outstanding
  <1>2. \A a \in AdvanceIds : Recoverable(a, m) =>
          /\ Requested(advance[a]) \in Int
          /\ Requested(advance[a]) <= Outstanding(advance[a])
    BY RequestedBounds DEF Recoverable
  <1>3. QED
    BY <1>1, <1>2 DEF Deductible, Uncapped, Recoverable

-----------------------------------------------------------------------------
(* Recording deductions of a period: the heart of applyRecoveryInTx. *)

LEMMA RowsAfterType ==
    ASSUME TypeOK, NEW ded, Deductible(ded), NEW p \in Periods
    PROVE  RowsAfter(ded, p) \in [AdvanceIds -> [Periods -> Nat]]
  BY DEF TypeOK, Deductible, RowsAfter

(* The new sum of an advance's rows lies between nothing and its amount:   *)
(* overwriting the row of a period that was already recovered can only     *)
(* replace what that period took.                                          *)
LEMMA NewTotalBounds ==
    ASSUME LedgerInv, LedgerAssumption, NEW ded, Deductible(ded), NEW p \in Periods,
           NEW a \in AdvanceIds, ded[a] > 0
    PROVE  /\ SumOf(RowsAfter(ded, p)[a], NumPeriods) \in Nat
           /\ SumOf(RowsAfter(ded, p)[a], NumPeriods) <= advance[a].amount
  <1>1. /\ NumPeriods \in Nat /\ p \in 1..NumPeriods
        /\ recovery[a] \in [1..NumPeriods -> Nat]
        /\ ded[a] \in Nat
    BY DEF LedgerInv, TypeOK, LedgerAssumption, Periods, Deductible
  <1>2. RowsAfter(ded, p)[a] = [recovery[a] EXCEPT ![p] = ded[a]]
    BY DEF RowsAfter
  <1>3. [recovery[a] EXCEPT ![p] = ded[a]] \in [1..NumPeriods -> Nat]
    BY <1>1
  <1>4. SumOf([recovery[a] EXCEPT ![p] = ded[a]], NumPeriods) \in Nat
    BY <1>1, <1>3, SumOfNat
  <1>5. SumOf([recovery[a] EXCEPT ![p] = ded[a]], NumPeriods)
            = SumOf(recovery[a], NumPeriods) - recovery[a][p] + ded[a]
    <2>1. recovery[a] \in [1..NumPeriods -> Int] /\ ded[a] \in Int
      BY <1>1
    <2>2. QED
      BY <1>1, <2>1, SumOfOverwrite
  <1>6. /\ SumOf(recovery[a], NumPeriods) \in Nat
        /\ recovery[a][p] \in Nat
    BY <1>1, SumOfNat
  <1>7. ded[a] <= advance[a].amount - SumOf(recovery[a], NumPeriods)
    BY DEF Deductible, Outstanding, LedgerInv, RecoveredMatchesRows
  <1>8. advance[a].amount \in Nat
    BY DEF LedgerInv, TypeOK, Advance
  <1>9. QED
    BY <1>1, <1>2, <1>4, <1>5, <1>6, <1>7, <1>8

(* A comparison of naturals, kept in a record field, is a Boolean. *)
LEMMA AtLeastIsBoolean ==
    ASSUME NEW x \in Nat, NEW y \in Nat, NEW c, c = (x >= y)
    PROVE  c \in BOOLEAN /\ (c <=> x >= y)
  <1>1. c \in BOOLEAN
    OBVIOUS
  <1>2. c <=> x >= y
    OBVIOUS
  <1>3. QED
    BY <1>1, <1>2

LEMMA RecordPreserves ==
    ASSUME LedgerInv, LedgerAssumption, NEW ded, Deductible(ded), NEW p \in Periods,
           recovery' = RowsAfter(ded, p),
           advance' = AdvancesAfter(ded, p)
    PROVE  /\ advance' \in [AdvanceIds -> Advance]
           /\ recovery' \in [AdvanceIds -> [Periods -> Nat]]
           /\ RowShape'
           /\ RecoveredMatchesRows'
           /\ NeverOverRecovered'
  <1> DEFINE total(a) == SumOf(RowsAfter(ded, p)[a], NumPeriods)
  <1>1. recovery' \in [AdvanceIds -> [Periods -> Nat]]
    BY RowsAfterType DEF LedgerInv
  <1>2. ASSUME NEW a \in AdvanceIds, ded[a] > 0
        PROVE  /\ advance'[a] = [advance[a] EXCEPT !.recoveredAmount = total(a),
                                                   !.closed = total(a) >= advance[a].amount]
               /\ recovery'[a] = RowsAfter(ded, p)[a]
               /\ total(a) \in Nat /\ total(a) <= advance[a].amount
               /\ advance[a].exists
    BY <1>2, NewTotalBounds DEF AdvancesAfter, Deductible
  <1>3. ASSUME NEW a \in AdvanceIds, ~(ded[a] > 0)
        PROVE  advance'[a] = advance[a] /\ recovery'[a] = recovery[a]
    BY <1>3 DEF AdvancesAfter, RowsAfter
  <1>4. \A a \in AdvanceIds : advance[a] \in Advance
    BY DEF LedgerInv, TypeOK
  <1> HIDE DEF total
  <1>5. ASSUME NEW a \in AdvanceIds, ded[a] > 0
        PROVE  /\ advance'[a] \in Advance
               /\ advance'[a].exists <=> advance[a].exists
               /\ advance'[a].amount = advance[a].amount
               /\ advance'[a].recoveredAmount = total(a)
               /\ advance'[a].closed <=> total(a) >= advance[a].amount
    <2>1. PICK t \in Nat : t = total(a)
      BY <1>2, <1>5
    <2>2. PICK c : c = (t >= advance[a].amount)
      BY Zenon
    <2>3. advance'[a] = [advance[a] EXCEPT !.recoveredAmount = t, !.closed = c]
      BY <1>2, <1>5, <2>1, <2>2, Zenon
    <2>4. c \in BOOLEAN /\ (c <=> t >= advance[a].amount)
      <3>1. advance[a].amount \in Nat
        BY <1>4 DEF Advance
      <3>2. QED
        BY <2>2, <3>1, AtLeastIsBoolean
    <2>5. /\ advance'[a] \in Advance
          /\ advance'[a].exists = advance[a].exists
          /\ advance'[a].amount = advance[a].amount
          /\ advance'[a].recoveredAmount = t
          /\ advance'[a].closed = c
      <3>1. advance[a] \in Advance
        BY <1>4
      <3>2. QED
        BY <2>3, <2>4, <3>1 DEF Advance
    <2>6. QED
      BY <2>1, <2>4, <2>5
  <1>6. advance' \in [AdvanceIds -> Advance]
    <2>1. advance' = [a \in AdvanceIds |-> advance'[a]]
      BY DEF AdvancesAfter
    <2>2. \A a \in AdvanceIds : advance'[a] \in Advance
      BY <1>3, <1>4, <1>5
    <2>3. QED
      BY <2>1, <2>2
  <1>7. RowShape'
    <2> SUFFICES ASSUME NEW a \in AdvanceIds
                 PROVE  /\ advance'[a].exists => advance'[a].amount > 0
                        /\ ~advance'[a].exists => advance'[a].recoveredAmount = 0
      BY DEF RowShape
    <2>1. CASE ded[a] > 0
      BY <1>2, <1>5, <2>1 DEF RowShape, LedgerInv
    <2>2. CASE ~(ded[a] > 0)
      BY <1>3, <2>2 DEF RowShape, LedgerInv
    <2>3. QED
      BY <2>1, <2>2
  <1>8. RecoveredMatchesRows'
    <2> SUFFICES ASSUME NEW a \in AdvanceIds
                 PROVE  /\ advance'[a].recoveredAmount = SumOf(recovery'[a], NumPeriods)
                        /\ advance'[a].exists =>
                             (advance'[a].closed <=>
                                advance'[a].recoveredAmount >= advance'[a].amount)
      BY DEF RecoveredMatchesRows
    <2>1. CASE ded[a] > 0
      BY <1>2, <1>5, <2>1 DEF total
    <2>2. CASE ~(ded[a] > 0)
      BY <1>3, <2>2 DEF RecoveredMatchesRows, LedgerInv
    <2>3. QED
      BY <2>1, <2>2
  <1>9. NeverOverRecovered'
    <2> SUFFICES ASSUME NEW a \in AdvanceIds
                 PROVE  SumOf(recovery'[a], NumPeriods) <= advance'[a].amount
      BY DEF NeverOverRecovered
    <2>1. CASE ded[a] > 0
      BY <1>2, <1>5, <2>1 DEF total
    <2>2. CASE ~(ded[a] > 0)
      BY <1>3, <2>2 DEF NeverOverRecovered, LedgerInv
    <2>3. QED
      BY <2>1, <2>2
  <1>10. QED
    BY <1>1, <1>6, <1>7, <1>8, <1>9

-----------------------------------------------------------------------------
(* The ledger invariant holds from the start and through every action. *)

LEMMA InitLedger ==
    ASSUME LedgerAssumption, Init
    PROVE  LedgerInv
  <1>1. NoAdvance \in Advance
    BY DEF LedgerAssumption, NoAdvance, Advance, Modes
  <1>2. NoRows \in [Periods -> Nat] /\ SumOf(NoRows, NumPeriods) = 0
    BY SumOfNothing DEF NoRows, Periods, LedgerAssumption
  <1>3. TypeOK
    <2>1. NoPayslip \in Payslip
      BY DEF NoPayslip, Payslip
    <2>2. settings \in [tax: 0..100, contribution: 0..100]
      BY DEF Init, NoSettings
    <2>3. salary \in [Members -> Nat] /\ onPayroll \subseteq Members
      BY DEF Init, LedgerAssumption
    <2>4. QED
      BY <1>1, <1>2, <2>1, <2>2, <2>3 DEF Init, TypeOK
  <1>4. \A a \in AdvanceIds : advance[a] = NoAdvance /\ recovery[a] = NoRows
    BY DEF Init
  <1>5. /\ NoAdvance.exists = FALSE /\ NoAdvance.recoveredAmount = 0
        /\ NoAdvance.amount = 0
    BY DEF NoAdvance
  <1>6. RowShape
    BY <1>4, <1>5 DEF RowShape
  <1>7. RecoveredMatchesRows
    BY <1>2, <1>4, <1>5 DEF RecoveredMatchesRows
  <1>8. NeverOverRecovered
    BY <1>2, <1>4, <1>5 DEF NeverOverRecovered
  <1>9. QED
    BY <1>3, <1>6, <1>7, <1>8 DEF LedgerInv

LEMMA CreatePreserves ==
    ASSUME LedgerInv, LedgerAssumption, NEW a \in AdvanceIds, NEW m \in Members,
           NEW amount \in Amounts, NEW date \in Dates, NEW mode \in Modes,
           NEW instalment \in Amounts \cup {None},
           CreateAdvance(a, m, amount, date, mode, instalment)
    PROVE  LedgerInv'
  <1> DEFINE row == NewAdvance(m, amount, date, mode, instalment)
  <1>1. /\ row \in Advance
        /\ row.exists = TRUE /\ row.closed = FALSE
        /\ row.amount \in Nat /\ row.amount > 0 /\ row.recoveredAmount = 0
    <2>1. row.instalmentAmount \in Int \cup {None}
      BY DEF NewAdvance, LedgerAssumption
    <2>2. QED
      BY <2>1 DEF NewAdvance, Advance, LedgerAssumption, Modes
  <1>2. /\ advance' = [advance EXCEPT ![a] = row]
        /\ ~advance[a].exists
        /\ recovery' = recovery
        /\ UNCHANGED <<payslip, settings, salary, onPayroll>>
    BY DEF CreateAdvance
  <1>3. SumOf(recovery[a], NumPeriods) = 0
    BY <1>2 DEF LedgerInv, RowShape, RecoveredMatchesRows
  <1> HIDE DEF row
  <1>4. TypeOK'
    BY <1>1, <1>2 DEF LedgerInv, TypeOK
  <1>5. /\ advance'[a] = row
        /\ \A b \in AdvanceIds : b # a => advance'[b] = advance[b]
    BY <1>2 DEF LedgerInv, TypeOK
  <1>6. RowShape'
    BY <1>1, <1>5 DEF LedgerInv, RowShape
  <1>7. RecoveredMatchesRows'
    BY <1>1, <1>2, <1>3, <1>5 DEF LedgerInv, RecoveredMatchesRows
  <1>8. NeverOverRecovered'
    BY <1>1, <1>2, <1>3, <1>5 DEF LedgerInv, NeverOverRecovered
  <1>9. QED
    BY <1>4, <1>6, <1>7, <1>8 DEF LedgerInv

LEMMA UpdatePreserves ==
    ASSUME LedgerInv, LedgerAssumption, NEW a \in AdvanceIds,
           NEW amount \in Amounts \cup {None}, NEW date \in Dates,
           NEW mode \in Modes \cup {None},
           NEW instalment \in Amounts \cup Instalments \cup {None},
           UpdateAdvance(a, amount, date, mode, instalment)
    PROVE  LedgerInv'
  <1> DEFINE recoveryMode == Given(mode, advance[a].recoveryMode)
  <1>1. PICK row : advance' = [advance EXCEPT ![a] = row]
                   /\ row = [advance[a] EXCEPT
                        !.amount = Given(amount, @),
                        !.dateGiven = date,
                        !.recoveryMode = recoveryMode,
                        !.instalmentAmount = IF recoveryMode = "INSTALMENT"
                                             THEN Given(instalment, @) ELSE None]
    BY DEF UpdateAdvance, LedgerInv, TypeOK
  <1>2. /\ advance[a].exists
        /\ amount # None => advance[a].recoveredAmount <= 0
        /\ recovery' = recovery
        /\ UNCHANGED <<payslip, settings, salary, onPayroll>>
    BY DEF UpdateAdvance
  <1>3. advance[a] \in Advance
    BY DEF LedgerInv, TypeOK
  <1>4. /\ amount # None => amount \in Nat /\ amount > 0
        /\ date \in Nat
        /\ instalment \in Int \cup {None}
        /\ recoveryMode \in Modes
    BY <1>3 DEF LedgerAssumption, Given, Advance
  <1> HIDE DEF recoveryMode
  <1>5. /\ row \in Advance
        /\ row.exists = advance[a].exists
        /\ row.closed = advance[a].closed
        /\ row.recoveredAmount = advance[a].recoveredAmount
        /\ row.amount = IF amount = None THEN advance[a].amount ELSE amount
    <2>1. PICK due \in Int \cup {None}, newAmount \in Nat :
                row = [advance[a] EXCEPT !.amount = newAmount, !.dateGiven = date,
                                         !.recoveryMode = recoveryMode,
                                         !.instalmentAmount = due]
                /\ newAmount = IF amount = None THEN advance[a].amount ELSE amount
      BY <1>1, <1>3, <1>4 DEF Advance, Given
    <2>2. QED
      BY <1>3, <1>4, <2>1 DEF Advance
  <1>6. /\ advance'[a] = row
        /\ \A b \in AdvanceIds : b # a => advance'[b] = advance[b]
    BY <1>1 DEF LedgerInv, TypeOK
  <1>7. TypeOK'
    BY <1>1, <1>2, <1>5 DEF LedgerInv, TypeOK
  <1>8. advance[a].amount > 0 /\ advance[a].amount \in Nat /\ advance[a].recoveredAmount \in Nat
    BY <1>2, <1>3 DEF LedgerInv, RowShape, Advance
  <1>9. RowShape'
    BY <1>2, <1>4, <1>5, <1>6, <1>8 DEF LedgerInv, RowShape
  <1>10. /\ advance[a].recoveredAmount = SumOf(recovery[a], NumPeriods)
         /\ advance[a].closed <=> advance[a].recoveredAmount >= advance[a].amount
         /\ SumOf(recovery[a], NumPeriods) <= advance[a].amount
    BY <1>2 DEF LedgerInv, RecoveredMatchesRows, NeverOverRecovered
  <1>11. /\ row.recoveredAmount = SumOf(recovery[a], NumPeriods)
         /\ row.closed <=> row.recoveredAmount >= row.amount
         /\ SumOf(recovery[a], NumPeriods) <= row.amount
    <2>1. CASE amount = None
      BY <1>5, <1>10, <2>1
    <2>2. CASE amount # None
      <3>1. advance[a].recoveredAmount = 0 /\ amount > 0 /\ row.amount = amount
        BY <1>2, <1>4, <1>5, <1>8, <2>2
      <3>2. QED
        BY <1>4, <1>5, <1>8, <1>10, <3>1
    <2>3. QED
      BY <2>1, <2>2
  <1>12. RecoveredMatchesRows'
    BY <1>2, <1>6, <1>11 DEF LedgerInv, RecoveredMatchesRows
  <1>13. NeverOverRecovered'
    BY <1>2, <1>6, <1>11 DEF LedgerInv, NeverOverRecovered
  <1>14. QED
    BY <1>7, <1>9, <1>12, <1>13 DEF LedgerInv

LEMMA RemovePreserves ==
    ASSUME LedgerInv, LedgerAssumption, NEW a \in AdvanceIds, RemoveAdvance(a)
    PROVE  LedgerInv'
  <1>1. NoAdvance \in Advance
    BY DEF LedgerAssumption, NoAdvance, Advance, Modes
  <1>2. /\ advance' = [advance EXCEPT ![a] = NoAdvance]
        /\ recovery[a] = NoRows /\ recovery' = recovery
        /\ UNCHANGED <<payslip, settings, salary, onPayroll>>
    BY DEF RemoveAdvance
  <1>3. SumOf(recovery[a], NumPeriods) = 0
    BY <1>2, SumOfNothing DEF NoRows, Periods, LedgerAssumption
  <1>4. TypeOK'
    BY <1>1, <1>2 DEF LedgerInv, TypeOK
  <1>5. /\ advance'[a] = NoAdvance
        /\ \A b \in AdvanceIds : b # a => advance'[b] = advance[b]
    BY <1>2 DEF LedgerInv, TypeOK
  <1>6. /\ NoAdvance.exists = FALSE /\ NoAdvance.recoveredAmount = 0
        /\ NoAdvance.amount = 0
    BY DEF NoAdvance
  <1> HIDE DEF NoAdvance
  <1>7. RowShape'
    BY <1>5, <1>6 DEF LedgerInv, RowShape
  <1>8. RecoveredMatchesRows'
    BY <1>2, <1>3, <1>5, <1>6 DEF LedgerInv, RecoveredMatchesRows
  <1>9. NeverOverRecovered'
    BY <1>2, <1>3, <1>5, <1>6 DEF LedgerInv, NeverOverRecovered
  <1>10. QED
    BY <1>4, <1>7, <1>8, <1>9 DEF LedgerInv

LEMMA ApplyPreserves ==
    ASSUME LedgerInv, LedgerAssumption, NEW m \in Members, NEW p \in Periods,
           ApplyRecovery(m, p)
    PROVE  LedgerInv'
  <1>1. PICK ded : ded = Uncapped(m)
    OBVIOUS
  <1>2. Deductible(ded)
    BY <1>1, UncappedDeductible
  <1>3. recovery' = RowsAfter(ded, p) /\ advance' = AdvancesAfter(ded, p)
    BY <1>1 DEF ApplyRecovery
  <1>4. /\ advance' \in [AdvanceIds -> Advance]
        /\ recovery' \in [AdvanceIds -> [Periods -> Nat]]
        /\ RowShape' /\ RecoveredMatchesRows' /\ NeverOverRecovered'
    BY <1>2, <1>3, RecordPreserves
  <1>5. UNCHANGED <<payslip, settings, salary, onPayroll>>
    BY DEF ApplyRecovery
  <1>6. TypeOK'
    BY <1>4, <1>5 DEF LedgerInv, TypeOK
  <1>7. QED
    BY <1>4, <1>6 DEF LedgerInv

(* What generate recovers from all the members of S together. *)
PayrollRun(S, receivable, o) ==
    [a \in AdvanceIds |->
        IF advance[a].member \in S
        THEN PayrollDeductions(advance[a].member, o, receivable[advance[a].member])[a]
        ELSE 0]

LEMMA AdjustedPayType ==
    ASSUME TypeOK, NEW m \in Members, NEW receivable \in Nat
    PROVE  /\ NetPay(salary[m], settings.tax, settings.contribution) \in Int
           /\ AdjustedPay(m, receivable) \in Int
           /\ AtLeastZero(AdjustedPay(m, receivable)) \in Nat
  <1>1. /\ salary[m] \in Nat
        /\ settings.tax \in Nat /\ settings.contribution \in Nat
    BY DEF TypeOK
  <1>2. \A x, y \in Nat : Percent(x, y) \in Int
    <2> SUFFICES ASSUME NEW x \in Nat, NEW y \in Nat
                 PROVE  (2 * x * y + 100) \div 200 \in Int
      BY DEF Percent
    <2>1. x * y \in Nat
      OBVIOUS
    <2>2. PICK z \in Nat : z = 2 * x * y + 100
      BY <2>1
    <2>3. z \div 200 \in Int
      OBVIOUS
    <2>4. QED
      BY <2>2, <2>3
  <1>3. NetPay(salary[m], settings.tax, settings.contribution) \in Int
    BY <1>1, <1>2 DEF NetPay
  <1>4. QED
    BY <1>3 DEF AdjustedPay, AtLeastZero

LEMMA PayrollDeductible ==
    ASSUME LedgerInv, LedgerAssumption, NEW S \in SUBSET Members,
           NEW receivable \in [Members -> Receivables], NEW o \in Orders
    PROVE  Deductible(PayrollRun(S, receivable, o))
  <1> DEFINE D(m) == PayrollDeductions(m, o, receivable[m])
  <1>1. ASSUME NEW m \in Members
        PROVE  Deductible(D(m))
    <2>1. receivable[m] \in Nat
      BY DEF LedgerAssumption
    <2>2. AtLeastZero(AdjustedPay(m, receivable[m])) \in Nat
      BY <2>1, AdjustedPayType DEF LedgerInv
    <2>3. PICK headroom \in Nat : headroom = AtLeastZero(AdjustedPay(m, receivable[m]))
      BY <2>2
    <2>4. Deductible(Capped(m, o, headroom))
      BY CappedDeductible
    <2>5. D(m) = Capped(m, o, headroom)
      BY <2>3 DEF PayrollDeductions
    <2>6. QED
      BY <2>4, <2>5
  <1> HIDE DEF D
  <1>2. \A a \in AdvanceIds : advance[a].member \in Members
    BY DEF LedgerInv, TypeOK, Advance
  <1>3. \A a \in AdvanceIds :
          PayrollRun(S, receivable, o)[a] =
            IF advance[a].member \in S THEN D(advance[a].member)[a] ELSE 0
    BY DEF PayrollRun, D
  <1>4. \A a \in AdvanceIds : PayrollRun(S, receivable, o)[a] \in Int
    BY <1>1, <1>2, <1>3 DEF Deductible
  <1>5. PayrollRun(S, receivable, o) \in [AdvanceIds -> Int]
    BY <1>4 DEF PayrollRun
  <1>6. ASSUME NEW a \in AdvanceIds, PayrollRun(S, receivable, o)[a] > 0
        PROVE  /\ advance[a].exists /\ ~advance[a].closed
               /\ PayrollRun(S, receivable, o)[a] <= Outstanding(advance[a])
    <2>1. PayrollRun(S, receivable, o)[a] = D(advance[a].member)[a]
      BY <1>3, <1>6
    <2>2. QED
      BY <1>1, <1>2, <1>6, <2>1 DEF Deductible
  <1>7. QED
    BY <1>5, <1>6 DEF Deductible

(* A payslip recovers no more than the pay it pays out. *)
SlipWithinPay(slip) ==
    /\ slip.advanceRecovery
         <= AtLeastZero(slip.netPay + slip.previousMonthReceivable)
    /\ slip.netPayable
         = (slip.netPay + slip.previousMonthReceivable) - slip.advanceRecovery

(* No open advance of m asks for less than nothing. *)
NobodyGivesBack(m) ==
    \A a \in AdvanceIds : Recoverable(a, m) => Requested(advance[a]) >= 0

LEMMA PayslipOfWithinPay ==
    ASSUME LedgerInv, LedgerAssumption, NEW m \in Members,
           NEW receivable \in Nat, NEW o \in Orders
    PROVE  /\ PayslipOf(m, o, receivable) \in Payslip
           /\ SlipWithinPay(PayslipOf(m, o, receivable))
           /\ NobodyGivesBack(m) => PayslipOf(m, o, receivable).advanceRecovery >= 0
  <1>1. PICK net \in Int : net = NetPay(salary[m], settings.tax, settings.contribution)
    BY AdjustedPayType DEF LedgerInv
  <1>2. AdjustedPay(m, receivable) = net + receivable
    BY <1>1 DEF AdjustedPay
  <1>3. PICK headroom \in Nat : headroom = AtLeastZero(net + receivable)
    BY DEF AtLeastZero
  <1>4. NobodyGivesBack(m) => \A i \in 1..NumAdvances : RequestsOf(m, o)[i] >= 0
    <2>1. \A i \in AdvanceIds : o[i] \in AdvanceIds
      BY DEF Orders
    <2>2. QED
      BY <2>1 DEF NobodyGivesBack, RequestsOf, AdvanceIds
  <1>5. PICK taken \in Int :
            /\ taken = TotalDeduction(RequestsOf(m, o), headroom, NumAdvances)
            /\ taken <= headroom
            /\ NobodyGivesBack(m) => taken >= 0
    <2>1. NumAdvances \in Nat
      BY DEF LedgerAssumption
    <2>2. QED
      BY <2>1, <1>4, RequestsType, DeductionBounds
  <1>6. PayrollRecovery(m, o, receivable) = taken
    BY <1>2, <1>3, <1>5 DEF PayrollRecovery
  <1>7. PICK payable \in Int :
            /\ payable = AdjustedPay(m, receivable) - PayrollRecovery(m, o, receivable)
            /\ payable = net + receivable - taken
    BY <1>2, <1>6
  <1>8. PayslipOf(m, o, receivable) =
            [exists |-> TRUE, netPay |-> net, previousMonthReceivable |-> receivable,
             advanceRecovery |-> taken, netPayable |-> payable]
    BY <1>1, <1>6, <1>7, Zenon DEF PayslipOf
  <1>9. QED
    BY <1>3, <1>5, <1>7, <1>8 DEF SlipWithinPay, Payslip

LEMMA GeneratePreserves ==
    ASSUME LedgerInv, LedgerAssumption, NEW S \in SUBSET Members, NEW p \in Periods,
           NEW receivable \in [Members -> Receivables], NEW o \in Orders,
           Generate(S, p, receivable, o)
    PROVE  LedgerInv'
  <1>1. PICK ded : ded = PayrollRun(S, receivable, o)
    OBVIOUS
  <1>2. Deductible(ded)
    BY <1>1, PayrollDeductible
  <1>3. recovery' = RowsAfter(ded, p) /\ advance' = AdvancesAfter(ded, p)
    BY <1>1 DEF Generate, PayrollRun
  <1>4. /\ advance' \in [AdvanceIds -> Advance]
        /\ recovery' \in [AdvanceIds -> [Periods -> Nat]]
        /\ RowShape' /\ RecoveredMatchesRows' /\ NeverOverRecovered'
    BY <1>2, <1>3, RecordPreserves
  <1>5. \A m \in Members : PayslipOf(m, o, receivable[m]) \in Payslip
    BY PayslipOfWithinPay DEF LedgerAssumption
  <1>6. payslip' \in [Members -> [Periods -> Payslip]]
    BY <1>5 DEF Generate, LedgerInv, TypeOK
  <1>7. UNCHANGED <<settings, salary, onPayroll>>
    BY DEF Generate
  <1>8. TypeOK'
    BY <1>4, <1>6, <1>7 DEF LedgerInv, TypeOK
  <1>9. QED
    BY <1>4, <1>8 DEF LedgerInv

LEMMA LedgerStep ==
    ASSUME LedgerInv, LedgerAssumption, [Next]_vars
    PROVE  LedgerInv'
  <1>1. CASE CreateSome
    BY <1>1, CreatePreserves DEF CreateSome
  <1>2. CASE UpdateSome
    BY <1>2, UpdatePreserves DEF UpdateSome
  <1>3. CASE \E a \in AdvanceIds : RemoveAdvance(a)
    BY <1>3, RemovePreserves
  <1>4. CASE GenerateSome
    <2>1. PICK S \in {onPayroll} \cup {{m} : m \in onPayroll}, p \in Periods,
               receivable \in [Members -> Receivables], o \in Orders :
                 Generate(S, p, receivable, o)
      BY <1>4 DEF GenerateSome
    <2>2. S \in SUBSET Members
      BY DEF LedgerInv, TypeOK
    <2>3. QED
      BY <2>1, <2>2, GeneratePreserves
  <1>5. CASE ApplySome
    BY <1>5, ApplyPreserves DEF ApplySome
  <1>6. CASE \/ \E r \in Rates : UpdateSettings(r)
             \/ \E m \in Members, pay \in Salaries, on \in BOOLEAN : ChangePay(m, pay, on)
             \/ UNCHANGED vars
    <2>1. UNCHANGED <<advance, recovery, payslip>>
      BY <1>6 DEF UpdateSettings, ChangePay, vars
    <2>2. /\ settings' \in [tax: 0..100, contribution: 0..100]
          /\ salary' \in [Members -> Nat]
          /\ onPayroll' \in SUBSET Members
      BY <1>6 DEF UpdateSettings, ChangePay, vars, LedgerInv, TypeOK, LedgerAssumption
    <2>3. TypeOK'
      BY <2>1, <2>2 DEF LedgerInv, TypeOK
    <2>4. RowShape' /\ RecoveredMatchesRows' /\ NeverOverRecovered'
      BY <2>1 DEF LedgerInv, RowShape, RecoveredMatchesRows, NeverOverRecovered
    <2>5. QED
      BY <2>3, <2>4 DEF LedgerInv
  <1>7. QED
    BY <1>1, <1>2, <1>3, <1>4, <1>5, <1>6 DEF Next, PayrollNext

(* Every state of the ledger satisfies the ledger invariant.               *)
THEOREM LedgerInvariant == Spec => []LedgerInv
  <1>1. Init => LedgerInv
    BY InitLedger, LedgerAssumption
  <1>2. LedgerInv /\ [Next]_vars => LedgerInv'
    BY LedgerStep, LedgerAssumption
  <1>3. QED
    BY <1>1, <1>2, PTL DEF Spec

(* The tables stay well typed whatever the handlers do.                    *)
THEOREM LedgerTypeOK == Spec => []TypeOK
  <1>1. LedgerInv => TypeOK
    BY DEF LedgerInv
  <1>2. QED
    BY <1>1, LedgerInvariant, PTL

(* recoveredAmount is the sum of the recovery rows, and an advance is      *)
(* closed exactly when they repay it.                                      *)
THEOREM RecoveredNeverDrifts == Spec => []RecoveredMatchesRows
  <1>1. LedgerInv => RecoveredMatchesRows
    BY DEF LedgerInv
  <1>2. QED
    BY <1>1, LedgerInvariant, PTL

(* Whatever periods are run, rerun or reordered, by payroll or by hand, no *)
(* advance is recovered beyond its amount.                                 *)
THEOREM NobodyOverpays == Spec => []NeverOverRecovered
  <1>1. LedgerInv => NeverOverRecovered
    BY DEF LedgerInv
  <1>2. QED
    BY <1>1, LedgerInvariant, PTL

-----------------------------------------------------------------------------
(* Payslips. *)

LEMMA SlipsStep ==
    ASSUME LedgerInv, LedgerAssumption, [Next]_vars,
           NEW m \in Members, NEW p \in Periods, payslip'[m][p] # payslip[m][p]
    PROVE  /\ SlipWithinPay(payslip'[m][p])
           /\ NobodyGivesBack(m) => payslip'[m][p].advanceRecovery >= 0
  <1>1. CASE GenerateSome
    <2>1. PICK S \in {onPayroll} \cup {{n} : n \in onPayroll}, q \in Periods,
               receivable \in [Members -> Receivables], o \in Orders :
                 Generate(S, q, receivable, o)
      BY <1>1 DEF GenerateSome
    <2>2. payslip'[m][p] = PayslipOf(m, o, receivable[m])
      BY <2>1 DEF Generate, LedgerInv, TypeOK
    <2>3. receivable[m] \in Nat
      BY DEF LedgerAssumption
    <2>4. QED
      BY <2>2, <2>3, PayslipOfWithinPay
  <1>2. CASE ~GenerateSome
    <2>1. CreateSome => payslip' = payslip
      BY DEF CreateSome, CreateAdvance
    <2>2. UpdateSome => payslip' = payslip
      BY DEF UpdateSome, UpdateAdvance
    <2>3. ApplySome => payslip' = payslip
      BY DEF ApplySome, ApplyRecovery
    <2>4. (\/ \E a \in AdvanceIds : RemoveAdvance(a)
           \/ \E r \in Rates : UpdateSettings(r)
           \/ \E n \in Members, pay \in Salaries, on \in BOOLEAN : ChangePay(n, pay, on)
           \/ UNCHANGED vars)  => payslip' = payslip
      BY DEF RemoveAdvance, UpdateSettings, ChangePay, vars
    <2>5. payslip' = payslip
      BY <1>2, <2>1, <2>2, <2>3, <2>4 DEF Next, PayrollNext
    <2>6. QED
      BY <2>5
  <1>3. QED
    BY <1>1, <1>2

(* A payslip never recovers more than the pay it pays out, whatever the    *)
(* salaries, rates and receivables, and less than nothing only beside an   *)
(* advance that asks for less than nothing.                                *)
THEOREM PayslipNeverNegativeByRecovery == Spec => RecoveryWithinPay
  <1>1. LedgerInv /\ [Next]_vars =>
          [\A m \in Members, p \in Periods :
             payslip'[m][p] # payslip[m][p] =>
                LET slip == payslip'[m][p]
                    pay == slip.netPay + slip.previousMonthReceivable
                IN  /\ slip.advanceRecovery <= AtLeastZero(pay)
                    /\ slip.netPayable = pay - slip.advanceRecovery
                    /\ (\A a \in AdvanceIds : Recoverable(a, m) => Requested(advance[a]) >= 0)
                         => slip.advanceRecovery >= 0]_vars
    BY SlipsStep, LedgerAssumption, Zenon DEF SlipWithinPay, NobodyGivesBack
  <1>2. QED
    BY <1>1, LedgerInvariant, PTL DEF Spec, RecoveryWithinPay

-----------------------------------------------------------------------------
(* What a step may never do. *)

(* Every step that records recoveries does it by Deductible deductions.    *)
LEMMA StepKinds ==
    ASSUME LedgerInv, LedgerAssumption, [Next]_vars
    PROVE  \/ \E a \in AdvanceIds, m \in Members, amount \in Amounts, date \in Dates,
                 mode \in Modes, instalment \in Amounts \cup {None} :
                CreateAdvance(a, m, amount, date, mode, instalment)
           \/ \E a \in AdvanceIds, amount \in Amounts \cup {None}, date \in Dates,
                 mode \in Modes \cup {None},
                 instalment \in Amounts \cup Instalments \cup {None} :
                UpdateAdvance(a, amount, date, mode, instalment)
           \/ \E a \in AdvanceIds : RemoveAdvance(a)
           \/ \E p \in Periods : \E ded :
                 /\ Deductible(ded)
                 /\ recovery' = RowsAfter(ded, p)
                 /\ advance' = AdvancesAfter(ded, p)
           \/ UNCHANGED <<advance, recovery>>
  <1>1. CASE GenerateSome
    <2>1. PICK S \in {onPayroll} \cup {{m} : m \in onPayroll}, p \in Periods,
               receivable \in [Members -> Receivables], o \in Orders :
                 Generate(S, p, receivable, o)
      BY <1>1 DEF GenerateSome
    <2>2. S \in SUBSET Members
      BY DEF LedgerInv, TypeOK
    <2>3. PICK ded : ded = PayrollRun(S, receivable, o)
      OBVIOUS
    <2>4. Deductible(ded)
      BY <2>2, <2>3, PayrollDeductible
    <2>5. recovery' = RowsAfter(ded, p) /\ advance' = AdvancesAfter(ded, p)
      BY <2>1, <2>3 DEF Generate, PayrollRun
    <2>6. QED
      BY <2>4, <2>5, Zenon
  <1>2. CASE ApplySome
    <2>1. PICK m \in Members, p \in Periods : ApplyRecovery(m, p)
      BY <1>2 DEF ApplySome
    <2>2. PICK ded : ded = Uncapped(m)
      OBVIOUS
    <2>3. Deductible(ded)
      BY <2>2, UncappedDeductible
    <2>4. recovery' = RowsAfter(ded, p) /\ advance' = AdvancesAfter(ded, p)
      BY <2>1, <2>2 DEF ApplyRecovery
    <2>5. QED
      BY <2>3, <2>4, Zenon
  <1>3. CASE CreateSome
    BY <1>3, Zenon DEF CreateSome
  <1>4. CASE UpdateSome
    BY <1>4, Zenon DEF UpdateSome
  <1>5. CASE \E a \in AdvanceIds : RemoveAdvance(a)
    BY <1>5, Zenon
  <1>6. CASE \/ \E r \in Rates : UpdateSettings(r)
             \/ \E m \in Members, pay \in Salaries, on \in BOOLEAN : ChangePay(m, pay, on)
             \/ UNCHANGED vars
    <2>1. UNCHANGED <<advance, recovery>>
      BY <1>6 DEF UpdateSettings, ChangePay, vars
    <2>2. QED
      BY <2>1, Zenon
  <1>7. QED
    BY <1>1, <1>2, <1>3, <1>4, <1>5, <1>6, Zenon DEF Next, PayrollNext

(* An advance with a recovery row exists and has something recovered. *)
LEMMA RowsAreRecovered ==
    ASSUME LedgerInv, LedgerAssumption, NEW a \in AdvanceIds, recovery[a] # NoRows
    PROVE  advance[a].exists /\ advance[a].recoveredAmount \in Nat
                             /\ advance[a].recoveredAmount > 0
  <1>1. recovery[a] \in [1..NumPeriods -> Nat] /\ NumPeriods \in Nat
    BY DEF LedgerInv, TypeOK, Periods, LedgerAssumption
  <1>2. PICK p \in 1..NumPeriods : recovery[a][p] > 0
    BY <1>1 DEF NoRows, Periods
  <1>3. SumOf(recovery[a], NumPeriods) \in Nat
        /\ recovery[a][p] <= SumOf(recovery[a], NumPeriods)
    BY <1>1, SumOfNat
  <1>4. SumOf(recovery[a], NumPeriods) > 0
    BY <1>1, <1>2, <1>3
  <1>5. advance[a].recoveredAmount = SumOf(recovery[a], NumPeriods)
    BY DEF LedgerInv, RecoveredMatchesRows
  <1>6. QED
    BY <1>3, <1>4, <1>5 DEF LedgerInv, RowShape

LEMMA RecordKeeps ==
    ASSUME LedgerInv, NEW ded, NEW p \in Periods,
           advance' = AdvancesAfter(ded, p), NEW a \in AdvanceIds
    PROVE  /\ advance'[a].exists = advance[a].exists
           /\ advance'[a].member = advance[a].member
           /\ advance'[a].amount = advance[a].amount
  <1>1. advance[a] \in Advance
    BY DEF LedgerInv, TypeOK
  <1>2. PICK t, c : advance'[a] = [advance[a] EXCEPT !.recoveredAmount = t, !.closed = c]
                    \/ advance'[a] = advance[a]
    BY Zenon DEF AdvancesAfter
  <1>3. QED
    BY <1>1, <1>2 DEF Advance

LEMMA TraceableStep ==
    ASSUME LedgerInv, LedgerAssumption, [Next]_vars,
           NEW a \in AdvanceIds, recovery[a] # NoRows
    PROVE  /\ advance'[a].exists
           /\ advance'[a].member = advance[a].member
           /\ advance'[a].amount = advance[a].amount
  <1>1. /\ advance[a].exists
        /\ advance[a].recoveredAmount \in Nat /\ advance[a].recoveredAmount > 0
    BY RowsAreRecovered
  <1>2. advance[a] \in Advance /\ advance \in [AdvanceIds -> Advance]
    BY DEF LedgerInv, TypeOK
  <1>3. ASSUME NEW b \in AdvanceIds, NEW m \in Members, NEW amount \in Amounts,
               NEW date \in Dates, NEW mode \in Modes,
               NEW instalment \in Amounts \cup {None},
               CreateAdvance(b, m, amount, date, mode, instalment)
        PROVE  advance'[a] = advance[a]
    BY <1>1, <1>2, <1>3 DEF CreateAdvance
  <1>4. ASSUME NEW b \in AdvanceIds, NEW amount \in Amounts \cup {None}, NEW date \in Dates,
               NEW mode \in Modes \cup {None},
               NEW instalment \in Amounts \cup Instalments \cup {None},
               UpdateAdvance(b, amount, date, mode, instalment)
        PROVE  /\ advance'[a].exists
               /\ advance'[a].member = advance[a].member
               /\ advance'[a].amount = advance[a].amount
    <2>1. CASE b # a
      BY <1>1, <1>2, <1>4, <2>1 DEF UpdateAdvance
    <2>2. CASE b = a
      <3>1. amount = None
        BY <1>1, <1>4, <2>2 DEF UpdateAdvance
      <3>2. PICK recoveryMode, due :
               advance'[a] = [advance[a] EXCEPT !.amount = advance[a].amount,
                                                !.dateGiven = date,
                                                !.recoveryMode = recoveryMode,
                                                !.instalmentAmount = due]
        BY <1>2, <1>4, <2>2, <3>1 DEF UpdateAdvance, Given
      <3>3. QED
        BY <1>1, <1>2, <3>2 DEF Advance
    <2>3. QED
      BY <2>1, <2>2
  <1>5. ASSUME NEW b \in AdvanceIds, RemoveAdvance(b)
        PROVE  advance'[a] = advance[a]
    BY <1>1, <1>2, <1>5 DEF RemoveAdvance
  <1>6. ASSUME NEW p \in Periods, NEW ded, Deductible(ded), advance' = AdvancesAfter(ded, p)
        PROVE  /\ advance'[a].exists
               /\ advance'[a].member = advance[a].member
               /\ advance'[a].amount = advance[a].amount
    BY <1>1, <1>6, RecordKeeps
  <1>7. QED
    BY <1>1, <1>3, <1>4, <1>5, <1>6, StepKinds

(* An advance with a recovery row is never deleted, handed to another      *)
(* member or given another amount.                                         *)
THEOREM RecoveriesStayTraceable == Spec => Traceable
  <1>1. LedgerInv /\ [Next]_vars =>
          [\A a \in AdvanceIds :
             recovery[a] # NoRows =>
                /\ advance'[a].exists
                /\ advance'[a].member = advance[a].member
                /\ advance'[a].amount = advance[a].amount]_vars
    BY TraceableStep, LedgerAssumption
  <1>2. QED
    BY <1>1, LedgerInvariant, PTL DEF Spec, Traceable

LEMMA ClosedStep ==
    ASSUME LedgerInv, LedgerAssumption, [Next]_vars,
           NEW a \in AdvanceIds, advance[a].exists, advance[a].closed
    PROVE  advance'[a].closed /\ recovery'[a] = recovery[a]
  <1>1. /\ advance[a] \in Advance /\ advance \in [AdvanceIds -> Advance]
        /\ recovery \in [AdvanceIds -> [Periods -> Nat]]
    BY DEF LedgerInv, TypeOK
  <1>2. advance[a].recoveredAmount > 0
    <2>1. advance[a].amount > 0 /\ advance[a].recoveredAmount >= advance[a].amount
      BY DEF LedgerInv, RowShape, RecoveredMatchesRows
    <2>2. QED
      BY <1>1, <2>1 DEF Advance
  <1>3. ASSUME NEW b \in AdvanceIds, NEW m \in Members, NEW amount \in Amounts,
               NEW date \in Dates, NEW mode \in Modes,
               NEW instalment \in Amounts \cup {None},
               CreateAdvance(b, m, amount, date, mode, instalment)
        PROVE  advance'[a] = advance[a] /\ recovery' = recovery
    BY <1>1, <1>3 DEF CreateAdvance
  <1>4. ASSUME NEW b \in AdvanceIds, NEW amount \in Amounts \cup {None}, NEW date \in Dates,
               NEW mode \in Modes \cup {None},
               NEW instalment \in Amounts \cup Instalments \cup {None},
               UpdateAdvance(b, amount, date, mode, instalment)
        PROVE  advance'[a].closed /\ recovery' = recovery
    BY <1>1, <1>4 DEF UpdateAdvance, Advance
  <1>5. ASSUME NEW b \in AdvanceIds, RemoveAdvance(b)
        PROVE  advance'[a] = advance[a] /\ recovery' = recovery
    <2>1. b # a
      BY <1>1, <1>2, <1>5 DEF RemoveAdvance, Advance
    <2>2. QED
      BY <1>1, <1>5, <2>1 DEF RemoveAdvance
  <1>6. ASSUME NEW p \in Periods, NEW ded, Deductible(ded),
               recovery' = RowsAfter(ded, p), advance' = AdvancesAfter(ded, p)
        PROVE  advance'[a].closed /\ recovery'[a] = recovery[a]
    <2>1. ~(ded[a] > 0)
      BY <1>6 DEF Deductible
    <2>2. advance'[a] = advance[a] /\ recovery'[a] = recovery[a]
      BY <1>6, <2>1 DEF RowsAfter, AdvancesAfter
    <2>3. QED
      BY <2>2
  <1>7. QED
    BY <1>3, <1>4, <1>5, <1>6, StepKinds

(* A closed advance is never reopened and its rows never change.           *)
THEOREM ClosedStaysClosed == Spec => ClosedIsFinal
  <1>1. LedgerInv /\ [Next]_vars =>
          [\A a \in AdvanceIds :
             advance[a].exists /\ advance[a].closed =>
                advance'[a].closed /\ recovery'[a] = recovery[a]]_vars
    BY ClosedStep, LedgerAssumption
  <1>2. QED
    BY <1>1, LedgerInvariant, PTL DEF Spec, ClosedIsFinal

(* In a payroll run the position of an older advance comes before that of  *)
(* a younger one, and what stands between them was given between them, so  *)
(* FirstInFirstOut applies to the two.                                     *)
LEMMA CappedOldestFirst ==
    ASSUME LedgerInv, LedgerAssumption, NEW m, NEW o \in Orders, NEW headroom \in Nat,
           NEW a \in AdvanceIds, NEW b \in AdvanceIds,
           Recoverable(a, m), Recoverable(b, m),
           advance[a].dateGiven < advance[b].dateGiven,
           \A c \in AdvanceIds :
              /\ Recoverable(c, m)
              /\ advance[a].dateGiven <= advance[c].dateGiven
              /\ advance[c].dateGiven <= advance[b].dateGiven
              => Requested(advance[c]) >= 0,
           Capped(m, o, headroom)[b] > 0
    PROVE  Capped(m, o, headroom)[a] = Requested(advance[a])
  <1>1. PICK i \in AdvanceIds : i = Position(o, a) /\ o[i] = a
    <2>1. \E k \in AdvanceIds : o[k] = a
      BY DEF Orders
    <2>2. QED
      BY <2>1 DEF Position
  <1>2. PICK j \in AdvanceIds : j = Position(o, b) /\ o[j] = b
    <2>1. \E k \in AdvanceIds : o[k] = b
      BY DEF Orders
    <2>2. QED
      BY <2>1 DEF Position
  <1>3. i < j
    <2>1. advance[a].dateGiven \in Nat /\ advance[b].dateGiven \in Nat
      BY DEF LedgerInv, TypeOK, Advance
    <2>2. \A k, l \in AdvanceIds : k < l => advance[o[k]].dateGiven <= advance[o[l]].dateGiven
      BY DEF Orders
    <2>3. i # j /\ ~(j < i)
      BY <1>1, <1>2, <2>1, <2>2
    <2>4. QED
      BY <2>3 DEF AdvanceIds
  <1>4. NumAdvances \in Nat /\ j \in 1..NumAdvances /\ i \in 1..(j-1)
    BY <1>3 DEF AdvanceIds, LedgerAssumption
  <1>5. PICK request \in [1..NumAdvances -> Int] : request = RequestsOf(m, o)
    BY RequestsType
  <1>11. ASSUME NEW k \in (i+1)..(j-1)
         PROVE  request[k] >= 0
    <2>1. k \in AdvanceIds /\ i < k /\ k < j /\ o[k] \in AdvanceIds
      <3>1. k \in AdvanceIds /\ i < k /\ k < j
        BY <1>3, <1>4 DEF AdvanceIds
      <3>2. QED
        BY <3>1 DEF Orders
    <2>2. /\ advance[a].dateGiven <= advance[o[k]].dateGiven
          /\ advance[o[k]].dateGiven <= advance[b].dateGiven
      BY <1>1, <1>2, <2>1 DEF Orders
    <2>3. CASE Recoverable(o[k], m)
      <3>1. Requested(advance[o[k]]) >= 0
        BY <2>1, <2>2, <2>3
      <3>2. QED
        BY <1>5, <2>1, <2>3, <3>1 DEF RequestsOf
    <2>4. CASE ~Recoverable(o[k], m)
      <3>1. request[k] = 0
        BY <1>5, <2>1, <2>4 DEF RequestsOf
      <3>2. QED
        BY <3>1
    <2>5. QED
      BY <2>3, <2>4
  <1>6. /\ Capped(m, o, headroom)[a] = DeductedAt(request, headroom, NumAdvances)[i]
        /\ Capped(m, o, headroom)[b] = DeductedAt(request, headroom, NumAdvances)[j]
    BY <1>1, <1>2, <1>5 DEF Capped
  <1>7. DeductedAt(request, headroom, NumAdvances)[i] = request[i]
    BY <1>4, <1>6, <1>11, FirstInFirstOut
  <1>8. request[i] = Requested(advance[a])
    BY <1>1, <1>5 DEF RequestsOf
  <1>9. QED
    BY <1>6, <1>7, <1>8

LEMMA OldestFirstStep ==
    ASSUME LedgerInv, LedgerAssumption, [Next]_vars,
           NEW a \in AdvanceIds, NEW b \in AdvanceIds, NEW p \in Periods,
           Recoverable(a, advance[b].member), Recoverable(b, advance[b].member),
           advance[a].dateGiven < advance[b].dateGiven,
           Requested(advance[a]) > 0,
           \A c \in Between(a, b) : Requested(advance[c]) >= 0,
           recovery'[b][p] # recovery[b][p]
    PROVE  recovery'[a][p] = Requested(advance[a])
  <1>0. PICK m \in Members : m = advance[b].member /\ m = advance[a].member
    BY DEF Recoverable, LedgerInv, TypeOK, Advance
  <1>1. recovery \in [AdvanceIds -> [Periods -> Nat]]
    BY DEF LedgerInv, TypeOK
  <1>2. ASSUME NEW q \in Periods, NEW ded, recovery' = RowsAfter(ded, q),
               ded[b] > 0 => ded[a] = Requested(advance[a])
        PROVE  recovery'[a][p] = Requested(advance[a])
    <2>1. ded[b] > 0 /\ p = q
      BY <1>1, <1>2 DEF RowsAfter
    <2>2. QED
      BY <1>1, <1>2, <2>1 DEF RowsAfter
  <1>3. CASE GenerateSome
    <2>1. PICK S \in {onPayroll} \cup {{k} : k \in onPayroll}, q \in Periods,
               receivable \in [Members -> Receivables], o \in Orders :
                 Generate(S, q, receivable, o)
      BY <1>3 DEF GenerateSome
    <2>2. PICK ded : ded = PayrollRun(S, receivable, o)
      OBVIOUS
    <2>3. recovery' = RowsAfter(ded, q)
      BY <2>1, <2>2 DEF Generate, PayrollRun
    <2>4. PICK headroom \in Nat : headroom = AtLeastZero(AdjustedPay(m, receivable[m]))
      BY AdjustedPayType DEF LedgerInv, LedgerAssumption
    <2>5. ASSUME ded[b] > 0 PROVE ded[a] = Requested(advance[a])
      <3>1. m \in S
        <4>1. m \notin S => ded[b] = 0
          BY <1>0, <2>2, Zenon DEF PayrollRun
        <4>2. QED
          BY <2>5, <4>1
      <3>2. /\ ded[a] = Capped(m, o, headroom)[a]
            /\ ded[b] = Capped(m, o, headroom)[b]
        BY <1>0, <2>2, <2>4, <3>1 DEF PayrollRun, PayrollDeductions
      <3>3. Recoverable(a, m) /\ Recoverable(b, m)
        BY <1>0, Zenon
      <3>4. Capped(m, o, headroom)[b] > 0
        BY <2>5, <3>2
      <3>5. Capped(m, o, headroom)[a] = Requested(advance[a])
        <4>1. \A c \in AdvanceIds :
                 /\ Recoverable(c, m)
                 /\ advance[a].dateGiven <= advance[c].dateGiven
                 /\ advance[c].dateGiven <= advance[b].dateGiven
                 => Requested(advance[c]) >= 0
          BY <1>0, Zenon DEF Between
        <4>2. QED
          BY <3>3, <3>4, <4>1, CappedOldestFirst
      <3>6. QED
        BY <3>2, <3>5
    <2>6. QED
      BY <1>2, <2>3, <2>5
  <1>4. CASE ApplySome
    <2>1. PICK k \in Members, q \in Periods : ApplyRecovery(k, q)
      BY <1>4 DEF ApplySome
    <2>2. PICK ded : ded = Uncapped(k)
      OBVIOUS
    <2>3. recovery' = RowsAfter(ded, q)
      BY <2>1, <2>2 DEF ApplyRecovery
    <2>4. ded[b] > 0 => ded[a] = Requested(advance[a])
      BY <2>2 DEF Uncapped, Recoverable
    <2>5. QED
      BY <1>2, <2>3, <2>4
  <1>5. CASE ~GenerateSome /\ ~ApplySome
    <2>1. CreateSome => recovery' = recovery
      BY DEF CreateSome, CreateAdvance
    <2>2. UpdateSome => recovery' = recovery
      BY DEF UpdateSome, UpdateAdvance
    <2>3. (\/ \E c \in AdvanceIds : RemoveAdvance(c)
           \/ \E r \in Rates : UpdateSettings(r)
           \/ \E k \in Members, pay \in Salaries, on \in BOOLEAN : ChangePay(k, pay, on)
           \/ UNCHANGED vars)  => recovery' = recovery
      BY DEF RemoveAdvance, UpdateSettings, ChangePay, vars
    <2>4. recovery' = recovery
      BY <1>5, <2>1, <2>2, <2>3 DEF Next, PayrollNext
    <2>5. QED
      BY <2>4
  <1>6. QED
    BY <1>3, <1>4, <1>5

(* Advances that ask for something are recovered oldest first, also when   *)
(* pay does not reach, unless one between them asks for less than nothing. *)
THEOREM OldestIsRecoveredFirst == Spec => OldestFirst
  <1>1. LedgerInv /\ [Next]_vars =>
          [\A a, b \in AdvanceIds, p \in Periods :
             /\ Recoverable(a, advance[b].member)
             /\ Recoverable(b, advance[b].member)
             /\ advance[a].dateGiven < advance[b].dateGiven
             /\ Requested(advance[a]) > 0
             /\ \A c \in Between(a, b) : Requested(advance[c]) >= 0
             /\ recovery'[b][p] # recovery[b][p]
             => recovery'[a][p] = Requested(advance[a])]_vars
    BY OldestFirstStep, LedgerAssumption
  <1>2. QED
    BY <1>1, LedgerInvariant, PTL DEF Spec, OldestFirst
=============================================================================
