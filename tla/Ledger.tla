-------------------------------- MODULE Ledger --------------------------------
(***************************************************************************)
(* The advance ledger of one tenant and the payroll that recovers it, with *)
(* each handler's transaction run alone: AdvancesService (create, update,  *)
(* remove, applyRecovery) and PayrollService (updateSettings, generate)    *)
(* over the tables advances, advance_recoveries, payslips and              *)
(* payroll_settings.  RecoveryTx breaks the same transactions up.          *)
(*                                                                         *)
(* An advance lives in one of NumAdvances slots; a slot is free again when *)
(* its advance has been deleted.  A recovery row of 0 stands for no row:   *)
(* the code writes a row only for a positive deduction.                    *)
(***************************************************************************)
EXTENDS Deduction

CONSTANTS
    Members,        \* tenant memberships
    NumAdvances,    \* slots for advances that exist at the same time
    NumPeriods,     \* pay periods (year, month)
    Amounts,        \* amounts and validated instalments, in paisa
    Instalments,    \* instalments that no validation has seen
    Dates,          \* dateGiven values
    Salaries,       \* base salaries, in paisa
    Rates,          \* [tax, contribution] percentages of payroll settings
    Receivables     \* previousMonthReceivable inputs, in paisa

ASSUME LedgerAssumption ==
    /\ Members # {}
    /\ NumAdvances \in Nat
    /\ NumPeriods \in Nat
    /\ Amounts \subseteq Nat \ {0}
    /\ Instalments \subseteq Int
    /\ Dates \subseteq Nat
    /\ Salaries \subseteq Nat
    /\ Rates \subseteq [tax: 0..100, contribution: 0..100]
    /\ Receivables \subseteq Nat

AdvanceIds == 1..NumAdvances
Periods == 1..NumPeriods
Modes == {"FULL", "INSTALMENT"}

VARIABLES
    advance,    \* advances table
    recovery,   \* advance_recoveries table: advance and period to paisa
    payslip,    \* payslips table: member and period to payslip
    settings,   \* payroll_settings row
    salary,     \* baseSalary of each member
    onPayroll   \* members that are active and have a base salary

vars == <<advance, recovery, payslip, settings, salary, onPayroll>>

-----------------------------------------------------------------------------
(* Rows. *)

Advance == [exists: BOOLEAN, member: Members, amount: Nat, dateGiven: Nat,
            recoveryMode: Modes, instalmentAmount: Int \cup {None},
            recoveredAmount: Nat, closed: BOOLEAN]

Payslip == [exists: BOOLEAN, netPay: Int, previousMonthReceivable: Nat,
            advanceRecovery: Int, netPayable: Int]

NoPayslip == [exists |-> FALSE, netPay |-> 0, previousMonthReceivable |-> 0,
              advanceRecovery |-> 0, netPayable |-> 0]

NoRows == [p \in Periods |-> 0]

NoSettings == [tax |-> 0, contribution |-> 0]   \* no row: every rate is 0

NoAdvance == [exists |-> FALSE, member |-> CHOOSE m \in Members : TRUE, amount |-> 0,
              dateGiven |-> 0, recoveryMode |-> "FULL", instalmentAmount |-> None,
              recoveredAmount |-> 0, closed |-> FALSE]

Given(field, otherwise) == IF field = None THEN otherwise ELSE field

(* The row CreateAdvance inserts. *)
NewAdvance(m, amount, date, mode, instalment) ==
    [exists |-> TRUE, member |-> m, amount |-> amount, dateGiven |-> date,
     recoveryMode |-> mode,
     instalmentAmount |-> IF mode = "INSTALMENT" THEN instalment ELSE None,
     recoveredAmount |-> 0, closed |-> FALSE]

-----------------------------------------------------------------------------
(* What a recovery takes from each advance. *)

Recoverable(a, m) ==
    advance[a].exists /\ advance[a].member = m /\ ~advance[a].closed

(* Mutant: the query has no orderBy. *)
AnyOrders == {o \in [AdvanceIds -> AdvanceIds] : \A a \in AdvanceIds : \E i \in AdvanceIds : o[i] = a}

(* The orders in which orderBy dateGiven may return the advances: each of  *)
(* them once, ties in any order.                                           *)
Orders ==
    {o \in [AdvanceIds -> AdvanceIds] :
        /\ \A a \in AdvanceIds : \E i \in AdvanceIds : o[i] = a
        /\ \A i, j \in AdvanceIds :
              i < j => advance[o[i]].dateGiven <= advance[o[j]].dateGiven}

Position(o, a) == CHOOSE i \in AdvanceIds : o[i] = a

(* The line of requests of member m; advances that are not m's, or closed, *)
(* are not in the query's result and so ask for nothing.                   *)
RequestsOf(m, o) ==
    [i \in AdvanceIds |-> IF Recoverable(o[i], m) THEN Requested(advance[o[i]]) ELSE 0]

Capped(m, o, headroom) ==
    [a \in AdvanceIds |->
        IF Recoverable(a, m)
        THEN DeductedAt(RequestsOf(m, o), headroom, NumAdvances)[Position(o, a)]
        ELSE 0]

Uncapped(m) ==
    [a \in AdvanceIds |-> IF Recoverable(a, m) THEN Requested(advance[a]) ELSE 0]

(* Mutant: a row is written also where nothing is deducted. *)
RowsAfterAlways(ded, p) == [a \in AdvanceIds |-> [recovery[a] EXCEPT ![p] = ded[a]]]

(* applyRecoveryInTx: the rows and the advances after the deductions ded   *)
(* have been recorded for period p.  A row is overwritten, the recovered   *)
(* amount is the fresh sum of the rows, and closedAt follows from it.      *)
RowsAfter(ded, p) ==
    [a \in AdvanceIds |->
        IF ded[a] > 0 THEN [recovery[a] EXCEPT ![p] = ded[a]] ELSE recovery[a]]

(* Mutant: the recovered amount is incremented, not summed afresh. *)
AdvancesIncremented(ded, p) ==
    [a \in AdvanceIds |->
        LET total == advance[a].recoveredAmount + ded[a]
        IN  IF ded[a] > 0
            THEN [advance[a] EXCEPT !.recoveredAmount = total,
                                    !.closed = total >= advance[a].amount]
            ELSE advance[a]]

AdvancesAfter(ded, p) ==
    [a \in AdvanceIds |->
        IF ded[a] > 0
        THEN LET total == SumOf(RowsAfter(ded, p)[a], NumPeriods)
             IN  [advance[a] EXCEPT !.recoveredAmount = total,
                                    !.closed = total >= advance[a].amount]
        ELSE advance[a]]

-----------------------------------------------------------------------------
(* The handlers. *)

Init ==
    /\ advance = [a \in AdvanceIds |-> NoAdvance]
    /\ recovery = [a \in AdvanceIds |-> NoRows]
    /\ payslip = [m \in Members |-> [p \in Periods |-> NoPayslip]]
    /\ settings = NoSettings
    /\ salary \in [Members -> Salaries]
    /\ onPayroll \in SUBSET Members

(* create / createInTx: every advance starts open with nothing recovered.  *)
CreateAdvance(a, m, amount, date, mode, instalment) ==
    /\ ~advance[a].exists
    /\ mode = "INSTALMENT" => instalment # None
    /\ advance' = [advance EXCEPT ![a] = NewAdvance(m, amount, date, mode, instalment)]
    /\ UNCHANGED <<recovery, payslip, settings, salary, onPayroll>>

(* update: None is a field that the request does not give.  The amount is  *)
(* refused once something is recovered.  UpdateAdvanceDto looks at the     *)
(* instalment only when the request gives the mode INSTALMENT: without a   *)
(* mode any number is stored.                                              *)
UpdateAdvance(a, amount, date, mode, instalment) ==
    LET kept == advance[a]
        recoveryMode == Given(mode, kept.recoveryMode)
    IN  /\ kept.exists
        /\ amount # None => kept.recoveredAmount <= 0
        /\ mode = "INSTALMENT" => instalment \in Amounts
        /\ advance' = [advance EXCEPT
                ![a].amount = Given(amount, @),
                ![a].dateGiven = date,
                ![a].recoveryMode = recoveryMode,
                ![a].instalmentAmount = IF recoveryMode = "INSTALMENT"
                                        THEN Given(instalment, @) ELSE None]
    /\ UNCHANGED <<recovery, payslip, settings, salary, onPayroll>>

(* Mutant: neither the check nor the foreign key. *)
RemoveAnyAdvance(a) ==
    /\ advance[a].exists
    /\ advance' = [advance EXCEPT ![a] = NoAdvance]
    /\ UNCHANGED <<recovery, payslip, settings, salary, onPayroll>>

(* remove: refused once something is recovered, and by the foreign key of  *)
(* the recovery rows.                                                      *)
RemoveAdvance(a) ==
    /\ advance[a].exists
    /\ advance[a].recoveredAmount <= 0
    /\ recovery[a] = NoRows
    /\ advance' = [advance EXCEPT ![a] = NoAdvance]
    /\ UNCHANGED <<recovery, payslip, settings, salary, onPayroll>>

(* applyRecovery: the standalone endpoint, not capped by any pay.          *)
ApplyRecovery(m, p) ==
    /\ recovery' = RowsAfter(Uncapped(m), p)
    /\ advance' = AdvancesAfter(Uncapped(m), p)
    /\ UNCHANGED <<payslip, settings, salary, onPayroll>>

(* What generate computes for member m: the pay its recovery may take, and *)
(* what it takes.                                                          *)
AdjustedPay(m, receivable) ==
    NetPay(salary[m], settings.tax, settings.contribution) + receivable

PayrollDeductions(m, o, receivable) ==
    Capped(m, o, AtLeastZero(AdjustedPay(m, receivable)))

(* Mutant: the pay is not raised to zero. *)
RecoveryOfAnyPay(m, o, receivable) ==
    TotalDeduction(RequestsOf(m, o), AdjustedPay(m, receivable), NumAdvances)

PayrollRecovery(m, o, receivable) ==
    TotalDeduction(RequestsOf(m, o), AtLeastZero(AdjustedPay(m, receivable)), NumAdvances)

PayslipOf(m, o, receivable) ==
    [exists |-> TRUE,
     netPay |-> NetPay(salary[m], settings.tax, settings.contribution),
     previousMonthReceivable |-> receivable,
     advanceRecovery |-> PayrollRecovery(m, o, receivable),
     netPayable |-> AdjustedPay(m, receivable) - PayrollRecovery(m, o, receivable)]

(* generate: upserts the payslip of each member in S for period p and      *)
(* records what the payslip recovers, all in one transaction.  S is every  *)
(* member on the payroll, or the one member the request names.             *)
Generate(S, p, receivable, o) ==
    LET ded == [a \in AdvanceIds |->
                    IF advance[a].member \in S
                    THEN PayrollDeductions(advance[a].member, o,
                                           receivable[advance[a].member])[a]
                    ELSE 0]
    IN  /\ payslip' = [m \in Members |->
                          IF m \in S
                          THEN [payslip[m] EXCEPT ![p] = PayslipOf(m, o, receivable[m])]
                          ELSE payslip[m]]
        /\ recovery' = RowsAfter(ded, p)
        /\ advance' = AdvancesAfter(ded, p)
        /\ UNCHANGED <<settings, salary, onPayroll>>

UpdateSettings(r) ==
    /\ settings' = r
    /\ UNCHANGED <<advance, recovery, payslip, salary, onPayroll>>

(* EmployeesService: a base salary is set or changed, a member leaves or   *)
(* comes back.                                                             *)
ChangePay(m, pay, on) ==
    /\ salary' = [salary EXCEPT ![m] = pay]
    /\ onPayroll' = IF on THEN onPayroll \cup {m} ELSE onPayroll \ {m}
    /\ UNCHANGED <<advance, recovery, payslip, settings>>

GenerateSome ==
    \E S \in {onPayroll} \cup {{m} : m \in onPayroll}, p \in Periods,
       receivable \in [Members -> Receivables], o \in Orders :
        Generate(S, p, receivable, o)

CreateSome ==
    \E a \in AdvanceIds, m \in Members, amount \in Amounts, date \in Dates,
       mode \in Modes, instalment \in Amounts \cup {None} :
        CreateAdvance(a, m, amount, date, mode, instalment)

UpdateSome ==
    \E a \in AdvanceIds, amount \in Amounts \cup {None}, date \in Dates,
       mode \in Modes \cup {None}, instalment \in Amounts \cup Instalments \cup {None} :
        UpdateAdvance(a, amount, date, mode, instalment)

ApplySome == \E m \in Members, p \in Periods : ApplyRecovery(m, p)

PayrollNext ==
    \/ CreateSome
    \/ UpdateSome
    \/ \E a \in AdvanceIds : RemoveAdvance(a)
    \/ GenerateSome
    \/ \E r \in Rates : UpdateSettings(r)
    \/ \E m \in Members, pay \in Salaries, on \in BOOLEAN : ChangePay(m, pay, on)

Next ==
    \/ PayrollNext
    \/ ApplySome

Spec == Init /\ [][Next]_vars

(* The same tenant when recovery is only ever committed by payroll. *)
PayrollSpec == Init /\ [][PayrollNext]_vars

-----------------------------------------------------------------------------
(* Properties. *)

(* Every table holds rows of its type. *)
TypeOK ==
    /\ advance \in [AdvanceIds -> Advance]
    /\ recovery \in [AdvanceIds -> [Periods -> Nat]]
    /\ payslip \in [Members -> [Periods -> Payslip]]
    /\ settings \in [tax: 0..100, contribution: 0..100]
    /\ salary \in [Members -> Nat]
    /\ onPayroll \in SUBSET Members

(* The recovered amount of an advance and its recovery rows never drift    *)
(* apart, and it is closed exactly when the rows repay it                  *)
(* (applyRecoveryInTx; schema.prisma, model Advance).                      *)
RecoveredMatchesRows ==
    \A a \in AdvanceIds :
        /\ advance[a].recoveredAmount = SumOf(recovery[a], NumPeriods)
        /\ advance[a].exists =>
             (advance[a].closed <=> advance[a].recoveredAmount >= advance[a].amount)

(* However the periods are run, rerun and reordered, an employee never     *)
(* repays more than was advanced.                                          *)
NeverOverRecovered ==
    \A a \in AdvanceIds : SumOf(recovery[a], NumPeriods) <= advance[a].amount

(* A payslip never recovers more than the pay it pays out, so recovery     *)
(* alone never makes the take-home negative, and the take-home is the      *)
(* rest; and it recovers no less than nothing, not even from a pay that is *)
(* negative, unless an open advance itself asks for less than nothing      *)
(* (PayrollService.generate).                                              *)
RecoveryWithinPay ==
    [][\A m \in Members, p \in Periods :
         payslip'[m][p] # payslip[m][p] =>
            LET slip == payslip'[m][p]
                pay == slip.netPay + slip.previousMonthReceivable
            IN  /\ slip.advanceRecovery <= AtLeastZero(pay)
                /\ slip.netPayable = pay - slip.advanceRecovery
                /\ (\A a \in AdvanceIds : Recoverable(a, m) => Requested(advance[a]) >= 0)
                     => slip.advanceRecovery >= 0]_vars

(* A real money movement stays traceable: once an advance has a recovery   *)
(* row, no step deletes it, moves it to another member or changes its      *)
(* amount (remove and update refuse).                                      *)
Traceable ==
    [][\A a \in AdvanceIds :
         recovery[a] # NoRows =>
            /\ advance'[a].exists
            /\ advance'[a].member = advance[a].member
            /\ advance'[a].amount = advance[a].amount]_vars

(* A closed advance is finished: no later step, not even running an        *)
(* earlier period again, reopens it or touches its rows.                   *)
ClosedIsFinal ==
    [][\A a \in AdvanceIds :
         advance[a].exists /\ advance[a].closed =>
            advance'[a].closed /\ recovery'[a] = recovery[a]]_vars

(* The advances of b's member given no earlier than a and no later than b. *)
Between(a, b) ==
    {c \in AdvanceIds :
        /\ Recoverable(c, advance[b].member)
        /\ advance[a].dateGiven <= advance[c].dateGiven
        /\ advance[c].dateGiven <= advance[b].dateGiven}

(* Advances are recovered in the order they were given: a run that takes   *)
(* anything for a younger advance has taken all that the period asks of    *)
(* every older one of the same member that asks for something (orderBy     *)
(* dateGiven, then the loop).  An advance with a negative instalment gives *)
(* pay back to those behind it in line: none stands between the two.       *)
OldestFirst ==
    [][\A a, b \in AdvanceIds, p \in Periods :
         /\ Recoverable(a, advance[b].member)
         /\ Recoverable(b, advance[b].member)
         /\ advance[a].dateGiven < advance[b].dateGiven
         /\ Requested(advance[a]) > 0
         /\ \A c \in Between(a, b) : Requested(advance[c]) >= 0
         /\ recovery'[b][p] # recovery[b][p]
         => recovery'[a][p] = Requested(advance[a])]_vars

-----------------------------------------------------------------------------
(* What a comment says that the code does not do (see README). *)

(* payroll.service.ts says the payslip and the committed recovery rows can *)
(* never disagree: what the payslip of m for p recovers is what the rows   *)
(* of m for p add up to.                                                   *)
RowsOfPeriod(m, p) ==
    [a \in AdvanceIds |-> IF advance[a].member = m THEN recovery[a][p] ELSE 0]

PayslipMatchesRows ==
    \A m \in Members, p \in Periods :
        payslip[m][p].exists =>
            payslip[m][p].advanceRecovery = SumOf(RowsOfPeriod(m, p), NumAdvances)
=============================================================================
