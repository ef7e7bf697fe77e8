------------------------------- MODULE MCLedger -------------------------------
(* Instances of Ledger for TLC; amounts are a handful of paisa. *)
EXTENDS Ledger

CONSTANT m1

(* Each rate is within its own limit of 100; together they need not be. *)
SteepRates == {[tax |-> 60, contribution |-> 60]}

(* What a request without a mode may store as an instalment, besides the   *)
(* amounts.                                                                *)
Unchecked == {-1, 0}

(* What is not followed further: payroll in the second of two periods,     *)
(* once it has been run in the first (no handler reads a payslip, and      *)
(* recovery goes on there without it), both advances with an instalment    *)
(* that is unchecked, and nobody on the payroll.                           *)
Followed ==
    /\ onPayroll = Members
    /\ ~ \E m \in Members, p, q \in Periods :
             p # q /\ payslip[m][p].exists /\ payslip[m][q].exists
    /\ \E a \in AdvanceIds : advance[a].instalmentAmount \notin Unchecked
=============================================================================
