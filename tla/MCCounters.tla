------------------------------ MODULE MCCounters ------------------------------
(* Instances of Counters for TLC. *)
EXTENDS Counters

CONSTANTS m1, m2, c1, s1, s2

NoRates == {NoSettings}

(* What is not followed further: the payroll, once it has made a payslip   *)
(* or changed who is on it (recovery goes on by hand), and the second      *)
(* session, once it is closed.                                             *)
Followed ==
    /\ onPayroll = {m1}
    /\ \A m \in Members, p \in Periods : ~payslip[m][p].exists
    /\ ~Closed(s2)
=============================================================================
