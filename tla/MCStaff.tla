------------------------------- MODULE MCStaff -------------------------------
(* Instances of Staff for TLC. *)
EXTENDS Staff, TLC

CONSTANTS m1, m2, m3, m4, h1, h2, trial, gold

(* What is not followed further: charts in which more than two members     *)
(* report to somebody (chains of three and circles of two have two         *)
(* reports), and what comes after an admin left in a race.                 *)
Followed ==
    /\ Cardinality({m \in Members : supervisor[m] # Nobody}) <= 2
    /\ ~raced

StaffSymmetry == Permutations({m1, m2, m3, m4}) \cup Permutations({h1, h2})
=============================================================================
