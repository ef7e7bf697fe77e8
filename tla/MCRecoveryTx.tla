----------------------------- MODULE MCRecoveryTx -----------------------------
(* Instances of RecoveryTx for TLC. *)
EXTENDS RecoveryTx

CONSTANTS t1, t2

OneDate == <<1>>
SwappedDates == <<2, 1>>

(* An instalment that leaves a rest, and one that asks for less than nothing. *)
SomeInstalments == {-1, 1}
=============================================================================
