------------------------------- MODULE MCLeave -------------------------------
(* Instances of Leave for TLC. *)
EXTENDS Leave, TLC

CONSTANTS m1, m2, m3, h1, h2, annual

TwoDays == (annual :> 2)

ChartSymmetry == Permutations({m1, m2, m3})
=============================================================================
