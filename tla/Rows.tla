--------------------------------- MODULE Rows ---------------------------------
(* What the modules of the workplace share. *)
EXTENDS Naturals, FiniteSets

CONSTANT None   \* null, and the fields of a row that is not there
=============================================================================
