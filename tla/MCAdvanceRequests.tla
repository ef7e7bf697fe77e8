-------------------------- MODULE MCAdvanceRequests --------------------------
(* Instances of AdvanceRequests for TLC. *)
EXTENDS AdvanceRequests

CONSTANTS r1, r2, h1, h2, c1
=============================================================================
