------------------------------ MODULE Deduction ------------------------------
(***************************************************************************)
(* The arithmetic of advance recovery: what AdvancesService asks of each   *)
(* open advance in a pay period, the greedy loop that caps the requests by *)
(* the pay that is available, and the percentages of a salary.  The fresh  *)
(* sum of the recovery rows is that of Sums.                               *)
(*                                                                         *)
(* Money is counted in integer paisa, as toPaisa does in the code.  An     *)
(* advance is a record; its instalment is None when the column is null,    *)
(* and may be zero or negative: see Ledger.  What an advance asks for may  *)
(* then be so too, and the loop gives back what it asks for below zero.    *)
(* Recursion is written as recursive functions over intervals, so that     *)
(* DeductionProofs can reason about it.                                    *)
(***************************************************************************)
EXTENDS Sums

CONSTANT None    \* null, or a field that a request does not give

ASSUME NullAssumption == None \notin Int

Least(x, y) == IF x <= y THEN x ELSE y

AtLeastZero(x) == IF x >= 0 THEN x ELSE 0

-----------------------------------------------------------------------------
(* One advance. *)

Outstanding(adv) == adv.amount - adv.recoveredAmount

(* Mutant: an instalment is asked for even when less is left.             *)
RequestedInFull(adv) ==
    IF adv.recoveryMode = "FULL" THEN Outstanding(adv)
    ELSE IF adv.instalmentAmount = None THEN adv.amount ELSE adv.instalmentAmount

(* What the period asks of an open advance: all of it in FULL mode, one    *)
(* instalment (never more than is left) in INSTALMENT mode.                *)
Requested(adv) ==
    IF adv.recoveryMode = "FULL"
    THEN Outstanding(adv)
    ELSE Least(IF adv.instalmentAmount = None THEN adv.amount
                                              ELSE adv.instalmentAmount,
               Outstanding(adv))

-----------------------------------------------------------------------------
(* The capped loop.  request[i] is what the i-th advance in line asks for; *)
(* Remaining(request, headroom, n)[i] is remainingHeadroom after the i-th  *)
(* turn of the loop.                                                       *)

Remaining(request, headroom, n) ==
    LET left[i \in 0..n] ==
            IF i = 0 THEN headroom
            ELSE left[i-1] - Least(request[i], left[i-1])
    IN  left

DeductedAt(request, headroom, n) ==
    [i \in 1..n |-> Least(request[i], Remaining(request, headroom, n)[i-1])]

TotalDeduction(request, headroom, n) ==
    headroom - Remaining(request, headroom, n)[n]

-----------------------------------------------------------------------------
(* Percentages of a salary, rounded half up to a paisa as round2 does.     *)

Percent(gross, pct) == (2 * gross * pct + 100) \div 200

NetPay(gross, tax, contribution) ==
    gross - Percent(gross, tax) - Percent(gross, contribution)
=============================================================================
