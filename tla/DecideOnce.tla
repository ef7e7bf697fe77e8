------------------------------ MODULE DecideOnce ------------------------------
(***************************************************************************)
(* What an approval workflow promises: a request is submitted once, then   *)
(* either cancelled by its owner or decided by an approver, that is final, *)
(* and an approval takes effect exactly once.  AdvanceRequests and Leave   *)
(* are compared with it; the effect of an approval is the advance it gives *)
(* or the days it books.                                                   *)
(***************************************************************************)
EXTENDS Naturals

CONSTANT Requests

VARIABLES
    status,     \* of each request; "none" before it is submitted
    effect      \* how often the approval of a request took effect

vars == <<status, effect>>

Statuses == {"none", "pending", "approved", "rejected", "cancelled"}

Init ==
    /\ status = [r \in Requests |-> "none"]
    /\ effect = [r \in Requests |-> 0]

Submit(r) ==
    /\ status[r] = "none"
    /\ status' = [status EXCEPT ![r] = "pending"]
    /\ UNCHANGED effect

Cancel(r) ==
    /\ status[r] = "pending"
    /\ status' = [status EXCEPT ![r] = "cancelled"]
    /\ UNCHANGED effect

Approve(r) ==
    /\ status[r] = "pending"
    /\ status' = [status EXCEPT ![r] = "approved"]
    /\ effect' = [effect EXCEPT ![r] = @ + 1]

Reject(r) ==
    /\ status[r] = "pending"
    /\ status' = [status EXCEPT ![r] = "rejected"]
    /\ UNCHANGED effect

Next == \E r \in Requests : Submit(r) \/ Cancel(r) \/ Approve(r) \/ Reject(r)

Spec == Init /\ [][Next]_vars

(* An approval has taken effect once, anything else not at all.            *)
EffectMatchesStatus ==
    /\ status \in [Requests -> Statuses]
    /\ effect \in [Requests -> Nat]
    /\ \A r \in Requests : effect[r] = IF status[r] = "approved" THEN 1 ELSE 0

(* A decision or a cancellation is never taken back.                       *)
DecisionsAreFinal ==
    [][\A r \in Requests :
         status[r] \in {"approved", "rejected", "cancelled"} => status'[r] = status[r]]_vars
=============================================================================
