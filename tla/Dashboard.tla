------------------------------- MODULE Dashboard -------------------------------
(***************************************************************************)
(* The dashboard of a business day: DashboardService, and what the other   *)
(* services change under it.                                               *)
(*                                                                         *)
(* getSummary counts the members, reads today's events and reads the       *)
(* approved leave in three statements, each of which sees what is          *)
(* committed when it starts; getDrilldown lists the same by name.          *)
(***************************************************************************)
EXTENDS Rows

CONSTANTS
    DashMembers,
    MyReports,      \* getReportSubtreeIds of a supervisor who looks
    MaxChanges      \* bound: commits followed while a summary is read

ASSUME DashboardAssumption ==
    /\ IsFiniteSet(DashMembers) /\ MyReports \subseteq DashMembers
    /\ MaxChanges \in Nat

VARIABLES
    employed,       \* memberships that are active and have not left
    checkedIn,      \* those with a check-in today
    checkedOut,
    onLeave,        \* those whose approved leave covers today
    summary         \* the summary being read, and how much changed meanwhile

dashVars == <<employed, checkedIn, checkedOut, onLeave, summary>>

NoSummary == [pc |-> "none", scope |-> {}, total |-> 0, present |-> {}, activeNow |-> 0,
              absent |-> 0, onLeaveToday |-> 0, changes |-> 0]

DashRoles == {"PUGEY_STAFF", "SUPER_ADMIN", "ADMIN", "SUPERVISOR", "EMPLOYEE"}

(* myTeamScope and resolveScope: nothing for those it forbids.             *)
Scope(role) ==
    CASE role \in {"SUPER_ADMIN", "ADMIN"} -> {DashMembers}
      [] role = "SUPERVISOR" -> {MyReports}
      [] OTHER -> {}

-----------------------------------------------------------------------------
(* What others commit. *)

Disturb ==
    /\ summary.changes < MaxChanges
    /\ summary' = IF summary.pc = "none" THEN summary ELSE [summary EXCEPT !.changes = @ + 1]

CheckInToday(m) ==
    /\ m \notin checkedIn
    /\ checkedIn' = checkedIn \cup {m}
    /\ Disturb
    /\ UNCHANGED <<employed, checkedOut, onLeave>>

CheckOutToday(m) ==
    /\ m \in checkedIn \ checkedOut
    /\ checkedOut' = checkedOut \cup {m}
    /\ Disturb
    /\ UNCHANGED <<employed, checkedIn, onLeave>>

(* A decided request is final, so leave of today does not go away.         *)
LeaveApproved(m) ==
    /\ m \notin onLeave
    /\ onLeave' = onLeave \cup {m}
    /\ Disturb
    /\ UNCHANGED <<employed, checkedIn, checkedOut>>

(* Hired or taken back; left or deactivated. *)
EmploymentChanges(m) ==
    /\ employed' = IF m \in employed THEN employed \ {m} ELSE employed \cup {m}
    /\ Disturb
    /\ UNCHANGED <<checkedIn, checkedOut, onLeave>>

-----------------------------------------------------------------------------
(* getSummary. *)

CountEmployees(role) ==
    /\ summary.pc = "none"
    /\ \E scope \in Scope(role) :
        summary' = [NoSummary EXCEPT !.pc = "events", !.scope = scope,
                                     !.total = Cardinality(employed \cap scope)]
    /\ UNCHANGED <<employed, checkedIn, checkedOut, onLeave>>

(* groupTodayEvents: of anyone in scope, still employed or not.            *)
ReadTodaysEvents ==
    /\ summary.pc = "events"
    /\ summary' = [summary EXCEPT !.pc = "leave",
            !.present = checkedIn \cap summary.scope,
            !.activeNow = Cardinality((checkedIn \ checkedOut) \cap summary.scope)]
    /\ UNCHANGED <<employed, checkedIn, checkedOut, onLeave>>

(* Mutant: who is present stays among those on leave. *)
StillAway == onLeave \cap employed \cap summary.scope

Away == (onLeave \cap employed \cap summary.scope) \ summary.present

(* A subtraction of counts, where the comment promises a set difference.   *)
ReadLeaveAndAnswer ==
    /\ summary.pc = "leave"
    /\ LET taken == Cardinality(summary.present) + Cardinality(Away)
       IN  summary' = [summary EXCEPT !.pc = "answered",
                !.onLeaveToday = Cardinality(Away),
                !.absent = IF summary.total > taken THEN summary.total - taken ELSE 0]
    /\ UNCHANGED <<employed, checkedIn, checkedOut, onLeave>>

SummaryShown ==
    /\ summary.pc = "answered"
    /\ summary' = NoSummary
    /\ UNCHANGED <<employed, checkedIn, checkedOut, onLeave>>

(* getDrilldown, the list under the number of the absent.                  *)
AbsentList(scope) == {m \in employed \cap scope : m \notin checkedIn \cup onLeave}

-----------------------------------------------------------------------------
DashInit ==
    /\ employed = DashMembers
    /\ checkedIn = {}
    /\ checkedOut = {}
    /\ onLeave = {}
    /\ summary = NoSummary

DashNext ==
    \/ \E m \in DashMembers :
        CheckInToday(m) \/ CheckOutToday(m) \/ LeaveApproved(m) \/ EmploymentChanges(m)
    \/ \E role \in DashRoles : CountEmployees(role)
    \/ ReadTodaysEvents
    \/ ReadLeaveAndAnswer
    \/ SummaryShown

DashSpec == DashInit /\ [][DashNext]_dashVars

-----------------------------------------------------------------------------
(* Properties. *)

(* The number of the absent and the list opened from it (which, the        *)
(* comment says, come from one formula) differ by no more than what was    *)
(* committed while the number was read, and those who checked in today and *)
(* then left: they are taken from a total they are not part of.            *)
SummaryDriftIsBounded ==
    summary.pc = "answered" =>
        LET listed == Cardinality(AbsentList(summary.scope))
            drift == summary.changes
                     + Cardinality((checkedIn \cap summary.scope) \ employed)
        IN  summary.absent \in listed - drift .. listed + drift
=============================================================================
