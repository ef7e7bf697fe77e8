--------------------------------- MODULE Staff ---------------------------------
(***************************************************************************)
(* The people of one tenant: EmployeesService (create, update, deactivate, *)
(* reactivate) under the employee limit of the tenant's plan               *)
(* (PlansService, TenantsService).                                         *)
(*                                                                         *)
(* Hiring, leaving and coming back read and check in their transaction,    *)
(* then write and commit; at READ COMMITTED another handler may commit in  *)
(* between.  Setting a supervisor and the plans check nothing that another *)
(* handler could disturb and are one step.  A membership row never goes    *)
(* away.  Departments, photos and personal data are left out.              *)
(***************************************************************************)
EXTENDS Naturals, FiniteSets

CONSTANTS
    Members,        \* rows of tenant_memberships
    Roles,          \* roles that members are hired in
    Plans,          \* keys of plans
    DefaultPlan,    \* the plan of a new tenant
    Limits,         \* maxEmployees; no limit is a number beyond Members
    FallbackLimit,  \* the limit of a tenant whose plan does not exist
    Handlers,       \* requests served at the same time
    Nobody          \* no supervisor, no member

ASSUME StaffAssumption ==
    /\ IsFiniteSet(Members) /\ IsFiniteSet(Handlers)
    /\ Handlers # {}
    /\ Roles \subseteq {"SUPER_ADMIN", "ADMIN", "SUPERVISOR", "EMPLOYEE"}
    /\ DefaultPlan \in Plans
    /\ Limits \subseteq Nat \ {0} /\ FallbackLimit \in Nat \ {0}
    /\ Nobody \notin Members

NoPlan == 0

VARIABLES
    status,         \* "none", "active" or "disabled"
    role,
    supervisor,     \* supervisorMembershipId, or Nobody
    plan,           \* limit of each plan, or NoPlan
    tenantPlan,     \* the tenant's plan
    handler,        \* what each handler is doing
    highest,        \* history: the highest limit the tenant ever had
    raced           \* history: an admin left on a count that was out of date

people == <<status, role, supervisor>>
plans == <<plan, tenantPlan, highest>>
vars == <<people, plans, handler, raced>>

Active == {m \in Members : status[m] = "active"}
Admins == {m \in Active : role[m] = "SUPER_ADMIN"}

Resting == [pc |-> "rest", member |-> Nobody, supervisor |-> Nobody, stale |-> FALSE]

Rests(h) == handler[h].pc = "rest"

-----------------------------------------------------------------------------
(* The org chart. *)

Bosses(chart, who) == {chart[m] : m \in who} \ {Nobody}

(* who and everyone above one of them, a level at a time.                  *)
AllAbove(chart, who) ==
    LET climb[seen \in SUBSET Members] ==
            LET more == seen \cup Bosses(chart, seen)
            IN  IF more = seen THEN seen ELSE climb[more]
    IN  climb[who]

(* Everyone above m; m too, when supervisors form a circle. *)
Above(m) == AllAbove(supervisor, Bosses(supervisor, {m}))

(* getReportSubtreeIds: everyone below s.  The query does not remove       *)
(* duplicates, so it never ends when it meets a circle.                    *)
Team(s) == {m \in Members \ {s} : s \in Above(m)}

TeamQueryEnds(s) == \A m \in Team(s) \cup {s} : m \notin Above(m)

-----------------------------------------------------------------------------
(* Plans. *)

Limit == IF plan[tenantPlan] = NoPlan THEN FallbackLimit ELSE plan[tenantPlan]

RecordLimit == highest' = IF Limit' > highest THEN Limit' ELSE highest

SavePlan(key, limit) ==             \* create, and update of maxEmployees
    /\ plan' = [plan EXCEPT ![key] = limit]
    /\ UNCHANGED <<people, tenantPlan, handler, raced>>
    /\ RecordLimit

RemovePlan(key) ==
    /\ plan[key] # NoPlan
    /\ tenantPlan # key
    /\ plan' = [plan EXCEPT ![key] = NoPlan]
    /\ UNCHANGED <<people, tenantPlan, handler, raced>>
    /\ RecordLimit

UpdateTenantPlan(key) ==
    /\ plan[key] # NoPlan
    /\ tenantPlan' = key
    /\ UNCHANGED <<people, plan, handler, raced>>
    /\ RecordLimit

-----------------------------------------------------------------------------
(* Reads of a transaction. *)

Read(h, pc, m, boss) ==
    /\ Rests(h)
    /\ handler' = [handler EXCEPT ![h] =
            [pc |-> pc, member |-> m, supervisor |-> boss, stale |-> FALSE]]
    /\ UNCHANGED <<people, plans, raced>>

BelowLimit == Cardinality(Active) < Limit

ReadForCreate(h) ==
    /\ BelowLimit
    /\ Read(h, "create", Nobody, Nobody)

(* Mutant: somebody who comes back does not count. *)
ReadForAnyReactivate(h, m) ==
    /\ status[m] = "disabled"
    /\ Read(h, "reactivate", m, Nobody)

ReadForReactivate(h, m) ==
    /\ status[m] = "disabled"
    /\ BelowLimit
    /\ Read(h, "reactivate", m, Nobody)

(* The caller's role is that of the token, and nobody's role ever changes. *)
MayDeactivate(by, m) ==
    \/ role[by] = "SUPER_ADMIN"
    \/ /\ role[by] = "SUPERVISOR"
       /\ TeamQueryEnds(by) /\ m \in Team(by)
       /\ role[m] \in {"EMPLOYEE", "SUPERVISOR"}

(* Mutant: the leaver counts among the admins that remain. *)
NotTheOnlyAdmin(m) == role[m] = "SUPER_ADMIN" => Admins # {}

NotTheLastAdmin(m) == role[m] = "SUPER_ADMIN" => Admins \ {m} # {}

ReadForDeactivate(h, by, m) ==
    /\ status[by] # "none" /\ by # m
    /\ status[m] = "active"
    /\ MayDeactivate(by, m)
    /\ NotTheLastAdmin(m)
    /\ Read(h, "deactivate", m, supervisor[m])

-----------------------------------------------------------------------------
(* Writes, by id and whatever the row holds now. *)

(* The row gets an id, a role and perhaps a supervisor, of any status.     *)
WriteCreate(h, m, r, boss) ==
    /\ handler[h].pc = "create"
    /\ status[m] = "none"
    /\ boss # Nobody => status[boss] # "none"
    /\ status' = [status EXCEPT ![m] = "active"]
    /\ role' = [role EXCEPT ![m] = r]
    /\ supervisor' = [supervisor EXCEPT ![m] = boss]
    /\ handler' = [handler EXCEPT ![h] = Resting]
    /\ UNCHANGED <<plans, raced>>

WriteReactivate(h) ==
    /\ handler[h].pc = "reactivate"
    /\ status' = [status EXCEPT ![handler[h].member] = "active"]
    /\ handler' = [handler EXCEPT ![h] = Resting]
    /\ UNCHANGED <<role, supervisor, plans, raced>>

(* Mutant: the reports stay with the leaver. *)
LeaveAlone(m, boss) == UNCHANGED supervisor

(* Whoever reported to m is handed up to m's supervisor, as it was read.   *)
HandUp(m, boss) ==
    supervisor' = [r \in Members |->
        IF supervisor[r] = m /\ status[r] = "active" THEN boss ELSE supervisor[r]]

(* An admin who leaves makes the counts of other handlers out of date.     *)
Disturbed(h) ==
    [k \in Handlers |->
        IF k = h THEN Resting
        ELSE [handler[k] EXCEPT !.stale = @ \/ role[handler[h].member] = "SUPER_ADMIN"]]

WriteDeactivate(h) ==
    /\ handler[h].pc = "deactivate"
    /\ HandUp(handler[h].member, handler[h].supervisor)
    /\ status' = [status EXCEPT ![handler[h].member] = "disabled"]
    /\ handler' = Disturbed(h)
    /\ raced' = (raced \/ handler[h].stale)
    /\ UNCHANGED <<role, plans>>

(* EmployeesService.update: any member of the tenant but oneself. *)
SetSupervisor(m, boss) ==
    /\ status[m] # "none" /\ boss # m
    /\ boss # Nobody => status[boss] # "none"
    /\ supervisor' = [supervisor EXCEPT ![m] = boss]
    /\ UNCHANGED <<status, role, plans, handler, raced>>

Abort(h) ==
    /\ ~Rests(h)
    /\ handler' = [handler EXCEPT ![h] = Resting]
    /\ UNCHANGED <<people, plans, raced>>

-----------------------------------------------------------------------------
(* createTenantWithAdmin, signUp: a tenant with its first Super Admin. *)
Init ==
    /\ \E founder \in Members :
          status = [m \in Members |-> IF m = founder THEN "active" ELSE "none"]
    /\ role = [m \in Members |-> "SUPER_ADMIN"]
    /\ supervisor = [m \in Members |-> Nobody]
    /\ plan \in [Plans -> Limits \cup {NoPlan}]
    /\ tenantPlan = DefaultPlan
    /\ handler = [h \in Handlers |-> Resting]
    /\ highest = Limit
    /\ raced = FALSE

Reads(h) ==
    \/ ReadForCreate(h)
    \/ \E m \in Members : ReadForReactivate(h, m)
    \/ \E by, m \in Members : ReadForDeactivate(h, by, m)

Writes(h) ==
    \/ \E m \in Members, r \in Roles, boss \in Members \cup {Nobody} :
          WriteCreate(h, m, r, boss)
    \/ WriteReactivate(h)
    \/ WriteDeactivate(h)

Next ==
    \/ \E key \in Plans :
          \/ \E limit \in Limits : SavePlan(key, limit)
          \/ RemovePlan(key)
          \/ UpdateTenantPlan(key)
    \/ \E m \in Members, boss \in Members \cup {Nobody} : SetSupervisor(m, boss)
    \/ \E h \in Handlers : Reads(h) \/ Writes(h) \/ Abort(h)

Spec == Init /\ [][Next]_vars

-----------------------------------------------------------------------------
(* Properties. *)

(* The tenant keeps an active Super Admin, unless two leave at the same    *)
(* time (deactivate, last_admin).                                          *)
AdminRemains == Admins # {} \/ raced

(* Hirings and returns that race may pass the check of the plan together,  *)
(* but only as many as are served at the same time: the headcount never    *)
(* exceeds the highest limit by more than the other handlers.              *)
OvershootIsBounded ==
    Cardinality(Active) <= highest + Cardinality(Handlers) - 1

(* Whom leaving hands up from gone: not those who left before, and nobody  *)
(* to somebody else when gone is their own supervisor.                     *)
HandedUp(r, gone) == status[r] = "active" /\ supervisor[gone] # gone

(* When somebody leaves, the chain of supervisors above everyone else      *)
(* loses the leaver, if the reports in it can be handed up, and nobody     *)
(* else, as long as the leaver's own supervisor has not changed since it   *)
(* was read (deactivate: nobody is left without one).                      *)
LeavingKeepsChains ==
    [][\A h \in Handlers :
         LET gone == handler[h].member
         IN  WriteDeactivate(h) /\ handler[h].supervisor = supervisor[gone] =>
                \A m \in Members \ {gone} :
                   /\ Above(m)' \ {gone} = Above(m) \ {gone}
                   /\ gone \in Above(m)' =>
                         \E r \in Above(m) \cup {m} :
                            supervisor[r] = gone /\ ~HandedUp(r, gone)]_vars
=============================================================================
