---------------------------- MODULE PeopleProofs ----------------------------
(***************************************************************************)
(* The people of a tenant and their logins: the safety of Staff and of     *)
(* Sessions.                                                               *)
(***************************************************************************)
EXTENDS Staff, Sessions, FiniteSetTheorems, TLAPS

(***************************************************************************)
(* The safety of Staff for any number of members, plans and handlers: the  *)
(* last Super Admin leaves only in a race, and the headcount exceeds the   *)
(* plan by no more than the handlers that race.                            *)
(***************************************************************************)

HandlerState ==
    [pc: {"rest", "create", "reactivate", "deactivate"}, member: Members \cup {Nobody},
     supervisor: Members \cup {Nobody}, stale: BOOLEAN]

(* Rows and handlers have their types, and a handler that is about to      *)
(* change a row holds one that exists.                                     *)
StaffTypeOK ==
    /\ status \in [Members -> {"none", "active", "disabled"}]
    /\ role \in [Members -> {"SUPER_ADMIN", "ADMIN", "SUPERVISOR", "EMPLOYEE"}]
    /\ supervisor \in [Members -> Members \cup {Nobody}]
    /\ plan \in [Plans -> Nat]
    /\ tenantPlan \in Plans
    /\ handler \in [Handlers -> HandlerState]
    /\ highest \in Nat
    /\ raced \in BOOLEAN
    /\ \A h \in Handlers : handler[h].pc \in {"reactivate", "deactivate"} =>
          handler[h].member \in Members /\ status[handler[h].member] # "none"

LEMMA RestingType == Resting \in HandlerState
  BY DEF Resting, HandlerState

LEMMA LimitType == StaffTypeOK => Limit \in Nat \ {0}
  BY StaffAssumption DEF StaffTypeOK, Limit, NoPlan

LEMMA InitStaffType == Init => StaffTypeOK
  <1>1. SUFFICES ASSUME Init PROVE StaffTypeOK
    OBVIOUS
  <1>2. /\ status \in [Members -> {"none", "active", "disabled"}]
        /\ role \in [Members -> {"SUPER_ADMIN", "ADMIN", "SUPERVISOR", "EMPLOYEE"}]
        /\ supervisor \in [Members -> Members \cup {Nobody}]
    <2>1. PICK founder \in Members :
             status = [m \in Members |-> IF m = founder THEN "active" ELSE "none"]
      BY <1>1 DEF Init
    <2>2. role = [m \in Members |-> "SUPER_ADMIN"] /\ supervisor = [m \in Members |-> Nobody]
      BY <1>1 DEF Init
    <2>3. QED
      BY <2>1, <2>2
  <1>3. plan \in [Plans -> Nat] /\ tenantPlan \in Plans
    <2>1. plan \in [Plans -> Limits \cup {0}] /\ tenantPlan = DefaultPlan
      BY <1>1 DEF Init, NoPlan
    <2>2. Limits \cup {0} \subseteq Nat /\ DefaultPlan \in Plans
      BY StaffAssumption
    <2>3. QED
      BY <2>1, <2>2
  <1>4. handler \in [Handlers -> HandlerState] /\ \A h \in Handlers : handler[h].pc = "rest"
    BY <1>1, RestingType DEF Init, Resting
  <1>5. highest \in Nat
    BY <1>1, <1>3, StaffAssumption DEF Init, Limit, NoPlan
  <1>6. QED
    BY <1>1, <1>2, <1>3, <1>4, <1>5 DEF StaffTypeOK, Init

-----------------------------------------------------------------------------
(* What the steps do. *)

(* A step of the plans changes no person and no handler, and records the   *)
(* limit.                                                                  *)
PlanStep ==
    \E key \in Plans :
        (\E limit \in Limits : SavePlan(key, limit)) \/ RemovePlan(key) \/ UpdateTenantPlan(key)

LEMMA PlanEffect ==
  ASSUME StaffTypeOK, PlanStep
  PROVE  /\ UNCHANGED <<people, handler, raced>>
         /\ plan' \in [Plans -> Nat] /\ tenantPlan' \in Plans
         /\ highest' \in Nat /\ highest <= highest' /\ Limit' <= highest'
  <1>1. /\ UNCHANGED <<people, handler, raced>> /\ RecordLimit
        /\ plan' \in [Plans -> Nat] /\ tenantPlan' \in Plans
    BY StaffAssumption DEF PlanStep, SavePlan, RemovePlan, UpdateTenantPlan, NoPlan, StaffTypeOK
  <1>2. Limit' \in Nat
    BY <1>1, StaffAssumption DEF Limit, NoPlan
  <1>3. QED
    BY <1>1, <1>2 DEF RecordLimit, StaffTypeOK

(* A read starts one handler that rested; who adds somebody has seen that  *)
(* there is room, and who removes an admin that another one is there.      *)
LEMMA ReadStepEffect ==
  ASSUME StaffTypeOK, NEW h \in Handlers, Reads(h)
  PROVE  \E new \in HandlerState :
            /\ handler' = [handler EXCEPT ![h] = new]
            /\ handler[h].pc = "rest" /\ new.pc # "rest" /\ new.stale = FALSE
            /\ UNCHANGED <<people, plans, raced>>
            /\ new.pc \in {"create", "reactivate"} => BelowLimit
            /\ new.pc \in {"reactivate", "deactivate"} =>
                  new.member \in Members /\ status[new.member] # "none"
            /\ new.pc = "deactivate" => NotTheLastAdmin(new.member)
  <1>1. CASE ReadForCreate(h)
    <2> DEFINE new == [pc |-> "create", member |-> Nobody, supervisor |-> Nobody, stale |-> FALSE]
    <2>1. new \in HandlerState
      BY DEF HandlerState
    <2>2. QED
      BY <1>1, <2>1 DEF ReadForCreate, Read, Rests
  <1>2. ASSUME NEW m \in Members, ReadForReactivate(h, m)
        PROVE  \E new \in HandlerState :
            /\ handler' = [handler EXCEPT ![h] = new]
            /\ handler[h].pc = "rest" /\ new.pc # "rest" /\ new.stale = FALSE
            /\ UNCHANGED <<people, plans, raced>>
            /\ new.pc \in {"create", "reactivate"} => BelowLimit
            /\ new.pc \in {"reactivate", "deactivate"} =>
                  new.member \in Members /\ status[new.member] # "none"
            /\ new.pc = "deactivate" => NotTheLastAdmin(new.member)
    <2> DEFINE new == [pc |-> "reactivate", member |-> m, supervisor |-> Nobody, stale |-> FALSE]
    <2>1. new \in HandlerState
      BY DEF HandlerState
    <2>2. QED
      BY <1>2, <2>1 DEF ReadForReactivate, Read, Rests
  <1>3. ASSUME NEW by \in Members, NEW m \in Members, ReadForDeactivate(h, by, m)
        PROVE  \E new \in HandlerState :
            /\ handler' = [handler EXCEPT ![h] = new]
            /\ handler[h].pc = "rest" /\ new.pc # "rest" /\ new.stale = FALSE
            /\ UNCHANGED <<people, plans, raced>>
            /\ new.pc \in {"create", "reactivate"} => BelowLimit
            /\ new.pc \in {"reactivate", "deactivate"} =>
                  new.member \in Members /\ status[new.member] # "none"
            /\ new.pc = "deactivate" => NotTheLastAdmin(new.member)
    <2> DEFINE new == [pc |-> "deactivate", member |-> m, supervisor |-> supervisor[m], stale |-> FALSE]
    <2>1. new \in HandlerState
      BY DEF HandlerState, StaffTypeOK
    <2>2. /\ Rests(h) /\ status[m] = "active" /\ NotTheLastAdmin(m)
          /\ handler' = [handler EXCEPT ![h] = new]
          /\ UNCHANGED <<people, plans, raced>>
      BY <1>3 DEF ReadForDeactivate, Read
    <2>3. QED
      BY <2>1, <2>2 DEF Rests
  <1>4. QED
    BY <1>1, <1>2, <1>3 DEF Reads

(* Who is added was not there, or had left; the rows of all others, and of *)
(* everyone who is active, keep their role.                                *)
LEMMA AddEffect ==
  ASSUME StaffTypeOK, NEW h \in Handlers,
         WriteReactivate(h) \/ \E m \in Members, r \in Roles, boss \in Members \cup {Nobody} :
                                  WriteCreate(h, m, r, boss)
  PROVE  \E m \in Members :
            /\ handler[h].pc \in {"create", "reactivate"}
            /\ status' = [status EXCEPT ![m] = "active"]
            /\ handler' = [handler EXCEPT ![h] = Resting]
            /\ UNCHANGED <<plans, raced>>
            /\ role' \in [Members -> {"SUPER_ADMIN", "ADMIN", "SUPERVISOR", "EMPLOYEE"}]
            /\ supervisor' \in [Members -> Members \cup {Nobody}]
            /\ \A x \in Members : status[x] # "none" => role'[x] = role[x]
  <1>1. CASE WriteReactivate(h)
    <2>1. handler[h].member \in Members
      BY <1>1 DEF WriteReactivate, StaffTypeOK
    <2>2. QED
      BY <1>1, <2>1 DEF WriteReactivate, StaffTypeOK
  <1>2. ASSUME NEW m \in Members, NEW r \in Roles, NEW boss \in Members \cup {Nobody},
               WriteCreate(h, m, r, boss)
        PROVE  /\ handler[h].pc \in {"create", "reactivate"}
               /\ status' = [status EXCEPT ![m] = "active"]
               /\ handler' = [handler EXCEPT ![h] = Resting]
               /\ UNCHANGED <<plans, raced>>
               /\ role' \in [Members -> {"SUPER_ADMIN", "ADMIN", "SUPERVISOR", "EMPLOYEE"}]
               /\ supervisor' \in [Members -> Members \cup {Nobody}]
               /\ \A x \in Members : status[x] # "none" => role'[x] = role[x]
    <2>1. r \in {"SUPER_ADMIN", "ADMIN", "SUPERVISOR", "EMPLOYEE"}
      BY StaffAssumption
    <2>2. /\ role \in [Members -> {"SUPER_ADMIN", "ADMIN", "SUPERVISOR", "EMPLOYEE"}]
          /\ supervisor \in [Members -> Members \cup {Nobody}]
          /\ role' = [role EXCEPT ![m] = r] /\ status[m] = "none"
          /\ supervisor' = [supervisor EXCEPT ![m] = boss]
      BY <1>2 DEF WriteCreate, StaffTypeOK
    <2>3. QED
      BY <1>2, <2>1, <2>2 DEF WriteCreate
  <1>3. QED
    BY <1>1, <1>2

(* Who leaves is no longer active, and every other handler knows whether   *)
(* that was an admin.                                                      *)
LEMMA LeaveEffect ==
  ASSUME StaffTypeOK, NEW h \in Handlers, WriteDeactivate(h)
  PROVE  /\ handler[h].pc = "deactivate" /\ handler[h].member \in Members
         /\ status' = [status EXCEPT ![handler[h].member] = "disabled"]
         /\ supervisor' \in [Members -> Members \cup {Nobody}]
         /\ handler' \in [Handlers -> HandlerState]
         /\ handler'[h] = Resting
         /\ \A k \in Handlers \ {h} :
               /\ handler'[k].pc = handler[k].pc /\ handler'[k].member = handler[k].member
               /\ handler'[k].stale =
                     (handler[k].stale \/ role[handler[h].member] = "SUPER_ADMIN")
         /\ raced' \in BOOLEAN
         /\ raced' = (raced \/ handler[h].stale)
         /\ UNCHANGED <<role, plans>>
  <1>1. /\ handler[h].pc = "deactivate" /\ handler[h].member \in Members
        /\ handler[h].supervisor \in Members \cup {Nobody}
    BY DEF WriteDeactivate, StaffTypeOK, HandlerState
  <1>2. supervisor' \in [Members -> Members \cup {Nobody}]
    BY <1>1 DEF WriteDeactivate, HandUp, StaffTypeOK
  <1>3. handler' = Disturbed(h)
    BY DEF WriteDeactivate
  <1>4. \A k \in Handlers : handler[k] \in HandlerState
    BY DEF StaffTypeOK
  <1>5. ASSUME NEW k \in Handlers, k # h
        PROVE  /\ handler'[k] \in HandlerState
               /\ handler'[k].pc = handler[k].pc /\ handler'[k].member = handler[k].member
               /\ handler'[k].stale =
                     (handler[k].stale \/ role[handler[h].member] = "SUPER_ADMIN")
    <2>1. handler'[k] = [handler[k] EXCEPT
                !.stale = handler[k].stale \/ role[handler[h].member] = "SUPER_ADMIN"]
      BY <1>3, <1>5 DEF Disturbed
    <2>2. (handler[k].stale \/ role[handler[h].member] = "SUPER_ADMIN") \in BOOLEAN
      OBVIOUS
    <2>3. handler[k] \in HandlerState
      BY <1>4
    <2>4. QED
      BY <2>1, <2>2, <2>3 DEF HandlerState
  <1>6. handler'[h] = Resting
    BY <1>3 DEF Disturbed
  <1>7. handler' \in [Handlers -> HandlerState]
    BY <1>3, <1>5, <1>6, RestingType DEF Disturbed
  <1>8. QED
    BY <1>1, <1>2, <1>5, <1>6, <1>7 DEF WriteDeactivate

LEMMA NextKinds ==
  ASSUME [Next]_vars
  PROVE  \/ PlanStep
         \/ \E m \in Members, boss \in Members \cup {Nobody} : SetSupervisor(m, boss)
         \/ \E h \in Handlers : Reads(h)
         \/ \E h \in Handlers :
               WriteReactivate(h) \/ \E m \in Members, r \in Roles, boss \in Members \cup {Nobody} :
                                        WriteCreate(h, m, r, boss)
         \/ \E h \in Handlers : WriteDeactivate(h)
         \/ \E h \in Handlers : Abort(h)
         \/ UNCHANGED vars
  BY DEF Next, PlanStep, Writes

LEMMA StaffTypeStep == StaffTypeOK /\ [Next]_vars => StaffTypeOK'
  <1> SUFFICES ASSUME StaffTypeOK, [Next]_vars PROVE StaffTypeOK'
    OBVIOUS
  <1>1. CASE PlanStep
    BY <1>1, PlanEffect DEF StaffTypeOK, people
  <1>2. ASSUME NEW m \in Members, NEW boss \in Members \cup {Nobody}, SetSupervisor(m, boss)
        PROVE  StaffTypeOK'
    <2>1. supervisor' \in [Members -> Members \cup {Nobody}]
      BY <1>2 DEF SetSupervisor, StaffTypeOK
    <2>2. QED
      BY <1>2, <2>1 DEF SetSupervisor, StaffTypeOK, plans
  <1>3. ASSUME NEW h \in Handlers, Reads(h)
        PROVE  StaffTypeOK'
    <2>1. PICK new \in HandlerState :
            /\ handler' = [handler EXCEPT ![h] = new]
            /\ UNCHANGED <<people, plans, raced>>
            /\ new.pc \in {"reactivate", "deactivate"} =>
                  new.member \in Members /\ status[new.member] # "none"
      BY <1>3, ReadStepEffect
    <2>2. QED
      BY <2>1 DEF StaffTypeOK, people, plans
  <1>4. ASSUME NEW h \in Handlers,
               WriteReactivate(h) \/ \E m \in Members, r \in Roles, boss \in Members \cup {Nobody} :
                                        WriteCreate(h, m, r, boss)
        PROVE  StaffTypeOK'
    <2>1. PICK m \in Members :
            /\ status' = [status EXCEPT ![m] = "active"]
            /\ handler' = [handler EXCEPT ![h] = Resting]
            /\ UNCHANGED <<plans, raced>>
            /\ role' \in [Members -> {"SUPER_ADMIN", "ADMIN", "SUPERVISOR", "EMPLOYEE"}]
            /\ supervisor' \in [Members -> Members \cup {Nobody}]
      BY <1>4, AddEffect
    <2>2. \A k \in Handlers : handler'[k].pc \in {"reactivate", "deactivate"} =>
             handler'[k].member \in Members /\ status'[handler'[k].member] # "none"
      BY <2>1 DEF StaffTypeOK, Resting
    <2>3. QED
      BY <2>1, <2>2, RestingType DEF StaffTypeOK, plans
  <1>5. ASSUME NEW h \in Handlers, WriteDeactivate(h)
        PROVE  StaffTypeOK'
    <2>1. \A k \in Handlers : handler'[k].pc \in {"reactivate", "deactivate"} =>
             handler'[k].member \in Members /\ status'[handler'[k].member] # "none"
      BY <1>5, LeaveEffect DEF StaffTypeOK, Resting
    <2>2. QED
      BY <1>5, <2>1, LeaveEffect DEF StaffTypeOK, plans
  <1>6. ASSUME NEW h \in Handlers, Abort(h)
        PROVE  StaffTypeOK'
    BY <1>6, RestingType DEF Abort, StaffTypeOK, people, plans, Resting
  <1>7. CASE UNCHANGED vars
    BY <1>7 DEF vars, people, plans, StaffTypeOK
  <1>8. QED
    BY <1>1, <1>2, <1>3, <1>4, <1>5, <1>6, <1>7, NextKinds

-----------------------------------------------------------------------------
(* The last Super Admin.  A handler about to remove an admin either knows  *)
(* that its count is out of date, or another admin is still there.         *)

CountsHold ==
    \A h \in Handlers :
        handler[h].pc = "deactivate" /\ ~handler[h].stale => NotTheLastAdmin(handler[h].member)

AdminInv == StaffTypeOK /\ AdminRemains /\ CountsHold

LEMMA AdminStep == AdminInv /\ [Next]_vars => AdminInv'
  <1> SUFFICES ASSUME AdminInv, [Next]_vars PROVE AdminRemains' /\ CountsHold'
    BY StaffTypeStep DEF AdminInv
  <1>0. StaffTypeOK /\ AdminRemains /\ CountsHold
    BY DEF AdminInv
  <1>1. CASE UNCHANGED <<status, role, handler, raced>>
    BY <1>0, <1>1 DEF AdminRemains, CountsHold, NotTheLastAdmin, Admins, Active
  <1>2. ASSUME NEW h \in Handlers, Reads(h)
        PROVE  AdminRemains' /\ CountsHold'
    <2>1. PICK new \in HandlerState :
            /\ handler' = [handler EXCEPT ![h] = new]
            /\ UNCHANGED <<people, plans, raced>>
            /\ new.pc = "deactivate" => NotTheLastAdmin(new.member)
      BY <1>0, <1>2, ReadStepEffect
    <2>2. UNCHANGED <<status, role, raced>>
      BY <2>1 DEF people
    <2>3. \A k \in Handlers : handler'[k] = IF k = h THEN new ELSE handler[k]
      BY <1>0, <2>1 DEF StaffTypeOK
    <2>4. QED
      BY <1>0, <2>1, <2>2, <2>3 DEF AdminRemains, CountsHold, NotTheLastAdmin, Admins, Active
  <1>3. ASSUME NEW h \in Handlers,
               WriteReactivate(h) \/ \E m \in Members, r \in Roles, boss \in Members \cup {Nobody} :
                                        WriteCreate(h, m, r, boss)
        PROVE  AdminRemains' /\ CountsHold'
    <2>1. PICK m \in Members :
            /\ status' = [status EXCEPT ![m] = "active"]
            /\ handler' = [handler EXCEPT ![h] = Resting]
            /\ UNCHANGED raced
            /\ \A x \in Members : status[x] # "none" => role'[x] = role[x]
      BY <1>0, <1>3, AddEffect
    <2>2. Admins \subseteq Admins'
      BY <1>0, <2>1 DEF Admins, Active, StaffTypeOK
    <2>3. AdminRemains'
      BY <1>0, <2>1, <2>2 DEF AdminRemains
    <2>4. ASSUME NEW k \in Handlers, handler'[k].pc = "deactivate", ~handler'[k].stale
          PROVE  NotTheLastAdmin(handler[k].member)' /\ handler'[k] = handler[k]
      <3>1. handler'[k] = handler[k]
        BY <1>0, <2>1, <2>4 DEF StaffTypeOK, Resting
      <3>2. NotTheLastAdmin(handler[k].member)
        BY <1>0, <2>4, <3>1 DEF CountsHold
      <3>3. role'[handler[k].member] = role[handler[k].member]
        BY <1>0, <2>1, <2>4, <3>1 DEF StaffTypeOK
      <3>4. QED
        BY <2>2, <3>1, <3>2, <3>3 DEF NotTheLastAdmin
    <2>5. QED
      BY <2>3, <2>4 DEF CountsHold, NotTheLastAdmin
  <1>4. ASSUME NEW h \in Handlers, WriteDeactivate(h)
        PROVE  AdminRemains' /\ CountsHold'
    <2> DEFINE gone == handler[h].member
    <2>1. /\ handler[h].pc = "deactivate" /\ gone \in Members
          /\ status' = [status EXCEPT ![gone] = "disabled"]
          /\ handler'[h] = Resting
          /\ \A k \in Handlers \ {h} :
               /\ handler'[k].pc = handler[k].pc /\ handler'[k].member = handler[k].member
               /\ handler'[k].stale = (handler[k].stale \/ role[gone] = "SUPER_ADMIN")
          /\ raced' = (raced \/ handler[h].stale)
          /\ UNCHANGED role
      BY <1>0, <1>4, LeaveEffect
    <2>2. Admins' = Admins \ {gone}
      BY <1>0, <2>1 DEF Admins, Active, StaffTypeOK
    <2>3. role[gone] # "SUPER_ADMIN" => Admins' = Admins
      BY <2>2 DEF Admins
    <2>4. AdminRemains'
      <3>1. CASE raced \/ handler[h].stale
        BY <2>1, <3>1 DEF AdminRemains
      <3>2. CASE ~raced /\ ~handler[h].stale
        BY <1>0, <2>1, <2>2, <2>3, <3>2 DEF AdminRemains, CountsHold, NotTheLastAdmin
      <3>3. QED
        BY <3>1, <3>2
    <2>5. ASSUME NEW k \in Handlers, handler'[k].pc = "deactivate", ~handler'[k].stale
          PROVE  NotTheLastAdmin(handler[k].member)' /\ handler'[k].member = handler[k].member
      <3>1. k # h
        BY <2>1, <2>5 DEF Resting
      <3>2. /\ handler[k].pc = "deactivate" /\ ~handler[k].stale
            /\ role[gone] # "SUPER_ADMIN"
            /\ handler'[k].member = handler[k].member
        BY <2>1, <2>5, <3>1
      <3>3. NotTheLastAdmin(handler[k].member)
        BY <1>0, <3>2 DEF CountsHold
      <3>4. QED
        BY <2>1, <2>3, <3>2, <3>3 DEF NotTheLastAdmin
    <2>6. QED
      BY <2>4, <2>5 DEF CountsHold, NotTheLastAdmin
  <1>5. ASSUME NEW h \in Handlers, Abort(h)
        PROVE  AdminRemains' /\ CountsHold'
    <2>1. handler' = [handler EXCEPT ![h] = Resting] /\ UNCHANGED <<status, role, raced>>
      BY <1>5 DEF Abort, people
    <2>2. \A k \in Handlers : handler'[k].pc = "deactivate" => handler'[k] = handler[k]
      BY <1>0, <2>1 DEF StaffTypeOK, Resting
    <2>3. QED
      BY <1>0, <2>1, <2>2 DEF AdminRemains, CountsHold, NotTheLastAdmin, Admins, Active
  <1>6. PlanStep => UNCHANGED <<status, role, handler, raced>>
    BY <1>0, PlanEffect DEF people
  <1>7. \A m \in Members, boss \in Members \cup {Nobody} :
           SetSupervisor(m, boss) => UNCHANGED <<status, role, handler, raced>>
    BY DEF SetSupervisor
  <1>8. UNCHANGED vars => UNCHANGED <<status, role, handler, raced>>
    BY DEF vars, people
  <1>9. QED
    BY <1>1, <1>2, <1>3, <1>4, <1>5, <1>6, <1>7, <1>8, NextKinds

(* The tenant keeps an active Super Admin for ever, unless two of them are *)
(* removed by handlers that overlap.                                       *)
THEOREM LastAdminStays == Spec => []AdminRemains
  <1>1. Init => AdminInv
    <2>1. Init => AdminRemains
      BY DEF Init, AdminRemains, Admins, Active
    <2>2. Init => CountsHold
      BY DEF Init, CountsHold, Resting
    <2>3. QED
      BY <2>1, <2>2, InitStaffType DEF AdminInv
  <1>2. AdminInv /\ [Next]_vars => AdminInv'
    BY AdminStep
  <1>3. AdminInv => AdminRemains
    BY DEF AdminInv
  <1>4. QED
    BY <1>1, <1>2, <1>3, PTL DEF Spec

-----------------------------------------------------------------------------
(* The headcount.  Whoever is about to add somebody has seen room for one  *)
(* more, so that the handlers that add and those already active together   *)
(* never exceed the highest limit by more than the other handlers.         *)

Adding == {h \in Handlers : handler[h].pc \in {"create", "reactivate"}}

Bounded ==
    /\ Limit <= highest
    /\ Cardinality(Active) + Cardinality(Adding) <= highest + Cardinality(Handlers) - 1

HeadcountInv == StaffTypeOK /\ Bounded

LEMMA Counted ==
    /\ IsFiniteSet(Active) /\ Cardinality(Active) \in Nat
    /\ IsFiniteSet(Adding) /\ Cardinality(Adding) \in Nat
    /\ Cardinality(Adding) <= Cardinality(Handlers)
    /\ Cardinality(Handlers) \in Nat \ {0}
  <1>1. Active \subseteq Members /\ Adding \subseteq Handlers
    BY DEF Active, Adding
  <1>2. IsFiniteSet(Members) /\ IsFiniteSet(Handlers) /\ Handlers # {}
    BY StaffAssumption
  <1>3. IsFiniteSet(Active) /\ IsFiniteSet(Adding) /\ Cardinality(Adding) <= Cardinality(Handlers)
    BY <1>1, <1>2, FS_Subset
  <1>4. Cardinality(Handlers) \in Nat \ {0}
    BY <1>2, FS_CardinalityType, FS_EmptySet
  <1>5. QED
    BY <1>3, <1>4, FS_CardinalityType

LEMMA HeadcountStep == HeadcountInv /\ [Next]_vars => HeadcountInv'
  <1> SUFFICES ASSUME HeadcountInv, [Next]_vars PROVE Bounded'
    BY StaffTypeStep DEF HeadcountInv
  <1>0. StaffTypeOK /\ Bounded
    BY DEF HeadcountInv
  <1>1. UNCHANGED <<plan, tenantPlan>> => Limit' = Limit
    BY DEF Limit
  <1>2. highest \in Nat /\ Limit \in Nat
    BY <1>0, LimitType DEF StaffTypeOK
  <1>3. CASE UNCHANGED <<status, handler, plan, tenantPlan, highest>>
    BY <1>0, <1>1, <1>3 DEF Bounded, Active, Adding
  <1>4. CASE PlanStep
    <2>1. UNCHANGED <<status, handler>> /\ Limit' <= highest' /\ highest <= highest' /\ highest' \in Nat
      BY <1>0, <1>4, PlanEffect DEF people
    <2>2. Active' = Active /\ Adding' = Adding
      BY <2>1 DEF Active, Adding
    <2>3. QED
      BY <1>0, <1>2, <2>1, <2>2, Counted DEF Bounded
  <1>5. ASSUME NEW h \in Handlers, Reads(h)
        PROVE  Bounded'
    <2>1. PICK new \in HandlerState :
            /\ handler' = [handler EXCEPT ![h] = new]
            /\ handler[h].pc = "rest" /\ new.pc # "rest"
            /\ UNCHANGED <<people, plans, raced>>
            /\ new.pc \in {"create", "reactivate"} => BelowLimit
      BY <1>0, <1>5, ReadStepEffect
    <2>2. UNCHANGED <<status, plan, tenantPlan, highest>>
      BY <2>1 DEF people, plans
    <2>3. Active' = Active /\ Limit' = Limit
      BY <1>1, <2>2 DEF Active
    <2>4. CASE BelowLimit
      <3>1. Cardinality(Active) + 1 <= highest
        BY <1>0, <1>2, <2>4, Counted DEF BelowLimit, Bounded
      <3>2. Cardinality(Adding') \in Nat /\ Cardinality(Adding') <= Cardinality(Handlers)
        <4>1. IsFiniteSet(Handlers) /\ Adding' \subseteq Handlers
          BY StaffAssumption DEF Adding
        <4>2. QED
          BY <4>1, FS_Subset, FS_CardinalityType
      <3>3. QED
        BY <1>0, <1>2, <2>2, <2>3, <3>1, <3>2, Counted DEF Bounded
    <2>5. CASE new.pc \notin {"create", "reactivate"}
      <3>1. Adding' = Adding
        BY <1>0, <2>1, <2>5 DEF Adding, StaffTypeOK
      <3>2. QED
        BY <1>0, <2>2, <2>3, <3>1 DEF Bounded
    <2>6. QED
      BY <2>1, <2>4, <2>5
  <1>6. ASSUME NEW h \in Handlers,
               WriteReactivate(h) \/ \E m \in Members, r \in Roles, boss \in Members \cup {Nobody} :
                                        WriteCreate(h, m, r, boss)
        PROVE  Bounded'
    <2>1. PICK m \in Members :
            /\ handler[h].pc \in {"create", "reactivate"}
            /\ status' = [status EXCEPT ![m] = "active"]
            /\ handler' = [handler EXCEPT ![h] = Resting]
            /\ UNCHANGED <<plans, raced>>
      BY <1>0, <1>6, AddEffect
    <2>2. Active' = Active \cup {m}
      BY <1>0, <2>1 DEF Active, StaffTypeOK
    <2>3. Adding' = Adding \ {h} /\ h \in Adding
      BY <1>0, <2>1 DEF Adding, StaffTypeOK, Resting
    <2>4. Cardinality(Active') <= Cardinality(Active) + 1 /\ Cardinality(Active') \in Nat
      <3>1. IsFiniteSet(Active) /\ Cardinality(Active) \in Nat
        BY Counted
      <3>2. Cardinality(Active \cup {m}) \in {Cardinality(Active), Cardinality(Active) + 1}
        BY <3>1, FS_AddElement
      <3>3. QED
        BY <2>2, <3>1, <3>2
    <2>5. Cardinality(Adding') = Cardinality(Adding) - 1
      BY <2>3, Counted, FS_RemoveElement
    <2>6. Limit' = Limit /\ highest' = highest
      BY <1>1, <2>1 DEF plans
    <2>7. QED
      BY <1>0, <1>2, <2>4, <2>5, <2>6, Counted DEF Bounded
  <1>7. ASSUME NEW h \in Handlers,
               \/ WriteDeactivate(h)
               \/ Abort(h)
        PROVE  Bounded'
    <2>1. Active' \subseteq Active /\ Adding' \subseteq Adding /\ UNCHANGED plans
      <3>1. CASE WriteDeactivate(h)
        <4>1. /\ status' = [status EXCEPT ![handler[h].member] = "disabled"]
              /\ handler[h].member \in Members
              /\ handler'[h] = Resting /\ UNCHANGED plans
              /\ \A k \in Handlers \ {h} : handler'[k].pc = handler[k].pc
          BY <1>0, <3>1, LeaveEffect
        <4>2. Active' \subseteq Active
          BY <1>0, <4>1 DEF Active, StaffTypeOK
        <4>3. Adding' \subseteq Adding
          BY <4>1 DEF Adding, Resting
        <4>4. QED
          BY <4>1, <4>2, <4>3
      <3>2. CASE Abort(h)
        BY <1>0, <3>2 DEF Abort, Active, Adding, Resting, StaffTypeOK, people
      <3>3. QED
        BY <1>7, <3>1, <3>2
    <2>2. Cardinality(Active') <= Cardinality(Active) /\ Cardinality(Active') \in Nat
      BY <2>1, Counted, FS_Subset, FS_CardinalityType
    <2>3. Cardinality(Adding') <= Cardinality(Adding) /\ Cardinality(Adding') \in Nat
      BY <2>1, Counted, FS_Subset, FS_CardinalityType
    <2>4. Limit' = Limit /\ highest' = highest
      BY <1>1, <2>1 DEF plans
    <2>5. QED
      BY <1>0, <1>2, <2>2, <2>3, <2>4, Counted DEF Bounded
  <1>8. \A m \in Members, boss \in Members \cup {Nobody} :
           SetSupervisor(m, boss) => UNCHANGED <<status, handler, plan, tenantPlan, highest>>
    BY DEF SetSupervisor, plans
  <1>9. UNCHANGED vars => UNCHANGED <<status, handler, plan, tenantPlan, highest>>
    BY DEF vars, people, plans
  <1>10. QED
    BY <1>3, <1>4, <1>5, <1>6, <1>7, <1>8, <1>9, NextKinds

(* Hirings and returns that race exceed the highest limit the tenant ever  *)
(* had by at most one for each handler beyond the first.                   *)
THEOREM HeadcountStaysBounded == Spec => []OvershootIsBounded
  <1>1. Init => HeadcountInv
    <2>1. SUFFICES ASSUME Init PROVE Bounded
      BY InitStaffType DEF HeadcountInv
    <2>2. highest = Limit /\ Limit \in Nat \ {0}
      BY <2>1, InitStaffType, LimitType DEF Init
    <2>3. PICK founder \in Members :
             status = [m \in Members |-> IF m = founder THEN "active" ELSE "none"]
      BY <2>1 DEF Init
    <2>4. Active = {founder} /\ Adding = {}
      BY <2>1, <2>3 DEF Init, Active, Adding, Resting
    <2>5. Cardinality(Active) = 1 /\ Cardinality(Adding) = 0
      BY <2>4, FS_Singleton, FS_EmptySet
    <2>6. QED
      BY <2>2, <2>5, Counted DEF Bounded
  <1>2. HeadcountInv /\ [Next]_vars => HeadcountInv'
    BY HeadcountStep
  <1>3. HeadcountInv => OvershootIsBounded
    BY Counted DEF HeadcountInv, Bounded, StaffTypeOK, OvershootIsBounded
  <1>4. QED
    BY <1>1, <1>2, <1>3, PTL DEF Spec

-----------------------------------------------------------------------------
(***************************************************************************)
(* The chain of supervisors.  Whoever is above somebody is in every set    *)
(* that holds the bosses of all it holds: the recursion computes the least *)
(* such set, and handing up leaves it as it was but for the leaver.        *)
(***************************************************************************)
Charts == [Members -> Members \cup {Nobody}]

Closes(chart, who, S) == who \subseteq S /\ Bosses(chart, S) \subseteq S

LeastAbove(chart, who) ==
    {b \in Members : \A S \in SUBSET Members : Closes(chart, who, S) => b \in S}

IsClimb(chart, climb) ==
    climb = [seen \in SUBSET Members |->
                LET more == seen \cup Bosses(chart, seen)
                IN  IF more = seen THEN seen ELSE climb[more]]

LEMMA LeastAboveCloses ==
    ASSUME NEW chart \in Charts, NEW who \in SUBSET Members
    PROVE  /\ Closes(chart, who, LeastAbove(chart, who))
           /\ LeastAbove(chart, who) \in SUBSET Members
           /\ \A S \in SUBSET Members :
                Closes(chart, who, S) => LeastAbove(chart, who) \subseteq S
  <1>1. who \subseteq LeastAbove(chart, who)
    BY DEF LeastAbove, Closes
  <1>2. ASSUME NEW m \in LeastAbove(chart, who), chart[m] # Nobody
        PROVE  chart[m] \in LeastAbove(chart, who)
    <2>1. m \in Members /\ chart[m] \in Members
      BY <1>2 DEF LeastAbove, Charts
    <2>2. ASSUME NEW S \in SUBSET Members, Closes(chart, who, S)
          PROVE  chart[m] \in S
      <3>1. m \in S
        BY <2>2 DEF LeastAbove
      <3> QED  BY <1>2, <2>2, <3>1 DEF Closes, Bosses
    <2> QED  BY <2>1, <2>2 DEF LeastAbove
  <1> QED  BY <1>1, <1>2 DEF Closes, Bosses, LeastAbove

LEMMA MoreIsAbove ==
    ASSUME NEW chart \in Charts, NEW seen \in SUBSET Members,
           NEW more, more = seen \cup Bosses(chart, seen)
    PROVE  /\ more \in SUBSET Members
           /\ more = seen => LeastAbove(chart, seen) = seen
           /\ LeastAbove(chart, more) = LeastAbove(chart, seen)
  <1>1. more \in SUBSET Members
    BY DEF Bosses, Charts
  <1>2. ASSUME more = seen PROVE LeastAbove(chart, seen) = seen
    <2>1. Closes(chart, seen, seen)
      BY <1>2 DEF Closes
    <2>2. LeastAbove(chart, seen) \subseteq seen /\ seen \subseteq LeastAbove(chart, seen)
      BY <2>1, LeastAboveCloses DEF Closes
    <2> QED  BY <2>2
  <1>3. \A S \in SUBSET Members : Closes(chart, more, S) <=> Closes(chart, seen, S)
    <2> TAKE S \in SUBSET Members
    <2>1. Closes(chart, more, S) => Closes(chart, seen, S)
      BY DEF Closes
    <2>2. ASSUME Closes(chart, seen, S) PROVE Closes(chart, more, S)
      <3>1. Bosses(chart, seen) \subseteq Bosses(chart, S)
        BY <2>2 DEF Closes, Bosses
      <3> QED  BY <2>2, <3>1 DEF Closes
    <2> QED  BY <2>1, <2>2
  <1> QED  BY <1>1, <1>2, <1>3 DEF LeastAbove

LEMMA ClimbExists ==
    ASSUME NEW chart \in Charts
    PROVE  \E climb : IsClimb(chart, climb)
  <1>1. PICK g : g = [seen \in SUBSET Members |-> LeastAbove(chart, seen)]
    OBVIOUS
  <1>2. ASSUME NEW seen \in SUBSET Members
        PROVE  g[seen] = LET more == seen \cup Bosses(chart, seen)
                         IN  IF more = seen THEN seen ELSE g[more]
    <2>1. PICK more : more = seen \cup Bosses(chart, seen)
      OBVIOUS
    <2>2. /\ more \in SUBSET Members
          /\ more = seen => LeastAbove(chart, seen) = seen
          /\ LeastAbove(chart, more) = LeastAbove(chart, seen)
      BY <2>1, MoreIsAbove
    <2>3. g[seen] = LeastAbove(chart, seen) /\ g[more] = LeastAbove(chart, more)
      BY <1>1, <2>2
    <2> QED  BY <2>1, <2>2, <2>3
  <1>3. IsClimb(chart, g)
    BY <1>1, <1>2 DEF IsClimb
  <1> QED  BY <1>3

LEMMA LeastSize ==
    ASSUME NEW T \in SUBSET Nat, T # {}
    PROVE  \E n \in T : \A m \in T : n <= m
  <1>1. PICK n \in T : \A m \in T : ~ (<<m, n>> \in OpToRel(<, Nat))
    BY WFMin, NatLessThanWellFounded
  <1>2. \A m \in T : ~ (m < n)
    BY <1>1 DEF OpToRel
  <1> QED  BY <1>2

LEMMA ClimbIsLeast ==
    ASSUME NEW chart \in Charts, NEW climb, IsClimb(chart, climb), NEW who \in SUBSET Members
    PROVE  climb[who] = LeastAbove(chart, who)
  <1> DEFINE Wrong == {seen \in SUBSET Members : climb[seen] # LeastAbove(chart, seen)}
             Left(seen) == Cardinality(Members \ seen)
             Sizes == {Left(seen) : seen \in Wrong}
  <1> SUFFICES ASSUME Wrong # {} PROVE FALSE
    OBVIOUS
  <1>1. \A seen \in SUBSET Members : IsFiniteSet(Members \ seen) /\ Left(seen) \in Nat
    <2> TAKE seen \in SUBSET Members
    <2>1. IsFiniteSet(Members \ seen)
      BY StaffAssumption, FS_Difference, Zenon
    <2> QED  BY <2>1, FS_CardinalityType, Zenon
  <1>2. Sizes \in SUBSET Nat /\ Sizes # {}
    BY <1>1
  <1>3. PICK n \in Sizes : \A k \in Sizes : n <= k
    BY <1>2, LeastSize
  <1>4. PICK seen \in Wrong : n = Left(seen)
    OBVIOUS
  <1>5. PICK more : more = seen \cup Bosses(chart, seen)
    OBVIOUS
  <1>6. /\ more \in SUBSET Members
        /\ more = seen => LeastAbove(chart, seen) = seen
        /\ LeastAbove(chart, more) = LeastAbove(chart, seen)
    BY <1>4, <1>5, MoreIsAbove
  <1>7. climb[seen] = IF more = seen THEN seen ELSE climb[more]
    BY <1>4, <1>5 DEF IsClimb
  <1>8. more # seen /\ more \in Wrong
    BY <1>4, <1>6, <1>7
  <1>9. Left(more) < Left(seen)
    <2>1. PICK x \in more : x \notin seen
      BY <1>5, <1>8
    <2>2. /\ Members \ more \subseteq (Members \ seen) \ {x} /\ x \in Members \ seen
      BY <1>5, <1>6, <2>1
    <2>3. PICK A, B : A = Members \ seen /\ B = Members \ more
      OBVIOUS
    <2>4. IsFiniteSet(A) /\ Cardinality(A) \in Nat /\ Cardinality(B) \in Nat
      BY <1>1, <1>4, <1>6, <2>3
    <2>5. IsFiniteSet(A \ {x}) /\ Cardinality(A \ {x}) = Cardinality(A) - 1
      BY <2>2, <2>3, <2>4, FS_RemoveElement, Zenon
    <2>6. Cardinality(B) <= Cardinality(A \ {x})
      BY <2>2, <2>3, <2>5, FS_Subset, Zenon
    <2> QED  BY <2>3, <2>4, <2>5, <2>6
  <1>10. n <= Left(more)
    BY <1>3, <1>8
  <1> QED  BY <1>1, <1>4, <1>6, <1>9, <1>10

LEMMA AllAboveIsLeast ==
    ASSUME NEW chart \in Charts, NEW who \in SUBSET Members
    PROVE  AllAbove(chart, who) = LeastAbove(chart, who)
  <1>1. PICK climb : climb = CHOOSE c : IsClimb(chart, c)
    OBVIOUS
  <1>2. IsClimb(chart, climb)
    BY <1>1, ClimbExists, Zenon
  <1>3. AllAbove(chart, who) = climb[who]
    BY <1>1 DEF AllAbove, IsClimb
  <1> QED  BY <1>2, <1>3, ClimbIsLeast

(* Reports of gone are handed up to boss, its own supervisor: chains lose  *)
(* nobody else, and keep gone only through a report that is not handed up. *)
LEMMA HandingUpKeeps ==
    ASSUME NEW chart \in Charts, NEW after \in Charts, NEW gone \in Members,
           NEW boss, boss = chart[gone],
           NEW up, after = [r \in Members |-> IF chart[r] = gone /\ r \in up THEN boss ELSE chart[r]],
           NEW m \in Members
    PROVE  /\ AllAbove(after, Bosses(after, {m})) \ {gone}
                = AllAbove(chart, Bosses(chart, {m})) \ {gone}
           /\ gone \in AllAbove(after, Bosses(after, {m})) =>
                \E r \in AllAbove(chart, Bosses(chart, {m})) \cup {m} :
                   chart[r] = gone /\ ~(r \in up /\ boss # gone)
  <1>1. PICK B, D : B = Bosses(chart, {m}) /\ D = Bosses(after, {m})
    OBVIOUS
  <1>2. B \in SUBSET Members /\ D \in SUBSET Members
    BY <1>1 DEF Bosses, Charts
  <1>3. PICK S, T : S = LeastAbove(chart, B) /\ T = LeastAbove(after, D)
    OBVIOUS
  <1>4. AllAbove(chart, B) = S /\ AllAbove(after, D) = T
    BY <1>2, <1>3, AllAboveIsLeast
  <1>5. /\ Closes(chart, B, S) /\ S \in SUBSET Members
        /\ Closes(after, D, T) /\ T \in SUBSET Members
    BY <1>2, <1>3, LeastAboveCloses
  <1>6. /\ \A U \in SUBSET Members : Closes(chart, B, U) => S \subseteq U
        /\ \A U \in SUBSET Members : Closes(after, D, U) => T \subseteq U
    BY <1>2, <1>3, LeastAboveCloses
  <1>7. /\ chart[m] # Nobody => chart[m] \in S
        /\ after[m] # Nobody => after[m] \in T
        /\ \A x \in S : chart[x] # Nobody => chart[x] \in S
        /\ \A x \in T : after[x] # Nobody => after[x] \in T
    BY <1>1, <1>5 DEF Closes, Bosses
  <1>8. \A r \in Members : after[r] = chart[r] \/ (chart[r] = gone /\ after[r] = chart[gone])
    OBVIOUS
  <1>9. gone # Nobody
    BY StaffAssumption
  <1>10. T \subseteq S
    <2>1. after[m] # Nobody => after[m] \in S
      BY <1>7, <1>8, <1>9
    <2>2. \A x \in S : after[x] # Nobody => after[x] \in S
      BY <1>5, <1>7, <1>8, <1>9
    <2>3. Closes(after, D, S)
      BY <1>1, <2>1, <2>2 DEF Closes, Bosses
    <2> QED  BY <1>5, <1>6, <2>3
  <1>11. S \subseteq T \cup {gone}
    <2>1. CASE \A x \in T \cup {m} : chart[x] # gone
      <3>1. \A x \in T \cup {m} : after[x] = chart[x]
        BY <1>5, <1>8, <2>1
      <3>2. Closes(chart, B, T)
        BY <1>1, <1>7, <3>1 DEF Closes, Bosses
      <3> QED  BY <1>5, <1>6, <3>2
    <2>2. CASE \E x \in T \cup {m} : chart[x] = gone
      <3>1. PICK x \in T \cup {m} : chart[x] = gone
        BY <2>2
      <3>2. boss # Nobody => boss \in T \cup {gone}
        <4>1. x \in Members
          BY <1>5
        <4>2. CASE after[x] = chart[gone]
          BY <1>7, <3>1, <4>2
        <4>3. CASE after[x] = gone
          <5>1. gone \in T
            BY <1>7, <1>9, <3>1, <4>3
          <5>2. after[gone] = boss
            BY <1>8
          <5> QED  BY <1>7, <5>1, <5>2
        <4> QED  BY <1>8, <3>1, <4>1, <4>2, <4>3
      <3>3. \A y \in T \cup {m, gone} : chart[y] # Nobody => chart[y] \in T \cup {gone}
        BY <1>5, <1>7, <1>8, <3>2
      <3>4. Closes(chart, B, T \cup {gone})
        BY <1>1, <3>3 DEF Closes, Bosses
      <3>5. T \cup {gone} \in SUBSET Members
        BY <1>5
      <3> QED  BY <1>6, <3>4, <3>5
    <2> QED  BY <2>1, <2>2
  <1>12. ASSUME gone \in T
         PROVE  \E r \in S \cup {m} : chart[r] = gone /\ ~(r \in up /\ boss # gone)
    <2> SUFFICES ASSUME \A r \in S \cup {m} : chart[r] = gone => r \in up /\ boss # gone
                 PROVE  FALSE
      OBVIOUS
    <2>1. \A x \in S \cup {m} : after[x] # gone
      BY <1>5
    <2>2. PICK U : U = T \ {gone}
      OBVIOUS
    <2>3. Closes(after, D, U)
      BY <1>1, <1>7, <1>10, <2>1, <2>2 DEF Closes, Bosses
    <2> QED  BY <1>5, <1>6, <1>12, <2>2, <2>3
  <1> QED  BY <1>1, <1>4, <1>10, <1>11, <1>12

(* When somebody leaves, the chain above anyone else loses nobody else,    *)
(* and loses the leaver unless one of its reports in that chain cannot be  *)
(* handed up (it is not active, or the leaver reports to itself): provided *)
(* the leaver's supervisor was not changed meanwhile.                      *)
THEOREM LeaversHandUp == Spec => LeavingKeepsChains
  <1>1. Init => StaffTypeOK
    BY InitStaffType
  <1>2. StaffTypeOK /\ [Next]_vars => StaffTypeOK'
    BY StaffTypeStep
  <1>3. ASSUME StaffTypeOK, StaffTypeOK', NEW h \in Handlers, WriteDeactivate(h),
               handler[h].supervisor = supervisor[handler[h].member],
               NEW m \in Members
        PROVE  /\ Above(m)' \ {handler[h].member} = Above(m) \ {handler[h].member}
               /\ handler[h].member \in Above(m)' =>
                    \E r \in Above(m) \cup {m} :
                       supervisor[r] = handler[h].member /\ ~HandedUp(r, handler[h].member)
    <2>1. PICK gone \in Members : gone = handler[h].member
      BY <1>3 DEF StaffTypeOK, WriteDeactivate
    <2>2. PICK up : up = {r \in Members : status[r] = "active"}
      OBVIOUS
    <2>3. PICK boss : boss = handler[h].supervisor
      OBVIOUS
    <2>4. supervisor' = [r \in Members |->
                IF supervisor[r] = gone /\ r \in up THEN boss ELSE supervisor[r]]
      BY <1>3, <2>1, <2>2, <2>3 DEF WriteDeactivate, HandUp
    <2>5. supervisor \in Charts /\ supervisor' \in Charts
      BY <1>3 DEF StaffTypeOK, Charts
    <2>6. PICK chart \in Charts, after \in Charts : chart = supervisor /\ after = supervisor'
      BY <2>5
    <2>7. boss = chart[gone] /\ boss = supervisor[gone]
      BY <1>3, <2>1, <2>3, <2>6
    <2>8. /\ AllAbove(after, Bosses(after, {m})) \ {gone}
               = AllAbove(chart, Bosses(chart, {m})) \ {gone}
          /\ gone \in AllAbove(after, Bosses(after, {m})) =>
               \E r \in AllAbove(chart, Bosses(chart, {m})) \cup {m} :
                  chart[r] = gone /\ ~(r \in up /\ boss # gone)
      BY <2>4, <2>6, <2>7, HandingUpKeeps
    <2>9. PICK A, B : A = AllAbove(chart, Bosses(chart, {m})) /\ B = AllAbove(after, Bosses(after, {m}))
      OBVIOUS
    <2>10. Above(m) = A /\ Above(m)' = B
      BY <2>6, <2>9 DEF Above
    <2>11. B \ {gone} = A \ {gone}
      BY <2>8, <2>9
    <2>12. gone \in B => \E r \in A \cup {m} : supervisor[r] = gone /\ ~HandedUp(r, gone)
      <3>1. gone \in B => \E r \in A \cup {m} : chart[r] = gone /\ ~(r \in up /\ boss # gone)
        BY <2>8, <2>9
      <3>2. ASSUME NEW r, chart[r] = gone, ~(r \in up /\ boss # gone),
                   r \in A \cup {m}
            PROVE  supervisor[r] = gone /\ ~HandedUp(r, gone)
        <4>1. supervisor[r] = gone
          BY <2>6, <3>2
        <4>2. r \in Members
          <5>1. Bosses(chart, {m}) \in SUBSET Members
            BY DEF Bosses, Charts
          <5>2. A \in SUBSET Members
            <6>1. AllAbove(chart, Bosses(chart, {m})) = LeastAbove(chart, Bosses(chart, {m}))
              BY <5>1, AllAboveIsLeast
            <6>2. LeastAbove(chart, Bosses(chart, {m})) \in SUBSET Members
              BY <5>1, LeastAboveCloses
            <6> QED  BY <2>9, <6>1, <6>2, Zenon
          <5> QED  BY <1>3, <3>2, <5>2
        <4>3. QED
          BY <2>2, <2>7, <3>2, <4>1, <4>2 DEF HandedUp
      <3> QED  BY <3>1, <3>2, Zenon
    <2> QED  BY <2>1, <2>10, <2>11, <2>12, Zenon
  <1>4. StaffTypeOK /\ StaffTypeOK' /\ [Next]_vars =>
          [\A h \in Handlers :
             LET gone == handler[h].member
             IN  WriteDeactivate(h) /\ handler[h].supervisor = supervisor[gone] =>
                    \A m \in Members \ {gone} :
                       /\ Above(m)' \ {gone} = Above(m) \ {gone}
                       /\ gone \in Above(m)' =>
                             \E r \in Above(m) \cup {m} :
                                supervisor[r] = gone /\ ~HandedUp(r, gone)]_vars
    BY <1>3
  <1> QED  BY <1>1, <1>2, <1>4, PTL DEF Spec, LeavingKeepsChains

(***************************************************************************)
(* That a reset of the password ends every session, for any number of      *)
(* logins, tokens, links and handlers.                                     *)
(*                                                                         *)
(* That live tokens come from the present password is not inductive: the   *)
(* commit of a reset has to know that what it does not revoke was inserted *)
(* under it (Ending).                                                      *)
(***************************************************************************)

Phases == {"rest", "issue", "revoke", "reset", "commit"}

TokenRows ==
    [status : {"none", "live", "revoked"}, login : Logins \cup {None},
     password : Nat, late : BOOLEAN]

Requests ==
    [pc : Phases, login : Logins \cup {None}, password : Nat, late : BOOLEAN,
     item : Tokens \cup ResetLinks \cup {None}, saw : SUBSET Tokens]

SessionsTypeOK ==
    /\ password \in Nat
    /\ token \in [Tokens -> TokenRows]
    /\ session \in [SessionHandlers -> Requests]

(* A reset about to commit has seen every live token but those inserted    *)
(* since, which are known as late.                                         *)
Ending ==
    \A h \in SessionHandlers : session[h].pc = "commit" =>
        \A t \in Tokens : token[t].status = "live" /\ t \notin session[h].saw => token[t].late

SessionsInv == SessionsTypeOK /\ Ending /\ ResetEndsSessions

-----------------------------------------------------------------------------
LEMMA SessionsInitially == SessionsInit => SessionsInv
  BY DEF SessionsInit, SessionsInv, SessionsTypeOK, Ending, ResetEndsSessions, Live,
         NoToken, NoRequest, TokenRows, Requests, Phases

(* Handlers that are neither about to commit nor touch a token keep it.    *)
LEMMA HandlerAlone ==
    ASSUME SessionsInv, NEW h \in SessionHandlers, NEW r \in Requests,
           session' = [session EXCEPT ![h] = r], r.pc # "commit",
           UNCHANGED <<token, password>>
    PROVE  SessionsInv'
  BY DEF SessionsInv, SessionsTypeOK, Ending, ResetEndsSessions, Live, Requests

LEMMA SignInKeeps ==
    ASSUME SessionsInv, NEW h \in SessionHandlers, NEW g \in Logins, SignIn(h, g),
           UNCHANGED password
    PROVE  SessionsInv'
  <1> DEFINE r == [NoRequest EXCEPT !.pc = "issue", !.login = g, !.password = password']
  <1>1. r \in Requests /\ r.pc # "commit"
    BY DEF SessionsInv, SessionsTypeOK, NoRequest, Requests, Phases
  <1>2. session' = [session EXCEPT ![h] = r] /\ UNCHANGED <<token, password>>
    BY DEF SignIn
  <1> QED  BY <1>1, <1>2, HandlerAlone

LEMMA IssueKeeps ==
    ASSUME SessionsInv, NEW h \in SessionHandlers, NEW t \in Tokens, IssueRefreshToken(h, t)
    PROVE  SessionsInv'
  <1> DEFINE late == \/ session[h].late
                     \/ session[h].password # password
                     \/ \E k \in SessionHandlers : session[k].pc = "commit"
             row == [status |-> "live", login |-> session[h].login,
                     password |-> session[h].password, late |-> late]
  <1>1. token' = [token EXCEPT ![t] = row] /\ session' = [session EXCEPT ![h] = NoRequest]
        /\ password' = password
    BY DEF IssueRefreshToken, Account
  <1>2. session[h] \in Requests
    BY DEF SessionsInv, SessionsTypeOK
  <1>3. late \in BOOLEAN
    BY <1>2 DEF Requests
  <1>4. row \in TokenRows
    BY <1>2, <1>3 DEF Requests, TokenRows
  <1>5. NoRequest \in Requests /\ NoRequest.pc # "commit"
    BY DEF NoRequest, Requests, Phases
  <1>6. SessionsTypeOK'
    BY <1>1, <1>4, <1>5 DEF SessionsInv, SessionsTypeOK
  <1>7. Ending'
    <2> SUFFICES ASSUME NEW k \in SessionHandlers, session'[k].pc = "commit",
                        NEW u \in Tokens, token'[u].status = "live", u \notin session'[k].saw
                 PROVE  token'[u].late
      BY DEF Ending
    <2>1. session'[k] = session[k] /\ session[k].pc = "commit"
      BY <1>1, <1>5 DEF SessionsInv, SessionsTypeOK
    <2>2. CASE u = t
      BY <1>1, <2>1, <2>2 DEF SessionsInv, SessionsTypeOK
    <2>3. CASE u # t
      BY <1>1, <2>1, <2>3 DEF SessionsInv, SessionsTypeOK, Ending
    <2> QED  BY <2>2, <2>3
  <1>8. ResetEndsSessions'
    BY <1>1 DEF SessionsInv, SessionsTypeOK, ResetEndsSessions, Live
  <1> QED  BY <1>6, <1>7, <1>8 DEF SessionsInv

(* Revoking tokens can only help. *)
LEMMA RevokingKeeps ==
    ASSUME SessionsInv, NEW gone \in SUBSET Tokens, password' = password,
           token' = [t \in Tokens |->
                IF t \in gone THEN [token[t] EXCEPT !.status = "revoked"] ELSE token[t]],
           session' \in [SessionHandlers -> Requests],
           \A h \in SessionHandlers : session'[h].pc = "commit" =>
                session[h].pc = "commit" /\ session'[h].saw = session[h].saw
    PROVE  SessionsInv'
  <1>1. token' \in [Tokens -> TokenRows]
    BY DEF SessionsInv, SessionsTypeOK, TokenRows
  <1>2. \A t \in Tokens : token'[t].status = "live" => t \notin gone /\ token'[t] = token[t]
    BY DEF SessionsInv, SessionsTypeOK, TokenRows
  <1>3. Ending'
    BY <1>2 DEF SessionsInv, Ending
  <1>4. ResetEndsSessions'
    BY <1>2 DEF SessionsInv, ResetEndsSessions, Live
  <1> QED  BY <1>1, <1>3, <1>4 DEF SessionsInv, SessionsTypeOK

LEMMA RevokeReadKeeps ==
    ASSUME SessionsInv, NEW h \in SessionHandlers, RevokeRead(h)
    PROVE  SessionsInv'
  <1> DEFINE t == session[h].item
             r == [session[h] EXCEPT !.pc = "issue", !.item = None]
  <1>1. r \in Requests
    BY DEF SessionsInv, SessionsTypeOK, Requests, Phases
  <1>2. session' = [session EXCEPT ![h] = r] /\ password' = password
        /\ token' = [token EXCEPT ![t].status = "revoked"]
    BY DEF RevokeRead, Revoke, Account
  <1>3. token' = [u \in Tokens |->
            IF u \in {t} \cap Tokens THEN [token[u] EXCEPT !.status = "revoked"] ELSE token[u]]
    BY <1>2 DEF SessionsInv, SessionsTypeOK
  <1>4. session' \in [SessionHandlers -> Requests]
    BY <1>1, <1>2 DEF SessionsInv, SessionsTypeOK
  <1>5. ASSUME NEW k \in SessionHandlers, session'[k].pc = "commit"
        PROVE  session[k].pc = "commit" /\ session'[k].saw = session[k].saw
    BY <1>2, <1>5 DEF SessionsInv, SessionsTypeOK, Requests
  <1> QED  BY <1>2, <1>3, <1>4, <1>5, RevokingKeeps

LEMMA EndSessionKeeps ==
    ASSUME SessionsInv, NEW t \in Tokens, EndSession(t)
    PROVE  SessionsInv'
  <1>1. token' = [u \in Tokens |->
            IF u \in {t} THEN [token[u] EXCEPT !.status = "revoked"] ELSE token[u]]
    BY DEF EndSession, SessionsInv, SessionsTypeOK
  <1>2. session' = session /\ password' = password
    BY DEF EndSession, Account
  <1> QED  BY <1>1, <1>2, RevokingKeeps DEF SessionsInv, SessionsTypeOK

LEMMA RevokeEverySessionKeeps ==
    ASSUME SessionsInv, NEW h \in SessionHandlers, RevokeEverySession(h)
    PROVE  SessionsInv'
  <1> DEFINE r == [session[h] EXCEPT !.pc = "commit", !.saw = EverySession]
  <1>1. session' = [session EXCEPT ![h] = r] /\ UNCHANGED <<token, password>>
    BY DEF RevokeEverySession, Account
  <1>2. r \in Requests
    BY DEF SessionsInv, SessionsTypeOK, Requests, Phases, EverySession, Live
  <1>3. r.saw = Live
    BY DEF SessionsInv, SessionsTypeOK, Requests, EverySession
  <1>4. Ending'
    BY <1>1, <1>3 DEF SessionsInv, SessionsTypeOK, Ending, Live
  <1> QED  BY <1>1, <1>2, <1>4 DEF SessionsInv, SessionsTypeOK, ResetEndsSessions, Live

(* Whatever this leaves live was inserted under it. *)
LEMMA ResetPasswordKeeps ==
    ASSUME SessionsInv, NEW h \in SessionHandlers, ResetPassword(h)
    PROVE  SessionsInv'
  <1> DEFINE saw == session[h].saw
  <1>1. /\ session[h].pc = "commit"
        /\ password' = password + 1
        /\ token' = [t \in Tokens |->
                IF t \in saw THEN [token[t] EXCEPT !.status = "revoked"] ELSE token[t]]
        /\ session' = [session EXCEPT ![h] = NoRequest]
    BY DEF ResetPassword
  <1>2. SessionsTypeOK'
    BY <1>1 DEF SessionsInv, SessionsTypeOK, TokenRows, Requests, NoRequest, Phases
  <1>3. \A t \in Tokens : token'[t].status = "live" =>
            token'[t] = token[t] /\ t \notin saw
    BY <1>1 DEF SessionsInv, SessionsTypeOK, TokenRows
  <1>4. \A t \in Tokens : token'[t].status = "live" => token'[t].late
    BY <1>1, <1>3 DEF SessionsInv, Ending
  <1> QED  BY <1>2, <1>4 DEF SessionsInv, Ending, ResetEndsSessions, Live

-----------------------------------------------------------------------------
LEMMA HandlerStepsKeep ==
    ASSUME SessionsInv, NEW h \in SessionHandlers,
           \/ \E t \in Tokens : ReadToken(h, t)
           \/ \E l \in ResetLinks : ReadResetLink(h, l)
           \/ SessionHandlerDies(h)
    PROVE  SessionsInv'
  <1>1. CASE \E t \in Tokens : ReadToken(h, t)
    <2> PICK t \in Tokens : ReadToken(h, t)
      BY <1>1
    <2> DEFINE r == [NoRequest EXCEPT !.pc = "revoke", !.login = token[t].login,
                       !.late = token[t].late, !.password = token[t].password, !.item = t]
    <2>1. r \in Requests /\ r.pc # "commit"
      BY DEF SessionsInv, SessionsTypeOK, TokenRows, Requests, NoRequest, Phases
    <2>2. session' = [session EXCEPT ![h] = r] /\ UNCHANGED <<token, password>>
      BY DEF ReadToken, Account
    <2> QED  BY <2>1, <2>2, HandlerAlone
  <1>2. CASE \E l \in ResetLinks : ReadResetLink(h, l)
    <2> PICK l \in ResetLinks : ReadResetLink(h, l)
      BY <1>2
    <2> DEFINE r == [NoRequest EXCEPT !.pc = "reset", !.item = l]
    <2>1. r \in Requests /\ r.pc # "commit"
      BY DEF NoRequest, Requests, Phases
    <2>2. session' = [session EXCEPT ![h] = r] /\ UNCHANGED <<token, password>>
      BY DEF ReadResetLink, Account
    <2> QED  BY <2>1, <2>2, HandlerAlone
  <1>3. CASE SessionHandlerDies(h)
    <2>1. NoRequest \in Requests /\ NoRequest.pc # "commit"
      BY DEF NoRequest, Requests, Phases
    <2>2. session' = [session EXCEPT ![h] = NoRequest] /\ UNCHANGED <<token, password>>
      BY <1>3 DEF SessionHandlerDies, Account
    <2> QED  BY <2>1, <2>2, HandlerAlone
  <1> QED  BY <1>1, <1>2, <1>3

LEMMA SessionsStep == SessionsInv /\ [SessionsNext]_sessionsVars => SessionsInv'
  <1> SUFFICES ASSUME SessionsInv, [SessionsNext]_sessionsVars PROVE SessionsInv'
    OBVIOUS
  <1>1. CASE \E h \in SessionHandlers, g \in Logins :
                SignUp(h, g) \/ Login(h, g) \/ LoginWithGoogle(h, g)
    BY <1>1, SignInKeeps DEF SignUp, Login, LoginWithGoogle, Account
  <1>2. CASE \E h \in SessionHandlers, t \in Tokens : IssueRefreshToken(h, t)
    BY <1>2, IssueKeeps
  <1>3. CASE \E h \in SessionHandlers :
                \/ \E t \in Tokens : ReadToken(h, t)
                \/ \E l \in ResetLinks : ReadResetLink(h, l)
                \/ SessionHandlerDies(h)
    BY <1>3, HandlerStepsKeep
  <1>4. CASE \E h \in SessionHandlers : RevokeRead(h)
    BY <1>4, RevokeReadKeeps
  <1>5. CASE \E h \in SessionHandlers : RevokeEverySession(h)
    BY <1>5, RevokeEverySessionKeeps
  <1>6. CASE \E h \in SessionHandlers : ResetPassword(h)
    BY <1>6, ResetPasswordKeeps
  <1>7. CASE \E t \in Tokens : EndSession(t)
    BY <1>7, EndSessionKeeps
  <1>8. CASE \/ \E l \in ResetLinks : RequestPasswordReset(l) \/ ResetLinkExpires(l)
             \/ MembershipChanges \/ UpdateTenantStatus
             \/ UNCHANGED sessionsVars
    <2>1. UNCHANGED <<token, session, password>>
      BY <1>8 DEF RequestPasswordReset, ResetLinkExpires, MembershipChanges,
                  UpdateTenantStatus, Account, sessionsVars
    <2> QED  BY <2>1 DEF SessionsInv, SessionsTypeOK, Ending, ResetEndsSessions, Live
  <1> QED
    BY <1>1, <1>2, <1>3, <1>4, <1>5, <1>6, <1>7, <1>8 DEF SessionsNext

(* What holds of AuthService in every state: types, what a reset about to  *)
(* commit knows, and that live tokens are of the present password.         *)
THEOREM SessionsInvariant == SessionsSpec => []SessionsInv
  <1> QED  BY SessionsInitially, SessionsStep, PTL DEF SessionsSpec

(* resetPassword ends every session (the comment at its updateMany),       *)
(* whatever sign-ins and refreshes run beside it, except what was being    *)
(* inserted meanwhile.                                                     *)
THEOREM ResetEndsEverySession == SessionsSpec => []ResetEndsSessions
  <1> QED  BY SessionsInvariant, PTL DEF SessionsInv

-----------------------------------------------------------------------------
(* One token per session.  What is inductive is which token, or which      *)
(* handler, holds it (OneHolder); it rests on a login being known as begun *)
(* wherever it is found (Known), and on a handler that refreshes knowing   *)
(* the login of the token it read (Refreshing).                            *)

TokensOf(g) == {t \in Tokens : token[t].status = "live" /\ token[t].login = g}

Holds(g, tokens, handlers) == TokensOf(g) = tokens /\ Issuing(g) = handlers

OneHolder ==
    \A g \in Logins \ forked :
        /\ g \in open => \/ \E t \in Tokens : Holds(g, {t}, {})
                         \/ \E h \in SessionHandlers : Holds(g, {}, {h})
        /\ g \notin open => Holds(g, {}, {})

Known ==
    /\ begun \subseteq Logins /\ open \subseteq begun /\ forked \subseteq begun \cup {None}
    /\ \A t \in Tokens : token[t].login \in begun \cup {None}
    /\ \A h \in SessionHandlers : session[h].login \in begun \cup {None}

Refreshing ==
    \A h \in SessionHandlers : session[h].pc = "revoke" =>
        /\ session[h].item \in Tokens
        /\ token[session[h].item].status # "none"
        /\ token[session[h].item].login = session[h].login

HoldersInv == SessionsTypeOK /\ Known /\ Refreshing /\ OneHolder

(* Nothing that counts has changed but the logins in G.                    *)
LEMMA OthersKeep ==
    ASSUME HoldersInv, NEW g \in Logins, g \notin forked', forked \subseteq forked',
           g \in open' <=> g \in open, TokensOf(g)' = TokensOf(g), Issuing(g)' = Issuing(g)
    PROVE  /\ g \in open' => \/ \E t \in Tokens : Holds(g, {t}, {})'
                             \/ \E h \in SessionHandlers : Holds(g, {}, {h})'
           /\ g \notin open' => Holds(g, {}, {})'
  <1>1. g \in Logins \ forked
    OBVIOUS
  <1>2. /\ g \in open => \/ \E t \in Tokens : Holds(g, {t}, {})
                         \/ \E h \in SessionHandlers : Holds(g, {}, {h})
        /\ g \notin open => Holds(g, {}, {})
    BY <1>1 DEF HoldersInv, OneHolder
  <1>3. \A T, H : Holds(g, T, H) => Holds(g, T, H)'
    BY DEF Holds
  <1> QED  BY <1>2, <1>3

LEMMA SignInHolds ==
    ASSUME HoldersInv, SessionsTypeOK', SessionsAssumption,
           NEW h \in SessionHandlers, NEW g \in Logins, SignIn(h, g)
    PROVE  HoldersInv'
  <1>1. PICK r \in Requests : /\ session' = [session EXCEPT ![h] = r]
                              /\ r.pc = "issue" /\ r.login = g
    <2> DEFINE r == [NoRequest EXCEPT !.pc = "issue", !.login = g, !.password = password']
    <2>1. r \in Requests /\ r.pc = "issue" /\ r.login = g
      BY DEF SessionsTypeOK, NoRequest, Requests, Phases
    <2>2. session' = [session EXCEPT ![h] = r]
      BY DEF SignIn
    <2> QED  BY <2>1, <2>2
  <1>2. /\ session[h].pc = "rest" /\ g \notin begun /\ begun' = begun \cup {g}
        /\ open' = open \cup {g} /\ UNCHANGED <<token, forked>>
    BY DEF SignIn
  <1>3. /\ session'[h] = r
        /\ \A k \in SessionHandlers : k # h => session'[k] = session[k]
    BY <1>1 DEF HoldersInv, SessionsTypeOK
  <1>4. Known'
    BY <1>1, <1>2, <1>3 DEF HoldersInv, Known
  <1>5. Refreshing'
    BY <1>1, <1>2, <1>3 DEF HoldersInv, Refreshing
  <1>6. OneHolder'
    <2> SUFFICES ASSUME NEW f \in Logins, f \notin forked'
                 PROVE  /\ f \in open' => \/ \E t \in Tokens : Holds(f, {t}, {})'
                                          \/ \E k \in SessionHandlers : Holds(f, {}, {k})'
                        /\ f \notin open' => Holds(f, {}, {})'
      BY DEF OneHolder
    <2>1. TokensOf(f)' = TokensOf(f)
      BY <1>2 DEF TokensOf
    <2>2. CASE f = g
      <3>1. f \notin open /\ f \in Logins \ forked
        BY <1>2, <2>2 DEF HoldersInv, Known
      <3>2. TokensOf(f) = {} /\ Issuing(f) = {}
        BY <3>1 DEF HoldersInv, OneHolder, Holds
      <3>3. Issuing(f)' = {h}
        BY <1>1, <1>3, <2>2, <3>2 DEF Issuing
      <3> QED  BY <1>2, <2>1, <2>2, <3>2, <3>3 DEF Holds
    <2>3. CASE f # g
      <3>1. Issuing(f)' = Issuing(f)
        BY <1>1, <1>2, <1>3, <2>3 DEF Issuing
      <3> QED  BY <1>2, <2>1, <2>3, <3>1, OthersKeep
    <2> QED  BY <2>2, <2>3
  <1> QED  BY <1>4, <1>5, <1>6 DEF HoldersInv

LEMMA IssueHolds ==
    ASSUME HoldersInv, SessionsTypeOK', NEW h \in SessionHandlers, NEW t \in Tokens,
           IssueRefreshToken(h, t)
    PROVE  HoldersInv'
  <1>1. PICK row : /\ token' = [token EXCEPT ![t] = row]
                   /\ row.status = "live" /\ row.login = session[h].login
    <2> DEFINE late == \/ session[h].late
                       \/ session[h].password # password
                       \/ \E k \in SessionHandlers : session[k].pc = "commit"
               row == [status |-> "live", login |-> session[h].login,
                       password |-> session[h].password, late |-> late]
    <2>1. token' = [token EXCEPT ![t] = row]
      BY DEF IssueRefreshToken
    <2>2. row.status = "live" /\ row.login = session[h].login
      OBVIOUS
    <2> QED  BY <2>1, <2>2
  <1>2. /\ session[h].pc = "issue" /\ token[t].status = "none"
        /\ session' = [session EXCEPT ![h] = NoRequest]
        /\ UNCHANGED <<begun, open, forked>>
    BY DEF IssueRefreshToken
  <1>3. /\ token'[t] = row /\ \A u \in Tokens : u # t => token'[u] = token[u]
        /\ session'[h] = NoRequest
        /\ \A k \in SessionHandlers : k # h => session'[k] = session[k]
    BY <1>1, <1>2 DEF HoldersInv, SessionsTypeOK
  <1>4. NoRequest.pc = "rest" /\ NoRequest.login = None
    BY DEF NoRequest
  <1>5. Known'
    BY <1>1, <1>2, <1>3, <1>4 DEF HoldersInv, Known
  <1>6. Refreshing'
    BY <1>1, <1>2, <1>3, <1>4 DEF HoldersInv, Refreshing
  <1>7. OneHolder'
    <2> SUFFICES ASSUME NEW g \in Logins, g \notin forked'
                 PROVE  /\ g \in open' => \/ \E u \in Tokens : Holds(g, {u}, {})'
                                          \/ \E k \in SessionHandlers : Holds(g, {}, {k})'
                        /\ g \notin open' => Holds(g, {}, {})'
      BY DEF OneHolder
    <2>1. CASE g = session[h].login
      <3>1. h \in Issuing(g) /\ g \in Logins \ forked
        BY <1>2, <2>1 DEF Issuing
      <3>2. g \in open /\ TokensOf(g) = {} /\ Issuing(g) = {h}
        BY <3>1 DEF HoldersInv, OneHolder, Holds
      <3>3. TokensOf(g)' = {t}
        BY <1>1, <1>3, <2>1, <3>2 DEF TokensOf
      <3>4. Issuing(g)' = {}
        BY <1>3, <1>4, <3>2 DEF Issuing
      <3> QED  BY <1>2, <3>2, <3>3, <3>4 DEF Holds
    <2>2. CASE g # session[h].login
      <3>1. TokensOf(g)' = TokensOf(g)
        BY <1>1, <1>2, <1>3, <2>2 DEF TokensOf
      <3>2. Issuing(g)' = Issuing(g)
        BY <1>2, <1>3, <1>4, <2>2 DEF Issuing
      <3> QED  BY <1>2, <3>1, <3>2, OthersKeep
    <2> QED  BY <2>1, <2>2
  <1> QED  BY <1>5, <1>6, <1>7 DEF HoldersInv

(* A handler that neither had nor gets a token to insert. *)
LEMMA ReaderHolds ==
    ASSUME HoldersInv, SessionsTypeOK', NEW h \in SessionHandlers, NEW r \in Requests,
           session' = [session EXCEPT ![h] = r], UNCHANGED <<token, begun, open, forked>>,
           session[h].pc # "issue", r.pc # "issue", r.login \in begun \cup {None},
           r.pc = "revoke" => /\ r.item \in Tokens /\ token[r.item].status # "none"
                              /\ token[r.item].login = r.login
    PROVE  HoldersInv'
  <1>1. session'[h] = r /\ \A k \in SessionHandlers : k # h => session'[k] = session[k]
    BY DEF HoldersInv, SessionsTypeOK
  <1>2. Known'
    BY <1>1 DEF HoldersInv, Known
  <1>3. Refreshing'
    BY <1>1 DEF HoldersInv, Refreshing
  <1>4. OneHolder'
    <2> SUFFICES ASSUME NEW g \in Logins, g \notin forked'
                 PROVE  /\ g \in open' => \/ \E u \in Tokens : Holds(g, {u}, {})'
                                          \/ \E k \in SessionHandlers : Holds(g, {}, {k})'
                        /\ g \notin open' => Holds(g, {}, {})'
      BY DEF OneHolder
    <2>1. TokensOf(g)' = TokensOf(g) /\ Issuing(g)' = Issuing(g)
      BY <1>1 DEF TokensOf, Issuing
    <2> QED  BY <2>1, OthersKeep
  <1> QED  BY <1>2, <1>3, <1>4 DEF HoldersInv

(* The token read is revoked and its handler holds the session, unless it  *)
(* had been revoked already.                                               *)
LEMMA RevokeReadHolds ==
    ASSUME HoldersInv, SessionsTypeOK', NEW h \in SessionHandlers, RevokeRead(h)
    PROVE  HoldersInv'
  <1>1. PICK t \in Tokens : /\ t = session[h].item /\ token[t].status # "none"
                            /\ token[t].login = session[h].login /\ session[h].pc = "revoke"
    BY DEF HoldersInv, Refreshing, RevokeRead
  <1>2. PICK r : /\ session' = [session EXCEPT ![h] = r]
                 /\ r.pc = "issue" /\ r.login = token[t].login
    <2> DEFINE r == [session[h] EXCEPT !.pc = "issue", !.item = None]
    <2>1. r.pc = "issue" /\ r.login = session[h].login
      BY DEF HoldersInv, SessionsTypeOK, Requests
    <2>2. session' = [session EXCEPT ![h] = r]
      BY DEF RevokeRead
    <2> QED  BY <1>1, <2>1, <2>2
  <1>3. PICK row : /\ token' = [token EXCEPT ![t] = row]
                   /\ row.status = "revoked" /\ row.login = token[t].login
    <2> DEFINE row == [token[t] EXCEPT !.status = "revoked"]
    <2>1. row.status = "revoked" /\ row.login = token[t].login
      BY DEF HoldersInv, SessionsTypeOK, TokenRows
    <2>2. token' = [token EXCEPT ![t] = row]
      BY <1>1 DEF RevokeRead, Revoke
    <2> QED  BY <2>1, <2>2
  <1>4. /\ forked' = IF t \in Live THEN forked ELSE forked \cup {token[t].login}
        /\ UNCHANGED <<begun, open>>
    BY <1>1 DEF RevokeRead
  <1>5. /\ token'[t] = row /\ \A u \in Tokens : u # t => token'[u] = token[u]
        /\ session'[h] = r /\ \A k \in SessionHandlers : k # h => session'[k] = session[k]
    BY <1>2, <1>3 DEF HoldersInv, SessionsTypeOK
  <1>6. Known'
    BY <1>2, <1>3, <1>4, <1>5 DEF HoldersInv, Known
  <1>7. Refreshing'
    BY <1>2, <1>3, <1>5 DEF HoldersInv, Refreshing
  <1>8. OneHolder'
    <2> SUFFICES ASSUME NEW g \in Logins, g \notin forked'
                 PROVE  /\ g \in open' => \/ \E u \in Tokens : Holds(g, {u}, {})'
                                          \/ \E k \in SessionHandlers : Holds(g, {}, {k})'
                        /\ g \notin open' => Holds(g, {}, {})'
      BY DEF OneHolder
    <2>1. CASE g = token[t].login
      <3>1. token[t].status = "live" /\ g \in Logins \ forked
        BY <1>4, <2>1 DEF Live
      <3>2. t \in TokensOf(g)
        BY <2>1, <3>1 DEF TokensOf
      <3>3. g \in open /\ TokensOf(g) = {t} /\ Issuing(g) = {}
        BY <3>1, <3>2 DEF HoldersInv, OneHolder, Holds
      <3>4. TokensOf(g)' = {}
        BY <1>3, <1>5, <3>3 DEF TokensOf
      <3>5. Issuing(g)' = {h}
        BY <1>2, <1>5, <2>1, <3>3 DEF Issuing
      <3> QED  BY <1>4, <3>3, <3>4, <3>5 DEF Holds
    <2>2. CASE g # token[t].login
      <3>1. TokensOf(g)' = TokensOf(g)
        BY <1>3, <1>5, <2>2 DEF TokensOf
      <3>2. Issuing(g)' = Issuing(g)
        BY <1>1, <1>2, <1>5, <2>2 DEF Issuing
      <3>3. forked \subseteq forked'
        BY <1>4
      <3> QED  BY <1>4, <3>1, <3>2, <3>3, OthersKeep
    <2> QED  BY <2>1, <2>2
  <1> QED  BY <1>6, <1>7, <1>8 DEF HoldersInv

LEMMA EndSessionHolds ==
    ASSUME HoldersInv, SessionsTypeOK', NEW t \in Tokens, EndSession(t)
    PROVE  HoldersInv'
  <1>1. PICK row : /\ token' = [token EXCEPT ![t] = row]
                   /\ row.status = "revoked" /\ row.login = token[t].login
    <2> DEFINE row == [token[t] EXCEPT !.status = "revoked"]
    <2>1. row.status = "revoked" /\ row.login = token[t].login
      BY DEF HoldersInv, SessionsTypeOK, TokenRows
    <2>2. token' = [token EXCEPT ![t] = row]
      BY DEF EndSession
    <2> QED  BY <2>1, <2>2
  <1>2. /\ token[t].status = "live" /\ open' = open \ {token[t].login}
        /\ UNCHANGED <<session, begun, forked>>
    BY DEF EndSession, Live
  <1>3. token'[t] = row /\ \A u \in Tokens : u # t => token'[u] = token[u]
    BY <1>1 DEF HoldersInv, SessionsTypeOK
  <1>4. Known' /\ Refreshing'
    BY <1>1, <1>2, <1>3 DEF HoldersInv, Known, Refreshing
  <1>5. OneHolder'
    <2> SUFFICES ASSUME NEW g \in Logins, g \notin forked'
                 PROVE  /\ g \in open' => \/ \E u \in Tokens : Holds(g, {u}, {})'
                                          \/ \E k \in SessionHandlers : Holds(g, {}, {k})'
                        /\ g \notin open' => Holds(g, {}, {})'
      BY DEF OneHolder
    <2>1. Issuing(g)' = Issuing(g)
      BY <1>2 DEF Issuing
    <2>2. CASE g = token[t].login
      <3>1. t \in TokensOf(g) /\ g \in Logins \ forked
        BY <1>2, <2>2 DEF TokensOf
      <3>2. TokensOf(g) = {t} /\ Issuing(g) = {}
        BY <3>1 DEF HoldersInv, OneHolder, Holds
      <3>3. TokensOf(g)' = {}
        BY <1>1, <1>3, <3>2 DEF TokensOf
      <3> QED  BY <1>2, <2>1, <2>2, <3>2, <3>3 DEF Holds
    <2>3. CASE g # token[t].login
      <3>1. TokensOf(g)' = TokensOf(g)
        BY <1>1, <1>3, <2>3 DEF TokensOf
      <3> QED  BY <1>2, <2>1, <2>3, <3>1, OthersKeep
    <2> QED  BY <2>2, <2>3
  <1> QED  BY <1>4, <1>5 DEF HoldersInv

LEMMA ResetHolds ==
    ASSUME HoldersInv, SessionsTypeOK', NEW h \in SessionHandlers, ResetPassword(h)
    PROVE  HoldersInv'
  <1> DEFINE saw == session[h].saw
             Going(g) == Issuing(g) # {} \/ \E t \in Live \ saw : token[t].login = g
  <1>1. /\ session[h].pc = "commit" /\ open' = {} /\ begun' = begun
        /\ token' = [t \in Tokens |->
                IF t \in saw THEN [token[t] EXCEPT !.status = "revoked"] ELSE token[t]]
        /\ session' = [session EXCEPT ![h] = NoRequest]
    BY DEF ResetPassword
  <1>2. forked' = forked \cup {g \in begun : Going(g)}
    BY DEF ResetPassword
  <1>3. /\ \A t \in Tokens : token'[t].login = token[t].login
        /\ \A t \in Tokens : token'[t].status = "none" => token[t].status = "none"
        /\ \A t \in Tokens : token'[t].status = "live" => token[t].status = "live" /\ t \notin saw
    BY <1>1 DEF HoldersInv, SessionsTypeOK, TokenRows
  <1>4. NoRequest.pc = "rest" /\ NoRequest.login = None
    BY DEF NoRequest
  <1>5. /\ session'[h] = NoRequest
        /\ \A k \in SessionHandlers : k # h => session'[k] = session[k]
    BY <1>1 DEF HoldersInv, SessionsTypeOK
  <1>6. Known'
    BY <1>1, <1>2, <1>3, <1>4, <1>5 DEF HoldersInv, Known
  <1>7. Refreshing'
    BY <1>3, <1>4, <1>5 DEF HoldersInv, Refreshing
  <1>8. OneHolder'
    <2> SUFFICES ASSUME NEW g \in Logins, g \notin forked'
                 PROVE  Holds(g, {}, {})'
      BY <1>1 DEF OneHolder
    <2>1. CASE g \in begun
      <3>1. ~Going(g)
        BY <1>2, <2>1
      <3>2. Issuing(g) = {} /\ \A t \in Tokens :
              token[t].status = "live" /\ t \notin saw => token[t].login # g
        BY <3>1 DEF Live
      <3>3. TokensOf(g)' = {}
        BY <1>3, <3>2 DEF TokensOf
      <3>4. Issuing(g)' = {}
        BY <1>4, <1>5, <3>2 DEF Issuing
      <3> QED  BY <3>3, <3>4 DEF Holds
    <2>2. CASE g \notin begun
      <3>1. g \notin open /\ g \in Logins \ forked
        BY <1>2, <2>2 DEF HoldersInv, Known
      <3>2. TokensOf(g) = {} /\ Issuing(g) = {}
        BY <3>1 DEF HoldersInv, OneHolder, Holds
      <3>3. TokensOf(g)' = {} /\ Issuing(g)' = {}
        BY <1>3, <1>4, <1>5, <3>2 DEF TokensOf, Issuing
      <3> QED  BY <3>3 DEF Holds
    <2> QED  BY <2>1, <2>2
  <1> QED  BY <1>6, <1>7, <1>8 DEF HoldersInv

(* Who dies before the insert ends the session: its token was revoked.     *)
LEMMA DeathHolds ==
    ASSUME HoldersInv, SessionsTypeOK', NEW h \in SessionHandlers, SessionHandlerDies(h)
    PROVE  HoldersInv'
  <1>1. /\ session' = [session EXCEPT ![h] = NoRequest]
        /\ open' = IF session[h].pc = "issue" THEN open \ {session[h].login} ELSE open
        /\ UNCHANGED <<token, begun, forked>>
    BY DEF SessionHandlerDies
  <1>2. NoRequest.pc = "rest" /\ NoRequest.login = None /\ NoRequest \in Requests
    BY DEF NoRequest, Requests, Phases
  <1>3. CASE session[h].pc # "issue"
    BY <1>1, <1>2, <1>3, ReaderHolds
  <1>4. CASE session[h].pc = "issue"
    <2>1. /\ session'[h] = NoRequest
          /\ \A k \in SessionHandlers : k # h => session'[k] = session[k]
      BY <1>1 DEF HoldersInv, SessionsTypeOK
    <2>2. Known' /\ Refreshing'
      BY <1>1, <1>2, <2>1 DEF HoldersInv, Known, Refreshing
    <2>3. OneHolder'
      <3> SUFFICES ASSUME NEW g \in Logins, g \notin forked'
                   PROVE  /\ g \in open' => \/ \E u \in Tokens : Holds(g, {u}, {})'
                                            \/ \E k \in SessionHandlers : Holds(g, {}, {k})'
                          /\ g \notin open' => Holds(g, {}, {})'
        BY DEF OneHolder
      <3>1. TokensOf(g)' = TokensOf(g)
        BY <1>1 DEF TokensOf
      <3>2. CASE g = session[h].login
        <4>1. h \in Issuing(g) /\ g \in Logins \ forked
          BY <1>1, <1>4, <3>2 DEF Issuing
        <4>2. TokensOf(g) = {} /\ Issuing(g) = {h}
          BY <4>1 DEF HoldersInv, OneHolder, Holds
        <4>3. Issuing(g)' = {}
          BY <1>2, <2>1, <4>2 DEF Issuing
        <4> QED  BY <1>1, <1>4, <3>1, <3>2, <4>2, <4>3 DEF Holds
      <3>3. CASE g # session[h].login
        <4>1. Issuing(g)' = Issuing(g)
          BY <1>2, <2>1, <3>3 DEF Issuing
        <4> QED  BY <1>1, <1>4, <3>1, <3>3, <4>1, OthersKeep
      <3> QED  BY <3>2, <3>3
    <2> QED  BY <2>2, <2>3 DEF HoldersInv
  <1> QED  BY <1>3, <1>4

LEMMA HoldersStep ==
    ASSUME SessionsInv, HoldersInv, SessionsAssumption, [SessionsNext]_sessionsVars
    PROVE  HoldersInv'
  <1>0. SessionsTypeOK'
    BY SessionsStep DEF SessionsInv
  <1>1. CASE \E h \in SessionHandlers, g \in Logins :
                SignUp(h, g) \/ Login(h, g) \/ LoginWithGoogle(h, g)
    BY <1>0, <1>1, SignInHolds DEF SignUp, Login, LoginWithGoogle
  <1>2. CASE \E h \in SessionHandlers, t \in Tokens : IssueRefreshToken(h, t)
    BY <1>0, <1>2, IssueHolds
  <1>3. CASE \E h \in SessionHandlers, t \in Tokens : ReadToken(h, t)
    <2> PICK h \in SessionHandlers, t \in Tokens : ReadToken(h, t)
      BY <1>3
    <2> DEFINE r == [NoRequest EXCEPT !.pc = "revoke", !.login = token[t].login,
                       !.late = token[t].late, !.password = token[t].password, !.item = t]
    <2>1. r \in Requests /\ r.pc = "revoke" /\ r.login = token[t].login /\ r.item = t
      BY DEF SessionsInv, SessionsTypeOK, TokenRows, Requests, NoRequest, Phases
    <2>2. /\ session' = [session EXCEPT ![h] = r] /\ session[h].pc = "rest"
          /\ token[t].status = "live" /\ UNCHANGED <<token, begun, open, forked>>
      BY DEF ReadToken, Live
    <2>3. token[t].login \in begun \cup {None}
      BY DEF HoldersInv, Known
    <2> HIDE DEF r
    <2> QED  BY <1>0, <2>1, <2>2, <2>3, ReaderHolds
  <1>4. CASE \E h \in SessionHandlers, l \in ResetLinks : ReadResetLink(h, l)
    <2> PICK h \in SessionHandlers, l \in ResetLinks : ReadResetLink(h, l)
      BY <1>4
    <2> DEFINE r == [NoRequest EXCEPT !.pc = "reset", !.item = l]
    <2>1. r \in Requests /\ r.pc = "reset" /\ r.login = None
      BY DEF NoRequest, Requests, Phases
    <2>2. /\ session' = [session EXCEPT ![h] = r] /\ session[h].pc = "rest"
          /\ UNCHANGED <<token, begun, open, forked>>
      BY DEF ReadResetLink
    <2> HIDE DEF r
    <2> QED  BY <1>0, <2>1, <2>2, ReaderHolds
  <1>5. CASE \E h \in SessionHandlers : RevokeRead(h)
    BY <1>0, <1>5, RevokeReadHolds
  <1>6. CASE \E h \in SessionHandlers : RevokeEverySession(h)
    <2> PICK h \in SessionHandlers : RevokeEverySession(h)
      BY <1>6
    <2> DEFINE r == [session[h] EXCEPT !.pc = "commit", !.saw = EverySession]
    <2>1. r \in Requests /\ r.pc = "commit" /\ r.login = session[h].login
      BY DEF SessionsInv, SessionsTypeOK, Requests, Phases, EverySession, Live
    <2>2. /\ session' = [session EXCEPT ![h] = r] /\ session[h].pc = "reset"
          /\ UNCHANGED <<token, begun, open, forked>>
      BY DEF RevokeEverySession
    <2>3. session[h].login \in begun \cup {None}
      BY DEF HoldersInv, Known
    <2> HIDE DEF r
    <2> QED  BY <1>0, <2>1, <2>2, <2>3, ReaderHolds
  <1>7. CASE \E h \in SessionHandlers : ResetPassword(h)
    BY <1>0, <1>7, ResetHolds
  <1>8. CASE \E h \in SessionHandlers : SessionHandlerDies(h)
    BY <1>0, <1>8, DeathHolds
  <1>9. CASE \E t \in Tokens : EndSession(t)
    BY <1>0, <1>9, EndSessionHolds
  <1>10. CASE \/ \E l \in ResetLinks : RequestPasswordReset(l) \/ ResetLinkExpires(l)
              \/ MembershipChanges \/ UpdateTenantStatus
              \/ UNCHANGED sessionsVars
    <2>1. UNCHANGED <<token, session, begun, open, forked>>
      BY <1>10 DEF RequestPasswordReset, ResetLinkExpires, MembershipChanges,
                   UpdateTenantStatus, sessionsVars
    <2> QED  BY <1>0, <2>1 DEF HoldersInv, Known, Refreshing, OneHolder, Holds, TokensOf, Issuing
  <1> QED
    BY <1>1, <1>2, <1>3, <1>4, <1>5, <1>6, <1>7, <1>8, <1>9, <1>10 DEF SessionsNext

LEMMA HoldersInitially == SessionsInit => HoldersInv
  <1> SUFFICES ASSUME SessionsInit PROVE HoldersInv
    OBVIOUS
  <1>1. NoToken.status = "none" /\ NoToken.login = None
        /\ NoRequest.pc = "rest" /\ NoRequest.login = None
    BY DEF NoToken, NoRequest
  <1>2. SessionsTypeOK
    BY SessionsInitially DEF SessionsInv
  <1>3. Known /\ Refreshing /\ OneHolder
    BY <1>1 DEF SessionsInit, Known, Refreshing, OneHolder, Holds, TokensOf, Issuing
  <1> QED  BY <1>2, <1>3 DEF HoldersInv

(* Whatever sign-ins, refreshes, logouts and resets run beside each other, *)
(* a session that goes on has one token, live or about to be inserted, and *)
(* one that has ended has none, unless a token was refreshed twice at once *)
(* or refreshed while it was being ended.                                  *)
THEOREM OneTokenPerSession == SessionsSpec => []SessionHasOneToken
  <1>1. HoldersInv => SessionHasOneToken
    <2> SUFFICES ASSUME HoldersInv, NEW g \in Logins \ forked
                 PROVE  Cardinality(TokensOf(g)) + Cardinality(Issuing(g))
                            = IF g \in open THEN 1 ELSE 0
      <3>1. \A g : TokensOf(g) = {t \in Live : token[t].login = g}
        BY DEF TokensOf, Live
      <3> QED  BY <3>1 DEF SessionHasOneToken
    <2>1. Cardinality({}) = 0 /\ \A x : Cardinality({x}) = 1
      BY FS_EmptySet, FS_Singleton
    <2>2. CASE g \in open
      <3>1. \/ \E t \in Tokens : TokensOf(g) = {t} /\ Issuing(g) = {}
            \/ \E h \in SessionHandlers : TokensOf(g) = {} /\ Issuing(g) = {h}
        BY <2>2 DEF HoldersInv, OneHolder, Holds
      <3>2. \/ Cardinality(TokensOf(g)) = 1 /\ Cardinality(Issuing(g)) = 0
            \/ Cardinality(TokensOf(g)) = 0 /\ Cardinality(Issuing(g)) = 1
        BY <2>1, <3>1, Zenon
      <3> QED  BY <2>2, <3>2
    <2>3. CASE g \notin open
      <3>1. TokensOf(g) = {} /\ Issuing(g) = {}
        BY <2>3 DEF HoldersInv, OneHolder, Holds
      <3> QED  BY <2>1, <2>3, <3>1
    <2> QED  BY <2>2, <2>3
  <1>2. SessionsInv /\ HoldersInv /\ [SessionsNext]_sessionsVars => HoldersInv'
    BY HoldersStep, SessionsAssumption
  <1> QED  BY <1>1, <1>2, HoldersInitially, SessionsInvariant, PTL DEF SessionsSpec
=============================================================================
