------------------------------- MODULE Authority -------------------------------
(***************************************************************************)
(* Who may call what: the controllers' routes and their guards, the        *)
(* permission map that clients draw their screens from, and the tokens and *)
(* keys both go by.  For one account, which may work for several companies *)
(* in different roles, and the keys of a company.                          *)
(*                                                                         *)
(* A controller is its routes by what stands before them: nothing but a    *)
(* signed-in caller (signedIn), RolesGuard with Super Admin alone (admin)  *)
(* or with supervisors (manager), PugeyStaffGuard (staff), ApiKeyGuard     *)
(* (keyed), or nothing (anyone).                                           *)
(***************************************************************************)
EXTENDS Rows

CONSTANT ApiKeys    \* rows of api_keys

ASSUME AuthorityAssumption == None \notin ApiKeys

VARIABLES
    memberOf,       \* roles of the account's active memberships
    platformStaff,  \* the account belongs to the platform's staff
    approver,       \* has reports, or is named in a delegation
    access,         \* the role in the tokens of the session, "none" without one
    expired,        \* the access token is
    offered,        \* the last answer to GET me/permissions; current is history:
                    \* it was asked for in this session
    apiKey,         \* api_keys
    keyed           \* keys that requests were found to carry and are served by

authorityVars == <<memberOf, platformStaff, approver, access, expired, offered, apiKey, keyed>>

TenantRoles == {"SUPER_ADMIN", "ADMIN", "SUPERVISOR", "EMPLOYEE"}

Roles == TenantRoles \cup {"PUGEY_STAFF"}

-----------------------------------------------------------------------------
(* The controllers. *)

AdvanceCategoriesController ==
    [signedIn |-> {"GET advance-categories"},
     admin |-> {"GET advance-categories/:id/usage", "POST advance-categories",
                "PATCH advance-categories/:id", "DELETE advance-categories/:id"}]

AdvanceRequestsController ==
    [signedIn |-> {"GET advance-requests/mine", "POST advance-requests",
                   "PATCH advance-requests/:id/cancel"},
     admin |-> {"GET advance-requests/pending", "PATCH advance-requests/:id/decide"}]

AdvancesController ==
    [signedIn |-> {"GET advances/member/:membershipId", "GET advances/net-pay/:membershipId"},
     admin |-> {"POST advances", "PATCH advances/:id", "DELETE advances/:id",
                "POST advances/recovery/:membershipId"}]

ApiKeysController ==
    [admin |-> {"GET api-keys", "POST api-keys", "PATCH api-keys/:id/revoke"}]

AttendanceController ==
    [signedIn |-> {"POST attendance/check-in", "POST attendance/check-out",
                   "POST attendance/clock-by-location", "GET attendance/today",
                   "GET attendance/me", "GET attendance/:membershipId"},
     admin |-> {"POST attendance/:membershipId/correct"}]

AuthController ==
    [anyone |-> {"POST auth/login", "POST auth/signup", "POST auth/google", "POST auth/refresh",
                 "POST auth/logout", "POST auth/forgot-password", "POST auth/reset-password"},
     signedIn |-> {"GET auth/download-token", "GET auth/me/permissions"}]

BillsController ==
    [signedIn |-> {"POST bills", "GET bills/pending", "GET bills/mine", "GET bills/recent",
                   "PATCH bills/:id/enter"},
     admin |-> {"PATCH bills/:id/pay"},
     manager |-> {"PATCH bills/:id/rating"}]

BusinessTypesController ==
    [staff |-> {"GET business-types", "POST business-types", "PATCH business-types/:key",
                "DELETE business-types/:key"}]

CountersController ==
    [signedIn |-> {"GET counters", "POST counters/verify-export",
                   "GET counters/verify-export/:id/:format", "POST counters/verifications",
                   "GET counters/verifications", "GET counters/verifications/:id",
                   "GET counters/verifications/:id/:format", "GET counters/staff",
                   "GET counters/overview", "GET counters/my-active-session",
                   "GET counters/sessions/by-employee/:membershipId",
                   "GET counters/sessions/recent", "POST counters/sessions",
                   "POST counters/sessions/:id/movements", "PATCH counters/sessions/:id/close",
                   "PATCH counters/sessions/:id/closing-details",
                   "PATCH counters/sessions/:id/verify", "GET counters/sessions/:id/report",
                   "GET counters/sessions/:id/report/pdf"},
     admin |-> {"POST counters", "PATCH counters/:id", "DELETE counters/:id",
                "PATCH counters/sessions/:id/staff", "DELETE counters/verifications/:id",
                "PATCH counters/sessions/:id/opening-details",
                "PATCH counters/sessions/:id/sales",
                "PATCH counters/sessions/:id/movements/:movementId",
                "DELETE counters/sessions/:id/movements/:movementId"}]

DashboardController ==
    [signedIn |-> {"GET dashboard/summary", "GET dashboard/drilldown/:metric"}]

DocumentsController ==
    [anyone |-> {"GET documents-download"},
     signedIn |-> {"GET documents/:membershipId/:type", "GET documents/:membershipId/:type/token"},
     admin |-> {"POST documents/:membershipId/:type"}]

EmployeesController ==
    [signedIn |-> {"GET employees/me", "GET employees/recent-work", "GET employees",
                   "GET employees/former", "GET employees/:id", "GET employees/:id/recent-work",
                   "GET employees/:id/rating-summary", "POST employees/:id/deactivate",
                   "GET departments"},
     admin |-> {"POST employees", "PATCH employees/:id", "POST employees/:id/reactivate",
                "POST employees/:id/photo", "POST departments", "PATCH departments/:id",
                "GET departments/:id/usage", "DELETE departments/:id"}]

ExternalController == [keyed |-> {"GET external/v1/employees"}]

LeaveController ==
    [signedIn |-> {"GET leave/types", "GET leave/me/balances", "GET leave/me/requests",
                   "POST leave/requests", "POST leave/requests/:id/cancel",
                   "GET leave/approvals/pending", "POST leave/requests/:id/decision"},
     admin |-> {"POST leave/types", "GET leave/delegations", "POST leave/delegations",
                "PATCH leave/delegations/:id"}]

LocationsController ==
    [signedIn |-> {"GET locations"},
     manager |-> {"POST locations", "PATCH locations/:id", "DELETE locations/:id"}]

NotificationsController ==
    [signedIn |-> {"GET notifications", "POST notifications/:id/read",
                   "POST notifications/read-all"}]

PayrollController ==
    [signedIn |-> {"GET payroll/my-payslips", "GET payroll/payslips/:id/pdf"},
     admin |-> {"GET payroll/settings", "PATCH payroll/settings", "POST payroll/generate",
                "GET payroll/preview", "GET payroll/payslips"}]

PlansController ==
    [staff |-> {"GET plans", "POST plans", "PATCH plans/:key", "DELETE plans/:key"}]

ProductsController ==
    [signedIn |-> {"GET products"},
     admin |-> {"POST products"}]

RacksController ==
    [signedIn |-> {"GET racks/search", "GET racks/recently-cleaned", "GET racks/pending",
                   "GET racks/my-assignments", "GET racks/:id/history", "POST racks/:id/clean"},
     admin |-> {"POST racks", "PATCH racks/:id", "DELETE racks/:id"},
     manager |-> {"POST racks/:id/assign", "POST racks/assignments/:id/cancel",
                  "PATCH racks/cleaning-logs/:id/rating"}]

ReportsController ==
    [signedIn |-> {"GET reports/attendance.xlsx", "GET reports/leave.xlsx"}]

ShiftsController ==
    [signedIn |-> {"GET shifts", "GET shifts/my-upcoming", "GET shifts/calendar"},
     admin |-> {"POST shifts", "PATCH shifts/:id", "DELETE shifts/:id"},
     manager |-> {"POST shifts/assignments", "DELETE shifts/assignments/:id"}]

TasksController ==
    [signedIn |-> {"GET tasks/member/:membershipId", "PATCH tasks/:id/status"},
     admin |-> {"POST tasks", "DELETE tasks/:id"}]

TenantMembershipsController ==
    [signedIn |-> {"GET tenant-memberships", "GET tenant-memberships/:id"}]

TenantsController ==
    [signedIn |-> {"GET tenants/me"},
     admin |-> {"PATCH tenants/me"},
     staff |-> {"POST tenants", "GET tenants", "PATCH tenants/:id/plan",
                "PATCH tenants/:id/status"}]

VendorsController ==
    [signedIn |-> {"POST vendors", "GET vendors", "GET vendors/my-receipts",
                   "POST vendors/:id/receive", "PATCH vendors/receipts/:id"},
     admin |-> {"GET vendors/search", "GET vendors/recent", "GET vendors/:id/history"},
     manager |-> {"PATCH vendors/receipts/:id/rating"}]

Controllers ==
    {AdvanceCategoriesController, AdvanceRequestsController, AdvancesController,
     ApiKeysController, AttendanceController, AuthController, BillsController,
     BusinessTypesController, CountersController, DashboardController, DocumentsController,
     EmployeesController, ExternalController, LeaveController, LocationsController,
     NotificationsController, PayrollController, PlansController, ProductsController,
     RacksController, ReportsController, ShiftsController, TasksController,
     TenantMembershipsController, TenantsController, VendorsController}

(* The routes of each kind, of all controllers. *)
Behind ==
    [kind \in {"anyone", "signedIn", "admin", "manager", "staff", "keyed"} |->
        UNION {c[kind] : c \in {d \in Controllers : kind \in DOMAIN d}}]

Routes == UNION {Behind[k] : k \in DOMAIN Behind}

-----------------------------------------------------------------------------
(* The guards. *)

(* The role in the token has to be among those required; platform staff    *)
(* have none.                                                              *)
RolesGuard(role, required) == role \in TenantRoles \cap required

PugeyStaffGuard(role) == role = "PUGEY_STAFF"

(* JwtAuthGuard comes first, in front of all that is not for anyone.       *)
Served(route) ==
    \/ route \in Behind["anyone"]
    \/ /\ access # "none" /\ ~expired
       /\ \/ route \in Behind["signedIn"]
          \/ route \in Behind["admin"] /\ RolesGuard(access, {"SUPER_ADMIN"})
          \/ route \in Behind["manager"] /\ RolesGuard(access, {"SUPER_ADMIN", "SUPERVISOR"})
          \/ route \in Behind["staff"] /\ PugeyStaffGuard(access)

-----------------------------------------------------------------------------
(* The permission map. *)

canCheckInOut(role) == role \in {"SUPERVISOR", "EMPLOYEE"}

myTeamScope(role) ==
    CASE role \in {"SUPER_ADMIN", "ADMIN"} -> "all"
      [] role = "SUPERVISOR" -> "subtree"
      [] OTHER -> "none"

canCreateEditDeleteAnyRecord(role) == role = "SUPER_ADMIN"

canManageLocations(role) == role \in {"SUPER_ADMIN", "SUPERVISOR"}

canDeactivateEmployees(role) == role \in {"SUPER_ADMIN", "SUPERVISOR"}

(* Nothing grants it to a supervisor. *)
canCorrectAttendance(role) == role = "SUPER_ADMIN"

canAssignRolesAndPermissions(role) == role \in {"PUGEY_STAFF", "SUPER_ADMIN"}

canApproveLeave(role, delegated) == role = "SUPER_ADMIN" \/ delegated

canManageTenantSettings(role) == role = "SUPER_ADMIN"

reportScope(role) ==
    CASE role = "PUGEY_STAFF" -> "platform"
      [] role = "SUPER_ADMIN" -> "full"
      [] role = "ADMIN" -> "org_read_only"
      [] role = "SUPERVISOR" -> "own_team"
      [] OTHER -> "own_record"

effectivePermissions(role, delegated) ==
    [role |-> role,
     canCheckInOut |-> canCheckInOut(role),
     canManageLocations |-> canManageLocations(role),
     myTeamScope |-> myTeamScope(role),
     canCreateEditDeleteAnyRecord |-> canCreateEditDeleteAnyRecord(role),
     canDeactivateEmployees |-> canDeactivateEmployees(role),
     canCorrectAttendance |-> canCorrectAttendance(role),
     canAssignRolesAndPermissions |-> canAssignRolesAndPermissions(role),
     canApproveLeave |-> canApproveLeave(role, delegated),
     canManageTenantSettings |-> canManageTenantSettings(role),
     reportScope |-> reportScope(role)]

NothingOffered == [current |-> FALSE, map |-> effectivePermissions("EMPLOYEE", FALSE)]

-----------------------------------------------------------------------------
(* The account. *)

(* resolveMembership: one company among those it works for; the platform   *)
(* if there is none.                                                       *)
NewAccess(role) ==
    /\ \/ role \in memberOf
       \/ role = "PUGEY_STAFF" /\ platformStaff /\ memberOf = {}
    /\ access' = role
    /\ expired' = FALSE
    /\ offered' = [offered EXCEPT !.current = FALSE]
    /\ UNCHANGED <<memberOf, platformStaff, approver, apiKey, keyed>>

(* After fifteen minutes. *)
AccessExpires ==
    /\ access # "none" /\ ~expired
    /\ expired' = TRUE
    /\ UNCHANGED <<memberOf, platformStaff, approver, access, offered, apiKey, keyed>>

(* refresh: in the company of the session, while it works there.           *)
Refresh ==
    /\ expired
    /\ access \in memberOf \cup {"PUGEY_STAFF"}
    /\ expired' = FALSE
    /\ UNCHANGED <<memberOf, platformStaff, approver, access, offered, apiKey, keyed>>

(* create in another company, reactivate.  No role is ever changed.        *)
JoinCompany(role) ==
    /\ memberOf' = memberOf \cup {role}
    /\ UNCHANGED <<platformStaff, approver, access, expired, offered, apiKey, keyed>>

(* deactivate. *)
LeaveCompany(role) ==
    /\ memberOf' = memberOf \ {role}
    /\ UNCHANGED <<platformStaff, approver, access, expired, offered, apiKey, keyed>>

(* checkIsDelegatedLeaveApprover: a supervisor's line or a delegation is   *)
(* written or ends.                                                        *)
ApproverChanges ==
    /\ approver' = ~approver
    /\ UNCHANGED <<memberOf, platformStaff, access, expired, offered, apiKey, keyed>>

(* Mutant: the role of any of the memberships. *)
PermissionsOfMember ==
    /\ access # "none" /\ ~expired
    /\ \E role \in IF memberOf = {} THEN {access} ELSE memberOf :
        offered' = [current |-> TRUE, map |-> effectivePermissions(role, approver)]
    /\ UNCHANGED <<memberOf, platformStaff, approver, access, expired, apiKey, keyed>>

(* By the role in the token; who approves is read from the database.       *)
MyPermissions ==
    /\ access # "none" /\ ~expired
    /\ offered' = [current |-> TRUE,
                   map |-> effectivePermissions(access, access \in TenantRoles /\ approver)]
    /\ UNCHANGED <<memberOf, platformStaff, approver, access, expired, apiKey, keyed>>

-----------------------------------------------------------------------------
(* Keys of the external API. *)

CreateApiKey(k) ==
    /\ Served("POST api-keys")
    /\ apiKey[k] = "none"
    /\ apiKey' = [apiKey EXCEPT ![k] = "live"]
    /\ UNCHANGED <<memberOf, platformStaff, approver, access, expired, offered, keyed>>

RevokeApiKey(k) ==
    /\ Served("PATCH api-keys/:id/revoke")
    /\ apiKey[k] # "none"
    /\ apiKey' = [apiKey EXCEPT ![k] = "revoked"]
    /\ UNCHANGED <<memberOf, platformStaff, approver, access, expired, offered, keyed>>

(* ApiKeyGuard finds the key; the request goes on whatever becomes of it.  *)
ApiKeyGuard(k) ==
    /\ apiKey[k] = "live"
    /\ keyed' = keyed \cup {k}
    /\ UNCHANGED <<memberOf, platformStaff, approver, access, expired, offered, apiKey>>

(* listEmployees, or whatever else stands behind a key. *)
ServeKeyed(k) ==
    /\ k \in keyed
    /\ keyed' = keyed \ {k}
    /\ UNCHANGED <<memberOf, platformStaff, approver, access, expired, offered, apiKey>>

-----------------------------------------------------------------------------
AuthorityInit ==
    /\ memberOf \in SUBSET TenantRoles
    /\ platformStaff \in BOOLEAN
    /\ approver = FALSE
    /\ access = "none"
    /\ expired = FALSE
    /\ offered = NothingOffered
    /\ apiKey = [k \in ApiKeys |-> "none"]
    /\ keyed = {}

AuthorityNext ==
    \/ \E role \in Roles : NewAccess(role)
    \/ AccessExpires
    \/ Refresh
    \/ \E role \in TenantRoles : JoinCompany(role) \/ LeaveCompany(role)
    \/ ApproverChanges
    \/ MyPermissions
    \/ \E k \in ApiKeys :
        CreateApiKey(k) \/ RevokeApiKey(k) \/ ApiKeyGuard(k) \/ ServeKeyed(k)

AuthoritySpec == AuthorityInit /\ [][AuthorityNext]_authorityVars

-----------------------------------------------------------------------------
(* Properties. *)

(* What a screen drawn from a permission calls. *)
CalledFor ==
    [canManageLocations |-> LocationsController.manager,
     canCorrectAttendance |-> AttendanceController.admin,
     canCreateEditDeleteAnyRecord |->
        {"POST employees", "PATCH employees/:id", "POST racks", "PATCH racks/:id",
         "DELETE racks/:id", "POST shifts", "PATCH shifts/:id", "DELETE shifts/:id",
         "POST tasks", "DELETE tasks/:id", "POST counters", "PATCH counters/:id",
         "DELETE counters/:id", "POST departments", "PATCH departments/:id",
         "DELETE departments/:id", "POST advances", "PATCH advances/:id",
         "DELETE advances/:id", "POST documents/:membershipId/:type", "POST products"},
     canAssignRolesAndPermissions |->
        {"POST employees", "POST leave/delegations", "PATCH leave/delegations/:id"},
     canManageTenantSettings |-> {"PATCH tenants/me", "PATCH payroll/settings"}]

(* The map and the guards are two lists of rules, and the map is asked for *)
(* once and then drawn from: through all refreshes of the session, what it *)
(* offers the guards let through and what it does not they refuse, which-  *)
(* ever companies the account joins or leaves meanwhile.  Platform staff   *)
(* are offered to assign roles and are refused by RolesGuard.              *)
MapAgreesWithGuards ==
    offered.current /\ ~expired /\ access # "PUGEY_STAFF" =>
        \A p \in DOMAIN CalledFor : \A route \in CalledFor[p] :
            /\ route \in Routes
            /\ Served(route) <=> offered.map[p]
=============================================================================
