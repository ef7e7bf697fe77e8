------------------------------ MODULE MCWorkplace ------------------------------
(***************************************************************************)
(* An instance of the services of the workplace for TLC.  They write no    *)
(* row in common, so that their steps commute: a behaviour follows one of  *)
(* them while the others rest, and the states of all of them are the sum   *)
(* of what each can reach and not the product.  For the same reason their  *)
(* rows and requests can be the same model values.                         *)
(***************************************************************************)
EXTENDS Racks, Attendance, Dashboard, Purchasing, Rota, Documents, Sessions, Authority, TLC

CONSTANTS p1, p2, x1, x2, x3, h1, h2, one

VARIABLE focus

Components ==
    {"racks", "attendance", "dashboard", "purchasing", "rota", "documents", "sessions", "authority"}

(* All but f rest. *)
OthersRest(f) ==
    /\ f \in Components
    /\ UNCHANGED focus
    /\ IF f = "racks" THEN TRUE ELSE UNCHANGED racksVars
    /\ IF f = "attendance" THEN TRUE ELSE UNCHANGED attVars
    /\ IF f = "dashboard" THEN TRUE ELSE UNCHANGED dashVars
    /\ IF f = "purchasing" THEN TRUE ELSE UNCHANGED purchasingVars
    /\ IF f = "rota" THEN TRUE ELSE UNCHANGED rotaVars
    /\ IF f = "documents" THEN TRUE ELSE UNCHANGED documentsVars
    /\ IF f = "sessions" THEN TRUE ELSE UNCHANGED sessionsVars
    /\ IF f = "authority" THEN TRUE ELSE UNCHANGED authorityVars

WorkplaceInit ==
    /\ focus \in Components
    /\ RacksInit /\ AttInit /\ DashInit /\ PurchasingInit
    /\ RotaInit /\ DocumentsInit /\ SessionsInit
    /\ AuthorityInit
    /\ focus # "authority" => memberOf = {} /\ ~platformStaff

WorkplaceNext ==
    \/ focus = "racks" /\ RacksNext /\ OthersRest("racks")
    \/ focus = "attendance" /\ AttNext /\ OthersRest("attendance")
    \/ focus = "dashboard" /\ DashNext /\ OthersRest("dashboard")
    \/ focus = "purchasing" /\ PurchasingNext /\ OthersRest("purchasing")
    \/ focus = "rota" /\ RotaNext /\ OthersRest("rota")
    \/ focus = "documents" /\ DocumentsNext /\ OthersRest("documents")
    \/ focus = "sessions" /\ SessionsNext /\ OthersRest("sessions")
    \/ focus = "authority" /\ AuthorityNext /\ OthersRest("authority")

WorkplaceSpec ==
    WorkplaceInit /\ [][WorkplaceNext]_<<focus, racksVars, attVars, dashVars, purchasingVars,
                                         rotaVars, documentsVars, sessionsVars, authorityVars>>

(* What nothing reads is not followed further: who was told, what was      *)
(* rated, how a receipt is tagged; nor what comes after a clock-in that    *)
(* was begun before midnight and written after it.                         *)
Followed ==
    /\ rackTold = {} /\ taskTold = {}
    /\ \A c \in Cleanings : ~cleaning[c].rated
    /\ \A l \in Receipts : ~receipt[l].rated /\ receipt[l].product = None
    /\ \A b \in Bills : ~bill[b].rated
    /\ overnight = {}

RowSymmetry == Permutations({p1, p2}) \cup Permutations({x1, x2, x3}) \cup Permutations({h1, h2})
=============================================================================
