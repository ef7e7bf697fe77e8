-------------------------------- MODULE Racks --------------------------------
(***************************************************************************)
(* Racks and who is to clean them: RacksService.                           *)
(*                                                                         *)
(* assignRack cancels what is pending and inserts a row, two statements;   *)
(* clean inserts a log, looks for a pending row and updates it by its id.  *)
(* At READ COMMITTED each statement sees what is committed when it starts. *)
(* Handlers that write what they do not depend on are one action; so are   *)
(* the look and the write of a name, which a unique index backs.           *)
(***************************************************************************)
EXTENDS Rows

CONSTANTS
    Racks,          \* rows of racks
    RackNames,
    Assignments,    \* rows of rack_assignments
    Cleanings,      \* rows of rack_cleaning_logs
    RackHandlers    \* requests served at the same time

ASSUME RacksAssumption ==
    /\ IsFiniteSet(Assignments)
    /\ None \notin RackNames \cup Cleanings

VARIABLES
    rackName,       \* racks
    assignment,     \* rack_assignments
    cleaning,       \* rack_cleaning_logs
    rackHandler,    \* what each handler is doing
    rackTold,       \* notifications: assignments whose assignee was told
    crossed         \* history: racks last assigned across another assignment

racksVars == <<rackName, assignment, cleaning, rackHandler, rackTold, crossed>>

NoAssignment == [status |-> "none", rack |-> None, log |-> None]

NotCleaned == [exists |-> FALSE, rack |-> None, rated |-> FALSE]

RackResting == [pc |-> "rest", rack |-> None, saw |-> {}, overtaken |-> FALSE]

Standing(r) == rackName[r] # None

(* activeAssignmentByRack; what the updateMany and findFirst look for.     *)
Open(r) == {a \in Assignments : assignment[a].status = "pending" /\ assignment[a].rack = r}

Working(h, pc, r) == rackHandler[h].pc = pc /\ rackHandler[h].rack = r

-----------------------------------------------------------------------------
CreateRack(r, n) ==
    /\ ~Standing(r)
    /\ \A q \in Racks : rackName[q] # n
    /\ rackName' = [rackName EXCEPT ![r] = n]
    /\ UNCHANGED <<assignment, cleaning, rackHandler, rackTold, crossed>>

UpdateRack(r, n) ==
    /\ Standing(r)
    /\ \A q \in Racks \ {r} : rackName[q] # n
    /\ rackName' = [rackName EXCEPT ![r] = n]
    /\ UNCHANGED <<assignment, cleaning, rackHandler, rackTold, crossed>>

(* The logs go with the rack.  An assignment of any status holds it back   *)
(* (its foreign key restricts), and so does a log being inserted.          *)
DeleteRack(r) ==
    /\ Standing(r)
    /\ \A a \in Assignments : assignment[a].status # "none" => assignment[a].rack # r
    /\ \A h \in RackHandlers : ~Working(h, "clean", r)
    /\ rackName' = [rackName EXCEPT ![r] = None]
    /\ cleaning' = [c \in Cleanings |-> IF cleaning[c].rack = r THEN NotCleaned ELSE cleaning[c]]
    /\ UNCHANGED <<assignment, rackHandler, rackTold, crossed>>

-----------------------------------------------------------------------------
(* assignRack. *)

(* The updateMany starts: it will cancel what is pending now.              *)
CancelPending(h, r) ==
    /\ rackHandler[h].pc = "rest"
    /\ Standing(r)
    /\ rackHandler' = [rackHandler EXCEPT ![h] =
            [pc |-> "assign", rack |-> r, saw |-> Open(r), overtaken |-> FALSE]]
    /\ UNCHANGED <<rackName, assignment, cleaning, rackTold, crossed>>

(* Mutant: what is pending stays pending. *)
InsertOnly(h, a) ==
    assignment' = [assignment EXCEPT ![a] =
        [status |-> "pending", rack |-> rackHandler[h].rack, log |-> None]]

(* A row that another handler changed while the updateMany waited for it   *)
(* is looked at again, so only what is still pending is cancelled.         *)
Replace(h, a) ==
    assignment' = [b \in Assignments |->
        IF b = a THEN [status |-> "pending", rack |-> rackHandler[h].rack, log |-> None]
        ELSE IF b \in rackHandler[h].saw \cap Open(rackHandler[h].rack)
        THEN [assignment[b] EXCEPT !.status = "cancelled"]
        ELSE assignment[b]]

(* The insert and the commit. *)
AssignRack(h, a) ==
    /\ rackHandler[h].pc = "assign"
    /\ assignment[a].status = "none"
    /\ LET r == rackHandler[h].rack
       IN  /\ Standing(r)
           /\ Replace(h, a)
           /\ crossed' = IF rackHandler[h].overtaken THEN crossed \cup {r} ELSE crossed \ {r}
           /\ rackHandler' = [k \in RackHandlers |->
                IF k = h THEN [rackHandler[h] EXCEPT !.pc = "tell", !.saw = {a}]
                ELSE IF Working(k, "assign", r) THEN [rackHandler[k] EXCEPT !.overtaken = TRUE]
                ELSE rackHandler[k]]
    /\ UNCHANGED <<rackName, cleaning, rackTold>>

(* The second transaction. *)
TellAssignee(h) ==
    /\ rackHandler[h].pc = "tell"
    /\ rackTold' = rackTold \cup rackHandler[h].saw
    /\ rackHandler' = [rackHandler EXCEPT ![h] = RackResting]
    /\ UNCHANGED <<rackName, assignment, cleaning, crossed>>

(* By the one who assigned it or a Super Admin, whatever its status.       *)
CancelAssignment(a) ==
    /\ assignment[a].status # "none"
    /\ assignment' = [assignment EXCEPT ![a].status = "cancelled"]
    /\ UNCHANGED <<rackName, cleaning, rackHandler, rackTold, crossed>>

-----------------------------------------------------------------------------
(* clean and rateCleaning. *)

(* Mutant: every pending assignment of the rack is taken. *)
TakeAllOpen(h, r) ==
    /\ rackHandler[h].pc = "rest"
    /\ Standing(r)
    /\ rackHandler' = [rackHandler EXCEPT ![h] =
            [pc |-> "clean", rack |-> r, saw |-> Open(r), overtaken |-> FALSE]]
    /\ UNCHANGED <<rackName, assignment, cleaning, rackTold, crossed>>

(* The log is inserted and findFirst takes one that is pending, if any.    *)
FindOpen(h, r) ==
    /\ rackHandler[h].pc = "rest"
    /\ Standing(r)
    /\ \E found \in SUBSET Open(r) :
        /\ Cardinality(found) = (IF Open(r) = {} THEN 0 ELSE 1)
        /\ rackHandler' = [rackHandler EXCEPT ![h] =
                [pc |-> "clean", rack |-> r, saw |-> found, overtaken |-> FALSE]]
    /\ UNCHANGED <<rackName, assignment, cleaning, rackTold, crossed>>

(* By its id, whatever has become of it meanwhile. *)
Clean(h, c) ==
    /\ rackHandler[h].pc = "clean"
    /\ ~cleaning[c].exists
    /\ cleaning' = [cleaning EXCEPT ![c] =
            [exists |-> TRUE, rack |-> rackHandler[h].rack, rated |-> FALSE]]
    /\ assignment' = [a \in Assignments |->
            IF a \in rackHandler[h].saw
            THEN [assignment[a] EXCEPT !.status = "completed", !.log = c]
            ELSE assignment[a]]
    /\ rackHandler' = [rackHandler EXCEPT ![h] = RackResting]
    /\ UNCHANGED <<rackName, rackTold, crossed>>

RateCleaning(c) ==
    /\ cleaning[c].exists
    /\ cleaning' = [cleaning EXCEPT ![c].rated = TRUE]
    /\ UNCHANGED <<rackName, assignment, rackHandler, rackTold, crossed>>

(* The process stops, or a statement fails and the transaction with it.    *)
RackHandlerDies(h) ==
    /\ rackHandler[h].pc # "rest"
    /\ rackHandler' = [rackHandler EXCEPT ![h] = RackResting]
    /\ UNCHANGED <<rackName, assignment, cleaning, rackTold, crossed>>

-----------------------------------------------------------------------------
RacksInit ==
    /\ rackName = [r \in Racks |-> None]
    /\ assignment = [a \in Assignments |-> NoAssignment]
    /\ cleaning = [c \in Cleanings |-> NotCleaned]
    /\ rackHandler = [h \in RackHandlers |-> RackResting]
    /\ rackTold = {}
    /\ crossed = {}

RacksNext ==
    \/ \E r \in Racks :
        \/ \E n \in RackNames : CreateRack(r, n) \/ UpdateRack(r, n)
        \/ DeleteRack(r)
        \/ \E h \in RackHandlers : CancelPending(h, r) \/ FindOpen(h, r)
    \/ \E h \in RackHandlers :
        \/ \E a \in Assignments : AssignRack(h, a)
        \/ \E c \in Cleanings : Clean(h, c)
        \/ TellAssignee(h)
        \/ RackHandlerDies(h)
    \/ \E a \in Assignments : CancelAssignment(a)
    \/ \E c \in Cleanings : RateCleaning(c)

RacksSpec == RacksInit /\ [][RacksNext]_racksVars

-----------------------------------------------------------------------------
(* Properties. *)

(* "Only one assignment can be open per rack" (assignRack): so it is       *)
(* whatever cancellations, cleanings and stops come in between, unless two *)
(* assignments of the rack overlapped, and again once the rack is assigned *)
(* undisturbed.                                                            *)
OneOpenAssignment ==
    \A r \in Racks \ crossed : \A a, b \in Open(r) : a = b

(* A completed assignment leads to a log of its own rack that is there,    *)
(* and to nobody else's: though clean writes by id over what may have been *)
(* cancelled, two cleanings may find one assignment, a second assignment   *)
(* may be open, and deleteRack deletes logs.                               *)
CompletedHasItsCleaning ==
    \A a \in Assignments : assignment[a].status = "completed" =>
        LET c == assignment[a].log
        IN  /\ c \in Cleanings
            /\ cleaning[c].exists /\ cleaning[c].rack = assignment[a].rack
            /\ \A b \in Assignments \ {a} : assignment[b].log # c
=============================================================================
