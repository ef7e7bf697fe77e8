--------------------------------- MODULE Rota ---------------------------------
(***************************************************************************)
(* Shifts, the roster, and tasks: ShiftsService and TasksService.          *)
(*                                                                         *)
(* deleteShift counts the roster before it deletes, assign looks for the   *)
(* shift before it upserts, unassign reads an entry before it deletes it   *)
(* by id; others commit in between.  The foreign key of shift_assignments  *)
(* restricts, and Postgres checks it when a row is written.                *)
(***************************************************************************)
EXTENDS Rows

CONSTANTS
    Shifts,         \* rows of shifts
    ShiftNames,
    Rostered,       \* members who can be put on the roster
    Dates,
    Tasks,          \* rows of tasks
    Planners        \* requests served at the same time

ASSUME RotaAssumption == None \notin Shifts \cup ShiftNames \cup Rostered \cup Tasks

VARIABLES
    shiftName,      \* shifts
    roster,         \* shift_assignments: the shift of a member on a date
    task,           \* tasks
    taskTold,       \* notifications: tasks whose assignee was told
    planner         \* what each handler is doing

rotaVars == <<shiftName, roster, task, taskTold, planner>>

Days == Rostered \X Dates

NoTask == [status |-> "none", member |-> None]

TaskStatuses == {"pending", "in_progress", "completed"}

Unoccupied == [pc |-> "rest", shift |-> None, day |-> None, task |-> None, overtaken |-> FALSE]

Exists(s) == shiftName[s] # None

InUse(s) == \E d \in Days : roster[d] = s

(* A handler begins; a handler ends, and the ones at the same day notice.  *)
Begin(k, doing) ==
    /\ planner[k].pc = "rest"
    /\ planner' = [planner EXCEPT ![k] = doing]

End(k, d) ==
    planner' = [j \in Planners |->
        IF j = k THEN Unoccupied
        ELSE IF planner[j].pc = "unassign" /\ planner[j].day = d
        THEN [planner[j] EXCEPT !.overtaken = TRUE]
        ELSE planner[j]]

-----------------------------------------------------------------------------
CreateShift(s, n) ==
    /\ ~Exists(s)
    /\ \A t \in Shifts : shiftName[t] # n
    /\ shiftName' = [shiftName EXCEPT ![s] = n]
    /\ UNCHANGED <<roster, task, taskTold, planner>>

UpdateShift(s, n) ==
    /\ Exists(s)
    /\ \A t \in Shifts \ {s} : shiftName[t] # n
    /\ shiftName' = [shiftName EXCEPT ![s] = n]
    /\ UNCHANGED <<roster, task, taskTold, planner>>

(* "Reassign them first, then remove it." *)
CountInUse(k, s) ==
    /\ Exists(s)
    /\ ~InUse(s)
    /\ Begin(k, [Unoccupied EXCEPT !.pc = "delete", !.shift = s])
    /\ UNCHANGED <<shiftName, roster, task, taskTold>>

(* The statement fails when the shift is in use by now, or gone.           *)
DeleteShift(k) ==
    LET s == planner[k].shift
    IN  /\ planner[k].pc = "delete"
        /\ shiftName' = IF InUse(s) THEN shiftName ELSE [shiftName EXCEPT ![s] = None]
        /\ planner' = [planner EXCEPT ![k] = Unoccupied]
        /\ UNCHANGED <<roster, task, taskTold>>

-----------------------------------------------------------------------------
FindShift(k, s, d) ==
    /\ Exists(s)
    /\ Begin(k, [Unoccupied EXCEPT !.pc = "assign", !.shift = s, !.day = d])
    /\ UNCHANGED <<shiftName, roster, task, taskTold>>

(* Mutant: no foreign key. *)
UpsertUnchecked(k) ==
    /\ planner[k].pc = "assign"
    /\ roster' = [roster EXCEPT ![planner[k].day] = planner[k].shift]
    /\ End(k, planner[k].day)
    /\ UNCHANGED <<shiftName, task, taskTold>>

(* The upsert on the member and the date; it fails if the shift is gone.   *)
AssignShift(k) ==
    /\ planner[k].pc = "assign"
    /\ Exists(planner[k].shift)
    /\ roster' = [roster EXCEPT ![planner[k].day] = planner[k].shift]
    /\ End(k, planner[k].day)
    /\ UNCHANGED <<shiftName, task, taskTold>>

FindEntry(k, d) ==
    /\ roster[d] # None
    /\ Begin(k, [Unoccupied EXCEPT !.pc = "unassign", !.shift = roster[d], !.day = d])
    /\ UNCHANGED <<shiftName, roster, task, taskTold>>

(* By id, and an upsert keeps the id: whatever shift it is by now.  If the *)
(* entry was deleted meanwhile the statement fails, and one rostered after *)
(* that has another id.                                                    *)
Unassign(k) ==
    LET d == planner[k].day
    IN  /\ planner[k].pc = "unassign"
        /\ roster[d] # None
        /\ roster' = [roster EXCEPT ![d] = None]
        /\ planner' = [j \in Planners |->
                IF j = k \/ (planner[j].pc = "unassign" /\ planner[j].day = d)
                THEN Unoccupied ELSE planner[j]]
        /\ UNCHANGED <<shiftName, task, taskTold>>

-----------------------------------------------------------------------------
(* TasksService. *)

AssignTask(k, t, m) ==
    /\ task[t].status = "none"
    /\ task' = [task EXCEPT ![t] = [status |-> "pending", member |-> m]]
    /\ Begin(k, [Unoccupied EXCEPT !.pc = "tell", !.task = t])
    /\ UNCHANGED <<shiftName, roster, taskTold>>

(* The second transaction. *)
TellTask(k) ==
    /\ planner[k].pc = "tell"
    /\ taskTold' = taskTold \cup {planner[k].task}
    /\ planner' = [planner EXCEPT ![k] = Unoccupied]
    /\ UNCHANGED <<shiftName, roster, task>>

(* updateStatus: by the assignee or a Super Admin, to any status.          *)
UpdateTask(t, status) ==
    /\ task[t].status # "none"
    /\ task' = [task EXCEPT ![t].status = status]
    /\ UNCHANGED <<shiftName, roster, taskTold, planner>>

RemoveTask(t) ==
    /\ task[t].status # "none"
    /\ task' = [task EXCEPT ![t] = NoTask]
    /\ UNCHANGED <<shiftName, roster, taskTold, planner>>

(* The process stops, or a statement fails and the transaction with it.    *)
PlannerDies(k) ==
    /\ planner[k].pc # "rest"
    /\ planner' = [planner EXCEPT ![k] = Unoccupied]
    /\ UNCHANGED <<shiftName, roster, task, taskTold>>

-----------------------------------------------------------------------------
RotaInit ==
    /\ shiftName = [s \in Shifts |-> None]
    /\ roster = [d \in Days |-> None]
    /\ task = [t \in Tasks |-> NoTask]
    /\ taskTold = {}
    /\ planner = [k \in Planners |-> Unoccupied]

ShiftsNext ==
    \/ \E s \in Shifts :
        \/ \E n \in ShiftNames : CreateShift(s, n) \/ UpdateShift(s, n)
        \/ \E k \in Planners : CountInUse(k, s) \/ (\E d \in Days : FindShift(k, s, d))
    \/ \E k \in Planners :
        \/ DeleteShift(k) \/ AssignShift(k) \/ Unassign(k)
        \/ \E d \in Days : FindEntry(k, d)

TasksNext ==
    \/ \E t \in Tasks :
        \/ \E k \in Planners, m \in Rostered : AssignTask(k, t, m)
        \/ \E status \in TaskStatuses : UpdateTask(t, status)
        \/ RemoveTask(t)
    \/ \E k \in Planners : TellTask(k)

RotaNext == ShiftsNext \/ TasksNext \/ \E k \in Planners : PlannerDies(k)

RotaSpec == RotaInit /\ [][RotaNext]_rotaVars

-----------------------------------------------------------------------------
(* Properties. *)

(* Nobody is rostered on a shift that is gone: deleteShift "blocks rather  *)
(* than cascades", also when someone is rostered after it has counted, and *)
(* assign when the shift it found is deleted before the upsert.            *)
RosteredShiftExists ==
    \A d \in Days : roster[d] # None => Exists(roster[d])

(* unassign takes off the roster what it read, unless the day was rostered *)
(* anew meanwhile; nothing else empties a day, deleteShift least of all.   *)
OnlyUnassignEmptiesADay ==
    [][\A d \in Days :
        roster[d] # None /\ roster'[d] = None =>
            \E k \in Planners :
                /\ planner[k].pc = "unassign" /\ planner[k].day = d
                /\ planner[k].shift = roster[d] \/ planner[k].overtaken]_rotaVars
=============================================================================
