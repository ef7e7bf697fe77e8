---------------------------- MODULE WorkplaceProofs ----------------------------
(***************************************************************************)
(* The safety of the services of the workplace, each on its own: racks,    *)
(* the roster, deliveries and bills, documents, attendance, the dashboard  *)
(* and permissions, for any number of rows and handlers.                   *)
(***************************************************************************)
EXTENDS Racks, Rota, Purchasing, Documents, Attendance, Dashboard, Authority,
        FiniteSetTheorems, TLAPS

(***************************************************************************)
(* Racks.  One open assignment rests on what an assignment nobody got      *)
(* ahead of has seen (SeenOpen).  That a completed one has its cleaning    *)
(* rests on logs that stay with the row they were written to, whatever its *)
(* status becomes (LogsKept, LogsApart), and on what clean has found.      *)
(***************************************************************************)
AssignmentRow ==
    [status : {"none", "pending", "completed", "cancelled"},
     rack : Racks \cup {None}, log : Cleanings \cup {None}]

CleaningRow == [exists : BOOLEAN, rack : Racks \cup {None}, rated : BOOLEAN]

RackRequest ==
    [pc : {"rest", "assign", "tell", "clean"}, rack : Racks \cup {None},
     saw : SUBSET Assignments, overtaken : BOOLEAN]

RacksTypeOK ==
    /\ assignment \in [Assignments -> AssignmentRow]
    /\ cleaning \in [Cleanings -> CleaningRow]
    /\ rackHandler \in [RackHandlers -> RackRequest]
    /\ \A h \in RackHandlers : rackHandler[h].pc \in {"assign", "clean"} =>
            rackHandler[h].rack \in Racks

SeenOpen ==
    \A h \in RackHandlers : rackHandler[h].pc = "assign" /\ ~rackHandler[h].overtaken =>
        \A a \in Assignments :
            assignment[a].status = "pending" /\ assignment[a].rack = rackHandler[h].rack
            => a \in rackHandler[h].saw

(* clean found one assignment of its rack, or none. *)
Found ==
    \A h \in RackHandlers : rackHandler[h].pc = "clean" =>
        /\ \A a \in rackHandler[h].saw :
              assignment[a].status # "none" /\ assignment[a].rack = rackHandler[h].rack
        /\ \A a, b \in rackHandler[h].saw : a = b

LogsKept ==
    \A a \in Assignments : assignment[a].log # None =>
        /\ assignment[a].status # "none"
        /\ cleaning[assignment[a].log].exists
        /\ cleaning[assignment[a].log].rack = assignment[a].rack

LogsApart ==
    \A a \in Assignments : assignment[a].log # None =>
        \A b \in Assignments \ {a} : assignment[b].log # assignment[a].log

CompletedIsLogged ==
    \A a \in Assignments : assignment[a].status = "completed" => assignment[a].log # None

Logs == LogsKept /\ LogsApart /\ CompletedIsLogged

RacksInv == RacksTypeOK /\ SeenOpen /\ OneOpenAssignment /\ Found /\ Logs

LEMMA CompletedFromLogs == RacksInv => CompletedHasItsCleaning
  BY DEF RacksInv, RacksTypeOK, AssignmentRow, Logs, LogsKept, LogsApart, CompletedIsLogged,
         CompletedHasItsCleaning

LEMMA RacksInitially == RacksInit => RacksInv
  <1> SUFFICES ASSUME RacksInit PROVE RacksInv
    OBVIOUS
  <1>1. RacksTypeOK
    BY DEF RacksInit, RacksTypeOK, NoAssignment, NotCleaned, RackResting, AssignmentRow,
           CleaningRow, RackRequest
  <1>2. SeenOpen /\ Found
    BY DEF RacksInit, SeenOpen, Found, RackResting
  <1>3. OneOpenAssignment /\ Logs
    BY DEF RacksInit, OneOpenAssignment, Open, Logs, LogsKept, LogsApart, CompletedIsLogged,
           NoAssignment
  <1> QED  BY <1>1, <1>2, <1>3 DEF RacksInv

(* A handler that rests, or has only to tell, is bound by nothing.         *)
LEMMA RackHandlerStops ==
    ASSUME RacksInv, NEW h \in RackHandlers,
           rackHandler' = [rackHandler EXCEPT ![h] = RackResting],
           UNCHANGED <<assignment, cleaning, crossed>>
    PROVE  RacksInv'
  <1>1. RackResting \in RackRequest /\ RackResting.pc = "rest"
    BY DEF RackResting, RackRequest
  <1>2. RacksTypeOK'
    BY <1>1 DEF RacksInv, RacksTypeOK
  <1>3. SeenOpen' /\ Found'
    BY <1>1 DEF RacksInv, RacksTypeOK, SeenOpen, Found
  <1>4. OneOpenAssignment' /\ Logs'
    BY DEF RacksInv, OneOpenAssignment, Open, Logs, LogsKept, LogsApart, CompletedIsLogged
  <1> QED  BY <1>2, <1>3, <1>4 DEF RacksInv

LEMMA CancelPendingKeeps ==
    ASSUME RacksInv, NEW h \in RackHandlers, NEW r \in Racks, CancelPending(h, r)
    PROVE  RacksInv'
  <1> DEFINE w == [pc |-> "assign", rack |-> r, saw |-> Open(r), overtaken |-> FALSE]
  <1>1. rackHandler' = [rackHandler EXCEPT ![h] = w] /\ UNCHANGED <<assignment, cleaning, crossed>>
    BY DEF CancelPending
  <1>2. w \in RackRequest
    BY DEF RackRequest, Open
  <1>3. RacksTypeOK'
    BY <1>1, <1>2 DEF RacksInv, RacksTypeOK
  <1>4. SeenOpen'
    BY <1>1 DEF RacksInv, RacksTypeOK, SeenOpen, Open
  <1>5. Found'
    BY <1>1 DEF RacksInv, RacksTypeOK, Found
  <1>6. OneOpenAssignment' /\ Logs'
    BY <1>1 DEF RacksInv, OneOpenAssignment, Open, Logs, LogsKept, LogsApart, CompletedIsLogged
  <1> QED  BY <1>3, <1>4, <1>5, <1>6 DEF RacksInv

LEMMA FindOpenKeeps ==
    ASSUME RacksInv, NEW h \in RackHandlers, NEW r \in Racks, FindOpen(h, r)
    PROVE  RacksInv'
  <1> PICK found \in SUBSET Open(r) :
        /\ Cardinality(found) = (IF Open(r) = {} THEN 0 ELSE 1)
        /\ rackHandler' = [rackHandler EXCEPT ![h] =
                [pc |-> "clean", rack |-> r, saw |-> found, overtaken |-> FALSE]]
    BY DEF FindOpen
  <1> DEFINE w == [pc |-> "clean", rack |-> r, saw |-> found, overtaken |-> FALSE]
  <1>1. rackHandler' = [rackHandler EXCEPT ![h] = w] /\ UNCHANGED <<assignment, cleaning, crossed>>
    BY DEF FindOpen
  <1>2. found \subseteq Assignments
    BY DEF Open
  <1>3. IsFiniteSet(found)
    BY <1>2, RacksAssumption, FS_Subset
  <1>4. \A a, b \in found : a = b
    <2>1. CASE Open(r) = {}
      BY <2>1
    <2>2. CASE Open(r) # {}
      <3>1. Cardinality(found) = 1
        BY <2>2
      <3>2. \E a : found = {a}
        BY <1>3, <3>1, FS_Singleton
      <3> QED  BY <3>2
    <2> QED  BY <2>1, <2>2
  <1>5. \A a \in found : assignment[a].status # "none" /\ assignment[a].rack = r
    BY DEF Open
  <1>6. RacksTypeOK'
    <2>1. w \in RackRequest
      BY <1>2 DEF RackRequest
    <2> QED  BY <1>1, <2>1 DEF RacksInv, RacksTypeOK
  <1>7. Found'
    BY <1>1, <1>4, <1>5 DEF RacksInv, RacksTypeOK, Found
  <1>8. SeenOpen'
    BY <1>1 DEF RacksInv, RacksTypeOK, SeenOpen
  <1>9. OneOpenAssignment' /\ Logs'
    BY <1>1 DEF RacksInv, OneOpenAssignment, Open, Logs, LogsKept, LogsApart, CompletedIsLogged
  <1> QED  BY <1>6, <1>7, <1>8, <1>9 DEF RacksInv

(* The updateMany cancels all that was open, the insert opens one.         *)
LEMMA AssignRackKeeps ==
    ASSUME RacksInv, NEW h \in RackHandlers, NEW x \in Assignments, AssignRack(h, x)
    PROVE  RacksInv'
  <1>0. rackHandler[h].pc = "assign" /\ rackHandler[h].rack \in Racks
    BY DEF AssignRack, RacksInv, RacksTypeOK
  <1> PICK r \in Racks : rackHandler[h].rack = r
    BY <1>0
  <1> DEFINE new == [status |-> "pending", rack |-> r, log |-> None]
             gone == rackHandler[h].saw \cap Open(r)
  <1>1. /\ assignment[x].status = "none"
        /\ assignment' = [b \in Assignments |->
              IF b = x THEN new
              ELSE IF b \in gone THEN [assignment[b] EXCEPT !.status = "cancelled"]
              ELSE assignment[b]]
        /\ crossed' = IF rackHandler[h].overtaken THEN crossed \cup {r} ELSE crossed \ {r}
        /\ rackHandler' = [k \in RackHandlers |->
              IF k = h THEN [rackHandler[h] EXCEPT !.pc = "tell", !.saw = {x}]
              ELSE IF rackHandler[k].pc = "assign" /\ rackHandler[k].rack = r
              THEN [rackHandler[k] EXCEPT !.overtaken = TRUE]
              ELSE rackHandler[k]]
        /\ cleaning' = cleaning
    BY DEF AssignRack, Replace, Working
  <1>2. /\ assignment'[x] = new
        /\ \A b \in Assignments \ {x} :
              /\ assignment'[b].rack = assignment[b].rack
              /\ assignment'[b].log = assignment[b].log
              /\ b \in gone => assignment'[b].status = "cancelled"
              /\ b \notin gone => assignment'[b].status = assignment[b].status
    BY <1>1 DEF RacksInv, RacksTypeOK, AssignmentRow
  <1>3. RacksTypeOK'
    <2>1. assignment' \in [Assignments -> AssignmentRow]
      <3>1. new \in AssignmentRow
        BY DEF AssignmentRow
      <3>2. \A a \in AssignmentRow : [a EXCEPT !.status = "cancelled"] \in AssignmentRow
        BY DEF AssignmentRow
      <3> HIDE DEF new, gone
      <3> QED  BY <1>1, <3>1, <3>2 DEF RacksInv, RacksTypeOK
    <2>2. rackHandler' \in [RackHandlers -> RackRequest]
      <3>1. \A w \in RackRequest : [w EXCEPT !.overtaken = TRUE] \in RackRequest
        BY DEF RackRequest
      <3>2. [rackHandler[h] EXCEPT !.pc = "tell", !.saw = {x}] \in RackRequest
        BY DEF RacksInv, RacksTypeOK, RackRequest
      <3> QED  BY <1>1, <3>1, <3>2 DEF RacksInv, RacksTypeOK
    <2>3. \A k \in RackHandlers : rackHandler'[k].pc \in {"assign", "clean"} =>
              rackHandler'[k].rack \in Racks
      BY <1>1 DEF RacksInv, RacksTypeOK, RackRequest
    <2> QED  BY <1>1, <2>1, <2>2, <2>3 DEF RacksInv, RacksTypeOK
  <1>4. SeenOpen'
    <2> SUFFICES ASSUME NEW k \in RackHandlers,
                        rackHandler'[k].pc = "assign", ~rackHandler'[k].overtaken,
                        NEW a \in Assignments, assignment'[a].status = "pending",
                        assignment'[a].rack = rackHandler'[k].rack
                 PROVE  a \in rackHandler'[k].saw
      BY DEF SeenOpen
    <2>1. k # h /\ rackHandler'[k] = rackHandler[k] /\ rackHandler[k].rack # r
      BY <1>1 DEF RacksInv, RacksTypeOK, RackRequest
    <2>2. a # x
      BY <1>2, <2>1
    <2>3. assignment[a].status = "pending" /\ assignment[a].rack = rackHandler[k].rack
      BY <1>2, <2>1, <2>2
    <2> QED  BY <2>1, <2>3 DEF RacksInv, SeenOpen
  <1>5. OneOpenAssignment'
    <2> SUFFICES ASSUME NEW q \in Racks \ crossed', NEW a \in Open(q)', NEW b \in Open(q)'
                 PROVE  a = b
      BY DEF OneOpenAssignment
    <2>1. CASE q = r
      <3>1. \A c \in Open(r) : c \in rackHandler[h].saw
        BY <1>0, <1>1, <2>1 DEF RacksInv, SeenOpen, Open
      <3>2. \A c \in Assignments \ {x} :
                ~(assignment'[c].status = "pending" /\ assignment'[c].rack = r)
        BY <1>2, <3>1 DEF Open
      <3> QED  BY <2>1, <3>2 DEF Open
    <2>2. CASE q # r
      <3>1. q \notin crossed
        BY <1>1, <2>2
      <3>2. a \in Open(q) /\ b \in Open(q)
        BY <1>2, <2>2 DEF Open
      <3> QED  BY <3>1, <3>2 DEF RacksInv, OneOpenAssignment
    <2> QED  BY <2>1, <2>2
  <1>6. Found'
    <2> SUFFICES ASSUME NEW k \in RackHandlers, rackHandler'[k].pc = "clean"
                 PROVE  /\ \A a \in rackHandler'[k].saw :
                              /\ assignment'[a].status # "none"
                              /\ assignment'[a].rack = rackHandler'[k].rack
                        /\ \A a, b \in rackHandler'[k].saw : a = b
      BY DEF Found
    <2>1. rackHandler'[k] = rackHandler[k] /\ rackHandler[k].saw \subseteq Assignments
      BY <1>1 DEF RacksInv, RacksTypeOK, RackRequest
    <2> QED  BY <1>1, <1>2, <2>1 DEF RacksInv, Found
  <1>7. Logs'
    <2>1. LogsKept'
      BY <1>1, <1>2 DEF RacksInv, Logs, LogsKept
    <2>2. LogsApart'
      BY <1>2 DEF RacksInv, Logs, LogsApart
    <2>3. CompletedIsLogged'
      BY <1>2 DEF RacksInv, Logs, CompletedIsLogged
    <2> QED  BY <2>1, <2>2, <2>3 DEF Logs
  <1> QED  BY <1>3, <1>4, <1>5, <1>6, <1>7 DEF RacksInv

LEMMA CancelAssignmentKeeps ==
    ASSUME RacksInv, NEW x \in Assignments, CancelAssignment(x)
    PROVE  RacksInv'
  <1>1. /\ assignment' = [assignment EXCEPT ![x].status = "cancelled"]
        /\ assignment[x].status # "none"
        /\ UNCHANGED <<cleaning, rackHandler, crossed>>
    BY DEF CancelAssignment
  <1>2. /\ assignment' \in [Assignments -> AssignmentRow]
        /\ \A b \in Assignments :
              /\ assignment'[b].rack = assignment[b].rack
              /\ assignment'[b].log = assignment[b].log
              /\ assignment'[b].status = assignment[b].status
                 \/ assignment'[b].status = "cancelled"
    BY <1>1 DEF RacksInv, RacksTypeOK, AssignmentRow
  <1>3. RacksTypeOK'
    BY <1>1, <1>2 DEF RacksInv, RacksTypeOK
  <1>4. SeenOpen' /\ OneOpenAssignment'
    BY <1>1, <1>2 DEF RacksInv, SeenOpen, OneOpenAssignment, Open
  <1>5. Found'
    BY <1>1, <1>2 DEF RacksInv, RacksTypeOK, RackRequest, Found
  <1>6. Logs'
    BY <1>1, <1>2 DEF RacksInv, Logs, LogsKept, LogsApart, CompletedIsLogged
  <1> QED  BY <1>3, <1>4, <1>5, <1>6 DEF RacksInv

(* The log is new, and the one assignment found gets it. *)
LEMMA CleanKeeps ==
    ASSUME RacksInv, NEW h \in RackHandlers, NEW c \in Cleanings, Clean(h, c)
    PROVE  RacksInv'
  <1>0. rackHandler[h].pc = "clean" /\ rackHandler[h].rack \in Racks
    BY DEF Clean, RacksInv, RacksTypeOK
  <1> PICK r \in Racks : rackHandler[h].rack = r
    BY <1>0
  <1> DEFINE saw == rackHandler[h].saw
  <1>1. /\ ~cleaning[c].exists
        /\ cleaning' = [cleaning EXCEPT ![c] = [exists |-> TRUE, rack |-> r, rated |-> FALSE]]
        /\ assignment' = [a \in Assignments |->
              IF a \in saw THEN [assignment[a] EXCEPT !.status = "completed", !.log = c]
              ELSE assignment[a]]
        /\ rackHandler' = [rackHandler EXCEPT ![h] = RackResting]
        /\ crossed' = crossed
    BY DEF Clean
  <1>2. \A a \in Assignments :
            /\ assignment'[a].rack = assignment[a].rack
            /\ a \in saw => assignment'[a].status = "completed" /\ assignment'[a].log = c
            /\ a \notin saw => assignment'[a] = assignment[a]
    BY <1>1 DEF RacksInv, RacksTypeOK, AssignmentRow
  <1>3. /\ \A a \in saw : assignment[a].status # "none" /\ assignment[a].rack = r
        /\ \A a, b \in saw : a = b
        /\ saw \subseteq Assignments
    BY <1>0 DEF RacksInv, Found, RacksTypeOK, RackRequest
  <1>4. \A a \in Assignments : assignment[a].log # c
    BY <1>1, RacksAssumption DEF RacksInv, Logs, LogsKept
  <1>5. RacksTypeOK'
    <2>1. assignment' \in [Assignments -> AssignmentRow]
      <3>1. \A a \in AssignmentRow :
                [a EXCEPT !.status = "completed", !.log = c] \in AssignmentRow
        BY DEF AssignmentRow
      <3> QED  BY <1>1, <3>1 DEF RacksInv, RacksTypeOK
    <2>2. cleaning' \in [Cleanings -> CleaningRow]
      BY <1>1 DEF RacksInv, RacksTypeOK, CleaningRow
    <2>3. RackResting \in RackRequest /\ RackResting.pc = "rest"
      BY DEF RackResting, RackRequest
    <2> QED  BY <1>1, <2>1, <2>2, <2>3 DEF RacksInv, RacksTypeOK
  <1>6. SeenOpen' /\ OneOpenAssignment'
    <2>1. \A a \in Assignments : assignment'[a].status = "pending" => assignment'[a] = assignment[a]
      BY <1>2
    <2>2. \A k \in RackHandlers : rackHandler'[k].pc = "assign" => rackHandler'[k] = rackHandler[k]
      BY <1>1 DEF RacksInv, RacksTypeOK, RackResting
    <2>3. SeenOpen'
      BY <2>1, <2>2 DEF RacksInv, SeenOpen
    <2>4. \A q \in Racks : Open(q)' \subseteq Open(q)
      BY <2>1 DEF Open
    <2>5. OneOpenAssignment'
      BY <1>1, <2>4 DEF RacksInv, OneOpenAssignment
    <2> QED  BY <2>3, <2>5
  <1>7. Found'
    <2>1. \A k \in RackHandlers : rackHandler'[k].pc = "clean" => rackHandler'[k] = rackHandler[k]
      BY <1>1 DEF RacksInv, RacksTypeOK, RackResting
    <2>2. \A a \in Assignments : assignment[a].status # "none" => assignment'[a].status # "none"
      BY <1>2
    <2>3. \A k \in RackHandlers : rackHandler[k].saw \subseteq Assignments
      BY DEF RacksInv, RacksTypeOK, RackRequest
    <2> QED  BY <1>2, <2>1, <2>2, <2>3 DEF RacksInv, Found
  <1>8. Logs'
    <2>1. LogsKept'
      <3> SUFFICES ASSUME NEW a \in Assignments, assignment'[a].log # None
                   PROVE  /\ assignment'[a].status # "none"
                          /\ cleaning'[assignment'[a].log].exists
                          /\ cleaning'[assignment'[a].log].rack = assignment'[a].rack
        BY DEF LogsKept
      <3>1. CASE a \in saw
        BY <1>1, <1>2, <1>3, <3>1 DEF RacksInv, RacksTypeOK
      <3>2. CASE a \notin saw
        <4>1. assignment'[a] = assignment[a] /\ assignment[a].log # c
          BY <1>2, <1>4, <3>2
        <4>2. cleaning'[assignment[a].log] = cleaning[assignment[a].log]
          BY <1>1, <4>1 DEF RacksInv, RacksTypeOK, AssignmentRow
        <4> QED  BY <4>1, <4>2 DEF RacksInv, Logs, LogsKept
      <3> QED  BY <3>1, <3>2
    <2>2. LogsApart'
      BY <1>2, <1>3, <1>4 DEF RacksInv, Logs, LogsApart
    <2>3. CompletedIsLogged'
      BY <1>2, RacksAssumption DEF RacksInv, Logs, CompletedIsLogged
    <2> QED  BY <2>1, <2>2, <2>3 DEF Logs
  <1> QED  BY <1>5, <1>6, <1>7, <1>8 DEF RacksInv

(* Logs that an assignment refers to are of racks that cannot be deleted.  *)
LEMMA RackRowsKeep ==
    ASSUME RacksInv,
           \/ \E r \in Racks :
                \/ \E n \in RackNames : CreateRack(r, n) \/ UpdateRack(r, n)
                \/ DeleteRack(r)
           \/ \E c \in Cleanings : RateCleaning(c)
    PROVE  RacksInv'
  <1>1. /\ UNCHANGED <<assignment, rackHandler, crossed>>
        /\ cleaning' \in [Cleanings -> CleaningRow]
        /\ \A c \in Cleanings :
              (\E a \in Assignments : assignment[a].status # "none"
                                     /\ assignment[a].rack = cleaning[c].rack)
              => cleaning'[c].exists = cleaning[c].exists /\ cleaning'[c].rack = cleaning[c].rack
    <2>1. CASE \E r \in Racks, n \in RackNames : CreateRack(r, n) \/ UpdateRack(r, n)
      BY <2>1 DEF CreateRack, UpdateRack, RacksInv, RacksTypeOK
    <2>2. CASE \E r \in Racks : DeleteRack(r)
      <3> PICK r \in Racks : DeleteRack(r)
        BY <2>2
      <3>1. NotCleaned \in CleaningRow
        BY DEF NotCleaned, CleaningRow
      <3>2. /\ cleaning' = [c \in Cleanings |->
                  IF cleaning[c].rack = r THEN NotCleaned ELSE cleaning[c]]
            /\ \A a \in Assignments : assignment[a].status # "none" => assignment[a].rack # r
            /\ UNCHANGED <<assignment, rackHandler, crossed>>
        BY DEF DeleteRack
      <3> QED  BY <3>1, <3>2 DEF RacksInv, RacksTypeOK
    <2>3. CASE \E c \in Cleanings : RateCleaning(c)
      <3> PICK c \in Cleanings : RateCleaning(c)
        BY <2>3
      <3>1. /\ cleaning' = [cleaning EXCEPT ![c].rated = TRUE]
            /\ UNCHANGED <<assignment, rackHandler, crossed>>
        BY DEF RateCleaning
      <3> QED  BY <3>1 DEF RacksInv, RacksTypeOK, CleaningRow
    <2> QED  BY <2>1, <2>2, <2>3
  <1>2. LogsKept'
    BY <1>1 DEF RacksInv, RacksTypeOK, AssignmentRow, Logs, LogsKept
  <1> QED
    BY <1>1, <1>2 DEF RacksInv, RacksTypeOK, SeenOpen, OneOpenAssignment, Open, Found, Logs,
                      LogsApart, CompletedIsLogged

LEMMA RacksStep == RacksInv /\ [RacksNext]_racksVars => RacksInv'
  <1> SUFFICES ASSUME RacksInv, [RacksNext]_racksVars PROVE RacksInv'
    OBVIOUS
  <1>1. CASE \/ \E r \in Racks :
                  \/ \E n \in RackNames : CreateRack(r, n) \/ UpdateRack(r, n)
                  \/ DeleteRack(r)
             \/ \E c \in Cleanings : RateCleaning(c)
    BY <1>1, RackRowsKeep
  <1>2. CASE \E h \in RackHandlers, r \in Racks : CancelPending(h, r)
    BY <1>2, CancelPendingKeeps
  <1>3. CASE \E h \in RackHandlers, r \in Racks : FindOpen(h, r)
    BY <1>3, FindOpenKeeps
  <1>4. CASE \E h \in RackHandlers, a \in Assignments : AssignRack(h, a)
    BY <1>4, AssignRackKeeps
  <1>5. CASE \E h \in RackHandlers, c \in Cleanings : Clean(h, c)
    BY <1>5, CleanKeeps
  <1>6. CASE \E h \in RackHandlers : TellAssignee(h) \/ RackHandlerDies(h)
    BY <1>6, RackHandlerStops DEF TellAssignee, RackHandlerDies
  <1>7. CASE \E a \in Assignments : CancelAssignment(a)
    BY <1>7, CancelAssignmentKeeps
  <1>8. CASE UNCHANGED racksVars
    BY <1>8 DEF racksVars, RacksInv, RacksTypeOK, SeenOpen, OneOpenAssignment, Open, Found,
                Logs, LogsKept, LogsApart, CompletedIsLogged
  <1> QED
    BY <1>1, <1>2, <1>3, <1>4, <1>5, <1>6, <1>7, <1>8 DEF RacksNext

(* What holds of RacksService in every state: types, what its handlers     *)
(* have seen, one open assignment a rack, and logs that stay where they    *)
(* belong.                                                                 *)
THEOREM RacksInvariant == RacksSpec => []RacksInv
  <1> QED  BY RacksInitially, RacksStep, PTL DEF RacksSpec

(* One assignment of a rack is open, unless two assignRack crossed and no  *)
(* undisturbed one came after.                                             *)
THEOREM RacksHaveOneAssignment == RacksSpec => []OneOpenAssignment
  <1> QED  BY RacksInvariant, PTL DEF RacksInv

(* A completed assignment has its own log of its own rack, though clean    *)
(* writes it by id over whatever it has become.                            *)
THEOREM CompletedWasCleaned == RacksSpec => []CompletedHasItsCleaning
  <1> QED  BY RacksInvariant, CompletedFromLogs, PTL

-----------------------------------------------------------------------------
(***************************************************************************)
(* The roster.  That it names shifts that exist is inductive by itself;    *)
(* what an unassign may take off needs that it knows when it was overtaken.*)
(***************************************************************************)
PlannerState ==
    [pc : {"rest", "delete", "assign", "unassign", "tell"}, shift : Shifts \cup {None},
     day : Days \cup {None}, task : Tasks \cup {None}, overtaken : BOOLEAN]

RotaTypeOK ==
    /\ shiftName \in [Shifts -> ShiftNames \cup {None}]
    /\ roster \in [Days -> Shifts \cup {None}]
    /\ planner \in [Planners -> PlannerState]
    /\ \A k \in Planners : planner[k].pc = "assign" =>
            planner[k].shift \in Shifts /\ planner[k].day \in Days

(* What an unassign that was not overtaken has read is on the roster.      *)
ReadOrOvertaken ==
    \A k \in Planners : planner[k].pc = "unassign" /\ ~planner[k].overtaken =>
        planner[k].shift = roster[planner[k].day]

RotaInv == RotaTypeOK /\ RosteredShiftExists /\ ReadOrOvertaken

LEMMA RotaInitially == RotaInit => RotaInv
  BY DEF RotaInit, RotaInv, RotaTypeOK, RosteredShiftExists, ReadOrOvertaken, Unoccupied,
         PlannerState

LEMMA UnoccupiedIsOne == Unoccupied \in PlannerState /\ Unoccupied.pc = "rest"
  BY DEF Unoccupied, PlannerState

(* A handler that begins or stops writes nothing. *)
LEMMA PlannerAlone ==
    ASSUME RotaInv, NEW k \in Planners, NEW p \in PlannerState,
           planner' = [planner EXCEPT ![k] = p], UNCHANGED <<shiftName, roster>>,
           p.pc = "assign" => p.shift \in Shifts /\ p.day \in Days,
           p.pc = "unassign" => p.shift = roster[p.day]
    PROVE  RotaInv'
  <1>1. RotaTypeOK'
    BY DEF RotaInv, RotaTypeOK
  <1>2. ReadOrOvertaken'
    BY DEF RotaInv, RotaTypeOK, ReadOrOvertaken
  <1> QED  BY <1>1, <1>2 DEF RotaInv, RosteredShiftExists, Exists

LEMMA ShiftRowsKeep ==
    ASSUME RotaInv, NEW s \in Shifts, NEW n \in ShiftNames, CreateShift(s, n) \/ UpdateShift(s, n)
    PROVE  RotaInv'
  BY RotaAssumption DEF CreateShift, UpdateShift, RotaInv, RotaTypeOK, RosteredShiftExists,
                        ReadOrOvertaken, Exists

(* Whoever is rostered holds the shift back. *)
LEMMA DeleteShiftKeeps ==
    ASSUME RotaInv, NEW k \in Planners, DeleteShift(k)
    PROVE  RotaInv'
  <1> DEFINE s == planner[k].shift
  <1>1. /\ shiftName' = IF InUse(s) THEN shiftName ELSE [shiftName EXCEPT ![s] = None]
        /\ planner' = [planner EXCEPT ![k] = Unoccupied]
        /\ roster' = roster
    BY DEF DeleteShift
  <1>2. RotaTypeOK' /\ ReadOrOvertaken'
    BY <1>1, UnoccupiedIsOne DEF RotaInv, RotaTypeOK, ReadOrOvertaken
  <1>3. RosteredShiftExists'
    BY <1>1 DEF RotaInv, RotaTypeOK, RosteredShiftExists, Exists, InUse
  <1> QED  BY <1>2, <1>3 DEF RotaInv

LEMMA AssignShiftKeeps ==
    ASSUME RotaInv, NEW k \in Planners, AssignShift(k)
    PROVE  RotaInv'
  <1> DEFINE d == planner[k].day
             s == planner[k].shift
  <1>1. /\ planner[k].pc = "assign" /\ Exists(s)
        /\ roster' = [roster EXCEPT ![d] = s]
        /\ planner' = [j \in Planners |->
              IF j = k THEN Unoccupied
              ELSE IF planner[j].pc = "unassign" /\ planner[j].day = d
              THEN [planner[j] EXCEPT !.overtaken = TRUE]
              ELSE planner[j]]
        /\ shiftName' = shiftName
    BY DEF AssignShift, End
  <1>2. d \in Days /\ s \in Shifts
    BY <1>1 DEF RotaInv, RotaTypeOK
  <1>3. \A p \in PlannerState : [p EXCEPT !.overtaken = TRUE] \in PlannerState
    BY DEF PlannerState
  <1>4. RotaTypeOK'
    <2>1. planner' \in [Planners -> PlannerState]
      BY <1>1, <1>3, UnoccupiedIsOne DEF RotaInv, RotaTypeOK
    <2>2. \A j \in Planners : planner'[j].pc = "assign" => planner'[j] = planner[j]
      BY <1>1, UnoccupiedIsOne DEF RotaInv, RotaTypeOK, PlannerState
    <2> QED  BY <1>1, <1>2, <2>1, <2>2 DEF RotaInv, RotaTypeOK
  <1>5. RosteredShiftExists'
    BY <1>1, <1>2 DEF RotaInv, RotaTypeOK, RosteredShiftExists, Exists
  <1>6. ReadOrOvertaken'
    <2> SUFFICES ASSUME NEW j \in Planners,
                        planner'[j].pc = "unassign", ~planner'[j].overtaken
                 PROVE  planner'[j].shift = roster'[planner'[j].day]
      BY DEF ReadOrOvertaken
    <2>1. planner'[j] = planner[j] /\ planner[j].day # d
      BY <1>1, UnoccupiedIsOne DEF RotaInv, RotaTypeOK, PlannerState
    <2>2. roster'[planner[j].day] = roster[planner[j].day]
      BY <1>1, <2>1 DEF RotaInv, RotaTypeOK
    <2> QED  BY <2>1, <2>2 DEF RotaInv, ReadOrOvertaken
  <1> QED  BY <1>4, <1>5, <1>6 DEF RotaInv

LEMMA UnassignKeeps ==
    ASSUME RotaInv, NEW k \in Planners, Unassign(k)
    PROVE  RotaInv'
  <1> DEFINE d == planner[k].day
  <1>1. /\ roster' = [roster EXCEPT ![d] = None]
        /\ planner' = [j \in Planners |->
              IF j = k \/ (planner[j].pc = "unassign" /\ planner[j].day = d)
              THEN Unoccupied ELSE planner[j]]
        /\ shiftName' = shiftName
    BY DEF Unassign
  <1>2. RotaTypeOK'
    BY <1>1, UnoccupiedIsOne DEF RotaInv, RotaTypeOK
  <1>3. RosteredShiftExists'
    BY <1>1 DEF RotaInv, RotaTypeOK, RosteredShiftExists, Exists
  <1>4. ReadOrOvertaken'
    BY <1>1, UnoccupiedIsOne DEF RotaInv, RotaTypeOK, ReadOrOvertaken
  <1> QED  BY <1>2, <1>3, <1>4 DEF RotaInv

LEMMA PlannersKeep ==
    ASSUME RotaInv, NEW k \in Planners,
           \/ \E s \in Shifts : CountInUse(k, s) \/ (\E d \in Days : FindShift(k, s, d))
           \/ \E d \in Days : FindEntry(k, d)
           \/ \E t \in Tasks, m \in Rostered : AssignTask(k, t, m)
           \/ TellTask(k) \/ PlannerDies(k)
    PROVE  RotaInv'
  <1>1. CASE \E s \in Shifts : CountInUse(k, s)
    BY <1>1, PlannerAlone DEF CountInUse, Begin, Unoccupied, PlannerState
  <1>2. CASE \E s \in Shifts, d \in Days : FindShift(k, s, d)
    BY <1>2, PlannerAlone DEF FindShift, Begin, Unoccupied, PlannerState
  <1>3. CASE \E d \in Days : FindEntry(k, d)
    <2> PICK d \in Days : FindEntry(k, d)
      BY <1>3
    <2> DEFINE p == [Unoccupied EXCEPT !.pc = "unassign", !.shift = roster[d], !.day = d]
    <2>1. p \in PlannerState /\ p.pc = "unassign" /\ p.shift = roster[d] /\ p.day = d
      BY DEF RotaInv, RotaTypeOK, Unoccupied, PlannerState
    <2>2. planner' = [planner EXCEPT ![k] = p] /\ UNCHANGED <<shiftName, roster>>
      BY DEF FindEntry, Begin
    <2> QED  BY <2>1, <2>2, PlannerAlone
  <1>4. CASE \E t \in Tasks, m \in Rostered : AssignTask(k, t, m)
    BY <1>4, PlannerAlone DEF AssignTask, Begin, Unoccupied, PlannerState
  <1>5. CASE TellTask(k) \/ PlannerDies(k)
    BY <1>5, UnoccupiedIsOne, PlannerAlone DEF TellTask, PlannerDies
  <1> QED  BY <1>1, <1>2, <1>3, <1>4, <1>5

LEMMA RotaStep == RotaInv /\ [RotaNext]_rotaVars => RotaInv'
  <1> SUFFICES ASSUME RotaInv, [RotaNext]_rotaVars PROVE RotaInv'
    OBVIOUS
  <1>1. CASE \E s \in Shifts, n \in ShiftNames : CreateShift(s, n) \/ UpdateShift(s, n)
    BY <1>1, ShiftRowsKeep
  <1>2. CASE \E k \in Planners : DeleteShift(k)
    BY <1>2, DeleteShiftKeeps
  <1>3. CASE \E k \in Planners : AssignShift(k)
    BY <1>3, AssignShiftKeeps
  <1>4. CASE \E k \in Planners : Unassign(k)
    BY <1>4, UnassignKeeps
  <1>5. CASE \E k \in Planners :
                \/ \E s \in Shifts : CountInUse(k, s) \/ (\E d \in Days : FindShift(k, s, d))
                \/ \E d \in Days : FindEntry(k, d)
                \/ \E t \in Tasks, m \in Rostered : AssignTask(k, t, m)
                \/ TellTask(k) \/ PlannerDies(k)
    BY <1>5, PlannersKeep
  <1>6. CASE \/ \E t \in Tasks : RemoveTask(t) \/ \E status \in TaskStatuses : UpdateTask(t, status)
             \/ UNCHANGED rotaVars
    <2>1. UNCHANGED <<shiftName, roster, planner>>
      BY <1>6 DEF RemoveTask, UpdateTask, rotaVars
    <2> QED  BY <2>1 DEF RotaInv, RotaTypeOK, RosteredShiftExists, ReadOrOvertaken, Exists
  <1> QED
    BY <1>1, <1>2, <1>3, <1>4, <1>5, <1>6 DEF RotaNext, ShiftsNext, TasksNext

(* Only unassign empties a day. *)
LEMMA WhoEmptiesADay ==
    ASSUME RotaInv, [RotaNext]_rotaVars, NEW d \in Days, roster[d] # None, roster'[d] = None
    PROVE  \E k \in Planners :
                /\ planner[k].pc = "unassign" /\ planner[k].day = d
                /\ planner[k].shift = roster[d] \/ planner[k].overtaken
  <1>1. PICK k \in Planners : AssignShift(k) \/ Unassign(k)
    BY DEF RotaNext, ShiftsNext, TasksNext, rotaVars, CreateShift, UpdateShift, CountInUse,
           FindShift, DeleteShift, FindEntry, AssignTask, UpdateTask, RemoveTask, TellTask,
           PlannerDies
  <1>2. ~AssignShift(k)
    BY RotaAssumption DEF AssignShift, RotaInv, RotaTypeOK
  <1>3. planner[k].pc = "unassign" /\ planner[k].day = d
    BY <1>1, <1>2 DEF Unassign, RotaInv, RotaTypeOK
  <1> QED  BY <1>3 DEF RotaInv, RotaTypeOK, ReadOrOvertaken, PlannerState

(* What holds of ShiftsService in every state: types, shifts that exist,   *)
(* and what an unassign has read.                                          *)
THEOREM RotaInvariant == RotaSpec => []RotaInv
  <1> QED  BY RotaInitially, RotaStep, PTL DEF RotaSpec

(* Nobody is on the roster for a shift that is gone: deleteShift blocks    *)
(* rather than cascades, whatever is rostered after it has counted.        *)
THEOREM RosterNamesShifts == RotaSpec => []RosteredShiftExists
  <1> QED  BY RotaInvariant, PTL DEF RotaInv

(* Nobody is taken off the roster but by an unassign of that day, of what  *)
(* it read or of what was rostered under it.                               *)
THEOREM RosterIsEmptiedByUnassign == RotaSpec => OnlyUnassignEmptiesADay
  <1>1. RotaInv /\ [RotaNext]_rotaVars =>
            [\A d \in Days :
                roster[d] # None /\ roster'[d] = None =>
                    \E k \in Planners :
                        /\ planner[k].pc = "unassign" /\ planner[k].day = d
                        /\ planner[k].shift = roster[d] \/ planner[k].overtaken]_rotaVars
    BY WhoEmptiesADay
  <1> QED  BY <1>1, RotaInvariant, PTL DEF RotaSpec, OnlyUnassignEmptiesADay

-----------------------------------------------------------------------------
(***************************************************************************)
(* The safety of deliveries and bills for any number of them and of clerks *)
(* at work: one bill for what was delivered, and paid bills stay paid.     *)
(*                                                                         *)
(* Both rest on what a handler knows when it writes: a receive that found  *)
(* nothing and was not overtaken is right (NothingOwed), and one that      *)
(* enters a bill since paid knows that it was overtaken (PaidIsNoticed).   *)
(***************************************************************************)

BillRow ==
    [status : {"none", "draft", "pending", "paid"}, vendor : Vendors \cup {None},
     number : BillNumbers \cup {None}, drafted : BOOLEAN, rated : BOOLEAN, late : BOOLEAN]

ClerkState ==
    [pc : {"rest", "receive", "enter"}, vendor : Vendors \cup {None},
     number : BillNumbers \cup {None}, bill : Bills \cup {None},
     found : BOOLEAN, overtaken : BOOLEAN]

PurchasingTypeOK ==
    /\ bill \in [Bills -> BillRow]
    /\ clerk \in [Clerks -> ClerkState]
    /\ \A k \in Clerks : clerk[k].pc = "enter" =>
            clerk[k].bill \in Bills /\ bill[clerk[k].bill].status # "none"

(* Drafted by a delivery, still to be paid, and by no race.                *)
Owing(b) == bill[b].status \in {"draft", "pending"} /\ bill[b].drafted /\ ~bill[b].late

NothingOwed ==
    \A k \in Clerks :
        clerk[k].pc = "receive" /\ clerk[k].number # None
        /\ ~clerk[k].found /\ ~clerk[k].overtaken =>
            \A b \in Bills :
                Owing(b) => ~(bill[b].vendor = clerk[k].vendor /\ bill[b].number = clerk[k].number)

PaidIsNoticed ==
    \A k \in Clerks :
        clerk[k].pc = "enter" /\ bill[clerk[k].bill].status = "paid" => clerk[k].overtaken

OneOwing ==
    \A a, b \in Bills :
        Owing(a) /\ Owing(b) /\ bill[a].vendor = bill[b].vendor /\ bill[a].number = bill[b].number
        => a = b

PurchasingInv == PurchasingTypeOK /\ NothingOwed /\ PaidIsNoticed /\ OneOwing

LEMMA OneOwingSuffices == OneOwing => OneBillPerDelivery
  BY DEF OneOwing, Owing, OneBillPerDelivery

LEMMA IdleIsOne == Idle \in ClerkState /\ Idle.pc = "rest"
  BY DEF Idle, ClerkState

LEMMA PurchasingInitially == PurchasingInit => PurchasingInv
  <1> SUFFICES ASSUME PurchasingInit PROVE PurchasingInv
    OBVIOUS
  <1>1. PurchasingTypeOK
    BY IdleIsOne DEF PurchasingInit, PurchasingTypeOK, NoBill, BillRow
  <1>2. NothingOwed /\ PaidIsNoticed
    BY IdleIsOne DEF PurchasingInit, NothingOwed, PaidIsNoticed
  <1>3. OneOwing
    BY DEF PurchasingInit, OneOwing, Owing, NoBill
  <1> QED  BY <1>1, <1>2, <1>3 DEF PurchasingInv

(* Bills that change without becoming owed, to others or in another place, *)
(* disturb nobody.                                                         *)
LEMMA BillsShrink ==
    ASSUME PurchasingInv, bill' \in [Bills -> BillRow], PurchasingTypeOK', PaidIsNoticed',
           \A b \in Bills : Owing(b)' => /\ Owing(b)
                                         /\ bill'[b].vendor = bill[b].vendor
                                         /\ bill'[b].number = bill[b].number,
           \A k \in Clerks :
               clerk'[k].pc = "receive" =>
                    /\ clerk[k].pc = "receive"
                    /\ clerk'[k].vendor = clerk[k].vendor /\ clerk'[k].number = clerk[k].number
                    /\ clerk'[k].found = clerk[k].found
                    /\ clerk[k].overtaken => clerk'[k].overtaken
    PROVE  PurchasingInv'
  <1>1. NothingOwed'
    <2> SUFFICES ASSUME NEW k \in Clerks,
                        clerk'[k].pc = "receive", clerk'[k].number # None,
                        ~clerk'[k].found, ~clerk'[k].overtaken,
                        NEW b \in Bills, Owing(b)'
                 PROVE  ~(bill'[b].vendor = clerk'[k].vendor /\ bill'[b].number = clerk'[k].number)
      BY DEF NothingOwed
    <2> QED  BY DEF PurchasingInv, NothingOwed
  <1>2. OneOwing'
    <2> SUFFICES ASSUME NEW a \in Bills, NEW b \in Bills, Owing(a)', Owing(b)',
                        bill'[a].vendor = bill'[b].vendor, bill'[a].number = bill'[b].number
                 PROVE  a = b
      BY DEF OneOwing
    <2> QED  BY DEF PurchasingInv, OneOwing
  <1> QED  BY <1>1, <1>2 DEF PurchasingInv

LEMMA LookKeeps ==
    ASSUME PurchasingInv, NEW k \in Clerks, NEW v \in Vendors, NEW n \in BillNumbers \cup {None},
           LookForBill(k, v, n)
    PROVE  PurchasingInv'
  <1> DEFINE w == [Idle EXCEPT !.pc = "receive", !.vendor = v, !.number = n,
                               !.found = n # None /\ Unpaid(v, n) # {}]
  <1>1. clerk' = [clerk EXCEPT ![k] = w] /\ bill' = bill
    BY DEF LookForBill
  <1>2. /\ w.pc = "receive" /\ w.vendor = v /\ w.number = n
        /\ w.found = (n # None /\ Unpaid(v, n) # {})
    BY DEF Idle
  <1>3. w \in ClerkState
    <2>1. (n # None /\ Unpaid(v, n) # {}) \in BOOLEAN
      OBVIOUS
    <2> QED  BY <2>1 DEF Idle, ClerkState
  <1> HIDE DEF w
  <1>4. PurchasingTypeOK'
    BY <1>1, <1>2, <1>3 DEF PurchasingInv, PurchasingTypeOK
  <1>5. NothingOwed'
    <2> SUFFICES ASSUME NEW j \in Clerks,
                        clerk'[j].pc = "receive", clerk'[j].number # None,
                        ~clerk'[j].found, ~clerk'[j].overtaken,
                        NEW b \in Bills, Owing(b)
                 PROVE  ~(bill[b].vendor = clerk'[j].vendor /\ bill[b].number = clerk'[j].number)
      BY <1>1 DEF NothingOwed, Owing
    <2>1. CASE j = k
      <3>1. clerk'[j] = w
        BY <1>1, <2>1 DEF PurchasingInv, PurchasingTypeOK
      <3>2. Unpaid(v, n) = {}
        BY <1>2, <3>1
      <3> QED  BY <1>2, <3>1, <3>2 DEF Unpaid, Owing
    <2>2. CASE j # k
      BY <1>1, <2>2 DEF PurchasingInv, PurchasingTypeOK, NothingOwed
    <2> QED  BY <2>1, <2>2
  <1>6. PaidIsNoticed' /\ OneOwing'
    BY <1>1, <1>2 DEF PurchasingInv, PurchasingTypeOK, PaidIsNoticed, OneOwing, Owing
  <1> QED  BY <1>4, <1>5, <1>6 DEF PurchasingInv

(* The draft of clerk k for what v delivered as n, in row x.               *)
Drafting(k, x, v, n) ==
    /\ clerk[k].pc = "receive" /\ ~clerk[k].found
    /\ clerk[k].vendor = v /\ clerk[k].number = n
    /\ bill[x].status = "none"
    /\ bill' = [bill EXCEPT ![x] =
            [NoBill EXCEPT !.status = "draft", !.vendor = v, !.number = n,
                           !.drafted = TRUE, !.late = clerk[k].overtaken]]
    /\ clerk' = [j \in Clerks |->
            IF j = k THEN Idle
            ELSE IF clerk[j].pc = "receive" /\ clerk[j].vendor = v /\ clerk[j].number = n
            THEN [clerk[j] EXCEPT !.overtaken = TRUE]
            ELSE clerk[j]]

(* It is owed only if nothing was when it was looked for, nor since.       *)
LEMMA DraftKeeps ==
    ASSUME PurchasingInv, NEW k \in Clerks, NEW x \in Bills, NEW v \in Vendors \cup {None},
           NEW n \in BillNumbers, Drafting(k, x, v, n)
    PROVE  PurchasingInv'
  <1> USE DEF Drafting
  <1>0. n # None
    BY PurchasingAssumption
  <1> DEFINE new == [NoBill EXCEPT !.status = "draft", !.vendor = v, !.number = n,
                                   !.drafted = TRUE, !.late = clerk[k].overtaken]
  <1>1. /\ new \in BillRow
        /\ new.status = "draft" /\ new.vendor = v /\ new.number = n
        /\ new.late = clerk[k].overtaken
    BY DEF NoBill, BillRow, PurchasingInv, PurchasingTypeOK, ClerkState
  <1>2. bill'[x] = new /\ \A b \in Bills \ {x} : bill'[b] = bill[b]
    BY DEF PurchasingInv, PurchasingTypeOK
  <1> HIDE DEF new
  <1>3. PurchasingTypeOK'
    <2>1. bill' \in [Bills -> BillRow]
      BY <1>1 DEF PurchasingInv, PurchasingTypeOK, new
    <2>2. \A w \in ClerkState : [w EXCEPT !.overtaken = TRUE] \in ClerkState
      BY DEF ClerkState
    <2>3. clerk' \in [Clerks -> ClerkState]
      BY <2>2, IdleIsOne DEF PurchasingInv, PurchasingTypeOK
    <2>4. \A j \in Clerks : clerk'[j].pc = "enter" => clerk'[j] = clerk[j]
      BY IdleIsOne DEF PurchasingInv, PurchasingTypeOK, ClerkState
    <2>5. \A b \in Bills : bill[b].status # "none" => bill'[b].status # "none"
      BY <1>2
    <2> QED  BY <2>1, <2>3, <2>4, <2>5 DEF PurchasingInv, PurchasingTypeOK
  <1>4. NothingOwed'
    <2> SUFFICES ASSUME NEW j \in Clerks,
                        clerk'[j].pc = "receive", clerk'[j].number # None,
                        ~clerk'[j].found, ~clerk'[j].overtaken,
                        NEW b \in Bills, Owing(b)'
                 PROVE  ~(bill'[b].vendor = clerk'[j].vendor /\ bill'[b].number = clerk'[j].number)
      BY DEF NothingOwed
    <2>1. clerk'[j] = clerk[j] /\ ~(clerk[j].vendor = v /\ clerk[j].number = n)
      BY IdleIsOne DEF PurchasingInv, PurchasingTypeOK, ClerkState
    <2>2. CASE b = x
      BY <1>1, <1>2, <2>1, <2>2
    <2>3. CASE b # x
      <3>1. bill'[b] = bill[b] /\ Owing(b)
        BY <1>2, <2>3 DEF Owing
      <3> QED  BY <2>1, <3>1 DEF PurchasingInv, NothingOwed
    <2> QED  BY <2>2, <2>3
  <1>5. PaidIsNoticed'
    <2> SUFFICES ASSUME NEW j \in Clerks, clerk'[j].pc = "enter",
                        bill'[clerk'[j].bill].status = "paid"
                 PROVE  clerk'[j].overtaken
      BY DEF PaidIsNoticed
    <2>1. clerk'[j] = clerk[j] /\ clerk[j].bill \in Bills
      BY IdleIsOne DEF PurchasingInv, PurchasingTypeOK, ClerkState
    <2>2. clerk[j].bill # x
      BY <1>1, <1>2, <2>1
    <2> QED  BY <1>2, <2>1, <2>2 DEF PurchasingInv, PaidIsNoticed
  <1>6. OneOwing'
    <2>1. \A b \in Bills \ {x} : Owing(b)' => Owing(b)
      BY <1>2 DEF Owing
    <2>2. ~clerk[k].overtaken => \A b \in Bills : Owing(b) =>
              ~(bill[b].vendor = v /\ bill[b].number = n)
      BY <1>0 DEF PurchasingInv, NothingOwed
    <2>3. Owing(x)' => ~clerk[k].overtaken
      BY <1>1, <1>2 DEF Owing
    <2>4. \A b \in Bills \ {x} : Owing(x)' /\ Owing(b)' =>
              ~(bill'[b].vendor = v /\ bill'[b].number = n)
      BY <1>2, <2>1, <2>2, <2>3
    <2> SUFFICES ASSUME NEW a \in Bills, NEW b \in Bills, Owing(a)', Owing(b)',
                        bill'[a].vendor = bill'[b].vendor, bill'[a].number = bill'[b].number
                 PROVE  a = b
      BY DEF OneOwing
    <2>5. CASE a = x \/ b = x
      BY <1>1, <1>2, <2>4, <2>5
    <2>6. CASE a # x /\ b # x
      BY <1>2, <2>1, <2>6 DEF PurchasingInv, OneOwing
    <2> QED  BY <2>5, <2>6
  <1> QED  BY <1>3, <1>4, <1>5, <1>6 DEF PurchasingInv

LEMMA ReceiveKeeps ==
    ASSUME PurchasingInv, NEW k \in Clerks, NEW l \in Receipts, NEW p \in Products \cup {None},
           Receive(k, l, p)
    PROVE  PurchasingInv'
  <1>1. clerk[k].pc = "receive" /\ clerk[k] \in ClerkState
    BY DEF Receive, PurchasingInv, PurchasingTypeOK
  <1>2. CASE clerk[k].found \/ clerk[k].number = None
    <2>1. clerk' = [clerk EXCEPT ![k] = Idle] /\ bill' = bill
      BY <1>2 DEF Receive
    <2> QED
      BY <2>1, IdleIsOne DEF PurchasingInv, PurchasingTypeOK, NothingOwed, PaidIsNoticed,
                             OneOwing, Owing
  <1>3. CASE ~clerk[k].found /\ clerk[k].number # None
    <2> PICK v \in Vendors \cup {None}, n \in BillNumbers :
            clerk[k].vendor = v /\ clerk[k].number = n
      BY <1>1, <1>3 DEF ClerkState
    <2>1. \E x \in Bills : Drafting(k, x, v, n)
      BY <1>1, <1>3 DEF Receive, Drafting
    <2> QED  BY <2>1, DraftKeeps
  <1> QED  BY <1>2, <1>3

LEMMA CreateBillKeeps ==
    ASSUME PurchasingInv, NEW x \in Bills, NEW v \in Vendors, NEW n \in BillNumbers \cup {None},
           CreateBill(x, v, n)
    PROVE  PurchasingInv'
  <1> DEFINE new == [NoBill EXCEPT !.status = "pending", !.vendor = v, !.number = n]
  <1>1. bill' = [bill EXCEPT ![x] = new] /\ clerk' = clerk
    BY DEF CreateBill
  <1>2. new \in BillRow /\ new.status = "pending" /\ ~new.drafted
    BY DEF NoBill, BillRow
  <1> HIDE DEF new
  <1>3. PurchasingTypeOK' /\ bill' \in [Bills -> BillRow]
    BY <1>1, <1>2 DEF PurchasingInv, PurchasingTypeOK
  <1>4. PaidIsNoticed'
    BY <1>1, <1>2 DEF PurchasingInv, PurchasingTypeOK, PaidIsNoticed
  <1>5. \A b \in Bills : Owing(b)' => Owing(b) /\ bill'[b] = bill[b]
    BY <1>1, <1>2 DEF PurchasingInv, PurchasingTypeOK, Owing
  <1> QED  BY <1>1, <1>3, <1>4, <1>5, BillsShrink

LEMMA ReadDraftKeeps ==
    ASSUME PurchasingInv, NEW k \in Clerks, NEW b \in Bills, ReadDraft(k, b)
    PROVE  PurchasingInv'
  <1> DEFINE w == [Idle EXCEPT !.pc = "enter", !.bill = b]
  <1>1. clerk' = [clerk EXCEPT ![k] = w] /\ bill' = bill /\ bill[b].status = "draft"
    BY DEF ReadDraft
  <1>2. w \in ClerkState /\ w.pc = "enter" /\ w.bill = b
    BY DEF Idle, ClerkState
  <1> HIDE DEF w
  <1> QED
    BY <1>1, <1>2 DEF PurchasingInv, PurchasingTypeOK, NothingOwed, PaidIsNoticed, OneOwing, Owing

(* A bill that was paid is late from now on. *)
LEMMA MarkEnteredKeeps ==
    ASSUME PurchasingInv, NEW k \in Clerks, MarkEntered(k)
    PROVE  PurchasingInv'
  <1>0. clerk[k].pc = "enter" /\ clerk[k].bill \in Bills
    BY DEF MarkEntered, PurchasingInv, PurchasingTypeOK
  <1> PICK x \in Bills : clerk[k].bill = x
    BY <1>0
  <1>1. /\ bill' = [bill EXCEPT ![x].status = "pending",
                                ![x].late = @ \/ bill[x].status = "paid"]
        /\ clerk' = [clerk EXCEPT ![k] = Idle]
    BY DEF MarkEntered
  <1>2. bill[x] \in BillRow
    BY DEF PurchasingInv, PurchasingTypeOK
  <1> DEFINE new == [bill[x] EXCEPT !.status = "pending",
                                    !.late = bill[x].late \/ bill[x].status = "paid"]
  <1>3. /\ new \in BillRow /\ new.status = "pending"
        /\ new.vendor = bill[x].vendor /\ new.number = bill[x].number
        /\ new.drafted = bill[x].drafted
        /\ new.late = (bill[x].late \/ bill[x].status = "paid")
    BY <1>2 DEF BillRow
  <1>4. bill' = [bill EXCEPT ![x] = new]
    BY <1>1, <1>2 DEF PurchasingInv, PurchasingTypeOK, BillRow
  <1> HIDE DEF new
  <1>5. PurchasingTypeOK' /\ bill' \in [Bills -> BillRow]
    BY <1>1, <1>3, <1>4, IdleIsOne DEF PurchasingInv, PurchasingTypeOK
  <1>6. PaidIsNoticed'
    BY <1>1, <1>3, <1>4, IdleIsOne DEF PurchasingInv, PurchasingTypeOK, PaidIsNoticed
  <1>7. bill'[x] = new /\ \A b \in Bills \ {x} : bill'[b] = bill[b]
    BY <1>4 DEF PurchasingInv, PurchasingTypeOK
  <1>8. \A b \in Bills : Owing(b)' => /\ Owing(b)
                                     /\ bill'[b].vendor = bill[b].vendor
                                     /\ bill'[b].number = bill[b].number
    <2>1. bill[x].status # "none"
      BY <1>0 DEF PurchasingInv, PurchasingTypeOK
    <2>2. Owing(x)' => Owing(x)
      BY <1>2, <1>3, <1>7, <2>1 DEF Owing, BillRow
    <2> QED  BY <1>3, <1>7, <2>2 DEF Owing
  <1>9. \A j \in Clerks : clerk'[j].pc = "receive" => clerk'[j] = clerk[j]
    BY <1>1, IdleIsOne DEF PurchasingInv, PurchasingTypeOK
  <1> QED  BY <1>5, <1>6, <1>8, <1>9, BillsShrink

LEMMA MarkPaidKeeps ==
    ASSUME PurchasingInv, NEW x \in Bills, MarkPaid(x)
    PROVE  PurchasingInv'
  <1>1. /\ bill' = [bill EXCEPT ![x].status = "paid"]
        /\ clerk' = [k \in Clerks |->
              IF clerk[k].bill = x /\ bill[x].status # "paid"
              THEN [clerk[k] EXCEPT !.overtaken = TRUE] ELSE clerk[k]]
    BY DEF MarkPaid
  <1>2. /\ bill' \in [Bills -> BillRow]
        /\ bill'[x].status = "paid"
        /\ \A b \in Bills \ {x} : bill'[b] = bill[b]
    BY <1>1 DEF PurchasingInv, PurchasingTypeOK, BillRow
  <1>3. \A k \in Clerks :
            /\ clerk'[k] \in ClerkState
            /\ clerk'[k].pc = clerk[k].pc /\ clerk'[k].bill = clerk[k].bill
            /\ clerk'[k].vendor = clerk[k].vendor /\ clerk'[k].number = clerk[k].number
            /\ clerk'[k].found = clerk[k].found
            /\ clerk[k].overtaken => clerk'[k].overtaken
            /\ clerk[k].bill = x /\ bill[x].status # "paid" => clerk'[k].overtaken
    BY <1>1 DEF PurchasingInv, PurchasingTypeOK, ClerkState
  <1>4. PurchasingTypeOK'
    BY <1>1, <1>2, <1>3 DEF PurchasingInv, PurchasingTypeOK
  <1>5. PaidIsNoticed'
    BY <1>2, <1>3 DEF PurchasingInv, PurchasingTypeOK, PaidIsNoticed
  <1>6. \A b \in Bills : Owing(b)' => Owing(b) /\ bill'[b] = bill[b]
    BY <1>2 DEF Owing
  <1> QED  BY <1>2, <1>3, <1>4, <1>5, <1>6, BillsShrink

LEMMA RateBillKeeps ==
    ASSUME PurchasingInv, NEW x \in Bills, RateBill(x)
    PROVE  PurchasingInv'
  <1>1. bill' = [bill EXCEPT ![x].rated = TRUE] /\ clerk' = clerk
    BY DEF RateBill
  <1>2. /\ bill' \in [Bills -> BillRow]
        /\ \A b \in Bills :
              /\ bill'[b].status = bill[b].status /\ bill'[b].vendor = bill[b].vendor
              /\ bill'[b].number = bill[b].number /\ bill'[b].drafted = bill[b].drafted
              /\ bill'[b].late = bill[b].late
    BY <1>1 DEF PurchasingInv, PurchasingTypeOK, BillRow
  <1>3. PurchasingTypeOK' /\ PaidIsNoticed'
    BY <1>1, <1>2 DEF PurchasingInv, PurchasingTypeOK, PaidIsNoticed
  <1>4. \A b \in Bills : Owing(b)' => Owing(b)
    BY <1>2 DEF Owing
  <1> QED  BY <1>1, <1>2, <1>3, <1>4, BillsShrink

LEMMA ClerkDiesKeeps ==
    ASSUME PurchasingInv, NEW k \in Clerks, ClerkDies(k)
    PROVE  PurchasingInv'
  <1>1. clerk' = [clerk EXCEPT ![k] = Idle] /\ bill' = bill
    BY DEF ClerkDies
  <1> QED
    BY <1>1, IdleIsOne DEF PurchasingInv, PurchasingTypeOK, NothingOwed, PaidIsNoticed,
                           OneOwing, Owing

-----------------------------------------------------------------------------
LEMMA PurchasingStep == PurchasingInv /\ [PurchasingNext]_purchasingVars => PurchasingInv'
  <1> SUFFICES ASSUME PurchasingInv, [PurchasingNext]_purchasingVars PROVE PurchasingInv'
    OBVIOUS
  <1>1. CASE \E k \in Clerks, v \in Vendors, n \in BillNumbers \cup {None} : LookForBill(k, v, n)
    BY <1>1, LookKeeps
  <1>2. CASE \E k \in Clerks, l \in Receipts, p \in Products \cup {None} : Receive(k, l, p)
    BY <1>2, ReceiveKeeps
  <1>3. CASE \E b \in Bills, v \in Vendors, n \in BillNumbers \cup {None} : CreateBill(b, v, n)
    BY <1>3, CreateBillKeeps
  <1>4. CASE \E b \in Bills, k \in Clerks : ReadDraft(k, b)
    BY <1>4, ReadDraftKeeps
  <1>5. CASE \E b \in Bills : MarkPaid(b)
    BY <1>5, MarkPaidKeeps
  <1>6. CASE \E b \in Bills : RateBill(b)
    BY <1>6, RateBillKeeps
  <1>7. CASE \E k \in Clerks : MarkEntered(k)
    BY <1>7, MarkEnteredKeeps
  <1>8. CASE \E k \in Clerks : ClerkDies(k)
    BY <1>8, ClerkDiesKeeps
  <1>9. CASE \/ \E v \in Vendors : CreateVendor(v)
             \/ \E p \in Products : CreateProduct(p)
             \/ \E l \in Receipts :
                  \/ \E p \in Products \cup {None} : UpdateReceiptProduct(l, p)
                  \/ RateReceipt(l)
             \/ UNCHANGED purchasingVars
    <2>1. UNCHANGED <<bill, clerk>>
      BY <1>9 DEF CreateVendor, CreateProduct, UpdateReceiptProduct, RateReceipt, purchasingVars
    <2> QED
      BY <2>1 DEF PurchasingInv, PurchasingTypeOK, NothingOwed, PaidIsNoticed, OneOwing, Owing
  <1> QED
    BY <1>1, <1>2, <1>3, <1>4, <1>5, <1>6, <1>7, <1>8, <1>9
       DEF PurchasingNext, ReceivingNext, BillsNext

(* Only entering a bill makes it unpaid again. *)
LEMMA WhoUnpays ==
    ASSUME PurchasingInv, [PurchasingNext]_purchasingVars,
           NEW b \in Bills, bill[b].status = "paid", bill'[b].status # "paid"
    PROVE  \E k \in Clerks : clerk[k].pc = "enter" /\ clerk[k].bill = b /\ clerk[k].overtaken
  <1>1. \E k \in Clerks : MarkEntered(k)
    <2>1. ASSUME NEW k \in Clerks, NEW l \in Receipts, NEW p \in Products \cup {None},
                 Receive(k, l, p)
          PROVE  bill'[b] = bill[b]
      BY <2>1 DEF Receive, PurchasingInv, PurchasingTypeOK
    <2>2. ASSUME NEW x \in Bills, NEW v \in Vendors, NEW n \in BillNumbers \cup {None},
                 CreateBill(x, v, n)
          PROVE  bill'[b] = bill[b]
      BY <2>2 DEF CreateBill, PurchasingInv, PurchasingTypeOK
    <2>3. ASSUME NEW x \in Bills, MarkPaid(x) \/ RateBill(x)
          PROVE  bill'[b].status = "paid"
      BY <2>3 DEF MarkPaid, RateBill, PurchasingInv, PurchasingTypeOK, BillRow
    <2> QED
      BY <2>1, <2>2, <2>3 DEF PurchasingNext, ReceivingNext, BillsNext, purchasingVars,
         CreateVendor, CreateProduct, LookForBill, UpdateReceiptProduct, RateReceipt,
         ReadDraft, ClerkDies
  <1> PICK k \in Clerks : MarkEntered(k)
    BY <1>1
  <1>2. clerk[k].pc = "enter" /\ clerk[k].bill = b
    BY DEF MarkEntered, PurchasingInv, PurchasingTypeOK
  <1> QED  BY <1>2 DEF PurchasingInv, PaidIsNoticed

(* What holds of VendorsService and BillsService in every state: types,    *)
(* one bill owed for what was delivered, and what the handlers know.       *)
THEOREM PurchasingInvariant == PurchasingSpec => []PurchasingInv
  <1> QED  BY PurchasingInitially, PurchasingStep, PTL DEF PurchasingSpec

(* However many deliveries name a bill, receive drafts one to be paid at a *)
(* time, unless two were received across each other.                       *)
THEOREM DeliveriesOweOneBill == PurchasingSpec => []OneBillPerDelivery
  <1>1. PurchasingInv => OneBillPerDelivery
    BY OneOwingSuffices DEF PurchasingInv
  <1> QED  BY <1>1, PurchasingInvariant, PTL

(* A paid bill becomes unpaid only by a markEntered that had read it as a  *)
(* draft before.                                                           *)
THEOREM PaidBillsStayPaid == PurchasingSpec => PaidStaysPaid
  <1>1. PurchasingInv /\ [PurchasingNext]_purchasingVars =>
            [\A b \in Bills :
                bill[b].status = "paid" /\ bill'[b].status # "paid" =>
                    \E k \in Clerks :
                        clerk[k].pc = "enter" /\ clerk[k].bill = b /\ clerk[k].overtaken]_purchasingVars
    BY WhoUnpays
  <1> QED  BY <1>1, PurchasingInvariant, PTL DEF PurchasingSpec, PaidStaysPaid

-----------------------------------------------------------------------------
(***************************************************************************)
(* That links send what is current, for any number of slots, documents and *)
(* uploads at the same time.                                               *)
(*                                                                         *)
(* It rests on what upload is for, one active row in a slot (OneActive),   *)
(* and that on what an upload nobody got ahead of has seen (SeenAll).      *)
(***************************************************************************)

DocumentsTypeOK ==
    /\ document \in [Documents -> [slot : Slots \cup {None}, deleted : BOOLEAN]]
    /\ uploader \in [Uploaders -> [pc : {"rest", "upload"}, slot : Slots \cup {None},
                                   saw : SUBSET Documents, overtaken : BOOLEAN]]
    /\ \A h \in Uploaders : uploader[h].pc = "upload" => uploader[h].slot \in Slots
    /\ \A d \in link : d \in Documents /\ document[d].slot \in Slots

(* An upload across which no other committed deletes all that is active.   *)
SeenAll ==
    \A h \in Uploaders : uploader[h].pc = "upload" /\ ~uploader[h].overtaken =>
        Active(uploader[h].slot) \subseteq uploader[h].saw

(* "At most one row per (membershipId, type) has deletedAt = null".        *)
OneActive == \A s \in Slots \ mixed : \A d, e \in Active(s) : d = e

DocumentsInv == DocumentsTypeOK /\ SeenAll /\ OneActive /\ SentIsCurrent

-----------------------------------------------------------------------------
LEMMA DocumentsInitially == DocumentsInit => DocumentsInv
  <1> SUFFICES ASSUME DocumentsInit PROVE DocumentsInv
    OBVIOUS
  <1>1. DocumentsTypeOK
    BY DEF DocumentsInit, DocumentsTypeOK, NotUploaded, NoUpload
  <1>2. SeenAll
    BY DEF DocumentsInit, SeenAll, NoUpload
  <1>3. OneActive
    BY DocumentsAssumption DEF DocumentsInit, OneActive, Active, NotUploaded
  <1>4. SentIsCurrent
    BY DEF DocumentsInit, SentIsCurrent, NothingSent
  <1> QED  BY <1>1, <1>2, <1>3, <1>4 DEF DocumentsInv

LEMMA SoftDeleteKeeps ==
    ASSUME DocumentsInv, NEW h \in Uploaders, NEW s \in Slots, SoftDelete(h, s)
    PROVE  DocumentsInv'
  <1>1. /\ uploader' = [uploader EXCEPT ![h] =
              [pc |-> "upload", slot |-> s, saw |-> Active(s), overtaken |-> FALSE]]
        /\ UNCHANGED <<document, link, sent, mixed>>
    BY DEF SoftDelete
  <1>2. Active(s) \in SUBSET Documents
    BY DEF Active
  <1>3. DocumentsTypeOK'
    BY <1>1, <1>2 DEF DocumentsInv, DocumentsTypeOK
  <1>4. SeenAll'
    BY <1>1 DEF DocumentsInv, DocumentsTypeOK, SeenAll, Active
  <1>5. OneActive' /\ SentIsCurrent'
    BY <1>1 DEF DocumentsInv, OneActive, SentIsCurrent, Active
  <1> QED  BY <1>3, <1>4, <1>5 DEF DocumentsInv

(* The new row becomes active in its slot; nothing else becomes active.    *)
LEMMA WhatUploadActivates ==
    ASSUME DocumentsInv, NEW h \in Uploaders, NEW d \in Documents, Upload(h, d),
           NEW s \in Slots, uploader[h].slot = s
    PROVE  /\ document' \in [Documents -> [slot : Slots \cup {None}, deleted : BOOLEAN]]
           /\ \A t \in Slots \ {s} : Active(t)' \subseteq Active(t)
           /\ Active(s)' \subseteq {d} \cup (Active(s) \ uploader[h].saw)
           /\ \A e \in Documents : e # d => document'[e].slot = document[e].slot
           /\ document[d].slot = None
  <1>1. /\ document[d] = NotUploaded
        /\ document' = [e \in Documents |->
              IF e = d THEN [slot |-> s, deleted |-> FALSE]
              ELSE IF e \in uploader[h].saw THEN [document[e] EXCEPT !.deleted = TRUE]
              ELSE document[e]]
    BY DEF Upload, ReplaceDocument
  <1>2. \A e \in Documents : document[e] \in [slot : Slots \cup {None}, deleted : BOOLEAN]
    BY DEF DocumentsInv, DocumentsTypeOK
  <1>3. document' \in [Documents -> [slot : Slots \cup {None}, deleted : BOOLEAN]]
    <2> DEFINE Row == [slot : Slots \cup {None}, deleted : BOOLEAN]
    <2>1. [slot |-> s, deleted |-> FALSE] \in Row
      OBVIOUS
    <2>2. \A r \in Row : [r EXCEPT !.deleted = TRUE] \in Row
      OBVIOUS
    <2> HIDE DEF Row
    <2> QED  BY <1>1, <1>2, <2>1, <2>2 DEF Row
  <1>4. \A e \in Documents : e # d =>
            /\ document'[e].slot = document[e].slot
            /\ e \in uploader[h].saw => document'[e].deleted
            /\ e \notin uploader[h].saw => document'[e] = document[e]
    BY <1>1 DEF DocumentsInv, DocumentsTypeOK
  <1>5. document'[d].slot = s /\ document[d].slot = None
    BY <1>1 DEF NotUploaded
  <1>6. \A t \in Slots \ {s} : Active(t)' \subseteq Active(t)
    <2> SUFFICES ASSUME NEW t \in Slots \ {s}, NEW e \in Documents,
                        document'[e].slot = t, ~document'[e].deleted
                 PROVE  document[e].slot = t /\ ~document[e].deleted
      BY DEF Active
    <2> QED  BY <1>4, <1>5
  <1>7. Active(s)' \subseteq {d} \cup (Active(s) \ uploader[h].saw)
    <2> SUFFICES ASSUME NEW e \in Documents \ {d},
                        document'[e].slot = s, ~document'[e].deleted
                 PROVE  document[e].slot = s /\ ~document[e].deleted /\ e \notin uploader[h].saw
      BY DEF Active
    <2> QED  BY <1>4
  <1> QED  BY <1>1, <1>3, <1>4, <1>5, <1>6, <1>7

LEMMA UploadKeeps ==
    ASSUME DocumentsInv, NEW h \in Uploaders, NEW d \in Documents, Upload(h, d)
    PROVE  DocumentsInv'
  <1>0. uploader[h].pc = "upload" /\ uploader[h].slot \in Slots
    BY DEF Upload, DocumentsInv, DocumentsTypeOK
  <1> PICK s \in Slots : uploader[h].slot = s
    BY <1>0
  <1>1. /\ mixed' = IF uploader[h].overtaken THEN mixed \cup {s} ELSE mixed \ {s}
        /\ uploader' = [k \in Uploaders |->
              IF k = h THEN NoUpload
              ELSE IF uploader[k].pc = "upload" /\ uploader[k].slot = s
              THEN [uploader[k] EXCEPT !.overtaken = TRUE]
              ELSE uploader[k]]
        /\ UNCHANGED <<link, sent>>
    BY DEF Upload
  <1>2. DocumentsTypeOK'
    <2>1. uploader' \in [Uploaders -> [pc : {"rest", "upload"}, slot : Slots \cup {None},
                                       saw : SUBSET Documents, overtaken : BOOLEAN]]
      BY <1>1 DEF DocumentsInv, DocumentsTypeOK, NoUpload
    <2>2. \A k \in Uploaders : uploader'[k].pc = "upload" => uploader'[k].slot \in Slots
      BY <1>1 DEF DocumentsInv, DocumentsTypeOK, NoUpload
    <2>3. \A e \in link' : e \in Documents /\ document'[e].slot \in Slots
      BY <1>1, WhatUploadActivates, DocumentsAssumption DEF DocumentsInv, DocumentsTypeOK
    <2> QED  BY <2>1, <2>2, <2>3, WhatUploadActivates DEF DocumentsTypeOK
  <1>3. SeenAll'
    <2> SUFFICES ASSUME NEW k \in Uploaders,
                        uploader'[k].pc = "upload", ~uploader'[k].overtaken
                 PROVE  \A e \in Documents :
                            document'[e].slot = uploader'[k].slot /\ ~document'[e].deleted
                            => e \in uploader'[k].saw
      BY DEF SeenAll, Active
    <2>1. k # h /\ uploader'[k] = uploader[k] /\ uploader[k].slot # s
      BY <1>1 DEF DocumentsInv, DocumentsTypeOK, NoUpload
    <2>2. PICK t \in Slots \ {s} : uploader[k].slot = t
      BY <2>1 DEF DocumentsInv, DocumentsTypeOK
    <2>3. Active(t)' \subseteq Active(t)
      BY WhatUploadActivates
    <2>4. Active(t) \subseteq uploader[k].saw
      BY <2>1, <2>2 DEF DocumentsInv, SeenAll
    <2> QED  BY <2>1, <2>2, <2>3, <2>4 DEF Active
  <1>4. OneActive'
    <2> SUFFICES ASSUME NEW t \in Slots \ mixed', NEW e \in Active(t)', NEW f \in Active(t)'
                 PROVE  e = f
      BY DEF OneActive
    <2>1. CASE t = s
      <3>1. ~uploader[h].overtaken
        BY <1>1, <2>1
      <3>2. Active(s) \subseteq uploader[h].saw
        BY <1>0, <3>1 DEF DocumentsInv, SeenAll
      <3>3. Active(s)' \subseteq {d}
        BY <3>2, WhatUploadActivates
      <3> QED  BY <2>1, <3>3
    <2>2. CASE t # s
      <3>1. t \notin mixed
        BY <1>1, <2>2
      <3>2. Active(t)' \subseteq Active(t)
        BY <2>2, WhatUploadActivates
      <3> QED  BY <3>1, <3>2 DEF DocumentsInv, OneActive
    <2> QED  BY <2>1, <2>2
  <1>5. SentIsCurrent'
    BY <1>1 DEF DocumentsInv, SentIsCurrent
  <1> QED  BY <1>2, <1>3, <1>4, <1>5 DEF DocumentsInv

LEMMA UploaderDiesKeeps ==
    ASSUME DocumentsInv, NEW h \in Uploaders, UploaderDies(h)
    PROVE  DocumentsInv'
  BY DEF UploaderDies, NoUpload, DocumentsInv, DocumentsTypeOK, SeenAll, OneActive,
         SentIsCurrent, Active

LEMMA LinkStepsKeep ==
    ASSUME DocumentsInv, NEW d \in Documents, IssueDownloadToken(d) \/ LinkExpires(d)
    PROVE  DocumentsInv'
  <1>1. UNCHANGED <<document, uploader, sent, mixed>>
    BY DEF IssueDownloadToken, LinkExpires
  <1>2. \A e \in link' : e \in link \/ \E s \in Slots : e \in Active(s)
    BY DEF IssueDownloadToken, LinkExpires
  <1>3. DocumentsTypeOK'
    BY <1>1, <1>2 DEF DocumentsInv, DocumentsTypeOK, Active
  <1> QED
    BY <1>1, <1>3 DEF DocumentsInv, SeenAll, OneActive, SentIsCurrent, Active

(* The document found by the link is active, so it is the only one.        *)
LEMMA ResolveKeeps ==
    ASSUME DocumentsInv, NEW d \in Documents, ResolveDownload(d)
    PROVE  DocumentsInv'
  <1> DEFINE s == document[d].slot
  <1>1. /\ d \in link /\ ~document[d].deleted
        /\ sent' = [document |-> d, active |-> Active(s), mixed |-> s \in mixed]
        /\ UNCHANGED <<document, link, uploader, mixed>>
    BY DEF ResolveDownload, Resolves
  <1>2. s \in Slots /\ d \in Active(s)
    BY <1>1 DEF DocumentsInv, DocumentsTypeOK, Active
  <1>3. s \notin mixed => Active(s) = {d}
    BY <1>2 DEF DocumentsInv, OneActive
  <1>4. SentIsCurrent'
    BY <1>1, <1>3 DEF SentIsCurrent
  <1> QED
    BY <1>1, <1>4 DEF DocumentsInv, DocumentsTypeOK, SeenAll, OneActive, Active

LEMMA DocumentsStep == DocumentsInv /\ [DocumentsNext]_documentsVars => DocumentsInv'
  <1> SUFFICES ASSUME DocumentsInv, [DocumentsNext]_documentsVars PROVE DocumentsInv'
    OBVIOUS
  <1>1. CASE \E h \in Uploaders, s \in Slots : SoftDelete(h, s)
    BY <1>1, SoftDeleteKeeps
  <1>2. CASE \E h \in Uploaders, d \in Documents : Upload(h, d)
    BY <1>2, UploadKeeps
  <1>3. CASE \E h \in Uploaders : UploaderDies(h)
    BY <1>3, UploaderDiesKeeps
  <1>4. CASE \E d \in Documents : IssueDownloadToken(d) \/ LinkExpires(d)
    BY <1>4, LinkStepsKeep
  <1>5. CASE \E d \in Documents : ResolveDownload(d)
    BY <1>5, ResolveKeeps
  <1>6. CASE UNCHANGED documentsVars
    BY <1>6 DEF documentsVars, DocumentsInv, DocumentsTypeOK, SeenAll, OneActive,
                SentIsCurrent, Active
  <1> QED
    BY <1>1, <1>2, <1>3, <1>4, <1>5, <1>6 DEF DocumentsNext

(* What holds of DocumentsService in every state: rows have their types,   *)
(* and a slot has one active row from any upload that no other crossed on. *)
THEOREM DocumentsInvariant == DocumentsSpec => []DocumentsInv
  <1> QED  BY DocumentsInitially, DocumentsStep, PTL DEF DocumentsSpec

(* A link never sends what was replaced, nor one of two (resolveDownload): *)
(* not even when an upload is half way or dies, unless two crossed.        *)
THEOREM LinksSendWhatIsCurrent == DocumentsSpec => []SentIsCurrent
  <1> QED  BY DocumentsInvariant, PTL DEF DocumentsInv

(***************************************************************************)
(* Attendance.  Events are only added, so what a handler has seen stays:   *)
(* one about to check somebody out has seen the check-in (Backed), and as  *)
(* long as nothing of that day was corrected and the day fits into what it *)
(* looked at, no check-out (NoneSeen).                                     *)
(***************************************************************************)
AttRequest ==
    [pc : {"rest", "clock", "tell"}, member : AttMembers \cup {None}, type : EventTypes,
     readAt : Nat, overtaken : BOOLEAN]

AttTypeOK ==
    /\ event \in [AttMembers -> SUBSET Events]
    /\ \A m \in AttMembers : IsFiniteSet(event[m])
    /\ clock \in Nat
    /\ attHandler \in [AttHandlers -> AttRequest]
    /\ \A h \in AttHandlers : attHandler[h].pc = "clock" => attHandler[h].member \in AttMembers

(* Only corrections are of a time to come. *)
PastEvents == \A m \in AttMembers : \A e \in event[m] : ~e.corrected => e.at < clock

CheckedInOn(m, d) == \E e \in event[m] : e.type = "check_in" /\ Day(e.at) = d

Backed(r) == r.pc = "clock" /\ r.type = "check_out" => CheckedInOn(r.member, Day(r.readAt))

(* The events of the day and those after it fit into what a handler reads. *)
FitsWindow(m, d) == Cardinality({e \in event[m] : Day(e.at) >= d}) <= Window

NoneSeen(r) ==
    LET d == Day(r.readAt)
    IN  r.pc = "clock" /\ r.type = "check_out" /\ ~r.overtaken
        /\ ~Corrected(r.member, d) /\ FitsWindow(r.member, d)
        => OfDay(r.member, d, "check_out") = {}

InBeforeOut(m, d) ==
    ~Corrected(m, d) /\ <<m, d>> \notin overnight =>
        \A f \in event[m] : f.type = "check_out" /\ Day(f.at) = d =>
            \E e \in event[m] : e.type = "check_in" /\ Day(e.at) = d /\ e.at < f.at

OneOut(m, d) ==
    ~Corrected(m, d) /\ <<m, d>> \notin overlapped \cup overnight /\ FitsWindow(m, d) =>
        \A s, t \in OfDay(m, d, "check_out") : s = t

AttInv ==
    /\ AttTypeOK /\ PastEvents
    /\ \A h \in AttHandlers : Backed(attHandler[h]) /\ NoneSeen(attHandler[h])
    /\ \A m \in AttMembers, d \in Nat : InBeforeOut(m, d) /\ OneOut(m, d)

-----------------------------------------------------------------------------
LEMMA DayOrder ==
    ASSUME AttendanceAssumption, NEW x \in Nat, NEW y \in Nat
    PROVE  Day(x) \in Nat /\ (x <= y => Day(x) <= Day(y))
  BY DEF Day, AttendanceAssumption

LEMMA EventType ==
    ASSUME AttTypeOK, AttendanceAssumption, NEW m \in AttMembers, NEW e \in event[m]
    PROVE  /\ e.at \in Nat /\ e.at < Horizon /\ e.type \in EventTypes /\ e.corrected \in BOOLEAN
           /\ Day(e.at) \in Nat
  <1>1. e \in Events
    BY DEF AttTypeOK
  <1>2. e.at \in Nat /\ e.at < Horizon /\ e.type \in EventTypes /\ e.corrected \in BOOLEAN
    BY <1>1 DEF Events, AttendanceAssumption
  <1> QED  BY <1>2, DayOrder

(* As events are added, days get corrected and windows overflow.           *)
LEMMA EventsStay ==
    ASSUME NEW m \in AttMembers, NEW d, event[m] \subseteq event'[m], IsFiniteSet(event'[m])
    PROVE  /\ Corrected(m, d) => Corrected(m, d)'
           /\ CheckedInOn(m, d) => CheckedInOn(m, d)'
           /\ IsFiniteSet({e \in event[m] : Day(e.at) >= d})
           /\ FitsWindow(m, d)' /\ AttendanceAssumption => FitsWindow(m, d)
  <1>1. Corrected(m, d) => Corrected(m, d)'
    BY DEF Corrected
  <1>2. CheckedInOn(m, d) => CheckedInOn(m, d)'
    BY DEF CheckedInOn
  <1>3. PICK S : S = {e \in event[m] : Day(e.at) >= d}
    OBVIOUS
  <1>4. PICK T : T = {e \in event'[m] : Day(e.at) >= d}
    OBVIOUS
  <1>5. S \subseteq T /\ T \subseteq event'[m]
    BY <1>3, <1>4
  <1>6. IsFiniteSet(T)
    BY <1>5, FS_Subset, Zenon
  <1>7. IsFiniteSet(S) /\ Cardinality(S) <= Cardinality(T)
    BY <1>5, <1>6, FS_Subset, Zenon
  <1>8. Cardinality(S) \in Nat /\ Cardinality(T) \in Nat
    BY <1>6, <1>7, FS_CardinalityType, Zenon
  <1>9. FitsWindow(m, d) <=> Cardinality(S) <= Window
    BY <1>3 DEF FitsWindow
  <1>10. FitsWindow(m, d)' <=> Cardinality(T) <= Window
    BY <1>4 DEF FitsWindow
  <1>11. FitsWindow(m, d)' /\ AttendanceAssumption => FitsWindow(m, d)
    BY <1>7, <1>8, <1>9, <1>10 DEF AttendanceAssumption
  <1> QED  BY <1>1, <1>2, <1>3, <1>7, <1>11

(* What today's newest events show, they show of the whole day.            *)
LEMMA NewestOfDay ==
    ASSUME AttTypeOK, AttendanceAssumption, NEW m \in AttMembers, NEW e \in event[m],
           FitsWindow(m, Day(e.at))
    PROVE  e \in Newest(m)
  <1>1. PICK d \in Nat : d = Day(e.at)
    BY EventType
  <1>2. PICK T : T = {f \in event[m] : Day(f.at) >= d}
    OBVIOUS
  <1>3. PICK S : S = {f \in event[m] : f.at > e.at}
    OBVIOUS
  <1>4. e \in T /\ S \subseteq T \ {e}
    <2>1. e.at \in Nat /\ \A f \in event[m] : f.at \in Nat /\ Day(f.at) \in Nat
      BY EventType
    <2>2. \A f \in event[m] : f.at > e.at => Day(f.at) >= d
      BY <1>1, <2>1, DayOrder
    <2> QED  BY <1>1, <1>2, <1>3, <2>1, <2>2
  <1>5. IsFiniteSet(T)
    <2>1. T \subseteq event[m] /\ IsFiniteSet(event[m])
      BY <1>2 DEF AttTypeOK
    <2> QED  BY <2>1, FS_Subset, Zenon
  <1>6. IsFiniteSet(T \ {e}) /\ Cardinality(T \ {e}) = Cardinality(T) - 1
    BY <1>4, <1>5, FS_RemoveElement, Zenon
  <1>7. IsFiniteSet(S) /\ Cardinality(S) <= Cardinality(T \ {e})
    BY <1>4, <1>6, FS_Subset, Zenon
  <1>8. Cardinality(S) \in Nat /\ Cardinality(T) \in Nat
    BY <1>5, <1>7, FS_CardinalityType, Zenon
  <1>9. Cardinality(T) <= Window
    BY <1>1, <1>2 DEF FitsWindow
  <1>10. Cardinality(S) < Window
    BY <1>6, <1>7, <1>8, <1>9 DEF AttendanceAssumption
  <1> QED  BY <1>3, <1>10 DEF Newest

(* The three ways to clock look at the newest events alike.                *)
LEMMA LookSeesToday ==
    ASSUME AttInv, AttendanceAssumption, NEW h \in AttHandlers, NEW m \in AttMembers,
           NEW type \in EventTypes, LookBefore(h, m, type),
           type = "check_out" => SeenToday(m, "check_in") /\ ~SeenToday(m, "check_out")
    PROVE  AttInv'
  <1>1. PICK r : r = [pc |-> "clock", member |-> m, type |-> type, readAt |-> clock,
                      overtaken |-> FALSE]
    OBVIOUS
  <1>2. /\ r \in AttRequest /\ r.pc = "clock" /\ r.member = m /\ r.type = type
        /\ r.readAt = clock
    BY <1>1 DEF AttInv, AttTypeOK, AttRequest
  <1>3. /\ attHandler' = [attHandler EXCEPT ![h] = r]
        /\ UNCHANGED <<event, place, clock, overlapped, overnight>>
    BY <1>1 DEF LookBefore
  <1>4. AttTypeOK'
    BY <1>2, <1>3 DEF AttInv, AttTypeOK
  <1>5. attHandler'[h] = r /\ \A k \in AttHandlers : k # h => attHandler'[k] = attHandler[k]
    BY <1>3 DEF AttInv, AttTypeOK
  <1>6. Backed(r)
    BY <1>2 DEF Backed, SeenToday, CheckedInOn, Newest
  <1>7. NoneSeen(r)
    <2> SUFFICES ASSUME r.type = "check_out", FitsWindow(m, Day(clock)),
                        NEW e \in event[m], e.type = "check_out", Day(e.at) = Day(clock)
                 PROVE  FALSE
      BY <1>2 DEF NoneSeen, OfDay
    <2>1. e \in Newest(m)
      BY NewestOfDay DEF AttInv
    <2> QED  BY <1>2, <2>1 DEF SeenToday
  <1>8. \A k \in AttHandlers : Backed(attHandler'[k]) /\ NoneSeen(attHandler'[k])
    BY <1>5, <1>6, <1>7 DEF AttInv
  <1>9. \A k \in AttHandlers : (Backed(attHandler[k]) /\ NoneSeen(attHandler[k]))'
    BY <1>3, <1>8 DEF Backed, NoneSeen, CheckedInOn, Corrected, FitsWindow, OfDay
  <1>10. PastEvents'
    BY <1>3 DEF AttInv, PastEvents
  <1>11. ASSUME NEW n \in AttMembers, NEW d \in Nat
         PROVE  (InBeforeOut(n, d) /\ OneOut(n, d))'
    <2>1. InBeforeOut(n, d) /\ OneOut(n, d)
      BY DEF AttInv
    <2>2. InBeforeOut(n, d)'
      BY <1>3, <2>1 DEF InBeforeOut, Corrected
    <2>3. OneOut(n, d)'
      BY <1>3, <2>1 DEF OneOut, Corrected, FitsWindow, OfDay
    <2> QED  BY <2>2, <2>3
  <1> QED  BY <1>4, <1>9, <1>10, <1>11 DEF AttInv

(* An event x of m is added.                                               *)
AddsEvent(m, x) == event' = [event EXCEPT ![m] = @ \cup {x}]

LEMMA AddedEvent ==
    ASSUME AttTypeOK, NEW m \in AttMembers, NEW x \in Events, AddsEvent(m, x)
    PROVE  /\ event' \in [AttMembers -> SUBSET Events]
           /\ event'[m] = event[m] \cup {x}
           /\ \A n \in AttMembers : n # m => event'[n] = event[n]
           /\ \A n \in AttMembers : event[n] \subseteq event'[n] /\ IsFiniteSet(event'[n])
  <1>1. event[m] \in SUBSET Events /\ event \in [AttMembers -> SUBSET Events]
    BY DEF AttTypeOK
  <1>2. event' \in [AttMembers -> SUBSET Events] /\ event'[m] = event[m] \cup {x}
    BY <1>1 DEF AddsEvent
  <1>3. \A n \in AttMembers : n # m => event'[n] = event[n]
    BY <1>1 DEF AddsEvent
  <1>4. IsFiniteSet(event[m])
    BY DEF AttTypeOK
  <1>5. IsFiniteSet(event[m] \cup {x})
    BY <1>4, FS_AddElement, Zenon
  <1>6. \A n \in AttMembers : event[n] \subseteq event'[n] /\ IsFiniteSet(event'[n])
    BY <1>2, <1>3, <1>5 DEF AttTypeOK
  <1> QED  BY <1>2, <1>3, <1>6

(* It changes the check-outs of the one day on which it is one.            *)
LEMMA OtherDays ==
    ASSUME AttTypeOK, NEW m \in AttMembers, NEW x \in Events, AddsEvent(m, x),
           NEW n \in AttMembers, NEW d, n # m \/ x.type # "check_out" \/ Day(x.at) # d
    PROVE  OfDay(n, d, "check_out")' = OfDay(n, d, "check_out")
  <1>1. \A e \in event'[n] : e.type = "check_out" /\ Day(e.at) = d => e \in event[n]
    BY AddedEvent
  <1>2. event[n] \subseteq event'[n]
    BY AddedEvent
  <1>3. {f \in event'[n] : f.type = "check_out" /\ Day(f.at) = d}
            = {f \in event[n] : f.type = "check_out" /\ Day(f.at) = d}
    BY <1>1, <1>2
  <1> QED  BY <1>3 DEF OfDay

(* Who was clocking before, and is still, has seen what there was, unless  *)
(* he knows better now.                                                    *)
LEMMA OthersHaveSeen ==
    ASSUME AttInv, AttendanceAssumption, NEW m \in AttMembers, NEW x \in Events,
           AddsEvent(m, x), NEW r \in AttRequest, NEW q \in AttRequest,
           Backed(r), NoneSeen(r), r.pc = "clock" => r.member \in AttMembers,
           q.pc = "clock" => /\ r.pc = "clock" /\ q.member = r.member /\ q.type = r.type
                             /\ q.readAt = r.readAt /\ (r.overtaken => q.overtaken),
           q.pc = "clock" /\ q.member = m => q.overtaken \/ x.corrected
    PROVE  Backed(q)' /\ NoneSeen(q)'
  <1> SUFFICES ASSUME q.pc = "clock" PROVE Backed(q)' /\ NoneSeen(q)'
    BY DEF Backed, NoneSeen
  <1>1. PICK n \in AttMembers : n = q.member /\ n = r.member
    OBVIOUS
  <1>2. PICK d \in Nat : d = Day(q.readAt) /\ d = Day(r.readAt)
    BY DayOrder DEF AttRequest
  <1>3. event[n] \subseteq event'[n] /\ IsFiniteSet(event'[n])
    BY AddedEvent DEF AttInv
  <1>4. /\ Corrected(n, d) => Corrected(n, d)'
        /\ CheckedInOn(n, d) => CheckedInOn(n, d)'
        /\ FitsWindow(n, d)' => FitsWindow(n, d)
    BY <1>3, EventsStay
  <1>5. Backed(q)'
    BY <1>1, <1>2, <1>4 DEF Backed
  <1>6. NoneSeen(q)'
    <2> SUFFICES ASSUME q.type = "check_out", ~q.overtaken,
                        ~Corrected(n, d)', FitsWindow(n, d)'
                 PROVE  OfDay(n, d, "check_out")' = {}
      BY <1>1, <1>2 DEF NoneSeen
    <2>1. OfDay(n, d, "check_out") = {}
      BY <1>1, <1>2, <1>4 DEF NoneSeen
    <2>2. CASE n # m
      BY <2>1, <2>2, OtherDays DEF AttInv
    <2>3. CASE n = m
      <3>1. x.corrected /\ x \in event'[m]
        BY <1>1, <2>3, AddedEvent DEF AttInv
      <3>2. Day(x.at) # d
        BY <2>3, <3>1 DEF Corrected
      <3> QED  BY <2>1, <3>2, OtherDays DEF AttInv
    <2> QED  BY <2>2, <2>3
  <1> QED  BY <1>5, <1>6

LEMMA AttInitially == ASSUME AttInit, AttendanceAssumption PROVE AttInv
  <1>1. AttResting \in AttRequest /\ AttResting.pc = "rest"
    BY DEF AttResting, AttRequest, EventTypes
  <1>2. \A m \in AttMembers : event[m] = {}
    BY DEF AttInit
  <1>3. AttTypeOK
    BY <1>1, <1>2, FS_EmptySet DEF AttInit, AttTypeOK
  <1>4. \A h \in AttHandlers : Backed(attHandler[h]) /\ NoneSeen(attHandler[h])
    BY <1>1 DEF AttInit, Backed, NoneSeen
  <1>5. PastEvents /\ \A m \in AttMembers, d \in Nat : InBeforeOut(m, d) /\ OneOut(m, d)
    BY <1>2 DEF PastEvents, InBeforeOut, OneOut, OfDay
  <1> QED  BY <1>3, <1>4, <1>5 DEF AttInv

LEMMA RecordKeepsDays ==
    ASSUME AttInv, AttendanceAssumption, NEW h \in AttHandlers, RecordEvent(h)
    PROVE  AttInv'
  <1>1. PICK r \in AttRequest : r = attHandler[h]
    BY DEF AttInv, AttTypeOK
  <1>2. PICK m \in AttMembers : m = r.member
    BY <1>1 DEF AttInv, AttTypeOK, RecordEvent
  <1>3. PICK x : x = [at |-> clock, type |-> r.type, corrected |-> FALSE]
    OBVIOUS
  <1>4. /\ x \in Events /\ x.at = clock /\ x.type = r.type /\ x.corrected = FALSE
        /\ clock \in Nat
    BY <1>1, <1>3 DEF Events, AttRequest, RecordEvent, AttInv, AttTypeOK, AttendanceAssumption
  <1>5. AddsEvent(m, x) /\ clock' = clock + 1 /\ r.pc = "clock"
    BY <1>1, <1>2, <1>3 DEF RecordEvent, AddsEvent
  <1>6. PICK day \in Nat : day = Day(clock)
    BY <1>4, DayOrder
  <1>7. /\ overlapped \subseteq overlapped' /\ (r.overtaken => <<m, day>> \in overlapped')
        /\ overnight \subseteq overnight'
        /\ (Day(r.readAt) # day => <<m, day>> \in overnight')
    BY <1>1, <1>2, <1>6 DEF RecordEvent
  <1>8. /\ \A n \in AttMembers : event[n] \subseteq event'[n] /\ IsFiniteSet(event'[n])
        /\ event' \in [AttMembers -> SUBSET Events]
        /\ event'[m] = event[m] \cup {x}
        /\ \A n \in AttMembers : n # m => event'[n] = event[n]
    BY <1>4, <1>5, AddedEvent DEF AttInv
  <1>9. ASSUME NEW k \in AttHandlers
        PROVE  /\ attHandler'[k] \in AttRequest
               /\ attHandler'[k].pc = "clock" =>
                    /\ attHandler[k].pc = "clock"
                    /\ attHandler'[k].member = attHandler[k].member
                    /\ attHandler'[k].type = attHandler[k].type
                    /\ attHandler'[k].readAt = attHandler[k].readAt
                    /\ attHandler[k].overtaken => attHandler'[k].overtaken
                    /\ attHandler'[k].member = m => attHandler'[k].overtaken
    <2>1. PICK q \in AttRequest : q = attHandler[k]
      BY DEF AttInv, AttTypeOK
    <2>2. CASE k = h
      BY <2>2 DEF RecordEvent, AttResting, AttRequest, EventTypes
    <2>3. CASE k # h /\ q.pc = "clock" /\ q.member = m
      <3>1. attHandler'[k] = [q EXCEPT !.overtaken = TRUE]
        BY <1>1, <1>2, <2>1, <2>3 DEF RecordEvent
      <3> QED  BY <2>1, <2>3, <3>1 DEF AttRequest
    <2>4. CASE k # h /\ ~(q.pc = "clock" /\ q.member = m)
      <3>1. attHandler'[k] = q
        BY <1>1, <1>2, <2>1, <2>4 DEF RecordEvent
      <3> QED  BY <2>1, <2>4, <3>1
    <2> QED  BY <2>2, <2>3, <2>4
  <1>10. AttTypeOK'
    <2>1. attHandler' = [k \in AttHandlers |-> attHandler'[k]]
      BY DEF RecordEvent
    <2>2. attHandler' \in [AttHandlers -> AttRequest]
      BY <1>9, <2>1
    <2>3. \A k \in AttHandlers : attHandler'[k].pc = "clock" => attHandler'[k].member \in AttMembers
      BY <1>9 DEF AttInv, AttTypeOK
    <2> QED  BY <1>4, <1>5, <1>8, <2>2, <2>3 DEF AttTypeOK
  <1>11. \A k \in AttHandlers : (Backed(attHandler[k]) /\ NoneSeen(attHandler[k]))'
    <2> TAKE k \in AttHandlers
    <2>1. PICK p \in AttRequest : p = attHandler[k]
      BY DEF AttInv, AttTypeOK
    <2>2. PICK q \in AttRequest : q = attHandler'[k]
      BY <1>9
    <2>3. Backed(p) /\ NoneSeen(p) /\ (p.pc = "clock" => p.member \in AttMembers)
      BY <2>1 DEF AttInv, AttTypeOK
    <2>4. q.pc = "clock" => /\ p.pc = "clock" /\ q.member = p.member /\ q.type = p.type
                            /\ q.readAt = p.readAt /\ (p.overtaken => q.overtaken)
      BY <1>9, <2>1, <2>2
    <2>5. q.pc = "clock" /\ q.member = m => q.overtaken \/ x.corrected
      BY <1>9, <2>2
    <2>6. Backed(q)' /\ NoneSeen(q)'
      BY <1>4, <1>5, <2>3, <2>4, <2>5, OthersHaveSeen
    <2> QED  BY <2>2, <2>6 DEF Backed, NoneSeen, CheckedInOn, Corrected, FitsWindow, OfDay
  <1>12. PastEvents'
    <2> SUFFICES ASSUME NEW n \in AttMembers, NEW e \in event'[n], ~e.corrected
                 PROVE  e.at < clock'
      BY DEF PastEvents
    <2>1. CASE e \in event[n]
      <3>1. e.at < clock /\ e.at \in Nat
        BY <2>1, EventType DEF AttInv, PastEvents
      <3> QED  BY <1>4, <1>5, <3>1
    <2>2. CASE e \notin event[n]
      <3>1. e = x
        BY <1>8, <2>2
      <3> QED  BY <1>4, <1>5, <3>1
    <2> QED  BY <2>1, <2>2
  <1>13. ASSUME NEW n \in AttMembers, NEW d \in Nat
         PROVE  InBeforeOut(n, d)'
    <2> SUFFICES ASSUME ~Corrected(n, d)', <<n, d>> \notin overnight',
                        NEW f \in event'[n], f.type = "check_out", Day(f.at) = d
                 PROVE  \E e \in event'[n] : e.type = "check_in" /\ Day(e.at) = d /\ e.at < f.at
      BY DEF InBeforeOut
    <2>1. ~Corrected(n, d) /\ <<n, d>> \notin overnight
      BY <1>7, <1>8 DEF Corrected
    <2>2. CASE f \in event[n]
      BY <1>8, <2>1, <2>2 DEF AttInv, InBeforeOut
    <2>3. CASE f \notin event[n]
      <3>1. n = m /\ f = x /\ d = day
        BY <1>4, <1>6, <1>8, <2>3
      <3>2. Day(r.readAt) = day /\ r.type = "check_out"
        BY <1>4, <1>7, <3>1
      <3>3. CheckedInOn(m, day)
        BY <1>1, <1>2, <1>5, <3>2 DEF AttInv, Backed
      <3>4. PICK e \in event[m] : e.type = "check_in" /\ Day(e.at) = day
        BY <3>3 DEF CheckedInOn
      <3>5. e.at < clock
        BY <2>1, <3>1, <3>4 DEF Corrected, AttInv, PastEvents
      <3> QED  BY <1>4, <1>8, <3>1, <3>4, <3>5
    <2> QED  BY <2>2, <2>3
  <1>14. ASSUME NEW n \in AttMembers, NEW d \in Nat
         PROVE  OneOut(n, d)'
    <2> SUFFICES ASSUME ~Corrected(n, d)', <<n, d>> \notin (overlapped \cup overnight)',
                        FitsWindow(n, d)',
                        NEW s \in OfDay(n, d, "check_out")', NEW t \in OfDay(n, d, "check_out")'
                 PROVE  s = t
      BY DEF OneOut
    <2>1. ~Corrected(n, d) /\ FitsWindow(n, d)
      BY <1>8, EventsStay
    <2>2. <<n, d>> \notin overlapped \cup overnight
      BY <1>7
    <2>3. CASE n # m \/ x.type # "check_out" \/ Day(x.at) # d
      <3>1. OfDay(n, d, "check_out")' = OfDay(n, d, "check_out")
        BY <1>4, <1>5, <2>3, OtherDays DEF AttInv
      <3> QED  BY <2>1, <2>2, <3>1 DEF AttInv, OneOut
    <2>4. CASE n = m /\ x.type = "check_out" /\ Day(x.at) = d
      <3>1. d = day /\ ~r.overtaken /\ Day(r.readAt) = day
        BY <1>4, <1>6, <1>7, <2>4
      <3>2. OfDay(m, d, "check_out") = {}
        BY <1>1, <1>2, <1>4, <1>5, <2>1, <2>4, <3>1 DEF AttInv, NoneSeen
      <3>3. \A e \in event[m] : ~(e.type = "check_out" /\ Day(e.at) = d)
        BY <3>2 DEF OfDay
      <3>4. \A e \in event'[m] : e.type = "check_out" /\ Day(e.at) = d => e.at = clock
        BY <1>4, <1>8, <3>3
      <3>5. PICK e, f \in event'[m] :
                /\ e.type = "check_out" /\ Day(e.at) = d /\ s = e.at
                /\ f.type = "check_out" /\ Day(f.at) = d /\ t = f.at
        BY <2>4 DEF OfDay
      <3> QED  BY <3>4, <3>5
    <2> QED  BY <2>3, <2>4
  <1> QED  BY <1>10, <1>11, <1>12, <1>13, <1>14 DEF AttInv

LEMMA CorrectKeepsDays ==
    ASSUME AttInv, AttendanceAssumption, NEW h \in AttHandlers, NEW m \in AttMembers,
           NEW type \in EventTypes, NEW t \in 0..Horizon - 1, Correct(h, m, type, t)
    PROVE  AttInv'
  <1>1. PICK x : x = [at |-> t, type |-> type, corrected |-> TRUE]
    OBVIOUS
  <1>2. x \in Events /\ x.corrected /\ x.at = t /\ AddsEvent(m, x)
    BY <1>1 DEF Events, Correct, AddsEvent
  <1>3. /\ \A n \in AttMembers : event[n] \subseteq event'[n] /\ IsFiniteSet(event'[n])
        /\ event' \in [AttMembers -> SUBSET Events]
        /\ event'[m] = event[m] \cup {x}
        /\ \A n \in AttMembers : n # m => event'[n] = event[n]
    BY <1>2, AddedEvent DEF AttInv
  <1>4. clock \in Nat /\ clock' \in Nat /\ clock <= clock'
    BY DEF AttInv, AttTypeOK, Correct
  <1>5. overlapped' = overlapped /\ overnight' = overnight
    BY DEF Correct
  <1>6. PICK w : w = [AttResting EXCEPT !.pc = "tell", !.member = m]
    OBVIOUS
  <1>7. /\ w \in AttRequest /\ w.pc = "tell"
        /\ attHandler' = [attHandler EXCEPT ![h] = w]
    BY <1>6 DEF AttResting, AttRequest, EventTypes, Correct
  <1>8. AttTypeOK'
    BY <1>3, <1>4, <1>7 DEF AttInv, AttTypeOK
  <1>9. \A k \in AttHandlers : (Backed(attHandler[k]) /\ NoneSeen(attHandler[k]))'
    <2> TAKE k \in AttHandlers
    <2>1. PICK p \in AttRequest : p = attHandler[k]
      BY DEF AttInv, AttTypeOK
    <2>2. PICK q \in AttRequest : q = attHandler'[k]
      BY <1>8 DEF AttTypeOK
    <2>3. Backed(p) /\ NoneSeen(p) /\ (p.pc = "clock" => p.member \in AttMembers)
      BY <2>1 DEF AttInv, AttTypeOK
    <2>4. q.pc = "clock" => q = p
      BY <1>7, <2>1, <2>2 DEF AttInv, AttTypeOK
    <2>5. Backed(q)' /\ NoneSeen(q)'
      BY <1>2, <2>3, <2>4, OthersHaveSeen
    <2> QED  BY <2>2, <2>5 DEF Backed, NoneSeen, CheckedInOn, Corrected, FitsWindow, OfDay
  <1>10. PastEvents'
    <2> SUFFICES ASSUME NEW n \in AttMembers, NEW e \in event'[n], ~e.corrected
                 PROVE  e.at < clock'
      BY DEF PastEvents
    <2>1. e \in event[n]
      BY <1>2, <1>3
    <2>2. e.at < clock /\ e.at \in Nat
      BY <2>1, EventType DEF AttInv, PastEvents
    <2> QED  BY <1>4, <2>2
  <1>11. ASSUME NEW n \in AttMembers, NEW d \in Nat, ~Corrected(n, d)'
         PROVE  ~Corrected(n, d) /\ (n # m \/ Day(x.at) # d)
    BY <1>2, <1>3, <1>11 DEF Corrected
  <1>12. ASSUME NEW n \in AttMembers, NEW d \in Nat
         PROVE  InBeforeOut(n, d)'
    <2> SUFFICES ASSUME ~Corrected(n, d)', <<n, d>> \notin overnight',
                        NEW f \in event'[n], f.type = "check_out", Day(f.at) = d
                 PROVE  \E e \in event'[n] : e.type = "check_in" /\ Day(e.at) = d /\ e.at < f.at
      BY DEF InBeforeOut
    <2>1. f \in event[n]
      BY <1>3, <1>11
    <2>2. ~Corrected(n, d) /\ <<n, d>> \notin overnight
      BY <1>5, <1>11
    <2> QED  BY <1>3, <2>1, <2>2 DEF AttInv, InBeforeOut
  <1>13. ASSUME NEW n \in AttMembers, NEW d \in Nat
         PROVE  OneOut(n, d)'
    <2> SUFFICES ASSUME ~Corrected(n, d)', <<n, d>> \notin (overlapped \cup overnight)',
                        FitsWindow(n, d)'
                 PROVE  \A s, u \in OfDay(n, d, "check_out")' : s = u
      BY DEF OneOut
    <2>1. ~Corrected(n, d) /\ FitsWindow(n, d) /\ (n # m \/ Day(x.at) # d)
      BY <1>3, <1>11, EventsStay
    <2>2. OfDay(n, d, "check_out")' = OfDay(n, d, "check_out")
      BY <1>2, <2>1, OtherDays DEF AttInv
    <2> QED  BY <1>5, <2>1, <2>2 DEF AttInv, OneOut
  <1> QED  BY <1>8, <1>9, <1>10, <1>12, <1>13 DEF AttInv

(* A request is over, time passes, places come and go.                     *)
LEMMA OtherAttStepsKeep ==
    ASSUME AttInv, event' = event, overlapped' = overlapped, overnight' = overnight,
           clock' \in Nat, clock <= clock', AttendanceAssumption,
           attHandler' \in [AttHandlers -> AttRequest],
           \A k \in AttHandlers : attHandler'[k].pc = "clock" => attHandler'[k] = attHandler[k]
    PROVE  AttInv'
  <1>1. AttTypeOK'
    BY DEF AttInv, AttTypeOK
  <1>2. PastEvents'
    <2> SUFFICES ASSUME NEW n \in AttMembers, NEW e \in event[n], ~e.corrected
                 PROVE  e.at < clock'
      BY DEF PastEvents
    <2>1. e.at < clock /\ e.at \in Nat /\ clock \in Nat
      BY EventType DEF AttInv, AttTypeOK, PastEvents
    <2> QED  BY <2>1
  <1>3. \A k \in AttHandlers : (Backed(attHandler[k]) /\ NoneSeen(attHandler[k]))'
    <2> TAKE k \in AttHandlers
    <2>1. CASE attHandler'[k].pc = "clock"
      <3>1. attHandler'[k] = attHandler[k] /\ Backed(attHandler[k]) /\ NoneSeen(attHandler[k])
        BY <2>1 DEF AttInv
      <3> QED  BY <3>1 DEF Backed, NoneSeen, CheckedInOn, Corrected, FitsWindow, OfDay
    <2>2. CASE attHandler'[k].pc # "clock"
      BY <2>2 DEF Backed, NoneSeen
    <2> QED  BY <2>1, <2>2
  <1>4. ASSUME NEW n \in AttMembers, NEW d \in Nat
        PROVE  (InBeforeOut(n, d) /\ OneOut(n, d))'
    <2>1. InBeforeOut(n, d) /\ OneOut(n, d)
      BY DEF AttInv
    <2>2. InBeforeOut(n, d)'
      BY <2>1 DEF InBeforeOut, Corrected
    <2>3. OneOut(n, d)'
      BY <2>1 DEF OneOut, Corrected, FitsWindow, OfDay
    <2> QED  BY <2>2, <2>3
  <1> QED  BY <1>1, <1>2, <1>3, <1>4 DEF AttInv

LEMMA AttKeeps ==
    ASSUME AttInv, AttendanceAssumption, [AttNext]_attVars
    PROVE  AttInv'
  <1>1. /\ clock \in Nat /\ attHandler \in [AttHandlers -> AttRequest]
        /\ AttResting \in AttRequest /\ AttResting.pc = "rest"
    BY DEF AttInv, AttTypeOK, AttResting, AttRequest, EventTypes
  <1>2. CASE UNCHANGED attVars
    BY <1>1, <1>2, OtherAttStepsKeep DEF attVars
  <1>3. ASSUME NEW p \in Places, CreateLocation(p) \/ DeleteLocation(p)
        PROVE  AttInv'
    BY <1>1, <1>3, OtherAttStepsKeep DEF CreateLocation, DeleteLocation
  <1>4. ASSUME NEW h \in AttHandlers, NEW m \in AttMembers,
               CheckIn(h, m) \/ CheckOut(h, m) \/ ClockByLocation(h, m)
        PROVE  AttInv'
    <2>1. LookBefore(h, m, "check_in")
          \/ /\ LookBefore(h, m, "check_out")
             /\ SeenToday(m, "check_in") /\ ~SeenToday(m, "check_out")
      BY <1>4 DEF CheckIn, CheckOut, ClockByLocation
    <2> QED  BY <2>1, LookSeesToday DEF EventTypes
  <1>5. ASSUME NEW h \in AttHandlers, NEW m \in AttMembers,
               NEW type \in EventTypes, NEW t \in 0..Horizon - 1, Correct(h, m, type, t)
        PROVE  AttInv'
    BY <1>5, CorrectKeepsDays
  <1>6. ASSUME NEW h \in AttHandlers, RecordEvent(h)
        PROVE  AttInv'
    BY <1>6, RecordKeepsDays
  <1>7. ASSUME NEW h \in AttHandlers, TellCorrected(h) \/ AttHandlerDies(h)
        PROVE  AttInv'
    <2>1. /\ attHandler' = [attHandler EXCEPT ![h] = AttResting]
          /\ UNCHANGED <<event, place, clock, overlapped, overnight>>
      BY <1>7 DEF TellCorrected, AttHandlerDies
    <2>2. /\ attHandler' \in [AttHandlers -> AttRequest]
          /\ \A k \in AttHandlers : attHandler'[k].pc = "clock" => attHandler'[k] = attHandler[k]
      BY <1>1, <2>1
    <2> QED  BY <1>1, <2>1, <2>2, OtherAttStepsKeep
  <1>8. CASE TimePasses
    BY <1>1, <1>8, OtherAttStepsKeep DEF TimePasses
  <1> QED  BY <1>2, <1>3, <1>4, <1>5, <1>6, <1>7, <1>8 DEF AttNext

LEMMA AttAlways == AttSpec => []AttInv
  <1>1. AttInit => AttInv
    BY AttInitially, AttendanceAssumption
  <1>2. AttInv /\ [AttNext]_attVars => AttInv'
    BY AttKeeps, AttendanceAssumption
  <1> QED  BY <1>1, <1>2, PTL DEF AttSpec

LEMMA LeastOfNaturals ==
    ASSUME NEW T \in SUBSET Nat, T # {}
    PROVE  \E n \in T : \A m \in T : n <= m
  <1>1. PICK n \in T : \A m \in T : ~ (<<m, n>> \in OpToRel(<, Nat))
    BY WFMin, NatLessThanWellFounded
  <1>2. \A m \in T : ~ (m < n)
    BY <1>1 DEF OpToRel
  <1> QED  BY <1>2

LEMMA GreatestOfBounded ==
    ASSUME NEW b \in Nat, NEW T \in SUBSET (0..b), T # {}
    PROVE  \E n \in T : \A m \in T : m <= n
  <1> DEFINE U == {b - t : t \in T}
  <1>1. U \subseteq Nat /\ U # {}
    <2>1. \A t \in T : t \in Nat /\ b - t \in Nat
      OBVIOUS
    <2>2. PICK t : t \in T
      OBVIOUS
    <2> QED  BY <2>1, <2>2
  <1>2. PICK u \in U : \A v \in U : u <= v
    BY <1>1, LeastOfNaturals
  <1>3. PICK t \in T : u = b - t
    OBVIOUS
  <1>4. \A m \in T : u <= b - m
    BY <1>2
  <1> QED  BY <1>3, <1>4

(* A day nobody corrected, or started before midnight, has a check-in when *)
(* it has a check-out, and the hours derived for it begin before they end. *)
THEOREM DerivedDaysAreInOrder == AttSpec => []DerivedDayIsInOrder
  <1>1. ASSUME AttInv, AttendanceAssumption PROVE DerivedDayIsInOrder
    <2> SUFFICES ASSUME NEW m \in AttMembers, NEW d \in 0..Day(Horizon),
                        OfDay(m, d, "check_out") # {},
                        ~Corrected(m, d), <<m, d>> \notin overnight
                 PROVE  /\ OfDay(m, d, "check_in") # {}
                        /\ \A t \in OfDay(m, d, "check_out") : CheckInAt(m, d) < t
                        /\ CheckInAt(m, d) < CheckOutAt(m, d)
      BY DEF DerivedDayIsInOrder
    <2>1. Horizon \in Nat /\ d \in Nat
      <3>1. Horizon \in Nat /\ Day(Horizon) \in Nat
        BY <1>1, DayOrder DEF AttendanceAssumption
      <3> QED  BY <3>1
    <2>2. PICK I : I = OfDay(m, d, "check_in")
      OBVIOUS
    <2>3. PICK O : O = OfDay(m, d, "check_out")
      OBVIOUS
    <2>4. I \in SUBSET Nat /\ O \in SUBSET (0..Horizon)
      BY <1>1, <2>1, <2>2, <2>3, EventType DEF AttInv, OfDay
    <2>5. InBeforeOut(m, d)
      BY <1>1, <2>1 DEF AttInv
    <2>6. \A t \in O : \E s \in I : s < t
      <3> SUFFICES ASSUME NEW f \in event[m], f.type = "check_out", Day(f.at) = d
                   PROVE  \E s \in I : s < f.at
        BY <2>3 DEF OfDay
      <3>1. PICK e \in event[m] : e.type = "check_in" /\ Day(e.at) = d /\ e.at < f.at
        BY <2>5 DEF InBeforeOut
      <3>2. e.at \in I
        BY <2>2, <3>1 DEF OfDay
      <3> QED  BY <3>1, <3>2
    <2>7. O # {} /\ I # {}
      BY <2>3, <2>6
    <2>8. \E n \in I : \A s \in I : n <= s
      BY <2>4, <2>7, LeastOfNaturals
    <2>9. \E n \in O : \A s \in O : s <= n
      BY <2>1, <2>4, <2>7, GreatestOfBounded
    <2>10. PICK in : in = CheckInAt(m, d)
      OBVIOUS
    <2>11. in \in I /\ \A s \in I : in <= s
      BY <2>2, <2>8, <2>10 DEF CheckInAt
    <2>12. PICK out : out = CheckOutAt(m, d)
      OBVIOUS
    <2>13. out \in O
      BY <2>3, <2>9, <2>12 DEF CheckOutAt
    <2>14. \A t \in O : in < t
      BY <2>4, <2>6, <2>11
    <2> QED  BY <2>2, <2>3, <2>7, <2>10, <2>12, <2>13, <2>14
  <1> QED  BY <1>1, AttAlways, AttendanceAssumption, PTL

(* No member is checked out twice on one day by requests that did not      *)
(* overlap, as long as a request reads all of the day's events.            *)
THEOREM CheckedOutOnceADay == AttSpec => []OneCheckOutToday
  <1>1. ASSUME AttInv, AttendanceAssumption PROVE OneCheckOutToday
    <2> SUFFICES ASSUME NEW m \in AttMembers,
                        ~Corrected(m, Day(clock)),
                        <<m, Day(clock)>> \notin overlapped \cup overnight,
                        FitsWindow(m, Day(clock))
                 PROVE  Cardinality(OfDay(m, Day(clock), "check_out")) <= 1
      BY DEF OneCheckOutToday, FitsWindow
    <2>1. PICK d \in Nat : d = Day(clock)
      BY <1>1, DayOrder DEF AttInv, AttTypeOK
    <2>2. PICK O : O = OfDay(m, d, "check_out")
      OBVIOUS
    <2>3. \A s, t \in O : s = t
      BY <1>1, <2>1, <2>2 DEF AttInv, OneOut
    <2>4. CASE O = {}
      <3>1. Cardinality(O) = 0
        BY <2>4, FS_EmptySet, Zenon
      <3> QED  BY <2>1, <2>2, <3>1
    <2>5. CASE O # {}
      <3>1. PICK s : O = {s}
        BY <2>3, <2>5
      <3>2. Cardinality(O) = 1
        BY <3>1, FS_Singleton, Zenon
      <3> QED  BY <2>1, <2>2, <3>2
    <2> QED  BY <2>4, <2>5
  <1> QED  BY <1>1, AttAlways, AttendanceAssumption, PTL

(***************************************************************************)
(* The dashboard.  What was committed since a summary began bounds, after  *)
(* each of its reads, how far what it has read is from what is there: the  *)
(* count of the team, then the members it missed, then its answer.         *)
(***************************************************************************)
Near(x, y, c) == x <= y + c /\ y <= x + c

Team == employed \cap summary.scope

Here == checkedIn \cap summary.scope

HereNotEmployed == Here \ employed

Missed == Here \ summary.present

DashTypeOK ==
    /\ employed \subseteq DashMembers /\ checkedIn \subseteq DashMembers
    /\ checkedOut \subseteq DashMembers /\ onLeave \subseteq DashMembers
    /\ summary \in [pc : {"none", "events", "leave", "answered"}, scope : SUBSET DashMembers,
                    total : Nat, present : SUBSET DashMembers, activeNow : Nat,
                    absent : Nat, onLeaveToday : Nat, changes : Nat]

ReadSoFar ==
    /\ summary.pc = "events" => Near(summary.total, Cardinality(Team), summary.changes)
    /\ summary.pc = "leave" =>
        /\ summary.present \subseteq Here
        /\ summary.total + Cardinality(Missed) <= Cardinality(Team) + summary.changes
        /\ Cardinality(Team) + Cardinality(Missed) <= summary.total + summary.changes
    /\ summary.pc = "answered" =>
        Near(summary.absent, Cardinality(AbsentList(summary.scope)),
             summary.changes + Cardinality(HereNotEmployed))

DashInv == DashTypeOK /\ ReadSoFar

(* Sets that differ in m only. *)
LEMMA DifferInOne ==
    ASSUME NEW S, NEW T, NEW m, IsFiniteSet(S), IsFiniteSet(T), S \ {m} = T \ {m}
    PROVE  Near(Cardinality(S), Cardinality(T), 1)
  <1>1. /\ Cardinality(S) \in Nat /\ Cardinality(T) \in Nat
        /\ IsFiniteSet(S \ {m}) /\ Cardinality(S \ {m}) \in Nat
    BY FS_CardinalityType, FS_Subset, Zenon
  <1>2. \/ m \in S /\ Cardinality(S \ {m}) = Cardinality(S) - 1
        \/ m \notin S /\ S \ {m} = S
    BY FS_RemoveElement, Zenon
  <1>3. \/ m \in T /\ Cardinality(T \ {m}) = Cardinality(T) - 1
        \/ m \notin T /\ T \ {m} = T
    BY FS_RemoveElement, Zenon
  <1>4. PICK a, b, c : /\ a = Cardinality(S) /\ b = Cardinality(T)
                       /\ c = Cardinality(S \ {m}) /\ c = Cardinality(T \ {m})
    BY Zenon
  <1>5. /\ a \in Nat /\ b \in Nat /\ c \in Nat
        /\ c = a \/ c = a - 1
        /\ c = b \/ c = b - 1
    BY <1>1, <1>2, <1>3, <1>4
  <1> QED  BY <1>4, <1>5 DEF Near

LEMMA TeamsAreFinite ==
    ASSUME DashboardAssumption
    PROVE  \A S \in SUBSET DashMembers : IsFiniteSet(S) /\ Cardinality(S) \in Nat
  BY FS_Subset, FS_CardinalityType, Zenon DEF DashboardAssumption

LEMMA TeamType ==
    ASSUME DashTypeOK
    PROVE  /\ Team \subseteq DashMembers /\ Here \subseteq DashMembers
           /\ HereNotEmployed \subseteq DashMembers /\ Missed \subseteq DashMembers
           /\ AbsentList(summary.scope) \subseteq DashMembers
  BY DEF Team, Here, HereNotEmployed, Missed, AbsentList, DashTypeOK

LEMMA DifferingTeams ==
    ASSUME DashboardAssumption, NEW S \in SUBSET DashMembers, NEW T \in SUBSET DashMembers,
           NEW m, S \ {m} = T \ {m}
    PROVE  Near(Cardinality(S), Cardinality(T), 1)
  BY TeamsAreFinite, DifferInOne

(* A commit about one member leaves the counts within one more change.     *)
LEMMA CommitKeeps ==
    ASSUME DashInv, DashTypeOK', DashboardAssumption, Disturb, NEW m,
           \/ UNCHANGED <<employed, checkedIn>> /\ onLeave \ {m} = onLeave' \ {m}
           \/ UNCHANGED <<employed, onLeave>> /\ checkedIn' = checkedIn \cup {m}
           \/ UNCHANGED <<checkedIn, onLeave>> /\ employed \ {m} = employed' \ {m}
    PROVE  DashInv'
  <1> SUFFICES ASSUME summary.pc # "none" PROVE ReadSoFar'
    BY DEF DashInv, Disturb, ReadSoFar
  <1>1. /\ summary'.changes = summary.changes + 1 /\ summary.changes \in Nat
        /\ summary'.pc = summary.pc /\ summary'.scope = summary.scope
        /\ summary'.total = summary.total /\ summary.total \in Nat
        /\ summary'.present = summary.present
        /\ summary'.absent = summary.absent /\ summary.absent \in Nat
    BY DEF Disturb, DashInv, DashTypeOK
  <1>2. PICK scope : scope = summary.scope /\ scope = summary'.scope
    BY <1>1
  <1>3. /\ Team \in SUBSET DashMembers /\ Team' \in SUBSET DashMembers
        /\ Missed \in SUBSET DashMembers /\ Missed' \in SUBSET DashMembers
        /\ HereNotEmployed \in SUBSET DashMembers /\ HereNotEmployed' \in SUBSET DashMembers
        /\ AbsentList(scope) \in SUBSET DashMembers /\ AbsentList(scope)' \in SUBSET DashMembers
    BY <1>1, <1>2 DEF DashInv, DashTypeOK, Team, Here, HereNotEmployed, Missed, AbsentList
  <1>4. PICK a, b, c, e, f, g, i, j :
            /\ a = Cardinality(Team) /\ b = Cardinality(Team')
            /\ c = Cardinality(Missed) /\ e = Cardinality(Missed')
            /\ f = Cardinality(HereNotEmployed) /\ g = Cardinality(HereNotEmployed')
            /\ i = Cardinality(AbsentList(scope)) /\ j = Cardinality(AbsentList(scope)')
    OBVIOUS
  <1>5. /\ a \in Nat /\ b \in Nat /\ c \in Nat /\ e \in Nat
        /\ f \in Nat /\ g \in Nat /\ i \in Nat /\ j \in Nat
    BY <1>3, <1>4, TeamsAreFinite, Zenon
  <1>6. \/ a = b /\ Near(c, e, 1)
        \/ Near(a, b, 1) /\ c = e
    <2>1. \/ Team = Team' /\ Missed \ {m} = Missed' \ {m}
          \/ Team \ {m} = Team' \ {m} /\ Missed = Missed'
      BY <1>1 DEF Team, Missed, Here
    <2> QED  BY <1>3, <1>4, <2>1, DifferingTeams
  <1>7. \/ i = j /\ Near(f, g, 1)
        \/ Near(i, j, 1) /\ f <= g
    <2>1. \/ AbsentList(scope) = AbsentList(scope)' /\ HereNotEmployed \ {m} = HereNotEmployed' \ {m}
          \/ /\ AbsentList(scope) \ {m} = AbsentList(scope)' \ {m}
             /\ HereNotEmployed \subseteq HereNotEmployed'
      <3>1. CASE UNCHANGED <<employed, checkedIn>> /\ onLeave \ {m} = onLeave' \ {m}
        BY <1>1, <3>1 DEF AbsentList, HereNotEmployed, Here
      <3>2. CASE UNCHANGED <<employed, onLeave>> /\ checkedIn' = checkedIn \cup {m}
        BY <1>1, <3>2 DEF AbsentList, HereNotEmployed, Here
      <3>3. CASE UNCHANGED <<checkedIn, onLeave>> /\ employed \ {m} = employed' \ {m}
        <4>1. HereNotEmployed \ {m} = HereNotEmployed' \ {m}
          BY <1>1, <3>3 DEF HereNotEmployed, Here
        <4>2. AbsentList(scope) \ {m} = AbsentList(scope)' \ {m}
          BY <3>3 DEF AbsentList
        <4>3. CASE m \in checkedIn
          BY <3>3, <4>1, <4>3 DEF AbsentList
        <4>4. CASE m \notin checkedIn
          BY <1>1, <3>3, <4>1, <4>2, <4>4 DEF HereNotEmployed, Here
        <4> QED  BY <4>3, <4>4
      <3> QED  BY <3>1, <3>2, <3>3
    <2>2. HereNotEmployed \subseteq HereNotEmployed' => f <= g
      BY <1>3, <1>4, TeamsAreFinite, FS_Subset, Zenon
    <2> QED  BY <1>3, <1>4, <2>1, <2>2, DifferingTeams
  <1>8. CASE summary.pc = "events"
    BY <1>1, <1>4, <1>5, <1>6, <1>8 DEF DashInv, ReadSoFar, Near
  <1>9. CASE summary.pc = "leave"
    <2>1. summary'.present \subseteq Here'
      BY <1>1, <1>9 DEF DashInv, ReadSoFar, Here
    <2> QED  BY <1>1, <1>4, <1>5, <1>6, <1>9, <2>1 DEF DashInv, ReadSoFar, Near
  <1>10. CASE summary.pc = "answered"
    <2>1. AbsentList(summary.scope)' = AbsentList(scope)'
      BY <1>2 DEF AbsentList
    <2> QED  BY <1>1, <1>2, <1>4, <1>5, <1>7, <1>10, <2>1 DEF DashInv, ReadSoFar, Near
  <1> QED  BY <1>8, <1>9, <1>10 DEF DashInv, DashTypeOK

LEMMA DisjointCount ==
    ASSUME NEW S, NEW T, IsFiniteSet(S), IsFiniteSet(T), S \cap T = {}
    PROVE  Cardinality(S \cup T) = Cardinality(S) + Cardinality(T)
  <1>1. Cardinality(S \cap T) = 0
    BY FS_EmptySet, Zenon
  <1>2. Cardinality(S \cup T) = Cardinality(S) + Cardinality(T) - Cardinality(S \cap T)
    BY FS_Union, Zenon
  <1>3. PICK a, b, c : a = Cardinality(S) /\ b = Cardinality(T) /\ c = Cardinality(S \cup T)
    OBVIOUS
  <1>4. a \in Nat /\ b \in Nat
    BY <1>3, FS_CardinalityType, Zenon
  <1> QED  BY <1>1, <1>2, <1>3, <1>4

(* What is left of the team E after those who were here (P, of the C who   *)
(* are) and those of it on leave, in the sizes of the sets.                *)
Accounted(E, C, P, L) ==
    \E k \in Nat :
        /\ k <= Cardinality(C \ P)
        /\ Cardinality(E) + Cardinality(C \ E)
            = Cardinality(P) + Cardinality((L \cap E) \ P) + Cardinality(E \ (C \cup L)) + k

LEMMA AbsentByCounting ==
    ASSUME NEW E, NEW C, NEW P, NEW L, IsFiniteSet(E), IsFiniteSet(C), P \subseteq C
    PROVE  Accounted(E, C, P, L)
  <1>1. PICK A, X, Y, Z, B, W, M :
            /\ A = (L \cap E) \ P /\ X = E \ (C \cup L) /\ B = E \cap C
            /\ Y = (E \cap L) \ C /\ Z = (L \cap E \cap C) \ P
            /\ W = C \ E /\ M = C \ P
    OBVIOUS
  <1>2. /\ A \subseteq E /\ X \subseteq E /\ B \subseteq E /\ Y \subseteq E
        /\ P \subseteq C /\ W \subseteq C /\ M \subseteq C /\ Z \subseteq M
    BY <1>1
  <1>3. /\ \A S : S \subseteq E => IsFiniteSet(S) /\ Cardinality(S) \in Nat
        /\ \A S : S \subseteq C => IsFiniteSet(S) /\ Cardinality(S) \in Nat
    BY FS_Subset, FS_CardinalityType, Zenon
  <1>4. /\ IsFiniteSet(A) /\ IsFiniteSet(X) /\ IsFiniteSet(B) /\ IsFiniteSet(Y)
        /\ IsFiniteSet(P) /\ IsFiniteSet(W) /\ IsFiniteSet(M) /\ IsFiniteSet(Z)
        /\ Cardinality(A) \in Nat /\ Cardinality(X) \in Nat /\ Cardinality(B) \in Nat
        /\ Cardinality(Y) \in Nat /\ Cardinality(P) \in Nat /\ Cardinality(W) \in Nat
        /\ Cardinality(M) \in Nat /\ Cardinality(Z) \in Nat
    <2>1. Z \subseteq C
      BY <1>2
    <2> QED  BY <1>2, <1>3, <2>1, Zenon
  <1>5. Cardinality(Z) <= Cardinality(M)
    BY <1>2, <1>4, FS_Subset, Zenon
  <1>6. IsFiniteSet(X \cup B) /\ (X \cup B) \cup Y = E /\ (X \cup B) \cap Y = {} /\ X \cap B = {}
    <2>1. X \cup B \subseteq E
      BY <1>2
    <2>2. IsFiniteSet(X \cup B)
      BY <1>3, <2>1, Zenon
    <2> QED  BY <1>1, <2>2
  <1>7. Cardinality(E) = Cardinality(X \cup B) + Cardinality(Y)
    BY <1>4, <1>6, DisjointCount, Zenon
  <1>8. Cardinality(X \cup B) = Cardinality(X) + Cardinality(B)
    BY <1>4, <1>6, DisjointCount, Zenon
  <1>9. Cardinality(C) = Cardinality(B) + Cardinality(W)
    <2>1. B \cup W = C /\ B \cap W = {}
      BY <1>1
    <2> QED  BY <1>4, <2>1, DisjointCount, Zenon
  <1>10. Cardinality(C) = Cardinality(P) + Cardinality(M)
    <2>1. P \cup M = C /\ P \cap M = {}
      BY <1>1
    <2> QED  BY <1>4, <2>1, DisjointCount, Zenon
  <1>11. Cardinality(A) = Cardinality(Y) + Cardinality(Z)
    <2>1. Y \cup Z = A /\ Y \cap Z = {}
      BY <1>1
    <2> QED  BY <1>4, <2>1, DisjointCount, Zenon
  <1>12. PICK a, x, y, z, b, w, m, p, u, c, e :
            /\ a = Cardinality(A) /\ x = Cardinality(X) /\ y = Cardinality(Y)
            /\ z = Cardinality(Z) /\ b = Cardinality(B) /\ w = Cardinality(W)
            /\ m = Cardinality(M) /\ p = Cardinality(P) /\ u = Cardinality(X \cup B)
            /\ c = Cardinality(C) /\ e = Cardinality(E)
    OBVIOUS
  <1>13. /\ a \in Nat /\ x \in Nat /\ y \in Nat /\ z \in Nat /\ b \in Nat
         /\ w \in Nat /\ m \in Nat /\ p \in Nat /\ z <= m
         /\ e = u + y /\ u = x + b /\ c = b + w /\ c = p + m /\ a = y + z
    BY <1>4, <1>5, <1>7, <1>8, <1>9, <1>10, <1>11, <1>12
  <1>14. m - z \in Nat /\ m - z <= m /\ e + w = p + a + x + (m - z)
    BY <1>13
  <1> QED  BY <1>1, <1>12, <1>14 DEF Accounted

LEMMA AnswerKeeps ==
    ASSUME DashInv, DashboardAssumption, ReadLeaveAndAnswer
    PROVE  DashInv'
  <1>1. PICK s : s = summary
    OBVIOUS
  <1>2. PICK E, C, L, P : E = Team /\ C = Here /\ L = onLeave /\ P = s.present
    OBVIOUS
  <1>3. /\ E \subseteq DashMembers /\ C \subseteq DashMembers /\ P \subseteq C
        /\ Away = (L \cap E) \ P /\ HereNotEmployed = C \ E /\ Missed = C \ P
        /\ AbsentList(s.scope) = E \ (C \cup L)
    BY <1>1, <1>2 DEF DashInv, DashTypeOK, ReadSoFar, ReadLeaveAndAnswer,
        Team, Here, Away, HereNotEmployed, Missed, AbsentList
  <1>4. PICK a, x, w, m, p, e :
            /\ a = Cardinality((L \cap E) \ P) /\ x = Cardinality(E \ (C \cup L))
            /\ w = Cardinality(C \ E) /\ m = Cardinality(C \ P)
            /\ p = Cardinality(P) /\ e = Cardinality(E)
    OBVIOUS
  <1>5. a \in Nat /\ x \in Nat /\ w \in Nat /\ m \in Nat /\ p \in Nat /\ e \in Nat
    <2>1. /\ (L \cap E) \ P \in SUBSET DashMembers /\ E \ (C \cup L) \in SUBSET DashMembers
          /\ C \ E \in SUBSET DashMembers /\ C \ P \in SUBSET DashMembers
          /\ P \in SUBSET DashMembers /\ E \in SUBSET DashMembers
      BY <1>3
    <2> QED  BY <1>4, <2>1, TeamsAreFinite, Zenon
  <1>6. PICK k \in Nat : k <= m /\ e + w = p + a + x + k
    <2>1. IsFiniteSet(E) /\ IsFiniteSet(C) /\ P \subseteq C
      BY <1>3, TeamsAreFinite
    <2>2. Accounted(E, C, P, L)
      BY <2>1, AbsentByCounting, Zenon
    <2> QED  BY <1>4, <2>2 DEF Accounted
  <1>7. PICK t, n \in Nat : t = s.total /\ n = s.changes
    BY <1>1 DEF DashInv, DashTypeOK
  <1>8. t + m <= e + n /\ e + m <= t + n
    BY <1>1, <1>2, <1>3, <1>4, <1>7 DEF DashInv, ReadSoFar, ReadLeaveAndAnswer
  <1>9. PICK q : q = IF t > p + a THEN t - (p + a) ELSE 0
    OBVIOUS
  <1>10. q \in Nat /\ Near(q, x, n + w)
    BY <1>5, <1>6, <1>7, <1>8, <1>9 DEF Near
  <1>11. /\ summary' = [s EXCEPT !.pc = "answered", !.onLeaveToday = a, !.absent = q]
         /\ UNCHANGED <<employed, checkedIn, checkedOut, onLeave>>
    BY <1>1, <1>2, <1>3, <1>4, <1>7, <1>9 DEF ReadLeaveAndAnswer
  <1>12. DashTypeOK'
    BY <1>1, <1>5, <1>10, <1>11 DEF DashInv, DashTypeOK
  <1>13. /\ summary'.pc = "answered" /\ summary'.absent = q
         /\ summary'.changes = n /\ summary'.scope = s.scope
    BY <1>1, <1>7, <1>11 DEF DashInv, DashTypeOK
  <1>14. HereNotEmployed' = HereNotEmployed /\ AbsentList(summary.scope)' = AbsentList(s.scope)
    BY <1>1, <1>11, <1>13 DEF HereNotEmployed, Here, AbsentList
  <1> QED  BY <1>3, <1>4, <1>10, <1>12, <1>13, <1>14 DEF DashInv, ReadSoFar

LEMMA DashKeeps ==
    ASSUME DashInv, DashboardAssumption, [DashNext]_dashVars
    PROVE  DashInv'
  <1>1. CASE UNCHANGED dashVars
    BY <1>1 DEF dashVars, DashInv, DashTypeOK, ReadSoFar, Team, Here, HereNotEmployed,
        Missed, AbsentList
  <1>2. ASSUME NEW m \in DashMembers,
               CheckInToday(m) \/ CheckOutToday(m) \/ LeaveApproved(m) \/ EmploymentChanges(m)
        PROVE  DashInv'
    <2>1. Disturb
      BY <1>2 DEF CheckInToday, CheckOutToday, LeaveApproved, EmploymentChanges
    <2>2. summary' = summary
          \/ summary' = [summary EXCEPT !.changes = summary.changes + 1]
      BY <2>1 DEF Disturb
    <2>3. /\ employed' \subseteq DashMembers /\ checkedIn' \subseteq DashMembers
          /\ checkedOut' \subseteq DashMembers /\ onLeave' \subseteq DashMembers
      BY <1>2 DEF CheckInToday, CheckOutToday, LeaveApproved, EmploymentChanges,
          DashInv, DashTypeOK
    <2>4. DashTypeOK'
      BY <2>2, <2>3 DEF DashInv, DashTypeOK
    <2>5. \/ UNCHANGED <<employed, checkedIn>> /\ onLeave \ {m} = onLeave' \ {m}
          \/ UNCHANGED <<employed, onLeave>> /\ checkedIn' = checkedIn \cup {m}
          \/ UNCHANGED <<checkedIn, onLeave>> /\ employed \ {m} = employed' \ {m}
      BY <1>2 DEF CheckInToday, CheckOutToday, LeaveApproved, EmploymentChanges
    <2> QED  BY <2>1, <2>4, <2>5, CommitKeeps
  <1>3. ASSUME NEW role \in DashRoles, CountEmployees(role)
        PROVE  DashInv'
    <2>1. PICK scope \in Scope(role) :
            summary' = [NoSummary EXCEPT !.pc = "events", !.scope = scope,
                                         !.total = Cardinality(employed \cap scope)]
      BY <1>3 DEF CountEmployees
    <2>2. scope \subseteq DashMembers
      BY DEF Scope, DashboardAssumption, DashRoles
    <2>3. PICK t \in Nat : t = Cardinality(employed \cap scope)
      BY <2>2, TeamsAreFinite
    <2>4. UNCHANGED <<employed, checkedIn, checkedOut, onLeave>>
      BY <1>3 DEF CountEmployees
    <2>5. DashTypeOK'
      BY <2>1, <2>2, <2>3, <2>4 DEF DashInv, DashTypeOK, NoSummary
    <2>6. /\ summary'.pc = "events" /\ summary'.scope = scope /\ summary'.total = t
          /\ summary'.changes = 0 /\ Cardinality(Team') = t
      BY <2>1, <2>3, <2>4 DEF NoSummary, Team
    <2> QED  BY <2>3, <2>5, <2>6 DEF DashInv, ReadSoFar, Near
  <1>4. CASE ReadTodaysEvents
    <2>1. PICK n : n = Cardinality((checkedIn \ checkedOut) \cap summary.scope)
      OBVIOUS
    <2>2. n \in Nat
      <3>1. (checkedIn \ checkedOut) \cap summary.scope \in SUBSET DashMembers
        BY DEF DashInv, DashTypeOK
      <3> QED  BY <2>1, <3>1, TeamsAreFinite, Zenon
    <2>3. /\ summary' = [summary EXCEPT !.pc = "leave", !.present = Here, !.activeNow = n]
          /\ UNCHANGED <<employed, checkedIn, checkedOut, onLeave>>
      BY <1>4, <2>1 DEF ReadTodaysEvents, Here
    <2>4. DashTypeOK'
      BY <2>2, <2>3 DEF DashInv, DashTypeOK, Here
    <2>5. /\ summary'.pc = "leave" /\ summary'.present = Here' /\ summary'.total = summary.total
          /\ summary'.changes = summary.changes /\ Team' = Team /\ Missed' = {}
      BY <2>3 DEF DashInv, DashTypeOK, Here, Team, Missed
    <2>6. Cardinality(Missed') = 0
      BY <2>5, FS_EmptySet, Zenon
    <2>7. PICK e, t, c \in Nat : e = Cardinality(Team) /\ t = summary.total /\ c = summary.changes
      BY TeamType, TeamsAreFinite DEF DashInv, DashTypeOK
    <2>8. e <= t + c /\ t <= e + c
      BY <1>4, <2>7 DEF DashInv, ReadSoFar, ReadTodaysEvents, Near
    <2> QED  BY <2>4, <2>5, <2>6, <2>7, <2>8 DEF DashInv, ReadSoFar
  <1>5. CASE ReadLeaveAndAnswer
    BY <1>5, AnswerKeeps
  <1>6. CASE SummaryShown
    BY <1>6 DEF SummaryShown, DashInv, DashTypeOK, ReadSoFar, NoSummary
  <1> QED  BY <1>1, <1>2, <1>3, <1>4, <1>5, <1>6 DEF DashNext

(* The number of the absent differs from the list under it by no more than *)
(* what was committed meanwhile and those here who are not employed.       *)
THEOREM AbsentStaysNearTheList == DashSpec => []SummaryDriftIsBounded
  <1>1. DashInit => DashInv
    BY DashboardAssumption DEF DashInit, DashInv, DashTypeOK, ReadSoFar, NoSummary
  <1>2. DashInv /\ [DashNext]_dashVars => DashInv'
    BY DashKeeps, DashboardAssumption
  <1>3. ASSUME DashInv, DashboardAssumption PROVE SummaryDriftIsBounded
    <2> SUFFICES ASSUME summary.pc = "answered"
                 PROVE  LET listed == Cardinality(AbsentList(summary.scope))
                            drift == summary.changes + Cardinality(HereNotEmployed)
                        IN  summary.absent \in listed - drift .. listed + drift
      BY DEF SummaryDriftIsBounded, HereNotEmployed, Here
    <2>1. PICK x, w, q, n \in Nat :
            /\ x = Cardinality(AbsentList(summary.scope)) /\ w = Cardinality(HereNotEmployed)
            /\ q = summary.absent /\ n = summary.changes
      BY <1>3, TeamType, TeamsAreFinite DEF DashInv, DashTypeOK
    <2>2. Near(q, x, n + w)
      BY <1>3, <2>1 DEF DashInv, ReadSoFar
    <2> QED  BY <2>1, <2>2 DEF Near
  <1> QED  BY <1>1, <1>2, <1>3, DashboardAssumption, PTL DEF DashSpec

(***************************************************************************)
(* Permissions.  The map was made from the role that is in the token, and  *)
(* no route that it speaks of stands anywhere else, more openly, than      *)
(* where the map says.                                                     *)
(***************************************************************************)
ForManagers == CalledFor.canManageLocations

ForAdmins ==
    UNION {CalledFor[p] : p \in {"canCorrectAttendance", "canCreateEditDeleteAnyRecord",
                                 "canAssignRolesAndPermissions", "canManageTenantSettings"}}

(* Controller c lets nobody else in to what is for managers, or for the    *)
(* Super Admin.                                                            *)
KeepsApart(c) ==
    /\ "anyone" \in DOMAIN c => \A r \in c.anyone : r \notin ForManagers /\ r \notin ForAdmins
    /\ "signedIn" \in DOMAIN c => \A r \in c.signedIn : r \notin ForManagers /\ r \notin ForAdmins
    /\ "staff" \in DOMAIN c => \A r \in c.staff : r \notin ForManagers /\ r \notin ForAdmins
    /\ "manager" \in DOMAIN c => \A r \in c.manager : r \notin ForAdmins

LEMMA ForWhom ==
    /\ ForManagers = {"POST locations", "PATCH locations/:id", "DELETE locations/:id"}
    /\ ForAdmins =
        {"POST attendance/:membershipId/correct",
         "POST employees", "PATCH employees/:id", "POST racks", "PATCH racks/:id",
         "DELETE racks/:id", "POST shifts", "PATCH shifts/:id", "DELETE shifts/:id",
         "POST tasks", "DELETE tasks/:id", "POST counters", "PATCH counters/:id",
         "DELETE counters/:id", "POST departments", "PATCH departments/:id",
         "DELETE departments/:id", "POST advances", "PATCH advances/:id",
         "DELETE advances/:id", "POST documents/:membershipId/:type", "POST products",
         "POST leave/delegations", "PATCH leave/delegations/:id",
         "PATCH tenants/me", "PATCH payroll/settings"}
  <1>1. /\ LocationsController.manager
             = {"POST locations", "PATCH locations/:id", "DELETE locations/:id"}
        /\ AttendanceController.admin = {"POST attendance/:membershipId/correct"}
    BY DEF LocationsController, AttendanceController
  <1>2. ForAdmins = CalledFor.canCorrectAttendance \cup CalledFor.canCreateEditDeleteAnyRecord
            \cup CalledFor.canAssignRolesAndPermissions \cup CalledFor.canManageTenantSettings
    BY DEF ForAdmins
  <1> QED  BY <1>1, <1>2 DEF ForManagers, CalledFor

LEMMA ControllersKeepApart == \A c \in Controllers : KeepsApart(c)
  <1>1. KeepsApart(AdvanceCategoriesController)
    BY ForWhom DEF KeepsApart, AdvanceCategoriesController
  <1>2. KeepsApart(AdvanceRequestsController)
    BY ForWhom DEF KeepsApart, AdvanceRequestsController
  <1>3. KeepsApart(AdvancesController)
    BY ForWhom DEF KeepsApart, AdvancesController
  <1>4. KeepsApart(ApiKeysController)
    BY ForWhom DEF KeepsApart, ApiKeysController
  <1>5. KeepsApart(AttendanceController)
    BY ForWhom DEF KeepsApart, AttendanceController
  <1>6. KeepsApart(AuthController)
    BY ForWhom DEF KeepsApart, AuthController
  <1>7. KeepsApart(BillsController)
    BY ForWhom DEF KeepsApart, BillsController
  <1>8. KeepsApart(BusinessTypesController)
    BY ForWhom DEF KeepsApart, BusinessTypesController
  <1>9. KeepsApart(CountersController)
    BY ForWhom DEF KeepsApart, CountersController
  <1>10. KeepsApart(DashboardController)
    BY ForWhom DEF KeepsApart, DashboardController
  <1>11. KeepsApart(DocumentsController)
    BY ForWhom DEF KeepsApart, DocumentsController
  <1>12. KeepsApart(EmployeesController)
    BY ForWhom DEF KeepsApart, EmployeesController
  <1>13. KeepsApart(ExternalController)
    BY ForWhom DEF KeepsApart, ExternalController
  <1>14. KeepsApart(LeaveController)
    BY ForWhom DEF KeepsApart, LeaveController
  <1>15. KeepsApart(LocationsController)
    BY ForWhom DEF KeepsApart, LocationsController
  <1>16. KeepsApart(NotificationsController)
    BY ForWhom DEF KeepsApart, NotificationsController
  <1>17. KeepsApart(PayrollController)
    BY ForWhom DEF KeepsApart, PayrollController
  <1>18. KeepsApart(PlansController)
    BY ForWhom DEF KeepsApart, PlansController
  <1>19. KeepsApart(ProductsController)
    BY ForWhom DEF KeepsApart, ProductsController
  <1>20. KeepsApart(RacksController)
    BY ForWhom DEF KeepsApart, RacksController
  <1>21. KeepsApart(ReportsController)
    BY ForWhom DEF KeepsApart, ReportsController
  <1>22. KeepsApart(ShiftsController)
    BY ForWhom DEF KeepsApart, ShiftsController
  <1>23. KeepsApart(TasksController)
    BY ForWhom DEF KeepsApart, TasksController
  <1>24. KeepsApart(TenantMembershipsController)
    BY ForWhom DEF KeepsApart, TenantMembershipsController
  <1>25. KeepsApart(TenantsController)
    BY ForWhom DEF KeepsApart, TenantsController
  <1>26. KeepsApart(VendorsController)
    BY ForWhom DEF KeepsApart, VendorsController
  <1> QED  BY <1>1, <1>2, <1>3, <1>4, <1>5, <1>6, <1>7, <1>8, <1>9, <1>10, <1>11, <1>12, <1>13, <1>14, <1>15, <1>16, <1>17, <1>18, <1>19, <1>20, <1>21, <1>22, <1>23, <1>24, <1>25, <1>26 DEF Controllers

(* Each route the map speaks of stands where the map says, and there only. *)
LEMMA RoutesApart ==
    /\ ForManagers \subseteq Behind["manager"] /\ ForAdmins \subseteq Behind["admin"]
    /\ \A r \in ForManagers \cup ForAdmins :
        r \notin Behind["anyone"] /\ r \notin Behind["signedIn"] /\ r \notin Behind["staff"]
    /\ \A r \in ForAdmins : r \notin Behind["manager"]
  <1>1. \A kind \in {"anyone", "signedIn", "admin", "manager", "staff", "keyed"} :
            \A r : r \in Behind[kind] <=> \E c \in Controllers : kind \in DOMAIN c /\ r \in c[kind]
    BY DEF Behind
  <1>2. /\ \A r \in ForManagers \cup ForAdmins :
            r \notin Behind["anyone"] /\ r \notin Behind["signedIn"] /\ r \notin Behind["staff"]
        /\ \A r \in ForAdmins : r \notin Behind["manager"]
    BY <1>1, ControllersKeepApart DEF KeepsApart
  <1>3. ForManagers \subseteq Behind["manager"]
    <2>1. LocationsController \in Controllers
      BY DEF Controllers
    <2>2. "manager" \in DOMAIN LocationsController /\ ForManagers = LocationsController.manager
      BY ForWhom DEF LocationsController
    <2> QED  BY <1>1, <2>1, <2>2
  <1>4. ASSUME NEW c \in Controllers, "admin" \in DOMAIN c
        PROVE  c.admin \subseteq Behind["admin"]
    BY <1>1, <1>4
  <1>5. PICK A : A = Behind["admin"]
    OBVIOUS
  <1>6. /\ AdvancesController.admin \subseteq A /\ AttendanceController.admin \subseteq A
        /\ CountersController.admin \subseteq A /\ DocumentsController.admin \subseteq A
        /\ EmployeesController.admin \subseteq A /\ LeaveController.admin \subseteq A
        /\ PayrollController.admin \subseteq A /\ ProductsController.admin \subseteq A
        /\ RacksController.admin \subseteq A /\ ShiftsController.admin \subseteq A
        /\ TasksController.admin \subseteq A /\ TenantsController.admin \subseteq A
    <2>1. /\ {AdvancesController, AttendanceController, CountersController,
              DocumentsController, EmployeesController, LeaveController, PayrollController,
              ProductsController, RacksController, ShiftsController, TasksController,
              TenantsController} \subseteq Controllers
      BY DEF Controllers
    <2>2. /\ "admin" \in DOMAIN AdvancesController /\ "admin" \in DOMAIN AttendanceController
          /\ "admin" \in DOMAIN CountersController /\ "admin" \in DOMAIN DocumentsController
          /\ "admin" \in DOMAIN EmployeesController /\ "admin" \in DOMAIN LeaveController
          /\ "admin" \in DOMAIN PayrollController /\ "admin" \in DOMAIN ProductsController
          /\ "admin" \in DOMAIN RacksController /\ "admin" \in DOMAIN ShiftsController
          /\ "admin" \in DOMAIN TasksController /\ "admin" \in DOMAIN TenantsController
      BY DEF AdvancesController, AttendanceController, CountersController, DocumentsController,
          EmployeesController, LeaveController, PayrollController, ProductsController,
          RacksController, ShiftsController, TasksController, TenantsController
    <2> QED  BY <1>4, <1>5, <2>1, <2>2
  <1>7. ForAdmins \subseteq A
    <2> SUFFICES ASSUME NEW r \in ForAdmins PROVE r \in A
      OBVIOUS
    <2>1. r \in AdvancesController.admin \cup AttendanceController.admin
            \cup CountersController.admin \cup DocumentsController.admin
            \cup EmployeesController.admin \cup LeaveController.admin
            \cup PayrollController.admin \cup ProductsController.admin
            \cup RacksController.admin \cup ShiftsController.admin
            \cup TasksController.admin \cup TenantsController.admin
      BY ForWhom DEF AdvancesController, AttendanceController, CountersController,
          DocumentsController, EmployeesController, LeaveController, PayrollController,
          ProductsController, RacksController, ShiftsController, TasksController,
          TenantsController
    <2> QED  BY <1>6, <2>1
  <1> QED  BY <1>2, <1>3, <1>5, <1>7

Maps == {effectivePermissions(role, delegated) : role \in Roles, delegated \in BOOLEAN}

AuthorityTypeOK ==
    /\ access \in Roles \cup {"none"} /\ expired \in BOOLEAN
    /\ approver \in BOOLEAN
    /\ offered \in [current : BOOLEAN, map : Maps]

OfferedByToken ==
    offered.current =>
        /\ access \in Roles
        /\ \E delegated \in BOOLEAN : offered.map = effectivePermissions(access, delegated)

AuthorityInv == AuthorityTypeOK /\ OfferedByToken

LEMMA AuthorityKeeps ==
    ASSUME AuthorityInv, [AuthorityNext]_authorityVars
    PROVE  AuthorityInv'
  <1>1. ASSUME UNCHANGED <<access, offered>>, expired' \in BOOLEAN, approver' \in BOOLEAN
        PROVE  AuthorityInv'
    BY <1>1 DEF AuthorityInv, AuthorityTypeOK, OfferedByToken
  <1>2. ASSUME NEW role \in Roles, NewAccess(role) PROVE AuthorityInv'
    <2>1. offered' = [offered EXCEPT !.current = FALSE] /\ access' = role
          /\ expired' = FALSE /\ approver' = approver
      BY <1>2 DEF NewAccess
    <2>2. offered' \in [current : BOOLEAN, map : Maps] /\ ~offered'.current
      BY <2>1 DEF AuthorityInv, AuthorityTypeOK
    <2> QED  BY <2>1, <2>2 DEF AuthorityInv, AuthorityTypeOK, OfferedByToken
  <1>3. CASE MyPermissions
    <2>1. PICK delegated \in BOOLEAN : delegated = (access \in TenantRoles /\ approver)
      BY DEF AuthorityInv, AuthorityTypeOK
    <2>2. PICK map : map = effectivePermissions(access, delegated)
      OBVIOUS
    <2>3. /\ offered' = [current |-> TRUE, map |-> map] /\ access \in Roles
          /\ access' = access /\ expired' = expired /\ approver' = approver
      BY <1>3, <2>1, <2>2 DEF MyPermissions, AuthorityInv, AuthorityTypeOK
    <2>4. map \in Maps
      BY <2>2, <2>3 DEF Maps
    <2> QED  BY <2>2, <2>3, <2>4 DEF AuthorityInv, AuthorityTypeOK, OfferedByToken
  <1>4. CASE AccessExpires \/ Refresh \/ ApproverChanges
    BY <1>1, <1>4 DEF AccessExpires, Refresh, ApproverChanges, AuthorityInv, AuthorityTypeOK
  <1>5. ASSUME NEW role \in TenantRoles, JoinCompany(role) \/ LeaveCompany(role)
        PROVE  AuthorityInv'
    BY <1>1, <1>5 DEF JoinCompany, LeaveCompany, AuthorityInv, AuthorityTypeOK
  <1>6. ASSUME NEW k \in ApiKeys,
               CreateApiKey(k) \/ RevokeApiKey(k) \/ ApiKeyGuard(k) \/ ServeKeyed(k)
        PROVE  AuthorityInv'
    BY <1>1, <1>6 DEF CreateApiKey, RevokeApiKey, ApiKeyGuard, ServeKeyed,
        AuthorityInv, AuthorityTypeOK
  <1>7. CASE UNCHANGED authorityVars
    BY <1>1, <1>7 DEF authorityVars, AuthorityInv, AuthorityTypeOK
  <1> QED  BY <1>2, <1>3, <1>4, <1>5, <1>6, <1>7 DEF AuthorityNext

LEMMA MapOffers ==
    ASSUME NEW role, NEW delegated
    PROVE  LET map == effectivePermissions(role, delegated)
           IN  /\ map["canManageLocations"] = canManageLocations(role)
               /\ map["canCorrectAttendance"] = canCorrectAttendance(role)
               /\ map["canCreateEditDeleteAnyRecord"] = canCreateEditDeleteAnyRecord(role)
               /\ map["canAssignRolesAndPermissions"] = canAssignRolesAndPermissions(role)
               /\ map["canManageTenantSettings"] = canManageTenantSettings(role)
  BY DEF effectivePermissions

(* Whoever is not of the platform's staff is served what the map offers,   *)
(* and refused the rest of what it speaks of, until the session ends.      *)
THEOREM MapSaysWhatGuardsDo == AuthoritySpec => []MapAgreesWithGuards
  <1>1. ASSUME AuthorityInit PROVE AuthorityInv
    <2>1. PICK map : map = effectivePermissions("EMPLOYEE", FALSE)
      OBVIOUS
    <2>2. map \in Maps
      <3>1. PICK role \in Roles : role = "EMPLOYEE"
        BY DEF Roles, TenantRoles
      <3>2. PICK delegated \in BOOLEAN : delegated = FALSE
        OBVIOUS
      <3>3. map = effectivePermissions(role, delegated)
        BY <2>1, <3>1, <3>2
      <3> QED  BY <3>3 DEF Maps
    <2>3. offered = [current |-> FALSE, map |-> map]
      BY <1>1, <2>1 DEF AuthorityInit, NothingOffered
    <2>4. offered \in [current : BOOLEAN, map : Maps] /\ ~offered.current
      BY <2>2, <2>3
    <2>5. access = "none" /\ expired = FALSE /\ approver = FALSE
      BY <1>1 DEF AuthorityInit
    <2> QED  BY <2>4, <2>5 DEF AuthorityInv, AuthorityTypeOK, OfferedByToken
  <1>2. AuthorityInv /\ [AuthorityNext]_authorityVars => AuthorityInv'
    BY AuthorityKeeps
  <1>3. ASSUME AuthorityInv PROVE MapAgreesWithGuards
    <2> SUFFICES ASSUME offered.current, ~expired, access # "PUGEY_STAFF",
                        NEW p \in DOMAIN CalledFor, NEW route \in CalledFor[p]
                 PROVE  route \in Routes /\ (Served(route) <=> offered.map[p])
      BY DEF MapAgreesWithGuards
    <2>1. access \in TenantRoles /\ access # "none"
      BY <1>3 DEF AuthorityInv, OfferedByToken, Roles, TenantRoles
    <2>2. PICK delegated \in BOOLEAN : offered.map = effectivePermissions(access, delegated)
      BY <1>3 DEF AuthorityInv, OfferedByToken
    <2>3. p \in {"canManageLocations", "canCorrectAttendance", "canCreateEditDeleteAnyRecord",
                 "canAssignRolesAndPermissions", "canManageTenantSettings"}
      BY DEF CalledFor
    <2>4. CASE p = "canManageLocations"
      <3>1. route \in ForManagers
        BY <2>4 DEF ForManagers
      <3>2. /\ route \in Behind["manager"]
            /\ route \notin Behind["anyone"] /\ route \notin Behind["signedIn"]
            /\ route \notin Behind["staff"]
        BY <3>1, RoutesApart
      <3>3. Served(route) <=> access \in {"SUPER_ADMIN", "SUPERVISOR"}
        <4>1. RolesGuard(access, {"SUPER_ADMIN", "SUPERVISOR"})
              <=> access \in {"SUPER_ADMIN", "SUPERVISOR"}
          BY <2>1 DEF RolesGuard
        <4>2. RolesGuard(access, {"SUPER_ADMIN"}) => access \in {"SUPER_ADMIN", "SUPERVISOR"}
          BY DEF RolesGuard
        <4> QED  BY <2>1, <3>2, <4>1, <4>2 DEF Served
      <3>4. offered.map[p] <=> access \in {"SUPER_ADMIN", "SUPERVISOR"}
        BY <2>2, <2>4, MapOffers, Zenon DEF canManageLocations
      <3>5. route \in Routes
        BY <3>2 DEF Routes, Behind
      <3> QED  BY <3>3, <3>4, <3>5
    <2>5. CASE p # "canManageLocations"
      <3>1. route \in ForAdmins
        BY <2>3, <2>5 DEF ForAdmins
      <3>2. /\ route \in Behind["admin"]
            /\ route \notin Behind["anyone"] /\ route \notin Behind["signedIn"]
            /\ route \notin Behind["staff"] /\ route \notin Behind["manager"]
        BY <3>1, RoutesApart
      <3>3. Served(route) <=> access = "SUPER_ADMIN"
        <4>1. RolesGuard(access, {"SUPER_ADMIN"}) <=> access = "SUPER_ADMIN"
          BY <2>1 DEF RolesGuard, TenantRoles
        <4> QED  BY <2>1, <3>2, <4>1 DEF Served
      <3>4. offered.map[p] <=> access = "SUPER_ADMIN"
        <4>1. /\ canAssignRolesAndPermissions(access) <=> access = "SUPER_ADMIN"
              /\ canCorrectAttendance(access) <=> access = "SUPER_ADMIN"
              /\ canCreateEditDeleteAnyRecord(access) <=> access = "SUPER_ADMIN"
              /\ canManageTenantSettings(access) <=> access = "SUPER_ADMIN"
          BY <2>1 DEF canAssignRolesAndPermissions, canCorrectAttendance,
              canCreateEditDeleteAnyRecord, canManageTenantSettings, TenantRoles
        <4>2. p \in {"canCorrectAttendance", "canCreateEditDeleteAnyRecord",
                     "canAssignRolesAndPermissions", "canManageTenantSettings"}
          BY <2>3, <2>5
        <4>3. CASE p = "canCorrectAttendance"
          BY <2>2, <4>1, <4>3, MapOffers, Zenon
        <4>4. CASE p = "canCreateEditDeleteAnyRecord"
          BY <2>2, <4>1, <4>4, MapOffers, Zenon
        <4>5. CASE p = "canAssignRolesAndPermissions"
          BY <2>2, <4>1, <4>5, MapOffers, Zenon
        <4>6. CASE p = "canManageTenantSettings"
          BY <2>2, <4>1, <4>6, MapOffers, Zenon
        <4> QED  BY <4>2, <4>3, <4>4, <4>5, <4>6
      <3>5. route \in Routes
        BY <3>2 DEF Routes, Behind
      <3> QED  BY <3>3, <3>4, <3>5
    <2> QED  BY <2>4, <2>5
  <1> QED  BY <1>1, <1>2, <1>3, PTL DEF AuthoritySpec
=============================================================================
