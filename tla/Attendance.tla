------------------------------ MODULE Attendance ------------------------------
(***************************************************************************)
(* Check-ins and check-outs: AttendanceService, with the places of Loca-   *)
(* tionsService that a clock-in by location needs.                         *)
(*                                                                         *)
(* Events are only ever added.  Each way to clock looks at the newest few  *)
(* events of the member, keeps those of today, and then inserts one, dated *)
(* when it is inserted: other events may come between, and midnight may.   *)
(***************************************************************************)
EXTENDS Rows

CONSTANTS
    AttMembers,
    Places,         \* rows of locations
    AttHandlers,    \* requests served at the same time
    Window,         \* how many events a handler looks at; 5 in the code
    DayLength,      \* clock ticks in a day
    Horizon,        \* bound: ticks followed
    MaxCorrections  \* bound: corrections followed

ASSUME AttendanceAssumption ==
    /\ Window \in Nat \ {0} /\ DayLength \in Nat \ {0}
    /\ Horizon \in Nat /\ MaxCorrections \in Nat

VARIABLES
    event,          \* attendance_events of each member
    place,          \* locations that have a row
    clock,          \* the time; no two events of a model have the same
    attHandler,     \* what each handler is doing
    overlapped,     \* history: <<member, day>> with a write across another
    overnight       \* history: <<member, day>> with a write after a read of an earlier day

attVars == <<event, place, clock, attHandler, overlapped, overnight>>

EventTypes == {"check_in", "check_out"}

Events == [at : 0..Horizon - 1, type : EventTypes, corrected : BOOLEAN]

AttResting == [pc |-> "rest", member |-> None, type |-> "check_in", readAt |-> 0, overtaken |-> FALSE]

(* nepaliDateKey. *)
Day(t) == t \div DayLength

(* orderBy occurredAt desc, take. *)
Newest(m) == {e \in event[m] : Cardinality({f \in event[m] : f.at > e.at}) < Window}

(* Mutant: the newest events of any day. *)
SeenLately(m, type) == \E e \in Newest(m) : e.type = type

(* todaysCheckIn, todaysCheckOut. *)
SeenToday(m, type) == \E e \in Newest(m) : e.type = type /\ Day(e.at) = Day(clock)

-----------------------------------------------------------------------------
(* LocationsService. *)

CreateLocation(p) ==
    /\ p \notin place
    /\ place' = place \cup {p}
    /\ UNCHANGED <<event, clock, attHandler, overlapped, overnight>>

DeleteLocation(p) ==
    /\ p \in place
    /\ place' = place \ {p}
    /\ UNCHANGED <<event, clock, attHandler, overlapped, overnight>>

-----------------------------------------------------------------------------
(* The look. *)

LookBefore(h, m, type) ==
    /\ attHandler[h].pc = "rest"
    /\ attHandler' = [attHandler EXCEPT ![h] =
            [pc |-> "clock", member |-> m, type |-> type, readAt |-> clock, overtaken |-> FALSE]]
    /\ UNCHANGED <<event, place, clock, overlapped, overnight>>

CheckIn(h, m) ==
    /\ SeenToday(m, "check_in") => SeenToday(m, "check_out")
    /\ LookBefore(h, m, "check_in")

CheckOut(h, m) ==
    /\ SeenToday(m, "check_in")
    /\ ~SeenToday(m, "check_out")
    /\ LookBefore(h, m, "check_out")

(* Mutant: "attendance_complete" is not answered. *)
ClockAnyTime(h, m) ==
    /\ place # {}
    /\ LookBefore(h, m, IF SeenToday(m, "check_in") THEN "check_out" ELSE "check_in")

(* clockBySelfLocation, recordAutoClockEvent: within reach of some place.  *)
ClockByLocation(h, m) ==
    /\ place # {}
    /\ \/ ~SeenToday(m, "check_in") /\ LookBefore(h, m, "check_in")
       \/ /\ SeenToday(m, "check_in") /\ ~SeenToday(m, "check_out")
          /\ LookBefore(h, m, "check_out")

-----------------------------------------------------------------------------
(* The insert. *)

RecordEvent(h) ==
    LET m == attHandler[h].member
        today == <<m, Day(clock)>>
    IN  /\ attHandler[h].pc = "clock"
        /\ clock < Horizon
        /\ \A e \in event[m] : e.at # clock
        /\ event' = [event EXCEPT ![m] =
                @ \cup {[at |-> clock, type |-> attHandler[h].type, corrected |-> FALSE]}]
        /\ clock' = clock + 1
        /\ attHandler' = [k \in AttHandlers |->
                IF k = h THEN AttResting
                ELSE IF attHandler[k].pc = "clock" /\ attHandler[k].member = m
                THEN [attHandler[k] EXCEPT !.overtaken = TRUE]
                ELSE attHandler[k]]
        /\ overlapped' = IF attHandler[h].overtaken THEN overlapped \cup {today} ELSE overlapped
        /\ overnight' = IF Day(attHandler[h].readAt) # Day(clock)
                        THEN overnight \cup {today} ELSE overnight
        /\ UNCHANGED place

(* correct: an event of any type at any time, past or to come.             *)
Correct(h, m, type, t) ==
    /\ attHandler[h].pc = "rest"
    /\ \A e \in event[m] : e.at # t
    /\ t = clock => clock < Horizon - 1
    /\ Cardinality({e \in event[m] : e.corrected}) < MaxCorrections
    /\ event' = [event EXCEPT ![m] = @ \cup {[at |-> t, type |-> type, corrected |-> TRUE]}]
    /\ clock' = IF t = clock THEN clock + 1 ELSE clock
    /\ attHandler' = [attHandler EXCEPT ![h] = [AttResting EXCEPT !.pc = "tell", !.member = m]]
    /\ UNCHANGED <<place, overlapped, overnight>>

(* correct writes its notification in a second transaction. *)
TellCorrected(h) ==
    /\ attHandler[h].pc = "tell"
    /\ attHandler' = [attHandler EXCEPT ![h] = AttResting]
    /\ UNCHANGED <<event, place, clock, overlapped, overnight>>

AttHandlerDies(h) ==
    /\ attHandler[h].pc = "clock"
    /\ attHandler' = [attHandler EXCEPT ![h] = AttResting]
    /\ UNCHANGED <<event, place, clock, overlapped, overnight>>

TimePasses ==
    /\ clock < Horizon
    /\ clock' = clock + 1
    /\ UNCHANGED <<event, place, attHandler, overlapped, overnight>>

-----------------------------------------------------------------------------
AttInit ==
    /\ event = [m \in AttMembers |-> {}]
    /\ place = {}
    /\ clock = 0
    /\ attHandler = [h \in AttHandlers |-> AttResting]
    /\ overlapped = {}
    /\ overnight = {}

AttNext ==
    \/ \E p \in Places : CreateLocation(p) \/ DeleteLocation(p)
    \/ \E h \in AttHandlers :
        \/ \E m \in AttMembers :
            \/ CheckIn(h, m) \/ CheckOut(h, m) \/ ClockByLocation(h, m)
            \/ \E type \in EventTypes, t \in 0..Horizon - 1 : Correct(h, m, type, t)
        \/ RecordEvent(h)
        \/ TellCorrected(h)
        \/ AttHandlerDies(h)
    \/ TimePasses

AttSpec == AttInit /\ [][AttNext]_attVars

-----------------------------------------------------------------------------
(* Properties. *)

OfDay(m, d, type) == {e.at : e \in {f \in event[m] : f.type = type /\ Day(f.at) = d}}

Corrected(m, d) == \E e \in event[m] : e.corrected /\ Day(e.at) = d

(* deriveDays, and its copies in the dashboard and the reports.            *)
CheckInAt(m, d) == CHOOSE t \in OfDay(m, d, "check_in") : \A s \in OfDay(m, d, "check_in") : t <= s

CheckOutAt(m, d) == CHOOSE t \in OfDay(m, d, "check_out") : \A s \in OfDay(m, d, "check_out") : s <= t

(* The hours derived for a day are of a stay that began before it ended:   *)
(* nobody is out before being in, though handlers overlap, look at the     *)
(* newest events only, and days follow each other.  Not so on a day that   *)
(* was corrected, or when a handler looked before midnight and wrote after *)
(* it: the check-out then stands on a day without a check-in.              *)
DerivedDayIsInOrder ==
    \A m \in AttMembers, d \in 0..Day(Horizon) :
        OfDay(m, d, "check_out") # {} /\ ~Corrected(m, d) /\ <<m, d>> \notin overnight
        => /\ OfDay(m, d, "check_in") # {}
           /\ \A t \in OfDay(m, d, "check_out") : CheckInAt(m, d) < t
           /\ CheckInAt(m, d) < CheckOutAt(m, d)

(* "You're already checked out today": one check-out a day, by whichever   *)
(* of the three ways, as long as today's and later events fit into what a  *)
(* handler looks at and no two handlers of the member overlapped.          *)
OneCheckOutToday ==
    \A m \in AttMembers :
        LET d == Day(clock)
        IN  /\ ~Corrected(m, d)
            /\ <<m, d>> \notin overlapped \cup overnight
            /\ Cardinality({e \in event[m] : Day(e.at) >= d}) <= Window
            => Cardinality(OfDay(m, d, "check_out")) <= 1
=============================================================================
