-------------------------------- MODULE Leave --------------------------------
(***************************************************************************)
(* LeaveService: leave types and balances, requests that climb the org     *)
(* chart to an approver or a stand-in, decisions that book days.           *)
(*                                                                         *)
(* A handler reads and checks in its transaction, then writes and commits; *)
(* at READ COMMITTED another may commit in between.  The announcement is a *)
(* second transaction.  A handler may die anywhere.  All dates lie in one  *)
(* year, so a member has one balance per type.                             *)
(***************************************************************************)
EXTENDS Sums, FiniteSets

CONSTANTS
    Members, Admins,    \* memberships; those with role SUPER_ADMIN
    Types,              \* names of leave types
    DefaultDays,        \* defaultDaysPerYear of each type
    LastDay,            \* requests and time lie in 1..LastDay
    NumRequests,        \* rows of leave_requests
    Handlers,           \* requests served at the same time
    MaxDelegations,     \* bound on the rows of approval_delegations
    Nobody              \* no supervisor, no approver, nothing

ASSUME LeaveAssumption ==
    /\ IsFiniteSet(Members) /\ Nobody \notin Members
    /\ DefaultDays \in [Types -> Nat]
    /\ LastDay \in Nat
    /\ NumRequests \in Nat

Day == 1..LastDay
Requests == 1..NumRequests

VARIABLES
    today,
    supervisor,     \* supervisorMembershipId of each member, or Nobody
    delegation,     \* delegator and delegate to "none", "active" or "inactive"
    types,          \* leave types that exist
    balance,        \* member and type to the balance
    request,        \* leave_requests
    booked,         \* how often the approval of a request booked its days
    announced,      \* decision notifications: <<request, decision>>
    lost,           \* history: notifications whose handler died before it
    handler         \* what each handler is doing

org == <<today, supervisor, delegation, types>>
vars == <<org, balance, request, booked, announced, lost, handler>>

Decisions == {"approved", "rejected"}

NoBalance == [exists |-> FALSE, allocated |-> 0, used |-> 0]

NoRequest == [status |-> "none", member |-> Nobody, type |-> Nobody, from |-> 1, to |-> 1]

Resting == [pc |-> "rest", request |-> Nobody, row |-> NoRequest, decision |-> "approved"]

Rests(h) == handler[h].pc = "rest"

Serves(h, r) == ~Rests(h) /\ handler[h].request = r

DaysOf(row) == row.to - row.from + 1

-----------------------------------------------------------------------------
(* Who decides. *)

OnLeave(m) ==
    \E r \in Requests :
        /\ request[r].status = "approved" /\ request[r].member = m
        /\ request[r].from <= today /\ today <= request[r].to

StandIns(m) == {d \in Members : delegation[m, d] = "active"}

(* resolveApprover: the first supervisor up the chain who is at work, or   *)
(* whose stand-in decides; Nobody when the chain ends or closes on itself. *)
(* Which of several stand-ins findFirst returns is open.  A turn of the    *)
(* loop starts at a member, with those seen before; there are no answers   *)
(* while it goes on.                                                       *)
Turn(was) ==
    LET boss == supervisor[was.at]
    IN  IF was.answers # {} THEN was
        ELSE IF boss = Nobody \/ boss \in was.seen THEN [was EXCEPT !.answers = {Nobody}]
        ELSE IF ~OnLeave(boss) THEN [was EXCEPT !.answers = {boss}]
        ELSE IF StandIns(boss) # {} THEN [was EXCEPT !.answers = StandIns(boss)]
        ELSE [was EXCEPT !.at = boss, !.seen = @ \cup {boss}]

(* A turn that goes on sees another member: there are no more than these.  *)
Climb(m, start) ==
    LET climb[k \in 0..Cardinality(Members)] ==
            IF k = 0 THEN [at |-> m, seen |-> start, answers |-> {}] ELSE Turn(climb[k-1])
    IN  climb

ApproversAbove(m, start) == Climb(m, start)[Cardinality(Members)].answers

(* Mutants: the chain is not climbed; the member does not count as seen. *)
Supervisors(m) == {supervisor[m]}

ApproversUnseen(m) == ApproversAbove(m, {})

Approvers(m) == ApproversAbove(m, {m})

-----------------------------------------------------------------------------
(* Types, balances, delegations, the org chart, time. *)

CreateType(t) ==
    /\ t \notin types
    /\ types' = types \cup {t}
    /\ UNCHANGED <<today, supervisor, delegation, balance, request, booked, announced, lost, handler>>

(* ensureBalance for the types in T. *)
Ensured(m, T) ==
    [balance EXCEPT ![m] = [t \in Types |->
        IF t \in T /\ ~balance[m][t].exists
        THEN [exists |-> TRUE, allocated |-> DefaultDays[t], used |-> 0]
        ELSE balance[m][t]]]

(* myBalances creates the balances it shows. *)
ViewBalances(m) ==
    /\ balance' = Ensured(m, types)
    /\ UNCHANGED <<org, request, booked, announced, lost, handler>>

CreateDelegation(m, d) ==
    /\ m # d
    /\ delegation[m, d] = "none"
    /\ Cardinality({x \in DOMAIN delegation : delegation[x] # "none"}) < MaxDelegations
    /\ delegation' = [delegation EXCEPT ![<<m, d>>] = "active"]
    /\ UNCHANGED <<today, supervisor, types, balance, request, booked, announced, lost, handler>>

UpdateDelegation(m, d, active) ==
    /\ delegation[m, d] # "none"
    /\ delegation' = [delegation EXCEPT ![<<m, d>>] = IF active THEN "active" ELSE "inactive"]
    /\ UNCHANGED <<today, supervisor, types, balance, request, booked, announced, lost, handler>>

(* EmployeesService.update only refuses a member as their own supervisor.  *)
SetSupervisor(m, s) ==
    /\ s # m
    /\ supervisor' = [supervisor EXCEPT ![m] = s]
    /\ UNCHANGED <<today, delegation, types, balance, request, booked, announced, lost, handler>>

NextDay ==
    /\ today < LastDay
    /\ today' = today + 1
    /\ UNCHANGED <<supervisor, delegation, types, balance, request, booked, announced, lost, handler>>

-----------------------------------------------------------------------------
(* Reads of a first transaction. *)

Read(h, pc, r, row, decision) ==
    /\ Rests(h)
    /\ handler' = [handler EXCEPT ![h] =
            [pc |-> pc, request |-> r, row |-> row, decision |-> decision]]
    /\ UNCHANGED <<org, request, booked, announced, lost>>

(* submitRequest also makes sure of the balance it compares with. *)
ReadForSubmit(h, r, m, t, from, to) ==
    LET row == [status |-> "pending", member |-> m, type |-> t, from |-> from, to |-> to]
        left == Ensured(m, {t})[m][t]
    IN  /\ request[r].status = "none"
        /\ \A k \in Handlers : ~Serves(k, r)    \* the row gets an id of its own
        /\ t \in types
        /\ from <= to
        /\ left.used + DaysOf(row) <= left.allocated
        /\ Read(h, "submit", r, row, "approved")
        /\ UNCHANGED balance

(* Mutant: an approved request can be cancelled, its days stay booked. *)
ReadForLateCancel(h, r) ==
    /\ request[r].status \in {"pending", "approved"}
    /\ Read(h, "cancel", r, request[r], "approved")
    /\ UNCHANGED balance

ReadForCancel(h, r) ==
    /\ request[r].status = "pending"
    /\ Read(h, "cancel", r, request[r], "approved")
    /\ UNCHANGED balance

ReadForDecide(h, by, r, decision) ==
    /\ request[r].status = "pending"
    /\ by \in Admins \cup Approvers(request[r].member)
    /\ Read(h, "decide", r, request[r], decision)
    /\ UNCHANGED balance

-----------------------------------------------------------------------------
(* Writes of a first transaction, by id and whatever the row holds now.    *)

WriteRequest(h) ==
    /\ handler[h].pc = "submit"
    /\ request' = [request EXCEPT ![handler[h].request] = handler[h].row]
    /\ balance' = Ensured(handler[h].row.member, {handler[h].row.type})
    /\ handler' = [handler EXCEPT ![h].pc = "announceSubmitted"]
    /\ UNCHANGED <<org, booked, announced, lost>>

WriteCancel(h) ==
    /\ handler[h].pc = "cancel"
    /\ request' = [request EXCEPT ![handler[h].request].status = "cancelled"]
    /\ handler' = [handler EXCEPT ![h] = Resting]
    /\ UNCHANGED <<org, balance, booked, announced, lost>>

(* Mutant: the days replace those booked before. *)
BookOver(r, row) ==
    /\ balance' = [balance EXCEPT ![row.member][row.type].used = DaysOf(row)]
    /\ booked' = [booked EXCEPT ![r] = @ + 1]

(* The days are booked by an increment in the database. *)
Book(r, row) ==
    /\ balance' = [balance EXCEPT ![row.member][row.type].used = @ + DaysOf(row)]
    /\ booked' = [booked EXCEPT ![r] = @ + 1]

WriteDecision(h) ==
    /\ handler[h].pc = "decide"
    /\ request' = [request EXCEPT ![handler[h].request].status = handler[h].decision]
    /\ \/ handler[h].decision = "approved" /\ Book(handler[h].request, handler[h].row)
       \/ handler[h].decision = "rejected" /\ UNCHANGED <<balance, booked>>
    /\ handler' = [handler EXCEPT ![h].pc = "announceDecided"]
    /\ UNCHANGED <<org, announced, lost>>

(* Mutant: only approvals are announced. *)
AnnounceApproval(h) ==
    /\ handler[h].pc \in {"announceSubmitted", "announceDecided"}
    /\ announced' = IF handler[h].pc = "announceDecided" /\ handler[h].decision = "approved"
                    THEN announced \cup {<<handler[h].request, "approved">>}
                    ELSE announced
    /\ handler' = [handler EXCEPT ![h] = Resting]
    /\ UNCHANGED <<org, balance, request, booked, lost>>

(* The second transaction. *)
Announce(h) ==
    /\ handler[h].pc \in {"announceSubmitted", "announceDecided"}
    /\ announced' = IF handler[h].pc = "announceDecided"
                    THEN announced \cup {<<handler[h].request, handler[h].decision>>}
                    ELSE announced
    /\ handler' = [handler EXCEPT ![h] = Resting]
    /\ UNCHANGED <<org, balance, request, booked, lost>>

Die(h) ==
    /\ ~Rests(h)
    /\ lost' = IF handler[h].pc = "announceDecided"
               THEN lost \cup {<<handler[h].request, handler[h].decision>>}
               ELSE lost
    /\ handler' = [handler EXCEPT ![h] = Resting]
    /\ UNCHANGED <<org, balance, request, booked, announced>>

-----------------------------------------------------------------------------
Init ==
    /\ today = 1
    /\ supervisor \in [Members -> Members \cup {Nobody}]
    /\ \A m \in Members : supervisor[m] # m
    /\ delegation = [x \in Members \X Members |-> "none"]
    /\ types = {}
    /\ balance = [m \in Members |-> [t \in Types |-> NoBalance]]
    /\ request = [r \in Requests |-> NoRequest]
    /\ booked = [r \in Requests |-> 0]
    /\ announced = {}
    /\ lost = {}
    /\ handler = [h \in Handlers |-> Resting]

Reads(h, R) ==
    \E r \in R :
        \/ \E m \in Members, t \in Types, from, to \in Day :
              ReadForSubmit(h, r, m, t, from, to)
        \/ ReadForCancel(h, r)
        \/ \E by \in Members, d \in Decisions : ReadForDecide(h, by, r, d)

Writes(h) == WriteRequest(h) \/ WriteCancel(h) \/ WriteDecision(h) \/ Announce(h)

Administer ==
    \/ \E t \in Types : CreateType(t)
    \/ \E m \in Members : ViewBalances(m)
    \/ \E m, d \in Members :
          CreateDelegation(m, d) \/ \E on \in BOOLEAN : UpdateDelegation(m, d, on)
    \/ \E m \in Members, s \in Members \cup {Nobody} : SetSupervisor(m, s)
    \/ NextDay

Next ==
    \/ Administer
    \/ \E h \in Handlers : Reads(h, Requests) \/ Writes(h) \/ Die(h)

Spec == Init /\ [][Next]_vars

(* The same handlers when the read of a first transaction locks the row    *)
(* until it ends, or when nobody happens to work on a request meanwhile.   *)
InTransaction(h, r) ==
    handler[h].pc \in {"submit", "cancel", "decide"} /\ handler[h].request = r

Unlocked == {r \in Requests : \A h \in Handlers : ~InTransaction(h, r)}

LockingNext ==
    \/ Administer
    \/ \E h \in Handlers : Reads(h, Unlocked) \/ Writes(h) \/ Die(h)

(* A handler that has read goes on, unless it dies. *)
LockingSpec == Init /\ [][LockingNext]_vars /\ \A h \in Handlers : WF_vars(Writes(h))

-----------------------------------------------------------------------------
(* Properties. *)

ApprovedDays(m, t) ==
    SumOf([r \in Requests |->
              IF request[r].status = "approved" /\ request[r].member = m /\ request[r].type = t
              THEN DaysOf(request[r]) ELSE 0],
          NumRequests)

(* Under row locks the used days of a balance are the days of its approved *)
(* requests, however the decisions of different requests race (decide      *)
(* increments in the database).                                            *)
UsedMatchesApproved ==
    \A m \in Members, t \in Types : balance[m][t].used = ApprovedDays(m, t)

(* Under row locks requests behave as DecideOnce, and the effect of an     *)
(* approval is that its days are booked.                                   *)
Once == INSTANCE DecideOnce WITH
            status <- [r \in Requests |-> request[r].status],
            effect <- booked

OnceSpec == Once!Spec

(* The requester hears of a decision unless the handler dies between its   *)
(* two transactions.                                                       *)
DecisionsReachRequester ==
    \A r \in Requests, d \in Decisions :
        request[r].status = d ~> <<r, d>> \in announced \cup lost

(* A request goes to the nearest supervisor who is at work, or to the      *)
(* stand-in of the nearest who has one.  Those below, the chain, are the   *)
(* member and supervisors on leave without a stand-in; when it ends, or    *)
(* would close on itself, nobody but a Super Admin decides                 *)
(* (resolveApprover).                                                      *)
Passes(m) == OnLeave(m) /\ StandIns(m) = {}

ChainOf(m, n, chain) ==
    /\ chain[0] = m
    /\ \A k \in 1..n : chain[k] = supervisor[chain[k-1]] /\ Passes(chain[k])
    /\ \A j, k \in 0..n : chain[j] = chain[k] => j = k

NearestAvailableDecides ==
    \A m \in Members : \E n \in 0..Cardinality(Members) : \E chain \in [0..n -> Members] :
        LET next == supervisor[chain[n]]
        IN  /\ ChainOf(m, n, chain)
            /\ \/ /\ next \in {Nobody} \cup {chain[k] : k \in 0..n}
                  /\ Approvers(m) = {Nobody}
               \/ /\ next \in Members \ {chain[k] : k \in 0..n}
                  /\ ~Passes(next)
                  /\ Approvers(m) = IF OnLeave(next) THEN StandIns(next) ELSE {next}

(* Even when supervisors form a circle, a member decides their own request *)
(* only as Super Admin or as the stand-in of a supervisor who is on leave. *)
OwnRequestNeedsDelegation ==
    \A m \in Members :
        m \in Approvers(m) => \E s \in Members \ {m} : OnLeave(s) /\ m \in StandIns(s)
=============================================================================
