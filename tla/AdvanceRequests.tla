---------------------------- MODULE AdvanceRequests ----------------------------
(***************************************************************************)
(* Employees ask for advances, a Super Admin decides: AdvanceRequests-     *)
(* Service (submitRequest, cancelRequest, decide) with the categories of   *)
(* AdvanceCategoriesService.                                               *)
(*                                                                         *)
(* A handler reads and checks in its transaction, then writes and commits; *)
(* at READ COMMITTED another handler may commit in between.  What it has   *)
(* to announce it writes in a second transaction.  A handler may die       *)
(* anywhere: the open transaction is rolled back, the next never begins.   *)
(***************************************************************************)
EXTENDS Naturals

CONSTANTS
    Requests,       \* rows of advance_requests
    Categories,     \* names of advance categories
    Handlers,       \* requests served at the same time
    NoCategory

VARIABLES
    category,   \* "none", "live" or "removed" (soft-deleted)
    request,    \* advance_requests
    granted,    \* advances created from each request
    announced,  \* notifications: <<request, what it tells>>
    lost,       \* history: notifications whose handler died before it
    handler     \* what each handler is doing

vars == <<category, request, granted, announced, lost, handler>>

Decisions == {"approved", "rejected"}

NoRequest == [status |-> "none", category |-> NoCategory, hasAdvance |-> FALSE]

Resting == [pc |-> "rest", request |-> CHOOSE r \in Requests : TRUE,
            category |-> NoCategory, tells |-> "submitted"]

Rests(h) == handler[h].pc = "rest"

Serves(h, r) == ~Rests(h) /\ handler[h].request = r

-----------------------------------------------------------------------------
(* AdvanceCategoriesService.  A removed name stays taken in the unique     *)
(* index, so it cannot be created again.                                   *)

CreateCategory(c) ==
    /\ category[c] = "none"
    /\ category' = [category EXCEPT ![c] = "live"]
    /\ UNCHANGED <<request, granted, announced, lost, handler>>

RemoveCategory(c) ==
    /\ category[c] = "live"
    /\ category' = [category EXCEPT ![c] = "removed"]
    /\ UNCHANGED <<request, granted, announced, lost, handler>>

-----------------------------------------------------------------------------
(* Reads of a first transaction. *)

Read(h, pc, r, c, tells) ==
    /\ Rests(h)
    /\ handler' = [handler EXCEPT ![h] =
            [pc |-> pc, request |-> r, category |-> c, tells |-> tells]]
    /\ UNCHANGED <<category, request, granted, announced, lost>>

ReadForSubmit(h, r, c) ==
    /\ request[r].status = "none"
    /\ \A k \in Handlers : ~Serves(k, r)        \* the row gets an id of its own
    /\ category[c] = "live"
    /\ Read(h, "submit", r, c, "submitted")

ReadForCancel(h, r) ==
    /\ request[r].status = "pending"
    /\ Read(h, "cancel", r, NoCategory, "submitted")

(* Mutant: the status is not looked at. *)
ReadForAnyDecide(h, r, decision) ==
    /\ request[r].status # "none"
    /\ Read(h, "decide", r, NoCategory, decision)

(* An approval also needs the category (createInTx). *)
ReadForDecide(h, r, decision) ==
    /\ request[r].status = "pending"
    /\ decision = "approved" => category[request[r].category] = "live"
    /\ Read(h, "decide", r, NoCategory, decision)

-----------------------------------------------------------------------------
(* Writes of a first transaction, by id and whatever the row holds now.    *)

WriteRequest(h) ==
    /\ handler[h].pc = "submit"
    /\ request' = [request EXCEPT ![handler[h].request] =
            [status |-> "pending", category |-> handler[h].category, hasAdvance |-> FALSE]]
    /\ handler' = [handler EXCEPT ![h].pc = "announce"]
    /\ UNCHANGED <<category, granted, announced, lost>>

WriteCancel(h) ==
    /\ handler[h].pc = "cancel"
    /\ request' = [request EXCEPT ![handler[h].request].status = "cancelled"]
    /\ handler' = [handler EXCEPT ![h] = Resting]
    /\ UNCHANGED <<category, granted, announced, lost>>

(* Mutant: the advance is not created. *)
GrantNothing(r, decision) == UNCHANGED granted

(* createInTx, in the same transaction. *)
Grant(r, decision) ==
    granted' = IF decision = "approved" THEN [granted EXCEPT ![r] = @ + 1] ELSE granted

WriteDecision(h) ==
    /\ handler[h].pc = "decide"
    /\ LET r == handler[h].request
       IN  /\ request' = [request EXCEPT ![r].status = handler[h].tells,
                                         ![r].hasAdvance = handler[h].tells = "approved"]
           /\ Grant(r, handler[h].tells)
    /\ handler' = [handler EXCEPT ![h].pc = "announce"]
    /\ UNCHANGED <<category, announced, lost>>

(* Mutant: a decision is announced like a submission. *)
AnnounceSubmission(h) ==
    /\ handler[h].pc = "announce"
    /\ announced' = announced \cup {<<handler[h].request, "submitted">>}
    /\ handler' = [handler EXCEPT ![h] = Resting]
    /\ UNCHANGED <<category, request, granted, lost>>

(* The second transaction. *)
Announce(h) ==
    /\ handler[h].pc = "announce"
    /\ announced' = announced \cup {<<handler[h].request, handler[h].tells>>}
    /\ handler' = [handler EXCEPT ![h] = Resting]
    /\ UNCHANGED <<category, request, granted, lost>>

Die(h) ==
    /\ ~Rests(h)
    /\ lost' = IF handler[h].pc = "announce"
               THEN lost \cup {<<handler[h].request, handler[h].tells>>}
               ELSE lost
    /\ handler' = [handler EXCEPT ![h] = Resting]
    /\ UNCHANGED <<category, request, granted, announced>>

-----------------------------------------------------------------------------
Init ==
    /\ category = [c \in Categories |-> "none"]
    /\ request = [r \in Requests |-> NoRequest]
    /\ granted = [r \in Requests |-> 0]
    /\ announced = {}
    /\ lost = {}
    /\ handler = [h \in Handlers |-> Resting]

Writes(h) == WriteRequest(h) \/ WriteCancel(h) \/ WriteDecision(h) \/ Announce(h)

Reads(h, R) ==
    \E r \in R :
        \/ \E c \in Categories : ReadForSubmit(h, r, c)
        \/ ReadForCancel(h, r)
        \/ \E d \in Decisions : ReadForDecide(h, r, d)

Administer == \E c \in Categories : CreateCategory(c) \/ RemoveCategory(c)

Next ==
    \/ Administer
    \/ \E h \in Handlers : Reads(h, Requests) \/ Writes(h) \/ Die(h)

Spec == Init /\ [][Next]_vars

(* The same handlers when the read of a first transaction locks the row    *)
(* until it ends, or when nobody happens to work on a request meanwhile.   *)
InTransaction(h, r) ==
    handler[h].pc \in {"submit", "cancel", "decide"} /\ handler[h].request = r

Unlocked == {r \in Requests : \A h \in Handlers : ~InTransaction(h, r)}

LockingNext ==
    \/ Administer
    \/ \E h \in Handlers : Reads(h, Unlocked) \/ Writes(h) \/ Die(h)

(* A handler that has read goes on, unless it dies. *)
LockingSpec == Init /\ [][LockingNext]_vars /\ \A h \in Handlers : WF_vars(Writes(h))

-----------------------------------------------------------------------------
(* Properties. *)

(* Under row locks, with any number of handlers and deaths, requests       *)
(* behave as DecideOnce: a decision is final and an approval gives exactly *)
(* one advance.                                                            *)
Once == INSTANCE DecideOnce WITH
            status <- [r \in Requests |-> request[r].status],
            effect <- granted

OnceSpec == Once!Spec

(* However decisions race, a request that stands approved has its advance, *)
(* and one that stands rejected or has not been decided has none to show   *)
(* (decide writes status and advance in one transaction).                  *)
ApprovedHasAdvance ==
    \A r \in Requests :
        /\ request[r].status = "approved" => request[r].hasAdvance /\ granted[r] > 0
        /\ request[r].status \in {"none", "pending"} => granted[r] = 0
        /\ request[r].status = "rejected" => ~request[r].hasAdvance

(* The requester hears of a decision unless the handler dies between its   *)
(* two transactions.                                                       *)
DecisionsReachRequester ==
    \A r \in Requests, d \in Decisions :
        request[r].status = d ~> <<r, d>> \in announced \cup lost

(* decide answers "This request has already been decided": a request gives *)
(* at most one advance.                                                    *)
OneAdvancePerRequest == \A r \in Requests : granted[r] <= 1
=============================================================================
