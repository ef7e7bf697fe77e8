------------------------- MODULE AdvanceRequestsProofs -------------------------
(***************************************************************************)
(* For every set of requests, categories and handlers.  However handlers   *)
(* race and die, an approved request has its advance; and where the read   *)
(* of a transaction locks its row, AdvanceRequests implements DecideOnce.  *)
(* Without the lock it does not (run two_approvals).                       *)
(***************************************************************************)
EXTENDS AdvanceRequests, TLAPS

Tells == Decisions \cup {"submitted"}

RequestRow == [status: Once!Statuses, category: Categories \cup {NoCategory},
               hasAdvance: BOOLEAN]

AtRest == [pc: {"rest"}, request: Requests \cup {Resting.request},
           category: Categories \cup {NoCategory}, tells: Tells]

Deciding == [pc: {"decide"}, request: Requests,
             category: Categories \cup {NoCategory}, tells: Decisions]

Doing == [pc: {"submit", "cancel", "announce"}, request: Requests,
          category: Categories \cup {NoCategory}, tells: Tells]

HandlerState == AtRest \cup Deciding \cup Doing

TypeOK ==
    /\ request \in [Requests -> RequestRow]
    /\ granted \in [Requests -> Nat]
    /\ handler \in [Handlers -> HandlerState]

Status == [r \in Requests |-> request[r].status]

-----------------------------------------------------------------------------
(* What each kind of step does. *)

LEMMA RestingType == Resting \in AtRest
  BY DEF Resting, AtRest, Decisions, Tells

LEMMA InitType == Init => TypeOK
  <1>1. NoRequest \in RequestRow
    BY DEF NoRequest, RequestRow, Once!Statuses
  <1>2. QED
    BY <1>1, RestingType DEF Init, TypeOK, HandlerState

LEMMA InitIdle ==
    ASSUME Init
    PROVE  /\ \A h \in Handlers : handler[h].pc = "rest"
           /\ \A r \in Requests : request[r].status = "none" /\ granted[r] = 0
  BY DEF Init, Resting, NoRequest

(* A handler that reads begins to work on a request that is as it read it. *)
LEMMA ReadEffect ==
    ASSUME TypeOK, NEW h \in Handlers, NEW R \in SUBSET Requests, Reads(h, R)
    PROVE  \E r \in R, pc \in {"submit", "cancel", "decide"} :
              /\ UNCHANGED <<request, granted>>
              /\ Rests(h)
              /\ handler' \in [Handlers -> HandlerState]
              /\ handler'[h].pc = pc /\ handler'[h].request = r
              /\ \A k \in Handlers : k # h => handler'[k] = handler[k]
              /\ pc = "submit" => request[r].status = "none"
              /\ pc = "submit" => \A k \in Handlers : ~Serves(k, r)
              /\ pc \in {"cancel", "decide"} => request[r].status = "pending"
  <1>1. PICK r \in R, pc \in {"submit", "cancel", "decide"},
             c \in Categories \cup {NoCategory}, tells \in Tells :
          /\ Read(h, pc, r, c, tells)
          /\ pc = "submit" => request[r].status = "none"
          /\ pc = "submit" => \A k \in Handlers : ~Serves(k, r)
          /\ pc \in {"cancel", "decide"} => request[r].status = "pending"
          /\ pc = "decide" => tells \in Decisions
    BY DEF Reads, ReadForSubmit, ReadForCancel, ReadForDecide, Decisions, Tells
  <1> DEFINE work == [pc |-> pc, request |-> r, category |-> c, tells |-> tells]
  <1>2. /\ handler' = [handler EXCEPT ![h] = work]
        /\ UNCHANGED <<request, granted>>
        /\ Rests(h)
    BY <1>1 DEF Read
  <1>3. work \in HandlerState
    BY <1>1 DEF HandlerState, Doing, Deciding
  <1>4. handler \in [Handlers -> HandlerState]
    BY DEF TypeOK
  <1>5. /\ handler' \in [Handlers -> HandlerState]
        /\ handler'[h] = work
        /\ \A k \in Handlers : k # h => handler'[k] = handler[k]
    BY <1>2, <1>3, <1>4
  <1>6. QED
    BY <1>1, <1>2, <1>5

(* A handler that moves on leaves its first transaction, or is at rest.    *)
LEMMA HandlerMoves ==
    ASSUME TypeOK, NEW h \in Handlers,
           \/ handler' = [handler EXCEPT ![h] = Resting]
           \/ ~Rests(h) /\ handler' = [handler EXCEPT ![h].pc = "announce"]
    PROVE  /\ handler' \in [Handlers -> HandlerState]
           /\ handler'[h].pc \in {"rest", "announce"}
           /\ handler'[h].pc = "announce" => handler'[h].request = handler[h].request
           /\ \A k \in Handlers : k # h => handler'[k] = handler[k]
  <1>1. handler \in [Handlers -> HandlerState]
    BY DEF TypeOK
  <1>2. CASE handler' = [handler EXCEPT ![h] = Resting]
    <2>1. handler'[h] = Resting /\ Resting.pc = "rest"
      BY <1>1, <1>2 DEF Resting
    <2>2. QED
      BY <1>1, <1>2, <2>1, RestingType DEF HandlerState
  <1>3. CASE ~Rests(h) /\ handler' = [handler EXCEPT ![h].pc = "announce"]
    <2>1. handler[h] \in Deciding \cup Doing
      BY <1>1, <1>3 DEF Rests, AtRest, HandlerState
    <2>2. /\ handler'[h] = [handler[h] EXCEPT !.pc = "announce"]
          /\ \A k \in Handlers : k # h => handler'[k] = handler[k]
      BY <1>1, <1>3
    <2>3. /\ handler'[h] \in Doing /\ handler'[h].pc = "announce"
          /\ handler'[h].request = handler[h].request
      BY <2>1, <2>2 DEF Doing, Deciding, Tells
    <2>4. handler' \in [Handlers -> HandlerState]
      BY <1>1, <1>3, <2>3 DEF HandlerState
    <2>5. QED
      BY <2>2, <2>3, <2>4
  <1>4. QED
    BY <1>2, <1>3

(* A write finds its handler in a first transaction and changes only the   *)
(* row of its request: the status it sets, the advance it may create.      *)
Written(h, r, s) ==
    /\ InTransaction(h, r)
    /\ Status' = [Status EXCEPT ![r] = s]
    /\ \A q \in Requests \ {r} : request'[q] = request[q]
    /\ granted' = IF s = "approved" THEN [granted EXCEPT ![r] = @ + 1] ELSE granted
    /\ s \in Decisions => request'[r].hasAdvance = (s = "approved")
    /\ handler[h].pc = "submit" <=> s = "pending"
    /\ handler[h].pc = "decide" <=> s \in Decisions
    /\ s \in {"pending", "cancelled"} \cup Decisions
    /\ TypeOK'
    /\ handler'[h].pc \in {"rest", "announce"}
    /\ handler'[h].pc = "announce" => handler'[h].request = r
    /\ \A k \in Handlers : k # h => handler'[k] = handler[k]

LEMMA WriteEffect ==
    ASSUME TypeOK, NEW h \in Handlers,
           WriteRequest(h) \/ WriteCancel(h) \/ WriteDecision(h)
    PROVE  \E r \in Requests, s \in Once!Statuses : Written(h, r, s)
  <1>0. PICK r : r = handler[h].request
    OBVIOUS
  <1>1. handler[h] \in Deciding \cup Doing /\ ~Rests(h)
    BY DEF TypeOK, WriteRequest, WriteCancel, WriteDecision, HandlerState, AtRest, Rests
  <1>2. r \in Requests /\ request[r] \in RequestRow
    BY <1>0, <1>1 DEF Deciding, Doing, TypeOK
  <1>3. \/ handler' = [handler EXCEPT ![h] = Resting]
        \/ handler' = [handler EXCEPT ![h].pc = "announce"]
    BY DEF WriteRequest, WriteCancel, WriteDecision
  <1>4. /\ handler' \in [Handlers -> HandlerState]
        /\ handler'[h].pc \in {"rest", "announce"}
        /\ handler'[h].pc = "announce" => handler'[h].request = r
        /\ \A k \in Handlers : k # h => handler'[k] = handler[k]
    BY <1>0, <1>1, <1>3, HandlerMoves
  <1>5. PICK s \in Once!Statuses, row \in RequestRow :
          /\ row.status = s
          /\ request' = [request EXCEPT ![r] = row]
          /\ granted' = IF s = "approved" THEN [granted EXCEPT ![r] = @ + 1] ELSE granted
          /\ s \in Decisions => row.hasAdvance = (s = "approved")
          /\ InTransaction(h, r)
          /\ handler[h].pc = "submit" <=> s = "pending"
          /\ handler[h].pc = "decide" <=> s \in Decisions
          /\ s \in {"pending", "cancelled"} \cup Decisions
    <2>1. CASE WriteRequest(h)
      <3> DEFINE row == [status |-> "pending", category |-> handler[h].category,
                         hasAdvance |-> FALSE]
      <3>1. row \in RequestRow
        BY <1>1 DEF Doing, Deciding, RequestRow, Once!Statuses
      <3>2. /\ request' = [request EXCEPT ![r] = row] /\ granted' = granted
            /\ InTransaction(h, r) /\ handler[h].pc = "submit"
        BY <1>0, <2>1 DEF WriteRequest, InTransaction
      <3>3. QED
        BY <3>1, <3>2 DEF Decisions, Once!Statuses
    <2>2. CASE WriteCancel(h)
      <3> DEFINE row == [request[r] EXCEPT !.status = "cancelled"]
      <3>1. row \in RequestRow /\ row.status = "cancelled"
        BY <1>2 DEF RequestRow, Once!Statuses
      <3>2. /\ request' = [request EXCEPT ![r] = row] /\ granted' = granted
            /\ InTransaction(h, r) /\ handler[h].pc = "cancel"
        BY <1>0, <1>2, <2>2 DEF WriteCancel, InTransaction, TypeOK
      <3>3. QED
        BY <3>1, <3>2 DEF Decisions, Once!Statuses
    <2>3. CASE WriteDecision(h)
      <3>1. PICK d \in Decisions : d = handler[h].tells
        BY <1>1, <2>3 DEF WriteDecision, Deciding, Doing
      <3>2. PICK x \in BOOLEAN : x = (d = "approved")
        OBVIOUS
      <3> DEFINE row == [request[r] EXCEPT !.status = d, !.hasAdvance = x]
      <3>3. row \in RequestRow /\ row.status = d /\ row.hasAdvance = x
        BY <1>2 DEF RequestRow, Once!Statuses, Decisions
      <3>4. /\ request' = [request EXCEPT ![r] = row]
            /\ granted' = IF d = "approved" THEN [granted EXCEPT ![r] = @ + 1] ELSE granted
            /\ InTransaction(h, r) /\ handler[h].pc = "decide"
        BY <1>0, <1>2, <2>3, <3>1, <3>2 DEF WriteDecision, Grant, InTransaction, TypeOK
      <3>5. QED
        BY <3>2, <3>3, <3>4 DEF Decisions, Once!Statuses
    <2>4. QED
      BY <2>1, <2>2, <2>3
  <1>6. TypeOK'
    <2>1. granted' \in [Requests -> Nat]
      BY <1>2, <1>5 DEF TypeOK
    <2>2. request' \in [Requests -> RequestRow]
      BY <1>2, <1>5 DEF TypeOK
    <2>3. QED
      BY <1>4, <2>1, <2>2 DEF TypeOK
  <1>7. Status' = [Status EXCEPT ![r] = s]
    BY <1>2, <1>5 DEF Status, TypeOK
  <1>8. request'[r] = row /\ \A q \in Requests \ {r} : request'[q] = request[q]
    BY <1>2, <1>5 DEF TypeOK
  <1>9. Written(h, r, s)
    BY <1>4, <1>5, <1>6, <1>7, <1>8 DEF Written
  <1>10. QED
    BY <1>2, <1>9

LEMMA RestEffect ==
    ASSUME TypeOK, NEW h \in Handlers, Announce(h) \/ Die(h)
    PROVE  /\ UNCHANGED <<request, granted>> /\ TypeOK'
           /\ handler'[h].pc \in {"rest", "announce"}
           /\ handler'[h].pc = "announce" => handler'[h].request = handler[h].request
           /\ \A k \in Handlers : k # h => handler'[k] = handler[k]
  <1>1. /\ UNCHANGED <<request, granted>>
        /\ handler' = [handler EXCEPT ![h] = Resting]
    BY DEF Announce, Die
  <1>2. QED
    BY <1>1, HandlerMoves DEF TypeOK

-----------------------------------------------------------------------------
(* Racing handlers: what a submission works on nobody else works on, which *)
(* keeps the row it inserts from hiding an advance given before.           *)

SubmitsAlone ==
    \A h \in Handlers :
        handler[h].pc = "submit" =>
            /\ request[handler[h].request].status = "none"
            /\ \A k \in Handlers : k # h => ~Serves(k, handler[h].request)

RaceInv == TypeOK /\ SubmitsAlone /\ ApprovedHasAdvance

LEMMA RaceRead ==
    ASSUME RaceInv, NEW h \in Handlers, Reads(h, Requests)
    PROVE  RaceInv'
  <1>1. PICK r \in Requests, pc \in {"submit", "cancel", "decide"} :
              /\ UNCHANGED <<request, granted>>
              /\ Rests(h)
              /\ handler' \in [Handlers -> HandlerState]
              /\ handler'[h].pc = pc /\ handler'[h].request = r
              /\ \A k \in Handlers : k # h => handler'[k] = handler[k]
              /\ pc = "submit" => request[r].status = "none"
              /\ pc = "submit" => \A k \in Handlers : ~Serves(k, r)
              /\ pc \in {"cancel", "decide"} => request[r].status = "pending"
    BY ReadEffect DEF RaceInv
  <1>2. TypeOK'
    BY <1>1 DEF RaceInv, TypeOK
  <1>3. ASSUME NEW k \in Handlers, NEW q, handler'[k].pc = "submit", handler'[k].request = q
        PROVE  request'[q].status = "none" /\ \A j \in Handlers : j # k => ~Serves(j, q)'
    <2>1. CASE k = h
      <3>1. q = r /\ request[r].status = "none" /\ \A j \in Handlers : ~Serves(j, r)
        BY <1>1, <1>3, <2>1
      <3>2. \A j \in Handlers : j # k => (Serves(j, q)' <=> Serves(j, q))
        BY <1>1, <2>1 DEF Serves, Rests
      <3>3. QED
        BY <1>1, <3>1, <3>2
    <2>2. CASE k # h
      <3>1. handler'[k] = handler[k]
        BY <1>1, <2>2
      <3>2. request[q].status = "none" /\ \A j \in Handlers : j # k => ~Serves(j, q)
        BY <1>3, <3>1 DEF RaceInv, SubmitsAlone
      <3>3. Serves(k, q)
        BY <1>3, <3>1 DEF Serves, Rests
      <3>4. r # q
        BY <1>1, <3>2, <3>3
      <3>5. \A j \in Handlers \ {h} : Serves(j, q)' <=> Serves(j, q)
        BY <1>1 DEF Serves, Rests
      <3>6. ~Serves(h, q)'
        BY <1>1, <3>4 DEF Serves
      <3>7. QED
        BY <1>1, <3>2, <3>5, <3>6
    <2>3. QED
      BY <2>1, <2>2
  <1>4. SubmitsAlone'
    BY <1>3 DEF SubmitsAlone
  <1>5. ApprovedHasAdvance'
    BY <1>1 DEF RaceInv, ApprovedHasAdvance
  <1>6. QED
    BY <1>2, <1>4, <1>5 DEF RaceInv

LEMMA RaceWrite ==
    ASSUME RaceInv, NEW h \in Handlers,
           NEW r \in Requests, NEW s \in Once!Statuses, Written(h, r, s)
    PROVE  RaceInv'
  <1>1. /\ InTransaction(h, r) /\ Serves(h, r)
        /\ handler[h].pc = "submit" => Status[r] = "none"
    BY DEF Written, InTransaction, Serves, Rests, RaceInv, SubmitsAlone, Status
  <1>2. TypeOK'
    BY DEF Written
  <1>3. ASSUME NEW k \in Handlers, NEW q, handler'[k].pc = "submit", handler'[k].request = q
        PROVE  request'[q].status = "none" /\ \A j \in Handlers : j # k => ~Serves(j, q)'
    <2>1. k # h /\ handler'[k] = handler[k]
      BY <1>3 DEF Written
    <2>2. request[q].status = "none" /\ \A j \in Handlers : j # k => ~Serves(j, q)
      BY <1>3, <2>1 DEF RaceInv, SubmitsAlone
    <2>3. q \in Requests
      BY <1>3, <2>1 DEF RaceInv, TypeOK, HandlerState, AtRest, Deciding, Doing
    <2>4. q # r
      BY <1>1, <2>1, <2>2
    <2>5. request'[q] = request[q]
      BY <2>3, <2>4 DEF Written
    <2>6. \A j \in Handlers \ {h} : Serves(j, q)' <=> Serves(j, q)
      BY DEF Written, Serves, Rests
    <2>7. ~Serves(h, q)'
      BY <2>4 DEF Written, Serves, Rests
    <2>8. QED
      BY <2>2, <2>5, <2>6, <2>7
  <1>4. SubmitsAlone'
    BY <1>3 DEF SubmitsAlone
  <1>5. ASSUME NEW q \in Requests
        PROVE  /\ request'[q].status = "approved" => request'[q].hasAdvance /\ granted'[q] > 0
               /\ request'[q].status \in {"none", "pending"} => granted'[q] = 0
               /\ request'[q].status = "rejected" => ~request'[q].hasAdvance
    <2>1. granted \in [Requests -> Nat] /\ granted[q] >= 0 /\ granted[r] >= 0
      BY DEF RaceInv, TypeOK
    <2>2. CASE q # r
      <3>1. granted'[q] = granted[q] /\ request'[q] = request[q]
        BY <2>1, <2>2 DEF Written
      <3>2. QED
        BY <3>1 DEF RaceInv, ApprovedHasAdvance
    <2>3. CASE q = r
      <3>1. Status'[r] = s /\ Status'[r] = request'[r].status
        BY DEF Written, Status
      <3>2. CASE s = "approved"
        <4>1. granted' = [granted EXCEPT ![r] = @ + 1]
          BY <3>2 DEF Written
        <4>2. granted'[r] > 0
          BY <2>1, <4>1
        <4>3. request'[r].hasAdvance = TRUE
          BY <3>2 DEF Written, Decisions
        <4>4. QED
          BY <2>3, <3>1, <3>2, <4>2, <4>3
      <3>3. CASE s = "rejected"
        BY <2>1, <2>3, <3>1, <3>3 DEF Written, Decisions
      <3>4. CASE s = "pending"
        <4>1. handler[h].pc = "submit" /\ granted' = granted
          BY <3>4 DEF Written
        <4>2. granted[r] = 0
          BY <1>1, <4>1 DEF Status, RaceInv, ApprovedHasAdvance
        <4>3. QED
          BY <2>3, <3>1, <3>4, <4>1, <4>2
      <3>5. CASE s = "cancelled"
        BY <2>3, <3>1, <3>5
      <3>6. QED
        BY <3>2, <3>3, <3>4, <3>5 DEF Written, Decisions
    <2>4. QED
      BY <2>2, <2>3
  <1>6. ApprovedHasAdvance'
    BY <1>5 DEF ApprovedHasAdvance
  <1>7. QED
    BY <1>2, <1>4, <1>6 DEF RaceInv

LEMMA RaceStep ==
    ASSUME RaceInv, [Next]_vars
    PROVE  RaceInv'
  <1>1. CASE \E h \in Handlers : Reads(h, Requests)
    BY <1>1, RaceRead
  <1>2. CASE \E h \in Handlers : WriteRequest(h) \/ WriteCancel(h) \/ WriteDecision(h)
    BY <1>2, WriteEffect, RaceWrite DEF RaceInv
  <1>3. ASSUME NEW h \in Handlers, Announce(h) \/ Die(h)
        PROVE  RaceInv'
    <2>1. /\ UNCHANGED <<request, granted>> /\ TypeOK'
          /\ handler'[h].pc \in {"rest", "announce"}
          /\ handler'[h].pc = "announce" => handler'[h].request = handler[h].request
          /\ handler[h].pc # "rest"
          /\ \A k \in Handlers : k # h => handler'[k] = handler[k]
      BY <1>3, RestEffect DEF RaceInv, Announce, Die, Rests
    <2>2. SubmitsAlone'
      BY <2>1 DEF RaceInv, SubmitsAlone, Serves, Rests
    <2>3. QED
      BY <2>1, <2>2 DEF RaceInv, ApprovedHasAdvance
  <1>4. CASE Administer \/ UNCHANGED vars
    <2>1. UNCHANGED <<request, granted, handler>>
      BY <1>4 DEF Administer, CreateCategory, RemoveCategory, vars
    <2>2. QED
      BY <2>1 DEF RaceInv, TypeOK, SubmitsAlone, Serves, Rests, ApprovedHasAdvance
  <1>5. QED
    BY <1>1, <1>2, <1>3, <1>4 DEF Next, Writes

(* However decisions race and handlers die, a request that stands approved *)
(* has its advance, and one that was never decided or stands rejected has  *)
(* none to show.                                                           *)
THEOREM ApprovalsAreBacked == Spec => []ApprovedHasAdvance
  <1>1. Init => RaceInv
    <2>1. Init => SubmitsAlone
      BY InitIdle DEF SubmitsAlone
    <2>2. Init => ApprovedHasAdvance
      BY InitIdle DEF ApprovedHasAdvance
    <2>3. QED
      BY <2>1, <2>2, InitType DEF RaceInv
  <1>2. RaceInv /\ [Next]_vars => RaceInv'
    BY RaceStep
  <1>3. RaceInv => ApprovedHasAdvance
    BY DEF RaceInv
  <1>4. QED
    BY <1>1, <1>2, <1>3, PTL DEF Spec

-----------------------------------------------------------------------------
(* Locked rows: what a transaction has read still holds when it writes.    *)

ReadsHold ==
    \A h \in Handlers :
        /\ handler[h].pc = "submit" => Status[handler[h].request] = "none"
        /\ handler[h].pc \in {"cancel", "decide"} => Status[handler[h].request] = "pending"

OneTransaction ==
    \A h, k \in Handlers, r \in Requests :
        InTransaction(h, r) /\ InTransaction(k, r) => h = k

LockInv == TypeOK /\ ReadsHold /\ OneTransaction

LEMMA LockRead ==
    ASSUME LockInv, NEW h \in Handlers, Reads(h, Unlocked)
    PROVE  LockInv' /\ UNCHANGED <<request, granted>>
  <1>1. PICK r \in Unlocked, pc \in {"submit", "cancel", "decide"} :
              /\ UNCHANGED <<request, granted>>
              /\ handler' \in [Handlers -> HandlerState]
              /\ handler'[h].pc = pc /\ handler'[h].request = r
              /\ \A k \in Handlers : k # h => handler'[k] = handler[k]
              /\ pc = "submit" => request[r].status = "none"
              /\ pc \in {"cancel", "decide"} => request[r].status = "pending"
    BY ReadEffect DEF LockInv, Unlocked
  <1>2. r \in Requests /\ \A k \in Handlers : ~InTransaction(k, r)
    BY DEF Unlocked
  <1>3. TypeOK'
    BY <1>1 DEF LockInv, TypeOK
  <1>4. Status' = Status /\ Status[r] = request[r].status
    BY <1>1, <1>2 DEF Status
  <1>5. ReadsHold'
    BY <1>1, <1>2, <1>4 DEF LockInv, ReadsHold
  <1>6. \A k \in Handlers, q \in Requests : k # h => InTransaction(k, q)' = InTransaction(k, q)
    BY <1>1 DEF InTransaction
  <1>7. \A q \in Requests : InTransaction(h, q)' => q = r
    BY <1>1 DEF InTransaction
  <1>8. OneTransaction'
    BY <1>2, <1>6, <1>7 DEF LockInv, OneTransaction
  <1>9. QED
    BY <1>1, <1>3, <1>5, <1>8 DEF LockInv

(* After its write a handler has nothing left that must hold, and no other *)
(* transaction works on the row it wrote.                                  *)
LEMMA LockMove ==
    ASSUME LockInv, TypeOK', NEW h \in Handlers,
           \/ Status' = Status
           \/ \E r \in Requests, s \in Once!Statuses :
                 InTransaction(h, r) /\ Status' = [Status EXCEPT ![r] = s],
           handler'[h].pc \in {"rest", "announce"},
           \A k \in Handlers : k # h => handler'[k] = handler[k]
    PROVE  LockInv'
  <1>1. ASSUME NEW k \in Handlers, handler'[k].pc \in {"submit", "cancel", "decide"}
        PROVE  /\ k # h /\ handler'[k] = handler[k]
               /\ Status'[handler'[k].request] = Status[handler[k].request]
    <2>1. k # h /\ handler'[k] = handler[k]
      BY <1>1
    <2>2. PICK q \in Requests : q = handler[k].request
      BY <1>1, <2>1 DEF LockInv, TypeOK, HandlerState, AtRest, Deciding, Doing
    <2>3. InTransaction(k, q)
      BY <1>1, <2>1, <2>2 DEF InTransaction
    <2>4. ~InTransaction(h, q)
      BY <2>1, <2>3 DEF LockInv, OneTransaction
    <2>5. Status'[q] = Status[q]
      BY <2>4 DEF Status
    <2>6. QED
      BY <2>1, <2>2, <2>5
  <1>2. ReadsHold'
    BY <1>1 DEF LockInv, ReadsHold
  <1>3. OneTransaction'
    BY DEF LockInv, OneTransaction, InTransaction
  <1>4. QED
    BY <1>2, <1>3 DEF LockInv

LEMMA LockStep ==
    ASSUME LockInv, [LockingNext]_vars
    PROVE  LockInv' /\ [Once!Next]_(Once!vars)
  <1>1. CASE \E h \in Handlers : Reads(h, Unlocked)
    <2>1. LockInv' /\ UNCHANGED <<request, granted>>
      BY <1>1, LockRead
    <2>2. QED
      BY <2>1 DEF Once!vars
  <1>2. ASSUME NEW h \in Handlers, WriteRequest(h) \/ WriteCancel(h) \/ WriteDecision(h)
        PROVE  LockInv' /\ [Once!Next]_(Once!vars)
    <2>1. PICK r \in Requests, s \in Once!Statuses : Written(h, r, s)
      BY <1>2, WriteEffect DEF LockInv
    <2>2. LockInv'
      BY <2>1, LockMove DEF Written
    <2>3. /\ handler[h].pc = "submit" => Status[r] = "none"
          /\ handler[h].pc \in {"cancel", "decide"} => Status[r] = "pending"
          /\ handler[h].pc \in {"submit", "cancel", "decide"}
      BY <2>1 DEF Written, InTransaction, LockInv, ReadsHold
    <2>4. Once!Submit(r) \/ Once!Cancel(r) \/ Once!Approve(r) \/ Once!Reject(r)
      BY <2>1, <2>3 DEF Written, Decisions, Status,
         Once!Submit, Once!Cancel, Once!Approve, Once!Reject
    <2>5. Once!Next
      BY <2>4 DEF Once!Next
    <2>6. QED
      BY <2>2, <2>5, Zenon
  <1>3. ASSUME NEW h \in Handlers, Announce(h) \/ Die(h)
        PROVE  LockInv' /\ [Once!Next]_(Once!vars)
    <2>1. UNCHANGED <<request, granted>> /\ Status' = Status
      BY <1>3, RestEffect DEF LockInv, Status
    <2>2. LockInv'
      BY <1>3, <2>1, RestEffect, LockMove DEF LockInv
    <2>3. QED
      BY <2>1, <2>2 DEF Once!vars
  <1>4. CASE Administer \/ UNCHANGED vars
    <2>1. UNCHANGED <<request, granted, handler>>
      BY <1>4 DEF Administer, CreateCategory, RemoveCategory, vars
    <2>2. QED
      BY <2>1 DEF LockInv, TypeOK, ReadsHold, OneTransaction, InTransaction, Status, Once!vars
  <1>5. QED
    BY <1>1, <1>2, <1>3, <1>4 DEF LockingNext, Writes

(* Where the read of a transaction locks its row, any number of handlers   *)
(* implements DecideOnce: nothing is decided twice, and every approval     *)
(* gives exactly one advance.                                              *)
THEOREM LockedRowsDecideOnce == LockingSpec => OnceSpec
  <1>1. Init => LockInv /\ Once!Init
    <2>1. Init => Once!Init
      BY DEF Init, NoRequest, Once!Init
    <2>2. Init => ReadsHold /\ OneTransaction
      BY InitIdle DEF ReadsHold, OneTransaction, InTransaction
    <2>3. QED
      BY <2>1, <2>2, InitType DEF LockInv
  <1>2. LockInv /\ [LockingNext]_vars => LockInv' /\ [Once!Next]_(Once!vars)
    BY LockStep
  <1>3. QED
    BY <1>1, <1>2, PTL DEF LockingSpec, OnceSpec, Once!Spec

-----------------------------------------------------------------------------
(* DecideOnce itself: an approval has taken effect once, anything else not *)
(* at all, and so it is for the requests of locked rows.                   *)
THEOREM EffectOnce == OnceSpec => []Once!EffectMatchesStatus
  <1>1. Once!Init => Once!EffectMatchesStatus
    BY DEF Once!Init, Once!EffectMatchesStatus, Once!Statuses
  <1>2. ASSUME Once!EffectMatchesStatus, [Once!Next]_(Once!vars)
        PROVE  Once!EffectMatchesStatus'
    <2> USE DEF Once!EffectMatchesStatus, Once!Statuses
    <2>1. CASE UNCHANGED Once!vars
      BY <1>2, <2>1 DEF Once!vars
    <2>2. ASSUME NEW r \in Requests, Once!Submit(r)
          PROVE  Once!EffectMatchesStatus'
      BY <1>2, <2>2 DEF Once!Submit
    <2>3. ASSUME NEW r \in Requests, Once!Cancel(r)
          PROVE  Once!EffectMatchesStatus'
      BY <1>2, <2>3 DEF Once!Cancel
    <2>4. ASSUME NEW r \in Requests, Once!Approve(r)
          PROVE  Once!EffectMatchesStatus'
      <3>1. /\ Status \in [Requests -> Once!Statuses] /\ Status[r] = "pending"
            /\ Status' = [Status EXCEPT ![r] = "approved"]
            /\ granted' = [granted EXCEPT ![r] = @ + 1]
        BY <1>2, <2>4 DEF Once!Approve, Status
      <3>2. /\ granted[r] = 0 /\ granted'[r] = 1 /\ Status'[r] = "approved"
            /\ granted' \in [Requests -> Nat]
        BY <1>2, <3>1 DEF Status
      <3>3. \A q \in Requests : q # r => Status'[q] = Status[q] /\ granted'[q] = granted[q]
        BY <1>2, <3>1
      <3>4. Status' \in [Requests -> Once!Statuses]
        BY <3>1
      <3>5. QED
        BY <1>2, <3>1, <3>2, <3>3, <3>4 DEF Status
    <2>5. ASSUME NEW r \in Requests, Once!Reject(r)
          PROVE  Once!EffectMatchesStatus'
      BY <1>2, <2>5 DEF Once!Reject
    <2>6. QED
      BY <1>2, <2>1, <2>2, <2>3, <2>4, <2>5 DEF Once!Next
  <1>3. QED
    BY <1>1, <1>2, PTL DEF OnceSpec, Once!Spec

(* A decision or a cancellation is never taken back.                       *)
THEOREM DecisionsStand == OnceSpec => Once!DecisionsAreFinal
  <1>1. ASSUME Once!EffectMatchesStatus, [Once!Next]_(Once!vars), NEW r \in Requests,
               Status[r] \in {"approved", "rejected", "cancelled"}
        PROVE  Status'[r] = Status[r]
    <2>1. Status \in [Requests -> Once!Statuses]
      BY <1>1 DEF Once!EffectMatchesStatus, Status
    <2>2. CASE UNCHANGED Once!vars
      BY <2>2 DEF Once!vars, Status
    <2>3. ASSUME NEW q \in Requests,
                 Once!Submit(q) \/ Once!Cancel(q) \/ Once!Approve(q) \/ Once!Reject(q)
          PROVE  Status'[r] = Status[r]
      <3>1. Status[q] \in {"none", "pending"}
        BY <2>3 DEF Once!Submit, Once!Cancel, Once!Approve, Once!Reject, Status
      <3>2. \E new : Status' = [Status EXCEPT ![q] = new]
        BY <2>3 DEF Once!Submit, Once!Cancel, Once!Approve, Once!Reject, Status
      <3>3. QED
        BY <1>1, <2>1, <3>1, <3>2
    <2>4. QED
      BY <1>1, <2>2, <2>3 DEF Once!Next
  <1>2. Once!EffectMatchesStatus /\ [Once!Next]_(Once!vars)
           => [\A r \in Requests :
                  Status[r] \in {"approved", "rejected", "cancelled"}
                     => Status'[r] = Status[r]]_(Once!vars)
    BY <1>1
  <1>3. QED
    BY <1>2, EffectOnce, PTL DEF OnceSpec, Once!Spec, Once!DecisionsAreFinal, Status
=============================================================================
