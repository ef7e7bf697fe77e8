---------------------------- MODULE CountersProofs ----------------------------
(***************************************************************************)
(* Counters and the ledger together, for any number of tills, sessions,    *)
(* members and entries: the cash of a till may create, change and delete   *)
(* advances, and still recovered amounts match their rows, sessions stay   *)
(* apart, and a verified report is final.                                  *)
(*                                                                         *)
(* Every step of the tills but two is also a step of Ledger, so that its   *)
(* lemmas serve again; an edited entry and a deleted counter are new, and  *)
(* rest on linked entries having an advance (LinksHold).                   *)
(***************************************************************************)
EXTENDS Counters, LedgerProofs

SessionRow ==
    [status : {"none", "open", "closed"},
     counter : Counters \cup {Nobody}, member : Members \cup {Nobody},
     openingCash : Nat, previousSale : Nat \cup {Unread},
     closingCash : Nat \cup {Unread}, closingSale : Nat \cup {Unread},
     verifiedBy : Members \cup {Nobody}]

EntryRow ==
    [session : Sessions \cup {Nobody}, type : Types, amount : Nat, linked : BOOLEAN]

TillTypeOK ==
    /\ counter \in [Counters -> {"none", "live", "deleted"}]
    /\ session \in [Sessions -> SessionRow]
    /\ entry \in [AdvanceIds -> EntryRow]

(* An entry that is linked to an advance has one.                          *)
LinksHold == \A i \in AdvanceIds : entry[i].linked => advance[i].exists

(* Only a session that is closed is verified.                              *)
VerifiedIsClosed == \A s \in Sessions : Verified(s) => Closed(s)

SessionsHold ==
    /\ session \in [Sessions -> SessionRow]
    /\ VerifiedIsClosed
    /\ VerifierIsNotLastHandler
    /\ OneTillPerMember

TillInv == TillTypeOK /\ SessionsHold /\ LinksHold

CountersInv == LedgerInv /\ TillInv

-----------------------------------------------------------------------------
(* Sessions. *)

LEMMA EmptyRows ==
    /\ NoSession \in SessionRow /\ NoSession.status = "none" /\ NoSession.verifiedBy = Nobody
    /\ NoEntry \in EntryRow /\ NoEntry.linked = FALSE /\ NoEntry.amount = 0
  BY DEF NoSession, NoEntry, SessionRow, EntryRow, Unread, Types

(* What a step that writes one session has to see to.                      *)
LEMMA OneSessionWritten ==
    ASSUME SessionsHold, NEW s \in Sessions, NEW row \in SessionRow,
           session' = [session EXCEPT ![s] = row],
           row.verifiedBy # Nobody => row.status = "closed" /\ row.verifiedBy # row.member,
           row.status = "open" =>
              \A t \in Sessions \ {s} : ~(Open(t) /\ session[t].member = row.member)
    PROVE  SessionsHold'
  <1>1. /\ session' \in [Sessions -> SessionRow]
        /\ session'[s] = row
        /\ \A t \in Sessions \ {s} : session'[t] = session[t]
    BY DEF SessionsHold
  <1>2. VerifiedIsClosed'
    BY <1>1 DEF SessionsHold, VerifiedIsClosed, Verified, Closed
  <1>3. VerifierIsNotLastHandler'
    BY <1>1 DEF SessionsHold, VerifierIsNotLastHandler, Verified
  <1>4. OneTillPerMember'
    BY <1>1 DEF SessionsHold, OneTillPerMember, Open
  <1>5. QED
    BY <1>1, <1>2, <1>3, <1>4 DEF SessionsHold

LEMMA OpenSessionKeeps ==
    ASSUME SessionsHold, CountersAssumption, NEW s \in Sessions, NEW c \in Counters,
           NEW m \in Members, NEW cash \in Readings, NEW sale \in Readings,
           OpenSession(s, c, m, cash, sale)
    PROVE  SessionsHold'
  <1> DEFINE row == [NoSession EXCEPT !.status = "open", !.counter = c, !.member = m,
                                      !.openingCash = cash, !.previousSale = sale]
  <1>1. /\ row \in SessionRow /\ row.status = "open"
        /\ row.member = m /\ row.verifiedBy = Nobody
    BY DEF NoSession, SessionRow, Unread, CountersAssumption
  <1>2. session' = [session EXCEPT ![s] = row]
    BY DEF OpenSession
  <1>3. \A t \in Sessions : ~(Open(t) /\ session[t].member = m)
    BY DEF OpenSession, Busy
  <1> HIDE DEF row
  <1>4. QED
    BY <1>1, <1>2, <1>3, OneSessionWritten

LEMMA ReassignStaffKeeps ==
    ASSUME SessionsHold, CountersAssumption, NEW s \in Sessions, NEW m \in Members,
           ReassignStaff(s, m)
    PROVE  SessionsHold'
  <1> DEFINE row == [session[s] EXCEPT !.member = m]
  <1>1. /\ session[s] \in SessionRow
        /\ session[s].status = "open" /\ session[s].verifiedBy = Nobody
    BY DEF ReassignStaff, Open, SessionsHold, VerifiedIsClosed, Verified, Closed
  <1>2. /\ row \in SessionRow /\ row.member = m /\ row.verifiedBy = Nobody
    BY <1>1 DEF SessionRow
  <1>3. session' = [session EXCEPT ![s] = row]
    BY DEF ReassignStaff
  <1>4. \A t \in Sessions : ~(Open(t) /\ session[t].member = m)
    BY DEF ReassignStaff, Busy
  <1> HIDE DEF row
  <1>5. QED
    BY <1>2, <1>3, <1>4, OneSessionWritten

LEMMA CloseSessionKeeps ==
    ASSUME SessionsHold, CountersAssumption, NEW s \in Sessions,
           NEW cash \in Readings, NEW sale \in Readings,
           CloseSession(s, cash, sale)
    PROVE  SessionsHold'
  <1> DEFINE row == [session[s] EXCEPT !.status = "closed",
                                       !.closingCash = cash, !.closingSale = sale]
  <1>1. /\ session[s] \in SessionRow
        /\ session[s].status = "open" /\ session[s].verifiedBy = Nobody
    BY DEF CloseSession, Open, SessionsHold, VerifiedIsClosed, Verified, Closed
  <1>2. row \in SessionRow /\ row.status = "closed" /\ row.verifiedBy = Nobody
    BY <1>1 DEF SessionRow, CountersAssumption
  <1>3. session' = [session EXCEPT ![s] = row]
    BY DEF CloseSession
  <1> HIDE DEF row
  <1>4. QED
    BY <1>2, <1>3, OneSessionWritten

(* An edit of the readings of a session that is not verified.              *)
LEMMA ReadingsEdited ==
    ASSUME SessionsHold, NEW s \in Sessions, ~Verified(s), NEW row \in SessionRow,
           session' = [session EXCEPT ![s] = row],
           row.status = session[s].status, row.member = session[s].member,
           row.verifiedBy = session[s].verifiedBy
    PROVE  SessionsHold'
  <1>1. row.verifiedBy = Nobody
    BY DEF Verified
  <1>2. row.status = "open" =>
          \A t \in Sessions \ {s} : ~(Open(t) /\ session[t].member = row.member)
    BY DEF SessionsHold, OneTillPerMember, Open
  <1>3. QED
    BY <1>1, <1>2, OneSessionWritten

LEMMA EditsKeep ==
    ASSUME SessionsHold, CountersAssumption, NEW s \in Sessions,
           \/ \E cash, sale \in Readings : \/ EditClosingDetails(s, cash, sale)
                                           \/ EditOpeningDetails(s, cash, sale)
           \/ \E previous, closing \in Readings \cup {Unread} :
                 EditSalesDetails(s, previous, closing)
    PROVE  SessionsHold'
  <1>0. session[s] \in SessionRow
    BY DEF SessionsHold
  <1>1. ASSUME NEW cash \in Readings, NEW sale \in Readings,
               EditClosingDetails(s, cash, sale)
        PROVE  SessionsHold'
    <2> DEFINE row == [session[s] EXCEPT !.closingCash = cash, !.closingSale = sale]
    <2>1. /\ row \in SessionRow /\ row.status = session[s].status
          /\ row.member = session[s].member /\ row.verifiedBy = session[s].verifiedBy
      BY <1>0 DEF SessionRow, CountersAssumption
    <2>2. session' = [session EXCEPT ![s] = row] /\ ~Verified(s)
      BY <1>1 DEF EditClosingDetails
    <2> HIDE DEF row
    <2>3. QED
      BY <2>1, <2>2, ReadingsEdited
  <1>2. ASSUME NEW cash \in Readings, NEW sale \in Readings,
               EditOpeningDetails(s, cash, sale)
        PROVE  SessionsHold'
    <2> DEFINE row == [session[s] EXCEPT !.openingCash = cash, !.previousSale = sale]
    <2>1. /\ row \in SessionRow /\ row.status = session[s].status
          /\ row.member = session[s].member /\ row.verifiedBy = session[s].verifiedBy
      BY <1>0 DEF SessionRow, CountersAssumption
    <2>2. session' = [session EXCEPT ![s] = row] /\ ~Verified(s)
      BY <1>2 DEF EditOpeningDetails
    <2> HIDE DEF row
    <2>3. QED
      BY <2>1, <2>2, ReadingsEdited
  <1>3. ASSUME NEW previous \in Readings \cup {Unread}, NEW closing \in Readings \cup {Unread},
               EditSalesDetails(s, previous, closing)
        PROVE  SessionsHold'
    <2> DEFINE row == [session[s] EXCEPT !.previousSale = GivenReading(previous, @),
                                         !.closingSale = GivenReading(closing, @)]
    <2>1. /\ row \in SessionRow /\ row.status = session[s].status
          /\ row.member = session[s].member /\ row.verifiedBy = session[s].verifiedBy
      BY <1>0 DEF SessionRow, CountersAssumption, GivenReading, Unread
    <2>2. session' = [session EXCEPT ![s] = row] /\ ~Verified(s)
      BY <1>3 DEF EditSalesDetails
    <2> HIDE DEF row
    <2>3. QED
      BY <2>1, <2>2, ReadingsEdited
  <1>4. QED
    BY <1>1, <1>2, <1>3

LEMMA VerifySessionKeeps ==
    ASSUME SessionsHold, CountersAssumption, NEW s \in Sessions, NEW by \in Members,
           VerifySession(s, by)
    PROVE  SessionsHold'
  <1> DEFINE row == [session[s] EXCEPT !.verifiedBy = by]
  <1>1. session[s] \in SessionRow /\ session[s].status = "closed" /\ by # session[s].member
    BY DEF VerifySession, Closed, SessionsHold
  <1>2. /\ row \in SessionRow /\ row.status = "closed"
        /\ row.verifiedBy = by /\ row.member = session[s].member
    BY <1>1 DEF SessionRow
  <1>3. session' = [session EXCEPT ![s] = row]
    BY DEF VerifySession
  <1> HIDE DEF row
  <1>4. QED
    BY <1>1, <1>2, <1>3, OneSessionWritten

LEMMA DeleteCounterSessions ==
    ASSUME SessionsHold, NEW c \in Counters, DeleteCounter(c)
    PROVE  SessionsHold'
  <1>1. CASE session' = session
    BY <1>1 DEF SessionsHold, VerifiedIsClosed, VerifierIsNotLastHandler, OneTillPerMember,
                Verified, Closed, Open
  <1>2. CASE \E s \in Sessions : session' = [session EXCEPT ![s] = NoSession]
    BY <1>2, EmptyRows, OneSessionWritten
  <1>3. QED
    BY <1>1, <1>2 DEF DeleteCounter

LEMMA SessionsStep ==
    ASSUME SessionsHold, CountersAssumption, [CountersNext]_allVars
    PROVE  SessionsHold'
  <1>1. CASE SessionNext
    <2>1. CASE \E c \in Counters : CreateCounter(c)
      <3>1. session' = session
        BY <2>1 DEF CreateCounter
      <3>2. QED
        BY <3>1 DEF SessionsHold, VerifiedIsClosed, VerifierIsNotLastHandler, OneTillPerMember,
                    Verified, Closed, Open
    <2>2. QED
      BY <1>1, <2>1, OpenSessionKeeps, ReassignStaffKeeps, CloseSessionKeeps, EditsKeep,
         VerifySessionKeeps, DeleteCounterSessions DEF SessionNext
  <1>2. CASE EntryNext \/ LedgerNext \/ UNCHANGED allVars
    <2>1. EntryNext => session' = session
      BY DEF EntryNext, AddMovement, AddAdvanceMovement, NewEntry, EditMovement, DeleteMovement
    <2>2. LedgerNext => session' = session
      BY DEF LedgerNext, RemoveByHand, till
    <2>3. session' = session
      BY <1>2, <2>1, <2>2 DEF allVars, till
    <2>4. QED
      BY <2>3 DEF SessionsHold, VerifiedIsClosed, VerifierIsNotLastHandler, OneTillPerMember,
                  Verified, Closed, Open
  <1>3. QED
    BY <1>1, <1>2 DEF CountersNext

-----------------------------------------------------------------------------
(* The ledger under the tills. *)

LEMMA EditMovementPreserves ==
    ASSUME LedgerInv, LedgerAssumption, NEW i \in AdvanceIds, NEW amount \in Amounts,
           advance[i].recoveredAmount <= 0, advance[i].exists,
           advance' = [advance EXCEPT ![i].amount = amount],
           UNCHANGED <<recovery, payslip, settings, salary, onPayroll>>
    PROVE  LedgerInv'
  <1> DEFINE row == [advance[i] EXCEPT !.amount = amount]
  <1>1. advance[i] \in Advance /\ amount \in Nat /\ amount > 0
    BY DEF LedgerInv, TypeOK, LedgerAssumption
  <1>2. /\ row \in Advance
        /\ row.exists = TRUE /\ row.amount = amount /\ row.closed = advance[i].closed
        /\ row.recoveredAmount = advance[i].recoveredAmount
    BY <1>1 DEF Advance
  <1>3. advance' = [advance EXCEPT ![i] = row]
    OBVIOUS
  <1> HIDE DEF row
  <1>4. advance'[i] = row /\ \A b \in AdvanceIds : b # i => advance'[b] = advance[b]
    BY <1>3 DEF LedgerInv, TypeOK
  <1>5. TypeOK'
    BY <1>2, <1>3 DEF LedgerInv, TypeOK
  <1>6. RowShape'
    BY <1>1, <1>2, <1>4 DEF LedgerInv, RowShape
  <1>7. /\ advance[i].recoveredAmount \in Nat
        /\ advance[i].recoveredAmount = SumOf(recovery[i], NumPeriods)
        /\ advance[i].closed <=> advance[i].recoveredAmount >= advance[i].amount
        /\ advance[i].amount \in Nat /\ advance[i].amount > 0
    BY <1>1 DEF LedgerInv, RecoveredMatchesRows, RowShape, Advance
  <1>8. SumOf(recovery[i], NumPeriods) = 0 /\ ~advance[i].closed
    BY <1>7
  <1>9. RecoveredMatchesRows'
    BY <1>1, <1>2, <1>4, <1>7, <1>8 DEF LedgerInv, RecoveredMatchesRows
  <1>10. NeverOverRecovered'
    BY <1>1, <1>2, <1>4, <1>8 DEF LedgerInv, NeverOverRecovered
  <1>11. QED
    BY <1>5, <1>6, <1>9, <1>10 DEF LedgerInv

(* A counter that is deleted takes advances with it of which nothing has   *)
(* been recovered.                                                         *)
LEMMA DeletedTogether ==
    ASSUME LedgerInv, LedgerAssumption, NEW A \in SUBSET AdvanceIds,
           \A i \in A : recovery[i] = NoRows,
           advance' = [i \in AdvanceIds |-> IF i \in A THEN NoAdvance ELSE advance[i]],
           UNCHANGED <<recovery, payslip, settings, salary, onPayroll>>
    PROVE  LedgerInv'
  <1>1. NoAdvance \in Advance
    BY DEF LedgerAssumption, NoAdvance, Advance, Modes
  <1>2. \A i \in A : SumOf(recovery[i], NumPeriods) = 0
    BY SumOfNothing DEF NoRows, Periods, LedgerAssumption
  <1>3. /\ NoAdvance.exists = FALSE /\ NoAdvance.recoveredAmount = 0
        /\ NoAdvance.amount = 0
    BY DEF NoAdvance
  <1> HIDE DEF NoAdvance
  <1>4. TypeOK'
    BY <1>1 DEF LedgerInv, TypeOK
  <1>5. RowShape'
    BY <1>3 DEF LedgerInv, RowShape
  <1>6. RecoveredMatchesRows'
    BY <1>2, <1>3 DEF LedgerInv, RecoveredMatchesRows
  <1>7. NeverOverRecovered'
    BY <1>2, <1>3 DEF LedgerInv, NeverOverRecovered
  <1>8. QED
    BY <1>4, <1>5, <1>6, <1>7 DEF LedgerInv

(* What deleteCounter does to an open session s, the entries gone with it  *)
(* and the advances A gone with them.                                      *)
TakesAlong(s, gone, A) ==
    /\ Open(s)
    /\ gone = {i \in AdvanceIds : entry[i].session = s}
    /\ A = {i \in gone : entry[i].linked /\ advance[i].recoveredAmount = 0}
    /\ \A i \in A : recovery[i] = NoRows
    /\ session' = [session EXCEPT ![s] = NoSession]
    /\ entry' = [i \in AdvanceIds |-> IF i \in gone THEN NoEntry ELSE entry[i]]
    /\ advance' = [i \in AdvanceIds |-> IF i \in A THEN NoAdvance ELSE advance[i]]
    /\ UNCHANGED <<recovery, payslip, settings, salary, onPayroll>>

LEMMA DeleteCounterEffect ==
    ASSUME NEW c \in Counters, DeleteCounter(c)
    PROVE  \/ UNCHANGED <<vars, session, entry>>
           \/ \E s \in Sessions, gone \in SUBSET AdvanceIds, A \in SUBSET AdvanceIds :
                TakesAlong(s, gone, A)
  <1> DEFINE Gone(s) == {i \in AdvanceIds : entry[i].session = s}
             Repaid(s) == {i \in Gone(s) : entry[i].linked /\ advance[i].recoveredAmount = 0}
  <1>1. \/ UNCHANGED <<vars, session, entry>>
        \/ \E s \in Sessions : TakesAlong(s, Gone(s), Repaid(s))
    BY DEF DeleteCounter, TakesAlong
  <1>2. \A s : Gone(s) \in SUBSET AdvanceIds /\ Repaid(s) \in SUBSET AdvanceIds
    OBVIOUS
  <1> HIDE DEF Repaid, Gone
  <1>3. QED
    BY <1>1, <1>2, Zenon

(* The steps of the tills as the ledger sees them.                         *)
LEMMA LedgerSees ==
    ASSUME CountersInv, LedgerAssumption, CountersAssumption, [CountersNext]_allVars
    PROVE  \/ [Next]_vars
           \/ \E i \in AdvanceIds, amount \in Amounts : entry[i].linked /\ EditMovement(i, amount)
           \/ \E c \in Counters : DeleteCounter(c)
  <1>1. CASE SessionNext
    <2>1. CASE \E c \in Counters : DeleteCounter(c)
      BY <2>1
    <2>2. CASE ~\E c \in Counters : DeleteCounter(c)
      <3>1. UNCHANGED vars
        BY <1>1, <2>2 DEF SessionNext, CreateCounter, OpenSession, ReassignStaff, VerifySession,
           CloseSession, EditClosingDetails, EditOpeningDetails, EditSalesDetails
      <3>2. QED
        BY <3>1
    <2>3. QED
      BY <2>1, <2>2
  <1>2. CASE EntryNext
    <2>1. ASSUME NEW s \in Sessions, NEW i \in AdvanceIds, NEW amount \in Amounts,
                 NEW type \in Types, AddMovement(s, i, type, amount)
          PROVE  [Next]_vars
      BY <2>1 DEF AddMovement
    <2>2. ASSUME NEW s \in Sessions, NEW i \in AdvanceIds, NEW amount \in Amounts,
                 NEW m \in Members, NEW date \in Dates, NEW mode \in Modes,
                 NEW instalment \in Amounts,
                 AddAdvanceMovement(s, i, amount, m, date, mode, instalment)
          PROVE  [Next]_vars
      <3>1. CreateAdvance(i, m, amount, date, mode, instalment)
        BY <2>2 DEF AddAdvanceMovement
      <3>2. CreateSome
        BY <3>1 DEF CreateSome
      <3>3. QED
        BY <3>2 DEF Next, PayrollNext
    <2>3. ASSUME NEW i \in AdvanceIds, NEW amount \in Amounts, EditMovement(i, amount)
          PROVE  [Next]_vars \/ entry[i].linked
      BY <2>3 DEF EditMovement, vars
    <2>4. ASSUME NEW i \in AdvanceIds, DeleteMovement(i)
          PROVE  [Next]_vars
      <3>1. RemoveAdvance(i) \/ UNCHANGED vars
        BY <2>4 DEF DeleteMovement
      <3>2. QED
        BY <3>1 DEF Next, PayrollNext
    <2>5. QED
      BY <1>2, <2>1, <2>2, <2>3, <2>4 DEF EntryNext
  <1>3. CASE LedgerNext
    <2>1. ASSUME NEW a \in AdvanceIds, RemoveByHand(a)
          PROVE  RemoveAdvance(a)
      BY <2>1 DEF RemoveByHand
    <2>2. PayrollNext \/ ApplySome
      BY <1>3, <2>1, Zenon DEF LedgerNext, PayrollNext
    <2>3. QED
      BY <2>2 DEF Next
  <1>4. CASE UNCHANGED allVars
    BY <1>4 DEF allVars
  <1>5. QED
    BY <1>1, <1>2, <1>3, <1>4 DEF CountersNext

LEMMA LedgerUnderTills ==
    ASSUME CountersInv, LedgerAssumption, CountersAssumption, [CountersNext]_allVars
    PROVE  LedgerInv'
  <1>1. CASE [Next]_vars
    BY <1>1, LedgerStep DEF CountersInv
  <1>2. ASSUME NEW i \in AdvanceIds, NEW amount \in Amounts,
               entry[i].linked, EditMovement(i, amount)
        PROVE  LedgerInv'
    <2>1. advance[i].exists /\ advance[i].recoveredAmount <= 0
      BY <1>2 DEF CountersInv, TillInv, LinksHold, EditMovement, Editable
    <2>2. /\ advance' = [advance EXCEPT ![i].amount = amount]
          /\ UNCHANGED <<recovery, payslip, settings, salary, onPayroll>>
      BY <1>2 DEF EditMovement
    <2>3. QED
      BY <2>1, <2>2, EditMovementPreserves DEF CountersInv
  <1>3. ASSUME NEW c \in Counters, DeleteCounter(c)
        PROVE  LedgerInv'
    <2>1. CASE UNCHANGED <<vars, session, entry>>
      BY <2>1, LedgerStep DEF CountersInv
    <2>2. ASSUME NEW s \in Sessions, NEW gone \in SUBSET AdvanceIds,
                 NEW A \in SUBSET AdvanceIds, TakesAlong(s, gone, A)
          PROVE  LedgerInv'
      BY <2>2, DeletedTogether DEF CountersInv, TakesAlong
    <2>3. QED
      BY <1>3, <2>1, <2>2, DeleteCounterEffect
  <1>4. QED
    BY <1>1, <1>2, <1>3, LedgerSees

-----------------------------------------------------------------------------
(* Entries and what they are linked to. *)

(* The handlers of the ledger other than update and remove change neither  *)
(* what an advance is for nor that it exists; update leaves it existing.   *)
LEMMA HandlersKeepAdvances ==
    ASSUME LedgerInv, NEW a \in AdvanceIds, advance[a].exists,
           \/ CreateSome \/ UpdateSome \/ GenerateSome \/ ApplySome
           \/ UNCHANGED advance
    PROVE  advance'[a].exists /\ (advance'[a].amount = advance[a].amount \/ UpdateSome)
  <1>0. advance[a] \in Advance /\ advance \in [AdvanceIds -> Advance]
    BY DEF LedgerInv, TypeOK
  <1>1. CASE CreateSome
    <2>1. PICK b \in AdvanceIds, m \in Members, amount \in Amounts, date \in Dates,
               mode \in Modes, instalment \in Amounts \cup {None} :
                 CreateAdvance(b, m, amount, date, mode, instalment)
      BY <1>1 DEF CreateSome
    <2>2. advance'[a] = advance[a]
      BY <1>0, <2>1 DEF CreateAdvance
    <2>3. QED
      BY <2>2
  <1>2. CASE UpdateSome
    <2>1. PICK b \in AdvanceIds, amount \in Amounts \cup {None}, date \in Dates,
               mode \in Modes \cup {None},
               instalment \in Amounts \cup Instalments \cup {None} :
                 UpdateAdvance(b, amount, date, mode, instalment)
      BY <1>2 DEF UpdateSome
    <2>2. advance'[a].exists
      BY <1>0, <2>1 DEF UpdateAdvance, Advance
    <2>3. QED
      BY <1>2, <2>2
  <1>3. CASE GenerateSome \/ ApplySome
    <2>1. \E p \in Periods : \E ded : advance' = AdvancesAfter(ded, p)
      BY <1>3, Zenon DEF GenerateSome, Generate, ApplySome, ApplyRecovery
    <2>2. QED
      BY <2>1, RecordKeeps
  <1>4. CASE UNCHANGED advance
    BY <1>4
  <1>5. QED
    BY <1>1, <1>2, <1>3, <1>4

(* What can happen to an entry and to the advance of its slot: besides the *)
(* ledger's own steps, they are written together.                          *)
LEMMA EntrySteps ==
    ASSUME CountersInv, LedgerAssumption, CountersAssumption, [CountersNext]_allVars
    PROVE  \/ UNCHANGED entry /\ (CreateSome \/ UpdateSome \/ GenerateSome \/ ApplySome
                                  \/ UNCHANGED advance)
           \/ \E s \in Sessions, i \in AdvanceIds, amount \in Amounts :
                 \/ \E type \in Types : AddMovement(s, i, type, amount)
                 \/ \E m \in Members, date \in Dates, mode \in Modes, instalment \in Amounts :
                       AddAdvanceMovement(s, i, amount, m, date, mode, instalment)
           \/ \E i \in AdvanceIds, amount \in Amounts : EditMovement(i, amount)
           \/ \E i \in AdvanceIds : DeleteMovement(i) \/ RemoveByHand(i)
           \/ \E s \in Sessions, gone \in SUBSET AdvanceIds, A \in SUBSET AdvanceIds :
                 TakesAlong(s, gone, A)
  <1>1. CASE SessionNext
    <2>1. CASE \E c \in Counters : DeleteCounter(c)
      <3>1. UNCHANGED <<vars, session, entry>> => UNCHANGED entry /\ UNCHANGED advance
        BY DEF vars
      <3>2. QED
        BY <2>1, <3>1, DeleteCounterEffect, Zenon
    <2>2. CASE ~\E c \in Counters : DeleteCounter(c)
      <3>1. UNCHANGED <<advance, entry>>
        BY <1>1, <2>2 DEF SessionNext, CreateCounter, OpenSession, ReassignStaff, VerifySession,
           CloseSession, EditClosingDetails, EditOpeningDetails, EditSalesDetails, vars
      <3>2. QED
        BY <3>1
    <2>3. QED
      BY <2>1, <2>2
  <1>2. CASE EntryNext
    BY <1>2, Zenon DEF EntryNext
  <1>3. CASE LedgerNext
    <2>1. (\/ \E r \in Rates : UpdateSettings(r)
           \/ \E m \in Members, pay \in Salaries, on \in BOOLEAN : ChangePay(m, pay, on))
          => UNCHANGED advance
      BY DEF UpdateSettings, ChangePay
    <2>2. UNCHANGED till => UNCHANGED entry
      BY DEF till
    <2>3. QED
      BY <1>3, <2>1, <2>2, Zenon DEF LedgerNext
  <1>4. CASE UNCHANGED allVars
    BY <1>4 DEF allVars, vars, till
  <1>5. QED
    BY <1>1, <1>2, <1>3, <1>4 DEF CountersNext

LEMMA EntriesStep ==
    ASSUME CountersInv, LedgerAssumption, CountersAssumption, [CountersNext]_allVars
    PROVE  entry' \in [AdvanceIds -> EntryRow] /\ LinksHold'
  <1>0. /\ entry \in [AdvanceIds -> EntryRow] /\ LinksHold /\ LedgerInv
        /\ advance \in [AdvanceIds -> Advance]
    BY DEF CountersInv, TillInv, TillTypeOK, LedgerInv, TypeOK
  <1>1. CASE UNCHANGED entry /\ (CreateSome \/ UpdateSome \/ GenerateSome \/ ApplySome
                                  \/ UNCHANGED advance)
    <2>1. \A i \in AdvanceIds : entry[i].linked => advance'[i].exists
      BY <1>0, <1>1, HandlersKeepAdvances DEF LinksHold
    <2>2. QED
      BY <1>0, <1>1, <2>1 DEF LinksHold
  <1>2. ASSUME NEW s \in Sessions, NEW i \in AdvanceIds, NEW amount \in Amounts,
               NEW type \in Types, AddMovement(s, i, type, amount)
        PROVE  entry' \in [AdvanceIds -> EntryRow] /\ LinksHold'
    <2>1. /\ entry' = [entry EXCEPT ![i] =
                [session |-> s, type |-> type, amount |-> amount, linked |-> FALSE]]
          /\ advance' = advance
      BY <1>2 DEF AddMovement, NewEntry, vars
    <2>2. QED
      BY <1>0, <2>1 DEF LinksHold, EntryRow, LedgerAssumption
  <1>3. ASSUME NEW s \in Sessions, NEW i \in AdvanceIds, NEW amount \in Amounts,
               NEW m \in Members, NEW date \in Dates, NEW mode \in Modes,
               NEW instalment \in Amounts,
               AddAdvanceMovement(s, i, amount, m, date, mode, instalment)
        PROVE  entry' \in [AdvanceIds -> EntryRow] /\ LinksHold'
    <2> DEFINE row == NewAdvance(m, amount, date, mode, instalment)
    <2>1. /\ entry' = [entry EXCEPT ![i] =
                [session |-> s, type |-> "outflow", amount |-> amount, linked |-> TRUE]]
          /\ advance' = [advance EXCEPT ![i] = row]
      BY <1>3 DEF AddAdvanceMovement, NewEntry, CreateAdvance
    <2>2. row.exists = TRUE
      BY DEF NewAdvance
    <2> HIDE DEF row
    <2>3. QED
      BY <1>0, <2>1, <2>2 DEF LinksHold, EntryRow, LedgerAssumption, Types
  <1>4. ASSUME NEW i \in AdvanceIds, NEW amount \in Amounts, EditMovement(i, amount)
        PROVE  entry' \in [AdvanceIds -> EntryRow] /\ LinksHold'
    <2>1. entry' = [entry EXCEPT ![i].amount = amount]
      BY <1>4 DEF EditMovement
    <2>2. \A j \in AdvanceIds : advance'[j].exists = advance[j].exists
      BY <1>0, <1>4 DEF EditMovement, Advance
    <2>3. QED
      BY <1>0, <2>1, <2>2 DEF LinksHold, EntryRow, LedgerAssumption
  <1>5. ASSUME NEW i \in AdvanceIds, DeleteMovement(i)
        PROVE  entry' \in [AdvanceIds -> EntryRow] /\ LinksHold'
    <2>1. /\ entry' = [entry EXCEPT ![i] = NoEntry]
          /\ \A j \in AdvanceIds : j # i => advance'[j] = advance[j]
      BY <1>0, <1>5 DEF DeleteMovement, RemoveAdvance, vars
    <2>2. QED
      BY <1>0, <2>1, EmptyRows DEF LinksHold
  <1>6. ASSUME NEW i \in AdvanceIds, RemoveByHand(i)
        PROVE  entry' \in [AdvanceIds -> EntryRow] /\ LinksHold'
    <2>1. /\ entry' = [entry EXCEPT ![i].linked = FALSE]
          /\ \A j \in AdvanceIds : j # i => advance'[j] = advance[j]
      BY <1>0, <1>6 DEF RemoveByHand, RemoveAdvance
    <2>2. QED
      BY <1>0, <2>1 DEF LinksHold, EntryRow
  <1>7. ASSUME NEW s \in Sessions, NEW gone \in SUBSET AdvanceIds,
               NEW A \in SUBSET AdvanceIds, TakesAlong(s, gone, A)
        PROVE  entry' \in [AdvanceIds -> EntryRow] /\ LinksHold'
    <2>1. /\ entry' = [i \in AdvanceIds |-> IF i \in gone THEN NoEntry ELSE entry[i]]
          /\ \A i \in AdvanceIds \ gone : advance'[i] = advance[i]
      BY <1>7 DEF TakesAlong
    <2>2. QED
      BY <1>0, <2>1, EmptyRows DEF LinksHold
  <1>8. QED
    BY <1>1, <1>2, <1>3, <1>4, <1>5, <1>6, <1>7, EntrySteps

LEMMA CountersStep ==
    ASSUME CountersInv, LedgerAssumption, CountersAssumption, [CountersNext]_allVars
    PROVE  CountersInv'
  <1>1. LedgerInv'
    BY LedgerUnderTills
  <1>2. SessionsHold'
    BY SessionsStep DEF CountersInv, TillInv
  <1>3. entry' \in [AdvanceIds -> EntryRow] /\ LinksHold'
    BY EntriesStep
  <1>4. counter' \in [Counters -> {"none", "live", "deleted"}]
    <2>1. EntryNext \/ LedgerNext \/ UNCHANGED allVars => counter' = counter
      BY DEF EntryNext, AddMovement, AddAdvanceMovement, NewEntry, EditMovement, DeleteMovement,
             LedgerNext, RemoveByHand, till, allVars
    <2>2. SessionNext => \/ counter' = counter
                         \/ \E c \in Counters : \/ counter' = [counter EXCEPT ![c] = "live"]
                                                \/ counter' = [counter EXCEPT ![c] = "deleted"]
      BY DEF SessionNext, CreateCounter, DeleteCounter, OpenSession, ReassignStaff,
             VerifySession, CloseSession, EditClosingDetails, EditOpeningDetails,
             EditSalesDetails
    <2>3. counter \in [Counters -> {"none", "live", "deleted"}]
      BY DEF CountersInv, TillInv, TillTypeOK
    <2>4. QED
      BY <2>1, <2>2, <2>3 DEF CountersNext
  <1>5. session' \in [Sessions -> SessionRow]
    BY <1>2 DEF SessionsHold
  <1>6. QED
    BY <1>1, <1>2, <1>3, <1>4, <1>5 DEF CountersInv, TillInv, TillTypeOK

LEMMA CountersInitially ==
    ASSUME LedgerAssumption, CountersInit
    PROVE  CountersInv
  <1>1. LedgerInv
    BY InitLedger DEF CountersInit
  <1>2. /\ \A s \in Sessions : session[s] = NoSession
        /\ session \in [Sessions -> SessionRow]
        /\ \A i \in AdvanceIds : entry[i] = NoEntry
        /\ entry \in [AdvanceIds -> EntryRow]
        /\ counter \in [Counters -> {"none", "live", "deleted"}]
    BY EmptyRows DEF CountersInit
  <1>3. SessionsHold
    BY <1>2, EmptyRows DEF SessionsHold, VerifiedIsClosed, VerifierIsNotLastHandler,
       OneTillPerMember, Verified, Closed, Open
  <1>4. LinksHold
    BY <1>2, EmptyRows DEF LinksHold
  <1>5. QED
    BY <1>1, <1>2, <1>3, <1>4 DEF CountersInv, TillInv, TillTypeOK

(* The ledger stays sound under the tills, and the tills stay sound.       *)
THEOREM CountersInvariant == CountersSpec => []CountersInv
  <1>1. CountersInit => CountersInv
    BY CountersInitially, LedgerAssumption
  <1>2. CountersInv /\ [CountersNext]_allVars => CountersInv'
    BY CountersStep, LedgerAssumption, CountersAssumption
  <1>3. QED
    BY <1>1, <1>2, PTL DEF CountersSpec

(* Also when tills create, change and delete advances, what is recovered   *)
(* is the sum of the recovery rows.                                        *)
THEOREM TillsKeepTheLedger == CountersSpec => []RecoveredMatchesRows
  <1>1. CountersInv => RecoveredMatchesRows
    BY DEF CountersInv, LedgerInv
  <1>2. QED
    BY <1>1, CountersInvariant, PTL

(* Nobody verifies the till that was theirs in the end.                    *)
THEOREM NobodyVerifiesTheTillTheyHave == CountersSpec => []VerifierIsNotLastHandler
  <1>1. CountersInv => VerifierIsNotLastHandler
    BY DEF CountersInv, TillInv, SessionsHold
  <1>2. QED
    BY <1>1, CountersInvariant, PTL

(* Nobody works two tills at once.                                         *)
THEOREM NobodyWorksTwoTills == CountersSpec => []OneTillPerMember
  <1>1. CountersInv => OneTillPerMember
    BY DEF CountersInv, TillInv, SessionsHold
  <1>2. QED
    BY <1>1, CountersInvariant, PTL

-----------------------------------------------------------------------------
(* What a step may never do. *)

(* What entry i adds to the total of a session.                            *)
Share(s, type, i) == IF entry[i].session = s /\ entry[i].type = type THEN entry[i].amount ELSE 0

(* A report is a function of the session and of the shares of the entries. *)
LEMMA ReportOfShares ==
    ASSUME NEW s \in Sessions, session'[s] = session[s],
           \A type \in Types, i \in AdvanceIds : Share(s, type, i)' = Share(s, type, i)
    PROVE  Report(s)' = Report(s)
  <1>1. \A type \in Types : EntrySum(s, type)' = EntrySum(s, type)
    <2> SUFFICES ASSUME NEW type \in Types PROVE EntrySum(s, type)' = EntrySum(s, type)
      OBVIOUS
    <2>1. EntrySum(s, type) = SumOf([i \in AdvanceIds |-> Share(s, type, i)], NumAdvances)
      BY DEF EntrySum, Share
    <2>2. EntrySum(s, type)' = SumOf([i \in AdvanceIds |-> Share(s, type, i)'], NumAdvances)
      BY DEF EntrySum, Share
    <2>3. [i \in AdvanceIds |-> Share(s, type, i)'] = [i \in AdvanceIds |-> Share(s, type, i)]
      OBVIOUS
    <2>4. QED
      BY <2>1, <2>2, <2>3
  <1>2. /\ EntrySum(s, "inflow")' = EntrySum(s, "inflow")
        /\ EntrySum(s, "outflow")' = EntrySum(s, "outflow")
        /\ EntrySum(s, "sales")' = EntrySum(s, "sales")
    BY <1>1 DEF Types
  <1>3. TotalSales(s)' = TotalSales(s)
    BY <1>2, Zenon DEF TotalSales
  <1>4. QED
    BY <1>2, <1>3, Zenon DEF Report

(* No step writes a session that is verified.                              *)
LEMMA VerifiedSessionKept ==
    ASSUME CountersInv, [CountersNext]_allVars, NEW s \in Sessions, Verified(s)
    PROVE  session'[s] = session[s]
  <1>0. /\ session \in [Sessions -> SessionRow]
        /\ ~Open(s) /\ session[s].status = "closed"
    BY DEF CountersInv, TillInv, SessionsHold, VerifiedIsClosed, Closed, Open
  <1>1. CASE SessionNext
    <2>1. ASSUME NEW t \in Sessions, NEW row, session' = [session EXCEPT ![t] = row], t # s
          PROVE  session'[s] = session[s]
      BY <1>0, <2>1
    <2>2. (\E c \in Counters : CreateCounter(c)) => session' = session
      BY DEF CreateCounter
    <2>3. ASSUME NEW c \in Counters, DeleteCounter(c)
          PROVE  session'[s] = session[s]
      <3>1. UNCHANGED <<vars, session, entry>> => session' = session
        OBVIOUS
      <3>2. ASSUME NEW t \in Sessions, NEW gone \in SUBSET AdvanceIds,
                   NEW A \in SUBSET AdvanceIds, TakesAlong(t, gone, A)
            PROVE  session'[s] = session[s]
        BY <1>0, <2>1, <3>2 DEF TakesAlong
      <3>3. QED
        BY <2>3, <3>1, <3>2, DeleteCounterEffect
    <2>4. ASSUME NEW t \in Sessions, NEW c \in Counters, NEW m \in Members,
                 NEW cash \in Readings, NEW sale \in Readings,
                 OpenSession(t, c, m, cash, sale)
          PROVE  session'[s] = session[s]
      BY <1>0, <2>1, <2>4 DEF OpenSession
    <2>5. ASSUME NEW t \in Sessions, NEW m \in Members,
                 ReassignStaff(t, m) \/ VerifySession(t, m)
          PROVE  session'[s] = session[s]
      BY <1>0, <2>5 DEF ReassignStaff, VerifySession
    <2>6. ASSUME NEW t \in Sessions, NEW cash \in Readings, NEW sale \in Readings,
                 \/ CloseSession(t, cash, sale)
                 \/ EditClosingDetails(t, cash, sale)
                 \/ EditOpeningDetails(t, cash, sale)
          PROVE  session'[s] = session[s]
      BY <1>0, <2>6 DEF CloseSession, EditClosingDetails, EditOpeningDetails
    <2>7. ASSUME NEW t \in Sessions, NEW previous \in Readings \cup {Unread},
                 NEW closing \in Readings \cup {Unread},
                 EditSalesDetails(t, previous, closing)
          PROVE  session'[s] = session[s]
      BY <1>0, <2>7 DEF EditSalesDetails
    <2>8. QED
      BY <1>1, <2>2, <2>3, <2>4, <2>5, <2>6, <2>7 DEF SessionNext
  <1>2. CASE EntryNext \/ LedgerNext \/ UNCHANGED allVars
    <2>1. session' = session
      BY <1>2 DEF EntryNext, AddMovement, AddAdvanceMovement, NewEntry, EditMovement,
         DeleteMovement, LedgerNext, RemoveByHand, till, allVars
    <2>2. QED
      BY <2>1
  <1>3. QED
    BY <1>1, <1>2 DEF CountersNext

(* No step changes what an entry adds to a verified session.               *)
LEMMA VerifiedSharesKept ==
    ASSUME CountersInv, LedgerAssumption, CountersAssumption, [CountersNext]_allVars,
           NEW s \in Sessions, Verified(s), NEW type \in Types, NEW i \in AdvanceIds
    PROVE  Share(s, type, i)' = Share(s, type, i)
  <1>0. /\ entry \in [AdvanceIds -> EntryRow] /\ entry[i] \in EntryRow
        /\ ~Open(s)
        /\ NoEntry.amount = 0
    BY EmptyRows DEF CountersInv, TillInv, TillTypeOK, SessionsHold, VerifiedIsClosed, Closed, Open
  <1>1. CASE UNCHANGED entry
    BY <1>1 DEF Share
  <1>2. ASSUME NEW t \in Sessions, NEW j \in AdvanceIds, NEW kind, NEW amount, NEW linked,
               NewEntry(t, j, kind, amount, linked)
        PROVE  Share(s, type, i)' = Share(s, type, i)
    <2>1. t # s
      BY <1>0, <1>2 DEF NewEntry
    <2>2. CASE j = i
      <3>1. entry[i] = NoEntry /\ entry'[i].session = t
        BY <1>0, <1>2, <2>2 DEF NewEntry
      <3>2. Share(s, type, i) = 0 /\ Share(s, type, i)' = 0
        BY <1>0, <2>1, <3>1 DEF Share
      <3>3. QED
        BY <3>2
    <2>3. CASE j # i
      <3>1. entry'[i] = entry[i]
        BY <1>0, <1>2, <2>3 DEF NewEntry
      <3>2. QED
        BY <3>1 DEF Share
    <2>4. QED
      BY <2>2, <2>3
  <1>3. ASSUME NEW j \in AdvanceIds, Editable(j), NEW row,
               entry' = [entry EXCEPT ![j] = row],
               row.session = entry[j].session \/ row.amount = 0
        PROVE  Share(s, type, i)' = Share(s, type, i)
    <2>1. entry[j].session # s
      BY <1>3 DEF Editable
    <2>2. CASE j = i
      <3>1. entry'[i] = row
        BY <1>0, <1>3, <2>2
      <3>2. QED
        BY <1>3, <2>1, <2>2, <3>1 DEF Share
    <2>3. CASE j # i
      <3>1. entry'[i] = entry[i]
        BY <1>0, <1>3, <2>3
      <3>2. QED
        BY <3>1 DEF Share
    <2>4. QED
      BY <2>2, <2>3
  <1>4. ASSUME NEW t \in Sessions, NEW j \in AdvanceIds, NEW amount \in Amounts,
               \/ \E kind \in Types : AddMovement(t, j, kind, amount)
               \/ \E m \in Members, date \in Dates, mode \in Modes, instalment \in Amounts :
                     AddAdvanceMovement(t, j, amount, m, date, mode, instalment)
        PROVE  Share(s, type, i)' = Share(s, type, i)
    BY <1>2, <1>4 DEF AddMovement, AddAdvanceMovement
  <1>5. ASSUME NEW j \in AdvanceIds, NEW amount \in Amounts, EditMovement(j, amount)
        PROVE  Share(s, type, i)' = Share(s, type, i)
    <2> DEFINE row == [entry[j] EXCEPT !.amount = amount]
    <2>1. entry' = [entry EXCEPT ![j] = row] /\ Editable(j)
      BY <1>5 DEF EditMovement
    <2>2. row.session = entry[j].session
      BY <1>0 DEF EntryRow
    <2> HIDE DEF row
    <2>3. QED
      BY <1>3, <2>1, <2>2
  <1>6. ASSUME NEW j \in AdvanceIds, DeleteMovement(j)
        PROVE  Share(s, type, i)' = Share(s, type, i)
    BY <1>0, <1>3, <1>6 DEF DeleteMovement
  <1>7. ASSUME NEW j \in AdvanceIds, RemoveByHand(j)
        PROVE  Share(s, type, i)' = Share(s, type, i)
    <2>1. /\ entry'[i].session = entry[i].session
          /\ entry'[i].type = entry[i].type /\ entry'[i].amount = entry[i].amount
      BY <1>0, <1>7 DEF RemoveByHand, EntryRow
    <2>2. QED
      BY <2>1 DEF Share
  <1>8. ASSUME NEW t \in Sessions, NEW gone \in SUBSET AdvanceIds,
               NEW A \in SUBSET AdvanceIds, TakesAlong(t, gone, A)
        PROVE  Share(s, type, i)' = Share(s, type, i)
    <2>1. t # s
      BY <1>0, <1>8 DEF TakesAlong
    <2>2. CASE i \in gone
      <3>1. entry'[i] = NoEntry /\ entry[i].session = t
        BY <1>8, <2>2 DEF TakesAlong
      <3>2. Share(s, type, i) = 0 /\ Share(s, type, i)' = 0
        BY <1>0, <2>1, <3>1 DEF Share
      <3>3. QED
        BY <3>2
    <2>3. CASE i \notin gone
      <3>1. entry'[i] = entry[i]
        BY <1>8, <2>3 DEF TakesAlong
      <3>2. QED
        BY <3>1 DEF Share
    <2>4. QED
      BY <2>2, <2>3
  <1>9. QED
    BY <1>1, <1>4, <1>5, <1>6, <1>7, <1>8, EntrySteps

(* Whatever becomes of its entries, of their advances and of the counter,  *)
(* the report that a peer verified stays what it was, and whose it was.    *)
THEOREM VerifiedReportsAreFinal == CountersSpec => VerifiedReportIsFinal
  <1>1. CountersInv /\ [CountersNext]_allVars =>
          [\A s \in Sessions :
             Verified(s) => Report(s)' = Report(s) /\ session'[s] = session[s]]_allVars
    <2> SUFFICES ASSUME CountersInv, [CountersNext]_allVars, NEW s \in Sessions, Verified(s)
                 PROVE  Report(s)' = Report(s) /\ session'[s] = session[s]
      OBVIOUS
    <2>1. session'[s] = session[s]
      BY VerifiedSessionKept
    <2>2. \A type \in Types, i \in AdvanceIds : Share(s, type, i)' = Share(s, type, i)
      BY VerifiedSharesKept, LedgerAssumption, CountersAssumption
    <2>3. QED
      BY <2>1, <2>2, ReportOfShares
  <1>2. QED
    BY <1>1, CountersInvariant, PTL DEF CountersSpec, VerifiedReportIsFinal

LEMMA StayInStep ==
    ASSUME CountersInv, LedgerAssumption, CountersAssumption, [CountersNext]_allVars,
           NEW i \in AdvanceIds, InStep(i), entry'[i].linked
    PROVE  InStep(i)' \/ (UpdateSome /\ UNCHANGED entry)
  <1>0. /\ entry \in [AdvanceIds -> EntryRow] /\ entry[i] \in EntryRow
        /\ entry[i].linked /\ entry[i].amount = advance[i].amount
        /\ advance \in [AdvanceIds -> Advance] /\ advance[i] \in Advance /\ advance[i].exists
        /\ NoEntry.linked = FALSE
        /\ LedgerInv
    BY EmptyRows DEF CountersInv, TillInv, TillTypeOK, LinksHold, InStep, LedgerInv, TypeOK
  <1>1. CASE UNCHANGED entry /\ (CreateSome \/ UpdateSome \/ GenerateSome \/ ApplySome
                                  \/ UNCHANGED advance)
    BY <1>0, <1>1, HandlersKeepAdvances DEF InStep
  <1>2. ASSUME NEW s \in Sessions, NEW j \in AdvanceIds, NEW amount \in Amounts,
               \/ \E type \in Types : AddMovement(s, j, type, amount)
               \/ \E m \in Members, date \in Dates, mode \in Modes, instalment \in Amounts :
                     AddAdvanceMovement(s, j, amount, m, date, mode, instalment)
        PROVE  InStep(i)'
    <2>1. entry[j] = NoEntry
      BY <1>2 DEF AddMovement, AddAdvanceMovement, NewEntry
    <2>2. j # i
      BY <1>0, <2>1
    <2>3. entry'[i] = entry[i] /\ advance'[i] = advance[i]
      BY <1>0, <1>2, <2>2 DEF AddMovement, AddAdvanceMovement, NewEntry, CreateAdvance, vars
    <2>4. QED
      BY <1>0, <2>3 DEF InStep
  <1>3. ASSUME NEW j \in AdvanceIds, NEW amount \in Amounts, EditMovement(j, amount)
        PROVE  InStep(i)'
    <2>1. CASE j = i
      <3>1. entry'[i].linked /\ entry'[i].amount = amount /\ advance'[i].amount = amount
        BY <1>0, <1>3, <2>1 DEF EditMovement, EntryRow, Advance
      <3>2. QED
        BY <3>1 DEF InStep
    <2>2. CASE j # i
      <3>1. entry'[i] = entry[i] /\ advance'[i] = advance[i]
        BY <1>0, <1>3, <2>2 DEF EditMovement
      <3>2. QED
        BY <1>0, <3>1 DEF InStep
    <2>3. QED
      BY <2>1, <2>2
  <1>4. ASSUME NEW j \in AdvanceIds, DeleteMovement(j) \/ RemoveByHand(j)
        PROVE  InStep(i)'
    <2>1. j # i
      BY <1>0, <1>4 DEF DeleteMovement, RemoveByHand, EntryRow
    <2>2. entry'[i] = entry[i] /\ advance'[i] = advance[i]
      BY <1>0, <1>4, <2>1 DEF DeleteMovement, RemoveByHand, RemoveAdvance, vars
    <2>3. QED
      BY <1>0, <2>2 DEF InStep
  <1>5. ASSUME NEW s \in Sessions, NEW gone \in SUBSET AdvanceIds,
               NEW A \in SUBSET AdvanceIds, TakesAlong(s, gone, A)
        PROVE  InStep(i)'
    <2>1. i \notin gone
      BY <1>0, <1>5 DEF TakesAlong
    <2>2. entry'[i] = entry[i] /\ advance'[i] = advance[i]
      BY <1>5, <2>1 DEF TakesAlong
    <2>3. QED
      BY <1>0, <2>2 DEF InStep
  <1>6. QED
    BY <1>1, <1>2, <1>3, <1>4, <1>5, EntrySteps

(* An outflow and its advance are of one amount until somebody edits the   *)
(* advance itself.                                                         *)
THEOREM EntriesFollowAdvances == CountersSpec => EntriesStayInStep
  <1>1. CountersInv /\ [CountersNext]_allVars =>
          [\A i \in AdvanceIds :
             InStep(i) /\ entry'[i].linked =>
                InStep(i)' \/ (UpdateSome /\ UNCHANGED entry)]_allVars
    BY StayInStep, LedgerAssumption, CountersAssumption
  <1>2. QED
    BY <1>1, CountersInvariant, PTL DEF CountersSpec, EntriesStayInStep

LEMMA TraceableUnderTills ==
    ASSUME CountersInv, LedgerAssumption, CountersAssumption, [CountersNext]_allVars,
           NEW a \in AdvanceIds, recovery[a] # NoRows
    PROVE  /\ advance'[a].exists
           /\ advance'[a].member = advance[a].member
           /\ advance'[a].amount = advance[a].amount
  <1>0. /\ LedgerInv /\ advance \in [AdvanceIds -> Advance]
        /\ advance[a].exists
        /\ advance[a].recoveredAmount \in Nat /\ advance[a].recoveredAmount > 0
    BY RowsAreRecovered DEF CountersInv, LedgerInv, TypeOK
  <1>1. CASE [Next]_vars
    BY <1>0, <1>1, TraceableStep
  <1>2. ASSUME NEW i \in AdvanceIds, NEW amount \in Amounts,
               entry[i].linked, EditMovement(i, amount)
        PROVE  advance'[a] = advance[a]
    <2>1. i # a
      BY <1>0, <1>2 DEF EditMovement, Editable
    <2>2. QED
      BY <1>0, <1>2, <2>1 DEF EditMovement
  <1>3. ASSUME NEW c \in Counters, DeleteCounter(c)
        PROVE  advance'[a] = advance[a]
    <2>1. UNCHANGED <<vars, session, entry>> => advance'[a] = advance[a]
      BY DEF vars
    <2>2. ASSUME NEW s \in Sessions, NEW gone \in SUBSET AdvanceIds,
                 NEW A \in SUBSET AdvanceIds, TakesAlong(s, gone, A)
          PROVE  advance'[a] = advance[a]
      BY <1>0, <2>2 DEF TakesAlong
    <2>3. QED
      BY <1>3, <2>1, <2>2, DeleteCounterEffect
  <1>4. QED
    BY <1>0, <1>1, <1>2, <1>3, LedgerSees

(* Nothing that is done at a till deletes an advance that has been         *)
(* recovered from, hands it to another member or changes its amount.       *)
THEOREM TillsKeepRecoveries == CountersSpec => Traceable
  <1>1. CountersInv /\ [CountersNext]_allVars =>
          [\A a \in AdvanceIds :
             recovery[a] # NoRows =>
                /\ advance'[a].exists
                /\ advance'[a].member = advance[a].member
                /\ advance'[a].amount = advance[a].amount]_vars
    BY TraceableUnderTills, LedgerAssumption, CountersAssumption
  <1>2. QED
    BY <1>1, CountersInvariant, PTL DEF CountersSpec, Traceable
=============================================================================
