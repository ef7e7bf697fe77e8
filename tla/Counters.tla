------------------------------- MODULE Counters -------------------------------
(***************************************************************************)
(* CountersService: tills, the sessions in which employees work them, the  *)
(* cash entries of a session, and the peer verification of its report.     *)
(* An outflow that is an advance or a purchase of an employee is mirrored  *)
(* as an advance that payroll recovers, so the module extends Ledger; a    *)
(* handler's transaction runs alone.                                       *)
(*                                                                         *)
(* Entries have slots like advances: the advance mirrored from entry i is  *)
(* advance i.  Denominations are their total; reasons and names are left   *)
(* out, and so is who may do what (assertCanAssign, assertCanHandle), but  *)
(* for the verifier.                                                       *)
(***************************************************************************)
EXTENDS Ledger

CONSTANTS
    Counters,   \* counter rows
    Sessions,   \* slots for sessions that exist at the same time
    Readings,   \* cash totals and sale readings
    Nobody

ASSUME CountersAssumption == Readings \subseteq Nat /\ Nobody \notin Members

VARIABLES
    counter,    \* "none", "live" or "deleted" (soft)
    session,    \* counter_sessions
    entry       \* counter_cash_movements

till == <<counter, session, entry>>
allVars == <<vars, till>>

Types == {"inflow", "outflow", "sales"}

Unread == -1        \* a reading that is null or not given

GivenReading(reading, otherwise) == IF reading = Unread THEN otherwise ELSE reading

NoSession == [status |-> "none", counter |-> Nobody, member |-> Nobody,
              openingCash |-> 0, previousSale |-> Unread,
              closingCash |-> Unread, closingSale |-> Unread, verifiedBy |-> Nobody]

NoEntry == [session |-> Nobody, type |-> "inflow", amount |-> 0, linked |-> FALSE]

Open(s) == session[s].status = "open"

Closed(s) == session[s].status = "closed"

Verified(s) == session[s].verifiedBy # Nobody

Busy(m) == \E s \in Sessions : Open(s) /\ session[s].member = m

-----------------------------------------------------------------------------
(* buildReport. *)

EntrySum(s, type) ==
    SumOf([i \in AdvanceIds |->
              IF entry[i].session = s /\ entry[i].type = type THEN entry[i].amount ELSE 0],
          NumAdvances)

TotalSales(s) ==
    IF session[s].previousSale # Unread /\ session[s].closingSale # Unread
    THEN session[s].closingSale - session[s].previousSale
    ELSE EntrySum(s, "sales")

Report(s) ==
    [totalInflow |-> EntrySum(s, "inflow"),
     totalOutflow |-> EntrySum(s, "outflow"),
     totalSales |-> TotalSales(s),
     expectedClosing |-> session[s].openingCash + EntrySum(s, "inflow")
                            + TotalSales(s) - EntrySum(s, "outflow"),
     actualClosing |-> session[s].closingCash]

-----------------------------------------------------------------------------
(* Counters and sessions. *)

CreateCounter(c) ==
    /\ counter[c] = "none"
    /\ counter' = [counter EXCEPT ![c] = "live"]
    /\ UNCHANGED <<vars, session, entry>>

(* deleteCounter: hides the counter; an open session on it goes, with its  *)
(* entries and their advances, unless payroll has recovered from them.     *)
(* findFirst looks for one open session.                                   *)
DeleteCounter(c) ==
    /\ counter[c] = "live"
    /\ counter' = [counter EXCEPT ![c] = "deleted"]
    /\ LET on == {s \in Sessions : Open(s) /\ session[s].counter = c}
       IN  \/ on = {} /\ UNCHANGED <<vars, session, entry>>
           \/ \E s \in on :
                LET gone == {i \in AdvanceIds : entry[i].session = s}
                    repaid == {i \in gone : entry[i].linked /\ advance[i].recoveredAmount = 0}
                IN  /\ \A i \in repaid : recovery[i] = NoRows
                    /\ session' = [session EXCEPT ![s] = NoSession]
                    /\ entry' = [i \in AdvanceIds |-> IF i \in gone THEN NoEntry ELSE entry[i]]
                    /\ advance' = [i \in AdvanceIds |->
                                      IF i \in repaid THEN NoAdvance ELSE advance[i]]
                    /\ UNCHANGED <<recovery, payslip, settings, salary, onPayroll>>

OpenSession(s, c, m, cash, sale) ==
    /\ session[s].status = "none"
    /\ ~Busy(m)
    /\ counter[c] = "live"
    /\ session' = [session EXCEPT ![s] =
            [NoSession EXCEPT !.status = "open", !.counter = c, !.member = m,
                              !.openingCash = cash, !.previousSale = sale]]
    /\ UNCHANGED <<vars, counter, entry>>

(* Mutant: neither the session nor the member is looked at. *)
ReassignAny(s, m) ==
    /\ session[s].status # "none"
    /\ session' = [session EXCEPT ![s].member = m]
    /\ UNCHANGED <<vars, counter, entry>>

ReassignStaff(s, m) ==
    /\ Open(s)
    /\ session[s].member # m
    /\ ~Busy(m)
    /\ session' = [session EXCEPT ![s].member = m]
    /\ UNCHANGED <<vars, counter, entry>>

CloseSession(s, cash, sale) ==
    /\ Open(s)
    /\ session' = [session EXCEPT ![s].status = "closed",
                                  ![s].closingCash = cash, ![s].closingSale = sale]
    /\ UNCHANGED <<vars, counter, entry>>

EditClosingDetails(s, cash, sale) ==
    /\ Closed(s) /\ ~Verified(s)
    /\ session' = [session EXCEPT ![s].closingCash = cash, ![s].closingSale = sale]
    /\ UNCHANGED <<vars, counter, entry>>

EditOpeningDetails(s, cash, sale) ==
    /\ Open(s) \/ Closed(s)
    /\ ~Verified(s)
    /\ session' = [session EXCEPT ![s].openingCash = cash, ![s].previousSale = sale]
    /\ UNCHANGED <<vars, counter, entry>>

EditSalesDetails(s, previous, closing) ==
    /\ Open(s) \/ Closed(s)
    /\ ~Verified(s)
    /\ previous # Unread \/ closing # Unread
    /\ closing # Unread => Closed(s)
    /\ session' = [session EXCEPT ![s].previousSale = GivenReading(previous, @),
                                  ![s].closingSale = GivenReading(closing, @)]
    /\ UNCHANGED <<vars, counter, entry>>

VerifySession(s, by) ==
    /\ Closed(s) /\ ~Verified(s)
    /\ by # session[s].member
    /\ session' = [session EXCEPT ![s].verifiedBy = by]
    /\ UNCHANGED <<vars, counter, entry>>

-----------------------------------------------------------------------------
(* Entries. *)

NewEntry(s, i, type, amount, linked) ==
    /\ Open(s)
    /\ entry[i] = NoEntry
    /\ entry' = [entry EXCEPT ![i] =
            [session |-> s, type |-> type, amount |-> amount, linked |-> linked]]
    /\ UNCHANGED <<counter, session>>

AddMovement(s, i, type, amount) ==
    /\ NewEntry(s, i, type, amount, FALSE)
    /\ UNCHANGED vars

(* An advance or a purchase: CountersService inserts the advance itself.   *)
AddAdvanceMovement(s, i, amount, m, date, mode, instalment) ==
    /\ NewEntry(s, i, "outflow", amount, TRUE)
    /\ CreateAdvance(i, m, amount, date, mode, instalment)

(* Mutant: entries can be edited after the verification. *)
EditableAnytime(i) ==
    entry[i] # NoEntry /\ (entry[i].linked => advance[i].recoveredAmount <= 0)

(* loadEditableMovement, linkedAdvanceForChange. *)
Editable(i) ==
    /\ entry[i] # NoEntry
    /\ ~Verified(entry[i].session)
    /\ entry[i].linked => advance[i].recoveredAmount <= 0

(* Mutant: the advance does not follow. *)
EditEntryOnly(i, amount) ==
    /\ Editable(i)
    /\ entry' = [entry EXCEPT ![i].amount = amount]
    /\ UNCHANGED <<vars, counter, session>>

EditMovement(i, amount) ==
    /\ Editable(i)
    /\ entry' = [entry EXCEPT ![i].amount = amount]
    /\ advance' = IF entry[i].linked THEN [advance EXCEPT ![i].amount = amount] ELSE advance
    /\ UNCHANGED <<recovery, payslip, settings, salary, onPayroll, counter, session>>

DeleteMovement(i) ==
    /\ Editable(i)
    /\ entry' = [entry EXCEPT ![i] = NoEntry]
    /\ IF entry[i].linked THEN RemoveAdvance(i) ELSE UNCHANGED vars
    /\ UNCHANGED <<counter, session>>

(* AdvancesService.remove; the foreign key of the entry is set to null.    *)
RemoveByHand(a) ==
    /\ RemoveAdvance(a)
    /\ entry' = [entry EXCEPT ![a].linked = FALSE]
    /\ UNCHANGED <<counter, session>>

-----------------------------------------------------------------------------
CountersInit ==
    /\ Init
    /\ counter = [c \in Counters |-> "none"]
    /\ session = [s \in Sessions |-> NoSession]
    /\ entry = [i \in AdvanceIds |-> NoEntry]

SessionNext ==
    \/ \E c \in Counters : CreateCounter(c) \/ DeleteCounter(c)
    \/ \E s \in Sessions, m \in Members :
          \/ \E c \in Counters, cash, sale \in Readings : OpenSession(s, c, m, cash, sale)
          \/ ReassignStaff(s, m)
          \/ VerifySession(s, m)
    \/ \E s \in Sessions, cash, sale \in Readings :
          \/ CloseSession(s, cash, sale)
          \/ EditClosingDetails(s, cash, sale)
          \/ EditOpeningDetails(s, cash, sale)
    \/ \E s \in Sessions, previous, closing \in Readings \cup {Unread} :
          EditSalesDetails(s, previous, closing)

EntryNext ==
    \/ \E s \in Sessions, i \in AdvanceIds, amount \in Amounts :
          \/ \E type \in Types : AddMovement(s, i, type, amount)
          \/ \E m \in Members, date \in Dates, mode \in Modes, instalment \in Amounts :
                AddAdvanceMovement(s, i, amount, m, date, mode, instalment)
    \/ \E i \in AdvanceIds :
          \/ \E amount \in Amounts : EditMovement(i, amount)
          \/ DeleteMovement(i)

LedgerNext ==
    \/ \E a \in AdvanceIds : RemoveByHand(a)
    \/ /\ \/ CreateSome \/ UpdateSome \/ GenerateSome \/ ApplySome
          \/ \E r \in Rates : UpdateSettings(r)
          \/ \E m \in Members, pay \in Salaries, on \in BOOLEAN : ChangePay(m, pay, on)
       /\ UNCHANGED till

CountersNext == SessionNext \/ EntryNext \/ LedgerNext

CountersSpec == CountersInit /\ [][CountersNext]_allVars

-----------------------------------------------------------------------------
(* Properties. *)

(* Once a peer has verified a session, nothing that any handler does, to   *)
(* the session or to one of its entries, changes the report that was       *)
(* verified or whose it is (editClosingDetails, loadEditableMovement).     *)
VerifiedReportIsFinal ==
    [][\A s \in Sessions :
         Verified(s) => Report(s)' = Report(s) /\ session'[s] = session[s]]_allVars

(* Nobody signs off on the till that was theirs in the end, however often  *)
(* it was handed over before (verifySession, reassignStaff).  The row      *)
(* forgets whose it was before that: they may verify it.                   *)
VerifierIsNotLastHandler ==
    \A s \in Sessions : Verified(s) => session[s].verifiedBy # session[s].member

(* No employee works two tills at once, whether assigned or handed over.   *)
OneTillPerMember ==
    \A s, t \in Sessions :
        Open(s) /\ Open(t) /\ session[s].member = session[t].member => s = t

(* An outflow and the advance mirrored from it are of one amount, until    *)
(* somebody edits the advance itself.                                      *)
InStep(i) == entry[i].linked /\ entry[i].amount = advance[i].amount

EntriesStayInStep ==
    [][\A i \in AdvanceIds :
         InStep(i) /\ entry'[i].linked => InStep(i)' \/ (UpdateSome /\ UNCHANGED entry)]_allVars

(* counters.service.ts, deleteCounter: if someone is on the counter, that  *)
(* open session goes with it.                                              *)
NobodyOnDeletedCounter ==
    \A s \in Sessions : Open(s) => counter[session[s].counter] = "live"
=============================================================================
