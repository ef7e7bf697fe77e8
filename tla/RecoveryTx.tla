------------------------------ MODULE RecoveryTx ------------------------------
(***************************************************************************)
(* The transactions of the advance ledger one statement at a time.         *)
(* TenantPrismaService.run opens an interactive transaction at READ        *)
(* COMMITTED: every statement sees what is committed when it starts and    *)
(* what its own transaction wrote, a written row is locked until the end,  *)
(* and nothing read is validated at commit.  Ledger runs the same          *)
(* transactions alone.                                                     *)
(*                                                                         *)
(* The advances are one employee's.  A recovery row of 0 is no row.        *)
(***************************************************************************)
EXTENDS Deduction, Sequences, FiniteSets

CONSTANTS
    NumAdvances,    \* advances the employee may have
    NumPeriods,     \* pay periods
    Txs,            \* database connections: requests that run at the same time
    DateGiven,      \* dateGiven of each advance
    Amounts,        \* amounts, in paisa
    Instalments     \* instalments of the advances there are (see Ledger)

AdvanceIds == 1..NumAdvances
Periods == 1..NumPeriods

ASSUME RecoveryTxAssumption ==
    /\ NumAdvances \in Nat /\ NumPeriods \in Nat
    /\ DateGiven \in [AdvanceIds -> Nat]
    /\ Amounts \subseteq Nat \ {0} /\ Instalments \subseteq Int

VARIABLES
    advance,    \* committed advances
    recovery,   \* committed recovery rows
    tx          \* each connection's transaction

vars == <<advance, recovery, tx>>

-----------------------------------------------------------------------------
(* Transactions.  rows and advances are what the transaction wrote and     *)
(* holds locked; inserted are the advances it locked as foreign keys.      *)

Nothing == [a \in {} |-> 0]       \* nothing written

With(written, a, row) ==
    [x \in DOMAIN written \cup {a} |-> IF x = a THEN row ELSE written[x]]

Idle == [pc |-> "idle", period |-> 0, line |-> <<>>, deducted |-> Nothing,
         total |-> 0, amount |-> 0,
         rows |-> Nothing, advances |-> Nothing, inserted |-> {}]

Running(t) == tx[t].pc # "idle"

Current(t) == Head(tx[t].line)

RowLocked(t, a) ==
    \E u \in Txs \ {t} : tx[u].period = tx[t].period /\ a \in DOMAIN tx[u].rows

AdvanceLocked(t, a) == \E u \in Txs \ {t} : a \in DOMAIN tx[u].advances

(* Mutant: an insert does not lock the row it refers to. *)
NoForeignKeyLock(t, a) == FALSE

ForeignKeyLocked(t, a) == \E u \in Txs \ {t} : a \in tx[u].inserted

BeingDeleted(t, a) ==
    \E u \in Txs \ {t} : a \in DOMAIN tx[u].advances /\ ~tx[u].advances[a].exists

(* findMany where closedAt is null, orderBy dateGiven: the advances that   *)
(* ask for something, in any order that respects their dates.  The loop    *)
(* passes over those of which nothing is deducted.                         *)
Asking ==
    {a \in AdvanceIds :
        advance[a].exists /\ ~advance[a].closed /\ Requested(advance[a]) > 0}

(* Mutant: the query has no orderBy. *)
AnyLines ==
    {l \in [1..Cardinality(Asking) -> Asking] :
        \A i, j \in DOMAIN l : i < j => l[i] # l[j]}

Lines ==
    LET n == Cardinality(Asking)
    IN  {l \in [1..n -> Asking] :
            /\ \A i, j \in 1..n : i < j => l[i] # l[j]
            /\ \A i, j \in 1..n : i < j => DateGiven[l[i]] <= DateGiven[l[j]]}

-----------------------------------------------------------------------------
(* Recovery of a period: computeAdvanceDeductionsInTx, applyRecoveryInTx.  *)

Compute(t, p) ==
    /\ ~Running(t)
    /\ \E line \in Lines :
          tx' = [tx EXCEPT ![t] = [Idle EXCEPT
                    !.pc = "row", !.period = p, !.line = line,
                    !.deducted = [a \in Asking |-> Requested(advance[a])]]]
    /\ UNCHANGED <<advance, recovery>>

(* Mutant: the conflict clause adds. *)
RowAdded(t, a) == recovery[a][tx[t].period] + tx[t].deducted[a]

(* The conflict clause overwrites. *)
RowUpserted(t, a) == tx[t].deducted[a]

(* INSERT ... ON CONFLICT DO UPDATE.  It waits for the lock of the row; an *)
(* insert also locks the advance as a foreign key.                         *)
UpsertRow(t) ==
    /\ tx[t].pc = "row" /\ tx[t].line # <<>>
    /\ ~RowLocked(t, Current(t))
    /\ LET a == Current(t)
           new == recovery[a][tx[t].period] = 0
       IN  /\ new => advance[a].exists /\ ~BeingDeleted(t, a)
           /\ tx' = [tx EXCEPT
                ![t].pc = "sum",
                ![t].rows = With(@, a, RowUpserted(t, a)),
                ![t].inserted = IF new THEN @ \cup {a} ELSE @]
    /\ UNCHANGED <<advance, recovery>>

(* The insert fails when the advance it refers to has been deleted.        *)
UpsertFails(t) ==
    /\ tx[t].pc = "row" /\ tx[t].line # <<>>
    /\ ~RowLocked(t, Current(t))
    /\ ~advance[Current(t)].exists
    /\ tx' = [tx EXCEPT ![t] = Idle]
    /\ UNCHANGED <<advance, recovery>>

(* Mutant: the row just written is not in the sum. *)
SumCommittedRows(t) ==
    /\ tx[t].pc = "sum"
    /\ tx' = [tx EXCEPT ![t].pc = "read", ![t].total = SumOf(recovery[Current(t)], NumPeriods)]
    /\ UNCHANGED <<advance, recovery>>

(* The fresh sum: committed rows, and the transaction's own.               *)
SumRows(t) ==
    /\ tx[t].pc = "sum"
    /\ LET a == Current(t)
           seen == [recovery[a] EXCEPT ![tx[t].period] = tx[t].rows[a]]
       IN  tx' = [tx EXCEPT ![t].pc = "read", ![t].total = SumOf(seen, NumPeriods)]
    /\ UNCHANGED <<advance, recovery>>

ReadAdvance(t) ==
    /\ tx[t].pc = "read"
    /\ tx' = [tx EXCEPT ![t].pc = "write", ![t].amount = advance[Current(t)].amount]
    /\ UNCHANGED <<advance, recovery>>

(* Sets recoveredAmount and closedAt of the newest version of the row.     *)
WriteAdvance(t) ==
    /\ tx[t].pc = "write"
    /\ ~AdvanceLocked(t, Current(t))
    /\ LET a == Current(t)
           row == [advance[a] EXCEPT !.recoveredAmount = tx[t].total,
                                     !.closed = tx[t].total >= tx[t].amount]
       IN  tx' = [tx EXCEPT ![t].pc = "row", ![t].line = Tail(@),
                            ![t].advances = With(@, a, row)]
    /\ UNCHANGED <<advance, recovery>>

-----------------------------------------------------------------------------
(* update with an amount, and remove: a read, a check, a write.            *)

ReadForEdit(t, a, amount) ==
    /\ ~Running(t)
    /\ advance[a].exists /\ advance[a].recoveredAmount <= 0
    /\ tx' = [tx EXCEPT ![t] = [Idle EXCEPT !.pc = "edit", !.line = <<a>>, !.amount = amount]]
    /\ UNCHANGED <<advance, recovery>>

EditAmount(t) ==
    /\ tx[t].pc = "edit"
    /\ ~AdvanceLocked(t, Current(t))
    /\ LET a == Current(t)
           row == [advance[a] EXCEPT !.amount = tx[t].amount]
       IN  \/ /\ advance[a].exists
              /\ tx' = [tx EXCEPT ![t].pc = "row", ![t].line = <<>>,
                                  ![t].advances = With(@, a, row)]
           \/ /\ ~advance[a].exists                         \* nothing to update
              /\ tx' = [tx EXCEPT ![t] = Idle]
    /\ UNCHANGED <<advance, recovery>>

ReadForRemove(t, a) ==
    /\ ~Running(t)
    /\ advance[a].exists /\ advance[a].recoveredAmount <= 0
    /\ tx' = [tx EXCEPT ![t] = [Idle EXCEPT !.pc = "remove", !.line = <<a>>]]
    /\ UNCHANGED <<advance, recovery>>

(* The delete waits for writers of the advance and of rows that refer to   *)
(* it; ON DELETE RESTRICT refuses it while there are rows.                 *)
DeleteAdvance(t) ==
    /\ tx[t].pc = "remove"
    /\ ~AdvanceLocked(t, Current(t)) /\ ~ForeignKeyLocked(t, Current(t))
    /\ LET a == Current(t)
           row == [advance[a] EXCEPT !.exists = FALSE]
           deletes == advance[a].exists /\ \A p \in Periods : recovery[a][p] = 0
       IN  \/ /\ deletes
              /\ tx' = [tx EXCEPT ![t].pc = "row", ![t].line = <<>>,
                                  ![t].advances = With(@, a, row)]
           \/ /\ ~deletes
              /\ tx' = [tx EXCEPT ![t] = Idle]
    /\ UNCHANGED <<advance, recovery>>

-----------------------------------------------------------------------------
(* The end of a transaction. *)

Commit(t) ==
    /\ tx[t].pc = "row" /\ tx[t].line = <<>>
    /\ advance' = [a \in AdvanceIds |->
            IF a \in DOMAIN tx[t].advances THEN tx[t].advances[a] ELSE advance[a]]
    /\ recovery' = [a \in AdvanceIds |->
            IF a \in DOMAIN tx[t].rows
            THEN [recovery[a] EXCEPT ![tx[t].period] = tx[t].rows[a]]
            ELSE recovery[a]]
    /\ tx' = [tx EXCEPT ![t] = Idle]

(* The process stops, the connection drops or the 15 s timeout fires.      *)
Abort(t) ==
    /\ Running(t)
    /\ tx' = [tx EXCEPT ![t] = Idle]
    /\ UNCHANGED <<advance, recovery>>

(* Advances from which nothing has been recovered.                         *)
NewAdvances ==
    [exists: {TRUE}, amount: Amounts, recoveryMode: {"FULL"},
     instalmentAmount: {None}, recoveredAmount: {0}, closed: {FALSE}]
    \cup
    [exists: {TRUE}, amount: Amounts, recoveryMode: {"INSTALMENT"},
     instalmentAmount: Instalments, recoveredAmount: {0}, closed: {FALSE}]

Init ==
    /\ advance \in [AdvanceIds -> NewAdvances]
    /\ recovery = [a \in AdvanceIds |-> [p \in Periods |-> 0]]
    /\ tx = [t \in Txs |-> Idle]

(* The statements of a transaction that has begun. *)
Step(t) ==
    \/ UpsertRow(t) \/ UpsertFails(t) \/ SumRows(t) \/ ReadAdvance(t) \/ WriteAdvance(t)
    \/ EditAmount(t)
    \/ DeleteAdvance(t)
    \/ Commit(t)

Edits(t) == \E a \in AdvanceIds, amount \in Amounts : ReadForEdit(t, a, amount)

Removes(t) == \E a \in AdvanceIds : ReadForRemove(t, a)

Recovers(t) == \E p \in Periods : Compute(t, p)

Next == \E t \in Txs : Recovers(t) \/ Edits(t) \/ Removes(t) \/ Step(t) \/ Abort(t)

Spec == Init /\ [][Next]_vars

(* A double click or a retried request: the recoveries that run at the     *)
(* same time are of one period, and no amount is edited meanwhile.         *)
OnlyRetries(p) ==
    \A u \in Txs : IF tx[u].period = 0 THEN tx[u].amount = 0 ELSE tx[u].period = p

NobodyRecovers == \A u \in Txs : tx[u].period = 0

RetryNext ==
    \E t \in Txs :
        \/ \E p \in Periods : OnlyRetries(p) /\ Compute(t, p)
        \/ NobodyRecovers /\ Edits(t)
        \/ Removes(t)
        \/ Step(t)
        \/ Abort(t)

(* Requests keep running.  Fairness is strong because Postgres queues the  *)
(* waiters of a lock: one that waits gets it before later requests do.     *)
RetrySpec == Init /\ [][RetryNext]_vars /\ \A t \in Txs : SF_vars(Step(t))

-----------------------------------------------------------------------------
(* Properties. *)

(* The committed recovered amount is the sum of the committed rows, and    *)
(* the advance is closed exactly when they repay it (schema.prisma, model  *)
(* Advance: the two must never drift apart).                               *)
NoDrift ==
    \A a \in AdvanceIds : advance[a].exists =>
        /\ advance[a].recoveredAmount = SumOf(recovery[a], NumPeriods)
        /\ advance[a].closed <=> advance[a].recoveredAmount >= advance[a].amount

(* A request sent twice never takes more than was advanced.                *)
NotRecoveredTwice ==
    \A a \in AdvanceIds : SumOf(recovery[a], NumPeriods) <= advance[a].amount

(* However a removal races a recovery, no committed recovery row is left   *)
(* without its advance.                                                    *)
RowsKeepTheirAdvance ==
    \A a \in AdvanceIds : ~advance[a].exists => \A p \in Periods : recovery[a][p] = 0

(* No request waits for ever on the locks of another: recoveries take the  *)
(* advances in the order of dateGiven, so while the dates differ they      *)
(* never wait on each other in a circle.                                   *)
EveryRequestEnds == \A t \in Txs : Running(t) ~> ~Running(t)
=============================================================================
