--------------------------- MODULE RecoveryTxProofs ---------------------------
(***************************************************************************)
(* RecoveryTx for every set of connections, advances and periods.  However *)
(* the transactions of READ COMMITTED interleave, no recovery row loses    *)
(* its advance; and while the recoveries that race are retries of one      *)
(* period, the recovered amounts never drift from the recovery rows and    *)
(* nothing is recovered twice.  Without that assumption they do (run       *)
(* two_months).                                                            *)
(***************************************************************************)
EXTENDS RecoveryTx, DeductionProofs, FiniteSetTheorems, SequenceTheorems

AdvanceRow ==
    [exists : BOOLEAN, amount : Nat \ {0}, recoveryMode : {"FULL", "INSTALMENT"},
     instalmentAmount : Int \cup {None}, recoveredAmount : Int, closed : BOOLEAN]

(* What is known of some advances: a table of the values V.                *)
Table(V) == UNION {[D -> V] : D \in SUBSET AdvanceIds}

Transaction ==
    [pc : {"idle", "row", "sum", "read", "write", "edit", "remove"}, period : 0..NumPeriods,
     line : Seq(AdvanceIds), deducted : Table(Int), total : Int, amount : Nat,
     rows : Table(Int), advances : Table(AdvanceRow), inserted : SUBSET AdvanceIds]

TypeOK ==
    /\ advance \in [AdvanceIds -> AdvanceRow]
    /\ recovery \in [AdvanceIds -> [Periods -> Int]]
    /\ tx \in [Txs -> Transaction]

-----------------------------------------------------------------------------
(* Tables and lines. *)

LEMMA TableEntries ==
    ASSUME NEW V, NEW f \in Table(V)
    PROVE  /\ DOMAIN f \subseteq AdvanceIds
           /\ \A a \in DOMAIN f : f[a] \in V
  BY DEF Table

LEMMA EmptyTable ==
    ASSUME NEW V
    PROVE  Nothing \in Table(V) /\ DOMAIN Nothing = {}
  <1>1. Nothing \in [{} -> V] /\ {} \in SUBSET AdvanceIds
    BY DEF Nothing
  <1>2. QED
    BY <1>1 DEF Table

LEMMA TableWith ==
    ASSUME NEW V, NEW f \in Table(V), NEW a \in AdvanceIds, NEW v \in V
    PROVE  With(f, a, v) \in Table(V)
  <1>1. DOMAIN f \subseteq AdvanceIds /\ \A x \in DOMAIN f : f[x] \in V
    BY TableEntries
  <1>2. PICK D \in SUBSET AdvanceIds : D = DOMAIN f \cup {a}
    BY <1>1
  <1>3. With(f, a, v) \in [D -> V]
    BY <1>1, <1>2 DEF With
  <1>4. QED
    BY <1>3 DEF Table

(* The advances a transaction still has to recover, each of them once.     *)
Left(line) == {line[i] : i \in 1..Len(line)}

Distinct(line) == \A i, j \in 1..Len(line) : line[i] = line[j] => i = j

LEMMA LineHead ==
    ASSUME NEW line \in Seq(AdvanceIds), line # <<>>
    PROVE  /\ Head(line) \in AdvanceIds /\ Head(line) \in Left(line)
           /\ Tail(line) \in Seq(AdvanceIds)
           /\ Left(Tail(line)) \subseteq Left(line)
           /\ Distinct(line) => Distinct(Tail(line)) /\ Head(line) \notin Left(Tail(line))
  <1>1. PICK rest : rest = Tail(line)
    OBVIOUS
  <1>2. /\ Head(line) \in AdvanceIds /\ rest \in Seq(AdvanceIds)
        /\ Len(rest) = Len(line) - 1
        /\ \A i \in 1..Len(rest) : rest[i] = line[i+1]
    BY <1>1, HeadTailProperties
  <1>3. Len(line) \in Nat /\ Len(line) # 0 /\ Head(line) = line[1]
    OBVIOUS
  <1>4. /\ 1 \in 1..Len(line)
        /\ \A i \in 1..Len(rest) : i + 1 \in 1..Len(line) /\ i + 1 # 1
        /\ \A i, j \in 1..Len(rest) : i + 1 = j + 1 => i = j
    BY <1>2, <1>3
  <1>5. Head(line) \in Left(line) /\ Left(rest) \subseteq Left(line)
    BY <1>2, <1>3, <1>4 DEF Left
  <1>6. ASSUME Distinct(line)
        PROVE  Distinct(rest) /\ Head(line) \notin Left(rest)
    BY <1>2, <1>3, <1>4, <1>6 DEF Distinct, Left
  <1>7. QED
    BY <1>1, <1>2, <1>5, <1>6
-----------------------------------------------------------------------------
(* Transactions.  What a transaction x of connection t holds, beside the   *)
(* committed rows and what the other connections hold.                     *)

Clean(x) == DOMAIN x.rows = {} /\ DOMAIN x.advances = {} /\ x.inserted = {}

Shape(x) ==
    /\ x.pc \in {"sum", "read", "write"} => x.line # <<>> /\ Head(x.line) \in DOMAIN x.rows
    /\ x.pc \in {"idle", "edit", "remove"} => Clean(x) /\ x.period = 0
    /\ x.pc \in {"edit", "remove"} => x.line # <<>> /\ (x.amount # 0 <=> x.pc = "edit")
    /\ x.period = 0 => DOMAIN x.rows = {}
    /\ x.period = 0 /\ x.pc = "row" => x.line = <<>>
    /\ x.period # 0 => Left(x.line) \subseteq DOMAIN x.deducted

Deletes(x, a) == a \in DOMAIN x.advances /\ ~x.advances[a].exists

Fits(t, x) ==
    /\ Shape(x)
    /\ \A a \in DOMAIN x.rows :
          /\ advance[a].exists
          /\ a \in x.inserted \/ recovery[a][x.period] # 0
          /\ ~Deletes(x, a)
          /\ \A u \in Txs \ {t} :
                /\ ~Deletes(tx[u], a)
                /\ a \in DOMAIN tx[u].rows => tx[u].period # x.period
    /\ \A a \in DOMAIN x.advances :
          /\ \A u \in Txs \ {t} : a \notin DOMAIN tx[u].advances
          /\ Deletes(x, a) =>
                /\ x.line = <<>> /\ \A p \in Periods : recovery[a][p] = 0
                /\ \A u \in Txs \ {t} : a \notin DOMAIN tx[u].rows

RowsInv == TypeOK /\ RowsKeepTheirAdvance /\ \A t \in Txs : Fits(t, tx[t])

(* A statement of connection t that commits nothing. *)
Moves(t, x) ==
    /\ x \in Transaction
    /\ tx' = [tx EXCEPT ![t] = x]
    /\ UNCHANGED <<advance, recovery>>

LEMMA MoveFits ==
    ASSUME RowsInv, NEW t \in Txs, NEW x, Moves(t, x), Fits(t, x)
    PROVE  RowsInv'
  <1>1. /\ tx' \in [Txs -> Transaction] /\ tx'[t] = x
        /\ \A u \in Txs \ {t} : tx'[u] = tx[u]
        /\ UNCHANGED <<advance, recovery>>
    BY DEF Moves, RowsInv, TypeOK
  <1>2. TypeOK' /\ RowsKeepTheirAdvance'
    BY <1>1 DEF RowsInv, TypeOK, RowsKeepTheirAdvance
  <1>3. Fits(t, x)'
    BY <1>1 DEF Fits
  <1>4. ASSUME NEW u \in Txs \ {t}
        PROVE  Fits(u, tx[u])'
    <2>1. Fits(u, tx[u]) /\ tx'[u] = tx[u]
      BY <1>1 DEF RowsInv
    <2>2. PICK y : y = tx[u]
      OBVIOUS
    <2>3. /\ \A a \in DOMAIN y.rows :
                ~Deletes(x, a) /\ (a \in DOMAIN x.rows => x.period # y.period)
          /\ \A a \in DOMAIN y.advances :
                a \notin DOMAIN x.advances /\ (Deletes(y, a) => a \notin DOMAIN x.rows)
      <3>1. \A a \in DOMAIN x.rows :
                /\ ~Deletes(y, a)
                /\ a \in DOMAIN y.rows => y.period # x.period
        BY <2>2 DEF Fits
      <3>2. \A a \in DOMAIN x.advances :
                /\ a \notin DOMAIN y.advances
                /\ Deletes(x, a) => a \notin DOMAIN y.rows
        BY <2>2 DEF Fits
      <3>3. QED
        BY <3>1, <3>2 DEF Deletes
    <2>4. /\ \A a \in DOMAIN y.rows : \A w \in Txs \ {u} :
                /\ ~Deletes(tx'[w], a)
                /\ a \in DOMAIN tx'[w].rows => tx'[w].period # y.period
          /\ \A a \in DOMAIN y.advances : \A w \in Txs \ {u} :
                /\ a \notin DOMAIN tx'[w].advances
                /\ Deletes(y, a) => a \notin DOMAIN tx'[w].rows
      BY <1>1, <2>1, <2>2, <2>3 DEF Fits
    <2>5. QED
      BY <1>1, <2>1, <2>2, <2>4 DEF Fits
  <1>5. QED
    BY <1>1, <1>2, <1>3, <1>4 DEF RowsInv

LEMMA CleanFits ==
    ASSUME NEW t, NEW x, Shape(x), Clean(x)
    PROVE  Fits(t, x)
  BY DEF Fits, Clean

LEMMA SameFits ==
    ASSUME NEW t, NEW x, NEW y, Fits(t, x), Shape(y),
           y.rows = x.rows, y.advances = x.advances, y.inserted = x.inserted,
           y.period = x.period, y.line = x.line
    PROVE  Fits(t, y)
  BY DEF Fits, Deletes

LEMMA IdleFits ==
    /\ Idle \in Transaction /\ Shape(Idle) /\ Clean(Idle)
    /\ Idle.pc = "idle" /\ Idle.period = 0 /\ Idle.line = <<>> /\ Idle.amount = 0
    /\ Idle.rows = Nothing /\ Idle.advances = Nothing /\ Idle.inserted = {}
    /\ Idle.deducted = Nothing
  <1>1. Nothing \in Table(Int) /\ Nothing \in Table(AdvanceRow) /\ DOMAIN Nothing = {}
    BY EmptyTable
  <1>2. <<>> \in Seq(AdvanceIds) /\ 0 \in 0..NumPeriods
    BY RecoveryTxAssumption DEF RecoveryTxAssumption
  <1>3. QED
    BY <1>1, <1>2 DEF Idle, Transaction, Shape, Clean

-----------------------------------------------------------------------------
(* The statements, one by one. *)

LEMMA LinesType ==
    ASSUME NEW line \in Lines
    PROVE  line \in Seq(AdvanceIds) /\ Distinct(line) /\ Left(line) \subseteq Asking
  <1>1. Asking \in SUBSET AdvanceIds
    BY DEF Asking
  <1>2. Cardinality(Asking) \in Nat
    <2>1. IsFiniteSet(AdvanceIds)
      <3>1. 1 \in Int /\ NumAdvances \in Int
        BY RecoveryTxAssumption DEF RecoveryTxAssumption
      <3>2. IsFiniteSet(1..NumAdvances)
        BY <3>1, FS_Interval
      <3>3. QED
        BY <3>2 DEF AdvanceIds
    <2>2. IsFiniteSet(Asking)
      BY <1>1, <2>1, FS_Subset, Zenon
    <2>3. QED
      BY <2>2, FS_CardinalityType
  <1>3. PICK n \in Nat : n = Cardinality(Asking)
    BY <1>2
  <1>4. /\ line \in [1..n -> Asking]
        /\ \A i, j \in 1..n : i < j => line[i] # line[j]
    BY <1>3 DEF Lines
  <1>5. line \in Seq(Asking) /\ Len(line) = n
    BY <1>4
  <1>6. line \in Seq(AdvanceIds)
    BY <1>1, <1>5, SeqMonotonic
  <1>7. QED
    BY <1>4, <1>5, <1>6 DEF Distinct, Left

(* A recovery begins with what each advance asks for.                      *)
Computed(x, p) ==
    /\ x.pc = "row" /\ x.period = p /\ x.amount = 0
    /\ Distinct(x.line) /\ Left(x.line) \subseteq Asking
    /\ x.deducted = [a \in Asking |-> Requested(advance[a])]
    /\ Clean(x)

LEMMA RequestedType ==
    ASSUME NEW adv \in AdvanceRow
    PROVE  Requested(adv) \in Int
  BY DEF AdvanceRow, Requested, Outstanding, Least

LEMMA ComputeEffect ==
    ASSUME TypeOK, NEW t \in Txs, NEW p \in Periods, Compute(t, p)
    PROVE  \E x : Moves(t, x) /\ Fits(t, x) /\ Computed(x, p)
  <1>1. PICK line \in Lines :
          /\ tx' = [tx EXCEPT ![t] = [Idle EXCEPT
                      !.pc = "row", !.period = p, !.line = line,
                      !.deducted = [a \in Asking |-> Requested(advance[a])]]]
          /\ UNCHANGED <<advance, recovery>>
    BY DEF Compute
  <1>2. PICK deducted : deducted = [a \in Asking |-> Requested(advance[a])]
    OBVIOUS
  <1>3. deducted \in Table(Int)
    <2>1. Asking \in SUBSET AdvanceIds
      BY DEF Asking
    <2>2. deducted \in [Asking -> Int]
      BY <1>2, <2>1, RequestedType DEF TypeOK
    <2>3. QED
      BY <2>1, <2>2 DEF Table
  <1>4. PICK x : x = [Idle EXCEPT !.pc = "row", !.period = p, !.line = line,
                                  !.deducted = deducted]
    OBVIOUS
  <1>5. p \in 0..NumPeriods /\ p # 0
    BY RecoveryTxAssumption DEF Periods, RecoveryTxAssumption
  <1>6. line \in Seq(AdvanceIds) /\ Distinct(line) /\ Left(line) \subseteq Asking
    BY LinesType
  <1>7. /\ x \in Transaction /\ x.pc = "row" /\ x.period = p /\ x.amount = 0
        /\ x.line = line /\ x.deducted = deducted
        /\ x.rows = Idle.rows /\ x.advances = Idle.advances /\ x.inserted = Idle.inserted
    BY <1>3, <1>4, <1>5, <1>6, IdleFits DEF Transaction
  <1>8. Clean(x) /\ Shape(x)
    BY <1>2, <1>5, <1>6, <1>7, IdleFits DEF Clean, Shape
  <1>9. Moves(t, x)
    BY <1>1, <1>2, <1>4, <1>7 DEF Moves
  <1>10. Fits(t, x) /\ Computed(x, p)
    BY <1>2, <1>6, <1>7, <1>8, CleanFits DEF Computed
  <1>11. QED
    BY <1>9, <1>10

(* An edit or a removal begins with the read of its advance.               *)
Looked(x, a) ==
    /\ x.pc \in {"edit", "remove"} /\ x.period = 0 /\ x.line = <<a>>
    /\ x.amount # 0 <=> x.pc = "edit"
    /\ advance[a].exists /\ advance[a].recoveredAmount <= 0
    /\ Clean(x)

LEMMA LookEffect ==
    ASSUME TypeOK, NEW t \in Txs, NEW pc \in {"edit", "remove"},
           pc = "edit" => Edits(t), pc = "remove" => Removes(t)
    PROVE  \E x : \E a \in AdvanceIds : Moves(t, x) /\ Fits(t, x) /\ Looked(x, a) /\ x.pc = pc
  <1>1. PICK a \in AdvanceIds, amount \in Nat :
          /\ tx' = [tx EXCEPT ![t] = [Idle EXCEPT !.pc = pc, !.line = <<a>>, !.amount = amount]]
          /\ UNCHANGED <<advance, recovery>>
          /\ advance[a].exists /\ advance[a].recoveredAmount <= 0
          /\ amount # 0 <=> pc = "edit"
    <2>1. CASE pc = "edit"
      <3>1. PICK a \in AdvanceIds, amount \in Amounts : ReadForEdit(t, a, amount)
        BY <2>1 DEF Edits
      <3>2. amount \in Nat \ {0}
        BY RecoveryTxAssumption DEF RecoveryTxAssumption
      <3>3. QED
        BY <2>1, <3>1, <3>2 DEF ReadForEdit
    <2>2. CASE pc = "remove"
      <3>1. PICK a \in AdvanceIds : ReadForRemove(t, a)
        BY <2>2 DEF Removes
      <3>2. [Idle EXCEPT !.pc = "remove", !.line = <<a>>]
               = [Idle EXCEPT !.pc = "remove", !.line = <<a>>, !.amount = 0]
        BY IdleFits DEF Transaction
      <3>3. QED
        BY <2>2, <3>1, <3>2 DEF ReadForRemove
    <2>3. QED
      BY <2>1, <2>2
  <1>2. PICK x : x = [Idle EXCEPT !.pc = pc, !.line = <<a>>, !.amount = amount]
    OBVIOUS
  <1>3. <<a>> \in Seq(AdvanceIds) /\ <<a>> # <<>>
    OBVIOUS
  <1>4. /\ x \in Transaction /\ x.pc = pc /\ x.period = 0 /\ x.amount = amount
        /\ x.line = <<a>>
        /\ x.rows = Idle.rows /\ x.advances = Idle.advances /\ x.inserted = Idle.inserted
    BY <1>2, <1>3, IdleFits DEF Transaction
  <1>5. Clean(x) /\ Shape(x)
    BY <1>1, <1>3, <1>4, IdleFits DEF Clean, Shape
  <1>6. Moves(t, x)
    BY <1>1, <1>2, <1>4 DEF Moves
  <1>7. Fits(t, x) /\ Looked(x, a)
    BY <1>1, <1>4, <1>5, CleanFits DEF Looked
  <1>8. QED
    BY <1>1, <1>4, <1>6, <1>7

(* A transaction that fails or stops leaves nothing behind.                *)
LEMMA IdleEffect ==
    ASSUME NEW t \in Txs, tx' = [tx EXCEPT ![t] = Idle], UNCHANGED <<advance, recovery>>
    PROVE  Moves(t, Idle) /\ Fits(t, Idle)
  BY IdleFits, CleanFits DEF Moves

(* What is known of a transaction that runs.                               *)
LEMMA Knows ==
    ASSUME RowsInv, NEW t \in Txs, NEW x, x = tx[t]
    PROVE  /\ x \in Transaction /\ Fits(t, x) /\ Shape(x)
           /\ DOMAIN x.rows \subseteq AdvanceIds /\ DOMAIN x.advances \subseteq AdvanceIds
           /\ x.line # <<>> => Current(t) = Head(x.line) /\ Current(t) \in AdvanceIds
           /\ x.pc \in {"sum", "read", "write"} => x.period \in Periods
           /\ x.pc = "row" /\ x.line # <<>> => x.period \in Periods
  <1>1. x \in Transaction /\ Fits(t, x)
    BY DEF RowsInv, TypeOK
  <1>2. Shape(x)
    BY <1>1 DEF Fits
  <1>3. DOMAIN x.rows \subseteq AdvanceIds /\ DOMAIN x.advances \subseteq AdvanceIds
    BY <1>1, TableEntries DEF Transaction
  <1>4. x.line # <<>> => Current(t) = Head(x.line) /\ Current(t) \in AdvanceIds
    BY <1>1, LineHead DEF Transaction, Current
  <1>5. x.period # 0 => x.period \in Periods
    BY <1>1, RecoveryTxAssumption DEF Transaction, Periods, RecoveryTxAssumption
  <1>6. QED
    BY <1>1, <1>2, <1>3, <1>4, <1>5 DEF Shape

(* The row of the advance in turn now holds what the period deducts.       *)
Upserted(was, x) ==
    /\ was.pc = "row" /\ was.line # <<>> /\ x.pc = "sum"
    /\ x.line = was.line /\ x.period = was.period /\ x.deducted = was.deducted
    /\ x.advances = was.advances /\ x.amount = was.amount
    /\ DOMAIN x.rows = DOMAIN was.rows \cup {Head(was.line)}
    /\ \A a \in DOMAIN x.rows :
          x.rows[a] = IF a = Head(was.line) THEN was.deducted[a] ELSE was.rows[a]

LEMMA UpsertEffect ==
    ASSUME RowsInv, NEW t \in Txs, UpsertRow(t)
    PROVE  \E x : Moves(t, x) /\ Fits(t, x) /\ Upserted(tx[t], x)
  <1>0. PICK was : was = tx[t]
    OBVIOUS
  <1>1. was.pc = "row" /\ was.line # <<>>
    BY <1>0 DEF UpsertRow
  <1>2. PICK a \in AdvanceIds : a = Head(was.line) /\ a = Current(t)
    BY <1>0, <1>1, Knows
  <1>3. /\ was \in Transaction /\ Fits(t, was) /\ Shape(was) /\ was.period \in Periods
        /\ DOMAIN was.rows \subseteq AdvanceIds
    BY <1>0, <1>1, Knows
  <1>4. PICK v \in Int : v = was.deducted[a]
    <2>1. was.period # 0
      BY <1>3, RecoveryTxAssumption DEF Periods, RecoveryTxAssumption
    <2>2. a \in DOMAIN was.deducted
      BY <1>1, <1>2, <1>3, <2>1, LineHead DEF Shape, Transaction
    <2>3. was.deducted \in Table(Int)
      BY <1>3 DEF Transaction
    <2>4. QED
      BY <2>2, <2>3, TableEntries
  <1>5. PICK rows : rows = With(was.rows, a, v)
    OBVIOUS
  <1>6. /\ rows \in Table(Int) /\ DOMAIN rows = DOMAIN was.rows \cup {a} /\ rows[a] = v
        /\ \A b \in DOMAIN was.rows \ {a} : rows[b] = was.rows[b]
    <2>1. was.rows \in Table(Int)
      BY <1>3 DEF Transaction
    <2>2. rows \in Table(Int)
      BY <1>5, <2>1, TableWith
    <2>3. QED
      BY <1>5, <2>2 DEF With
  <1>7. PICK new \in BOOLEAN : new <=> recovery[a][was.period] = 0
    OBVIOUS
  <1>8. PICK inserted : inserted = IF new THEN was.inserted \cup {a} ELSE was.inserted
    OBVIOUS
  <1>9. PICK x : x = [was EXCEPT !.pc = "sum", !.rows = rows, !.inserted = inserted]
    OBVIOUS
  <1>10. /\ x \in Transaction /\ x.pc = "sum" /\ x.rows = rows /\ x.inserted = inserted
         /\ x.line = was.line /\ x.period = was.period /\ x.deducted = was.deducted
         /\ x.advances = was.advances /\ x.amount = was.amount
    BY <1>3, <1>6, <1>8, <1>9 DEF Transaction
  <1>11. Moves(t, x)
    <2>1. /\ tx' = [tx EXCEPT ![t].pc = "sum", ![t].rows = rows, ![t].inserted = inserted]
          /\ UNCHANGED <<advance, recovery>>
      BY <1>0, <1>2, <1>4, <1>5, <1>7, <1>8 DEF UpsertRow, RowUpserted
    <2>2. tx' = [tx EXCEPT ![t] = x]
      BY <1>0, <1>9, <2>1 DEF RowsInv, TypeOK
    <2>3. QED
      BY <1>10, <2>1, <2>2 DEF Moves
  <1>12. Shape(x)
    BY <1>1, <1>2, <1>3, <1>6, <1>10, RecoveryTxAssumption
       DEF Shape, Periods, RecoveryTxAssumption
  <1>13. /\ advance[a].exists
         /\ a \in inserted \/ recovery[a][was.period] # 0
         /\ \A u \in Txs \ {t} : ~Deletes(tx[u], a)
    <2>1. CASE new
      BY <1>0, <1>2, <1>7, <1>8, <2>1 DEF UpsertRow, BeingDeleted, Deletes
    <2>2. CASE ~new
      <3>1. recovery[a][was.period] # 0
        BY <1>7, <2>2
      <3>2. advance[a].exists
        BY <1>3, <3>1 DEF RowsInv, RowsKeepTheirAdvance
      <3>3. ASSUME NEW u \in Txs \ {t}, Deletes(tx[u], a)
            PROVE  recovery[a][was.period] = 0
        BY <1>3, <3>3 DEF RowsInv, Fits, Deletes
      <3>4. QED
        BY <3>1, <3>2, <3>3
    <2>3. QED
      BY <2>1, <2>2
  <1>14. \A u \in Txs \ {t} : a \in DOMAIN tx[u].rows => tx[u].period # was.period
    BY <1>0, <1>2 DEF UpsertRow, RowLocked
  <1>15. \A b \in DOMAIN x.advances : ~Deletes(x, b)
    BY <1>1, <1>3, <1>10 DEF Fits, Deletes
  <1>16. Fits(t, x)
    <2>1. ASSUME NEW b \in DOMAIN x.rows
          PROVE  /\ advance[b].exists
                 /\ b \in x.inserted \/ recovery[b][x.period] # 0
                 /\ ~Deletes(x, b)
                 /\ \A u \in Txs \ {t} :
                       /\ ~Deletes(tx[u], b)
                       /\ b \in DOMAIN tx[u].rows => tx[u].period # x.period
      <3>1. ~Deletes(x, b)
        BY <1>15 DEF Deletes
      <3>2. CASE b = a
        BY <1>10, <1>13, <1>14, <3>1, <3>2
      <3>3. CASE b # a
        <4>1. b \in DOMAIN was.rows
          BY <1>6, <1>10, <2>1, <3>3
        <4>2. b \in was.inserted => b \in x.inserted
          BY <1>8, <1>10
        <4>3. QED
          BY <1>3, <1>10, <3>1, <4>1, <4>2 DEF Fits
      <3>4. QED
        BY <3>2, <3>3
    <2>2. ASSUME NEW b \in DOMAIN x.advances
          PROVE  ~Deletes(x, b) /\ \A u \in Txs \ {t} : b \notin DOMAIN tx[u].advances
      BY <1>3, <1>10, <1>15 DEF Fits
    <2>3. QED
      BY <1>12, <2>1, <2>2 DEF Fits
  <1>17. Upserted(was, x)
    BY <1>1, <1>2, <1>4, <1>6, <1>10 DEF Upserted
  <1>18. QED
    BY <1>0, <1>11, <1>16, <1>17

(* SumRows and ReadAdvance read what WriteAdvance will need.               *)
ReadOn(was, x) ==
    /\ x.line = was.line /\ x.period = was.period /\ x.deducted = was.deducted
    /\ x.rows = was.rows /\ x.advances = was.advances
    /\ \/ was.pc = "sum" /\ x.pc = "read" /\ x.amount = was.amount
       \/ was.pc = "read" /\ x.pc = "write" /\ x.total = was.total

Summed(was, x) ==
    LET a == Head(was.line)
    IN  was.pc = "sum" =>
          x.total = SumOf([recovery[a] EXCEPT ![was.period] = was.rows[a]], NumPeriods)

LookedUp(was, x) == was.pc = "read" => x.amount = advance[Head(was.line)].amount

LEMMA ReadOnEffect ==
    ASSUME RowsInv, NEW t \in Txs, SumRows(t) \/ ReadAdvance(t)
    PROVE  \E x : /\ Moves(t, x) /\ Fits(t, x)
                  /\ ReadOn(tx[t], x) /\ Summed(tx[t], x) /\ LookedUp(tx[t], x)
  <1>0. PICK was : was = tx[t]
    OBVIOUS
  <1>1. was.pc \in {"sum", "read"}
    BY <1>0 DEF SumRows, ReadAdvance
  <1>2. /\ was \in Transaction /\ Fits(t, was) /\ Shape(was) /\ was.period \in Periods
        /\ was.line # <<>> /\ Head(was.line) \in DOMAIN was.rows
    BY <1>0, <1>1, Knows DEF Shape
  <1>3. PICK a \in AdvanceIds : a = Head(was.line) /\ a = Current(t)
    BY <1>0, <1>2, Knows
  <1>4. CASE SumRows(t)
    <2>1. PICK seen : seen = [recovery[a] EXCEPT ![was.period] = was.rows[a]]
      OBVIOUS
    <2>2. PICK total : total = SumOf(seen, NumPeriods)
      OBVIOUS
    <2>3. total \in Int
      <3>1. was.rows[a] \in Int
        BY <1>2, <1>3, TableEntries DEF Transaction
      <3>2. seen \in [1..NumPeriods -> Int] /\ NumPeriods \in Nat
        BY <2>1, <3>1, RecoveryTxAssumption
           DEF RowsInv, TypeOK, Periods, RecoveryTxAssumption
      <3>3. QED
        BY <2>2, <3>2, PartialSumsStep DEF SumOf
    <2>4. PICK x : x = [was EXCEPT !.pc = "read", !.total = total]
      OBVIOUS
    <2>5. /\ x \in Transaction /\ x.pc = "read" /\ x.total = total /\ x.inserted = was.inserted
          /\ x.line = was.line /\ x.period = was.period /\ x.deducted = was.deducted
          /\ x.rows = was.rows /\ x.advances = was.advances /\ x.amount = was.amount
      BY <1>2, <2>3, <2>4 DEF Transaction
    <2>6. was.pc = "sum"
      BY <1>0, <1>4 DEF SumRows
    <2>7. Moves(t, x)
      <3>1. tx' = [tx EXCEPT ![t].pc = "read", ![t].total = total]
            /\ UNCHANGED <<advance, recovery>>
        BY <1>0, <1>3, <1>4, <2>1, <2>2 DEF SumRows
      <3>2. tx' = [tx EXCEPT ![t] = x]
        BY <1>0, <2>4, <3>1 DEF RowsInv, TypeOK
      <3>3. QED
        BY <2>5, <3>1, <3>2 DEF Moves
    <2>8. Shape(x)
      BY <1>2, <2>5, <2>6 DEF Shape
    <2>9. Fits(t, x)
      BY <1>2, <2>5, <2>8, SameFits
    <2>10. ReadOn(was, x) /\ Summed(was, x) /\ LookedUp(was, x)
      BY <1>3, <2>1, <2>2, <2>5, <2>6 DEF ReadOn, Summed, LookedUp
    <2>11. QED
      BY <1>0, <2>7, <2>9, <2>10
  <1>5. CASE ReadAdvance(t)
    <2>1. PICK amount \in Nat : amount = advance[a].amount
      BY DEF RowsInv, TypeOK, AdvanceRow
    <2>2. PICK x : x = [was EXCEPT !.pc = "write", !.amount = amount]
      OBVIOUS
    <2>3. /\ x \in Transaction /\ x.pc = "write" /\ x.total = was.total
          /\ x.inserted = was.inserted
          /\ x.line = was.line /\ x.period = was.period /\ x.deducted = was.deducted
          /\ x.rows = was.rows /\ x.advances = was.advances /\ x.amount = amount
      BY <1>2, <2>2 DEF Transaction
    <2>4. was.pc = "read"
      BY <1>0, <1>5 DEF ReadAdvance
    <2>5. Moves(t, x)
      <3>1. tx' = [tx EXCEPT ![t].pc = "write", ![t].amount = amount]
            /\ UNCHANGED <<advance, recovery>>
        BY <1>0, <1>3, <1>5, <2>1 DEF ReadAdvance
      <3>2. tx' = [tx EXCEPT ![t] = x]
        BY <1>0, <2>2, <3>1 DEF RowsInv, TypeOK
      <3>3. QED
        BY <2>3, <3>1, <3>2 DEF Moves
    <2>6. Shape(x)
      BY <1>2, <2>3, <2>4 DEF Shape
    <2>7. Fits(t, x)
      BY <1>2, <2>3, <2>6, SameFits
    <2>8. ReadOn(was, x) /\ Summed(was, x) /\ LookedUp(was, x)
      BY <1>3, <2>1, <2>3, <2>4 DEF ReadOn, Summed, LookedUp
    <2>9. QED
      BY <1>0, <2>5, <2>7, <2>8
  <1>6. QED
    BY <1>4, <1>5

(* The advance in turn is written, and the next one is in turn.            *)
Wrote(was, x) ==
    LET a == Head(was.line)
    IN  /\ was.pc = "write" /\ x.pc = "row" /\ was.line # <<>> /\ x.line = Tail(was.line)
        /\ x.period = was.period /\ x.deducted = was.deducted
        /\ x.rows = was.rows /\ x.amount = was.amount
        /\ DOMAIN x.advances = DOMAIN was.advances \cup {a}
        /\ \A b \in DOMAIN was.advances \ {a} : x.advances[b] = was.advances[b]
        /\ x.advances[a].recoveredAmount = was.total
        /\ x.advances[a].closed <=> was.total >= was.amount
        /\ x.advances[a].amount = advance[a].amount

LEMMA WriteAdvanceEffect ==
    ASSUME RowsInv, NEW t \in Txs, WriteAdvance(t)
    PROVE  \E x : Moves(t, x) /\ Fits(t, x) /\ Wrote(tx[t], x)
  <1>0. PICK was : was = tx[t]
    OBVIOUS
  <1>1. was.pc = "write"
    BY <1>0 DEF WriteAdvance
  <1>2. /\ was \in Transaction /\ Fits(t, was) /\ Shape(was) /\ was.period \in Periods
        /\ was.line # <<>> /\ Head(was.line) \in DOMAIN was.rows
    BY <1>0, <1>1, Knows DEF Shape
  <1>3. PICK a \in AdvanceIds : a = Head(was.line) /\ a = Current(t)
    BY <1>0, <1>2, Knows
  <1>4. PICK closed \in BOOLEAN : closed = (was.total >= was.amount)
    <2>1. (was.total >= was.amount) \in BOOLEAN
      OBVIOUS
    <2>2. QED
      BY <2>1, Zenon
  <1>5. PICK row : row = [advance[a] EXCEPT !.recoveredAmount = was.total, !.closed = closed]
    OBVIOUS
  <1>6. /\ row \in AdvanceRow /\ row.recoveredAmount = was.total /\ row.closed = closed
        /\ row.amount = advance[a].amount /\ row.exists = advance[a].exists
    BY <1>2, <1>5 DEF RowsInv, TypeOK, AdvanceRow, Transaction
  <1>7. PICK advances : advances = With(was.advances, a, row)
    OBVIOUS
  <1>8. /\ advances \in Table(AdvanceRow) /\ DOMAIN advances = DOMAIN was.advances \cup {a}
        /\ advances[a] = row
        /\ \A b \in DOMAIN was.advances \ {a} : advances[b] = was.advances[b]
    <2>1. was.advances \in Table(AdvanceRow)
      BY <1>2 DEF Transaction
    <2>2. advances \in Table(AdvanceRow)
      BY <1>6, <1>7, <2>1, TableWith
    <2>3. QED
      BY <1>7, <2>2 DEF With
  <1>9. PICK rest : rest = Tail(was.line)
    OBVIOUS
  <1>10. rest \in Seq(AdvanceIds) /\ Left(rest) \subseteq Left(was.line)
    BY <1>2, <1>9, LineHead DEF Transaction
  <1>11. PICK x : x = [was EXCEPT !.pc = "row", !.line = rest, !.advances = advances]
    OBVIOUS
  <1>12. /\ x \in Transaction /\ x.pc = "row" /\ x.line = rest /\ x.advances = advances
         /\ x.period = was.period /\ x.deducted = was.deducted
         /\ x.rows = was.rows /\ x.amount = was.amount /\ x.inserted = was.inserted
    BY <1>2, <1>8, <1>10, <1>11 DEF Transaction
  <1>13. Moves(t, x)
    <2>1. [advance[a] EXCEPT !.recoveredAmount = tx[t].total,
                             !.closed = tx[t].total >= tx[t].amount] = row
      BY <1>0, <1>4, <1>5, Zenon
    <2>2. /\ tx' = [tx EXCEPT ![t].pc = "row", ![t].line = rest, ![t].advances = advances]
          /\ UNCHANGED <<advance, recovery>>
      BY <1>0, <1>3, <1>7, <1>9, <2>1 DEF WriteAdvance
    <2>3. tx' = [tx EXCEPT ![t] = x]
      BY <1>0, <1>11, <2>2 DEF RowsInv, TypeOK
    <2>4. QED
      BY <1>12, <2>2, <2>3 DEF Moves
  <1>14. Shape(x)
    BY <1>2, <1>10, <1>12, RecoveryTxAssumption DEF Shape, Periods, RecoveryTxAssumption
  <1>15. \A b \in DOMAIN x.advances : ~Deletes(x, b)
    <2>1. advance[a].exists
      BY <1>2, <1>3 DEF Fits
    <2>2. \A b \in DOMAIN was.advances : was.advances[b].exists
      BY <1>2 DEF Fits, Deletes
    <2>3. QED
      BY <1>6, <1>8, <1>12, <2>1, <2>2 DEF Deletes
  <1>16. Fits(t, x)
    <2>1. ASSUME NEW b \in DOMAIN x.rows
          PROVE  /\ advance[b].exists
                 /\ b \in x.inserted \/ recovery[b][x.period] # 0
                 /\ ~Deletes(x, b)
                 /\ \A u \in Txs \ {t} :
                       /\ ~Deletes(tx[u], b)
                       /\ b \in DOMAIN tx[u].rows => tx[u].period # x.period
      <3>1. ~Deletes(x, b)
        BY <1>15 DEF Deletes
      <3>2. QED
        BY <1>2, <1>12, <3>1 DEF Fits
    <2>2. ASSUME NEW b \in DOMAIN x.advances
          PROVE  ~Deletes(x, b) /\ \A u \in Txs \ {t} : b \notin DOMAIN tx[u].advances
      <3>1. \A u \in Txs \ {t} : a \notin DOMAIN tx[u].advances
        BY <1>0, <1>3 DEF WriteAdvance, AdvanceLocked
      <3>2. CASE b = a
        BY <1>15, <3>1, <3>2
      <3>3. CASE b # a
        BY <1>2, <1>8, <1>12, <1>15, <3>3 DEF Fits
      <3>4. QED
        BY <3>2, <3>3
    <2>3. QED
      BY <1>14, <2>1, <2>2 DEF Fits
  <1>17. Wrote(was, x)
    BY <1>1, <1>2, <1>3, <1>4, <1>6, <1>8, <1>9, <1>12 DEF Wrote
  <1>18. QED
    BY <1>0, <1>13, <1>16, <1>17

(* An edit or a removal writes its one advance, or has nothing to do.      *)
Changed(was, x) ==
    LET a == Head(was.line)
    IN  /\ was.pc \in {"edit", "remove"} /\ x.pc = "row" /\ x.line = <<>>
        /\ was.period = 0 /\ x.period = 0 /\ x.amount = was.amount
        /\ DOMAIN x.rows = {} /\ DOMAIN x.advances = {a}
        /\ advance[a].exists
        /\ was.amount # 0 <=> was.pc = "edit"
        /\ was.pc = "edit" => x.advances[a] = [advance[a] EXCEPT !.amount = was.amount]
        /\ was.pc = "remove" => x.advances[a] = [advance[a] EXCEPT !.exists = FALSE]

LEMMA ChangeEffect ==
    ASSUME RowsInv, NEW t \in Txs, EditAmount(t) \/ DeleteAdvance(t)
    PROVE  \/ Moves(t, Idle) /\ Fits(t, Idle)
           \/ \E x : Moves(t, x) /\ Fits(t, x) /\ Changed(tx[t], x)
  <1>0. PICK was : was = tx[t]
    OBVIOUS
  <1>1. was.pc \in {"edit", "remove"}
    BY <1>0 DEF EditAmount, DeleteAdvance
  <1>2. /\ was \in Transaction /\ Fits(t, was) /\ Shape(was)
        /\ was.line # <<>> /\ Clean(was) /\ was.period = 0
        /\ was.amount # 0 <=> was.pc = "edit"
    BY <1>0, <1>1, Knows DEF Shape
  <1>3. PICK a \in AdvanceIds : a = Head(was.line) /\ a = Current(t)
    BY <1>0, <1>2, Knows
  <1>4. PICK row : row = IF was.pc = "edit" THEN [advance[a] EXCEPT !.amount = was.amount]
                                            ELSE [advance[a] EXCEPT !.exists = FALSE]
    OBVIOUS
  <1>5. advance[a] \in AdvanceRow
    BY DEF RowsInv, TypeOK
  <1>6. /\ row \in AdvanceRow
        /\ was.pc = "edit" => row.exists = advance[a].exists
    BY <1>1, <1>2, <1>4, <1>5 DEF AdvanceRow, Transaction
  <1>7. PICK advances : advances = With(was.advances, a, row)
    OBVIOUS
  <1>8. advances \in Table(AdvanceRow) /\ DOMAIN advances = {a} /\ advances[a] = row
    <2>1. was.advances \in Table(AdvanceRow) /\ DOMAIN was.advances = {}
      BY <1>2 DEF Transaction, Clean
    <2>2. advances \in Table(AdvanceRow)
      BY <1>6, <1>7, <2>1, TableWith
    <2>3. QED
      BY <1>7, <2>1, <2>2 DEF With
  <1>9. PICK x : x = [was EXCEPT !.pc = "row", !.line = <<>>, !.advances = advances]
    OBVIOUS
  <1>10. /\ x \in Transaction /\ x.pc = "row" /\ x.line = <<>> /\ x.advances = advances
         /\ x.period = 0 /\ x.amount = was.amount
         /\ DOMAIN x.rows = {} /\ x.inserted = {}
    BY <1>2, <1>8, <1>9, EmptySeq DEF Transaction, Clean
  <1>11. CASE tx' = [tx EXCEPT ![t] = Idle]
    BY <1>11, IdleEffect DEF EditAmount, DeleteAdvance
  <1>12. CASE tx' = [tx EXCEPT ![t] = x] /\ advance[a].exists /\
              (was.pc = "remove" => DeleteAdvance(t) /\ \A p \in Periods : recovery[a][p] = 0)
    <2>1. Moves(t, x)
      BY <1>10, <1>12 DEF Moves, EditAmount, DeleteAdvance
    <2>2. \A u \in Txs \ {t} : a \notin DOMAIN tx[u].advances
      BY <1>3 DEF EditAmount, DeleteAdvance, AdvanceLocked
    <2>3. Shape(x)
      BY <1>10 DEF Shape
    <2>4. ASSUME Deletes(x, a), NEW u \in Txs \ {t}, a \in DOMAIN tx[u].rows
          PROVE  FALSE
      <3>1. was.pc = "remove"
        BY <1>1, <1>6, <1>8, <1>10, <1>12, <2>4 DEF Deletes
      <3>2. a \notin tx[u].inserted /\ \A p \in Periods : recovery[a][p] = 0
        BY <1>3, <1>12, <3>1 DEF DeleteAdvance, ForeignKeyLocked
      <3>3. PICK y : y = tx[u]
        OBVIOUS
      <3>4. Fits(u, y) /\ Shape(y) /\ y \in Transaction
        BY <3>3, Knows
      <3>5. y.period \in Periods
        BY <2>4, <3>3, <3>4, RecoveryTxAssumption
           DEF Shape, Transaction, Periods, RecoveryTxAssumption
      <3>6. QED
        BY <2>4, <3>2, <3>3, <3>4, <3>5 DEF Fits
    <2>5. Deletes(x, a) => \A p \in Periods : recovery[a][p] = 0
      BY <1>1, <1>6, <1>8, <1>10, <1>12 DEF Deletes
    <2>6. Fits(t, x)
      BY <1>8, <1>10, <2>2, <2>3, <2>4, <2>5 DEF Fits
    <2>7. Changed(was, x)
      BY <1>1, <1>2, <1>3, <1>4, <1>8, <1>10, <1>12 DEF Changed
    <2>8. QED
      BY <1>0, <2>1, <2>6, <2>7
  <1>13. QED
    <2>1. CASE EditAmount(t)
      <3>1. was.pc = "edit"
        BY <1>0, <2>1 DEF EditAmount
      <3>2. row = [advance[a] EXCEPT !.amount = tx[t].amount]
        BY <1>0, <1>4, <3>1
      <3>3. CASE advance[a].exists
        <4>1. tx' = [tx EXCEPT ![t].pc = "row", ![t].line = <<>>, ![t].advances = advances]
          BY <1>0, <1>3, <1>7, <2>1, <3>2, <3>3 DEF EditAmount
        <4>2. tx' = [tx EXCEPT ![t] = x]
          BY <1>0, <1>9, <4>1 DEF RowsInv, TypeOK
        <4>3. QED
          BY <1>12, <3>1, <3>3, <4>2
      <3>4. CASE ~advance[a].exists
        BY <1>3, <1>11, <2>1, <3>4 DEF EditAmount
      <3>5. QED
        BY <3>3, <3>4
    <2>2. CASE DeleteAdvance(t)
      <3>1. was.pc = "remove"
        BY <1>0, <2>2 DEF DeleteAdvance
      <3>2. row = [advance[a] EXCEPT !.exists = FALSE]
        BY <1>4, <3>1
      <3>3. CASE advance[a].exists /\ \A p \in Periods : recovery[a][p] = 0
        <4>1. tx' = [tx EXCEPT ![t].pc = "row", ![t].line = <<>>, ![t].advances = advances]
          BY <1>0, <1>3, <1>7, <2>2, <3>2, <3>3 DEF DeleteAdvance
        <4>2. tx' = [tx EXCEPT ![t] = x]
          BY <1>0, <1>9, <4>1 DEF RowsInv, TypeOK
        <4>3. QED
          BY <1>12, <2>2, <3>1, <3>3, <4>2
      <3>4. CASE ~(advance[a].exists /\ \A p \in Periods : recovery[a][p] = 0)
        BY <1>3, <1>11, <2>2, <3>4 DEF DeleteAdvance
      <3>5. QED
        BY <3>3, <3>4
    <2>3. QED
      BY <2>1, <2>2

(* A commit publishes what the transaction wrote, of rows and advances     *)
(* that its locks have kept as it found them.                              *)
LEMMA CommitEffect ==
    ASSUME RowsInv, NEW t \in Txs, NEW x, x = tx[t], Commit(t)
    PROVE  /\ x.pc = "row" /\ x.line = <<>> /\ x \in Transaction /\ Fits(t, x)
           /\ tx'[t] = Idle /\ \A u \in Txs \ {t} : tx'[u] = tx[u]
           /\ \A a \in AdvanceIds :
                 /\ advance'[a] = IF a \in DOMAIN x.advances THEN x.advances[a] ELSE advance[a]
                 /\ recovery'[a] = IF a \in DOMAIN x.rows
                                   THEN [recovery[a] EXCEPT ![x.period] = x.rows[a]]
                                   ELSE recovery[a]
           /\ \A u \in Txs \ {t} :
                 /\ \A a \in DOMAIN tx[u].rows :
                       /\ a \in DOMAIN x.advances => x.advances[a].exists
                       /\ a \in DOMAIN x.rows => tx[u].period # x.period
                 /\ \A a \in DOMAIN tx[u].advances :
                       /\ a \notin DOMAIN x.advances
                       /\ Deletes(tx[u], a) => a \notin DOMAIN x.rows
           /\ TypeOK'
  <1>1. x.pc = "row" /\ x.line = <<>> /\ x \in Transaction /\ Fits(t, x)
    BY Knows DEF Commit
  <1>2. tx' \in [Txs -> Transaction] /\ tx'[t] = Idle /\ \A u \in Txs \ {t} : tx'[u] = tx[u]
    BY IdleFits DEF Commit, RowsInv, TypeOK
  <1>3. \A a \in AdvanceIds :
           /\ advance'[a] = IF a \in DOMAIN x.advances THEN x.advances[a] ELSE advance[a]
           /\ recovery'[a] = IF a \in DOMAIN x.rows
                             THEN [recovery[a] EXCEPT ![x.period] = x.rows[a]]
                             ELSE recovery[a]
    BY DEF Commit
  <1>4. /\ \A a \in DOMAIN x.advances : x.advances[a] \in AdvanceRow
        /\ \A a \in DOMAIN x.rows : x.rows[a] \in Int
    BY <1>1, TableEntries DEF Transaction
  <1>5. advance' \in [AdvanceIds -> AdvanceRow]
    BY <1>4 DEF Commit, RowsInv, TypeOK
  <1>6. recovery' \in [AdvanceIds -> [Periods -> Int]]
    <2>1. \A a \in AdvanceIds : recovery'[a] \in [Periods -> Int]
      <3>1. ASSUME NEW a \in DOMAIN x.rows, NEW v \in Int, v = x.rows[a], a \in AdvanceIds
            PROVE  recovery'[a] \in [Periods -> Int]
        <4>1. PICK old \in [Periods -> Int] : old = recovery[a]
          BY <3>1 DEF RowsInv, TypeOK
        <4>2. PICK p : p = x.period
          OBVIOUS
        <4>3. recovery'[a] = [old EXCEPT ![p] = v]
          BY <1>3, <3>1, <4>1, <4>2
        <4>4. QED
          BY <4>3
      <3>2. ASSUME NEW a \in AdvanceIds, a \notin DOMAIN x.rows
            PROVE  recovery'[a] \in [Periods -> Int]
        BY <1>3, <3>2 DEF RowsInv, TypeOK
      <3>3. QED
        BY <1>4, <3>1, <3>2
    <2>2. recovery' = [a \in AdvanceIds |-> recovery'[a]]
      BY DEF Commit
    <2>3. QED
      BY <2>1, <2>2
  <1>7. ASSUME NEW u \in Txs \ {t}
        PROVE  /\ \A a \in DOMAIN tx[u].rows :
                     /\ a \in DOMAIN x.advances => x.advances[a].exists
                     /\ a \in DOMAIN x.rows => tx[u].period # x.period
               /\ \A a \in DOMAIN tx[u].advances :
                     /\ a \notin DOMAIN x.advances
                     /\ Deletes(tx[u], a) => a \notin DOMAIN x.rows
    <2>1. Fits(u, tx[u])
      BY DEF RowsInv
    <2>2. \A a \in DOMAIN tx[u].rows : ~Deletes(x, a)
      BY <2>1 DEF Fits
    <2>3. QED
      BY <1>1, <2>1, <2>2 DEF Fits, Deletes
  <1>8. QED
    BY <1>1, <1>2, <1>3, <1>5, <1>6, <1>7 DEF TypeOK

LEMMA CommitFits ==
    ASSUME RowsInv, NEW t \in Txs, Commit(t)
    PROVE  RowsInv'
  <1>0. PICK x : x = tx[t]
    OBVIOUS
  <1>1. /\ x \in Transaction /\ Fits(t, x) /\ x.line = <<>>
        /\ tx'[t] = Idle /\ \A u \in Txs \ {t} : tx'[u] = tx[u]
        /\ \A a \in AdvanceIds :
              /\ advance'[a] = IF a \in DOMAIN x.advances THEN x.advances[a] ELSE advance[a]
              /\ recovery'[a] = IF a \in DOMAIN x.rows
                                THEN [recovery[a] EXCEPT ![x.period] = x.rows[a]]
                                ELSE recovery[a]
        /\ TypeOK'
    BY <1>0, CommitEffect
  <1>2. \A u \in Txs \ {t} :
           /\ \A a \in DOMAIN tx[u].rows :
                 /\ a \in DOMAIN x.advances => x.advances[a].exists
                 /\ a \in DOMAIN x.rows => tx[u].period # x.period
           /\ \A a \in DOMAIN tx[u].advances :
                 /\ a \notin DOMAIN x.advances
                 /\ Deletes(tx[u], a) => a \notin DOMAIN x.rows
    BY <1>0, CommitEffect
  <1>3. recovery \in [AdvanceIds -> [Periods -> Int]]
    BY DEF RowsInv, TypeOK
  <1>4. RowsKeepTheirAdvance'
    <2>1. ASSUME NEW a \in AdvanceIds, ~advance'[a].exists, NEW p \in Periods
          PROVE  recovery'[a][p] = 0
      <3>1. recovery[a][p] = 0
        <4>1. CASE a \in DOMAIN x.advances
          BY <1>1, <2>1, <4>1 DEF Fits, Deletes
        <4>2. CASE a \notin DOMAIN x.advances
          BY <1>1, <2>1, <4>2 DEF RowsInv, RowsKeepTheirAdvance
        <4>3. QED
          BY <4>1, <4>2
      <3>2. a \notin DOMAIN x.rows
        BY <1>1, <2>1 DEF Fits, Deletes
      <3>3. QED
        BY <1>1, <3>1, <3>2
    <2>2. QED
      BY <2>1 DEF RowsKeepTheirAdvance
  <1>5. ASSUME NEW u \in Txs \ {t}
        PROVE  Fits(u, tx[u])'
    <2>1. PICK y : y = tx[u]
      OBVIOUS
    <2>2. /\ y \in Transaction /\ Fits(u, y) /\ Shape(y) /\ tx'[u] = y
          /\ DOMAIN y.rows \subseteq AdvanceIds /\ DOMAIN y.advances \subseteq AdvanceIds
      BY <1>1, <2>1, Knows
    <2>3. Idle.rows = Nothing /\ Idle.advances = Nothing /\ DOMAIN Nothing = {}
      BY IdleFits, EmptyTable
    <2>4. \A w \in Txs \ {u} :
            /\ tx'[w] = tx[w] \/ tx'[w] = Idle
            /\ \A a : a \in DOMAIN tx'[w].rows => a \in DOMAIN tx[w].rows /\ tx'[w] = tx[w]
            /\ \A a : a \in DOMAIN tx'[w].advances => a \in DOMAIN tx[w].advances /\ tx'[w] = tx[w]
      BY <1>1, <2>3
    <2>5. ASSUME NEW a \in DOMAIN y.rows
          PROVE  /\ advance'[a].exists
                 /\ a \in y.inserted \/ recovery'[a][y.period] # 0
                 /\ ~Deletes(y, a)
                 /\ \A w \in Txs \ {u} :
                       /\ ~Deletes(tx'[w], a)
                       /\ a \in DOMAIN tx'[w].rows => tx'[w].period # y.period
      <3>1. a \in AdvanceIds
        BY <2>2
      <3>2. advance[a].exists /\ (a \in y.inserted \/ recovery[a][y.period] # 0) /\ ~Deletes(y, a)
        BY <2>2 DEF Fits
      <3>3. advance'[a].exists
        BY <1>1, <1>2, <2>1, <3>1, <3>2
      <3>4. y.period \in Periods
        BY <2>2, RecoveryTxAssumption DEF Shape, Transaction, Periods, RecoveryTxAssumption
      <3>5. a \in DOMAIN x.rows => y.period # x.period
        BY <1>2, <2>1
      <3>6. recovery'[a][y.period] = recovery[a][y.period]
        BY <1>1, <1>3, <3>1, <3>4, <3>5
      <3>7. \A w \in Txs \ {u} :
              /\ ~Deletes(tx'[w], a)
              /\ a \in DOMAIN tx'[w].rows => tx'[w].period # y.period
        BY <2>2, <2>4 DEF Fits, Deletes
      <3>8. QED
        BY <3>2, <3>3, <3>6, <3>7
    <2>6. ASSUME NEW a \in DOMAIN y.advances
          PROVE  /\ \A w \in Txs \ {u} : a \notin DOMAIN tx'[w].advances
                 /\ Deletes(y, a) =>
                       /\ y.line = <<>> /\ \A p \in Periods : recovery'[a][p] = 0
                       /\ \A w \in Txs \ {u} : a \notin DOMAIN tx'[w].rows
      <3>1. \A w \in Txs \ {u} : a \notin DOMAIN tx'[w].advances
        BY <2>2, <2>4 DEF Fits
      <3>2. ASSUME Deletes(y, a)
            PROVE  /\ y.line = <<>> /\ \A p \in Periods : recovery'[a][p] = 0
                   /\ \A w \in Txs \ {u} : a \notin DOMAIN tx'[w].rows
        <4>1. /\ y.line = <<>> /\ \A p \in Periods : recovery[a][p] = 0
              /\ \A w \in Txs \ {u} : a \notin DOMAIN tx[w].rows
          BY <2>2, <3>2 DEF Fits
        <4>2. a \in AdvanceIds /\ recovery'[a] = recovery[a]
          BY <1>1, <1>2, <2>1, <2>2, <3>2
        <4>3. QED
          BY <2>4, <4>1, <4>2
      <3>3. QED
        BY <3>1, <3>2
    <2>7. Fits(u, y)'
      BY <2>2, <2>5, <2>6 DEF Fits, Deletes, Shape, Clean
    <2>8. QED
      BY <2>2, <2>7
  <1>6. Fits(t, tx[t])'
    BY <1>1, IdleFits, CleanFits DEF Fits, Clean, Shape, EmptyTable
  <1>7. QED
    BY <1>1, <1>4, <1>5, <1>6 DEF RowsInv

(* Any step of Next: a statement that fits, or a commit.                   *)
LEMMA RowsStep ==
    ASSUME RowsInv, [Next]_vars
    PROVE  RowsInv'
  <1>1. CASE UNCHANGED vars
    BY <1>1 DEF vars, RowsInv, TypeOK, RowsKeepTheirAdvance, Fits, Deletes
  <1>2. ASSUME NEW t \in Txs, Recovers(t) \/ Edits(t) \/ Removes(t) \/ Step(t) \/ Abort(t),
               ~Commit(t)
        PROVE  \E x : Moves(t, x) /\ Fits(t, x)
    <2>1. CASE Recovers(t)
      BY <2>1, ComputeEffect, Zenon DEF Recovers, RowsInv
    <2>2. CASE Edits(t)
      BY <2>2, LookEffect DEF RowsInv
    <2>3. CASE Removes(t)
      BY <2>3, LookEffect DEF RowsInv
    <2>4. CASE UpsertRow(t)
      BY <2>4, UpsertEffect, Zenon
    <2>5. CASE SumRows(t) \/ ReadAdvance(t)
      BY <2>5, ReadOnEffect, Zenon
    <2>6. CASE WriteAdvance(t)
      BY <2>6, WriteAdvanceEffect, Zenon
    <2>7. CASE EditAmount(t) \/ DeleteAdvance(t)
      BY <2>7, ChangeEffect, Zenon
    <2>8. CASE UpsertFails(t) \/ Abort(t)
      <3>1. tx' = [tx EXCEPT ![t] = Idle] /\ UNCHANGED <<advance, recovery>>
        BY <2>8 DEF UpsertFails, Abort
      <3>2. QED
        BY <3>1, IdleEffect, Zenon
    <2>9. QED
      BY <1>2, <2>1, <2>2, <2>3, <2>4, <2>5, <2>6, <2>7, <2>8 DEF Step
  <1>3. ASSUME NEW t \in Txs, Recovers(t) \/ Edits(t) \/ Removes(t) \/ Step(t) \/ Abort(t)
        PROVE  RowsInv'
    <2>1. CASE Commit(t)
      BY <2>1, CommitFits
    <2>2. CASE ~Commit(t)
      BY <1>2, <1>3, <2>2, MoveFits, Zenon
    <2>3. QED
      BY <2>1, <2>2
  <1>4. QED
    BY <1>1, <1>3 DEF Next

LEMMA InitFits ==
    ASSUME Init
    PROVE  RowsInv
  <1>1. TypeOK
    <2>1. advance \in [AdvanceIds -> AdvanceRow]
      <3>1. Amounts \subseteq Nat \ {0} /\ Instalments \subseteq Int
        BY RecoveryTxAssumption DEF RecoveryTxAssumption
      <3>2. ASSUME NEW row \in NewAdvances
            PROVE  row \in AdvanceRow
        <4>1. /\ row.amount \in Nat \ {0} /\ row.instalmentAmount \in Int \cup {None}
              /\ row.recoveredAmount \in Int /\ row.recoveryMode \in {"FULL", "INSTALMENT"}
              /\ row.exists \in BOOLEAN /\ row.closed \in BOOLEAN
          <5>1. /\ row.exists \in {TRUE} /\ row.closed \in {FALSE}
                /\ row.amount \in Amounts
                /\ row.instalmentAmount \in {None} \/ row.instalmentAmount \in Instalments
                /\ row.recoveredAmount \in {0}
                /\ row.recoveryMode \in {"FULL"} \/ row.recoveryMode \in {"INSTALMENT"}
            BY Zenon DEF NewAdvances
          <5>2. row.amount \in Nat \ {0} /\ row.instalmentAmount \in Int \cup {None}
            BY <3>1, <5>1, Zenon
          <5>3. row.exists \in BOOLEAN /\ row.closed \in BOOLEAN
            BY <5>1
          <5>4. row.recoveredAmount \in Int
            BY <5>1
          <5>5. QED
            BY <5>1, <5>2, <5>3, <5>4, Zenon
        <4>2. row = [exists |-> row.exists, amount |-> row.amount,
                     recoveryMode |-> row.recoveryMode,
                     instalmentAmount |-> row.instalmentAmount,
                     recoveredAmount |-> row.recoveredAmount, closed |-> row.closed]
          BY DEF NewAdvances
        <4>3. QED
          BY <4>1, <4>2, Zenon DEF AdvanceRow
      <3>3. QED
        BY <3>2 DEF Init
    <2>2. QED
      BY <2>1, IdleFits DEF Init, TypeOK
  <1>2. RowsKeepTheirAdvance
    BY DEF Init, RowsKeepTheirAdvance
  <1>3. \A t \in Txs : Fits(t, tx[t])
    BY IdleFits, CleanFits DEF Init
  <1>4. QED
    BY <1>1, <1>2, <1>3 DEF RowsInv

(* However recoveries, edits, removals and aborts interleave, no committed *)
(* recovery row is left without its advance: the insert of a row locks the *)
(* advance it refers to, and the delete waits for that lock and is refused *)
(* while there are rows.                                                   *)
THEOREM RowsStayWithTheirAdvance == Spec => []RowsKeepTheirAdvance
  <1>1. Init => RowsInv
    BY InitFits
  <1>2. RowsInv /\ [Next]_vars => RowsInv'
    BY RowsStep
  <1>3. RowsInv => RowsKeepTheirAdvance
    BY DEF RowsInv
  <1>4. QED
    BY <1>1, <1>2, <1>3, PTL DEF Spec

-----------------------------------------------------------------------------
(* Retries.  The sum of an advance's rows once period p holds v.           *)
Recorded(a, p, v) == SumOf([recovery[a] EXCEPT ![p] = v], NumPeriods)

(* The row an advance gets when transaction x commits.                     *)
Repays(row, a, x) ==
    /\ row.recoveredAmount = Recorded(a, x.period, x.rows[a])
    /\ row.amount = advance[a].amount
    /\ row.closed <=> row.recoveredAmount >= row.amount

(* A recovery takes each advance once, what it deducts fits the advance    *)
(* whatever the period took before, and what it has read is still so.      *)
Recovering(x) == x.period # 0 =>
    /\ Distinct(x.line) /\ \A a \in DOMAIN x.advances : a \notin Left(x.line)
    /\ DOMAIN x.rows = IF x.pc = "row" THEN DOMAIN x.advances
                                       ELSE DOMAIN x.advances \cup {Head(x.line)}
    /\ \A a \in DOMAIN x.deducted :
          x.deducted[a] >= 0 /\ Recorded(a, x.period, x.deducted[a]) <= advance[a].amount
    /\ \A a \in DOMAIN x.rows : a \in DOMAIN x.deducted /\ x.rows[a] = x.deducted[a]
    /\ x.pc \in {"read", "write"} =>
          x.total = Recorded(Head(x.line), x.period, x.rows[Head(x.line)])
    /\ x.pc = "write" => x.amount = advance[Head(x.line)].amount
    /\ \A a \in DOMAIN x.advances : Repays(x.advances[a], a, x)

(* Nothing of the advance has been recovered.                              *)
Untouched(row, a) ==
    /\ row.recoveredAmount = SumOf(recovery[a], NumPeriods)
    /\ row.recoveredAmount <= 0 /\ ~row.closed /\ row.exists

(* An edit finds its advance as it was when it was read, a removal leaves  *)
(* the amount alone.                                                       *)
Changing(x) == x.period = 0 =>
    /\ x.pc = "edit" /\ advance[Head(x.line)].exists =>
          advance[Head(x.line)].recoveredAmount <= 0
    /\ \A a \in DOMAIN x.advances :
          /\ x.amount = 0 => ~x.advances[a].exists /\ x.advances[a].amount = advance[a].amount
          /\ x.amount # 0 => Untouched(x.advances[a], a)

(* Beside a recovery run retries of it and removals, but no edit.          *)
Together(x, y) == x.period # 0 => IF y.period = 0 THEN y.amount = 0 ELSE y.period = x.period

NothingNegative == \A a \in AdvanceIds, p \in Periods : recovery[a][p] >= 0

DriftInv ==
    /\ RowsInv /\ NoDrift /\ NotRecoveredTwice /\ NothingNegative
    /\ \A t, u \in Txs : Together(tx[t], tx[u])
    /\ \A t \in Txs : Recovering(tx[t]) /\ Changing(tx[t])

LEMMA RecordedIs ==
    ASSUME RowsInv, NEW a \in AdvanceIds, NEW p \in Periods, NEW v \in Int
    PROVE  /\ SumOf(recovery[a], NumPeriods) \in Int /\ recovery[a][p] \in Int
           /\ Recorded(a, p, v) = SumOf(recovery[a], NumPeriods) - recovery[a][p] + v
  <1>1. recovery[a] \in [1..NumPeriods -> Int] /\ NumPeriods \in Nat /\ p \in 1..NumPeriods
    BY RecoveryTxAssumption DEF RowsInv, TypeOK, Periods, RecoveryTxAssumption
  <1>2. SumOf(recovery[a], NumPeriods) \in Int
    BY <1>1, PartialSumsStep DEF SumOf
  <1>3. Recorded(a, p, v) = SumOf(recovery[a], NumPeriods) - recovery[a][p] + v
    BY <1>1, SumOfOverwrite DEF Recorded
  <1>4. QED
    BY <1>1, <1>2, <1>3

LEMMA MoveDrift ==
    ASSUME DriftInv, NEW t \in Txs, NEW x, Moves(t, x), Fits(t, x),
           Recovering(x), Changing(x),
           \A u \in Txs \ {t} : Together(x, tx[u]) /\ Together(tx[u], x)
    PROVE  DriftInv'
  <1>1. /\ tx'[t] = x /\ \A u \in Txs \ {t} : tx'[u] = tx[u]
        /\ UNCHANGED <<advance, recovery>>
    BY DEF Moves, DriftInv, RowsInv, TypeOK
  <1>2. RowsInv'
    BY MoveFits DEF DriftInv
  <1>3. NoDrift' /\ NotRecoveredTwice' /\ NothingNegative'
    BY <1>1 DEF DriftInv, NoDrift, NotRecoveredTwice, NothingNegative
  <1>4. \A u, w \in Txs : Together(tx'[u], tx'[w])
    <2>1. Together(x, x)
      BY DEF Together
    <2>2. QED
      BY <1>1, <2>1 DEF DriftInv
  <1>5. ASSUME NEW u \in Txs
        PROVE  (Recovering(tx[u]) /\ Changing(tx[u]))'
    <2>1. PICK y : y = tx'[u] /\ Recovering(y) /\ Changing(y)
      BY <1>1 DEF DriftInv
    <2>2. Recovering(y)'
      BY <1>1, <2>1 DEF Recovering, Repays, Recorded
    <2>3. Changing(y)'
      BY <1>1, <2>1 DEF Changing, Untouched
    <2>4. QED
      BY <2>1, <2>2, <2>3 DEF Recovering, Changing, Repays, Recorded, Untouched
  <1>6. QED
    BY <1>2, <1>3, <1>4, <1>5 DEF DriftInv, Together

(* A step that keeps the period, and the amount of an edit, keeps company. *)
LEMMA SameCompany ==
    ASSUME DriftInv, NEW t \in Txs, NEW x, x.period = tx[t].period,
           x.period = 0 => x.amount = tx[t].amount
    PROVE  \A u \in Txs \ {t} : Together(x, tx[u]) /\ Together(tx[u], x)
  BY DEF DriftInv, Together

LEMMA IdleDrift ==
    ASSUME DriftInv, NEW t \in Txs, tx' = [tx EXCEPT ![t] = Idle],
           UNCHANGED <<advance, recovery>>
    PROVE  DriftInv'
  <1>1. Recovering(Idle) /\ Changing(Idle)
    BY IdleFits, EmptyTable DEF Recovering, Changing
  <1>2. \A u \in Txs \ {t} : Together(Idle, tx[u]) /\ Together(tx[u], Idle)
    BY IdleFits DEF Together
  <1>3. QED
    BY <1>1, <1>2, IdleEffect, MoveDrift

-----------------------------------------------------------------------------
(* The statements again. *)

(* What is deducted of an advance that asks for something fits it, even    *)
(* beside what the other periods have taken.                               *)
LEMMA RequestFits ==
    ASSUME DriftInv, NEW a \in Asking, NEW p \in Periods
    PROVE  /\ Requested(advance[a]) \in Nat
           /\ Recorded(a, p, Requested(advance[a])) <= advance[a].amount
  <1>1. a \in AdvanceIds /\ advance[a].exists /\ ~advance[a].closed
    BY DEF Asking
  <1>2. /\ advance[a].amount \in Nat \ {0}
        /\ advance[a].instalmentAmount # None => advance[a].instalmentAmount \in Int
        /\ advance[a].recoveredAmount \in Int
        /\ Requested(advance[a]) > 0
    BY <1>1 DEF DriftInv, RowsInv, TypeOK, AdvanceRow, Asking
  <1>3. /\ advance[a].recoveredAmount = SumOf(recovery[a], NumPeriods)
        /\ ~(advance[a].recoveredAmount >= advance[a].amount)
    BY <1>1 DEF DriftInv, NoDrift
  <1>4. /\ Requested(advance[a]) \in Nat
        /\ Requested(advance[a]) <= advance[a].amount - advance[a].recoveredAmount
    BY <1>2, <1>3 DEF Requested, Least, Outstanding
  <1>5. recovery[a][p] >= 0
    BY <1>1 DEF DriftInv, NothingNegative
  <1>6. PICK v \in Int : v = Requested(advance[a])
    BY <1>4
  <1>7. /\ SumOf(recovery[a], NumPeriods) \in Int /\ recovery[a][p] \in Int
        /\ Recorded(a, p, v) = SumOf(recovery[a], NumPeriods) - recovery[a][p] + v
    BY <1>1, RecordedIs DEF DriftInv
  <1>8. QED
    BY <1>2, <1>3, <1>4, <1>5, <1>6, <1>7

LEMMA ComputeDrift ==
    ASSUME DriftInv, NEW t \in Txs, NEW p \in Periods, OnlyRetries(p), Compute(t, p)
    PROVE  DriftInv'
  <1>1. PICK x : Moves(t, x) /\ Fits(t, x) /\ Computed(x, p)
    BY ComputeEffect, Zenon DEF DriftInv, RowsInv
  <1>2. /\ x.pc = "row" /\ x.period = p /\ Distinct(x.line)
        /\ x.deducted = [a \in Asking |-> Requested(advance[a])]
        /\ DOMAIN x.rows = {} /\ DOMAIN x.advances = {}
    BY <1>1 DEF Computed, Clean
  <1>3. p # 0
    BY RecoveryTxAssumption DEF Periods, RecoveryTxAssumption
  <1>4. \A a \in DOMAIN x.deducted :
          x.deducted[a] >= 0 /\ Recorded(a, x.period, x.deducted[a]) <= advance[a].amount
    <2>1. ASSUME NEW a \in Asking
          PROVE  x.deducted[a] >= 0 /\ Recorded(a, x.period, x.deducted[a]) <= advance[a].amount
      <3>1. x.deducted[a] = Requested(advance[a])
        BY <1>2
      <3>2. QED
        BY <1>2, <3>1, RequestFits
    <2>2. QED
      BY <1>2, <2>1
  <1>5. Recovering(x) /\ Changing(x)
    BY <1>2, <1>3, <1>4 DEF Recovering, Changing
  <1>6. \A u \in Txs \ {t} : Together(x, tx[u]) /\ Together(tx[u], x)
    BY <1>2, <1>3 DEF OnlyRetries, Together
  <1>7. QED
    BY <1>1, <1>5, <1>6, MoveDrift

LEMMA LookDrift ==
    ASSUME DriftInv, NEW t \in Txs, (NobodyRecovers /\ Edits(t)) \/ Removes(t)
    PROVE  DriftInv'
  <1>1. PICK pc \in {"edit", "remove"} :
          /\ pc = "edit" => Edits(t) /\ NobodyRecovers
          /\ pc = "remove" => Removes(t)
    <2>1. CASE Removes(t)
      BY <2>1
    <2>2. CASE NobodyRecovers /\ Edits(t)
      BY <2>2
    <2>3. QED
      BY <2>1, <2>2
  <1>2. PICK x : \E a \in AdvanceIds :
          Moves(t, x) /\ Fits(t, x) /\ Looked(x, a) /\ x.pc = pc
    BY <1>1, LookEffect, Zenon DEF DriftInv, RowsInv
  <1>3. /\ x.period = 0 /\ DOMAIN x.advances = {}
        /\ advance[Head(x.line)].recoveredAmount <= 0
        /\ x.amount # 0 => NobodyRecovers
    BY <1>1, <1>2 DEF Looked, Clean
  <1>4. Recovering(x) /\ Changing(x)
    BY <1>3 DEF Recovering, Changing
  <1>5. \A u \in Txs \ {t} : Together(x, tx[u]) /\ Together(tx[u], x)
    BY <1>3 DEF NobodyRecovers, Together
  <1>6. QED
    BY <1>2, <1>4, <1>5, MoveDrift

LEMMA UpsertDrift ==
    ASSUME DriftInv, NEW t \in Txs, UpsertRow(t)
    PROVE  DriftInv'
  <1>0. PICK was : was = tx[t] /\ Recovering(was)
    BY DEF DriftInv
  <1>1. PICK x : Moves(t, x) /\ Fits(t, x) /\ Upserted(was, x)
    BY <1>0, UpsertEffect, Zenon DEF DriftInv
  <1>2. was.period \in Periods /\ was.period # 0 /\ was \in Transaction /\ Shape(was)
    BY <1>0, <1>1, Knows, RecoveryTxAssumption
       DEF DriftInv, Upserted, Periods, RecoveryTxAssumption
  <1>3. PICK a : a = Head(was.line)
    OBVIOUS
  <1>4. a \in Left(was.line) /\ a \in DOMAIN was.deducted /\ a \notin DOMAIN was.advances
    BY <1>0, <1>1, <1>2, <1>3, LineHead DEF Upserted, Transaction, Shape, Recovering
  <1>5. /\ x.pc = "sum" /\ x.period = was.period /\ x.line = was.line /\ x.deducted = was.deducted
        /\ x.advances = was.advances
        /\ DOMAIN x.rows = DOMAIN was.rows \cup {a} /\ DOMAIN was.rows = DOMAIN was.advances
        /\ \A b \in DOMAIN x.rows : x.rows[b] = IF b = a THEN was.deducted[b] ELSE was.rows[b]
    BY <1>0, <1>1, <1>2, <1>3 DEF Upserted, Recovering
  <1>6. \A b \in DOMAIN x.rows : b \in DOMAIN x.deducted /\ x.rows[b] = x.deducted[b]
    BY <1>0, <1>2, <1>4, <1>5 DEF Recovering
  <1>7. \A b \in DOMAIN x.advances : Repays(x.advances[b], b, x)
    <2>1. ASSUME NEW b \in DOMAIN x.advances
          PROVE  Repays(x.advances[b], b, x)
      <3>1. Repays(was.advances[b], b, was) /\ x.rows[b] = was.rows[b]
        BY <1>0, <1>2, <1>4, <1>5 DEF Recovering
      <3>2. QED
        BY <1>5, <3>1 DEF Repays
    <2>2. QED
      BY <2>1
  <1>8. Recovering(x) /\ Changing(x)
    BY <1>0, <1>2, <1>3, <1>5, <1>6, <1>7 DEF Recovering, Changing
  <1>9. QED
    BY <1>0, <1>1, <1>2, <1>5, <1>8, SameCompany, MoveDrift

LEMMA ReadOnDrift ==
    ASSUME DriftInv, NEW t \in Txs, SumRows(t) \/ ReadAdvance(t)
    PROVE  DriftInv'
  <1>0. PICK was : was = tx[t] /\ Recovering(was)
    BY DEF DriftInv
  <1>1. PICK x : Moves(t, x) /\ Fits(t, x) /\ ReadOn(was, x) /\ Summed(was, x) /\ LookedUp(was, x)
    BY <1>0, ReadOnEffect, Zenon DEF DriftInv
  <1>2. was.period \in Periods /\ was.period # 0
    BY <1>0, <1>1, Knows, RecoveryTxAssumption
       DEF DriftInv, ReadOn, Periods, RecoveryTxAssumption
  <1>3. /\ x.line = was.line /\ x.period = was.period /\ x.deducted = was.deducted
        /\ x.rows = was.rows /\ x.advances = was.advances
    BY <1>1 DEF ReadOn
  <1>4. /\ (was.pc = "sum" /\ x.pc = "read") \/ (was.pc = "read" /\ x.pc = "write")
        /\ x.total = Recorded(Head(x.line), x.period, x.rows[Head(x.line)])
        /\ x.pc = "write" => x.amount = advance[Head(x.line)].amount
    <2>1. CASE was.pc = "sum"
      <3>1. x.pc = "read"
        BY <1>1, <2>1 DEF ReadOn
      <3>2. x.total = Recorded(Head(was.line), was.period, was.rows[Head(was.line)])
        BY <1>1, <2>1, Zenon DEF Summed, Recorded
      <3>3. QED
        BY <1>3, <2>1, <3>1, <3>2
    <2>2. CASE was.pc = "read"
      BY <1>0, <1>1, <1>2, <1>3, <2>2 DEF ReadOn, LookedUp, Recovering
    <2>3. QED
      BY <1>1, <2>1, <2>2 DEF ReadOn
  <1>5. Recovering(x) /\ Changing(x)
    BY <1>0, <1>2, <1>3, <1>4 DEF Recovering, Changing, Repays
  <1>6. QED
    BY <1>0, <1>1, <1>2, <1>3, <1>5, SameCompany, MoveDrift

LEMMA WriteAdvanceDrift ==
    ASSUME DriftInv, NEW t \in Txs, WriteAdvance(t)
    PROVE  DriftInv'
  <1>0. PICK was : was = tx[t] /\ Recovering(was)
    BY DEF DriftInv
  <1>1. PICK x : Moves(t, x) /\ Fits(t, x) /\ Wrote(was, x)
    BY <1>0, WriteAdvanceEffect, Zenon DEF DriftInv
  <1>2. was.period \in Periods /\ was.period # 0 /\ was \in Transaction
    BY <1>0, <1>1, Knows, RecoveryTxAssumption
       DEF DriftInv, Wrote, Periods, RecoveryTxAssumption
  <1>3. PICK a : a = Head(was.line)
    OBVIOUS
  <1>4. PICK rest : rest = Tail(was.line)
    OBVIOUS
  <1>5. /\ x.pc = "row" /\ was.pc = "write" /\ was.line # <<>> /\ x.line = rest
        /\ x.period = was.period /\ x.deducted = was.deducted /\ x.rows = was.rows
        /\ DOMAIN x.advances = DOMAIN was.advances \cup {a}
        /\ \A b \in DOMAIN was.advances \ {a} : x.advances[b] = was.advances[b]
        /\ x.advances[a].recoveredAmount = was.total
        /\ x.advances[a].closed <=> was.total >= was.amount
        /\ x.advances[a].amount = advance[a].amount
    BY <1>1, <1>3, <1>4 DEF Wrote
  <1>6. Distinct(rest) /\ a \notin Left(rest) /\ Left(rest) \subseteq Left(was.line)
    BY <1>0, <1>2, <1>3, <1>4, <1>5, LineHead DEF Recovering, Transaction
  <1>7. was.total = Recorded(a, was.period, was.rows[a]) /\ was.amount = advance[a].amount
    BY <1>0, <1>2, <1>3, <1>5 DEF Recovering
  <1>8. \A b \in DOMAIN x.advances : Repays(x.advances[b], b, x)
    <2>1. Repays(x.advances[a], a, x)
      BY <1>5, <1>7 DEF Repays
    <2>2. ASSUME NEW b \in DOMAIN was.advances \ {a}
          PROVE  Repays(x.advances[b], b, x)
      <3>1. Repays(was.advances[b], b, was)
        BY <1>0, <1>2 DEF Recovering
      <3>2. QED
        BY <1>5, <3>1 DEF Repays
    <2>3. QED
      BY <1>5, <2>1, <2>2
  <1>9. DOMAIN x.rows = DOMAIN x.advances /\ \A b \in DOMAIN x.advances : b \notin Left(x.line)
    BY <1>0, <1>2, <1>3, <1>5, <1>6 DEF Recovering
  <1>10. Recovering(x) /\ Changing(x)
    BY <1>0, <1>2, <1>5, <1>6, <1>8, <1>9 DEF Recovering, Changing
  <1>11. QED
    BY <1>0, <1>1, <1>2, <1>5, <1>10, SameCompany, MoveDrift

LEMMA ChangeDrift ==
    ASSUME DriftInv, NEW t \in Txs, EditAmount(t) \/ DeleteAdvance(t)
    PROVE  DriftInv'
  <1>0. PICK was : was = tx[t] /\ Changing(was)
    BY DEF DriftInv
  <1>1. CASE Moves(t, Idle)
    BY <1>1, IdleDrift DEF Moves
  <1>2. ASSUME NEW x, Moves(t, x), Fits(t, x), Changed(was, x)
        PROVE  DriftInv'
    <2>1. PICK a : a = Head(was.line)
      OBVIOUS
    <2>2. /\ was.pc \in {"edit", "remove"} /\ x.pc = "row" /\ was.period = 0 /\ x.period = 0
          /\ x.amount = was.amount /\ DOMAIN x.advances = {a} /\ advance[a].exists
          /\ was.pc = "edit" => x.advances[a] = [advance[a] EXCEPT !.amount = was.amount]
          /\ was.pc = "remove" => x.advances[a] = [advance[a] EXCEPT !.exists = FALSE]
      BY <1>2, <2>1 DEF Changed
    <2>3. /\ was \in Transaction /\ a \in AdvanceIds /\ advance[a] \in AdvanceRow
          /\ was.amount # 0 <=> was.pc = "edit"
      <3>1. was \in Transaction /\ Shape(was) /\ was.line # <<>>
        BY <1>0, <2>2, Knows DEF DriftInv, Shape
      <3>2. a \in AdvanceIds
        BY <2>1, <3>1, LineHead DEF Transaction
      <3>3. QED
        BY <2>2, <3>1, <3>2 DEF DriftInv, RowsInv, TypeOK, Shape
    <2>4. CASE was.pc = "edit"
      <3>1. advance[a].recoveredAmount <= 0
        BY <1>0, <2>1, <2>2, <2>4 DEF Changing
      <3>2. /\ advance[a].recoveredAmount = SumOf(recovery[a], NumPeriods)
            /\ advance[a].closed <=> advance[a].recoveredAmount >= advance[a].amount
            /\ advance[a].recoveredAmount \in Int /\ advance[a].amount \in Nat \ {0}
        <4>1. advance[a].recoveredAmount \in Int /\ advance[a].amount \in Nat \ {0}
          BY <2>3 DEF AdvanceRow
        <4>2. NoDrift /\ a \in AdvanceIds /\ advance[a].exists
          BY <2>2, <2>3 DEF DriftInv
        <4>3. QED
          BY <4>1, <4>2 DEF NoDrift
      <3>3. ~advance[a].closed
        BY <3>1, <3>2
      <3>4. /\ x.advances[a].recoveredAmount = advance[a].recoveredAmount
            /\ x.advances[a].closed = advance[a].closed
            /\ x.advances[a].exists = advance[a].exists
        BY <2>2, <2>3, <2>4 DEF AdvanceRow
      <3>5. Untouched(x.advances[a], a)
        BY <2>2, <3>1, <3>2, <3>3, <3>4 DEF Untouched
      <3>6. Changing(x)
        BY <2>2, <2>3, <2>4, <3>5 DEF Changing
      <3>7. QED
        BY <1>0, <1>2, <2>2, <3>6, SameCompany, MoveDrift DEF Recovering
    <2>5. CASE was.pc = "remove"
      <3>1. ~x.advances[a].exists /\ x.advances[a].amount = advance[a].amount
        BY <2>2, <2>3, <2>5 DEF AdvanceRow
      <3>2. Changing(x)
        BY <2>2, <2>3, <2>5, <3>1 DEF Changing
      <3>3. QED
        BY <1>0, <1>2, <2>2, <3>2, SameCompany, MoveDrift DEF Recovering
    <2>6. QED
      BY <2>2, <2>4, <2>5
  <1>3. QED
    <2>1. (\E x : Moves(t, x) /\ Fits(t, x) /\ Changed(was, x)) => DriftInv'
      BY <1>2, Zenon
    <2>2. QED
      BY <1>0, <1>1, <2>1, ChangeEffect DEF DriftInv

(* A commit leaves the other transactions' reads true: retries overwrite   *)
(* the same period, and beside an edit no recovery commits.                *)
LEMMA CommitDrift ==
    ASSUME DriftInv, NEW t \in Txs, Commit(t)
    PROVE  DriftInv'
  <1>0. PICK x : x = tx[t] /\ Recovering(x) /\ Changing(x)
    BY DEF DriftInv
  <1>1. /\ x.pc = "row" /\ x.line = <<>> /\ x \in Transaction /\ Fits(t, x)
        /\ tx'[t] = Idle /\ \A u \in Txs \ {t} : tx'[u] = tx[u]
        /\ \A a \in AdvanceIds :
              /\ advance'[a] = IF a \in DOMAIN x.advances THEN x.advances[a] ELSE advance[a]
              /\ recovery'[a] = IF a \in DOMAIN x.rows
                                THEN [recovery[a] EXCEPT ![x.period] = x.rows[a]]
                                ELSE recovery[a]
    BY <1>0, CommitEffect DEF DriftInv
  <1>2. \A u \in Txs \ {t} : \A a \in DOMAIN tx[u].advances : a \notin DOMAIN x.advances
    BY <1>0, CommitEffect DEF DriftInv
  <1>3. RowsInv'
    BY CommitFits DEF DriftInv
  <1>4. DOMAIN x.rows \subseteq AdvanceIds /\ DOMAIN x.advances \subseteq AdvanceIds
    BY <1>0, Knows DEF DriftInv
  <1>5. /\ x.period = 0 => DOMAIN x.rows = {}
        /\ x.period # 0 => x.period \in Periods /\ DOMAIN x.rows = DOMAIN x.advances
    BY <1>0, <1>1, RecoveryTxAssumption
       DEF Fits, Shape, Recovering, Transaction, Periods, RecoveryTxAssumption
  <1>6. \A a \in AdvanceIds : a \notin DOMAIN x.rows => recovery'[a] = recovery[a]
    BY <1>1
  <1>7. ASSUME NEW a \in DOMAIN x.rows
        PROVE  /\ x.period \in Periods /\ a \in DOMAIN x.advances /\ x.rows[a] \in Int
               /\ x.rows[a] >= 0
               /\ Repays(x.advances[a], a, x)
               /\ recovery'[a] = [recovery[a] EXCEPT ![x.period] = x.rows[a]]
               /\ x.advances[a].recoveredAmount = SumOf(recovery'[a], NumPeriods)
               /\ SumOf(recovery'[a], NumPeriods) <= x.advances[a].amount
    <2>1. x.period \in Periods /\ x.period # 0 /\ a \in DOMAIN x.advances /\ a \in AdvanceIds
      BY <1>4, <1>5
    <2>2. x.rows[a] \in Int
      BY <1>1, TableEntries DEF Transaction
    <2>3. /\ a \in DOMAIN x.deducted /\ x.rows[a] = x.deducted[a] /\ x.deducted[a] >= 0
          /\ Recorded(a, x.period, x.deducted[a]) <= advance[a].amount
          /\ Repays(x.advances[a], a, x)
      BY <1>0, <2>1 DEF Recovering
    <2>4. recovery'[a] = [recovery[a] EXCEPT ![x.period] = x.rows[a]]
      BY <1>1, <2>1
    <2>5. SumOf(recovery'[a], NumPeriods) = Recorded(a, x.period, x.rows[a])
      BY <2>4 DEF Recorded
    <2>6. QED
      BY <2>1, <2>2, <2>3, <2>4, <2>5 DEF Repays
  <1>8. ASSUME NEW a \in DOMAIN x.advances, a \notin DOMAIN x.rows
        PROVE  /\ x.period = 0 /\ a \in AdvanceIds
               /\ x.amount = 0 => ~x.advances[a].exists /\ x.advances[a].amount = advance[a].amount
               /\ x.amount # 0 => Untouched(x.advances[a], a)
    BY <1>0, <1>4, <1>5, <1>8 DEF Changing
  <1>9. /\ advance \in [AdvanceIds -> AdvanceRow] /\ advance' \in [AdvanceIds -> AdvanceRow]
        /\ recovery \in [AdvanceIds -> [Periods -> Int]]
    BY <1>3 DEF DriftInv, RowsInv, TypeOK
  <1>10. NoDrift' /\ NotRecoveredTwice'
    <2>1. ASSUME NEW a \in AdvanceIds
          PROVE  /\ advance'[a].exists =>
                      /\ advance'[a].recoveredAmount = SumOf(recovery'[a], NumPeriods)
                      /\ advance'[a].closed <=> advance'[a].recoveredAmount >= advance'[a].amount
                 /\ SumOf(recovery'[a], NumPeriods) <= advance'[a].amount
      <3>1. CASE a \in DOMAIN x.rows
        <4>1. advance'[a] = x.advances[a]
          BY <1>1, <1>7, <3>1
        <4>2. QED
          BY <1>7, <3>1, <4>1 DEF Repays
      <3>2. CASE a \in DOMAIN x.advances /\ a \notin DOMAIN x.rows
        <4>1. advance'[a] = x.advances[a] /\ recovery'[a] = recovery[a]
          BY <1>1, <1>6, <3>2
        <4>2. /\ advance'[a].amount \in Nat \ {0} /\ advance'[a].recoveredAmount \in Int
              /\ SumOf(recovery[a], NumPeriods) <= advance[a].amount
          BY <1>9 DEF AdvanceRow, DriftInv, NotRecoveredTwice
        <4>3. CASE x.amount = 0
          BY <1>8, <3>2, <4>1, <4>2, <4>3
        <4>4. CASE x.amount # 0
          <5>1. Untouched(advance'[a], a)
            BY <1>8, <3>2, <4>1, <4>4
          <5>2. QED
            BY <4>1, <4>2, <5>1 DEF Untouched
        <4>5. QED
          BY <4>3, <4>4
      <3>3. CASE a \notin DOMAIN x.advances /\ a \notin DOMAIN x.rows
        <4>1. advance'[a] = advance[a] /\ recovery'[a] = recovery[a]
          BY <1>1, <1>6, <3>3
        <4>2. QED
          BY <4>1 DEF DriftInv, NoDrift, NotRecoveredTwice
      <3>4. QED
        BY <3>1, <3>2, <3>3
    <2>2. QED
      BY <2>1 DEF NoDrift, NotRecoveredTwice
  <1>11. NothingNegative'
    <2>1. ASSUME NEW a \in AdvanceIds, NEW p \in Periods
          PROVE  recovery'[a][p] >= 0
      <3>1. recovery[a][p] >= 0
        BY DEF DriftInv, NothingNegative
      <3>2. CASE a \in DOMAIN x.rows
        <4>1. PICK r, q : r \in Int /\ r = x.rows[a] /\ r >= 0 /\ q = x.period
          BY <1>7, <3>2
        <4>2. recovery'[a] = [recovery[a] EXCEPT ![q] = r]
          BY <1>7, <3>2, <4>1
        <4>3. recovery'[a][p] = IF p = q THEN r ELSE recovery[a][p]
          BY <1>9, <4>2
        <4>4. QED
          BY <3>1, <4>1, <4>3
      <3>3. CASE a \notin DOMAIN x.rows
        BY <1>6, <3>1, <3>3
      <3>4. QED
        BY <3>2, <3>3
    <2>2. QED
      BY <2>1 DEF NothingNegative
  <1>12. \A u, w \in Txs : Together(tx'[u], tx'[w])
    BY <1>1, IdleFits DEF DriftInv, Together
  <1>13. ASSUME NEW u \in Txs \ {t}, NEW y, y = tx[u]
         PROVE  Recovering(y)' /\ Changing(y)'
    <2>1. /\ Recovering(y) /\ Changing(y) /\ Together(y, x) /\ Together(x, y)
          /\ y \in Transaction /\ Shape(y)
          /\ DOMAIN y.rows \subseteq AdvanceIds /\ DOMAIN y.advances \subseteq AdvanceIds
      BY <1>0, <1>13, Knows DEF DriftInv
    <2>2. DOMAIN y.deducted \subseteq AdvanceIds
      BY <2>1, TableEntries DEF Transaction
    <2>3. y.pc \in {"read", "write"} => Head(y.line) \in AdvanceIds
      BY <2>1, LineHead DEF Shape, Transaction
    <2>4. ASSUME y.period # 0
          PROVE  Recovering(y)'
      <3>1. \A a \in AdvanceIds : advance'[a].amount = advance[a].amount
        <4>1. x.period = 0 => x.amount = 0
          BY <2>1, <2>4 DEF Together
        <4>2. ASSUME NEW a \in DOMAIN x.advances
              PROVE  x.advances[a].amount = advance[a].amount
          BY <1>7, <1>8, <4>1 DEF Repays
        <4>3. QED
          BY <1>1, <4>2
      <3>2. \A a \in AdvanceIds : \A v : Recorded(a, y.period, v)' = Recorded(a, y.period, v)
        <4>1. ASSUME NEW a \in AdvanceIds, NEW v
              PROVE  [recovery'[a] EXCEPT ![y.period] = v] = [recovery[a] EXCEPT ![y.period] = v]
          <5>1. CASE a \in DOMAIN x.rows
            <6>1. x.period = y.period
              <7>1. x.period \in Periods
                BY <1>7, <5>1
              <7>2. x.period # 0
                BY <7>1, RecoveryTxAssumption DEF Periods, RecoveryTxAssumption
              <7>3. QED
                BY <2>1, <2>4, <7>2 DEF Together
            <6>2. recovery'[a] = [recovery[a] EXCEPT ![y.period] = x.rows[a]]
              BY <1>7, <5>1, <6>1
            <6>3. QED
              BY <6>2
          <5>2. CASE a \notin DOMAIN x.rows
            BY <1>6, <5>2
          <5>3. QED
            BY <5>1, <5>2
        <4>2. QED
          BY <4>1 DEF Recorded
      <3>3. \A a \in DOMAIN y.advances : Repays(y.advances[a], a, y)'
        <4>1. \A a \in DOMAIN y.advances : Repays(y.advances[a], a, y)
          BY <2>1, <2>4 DEF Recovering
        <4>2. QED
          BY <2>1, <3>1, <3>2, <4>1 DEF Repays
      <3>4. \A a \in DOMAIN y.deducted :
              y.deducted[a] >= 0 /\ Recorded(a, y.period, y.deducted[a])' <= advance'[a].amount
        BY <2>1, <2>2, <2>4, <3>1, <3>2 DEF Recovering
      <3>5. /\ y.pc \in {"read", "write"} =>
                  y.total = Recorded(Head(y.line), y.period, y.rows[Head(y.line)])'
            /\ y.pc = "write" => y.amount = advance'[Head(y.line)].amount
        BY <2>1, <2>3, <2>4, <3>1, <3>2 DEF Recovering
      <3>6. QED
        BY <2>1, <2>4, <3>3, <3>4, <3>5 DEF Recovering
    <2>5. ASSUME y.period = 0
          PROVE  Changing(y)'
      <3>1. CASE y.amount = 0
        <4>1. \A a \in DOMAIN y.advances : advance'[a] = advance[a]
          BY <1>1, <1>2, <1>13, <2>1
        <4>2. y.pc # "edit"
          BY <2>1, <3>1 DEF Shape
        <4>3. QED
          BY <2>1, <2>5, <3>1, <4>1, <4>2 DEF Changing
      <3>2. CASE y.amount # 0
        <4>1. x.period = 0 /\ \A a \in AdvanceIds : recovery'[a] = recovery[a]
          BY <1>5, <1>6, <2>1, <2>5, <3>2 DEF Together
        <4>2. ASSUME y.pc = "edit", NEW a, a = Head(y.line), advance'[a].exists
              PROVE  advance'[a].recoveredAmount <= 0
          <5>1. a \in AdvanceIds
            BY <2>1, <4>2, LineHead DEF Shape, Transaction
          <5>2. CASE a \in DOMAIN x.advances
            <6>1. advance'[a] = x.advances[a] /\ a \notin DOMAIN x.rows
              BY <1>1, <1>5, <4>1, <5>1, <5>2
            <6>2. Untouched(x.advances[a], a)
              BY <1>8, <4>2, <5>2, <6>1
            <6>3. QED
              BY <6>1, <6>2 DEF Untouched
          <5>3. CASE a \notin DOMAIN x.advances
            BY <1>1, <2>1, <2>5, <4>2, <5>1, <5>3 DEF Changing
          <5>4. QED
            BY <5>2, <5>3
        <4>3. \A a \in DOMAIN y.advances : Untouched(y.advances[a], a)'
          BY <2>1, <2>5, <3>2, <4>1 DEF Changing, Untouched
        <4>4. QED
          BY <2>5, <3>2, <4>2, <4>3 DEF Changing
      <3>3. QED
        BY <3>1, <3>2
    <2>6. Recovering(y)' \/ y.period = 0
      BY <2>4
    <2>7. Changing(y)' \/ y.period # 0
      BY <2>5
    <2>8. QED
      BY <2>6, <2>7 DEF Recovering, Changing
  <1>14. ASSUME NEW u \in Txs
         PROVE  (Recovering(tx[u]) /\ Changing(tx[u]))'
    <2>1. CASE u = t
      BY <1>1, <2>1, IdleFits, EmptyTable DEF Recovering, Changing
    <2>2. CASE u # t
      <3>1. PICK y : y = tx[u] /\ y = tx'[u]
        BY <1>1, <2>2
      <3>2. Recovering(y)' /\ Changing(y)'
        BY <1>13, <2>2, <3>1
      <3>3. QED
        BY <3>1, <3>2 DEF Recovering, Changing, Repays, Recorded, Untouched
    <2>3. QED
      BY <2>1, <2>2
  <1>15. QED
    BY <1>3, <1>10, <1>11, <1>12, <1>14 DEF DriftInv, Together

LEMMA DriftStep ==
    ASSUME DriftInv, [RetryNext]_vars
    PROVE  DriftInv'
  <1>1. CASE UNCHANGED vars
    <2>1. [Next]_vars /\ UNCHANGED <<advance, recovery, tx>>
      BY <1>1 DEF vars
    <2>2. RowsInv'
      BY <2>1, RowsStep DEF DriftInv
    <2>3. QED
      BY <2>1, <2>2 DEF DriftInv, NoDrift, NotRecoveredTwice, NothingNegative, Together,
                        Recovering, Changing, Repays, Recorded, Untouched
  <1>2. ASSUME NEW t \in Txs, NEW p \in Periods, OnlyRetries(p), Compute(t, p)
        PROVE  DriftInv'
    BY <1>2, ComputeDrift
  <1>3. ASSUME NEW t \in Txs, (NobodyRecovers /\ Edits(t)) \/ Removes(t)
        PROVE  DriftInv'
    BY <1>3, LookDrift
  <1>4. ASSUME NEW t \in Txs, Step(t) \/ Abort(t)
        PROVE  DriftInv'
    <2>1. CASE UpsertRow(t)
      BY <2>1, UpsertDrift
    <2>2. CASE SumRows(t) \/ ReadAdvance(t)
      BY <2>2, ReadOnDrift
    <2>3. CASE WriteAdvance(t)
      BY <2>3, WriteAdvanceDrift
    <2>4. CASE EditAmount(t) \/ DeleteAdvance(t)
      BY <2>4, ChangeDrift
    <2>5. CASE Commit(t)
      BY <2>5, CommitDrift
    <2>6. CASE UpsertFails(t) \/ Abort(t)
      BY <2>6, IdleDrift DEF UpsertFails, Abort
    <2>7. QED
      BY <1>4, <2>1, <2>2, <2>3, <2>4, <2>5, <2>6 DEF Step
  <1>5. QED
    BY <1>1, <1>2, <1>3, <1>4 DEF RetryNext

LEMMA InitDrift ==
    ASSUME Init
    PROVE  DriftInv
  <1>1. RowsInv
    BY InitFits
  <1>2. \A a \in AdvanceIds : SumOf(recovery[a], NumPeriods) = 0
    BY SumOfNothing, RecoveryTxAssumption DEF Init, Periods, RecoveryTxAssumption
  <1>3. \A a \in AdvanceIds :
          advance[a].recoveredAmount = 0 /\ ~advance[a].closed /\ advance[a].amount \in Nat \ {0}
    <2>1. \A a \in AdvanceIds : advance[a] \in AdvanceRow /\ advance[a] \in NewAdvances
      BY <1>1 DEF Init, RowsInv, TypeOK
    <2>2. \A row \in NewAdvances : row.recoveredAmount = 0 /\ ~row.closed
      BY DEF NewAdvances
    <2>3. QED
      BY <2>1, <2>2 DEF AdvanceRow
  <1>4. NoDrift /\ NotRecoveredTwice
    BY <1>2, <1>3 DEF NoDrift, NotRecoveredTwice
  <1>5. NothingNegative
    BY DEF Init, NothingNegative
  <1>6. Together(Idle, Idle) /\ Recovering(Idle) /\ Changing(Idle)
    BY IdleFits, EmptyTable DEF Together, Recovering, Changing
  <1>7. \A t \in Txs : tx[t] = Idle
    BY DEF Init
  <1>8. QED
    BY <1>1, <1>4, <1>5, <1>6, <1>7 DEF DriftInv

(* While the recoveries that race are retries, and no amount is edited     *)
(* meanwhile, the recovered amount of every advance stays the sum of its   *)
(* recovery rows, and it is closed exactly when they repay it: whichever   *)
(* statement of whichever retry comes first, and whichever of them fail.   *)
THEOREM RetriesDoNotDrift == RetrySpec => []NoDrift
  <1>1. Init => DriftInv
    BY InitDrift
  <1>2. DriftInv /\ [RetryNext]_vars => DriftInv'
    BY DriftStep
  <1>3. DriftInv => NoDrift
    BY DEF DriftInv
  <1>4. QED
    BY <1>1, <1>2, <1>3, PTL DEF RetrySpec

(* Nor do they take more of an advance than was advanced: every retry      *)
(* overwrites the row of its period.                                       *)
THEOREM RetriesRecoverOnce == RetrySpec => []NotRecoveredTwice
  <1>1. Init => DriftInv
    BY InitDrift
  <1>2. DriftInv /\ [RetryNext]_vars => DriftInv'
    BY DriftStep
  <1>3. DriftInv => NotRecoveredTwice
    BY DEF DriftInv
  <1>4. QED
    BY <1>1, <1>2, <1>3, PTL DEF RetrySpec
=============================================================================
