------------------------------ MODULE Purchasing ------------------------------
(***************************************************************************)
(* Deliveries and what is owed for them: VendorsService, ProductsService   *)
(* and BillsService.                                                       *)
(*                                                                         *)
(* receive looks for an unpaid bill of the number before it drafts one,    *)
(* and markEntered for a draft before it writes by id; at READ COMMITTED   *)
(* others commit in between.  A unique index backs the names, so looking   *)
(* for one and writing it are one action.                                  *)
(***************************************************************************)
EXTENDS Rows

CONSTANTS
    Vendors,        \* rows of vendors, by name
    Products,       \* rows of products, by name
    BillNumbers,    \* as printed on deliveries
    Receipts,       \* rows of product_received_logs
    Bills,          \* rows of bills
    Clerks          \* requests served at the same time

ASSUME PurchasingAssumption ==
    /\ IsFiniteSet(Bills)
    /\ None \notin Vendors \cup Products \cup BillNumbers \cup Receipts \cup Bills

VARIABLES
    vendor,         \* vendors
    product,        \* products
    receipt,        \* product_received_logs
    bill,           \* bills; drafted by receive or entered by hand; late is
                    \* history: unpaid though another was found, or paid again
    clerk           \* what each handler is doing

purchasingVars == <<vendor, product, receipt, bill, clerk>>

NoReceipt == [vendor |-> None, product |-> None, rated |-> FALSE]

NoBill == [status |-> "none", vendor |-> None, number |-> None,
           drafted |-> FALSE, rated |-> FALSE, late |-> FALSE]

Idle == [pc |-> "rest", vendor |-> None, number |-> None, bill |-> None,
         found |-> FALSE, overtaken |-> FALSE]

(* Mutant: only what nobody has entered yet. *)
StillDraft(v, n) ==
    {b \in Bills : bill[b].status = "draft" /\ bill[b].vendor = v /\ bill[b].number = n}

(* What receive looks for. *)
Unpaid(v, n) ==
    {b \in Bills : /\ bill[b].status \in {"draft", "pending"}
                   /\ bill[b].vendor = v /\ bill[b].number = n}

-----------------------------------------------------------------------------
CreateVendor(v) ==
    /\ v \notin vendor
    /\ vendor' = vendor \cup {v}
    /\ UNCHANGED <<product, receipt, bill, clerk>>

CreateProduct(p) ==
    /\ p \notin product
    /\ product' = product \cup {p}
    /\ UNCHANGED <<vendor, receipt, bill, clerk>>

-----------------------------------------------------------------------------
(* receive. *)

LookForBill(k, v, n) ==
    /\ clerk[k].pc = "rest"
    /\ v \in vendor
    /\ clerk' = [clerk EXCEPT ![k] =
            [Idle EXCEPT !.pc = "receive", !.vendor = v, !.number = n,
                         !.found = n # None /\ Unpaid(v, n) # {}]]
    /\ UNCHANGED <<vendor, product, receipt, bill>>

(* The receipt and, when it names a bill that was not found, the draft.    *)
Receive(k, l, p) ==
    LET v == clerk[k].vendor
        n == clerk[k].number
        Draft(b) == [NoBill EXCEPT !.status = "draft", !.vendor = v, !.number = n,
                                   !.drafted = TRUE, !.late = clerk[k].overtaken]
    IN  /\ clerk[k].pc = "receive"
        /\ receipt[l] = NoReceipt
        /\ p \in product \cup {None}
        /\ receipt' = [receipt EXCEPT ![l] = [NoReceipt EXCEPT !.vendor = v, !.product = p]]
        /\ IF clerk[k].found \/ n = None
           THEN /\ clerk' = [clerk EXCEPT ![k] = Idle]
                /\ UNCHANGED bill
           ELSE /\ \E b \in Bills : bill[b].status = "none" /\ bill' = [bill EXCEPT ![b] = Draft(b)]
                /\ clerk' = [j \in Clerks |->
                     IF j = k THEN Idle
                     ELSE IF clerk[j].pc = "receive" /\ clerk[j].vendor = v /\ clerk[j].number = n
                     THEN [clerk[j] EXCEPT !.overtaken = TRUE]
                     ELSE clerk[j]]
        /\ UNCHANGED <<vendor, product>>

(* updateReceiptProduct: by who logged it, or a Super Admin.               *)
UpdateReceiptProduct(l, p) ==
    /\ receipt[l] # NoReceipt
    /\ p \in product \cup {None}
    /\ receipt' = [receipt EXCEPT ![l].product = p]
    /\ UNCHANGED <<vendor, product, bill, clerk>>

RateReceipt(l) ==
    /\ receipt[l] # NoReceipt
    /\ receipt' = [receipt EXCEPT ![l].rated = TRUE]
    /\ UNCHANGED <<vendor, product, bill, clerk>>

-----------------------------------------------------------------------------
(* Bills. *)

(* create: by hand, of any number, found or not. *)
CreateBill(b, v, n) ==
    /\ bill[b].status = "none"
    /\ v \in vendor
    /\ bill' = [bill EXCEPT ![b] =
            [NoBill EXCEPT !.status = "pending", !.vendor = v, !.number = n]]
    /\ UNCHANGED <<vendor, product, receipt, clerk>>

(* Mutant: a bill that has been entered is entered again. *)
EnterAny(k, b) ==
    /\ clerk[k].pc = "rest"
    /\ bill[b].status # "none"
    /\ clerk' = [clerk EXCEPT ![k] = [Idle EXCEPT !.pc = "enter", !.bill = b]]
    /\ UNCHANGED <<vendor, product, receipt, bill>>

(* markEntered reads the bill: "This bill has already been entered".       *)
ReadDraft(k, b) ==
    /\ clerk[k].pc = "rest"
    /\ bill[b].status = "draft"
    /\ clerk' = [clerk EXCEPT ![k] = [Idle EXCEPT !.pc = "enter", !.bill = b]]
    /\ UNCHANGED <<vendor, product, receipt, bill>>

(* And writes it by id, whatever it has become. *)
MarkEntered(k) ==
    LET b == clerk[k].bill
    IN  /\ clerk[k].pc = "enter"
        /\ bill' = [bill EXCEPT ![b].status = "pending",
                                ![b].late = @ \/ bill[b].status = "paid"]
        /\ clerk' = [clerk EXCEPT ![k] = Idle]
        /\ UNCHANGED <<vendor, product, receipt>>

(* Also a draft, and one that is paid. *)
MarkPaid(b) ==
    /\ bill[b].status # "none"
    /\ bill' = [bill EXCEPT ![b].status = "paid"]
    /\ clerk' = [k \in Clerks |->
            IF clerk[k].bill = b /\ bill[b].status # "paid"
            THEN [clerk[k] EXCEPT !.overtaken = TRUE] ELSE clerk[k]]
    /\ UNCHANGED <<vendor, product, receipt>>

RateBill(b) ==
    /\ bill[b].status \in {"pending", "paid"}
    /\ bill' = [bill EXCEPT ![b].rated = TRUE]
    /\ UNCHANGED <<vendor, product, receipt, clerk>>

(* The process stops, or a statement fails and the transaction with it.    *)
ClerkDies(k) ==
    /\ clerk[k].pc # "rest"
    /\ clerk' = [clerk EXCEPT ![k] = Idle]
    /\ UNCHANGED <<vendor, product, receipt, bill>>

-----------------------------------------------------------------------------
PurchasingInit ==
    /\ vendor = {}
    /\ product = {}
    /\ receipt = [l \in Receipts |-> NoReceipt]
    /\ bill = [b \in Bills |-> NoBill]
    /\ clerk = [k \in Clerks |-> Idle]

ReceivingNext ==
    \/ \E v \in Vendors :
        \/ CreateVendor(v)
        \/ \E k \in Clerks, n \in BillNumbers \cup {None} : LookForBill(k, v, n)
    \/ \E p \in Products : CreateProduct(p)
    \/ \E l \in Receipts :
        \/ \E p \in Products \cup {None} :
            (\E k \in Clerks : Receive(k, l, p)) \/ UpdateReceiptProduct(l, p)
        \/ RateReceipt(l)

BillsNext ==
    \E b \in Bills :
        \/ \E v \in Vendors, n \in BillNumbers \cup {None} : CreateBill(b, v, n)
        \/ \E k \in Clerks : ReadDraft(k, b)
        \/ MarkPaid(b)
        \/ RateBill(b)

PurchasingNext ==
    \/ ReceivingNext
    \/ BillsNext
    \/ \E k \in Clerks : MarkEntered(k) \/ ClerkDies(k)

PurchasingSpec == PurchasingInit /\ [][PurchasingNext]_purchasingVars

-----------------------------------------------------------------------------
(* Properties. *)

(* "Skipped if an unpaid bill for this vendor+number already exists"       *)
(* (receive): however many deliveries name a bill, there is one draft or   *)
(* entered bill to pay for them, next to what is entered by hand.  Not so  *)
(* when two deliveries were received across each other, or when entering   *)
(* a bill across its payment made it unpaid again.                         *)
OneBillPerDelivery ==
    LET Owed(b) == bill[b].status \in {"draft", "pending"} /\ bill[b].drafted /\ ~bill[b].late
    IN  \A a, b \in {c \in Bills : Owed(c)} :
            bill[a].vendor = bill[b].vendor /\ bill[a].number = bill[b].number => a = b

(* A bill that is paid stays paid, unless a handler that read it as a      *)
(* draft before the payment enters it now.                                 *)
PaidStaysPaid ==
    [][\A b \in Bills :
        bill[b].status = "paid" /\ bill'[b].status # "paid" =>
            \E k \in Clerks :
                clerk[k].pc = "enter" /\ clerk[k].bill = b /\ clerk[k].overtaken]_purchasingVars
=============================================================================
