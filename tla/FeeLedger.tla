----------------------------- MODULE FeeLedger -----------------------------
(***************************************************************************)
(* The money side of the fee module: invoices, the payments taken against  *)
(* them at the desk and through a payment gateway, refunds, cancellation   *)
(* and the nightly late fine.                                              *)
(*                                                                         *)
(* Every request is a process.  Postgres runs at READ COMMITTED and the    *)
(* services read rows, compute in memory and write back, so a handler is   *)
(* cut at every statement whose result another request can make stale.     *)
(* Rows written inside an open transaction are invisible to the other      *)
(* requests and their row locks are held until the commit; CHECK           *)
(* constraints are evaluated by the write itself.                          *)
(*                                                                         *)
(* Money is counted in whole units and time in calendar months, the grain  *)
(* at which fines are charged and bills fall due.                          *)
(*                                                                         *)
(* A definition just above the one it varies (CounterNeverLocked above     *)
(* CounterFree, say) is the same step with a likely slip in it; the        *)
(* specification uses none of them, they show that the properties notice.  *)
(***************************************************************************)
EXTENDS Integers, FiniteSets, Functions

CONSTANTS
  Invoices,        \* invoice rows, already issued
  Payments,        \* the payment rows that can ever exist (bounds the run)
  Sessions,        \* gateway checkout sessions
  Procs,           \* requests and jobs in flight at once
  Counters,        \* document counters `payment:YYYYMM`, one per month of paid_at
  Ops,             \* Ops[p]: the operations process p may start
  Hints,           \* how a callback names its payments: by "ref" and/or "txn"
  Subtotal,        \* Subtotal[i]: billed minus discount
  DueOn,           \* DueOn[i]: the month after which invoice i is overdue
  FineFlat,        \* fees.fine_flat_per_month
  FineCap,         \* fees.fine_cap, 0 for none
  MaxMonth,        \* bound: last month of the run
  MaxAmount,       \* bound: largest sum handed over or refunded at once
  MaxFails,        \* bound: requests that may die half way
  AllowOverpay,    \* fees.allow_overpayment and fee.overpay both granted
  WholeRefunds,    \* whether anyone asks for the whole of a payment back
  AmountMayDiffer, \* whether a payer may settle a session for another sum
  VerifyByRef,     \* the gateway is asked by its session id, not a transaction id
  TrustsClaims,    \* the adapter takes a callback's word for a cancel or a failure
  UnclearAnswers,  \* the gateway may answer with no status or figure it is known by
  None

OpNames == {"collect", "refund", "cancel", "fine", "initiate", "callback",
            "reconcile", "sweep"}

ASSUME FeeAssumption ==
  /\ None \notin Invoices \cup Payments \cup Sessions \cup Counters
  /\ IsFiniteSet(Payments)
  /\ Subtotal \in [Invoices -> Nat]
  /\ DueOn \in [Invoices -> Nat]
  /\ \A i, j \in Invoices : DueOn[i] = DueOn[j] => i = j
  /\ FineFlat \in Nat /\ FineCap \in Nat
  /\ MaxMonth \in Nat /\ MaxAmount \in Nat /\ MaxFails \in Nat
  /\ Ops \in [Procs -> SUBSET OpNames]
  /\ Hints \subseteq {"ref", "txn"}
  /\ {AllowOverpay, WholeRefunds, AmountMayDiffer, VerifyByRef, TrustsClaims,
      UnclearAnswers} \subseteq BOOLEAN

VARIABLES
  today,      \* the calendar month
  invoice,    \* the invoices table
  payment,    \* the payments table, with the refunds of each row summed up
  gateway,    \* the gateway's own verdict on each session
  bill,       \* what each session was opened for, and what was paid in it
  req,        \* the request each process is serving
  sums,       \* the two aggregates a settle has read so far
  announced,  \* payments whose PAYMENT_SUCCESS event was emitted
  fails       \* requests that died so far

vars == <<today, invoice, payment, gateway, bill, req, sums, announced, fails>>

InvoiceStatus == {"UNPAID", "PARTIAL", "PAID", "OVERDUE", "CANCELLED", "REFUNDED"}
PaymentStatus == {"PENDING", "SUCCESS", "FAILED", "CANCELLED", "REFUNDED"}
Outcomes == {"PENDING", "SUCCESS", "FAILED", "CANCELLED"}
Outstanding == {"UNPAID", "PARTIAL", "OVERDUE"}

InvoiceRow ==
  [status : InvoiceStatus, paidTotal : Nat, fine : Nat, finedFor : Nat]
ASSUME NoneIsNoRow == None \notin InvoiceRow

PaymentRow ==
  [status : PaymentStatus \cup {"absent"}, inv : Invoices \cup {None},
   amount : Nat, ref : Sessions \cup {None}, txn : BOOLEAN, refunded : Nat]

Absent == [status |-> "absent", inv |-> None, amount |-> 0, ref |-> None,
           txn |-> FALSE, refunded |-> 0]

PCs == {"idle", "insert", "refund", "sumSuccessful", "sumRefunded", "find",
        "write", "commit", "announce", "cancel", "charge", "create", "verify",
        "mark"}

Request ==
  [op : OpNames \cup {"none"}, pc : PCs, intx : BOOLEAN,
   counter : Counters \cup {None}, ref : Sessions \cup {None},
   pay : Payments \cup {None}, amount : Nat, sofar : Nat,
   rows : SUBSET Payments, alloc : [Invoices -> Nat], todo : SUBSET Invoices,
   verdict : Outcomes \cup {"none", "MISMATCH"},
   seen : [Invoices -> InvoiceRow \cup {None}],
   wrote : [Invoices -> InvoiceRow \cup {None}]]

Idle == [op |-> "none", pc |-> "idle", intx |-> FALSE, counter |-> None,
         ref |-> None, pay |-> None, amount |-> 0, sofar |-> 0,
         rows |-> {}, alloc |-> [i \in Invoices |-> 0], todo |-> {},
         verdict |-> "none", seen |-> [i \in Invoices |-> None],
         wrote |-> [i \in Invoices |-> None]]

NoSums == [succ |-> 0, refd |-> 0]
NoBill == [asked |-> 0, paid |-> 0]

-----------------------------------------------------------------------------
(* The pure engines. *)

\* chk_invoices_payable pins payable to subtotal - discount + fine.
Payable(i, row) == Subtotal[i] + row.fine

Due(i, row) == IF Payable(i, row) > row.paidTotal
                 THEN Payable(i, row) - row.paidTotal ELSE 0

Overdue(i, month) == month > DueOn[i]

DeriveStatus(payable, paid, overdue, cancelled, fullyRefunded) ==
  IF cancelled THEN "CANCELLED"
  ELSE IF fullyRefunded THEN "REFUNDED"
  ELSE IF paid >= payable THEN "PAID"
  ELSE IF overdue THEN "OVERDUE"
  ELSE IF paid > 0 THEN "PARTIAL" ELSE "UNPAID"

\* allocatePayment: `amount` over the dues of a basket, oldest due date first,
\* never more than an invoice asks for; the first that owes anything gets some.
IsAllocation(alloc, amount, due) ==
  /\ \E i \in Invoices : alloc[i] > 0
  /\ \A i \in Invoices : alloc[i] <= due[i]
  /\ \A i, j \in Invoices : DueOn[i] < DueOn[j] /\ alloc[i] < due[i] => alloc[j] = 0
  /\ alloc = due \/ SumFunction(alloc) = amount

\* refundRefusal, for a head that is refundable.
RefundAllowed(requested, taken, sofar) == requested > 0 /\ requested <= taken - sofar

FineChargeNightly(i, row, month) ==
  IF ~Overdue(i, month) THEN 0
  ELSE IF FineCap = 0 THEN FineFlat
  ELSE IF row.fine >= FineCap THEN 0
  ELSE IF FineFlat > FineCap - row.fine THEN FineCap - row.fine
  ELSE FineFlat

\* assessFine: at most one charge per calendar month, up to the cap.
FineCharge(i, row, month) ==
  IF ~Overdue(i, month) \/ row.finedFor = month THEN 0
  ELSE IF FineCap = 0 THEN FineFlat
  ELSE IF row.fine >= FineCap THEN 0
  ELSE IF FineFlat > FineCap - row.fine THEN FineCap - row.fine
  ELSE FineFlat

-----------------------------------------------------------------------------
(* What a request can see of the tables. *)

\* Payment rows a collect has inserted and not committed yet.
Hidden(p) == IF req[p].op = "collect" /\ req[p].intx THEN req[p].rows ELSE {}

VisibleTo(p) == {x \in Payments : /\ payment[x].status # "absent"
                                  /\ \A q \in Procs \ {p} : x \notin Hidden(q)}

Committed == {x \in Payments : /\ payment[x].status # "absent"
                               /\ \A q \in Procs : x \notin Hidden(q)}

\* A refund's own transaction already sees its refund row and, when that
\* empties the payment, the REFUNDED status it has written.
InRefund(p, x) == req[p].op = "refund" /\ req[p].intx /\ req[p].pay = x
Empties(p, x) == InRefund(p, x) /\ req[p].sofar + req[p].amount >= payment[x].amount

SuccessfulUnrefundedSum(p, i) ==
  LET rows == {x \in VisibleTo(p) : /\ payment[x].inv = i
                                    /\ payment[x].status = "SUCCESS"
                                    /\ ~InRefund(p, x)}
  IN  SumFunction([x \in rows |-> payment[x].amount])
SuccessfulSum(p, i) ==
  LET rows == {x \in VisibleTo(p) : /\ payment[x].inv = i
                                    /\ payment[x].status = "SUCCESS"
                                    /\ ~Empties(p, x)}
  IN  SumFunction([x \in rows |-> payment[x].amount])

RefundedSumOutsideTx(p, i) ==
  LET rows == {x \in VisibleTo(p) : payment[x].inv = i}
  IN  SumFunction([x \in rows |-> payment[x].refunded])
RefundedSum(p, i) ==
  LET rows == {x \in VisibleTo(p) : payment[x].inv = i}
      own(x) == IF InRefund(p, x) THEN req[p].amount ELSE 0
  IN  SumFunction([x \in rows |-> payment[x].refunded + own(x)])

\* Row locks held by the open transactions of the other requests.
InvoiceFree(p, i) == \A q \in Procs \ {p} : req[q].wrote[i] = None
PaymentFree(p, x) == \A q \in Procs \ {p} : ~Empties(q, x)
CounterNeverLocked(p, c) == TRUE
CounterFree(p, c) == \A q \in Procs \ {p} : ~(req[q].intx /\ req[q].counter = c)

Oldest(S) == CHOOSE i \in S : \A j \in S : DueOn[i] <= DueOn[j]
Current(p) == Oldest(req[p].todo)
Unused == {x \in Payments : payment[x].status = "absent"}

Starts(p, op) == req[p].pc = "idle" /\ op \in Ops[p]

-----------------------------------------------------------------------------
Init ==
  /\ today = 0
  /\ invoice = [i \in Invoices |->
       [status |-> DeriveStatus(Subtotal[i], 0, FALSE, FALSE, FALSE),
        paidTotal |-> 0, fine |-> 0, finedFor |-> 0]]
  /\ payment = [x \in Payments |-> Absent]
  /\ gateway = [s \in Sessions |-> "unopened"]
  /\ bill = [s \in Sessions |-> NoBill]
  /\ req = [p \in Procs |-> Idle]
  /\ sums = [p \in Procs |-> NoSums]
  /\ announced = {}
  /\ fails = 0

\* No request is so slow that a month ends in the middle of it.
Tick ==
  /\ today < MaxMonth
  /\ \A p \in Procs : req[p].pc = "idle"
  /\ today' = today + 1
  /\ UNCHANGED <<invoice, payment, gateway, bill, req, sums, announced, fails>>

-----------------------------------------------------------------------------
(* The collection desk. *)

Collecting(c, alloc) ==
  [Idle EXCEPT !.op = "collect", !.pc = "insert", !.counter = c, !.alloc = alloc,
               !.todo = {i \in Invoices : alloc[i] > 0}]

\* collect, up to its transaction: read the basket, refuse a cancelled or a
\* settled one, allocate the money that was handed over.
Collect(p) ==
  /\ Starts(p, "collect")
  /\ \E basket \in SUBSET Invoices, amount \in 1..MaxAmount, c \in Counters :
       LET due == [i \in Invoices |-> IF i \in basket THEN Due(i, invoice[i]) ELSE 0]
       IN  /\ \A i \in basket : invoice[i].status # "CANCELLED"
           /\ \E i \in basket : due[i] > 0
           /\ amount <= SumFunction(due) \/ AllowOverpay
           /\ \E alloc \in [Invoices -> 0..amount] :
                /\ IsAllocation(alloc, amount, due)
                /\ req' = [req EXCEPT ![p] = Collecting(c, alloc)]
  /\ UNCHANGED <<today, invoice, payment, gateway, bill, sums, announced, fails>>

\* One turn of the loop inside the transaction: the receipt number locks the
\* month's counter row until the commit, then the SUCCESS row is inserted.
InsertPayment(p) ==
  /\ req[p].pc = "insert"
  /\ CounterFree(p, req[p].counter)
  /\ \E x \in Unused :
       /\ payment' = [payment EXCEPT ![x] =
            [Absent EXCEPT !.status = "SUCCESS", !.inv = Current(p),
                           !.amount = req[p].alloc[Current(p)]]]
       /\ req' = [req EXCEPT ![p].intx = TRUE, ![p].rows = @ \cup {x},
                             ![p].pc = "sumSuccessful"]
  /\ UNCHANGED <<today, invoice, gateway, bill, sums, announced, fails>>

\* refund, up to its transaction: the payment must be SUCCESS, and what was
\* refunded before is read outside the transaction.
Refund(p) ==
  /\ Starts(p, "refund")
  /\ \E x \in Committed, amount \in 1..MaxAmount :
       /\ payment[x].status = "SUCCESS"
       /\ RefundAllowed(amount, payment[x].amount, payment[x].refunded)
       /\ WholeRefunds \/ payment[x].refunded + amount < payment[x].amount
       /\ req' = [req EXCEPT ![p] =
            [Idle EXCEPT !.op = "refund", !.pc = "refund", !.pay = x,
                         !.amount = amount, !.sofar = payment[x].refunded]]
  /\ UNCHANGED <<today, invoice, payment, gateway, bill, sums, announced, fails>>

\* The refund row and, when it empties the payment, the REFUNDED status; the
\* update of the payment row waits for the other holders of its lock.
InsertRefund(p) ==
  /\ req[p].pc = "refund"
  /\ LET x == req[p].pay
     IN  /\ req[p].sofar + req[p].amount >= payment[x].amount => PaymentFree(p, x)
         /\ req' = [req EXCEPT ![p].intx = TRUE, ![p].todo = {payment[x].inv},
                               ![p].pc = "sumSuccessful"]
  /\ UNCHANGED <<today, invoice, payment, gateway, bill, sums, announced, fails>>

-----------------------------------------------------------------------------
(* settle and refreshStatus: the path every money operation ends in. *)

SumSuccessful(p) ==
  /\ req[p].pc = "sumSuccessful"
  /\ sums' = [sums EXCEPT ![p].succ = SuccessfulSum(p, Current(p))]
  /\ req' = [req EXCEPT ![p].pc = "sumRefunded"]
  /\ UNCHANGED <<today, invoice, payment, gateway, bill, announced, fails>>

SumRefunded(p) ==
  /\ req[p].pc = "sumRefunded"
  /\ sums' = [sums EXCEPT ![p].refd = RefundedSum(p, Current(p))]
  /\ req' = [req EXCEPT ![p].pc = "find"]
  /\ UNCHANGED <<today, invoice, payment, gateway, bill, announced, fails>>

\* findForSettle reads the committed row: it is not given the transaction.
FindForSettle(p) ==
  /\ req[p].pc = "find"
  /\ req' = [req EXCEPT ![p].seen[Current(p)] = invoice[Current(p)],
                        ![p].pc = "write"]
  /\ UNCHANGED <<today, invoice, payment, gateway, bill, sums, announced, fails>>

Net(p) == sums[p].succ - sums[p].refd

AcceptedAnySum(p) == Net(p) >= 0

\* chk_invoices_amounts, evaluated on the row as it is when it is written.
Accepted(p) == Net(p) \in 0..Payable(Current(p), invoice[Current(p)])

SettledRowWithoutFine(p) ==
  LET i == Current(p)
      old == req[p].seen[i]
  IN  [invoice[i] EXCEPT
         !.paidTotal = Net(p),
         !.status = DeriveStatus(Subtotal[i], Net(p), Overdue(i, today),
                                 old.status = "CANCELLED",
                                 sums[p].succ > 0 /\ Net(p) <= 0)]

\* The row refreshStatus writes: paid_total and status change, the rest is
\* whatever the row holds by then.
SettledRow(p) ==
  LET i == Current(p)
      old == req[p].seen[i]
  IN  [invoice[i] EXCEPT
         !.paidTotal = Net(p),
         !.status = DeriveStatus(Payable(i, old), Net(p), Overdue(i, today),
                                 old.status = "CANCELLED",
                                 sums[p].succ > 0 /\ Net(p) <= 0)]

AfterSettleFirst(p, left) ==
  CASE left = {} /\ req[p].intx -> "commit"
    [] left # {} /\ req[p].intx -> "insert"
    [] OTHER -> "announce"
AfterSettleSilent(p, left) ==
  CASE left = {} /\ req[p].intx -> "commit"
    [] left = {} /\ ~req[p].intx -> "idle"
    [] left # {} /\ req[p].intx -> "insert"
    [] OTHER -> "sumSuccessful"

\* Where a request goes once the invoices in `left` are still to be settled.
AfterSettle(p, left) ==
  CASE left = {} /\ req[p].intx -> "commit"
    [] left = {} /\ ~req[p].intx -> "announce"
    [] left # {} /\ req[p].intx -> "insert"
    [] OTHER -> "sumSuccessful"

RefreshStatus(p) ==
  /\ req[p].pc = "write"
  /\ LET i == Current(p)
         left == req[p].todo \ {i}
     IN  /\ InvoiceFree(p, i)
         /\ Accepted(p)
         /\ invoice' = IF req[p].intx THEN invoice
                                      ELSE [invoice EXCEPT ![i] = SettledRow(p)]
         /\ req' = [req EXCEPT
              ![p].wrote[i] = IF req[p].intx THEN SettledRow(p) ELSE None,
              ![p].seen[i] = None, ![p].todo = left, ![p].pc = AfterSettle(p, left)]
  /\ sums' = [sums EXCEPT ![p] = NoSums]
  /\ UNCHANGED <<today, payment, gateway, bill, announced, fails>>

\* A request that ends early takes its uncommitted writes with it.
Abort(p) ==
  /\ req' = [req EXCEPT ![p] = Idle]
  /\ sums' = [sums EXCEPT ![p] = NoSums]
  /\ payment' = [x \in Payments |-> IF x \in Hidden(p) THEN Absent ELSE payment[x]]
  /\ UNCHANGED <<today, invoice, gateway, bill, announced>>

\* The CHECK refuses the write: the error leaves settle, and with it the
\* transaction of a collect or a refund, or the rest of a callback.
RefuseSettle(p) ==
  /\ req[p].pc = "write"
  /\ InvoiceFree(p, Current(p))
  /\ ~Accepted(p)
  /\ Abort(p)
  /\ UNCHANGED fails

\* The end of $transaction: everything written becomes visible at once.
Commit(p) ==
  /\ req[p].pc = "commit"
  /\ invoice' = [i \in Invoices |-> IF req[p].wrote[i] # None
                                      THEN req[p].wrote[i] ELSE invoice[i]]
  /\ payment' = [x \in Payments |->
       IF InRefund(p, x)
         THEN [payment[x] EXCEPT !.refunded = @ + req[p].amount,
                                 !.status = IF Empties(p, x) THEN "REFUNDED" ELSE @]
         ELSE payment[x]]
  /\ req' = [req EXCEPT ![p] =
       IF req[p].op = "collect"
         THEN [Idle EXCEPT !.op = "collect", !.pc = "announce", !.rows = req[p].rows]
         ELSE Idle]
  /\ UNCHANGED <<today, gateway, bill, sums, announced, fails>>

\* The events are emitted in process, after the commit.
Announce(p) ==
  /\ req[p].pc = "announce"
  /\ announced' = announced \cup req[p].rows
  /\ req' = [req EXCEPT ![p] = Idle]
  /\ UNCHANGED <<today, invoice, payment, gateway, bill, sums, fails>>

-----------------------------------------------------------------------------
(* Cancelling an invoice, and the nightly fine. *)

CancellableUnlessPaid(row) == row.status \notin {"CANCELLED", "PAID"}
Cancellable(row) == row.status # "CANCELLED" /\ row.paidTotal = 0

Cancel(p) ==
  /\ Starts(p, "cancel")
  /\ \E i \in Invoices :
       /\ Cancellable(invoice[i])
       /\ req' = [req EXCEPT ![p] =
            [Idle EXCEPT !.op = "cancel", !.pc = "cancel", !.todo = {i}]]
  /\ UNCHANGED <<today, invoice, payment, gateway, bill, sums, announced, fails>>

\* The write is unconditional.
CancelWrite(p) ==
  /\ req[p].pc = "cancel"
  /\ InvoiceFree(p, Current(p))
  /\ invoice' = [invoice EXCEPT ![Current(p)].status = "CANCELLED"]
  /\ req' = [req EXCEPT ![p] = Idle]
  /\ UNCHANGED <<today, payment, gateway, bill, sums, announced, fails>>

\* findFinable: one read of every outstanding invoice that is past due.
FineRun(p) ==
  /\ Starts(p, "fine")
  /\ FineFlat > 0
  /\ LET candidates == {i \in Invoices : /\ invoice[i].status \in Outstanding
                                         /\ FineCharge(i, invoice[i], today) > 0}
     IN  /\ candidates # {}
         /\ req' = [req EXCEPT ![p] =
              [Idle EXCEPT !.op = "fine", !.pc = "charge",
                 !.todo = candidates,
                 !.seen = [i \in Invoices |->
                             IF i \in candidates THEN invoice[i] ELSE None]]]
  /\ UNCHANGED <<today, invoice, payment, gateway, bill, sums, announced, fails>>

\* One update per candidate, computed from the row as the run first read it.
FineWrite(p) ==
  /\ req[p].pc = "charge"
  /\ \E i \in req[p].todo :
       LET old == req[p].seen[i]
           fine == old.fine + FineCharge(i, old, today)
           left == req[p].todo \ {i}
       IN  /\ InvoiceFree(p, i)
           /\ invoice' = [invoice EXCEPT ![i].fine = fine,
                ![i].finedFor = today,
                ![i].status = DeriveStatus(Subtotal[i] + fine, old.paidTotal,
                                Overdue(i, today), old.status = "CANCELLED",
                                FALSE)]
           /\ req' = [req EXCEPT ![p] =
                IF left = {} THEN Idle
                ELSE [req[p] EXCEPT !.todo = left, !.seen[i] = None]]
  /\ UNCHANGED <<today, payment, gateway, bill, sums, announced, fails>>

-----------------------------------------------------------------------------
(* Online payments. *)

Opening(s, due) ==
  [Idle EXCEPT !.op = "initiate", !.pc = "create", !.ref = s, !.alloc = due,
               !.todo = {i \in Invoices : due[i] > 0}]

\* initiate, up to its transaction: read the invoices, open a session at the
\* gateway for the whole of what they owe.  Other open sessions are not looked
\* for.  The receipt number is drawn in a transaction of its own and is left out.
Initiate(p) ==
  /\ Starts(p, "initiate")
  /\ \E basket \in SUBSET Invoices, s \in Sessions :
       LET due == [i \in Invoices |-> IF i \in basket THEN Due(i, invoice[i]) ELSE 0]
       IN  /\ \A i \in basket : invoice[i].status # "CANCELLED"
           /\ \E i \in basket : due[i] > 0
           /\ gateway[s] = "unopened"
           /\ gateway' = [gateway EXCEPT ![s] = "PENDING"]
           /\ bill' = [bill EXCEPT ![s].asked = SumFunction(due)]
           /\ req' = [req EXCEPT ![p] = Opening(s, due)]
  /\ UNCHANGED <<today, invoice, payment, sums, announced, fails>>

\* One PENDING row per invoice, all in one transaction.
CreatePending(p) ==
  /\ req[p].pc = "create"
  /\ \E row \in Injection(req[p].todo, Unused) :
       payment' = [x \in Payments |->
         IF x \in Range(row)
           THEN LET i == CHOOSE j \in req[p].todo : row[j] = x
                IN  [Absent EXCEPT !.status = "PENDING", !.inv = i,
                                   !.amount = req[p].alloc[i], !.ref = req[p].ref]
           ELSE payment[x]]
  /\ req' = [req EXCEPT ![p] = Idle]
  /\ UNCHANGED <<today, invoice, gateway, bill, sums, announced, fails>>

\* The payer finishes at the gateway; its verdict on a session is final.
GatewayDecides(s) ==
  /\ gateway[s] = "PENDING"
  /\ \/ /\ gateway' = [gateway EXCEPT ![s] = "SUCCESS"]
        /\ \E paid \in {bill[s].asked} \cup
                       (IF AmountMayDiffer THEN 1..bill[s].asked ELSE {}) :
             bill' = [bill EXCEPT ![s].paid = paid]
     \/ /\ \E out \in {"FAILED", "CANCELLED"} : gateway' = [gateway EXCEPT ![s] = out]
        /\ UNCHANGED bill
  /\ UNCHANGED <<today, invoice, payment, req, sums, announced, fails>>

RowsOf(s) == {x \in Committed : payment[x].ref = s}

\* findPendingFor: every row of the session, whatever its status, or the one
\* row that already carries the gateway's transaction id.
FindPendingFor(s, hint) ==
  IF hint = "ref" THEN RowsOf(s) ELSE {x \in RowsOf(s) : payment[x].txn}

NeverVerified(rows) == FALSE
AlreadyVerified(rows) == \A x \in rows : payment[x].status = "SUCCESS"

\* handleCallback: a callback may come early, late, twice or never; one that
\* finds every row SUCCESS answers "Already verified" and changes nothing.
HandleCallback(p) ==
  /\ Starts(p, "callback")
  /\ \E s \in Sessions, hint \in Hints :
       LET rows == FindPendingFor(s, hint)
       IN  /\ rows # {}
           /\ ~AlreadyVerified(rows)
           /\ \E found \in IF hint = "ref" THEN {None} ELSE rows :
                req' = [req EXCEPT ![p] =
                  [Idle EXCEPT !.op = "callback", !.pc = "verify", !.ref = s,
                               !.pay = found, !.rows = rows]]
  /\ UNCHANGED <<today, invoice, payment, gateway, bill, sums, announced, fails>>

ItselfOnly(x) == {x}
Siblings(x) == RowsOf(payment[x].ref)

\* reconcile: by hand on any row that is not SUCCESS, or from the hourly sweep
\* over the rows left PENDING; all the rows of the session are taken along.
Reconcile(p) ==
  /\ \E x \in Committed :
       /\ payment[x].ref # None
       /\ \/ Starts(p, "reconcile") /\ payment[x].status # "SUCCESS"
          \/ Starts(p, "sweep") /\ payment[x].status = "PENDING"
       /\ req' = [req EXCEPT ![p] =
            [Idle EXCEPT !.op = "reconcile", !.pc = "verify", !.pay = x,
                         !.ref = payment[x].ref, !.rows = Siblings(x)]]
  /\ UNCHANGED <<today, invoice, payment, gateway, bill, sums, announced, fails>>

\* What the adapter is given to ask with: the session id, unless a callback named
\* a transaction only; the transaction id of the row, or the one a callback brings.
GivesSession(p) == req[p].op = "callback" => req[p].pay = None
MayGiveTxn(p) == IF req[p].pay = None THEN BOOLEAN ELSE {payment[req[p].pay].txn}

\* Without what its gateway is asked by an adapter answers PENDING: bKash and Nagad
\* ask by session id, SSLCommerz by the `val_id` that only its callback brings.
MayAskByTxn(p) == MayGiveTxn(p)
MayAsk(p) == IF VerifyByRef THEN {GivesSession(p)} ELSE MayGiveTxn(p)

\* The gateway's answer, as the adapters read it: what is no status they know, an
\* error for one, is FAILED.
AnswerFor(p) == {gateway[req[p].ref]} \cup (IF UnclearAnswers THEN {"FAILED"} ELSE {})

\* bKash does not ask when the callback itself says that the payer gave up.
ClaimedBy(p) == IF TrustsClaims /\ req[p].op = "callback"
                  THEN {"CANCELLED", "FAILED"} ELSE {}

VerifyOutcomes(p) ==
  UNION {IF asks THEN ClaimedBy(p) \cup AnswerFor(p) ELSE {"PENDING"} : asks \in MayAsk(p)}

Expected(p) == SumFunction([x \in req[p].rows |-> payment[x].amount])

\* Only handleCallback compares the gateway's figure with the expected one, when
\* the answer has a figure.
Verdicts(p, outcome) ==
  IF outcome = "SUCCESS" /\ req[p].op = "callback" /\ bill[req[p].ref].paid # Expected(p)
    THEN {"MISMATCH"} \cup (IF UnclearAnswers THEN {"SUCCESS"} ELSE {})
    ELSE {outcome}

Verify(p) ==
  /\ req[p].pc = "verify"
  /\ \E outcome \in VerifyOutcomes(p) : \E verdict \in Verdicts(p, outcome) :
       req' = [req EXCEPT ![p].verdict = verdict, ![p].pc = "mark"]
  /\ UNCHANGED <<today, invoice, payment, gateway, bill, sums, announced, fails>>

StatusForUnmapped(verdict) == verdict
StatusForUnlessRefused(verdict) ==
  IF verdict \in {"MISMATCH", "FAILED"} THEN "FAILED" ELSE "SUCCESS"
StatusFor(verdict) == IF verdict = "MISMATCH" THEN "FAILED" ELSE verdict

FirstOf(rows) == CHOOSE x \in rows :
                   \A y \in rows : DueOn[payment[x].inv] <= DueOn[payment[y].inv]

\* markAll: one transaction over all the rows, whatever their status is by
\* now; the first row carries the transaction id when the gateway gave one.
MarkAll(p) ==
  /\ req[p].pc = "mark"
  /\ \A x \in req[p].rows : PaymentFree(p, x)
  /\ \E given \in BOOLEAN :
       /\ req[p].verdict = "SUCCESS" => given \/ UnclearAnswers
       /\ req[p].verdict = "MISMATCH" => ~given
       /\ payment' = [x \in Payments |->
            IF x \in req[p].rows
              THEN [payment[x] EXCEPT !.status = StatusFor(req[p].verdict),
                                      !.txn = IF given THEN x = FirstOf(req[p].rows)
                                                       ELSE @]
              ELSE payment[x]]
  /\ req' = [req EXCEPT ![p] =
       IF req[p].verdict = "SUCCESS"
         THEN [req[p] EXCEPT !.pc = "sumSuccessful",
                             !.todo = {payment[x].inv : x \in req[p].rows}]
         ELSE Idle]
  /\ UNCHANGED <<today, invoice, gateway, bill, sums, announced, fails>>

-----------------------------------------------------------------------------
\* A request dies: the process restarts, the connection drops, the gateway
\* does not answer.
Fail(p) ==
  /\ req[p].pc # "idle"
  /\ fails < MaxFails
  /\ fails' = fails + 1
  /\ Abort(p)

Begin(p) ==
  \/ Collect(p) \/ Refund(p) \/ Cancel(p) \/ FineRun(p)
  \/ Initiate(p) \/ HandleCallback(p) \/ Reconcile(p)

Continue(p) ==
  \/ InsertPayment(p) \/ InsertRefund(p)
  \/ SumSuccessful(p) \/ SumRefunded(p) \/ FindForSettle(p)
  \/ RefreshStatus(p) \/ RefuseSettle(p) \/ Commit(p) \/ Announce(p)
  \/ CancelWrite(p) \/ FineWrite(p)
  \/ CreatePending(p) \/ Verify(p) \/ MarkAll(p)

Next ==
  \/ Tick
  \/ \E s \in Sessions : GatewayDecides(s)
  \/ \E p \in Procs : Begin(p) \/ Continue(p) \/ Fail(p)

Spec == Init /\ [][Next]_vars

\* A request that was started goes on, and the hourly timer of the sweep is not
\* starved by other requests: nothing else is promised, in particular no callback.
Fairness ==
  \A p \in Procs : /\ WF_vars(Continue(p))
                   /\ SF_vars("sweep" \in Ops[p] /\ Reconcile(p))

FairSpec == Spec /\ Fairness

-----------------------------------------------------------------------------
(* Properties. *)

\* The tables hold rows of their types and every request what its handler keeps
\* in local variables.  (The sums, which the database and the gateway work out,
\* are only constrained where they are written to a row.)
TypeOK ==
  /\ today \in 0..MaxMonth
  /\ invoice \in [Invoices -> InvoiceRow]
  /\ payment \in [Payments -> PaymentRow]
  /\ gateway \in [Sessions -> Outcomes \cup {"unopened"}]
  /\ req \in [Procs -> Request]
  /\ announced \subseteq Payments
  /\ fails \in 0..MaxFails

\* What an invoice really holds: committed receipts minus committed refunds.
Held(i) ==
  LET rows == {x \in Committed : /\ payment[x].inv = i
                                 /\ payment[x].status \in {"SUCCESS", "REFUNDED"}}
  IN  SumFunction([x \in rows |-> payment[x].amount - payment[x].refunded])

\* An invoice that no verified callback is still on its way to settling.
Settled(i) == \A p \in Procs : req[p].intx \/ i \notin req[p].todo
                               \/ req[p].op \notin {"callback", "reconcile"}

\* paid_total is the money on the invoice: what settle is for ("a refund and a
\* payment can never disagree about what the invoice is worth").
PaidTotalAgrees == \A i \in Invoices : Settled(i) => invoice[i].paidTotal = Held(i)

\* However the desks interleave, nobody is charged twice for one bill: the
\* receipts on an invoice never exceed what it asks for.
NeverOvercollected == \A i \in Invoices : Held(i) <= Payable(i, invoice[i])

\* `cancel` is refused while money is on the invoice, so a cancelled invoice
\* holds none, whichever of cancel and payment came first.
CancelledHoldsNoMoney ==
  \A i \in Invoices : invoice[i].status = "CANCELLED" => Held(i) = 0

\* The dues gate counts UNPAID, PARTIAL and OVERDUE invoices only: a bill that
\* is still owed must read as one of them.
DuesAreSeen ==
  \A i \in Invoices :
    /\ Due(i, invoice[i]) > 0
    /\ invoice[i].status \notin {"CANCELLED", "REFUNDED"}
    => invoice[i].status \in Outstanding

\* A late fine is charged once per overdue calendar month, however many fine
\* runs overlap with each other and with the settles.
FineOncePerMonth ==
  \A i \in Invoices : invoice[i].fine <=
    FineFlat * (IF Overdue(i, today) THEN today - DueOn[i] ELSE 0)

\* A refund that passed its checks is not turned away by the CHECK on its invoice.
RefundIsAccepted ==
  \A p \in Procs : req[p].op = "refund" /\ req[p].pc = "write" => Accepted(p)

\* Online money is SUCCESS only when the gateway itself says so: no callback,
\* no race between callbacks and no sweep makes it so.
OnlyVerifiedMoney ==
  \A x \in Payments :
    payment[x].ref # None /\ payment[x].status \in {"SUCCESS", "REFUNDED"}
    => gateway[payment[x].ref] = "SUCCESS"

\* The gateway's figure must match what was asked for, or nothing is credited.
CreditedAsAsked ==
  \A x \in Payments :
    payment[x].ref # None /\ payment[x].status = "SUCCESS"
    => bill[payment[x].ref].paid = bill[payment[x].ref].asked

\* A checkout over several invoices is verified for all of them or for none.
SessionIsOneVerdict ==
  \A x, y \in Payments :
    payment[x].ref # None /\ payment[x].ref = payment[y].ref
    => payment[x].status = payment[y].status

\* What was verified stays verified: a retried callback changes nothing.
VerifiedStays ==
  [][\A x \in Payments : payment[x].ref # None /\ payment[x].status = "SUCCESS"
                         => payment'[x].status \in {"SUCCESS", "REFUNDED"}]_vars

\* A session the gateway has decided does not stay open: its rows leave PENDING
\* for good, callback or no callback, however the callbacks and sweeps that asked
\* too early or got no clear answer interleave.  (Whether they end as the gateway
\* decided is another matter: an unclear answer closes the session, see below.)
DecidedIsClosed ==
  \A s \in Sessions :
    gateway[s] \notin {"unopened", "PENDING"} /\ RowsOf(s) # {}
      ~> [](\A x \in RowsOf(s) : payment[x].status # "PENDING")

\* "A lost callback is not a lost payment": once the gateway has the money, the
\* rows of the session end up SUCCESS, callback or no callback.
PaidOnline(s) == /\ gateway[s] = "SUCCESS"
                 /\ bill[s].paid = bill[s].asked
                 /\ RowsOf(s) # {}
LostCallbackIsRecovered ==
  \A s \in Sessions :
    PaidOnline(s) ~> \A x \in RowsOf(s) : payment[x].status = "SUCCESS"

\* "The callback trusts nothing in its body": a payment is marked as given up by
\* the payer only when the gateway says so.
NeverCancelledOnHearsay ==
  \A x \in Payments :
    payment[x].ref # None /\ payment[x].status = "CANCELLED"
    => gateway[payment[x].ref] = "CANCELLED"

\* Money that was verified is credited: every online payment that is SUCCESS
\* ends up in the paid total of its invoice, not only that of the first row.
Verified(x) == payment[x].ref # None /\ payment[x].status = "SUCCESS"
Credited(x) == \E i \in Invoices : /\ payment[x].inv = i
                                  /\ invoice[i].paidTotal >= payment[x].amount
VerifiedMoneyIsCredited == \A x \in Payments : Verified(x) ~> Credited(x)

\* ... and the ledger is told.
VerifiedMoneyIsAnnounced == \A x \in Payments : Verified(x) ~> x \in announced

\* The abstract account this module implements where nothing races: a basket is
\* credited in one step however many statements its transaction takes.
Account == INSTANCE InvoiceAccount WITH
  owed <- [i \in Invoices |-> Payable(i, invoice[i])],
  paid <- [i \in Invoices |-> invoice[i].paidTotal],
  closed <- {i \in Invoices : invoice[i].status = "CANCELLED"}
ImplementsAccount == Account!Spec
=============================================================================
