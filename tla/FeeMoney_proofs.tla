--------------------------- MODULE FeeMoney_proofs ---------------------------
(***************************************************************************)
(* Where the money of FeeLedger adds up, for any number of invoices and    *)
(* payments and any sums.                                                  *)
(*                                                                         *)
(* At the till (AtTheTill): any number of desks collect, cancel and run    *)
(* fines at once, and the receipt numbers come from one counter; or one    *)
(* desk does, and refunds in part as well, with as many counters as it     *)
(* likes.  The receipt number a collection draws first keeps the row of    *)
(* its counter locked until the commit, so at most one transaction has     *)
(* money in flight, and the three reads of its settle see one state of the *)
(* table: what it is about to write is what the invoice will hold once it  *)
(* commits (TransactionOK).  Collections of two different months do not    *)
(* exclude each other, and a refund draws no receipt number at all: with   *)
(* either, the paid total does go wrong (the run fee_refund_race), and     *)
(* the condition excludes them for that reason and no other.               *)
(*                                                                         *)
(* In an office of one clerk (OneClerk) nothing comes between what a       *)
(* request reads and what it writes; there the statuses are right as well, *)
(* and FeeLedger implements InvoiceAccount: the commit of a transaction is *)
(* the step of the account, everything before it a stutter.                *)
(***************************************************************************)
EXTENDS FeeLedger_proofs, Sums_proofs

-----------------------------------------------------------------------------
(* Money over the counter.  Two collections that draw receipts of the same *)
(* month take turns from the first receipt to the commit; a refund takes   *)
(* turns with nobody, so it is only safe where it is alone.                *)

AtTheTill ==
  /\ ~WholeRefunds
  /\ \A p \in Procs : Ops[p] \subseteq {"collect", "refund", "cancel", "fine"}
  /\ \A p, q \in Procs : p # q => /\ "refund" \notin Ops[p]
                                  /\ \A m, n \in Counters : m = n

Settling == {"sumSuccessful", "sumRefunded", "find", "write"}

PaymentOK(x) ==
  IF payment[x].status = "absent" THEN payment[x] = Absent
  ELSE /\ payment[x].status = "SUCCESS" /\ payment[x].inv \in Invoices
       /\ payment[x].refunded < payment[x].amount

\* Where a request at the till is, and what it still knows of its payment.
ProgressOK(p) ==
  LET r == req[p]
  IN  /\ r.op = "none" \/ r.op \in Ops[p]
      /\ r.pc \in {"idle", "insert", "refund", "commit", "announce", "cancel", "charge"}
                  \cup Settling
      /\ r.pc \in Settling \cup {"commit"} => r.intx
      /\ r.intx => /\ r.pc \in Settling \cup {"commit", "insert"}
                   /\ r.op \in {"collect", "refund"}
      /\ r.pc \in {"insert", "announce"} => r.op = "collect"
      /\ r.pc = "refund" => r.op = "refund"
      /\ r.pc \in Settling => r.todo # {}
      /\ r.op = "collect" /\ r.pc # "announce" =>
           r.counter \in Counters /\ \A i \in r.todo : r.alloc[i] > 0
      /\ r.op = "refund" =>
           /\ r.pc \in Settling \cup {"commit", "refund"}
           /\ r.sofar = payment[r.pay].refunded
           /\ r.amount > 0 /\ r.sofar + r.amount < payment[r.pay].amount
           /\ r.intx => \A i \in r.todo : i = payment[r.pay].inv

\* The invoices on which a transaction has moved money.
Touches(p, i) ==
  \/ \E x \in Hidden(p) : payment[x].inv = i
  \/ req[p].op = "refund" /\ req[p].intx /\ payment[req[p].pay].inv = i

OwnRefund(p, x) == IF InRefund(p, x) THEN req[p].amount ELSE 0

\* What an invoice will hold once the transaction of p commits.
HeldAfter(p, i) ==
  LET rows == {x \in VisibleTo(p) : payment[x].inv = i}
  IN  SumFunction([x \in rows |->
        payment[x].amount - (payment[x].refunded + OwnRefund(p, x))])

TransactionOK(p) ==
  LET r == req[p]
  IN  /\ \A i \in Invoices : r.wrote[i] # None =>
           /\ i \notin r.todo
           /\ r.wrote[i].paidTotal = HeldAfter(p, i)
           /\ r.wrote[i].paidTotal <= Payable(i, invoice[i])
      /\ \A i \in Invoices : Touches(p, i) =>
           r.wrote[i] # None \/ (r.pc \in Settling /\ i = Current(p))
      /\ r.pc \in {"sumRefunded", "find", "write"} =>
           sums[p].succ = SuccessfulSum(p, Current(p))
      /\ r.pc \in {"find", "write"} => sums[p].refd = RefundedSum(p, Current(p))

AccountOK(i) ==
  invoice[i].paidTotal = Held(i) /\ invoice[i].paidTotal <= Payable(i, invoice[i])

MoneyInv ==
  /\ sums \in [Procs -> [succ : Int, refd : Int]]
  /\ \A x \in Payments : PaymentOK(x)
  /\ \A p \in Procs : ProgressOK(p)
  /\ \A p \in Procs : req[p].intx => TransactionOK(p)
  /\ \A p, q \in Procs : req[p].intx /\ req[q].intx => p = q
  /\ \A i \in Invoices : AccountOK(i)

-----------------------------------------------------------------------------
(* Sums over the payments of an invoice. *)

\* While one transaction is open, it sees every row; without one, so does anyone.
LEMMA OneTransaction ==
  ASSUME MoneyInv, NEW p \in Procs, req[p].intx
  PROVE  /\ \A q \in Procs \ {p} : ~req[q].intx /\ Hidden(q) = {}
         /\ VisibleTo(p) = {x \in Payments : payment[x].status # "absent"}
         /\ Committed = VisibleTo(p) \ Hidden(p)
<1>1. \A q \in Procs \ {p} : ~req[q].intx
  BY DEF MoneyInv
<1>2. \A q \in Procs \ {p} : Hidden(q) = {}
  BY <1>1 DEF Hidden
<1> QED
  BY <1>1, <1>2 DEF VisibleTo, Committed

\* A refund in part never empties its payment.
LEMMA NothingEmpties ==
  ASSUME MoneyInv, VerifiedInv, NEW p \in Procs, NEW x \in Payments
  PROVE  ~Empties(p, x)
<1> SUFFICES ASSUME InRefund(p, x) PROVE ~(req[p].sofar + req[p].amount >= payment[x].amount)
  BY DEF Empties
<1>1. req[p].sofar + req[p].amount < payment[x].amount
  BY DEF MoneyInv, ProgressOK, InRefund
<1>2. req[p] \in Request /\ payment[x] \in PaymentRow
  BY DEF VerifiedInv, TypeOK
<1>3. req[p].sofar \in Nat /\ req[p].amount \in Nat /\ payment[x].amount \in Nat
  BY <1>2 DEF Request, PaymentRow
<1> QED
  BY <1>1, <1>3

LEMMA RowTypes ==
  ASSUME VerifiedInv, NEW x \in Payments, NEW p \in Procs
  PROVE  /\ payment[x].amount \in Nat /\ payment[x].refunded \in Nat
         /\ OwnRefund(p, x) \in Nat /\ req[p].amount \in Nat
<1>1. req[p] \in Request /\ payment[x] \in PaymentRow
  BY DEF VerifiedInv, TypeOK
<1> QED
  BY <1>1 DEF OwnRefund, Request, PaymentRow

\* What settle works out is what the invoice will hold after the commit.
LEMMA NetIsHeldAfter ==
  ASSUME MoneyInv, VerifiedInv, NEW p \in Procs, NEW i
  PROVE  /\ SuccessfulSum(p, i) \in Int /\ RefundedSum(p, i) \in Int
         /\ SuccessfulSum(p, i) - RefundedSum(p, i) = HeldAfter(p, i)
<1> DEFINE R == {x \in VisibleTo(p) : payment[x].inv = i}
           f == [x \in R |-> payment[x].amount]
           e == [x \in R |-> payment[x].refunded + OwnRefund(p, x)]
           d == [x \in R |-> payment[x].amount - (payment[x].refunded + OwnRefund(p, x))]
<1>1. R \in SUBSET Payments /\ IsFiniteSet(R)
  BY FeeAssumption, FS_Subset DEF FeeAssumption, VisibleTo
<1>2. {x \in VisibleTo(p) : /\ payment[x].inv = i /\ payment[x].status = "SUCCESS"
                            /\ ~Empties(p, x)} = R
  BY NothingEmpties DEF VisibleTo, MoneyInv, PaymentOK
<1>3. SuccessfulSum(p, i) = SumFunctionOnSet(f, R)
  BY <1>2 DEF SuccessfulSum, SumFunction
<1>4. RefundedSum(p, i) = SumFunctionOnSet(e, R)
  BY DEF RefundedSum, SumFunction, OwnRefund
<1>5. HeldAfter(p, i) = SumFunctionOnSet(d, R)
  BY DEF HeldAfter, SumFunction
<1>6. \A x \in R : f[x] \in Int /\ e[x] \in Int /\ d[x] = f[x] - e[x]
  BY <1>1, RowTypes
<1> HIDE DEF R, f, e, d
<1>7. SumFunctionOnSet(d, R) = SumFunctionOnSet(f, R) - SumFunctionOnSet(e, R)
  BY <1>1, <1>6, SumOfDifferences
<1>8. SumFunctionOnSet(f, R) \in Int /\ SumFunctionOnSet(e, R) \in Int
  BY <1>1, <1>6, SumIsInteger
<1> QED
  BY <1>3, <1>4, <1>5, <1>7, <1>8

\* An invoice the transaction has not touched holds what it held.
LEMMA UntouchedHolds ==
  ASSUME MoneyInv, VerifiedInv, NEW p \in Procs, req[p].intx, NEW i, ~Touches(p, i)
  PROVE  HeldAfter(p, i) = Held(i)
<1> DEFINE R == {x \in VisibleTo(p) : payment[x].inv = i}
           C == {x \in Committed : /\ payment[x].inv = i
                                   /\ payment[x].status \in {"SUCCESS", "REFUNDED"}}
<1>1. R = C
  BY OneTransaction DEF VisibleTo, MoneyInv, PaymentOK, Touches
<1>2. \A x \in R : OwnRefund(p, x) = 0
  BY DEF OwnRefund, InRefund, Touches
<1>3. \A x \in R : payment[x].refunded \in Nat
  BY RowTypes DEF VisibleTo
<1>4. [x \in R |-> payment[x].amount - (payment[x].refunded + OwnRefund(p, x))]
        = [x \in C |-> payment[x].amount - payment[x].refunded]
  BY <1>1, <1>2, <1>3
<1> QED
  BY <1>4 DEF HeldAfter, Held

\* What is left of each payment, and so of each invoice, is not negative.
LEMMA HeldAfterIsNatural ==
  ASSUME MoneyInv, VerifiedInv, NEW p \in Procs, NEW i
  PROVE  HeldAfter(p, i) \in Nat /\ Held(i) \in Nat
<1> DEFINE R == {x \in VisibleTo(p) : payment[x].inv = i}
           C == {x \in Committed : /\ payment[x].inv = i
                                   /\ payment[x].status \in {"SUCCESS", "REFUNDED"}}
           d == [x \in R |-> payment[x].amount - (payment[x].refunded + OwnRefund(p, x))]
           h == [x \in C |-> payment[x].amount - payment[x].refunded]
<1>1. /\ R \in SUBSET Payments /\ IsFiniteSet(R)
      /\ C \in SUBSET Payments /\ IsFiniteSet(C)
  BY FeeAssumption, FS_Subset DEF FeeAssumption, VisibleTo, Committed
<1>2. \A x \in R : d[x] \in Nat
  <2> SUFFICES ASSUME NEW x \in R PROVE payment[x].refunded + OwnRefund(p, x) <= payment[x].amount
    BY <1>1, RowTypes
  <2>1. /\ payment[x].amount \in Nat /\ payment[x].refunded \in Nat
        /\ OwnRefund(p, x) \in Nat /\ req[p].amount \in Nat
    BY <1>1, RowTypes
  <2>2. payment[x].refunded < payment[x].amount
    BY <1>1 DEF VisibleTo, MoneyInv, PaymentOK
  <2>3. CASE InRefund(p, x)
    BY <2>1, <2>3 DEF MoneyInv, ProgressOK, InRefund, OwnRefund
  <2>4. CASE ~InRefund(p, x)
    BY <2>1, <2>2, <2>4 DEF OwnRefund
  <2> QED
    BY <2>3, <2>4
<1>3. \A x \in C : h[x] \in Nat
  <2> SUFFICES ASSUME NEW x \in C PROVE payment[x].refunded <= payment[x].amount
    BY <1>1, RowTypes
  <2>1. payment[x].amount \in Nat /\ payment[x].refunded \in Nat
    BY <1>1, RowTypes
  <2>2. payment[x].refunded < payment[x].amount
    BY <1>1 DEF Committed, MoneyInv, PaymentOK
  <2> QED
    BY <2>1, <2>2
<1>4. HeldAfter(p, i) = SumFunctionOnSet(d, R) /\ Held(i) = SumFunctionOnSet(h, C)
  BY DEF HeldAfter, Held, SumFunction
<1> HIDE DEF R, C, d, h
<1> QED
  BY <1>1, <1>2, <1>3, <1>4, SumIsNatural

\* A collection only adds to what an invoice holds.
LEMMA CollectionAdds ==
  ASSUME MoneyInv, VerifiedInv, NEW p \in Procs, req[p].intx, req[p].op = "collect", NEW i
  PROVE  Held(i) <= HeldAfter(p, i)
<1> DEFINE R == {x \in VisibleTo(p) : payment[x].inv = i}
           C == {x \in Committed : /\ payment[x].inv = i
                                   /\ payment[x].status \in {"SUCCESS", "REFUNDED"}}
           d == [x \in R |-> payment[x].amount - (payment[x].refunded + OwnRefund(p, x))]
           h == [x \in C |-> payment[x].amount - payment[x].refunded]
<1>1. R \in SUBSET Payments /\ IsFiniteSet(R) /\ C \in SUBSET R /\ IsFiniteSet(C)
  BY FeeAssumption, FS_Subset, OneTransaction DEF FeeAssumption, VisibleTo
<1>2. \A x \in R : d[x] = payment[x].amount - payment[x].refunded
  BY <1>1, RowTypes DEF OwnRefund, InRefund
<1>3. \A x \in R : d[x] \in Nat
  <2> SUFFICES ASSUME NEW x \in R PROVE payment[x].amount - payment[x].refunded \in Nat
    BY <1>2
  <2>1. payment[x].amount \in Nat /\ payment[x].refunded \in Nat
    BY <1>1, RowTypes
  <2>2. payment[x].refunded < payment[x].amount
    BY <1>1 DEF VisibleTo, MoneyInv, PaymentOK
  <2> QED
    BY <2>1, <2>2
<1>4. \A x \in C : h[x] = d[x]
  BY <1>1, <1>2
<1>5. HeldAfter(p, i) = SumFunctionOnSet(d, R) /\ Held(i) = SumFunctionOnSet(h, C)
  BY DEF HeldAfter, Held, SumFunction
<1> HIDE DEF R, C, d, h
<1>6. SumFunctionOnSet(h, C) = SumFunctionOnSet(d, C)
  BY <1>1, <1>4, SumCongruence
<1>7. \A x \in C : d[x] \in Int
  BY <1>1, <1>3
<1>8. SumFunctionOnSet(d, C) <= SumFunctionOnSet(d, R)
  BY <1>1, <1>3, <1>7, SumGrows
<1> QED
  BY <1>5, <1>6, <1>8

\* A refund takes its amount out of the invoice of its payment, no more.
LEMMA RefundTakes ==
  ASSUME MoneyInv, VerifiedInv, NEW p \in Procs, req[p].intx, req[p].op = "refund"
  PROVE  LET i == payment[req[p].pay].inv
         IN  /\ i \in Invoices /\ i # None
             /\ HeldAfter(p, i) = Held(i) - req[p].amount
             /\ req[p].amount \in Nat \ {0}
<1> DEFINE x == req[p].pay
           i == payment[x].inv
           R == {y \in VisibleTo(p) : payment[y].inv = i}
           C == {y \in Committed : /\ payment[y].inv = i
                                   /\ payment[y].status \in {"SUCCESS", "REFUNDED"}}
           d == [y \in R |-> payment[y].amount - (payment[y].refunded + OwnRefund(p, y))]
           h == [y \in C |-> payment[y].amount - payment[y].refunded]
<1>1. x \in Payments /\ payment[x].status # "absent" /\ i \in Invoices /\ i # None
  <2>1. x \in Payments \cup {None} /\ x # None
    BY DEF VerifiedInv, TypeOK, Request, HoldsOK
  <2> QED
    BY <2>1, FeeAssumption DEF FeeAssumption, VerifiedInv, HoldsOK, RowOK
<1>2. R = C /\ x \in C
  BY <1>1, OneTransaction DEF VisibleTo, MoneyInv, PaymentOK, Hidden
<1>3. R \in SUBSET Payments /\ IsFiniteSet(R)
  BY FeeAssumption, FS_Subset DEF FeeAssumption, VisibleTo
<1>4. \A y \in R : /\ payment[y].amount \in Nat /\ payment[y].refunded \in Nat
                   /\ OwnRefund(p, y) = IF y = x THEN req[p].amount ELSE 0
  BY <1>3, RowTypes DEF OwnRefund, InRefund
<1>5. req[p].amount \in Nat \ {0}
  BY <1>1, RowTypes DEF MoneyInv, ProgressOK
<1>6. \A y \in R : h[y] \in Int /\ d[y] \in Int
  BY <1>2, <1>4, <1>5
<1>7. \A y \in R : y # x => d[y] = h[y]
  BY <1>2, <1>4
<1>8. d[x] = h[x] - req[p].amount
  BY <1>2, <1>4, <1>5
<1>9. HeldAfter(p, i) = SumFunctionOnSet(d, R) /\ Held(i) = SumFunctionOnSet(h, R)
  BY <1>2 DEF HeldAfter, Held, SumFunction
<1>10. SumFunctionOnSet(d, R) = SumFunctionOnSet(h, R) - h[x] + d[x]
  <2> HIDE DEF R, C, d, h, x
  <2> QED
    BY <1>2, <1>3, <1>6, <1>7, SumChanges
<1>11. SumFunctionOnSet(h, R) \in Int /\ h[x] \in Int
  <2>1. h[x] \in Int
    BY <1>2, <1>6
  <2> HIDE DEF R, C, d, h, x
  <2> QED
    BY <1>3, <1>6, <2>1, SumIsInteger
<1> HIDE DEF R, C, d, h
<1>12. HeldAfter(p, i) = Held(i) - req[p].amount
  BY <1>5, <1>8, <1>9, <1>10, <1>11
<1> QED
  BY <1>1, <1>5, <1>12

-----------------------------------------------------------------------------
(* Steps at the till. *)

LEMMA OtherProgress ==
  ASSUME AtTheTill, MoneyInv, NEW p \in Procs, NEW q \in Procs \ {p}, req'[q] = req[q]
  PROVE  ProgressOK(q)'
<1>1. ProgressOK(q)
  BY DEF MoneyInv
<1>2. req[q].op # "refund"
  BY <1>1 DEF AtTheTill, ProgressOK
<1> QED
  BY <1>1, <1>2 DEF ProgressOK

\* A request with no open transaction that leaves the payments, and the money of
\* every invoice, as they are.
LEMMA NoMoneyMoves ==
  ASSUME AtTheTill, VerifiedInv, MoneyInv, NEW p \in Procs,
         UNCHANGED payment,
         sums' \in [Procs -> [succ : Int, refd : Int]],
         \A q \in Procs \ {p} : req'[q] = req[q] /\ sums'[q] = sums[q],
         ~req[p].intx, ~req'[p].intx, ProgressOK(p)',
         \A i \in Invoices :
           /\ invoice'[i].paidTotal = invoice[i].paidTotal
           /\ invoice'[i].fine \in Nat /\ invoice[i].fine <= invoice'[i].fine
  PROVE  MoneyInv'
<1>1. \A q \in Procs : Hidden(q)' = Hidden(q)
  BY DEF Hidden
<1>2. /\ \A q \in Procs : VisibleTo(q)' = VisibleTo(q)
      /\ Committed' = Committed
  BY <1>1 DEF VisibleTo, Committed
<1>3. \A i : Held(i)' = Held(i)
  BY <1>2 DEF Held
<1>4. \A i \in Invoices : /\ Payable(i, invoice[i]) \in Nat
                          /\ Payable(i, invoice'[i]) \in Nat
                          /\ Payable(i, invoice[i]) <= Payable(i, invoice'[i])
                          /\ invoice[i].paidTotal \in Nat
  BY FeeAssumption DEF FeeAssumption, Payable, VerifiedInv, TypeOK, InvoiceRow
<1>5. \A i \in Invoices : AccountOK(i)'
  BY <1>3, <1>4 DEF MoneyInv, AccountOK, Payable
<1>6. ASSUME NEW q \in Procs \ {p}, req[q].intx PROVE TransactionOK(q)'
  <2>1. req'[q] = req[q] /\ sums'[q] = sums[q] /\ TransactionOK(q)
    BY <1>6 DEF MoneyInv
  <2>2. Current(q)' = Current(q)
    BY <2>1 DEF Current, Oldest
  <2>3. \A x : InRefund(q, x)' = InRefund(q, x) /\ Empties(q, x)' = Empties(q, x)
    BY <2>1 DEF InRefund, Empties
  <2>4. \A i : /\ HeldAfter(q, i)' = HeldAfter(q, i)
               /\ SuccessfulSum(q, i)' = SuccessfulSum(q, i)
               /\ RefundedSum(q, i)' = RefundedSum(q, i)
    BY <1>2, <2>1, <2>3 DEF HeldAfter, SuccessfulSum, RefundedSum, OwnRefund
  <2>5. \A i : Touches(q, i)' = Touches(q, i)
    BY <1>1, <2>1 DEF Touches
  <2>6. \A i \in Invoices : req[q].wrote[i] # None =>
          req[q].wrote[i].paidTotal <= Payable(i, invoice'[i])
    <3> SUFFICES ASSUME NEW i \in Invoices, req[q].wrote[i] # None
                 PROVE  req[q].wrote[i].paidTotal <= Payable(i, invoice'[i])
      OBVIOUS
    <3>1. req[q].wrote[i] \in InvoiceRow
      BY DEF VerifiedInv, TypeOK, Request
    <3>2. req[q].wrote[i].paidTotal \in Nat
      BY <3>1 DEF InvoiceRow
    <3>3. req[q].wrote[i].paidTotal <= Payable(i, invoice[i])
      BY <2>1 DEF TransactionOK
    <3> QED
      BY <1>4, <3>2, <3>3
  <2> QED
    BY <2>1, <2>2, <2>4, <2>5, <2>6 DEF TransactionOK, Payable
<1>7. \A q \in Procs \ {p} : ProgressOK(q)'
  BY OtherProgress
<1> QED
  BY <1>5, <1>6, <1>7 DEF MoneyInv, PaymentOK

LEMMA IdleProgress ==
  ASSUME NEW p \in Procs, req'[p] = Idle PROVE ProgressOK(p)'
BY DEF Idle, ProgressOK, Settling

\* A request outside a transaction ends.
LEMMA RequestEnds ==
  ASSUME AtTheTill, VerifiedInv, MoneyInv, NEW p \in Procs,
         req' = [req EXCEPT ![p] = Idle], ~req[p].intx, UNCHANGED payment,
         sums' = sums \/ sums' = [sums EXCEPT ![p] = NoSums],
         \A i \in Invoices : /\ invoice'[i].paidTotal = invoice[i].paidTotal
                             /\ invoice'[i].fine = invoice[i].fine
  PROVE  MoneyInv'
<1>1. req'[p] = Idle /\ \A q \in Procs \ {p} : req'[q] = req[q]
  BY DEF VerifiedInv, TypeOK
<1>2. /\ sums' \in [Procs -> [succ : Int, refd : Int]]
      /\ \A q \in Procs \ {p} : sums'[q] = sums[q]
  BY DEF MoneyInv, NoSums
<1>3. \A i \in Invoices : invoice[i].fine \in Nat
  BY DEF VerifiedInv, TypeOK, InvoiceRow
<1> QED
  BY <1>1, <1>2, <1>3, IdleFields, IdleProgress, NoMoneyMoves

\* The start of a request.
LEMMA RequestStarts ==
  ASSUME AtTheTill, VerifiedInv, FinesInv, MoneyInv, NEW p \in Procs, NEW r,
         req' = [req EXCEPT ![p] = r], req[p].pc = "idle", ~r.intx,
         UNCHANGED <<payment, invoice, sums>>, ProgressOK(p)'
  PROVE  MoneyInv'
<1>1. req'[p] = r /\ \A q \in Procs \ {p} : req'[q] = req[q]
  BY DEF VerifiedInv, TypeOK
<1>2. ~req[p].intx
  BY IdleFields DEF FinesInv
<1>3. \A i \in Invoices : invoice[i].fine \in Nat
  BY DEF VerifiedInv, TypeOK, InvoiceRow
<1> QED
  BY <1>1, <1>2, <1>3, NoMoneyMoves DEF MoneyInv

LEMMA BeginMoney ==
  ASSUME AtTheTill, VerifiedInv, FinesInv, MoneyInv, NEW p \in Procs, Begin(p)
  PROVE  MoneyInv'
<1>1. req \in [Procs -> Request]
  BY DEF VerifiedInv, TypeOK
<1>2. CASE Collect(p)
  <2>1. PICK amount \in 1..MaxAmount, c \in Counters :
          \E alloc \in [Invoices -> 0..amount] :
            req' = [req EXCEPT ![p] = Collecting(c, alloc)]
    BY <1>2, Zenon DEF Collect
  <2>2. PICK alloc \in [Invoices -> 0..amount] :
          req' = [req EXCEPT ![p] = Collecting(c, alloc)]
    BY <2>1
  <2>3. req'[p] = Collecting(c, alloc)
    BY <1>1, <2>2
  <2>4. /\ req[p].pc = "idle" /\ "collect" \in Ops[p] /\ UNCHANGED <<payment, invoice, sums>>
    BY <1>2 DEF Collect, Starts
  <2>5. ProgressOK(p)'
    BY <2>3, <2>4 DEF ProgressOK, Collecting, Idle, Settling
  <2>6. Collecting(c, alloc).intx = FALSE
    BY DEF Collecting, Idle
  <2> QED
    BY <2>2, <2>4, <2>5, <2>6, RequestStarts
<1>3. CASE Refund(p)
  <2>1. PICK x \in Committed, amount \in 1..MaxAmount :
          /\ payment[x].refunded + amount < payment[x].amount
          /\ req' = [req EXCEPT ![p] =
               [Idle EXCEPT !.op = "refund", !.pc = "refund", !.pay = x,
                            !.amount = amount, !.sofar = payment[x].refunded]]
    BY <1>3 DEF Refund, AtTheTill
  <2> DEFINE r == [Idle EXCEPT !.op = "refund", !.pc = "refund", !.pay = x,
                            !.amount = amount, !.sofar = payment[x].refunded]
  <2>2. /\ req[p].pc = "idle" /\ "refund" \in Ops[p] /\ UNCHANGED <<payment, invoice, sums>>
    BY <1>3 DEF Refund, Starts
  <2>3. /\ r.op = "refund" /\ r.pc = "refund" /\ r.pay = x /\ r.amount = amount
        /\ r.sofar = payment[x].refunded /\ r.intx = FALSE /\ r.todo = {}
    BY DEF Idle
  <2> HIDE DEF r
  <2>4. req'[p] = r
    BY <1>1, <2>1 DEF r
  <2>5. amount > 0
    OBVIOUS
  <2>6. ProgressOK(p)'
    BY <2>1, <2>2, <2>3, <2>4, <2>5 DEF ProgressOK, Settling
  <2> QED
    BY <2>1, <2>2, <2>3, <2>6, RequestStarts DEF r
<1>4. CASE Cancel(p)
  <2>1. PICK i \in Invoices :
          req' = [req EXCEPT ![p] = [Idle EXCEPT !.op = "cancel", !.pc = "cancel",
                                                 !.todo = {i}]]
    BY <1>4 DEF Cancel
  <2> DEFINE r == [Idle EXCEPT !.op = "cancel", !.pc = "cancel", !.todo = {i}]
  <2>2. /\ req[p].pc = "idle" /\ "cancel" \in Ops[p] /\ UNCHANGED <<payment, invoice, sums>>
    BY <1>4 DEF Cancel, Starts
  <2>3. r.op = "cancel" /\ r.pc = "cancel" /\ r.intx = FALSE
    BY DEF Idle
  <2> HIDE DEF r
  <2>4. req'[p] = r
    BY <1>1, <2>1 DEF r
  <2>5. ProgressOK(p)'
    BY <2>2, <2>3, <2>4 DEF ProgressOK, Settling
  <2> QED
    BY <2>1, <2>2, <2>3, <2>5, RequestStarts DEF r
<1>5. CASE FineRun(p)
  <2>1. PICK S \in SUBSET Invoices :
        req' = [req EXCEPT ![p] =
          [Idle EXCEPT !.op = "fine", !.pc = "charge", !.todo = S,
             !.seen = [i \in Invoices |-> IF i \in S THEN invoice[i] ELSE None]]]
    BY <1>5 DEF FineRun
  <2> DEFINE r == [Idle EXCEPT !.op = "fine", !.pc = "charge", !.todo = S,
             !.seen = [i \in Invoices |-> IF i \in S THEN invoice[i] ELSE None]]
  <2>2. /\ req[p].pc = "idle" /\ "fine" \in Ops[p] /\ UNCHANGED <<payment, invoice, sums>>
    BY <1>5 DEF FineRun, Starts
  <2>3. r.op = "fine" /\ r.pc = "charge" /\ r.intx = FALSE
    BY DEF Idle
  <2> HIDE DEF r
  <2>4. req'[p] = r
    BY <1>1, <2>1 DEF r
  <2>5. ProgressOK(p)'
    BY <2>2, <2>3, <2>4 DEF ProgressOK, Settling
  <2> QED
    BY <2>1, <2>2, <2>3, <2>5, RequestStarts DEF r
<1>6. ~Initiate(p) /\ ~HandleCallback(p) /\ ~Reconcile(p)
  <2>1. \A op \in {"initiate", "callback", "reconcile", "sweep"} : ~Starts(p, op)
    BY DEF AtTheTill, Starts
  <2> QED
    BY <2>1 DEF Initiate, HandleCallback, Reconcile
<1> QED
  BY <1>2, <1>3, <1>4, <1>5, <1>6 DEF Begin

\* What a transaction that goes on without touching a payment sees.
LEMMA ViewKept ==
  ASSUME NEW p \in Procs, UNCHANGED payment, GoesOn(p),
         req'[p].intx = req[p].intx, req'[p].rows = req[p].rows
  PROVE  /\ Committed' = Committed /\ Hidden(p)' = Hidden(p)
         /\ \A i : /\ Held(i)' = Held(i)
                   /\ HeldAfter(p, i)' = HeldAfter(p, i)
                   /\ SuccessfulSum(p, i)' = SuccessfulSum(p, i)
                   /\ RefundedSum(p, i)' = RefundedSum(p, i)
                   /\ Touches(p, i)' = Touches(p, i)
<1>1. \A q \in Procs : Hidden(q)' = Hidden(q)
  BY DEF Hidden, GoesOn
<1>2. Committed' = Committed /\ VisibleTo(p)' = VisibleTo(p)
  BY <1>1 DEF Committed, VisibleTo
<1>3. \A x : InRefund(p, x)' = InRefund(p, x) /\ Empties(p, x)' = Empties(p, x)
             /\ OwnRefund(p, x)' = OwnRefund(p, x)
  BY DEF InRefund, Empties, OwnRefund, GoesOn
<1>4. ASSUME NEW i
      PROVE  /\ Held(i)' = Held(i) /\ HeldAfter(p, i)' = HeldAfter(p, i)
             /\ SuccessfulSum(p, i)' = SuccessfulSum(p, i)
             /\ RefundedSum(p, i)' = RefundedSum(p, i)
  <2>1. Held(i)' = Held(i)
    BY <1>2 DEF Held
  <2>2. HeldAfter(p, i)' = HeldAfter(p, i)
    BY <1>2, <1>3 DEF HeldAfter
  <2>3. SuccessfulSum(p, i)' = SuccessfulSum(p, i)
    BY <1>2, <1>3 DEF SuccessfulSum
  <2>4. RefundedSum(p, i)' = RefundedSum(p, i)
    BY <1>2, <1>3 DEF RefundedSum, GoesOn
  <2> QED
    BY <2>1, <2>2, <2>3, <2>4
<1>5. \A i : Touches(p, i)' = Touches(p, i)
  BY <1>1 DEF Touches, GoesOn
<1> QED
  BY <1>1, <1>2, <1>4, <1>5

\* A step of the one transaction that leaves the invoices and the receipts of the
\* others as they are.
LEMMA TransactionGoesOn ==
  ASSUME AtTheTill, MoneyInv, NEW p \in Procs,
         \A q \in Procs \ {p} : req'[q] = req[q] /\ ~req[q].intx,
         sums' \in [Procs -> [succ : Int, refd : Int]],
         \A x \in Payments : PaymentOK(x)',
         ProgressOK(p)', TransactionOK(p)',
         UNCHANGED invoice, \A i \in Invoices : Held(i)' = Held(i)
  PROVE  MoneyInv'
<1>1. \A q \in Procs \ {p} : ProgressOK(q)'
  BY OtherProgress
<1>2. \A i \in Invoices : AccountOK(i)'
  BY DEF MoneyInv, AccountOK, Payable
<1> QED
  BY <1>1, <1>2 DEF MoneyInv

LEMMA InsertPaymentMoney ==
  ASSUME AtTheTill, VerifiedInv, FinesInv, MoneyInv, NEW p \in Procs, InsertPayment(p)
  PROVE  MoneyInv'
<1> DEFINE i == Current(p)
<1>1. PICK x \in Payments : Inserts(p, x)
  BY InsertPaymentEffect
<1>2. /\ req[p].pc = "insert" /\ req[p].op = "collect" /\ req[p] \in Request
      /\ req[p].counter \in Counters /\ CounterFree(p, req[p].counter)
      /\ req[p].todo # {} /\ req[p].todo \subseteq Invoices
      /\ ~req[p].intx => req[p].rows = {}
  <2>1. req[p].pc = "insert" /\ CounterFree(p, req[p].counter)
    BY DEF InsertPayment
  <2>2. req[p] \in Request /\ req[p].todo \subseteq Invoices
    BY DEF VerifiedInv, TypeOK, Request
  <2>3. req[p].op = "collect" /\ req[p].counter \in Counters
    BY <2>1 DEF MoneyInv, ProgressOK
  <2>4. req[p].todo # {} /\ (~req[p].intx => req[p].rows = {})
    BY <2>1 DEF VerifiedInv, CarriesOK
  <2> QED
    BY <2>1, <2>2, <2>3, <2>4
<1>3. i \in req[p].todo /\ i \in Invoices
  BY <1>2, OldestIsMember DEF Current
<1>4. \A q \in Procs \ {p} : ~req[q].intx
  <2> SUFFICES ASSUME NEW q \in Procs \ {p}, req[q].intx PROVE FALSE
    OBVIOUS
  <2>1. req[q].op = "collect" /\ req[q].pc # "announce"
    BY DEF MoneyInv, ProgressOK, AtTheTill, Settling
  <2>2. req[q].counter \in Counters
    BY <2>1 DEF MoneyInv, ProgressOK
  <2>3. req[q].counter = req[p].counter
    BY <1>2, <2>2 DEF AtTheTill
  <2> QED
    BY <1>2, <2>3 DEF CounterFree
<1>5. /\ payment[x].status = "absent"
      /\ \A y \in Payments \ {x} : payment'[y] = payment[y]
      /\ payment'[x].status = "SUCCESS" /\ payment'[x].inv = i
      /\ payment'[x].amount = req[p].alloc[i] /\ payment'[x].refunded = 0
  BY <1>1 DEF Inserts, Absent
<1>6. /\ \A q \in Procs \ {p} : req'[q] = req[q]
      /\ req'[p].op = "collect" /\ req'[p].intx /\ req'[p].pc = "sumSuccessful"
      /\ req'[p].rows = req[p].rows \cup {x}
      /\ req'[p].todo = req[p].todo /\ req'[p].wrote = req[p].wrote
      /\ req'[p].counter = req[p].counter /\ req'[p].alloc = req[p].alloc
      /\ UNCHANGED <<invoice, sums>>
  BY <1>1, <1>2 DEF Inserts, GoesOn
<1>7. \A y \in Payments : PaymentOK(y)'
  <2>1. req[p].alloc[i] > 0
    BY <1>2, <1>3 DEF MoneyInv, ProgressOK
  <2>2. PaymentOK(x)'
    BY <1>3, <1>5, <2>1 DEF PaymentOK
  <2>3. \A y \in Payments \ {x} : PaymentOK(y)'
    BY <1>5 DEF MoneyInv, PaymentOK
  <2> QED
    BY <2>2, <2>3
<1>8. /\ Hidden(p)' = Hidden(p) \cup {x}
      /\ \A q \in Procs \ {p} : Hidden(q) = {} /\ Hidden(q)' = {}
  BY <1>2, <1>4, <1>6 DEF Hidden
<1>9. /\ Committed' = Committed /\ x \notin Committed
      /\ VisibleTo(p)' = VisibleTo(p) \cup {x} /\ x \notin VisibleTo(p)
  BY <1>5, <1>8 DEF Committed, VisibleTo
<1>10. \A j \in Invoices : Held(j)' = Held(j)
  <2> SUFFICES ASSUME NEW j \in Invoices PROVE Held(j)' = Held(j)
    OBVIOUS
  <2>1. \A y \in Committed : payment'[y] = payment[y]
    BY <1>5, <1>9 DEF Committed
  <2> QED
    BY <1>9, <2>1 DEF Held
<1>11. ASSUME NEW j \in Invoices \ {i} PROVE HeldAfter(p, j)' = HeldAfter(p, j)
  <2>1. /\ \A y \in VisibleTo(p) : payment'[y] = payment[y]
        /\ \A y : ~InRefund(p, y) /\ ~InRefund(p, y)'
    BY <1>2, <1>5, <1>6, <1>9 DEF VisibleTo, InRefund
  <2>2. {y \in VisibleTo(p) : payment[y].inv = j}'
          = {y \in VisibleTo(p) : payment[y].inv = j}
    BY <1>5, <1>9, <2>1
  <2> QED
    BY <2>1, <2>2 DEF HeldAfter, OwnRefund, VisibleTo
<1>12. ProgressOK(p)'
  BY <1>2, <1>6 DEF MoneyInv, ProgressOK, Settling
<1>13. Current(p)' = i
  BY <1>6 DEF Current, Oldest
<1>14. TransactionOK(p)'
  <2>1. ASSUME NEW j \in Invoices, req[p].wrote[j] # None
        PROVE  /\ j \notin req[p].todo
               /\ req[p].wrote[j].paidTotal = HeldAfter(p, j)'
               /\ req[p].wrote[j].paidTotal <= Payable(j, invoice[j])
    <3>1. TransactionOK(p)
      BY <2>1 DEF MoneyInv, FinesInv
    <3> QED
      BY <1>3, <1>11, <2>1, <3>1 DEF TransactionOK
  <2>2. ASSUME NEW j \in Invoices, Touches(p, j)'
        PROVE  req[p].wrote[j] # None \/ j = i
    <3>1. PICK y \in Hidden(p) \cup {x} : payment'[y].inv = j
      BY <1>6, <1>8, <2>2 DEF Touches
    <3>2. CASE y = x
      BY <1>5, <3>1, <3>2
    <3>3. CASE y # x
      <4>1. y \in Hidden(p) /\ y \in Payments
        BY <1>2, <3>1, <3>3 DEF Hidden, Request
      <4>2. Touches(p, j) /\ req[p].intx
        BY <1>5, <3>1, <3>3, <4>1 DEF Touches, Hidden
      <4> QED
        BY <1>2, <4>2 DEF MoneyInv, TransactionOK, Settling
    <3> QED
      BY <3>2, <3>3
  <2> QED
    BY <1>6, <1>13, <2>1, <2>2 DEF TransactionOK, Settling, Payable
<1> QED
  BY <1>4, <1>6, <1>7, <1>10, <1>12, <1>14, TransactionGoesOn DEF MoneyInv

LEMMA InsertRefundMoney ==
  ASSUME AtTheTill, VerifiedInv, FinesInv, MoneyInv, NEW p \in Procs, InsertRefund(p)
  PROVE  MoneyInv'
<1> DEFINE i == payment[req[p].pay].inv
<1>1. Opens(p) /\ req[p].pc = "refund"
  BY InsertRefundEffect DEF InsertRefund
<1>2. ProgressOK(p) /\ req[p].op = "refund" /\ ~req[p].intx
  BY <1>1 DEF MoneyInv, ProgressOK, Settling
<1>3. \A q \in Procs : q = p
  BY <1>2 DEF AtTheTill, ProgressOK
<1>4. i \in Invoices
  BY <1>2 DEF VerifiedInv, TypeOK, Request, HoldsOK, RowOK
<1>5. /\ \A q \in Procs : Hidden(q) = {} /\ Hidden(q)' = {}
      /\ UNCHANGED <<payment, invoice, sums>>
      /\ req'[p].op = "refund" /\ req'[p].intx /\ req'[p].pc = "sumSuccessful"
      /\ req'[p].todo = {i} /\ req'[p].wrote = req[p].wrote
      /\ req'[p].pay = req[p].pay /\ req'[p].sofar = req[p].sofar
      /\ req'[p].amount = req[p].amount
  BY <1>1, <1>2, <1>3 DEF Opens, GoesOn, Hidden
<1>6. Committed' = Committed
  BY <1>5 DEF Committed
<1>7. \A j \in Invoices : Held(j)' = Held(j)
  BY <1>5, <1>6 DEF Held
<1>8. Current(p)' = i
  <2>1. Oldest({i}) = i
    BY <1>4, OldestIsMember
  <2> QED
    BY <1>5, <2>1 DEF Current, Oldest
<1>9. \A j \in Invoices : req[p].wrote[j] = None
  BY <1>2 DEF FinesInv
<1>10. \A j \in Invoices : Touches(p, j)' => j = i
  BY <1>5 DEF Touches
<1>11. TransactionOK(p)'
  BY <1>5, <1>8, <1>9, <1>10 DEF TransactionOK, Settling
<1>12. ProgressOK(p)'
  BY <1>2, <1>5 DEF ProgressOK, Settling
<1> QED
  BY <1>3, <1>5, <1>7, <1>11, <1>12, TransactionGoesOn DEF MoneyInv, PaymentOK

LEMMA SettleReadMoney ==
  ASSUME AtTheTill, VerifiedInv, MoneyInv, NEW p \in Procs,
         SumSuccessful(p) \/ SumRefunded(p) \/ FindForSettle(p)
  PROVE  MoneyInv'
<1>1. Reads(p)
  BY ReadEffect
<1>2. /\ req[p].pc \in Settling /\ req[p].intx /\ ProgressOK(p) /\ TransactionOK(p)
      /\ req[p].pc # "write"
  BY <1>1 DEF Reads, MoneyInv, ProgressOK, Settling
<1>3. /\ GoesOn(p) /\ UNCHANGED <<invoice, payment>>
      /\ req'[p].intx = req[p].intx /\ req'[p].rows = req[p].rows
      /\ req'[p].todo = req[p].todo /\ req'[p].wrote = req[p].wrote
      /\ req'[p].pc \in {"sumRefunded", "find", "write"}
  BY <1>1 DEF Reads
<1>4. \A i : /\ Held(i)' = Held(i) /\ HeldAfter(p, i)' = HeldAfter(p, i)
             /\ SuccessfulSum(p, i)' = SuccessfulSum(p, i)
             /\ RefundedSum(p, i)' = RefundedSum(p, i)
             /\ Touches(p, i)' = Touches(p, i)
  BY <1>3, ViewKept
<1>5. /\ SuccessfulSum(p, Current(p)) \in Int /\ RefundedSum(p, Current(p)) \in Int
      /\ Current(p)' = Current(p)
  BY <1>3, NetIsHeldAfter DEF Current, Oldest
<1>6. sums \in [Procs -> [succ : Int, refd : Int]]
  BY DEF MoneyInv
<1>7. /\ sums' \in [Procs -> [succ : Int, refd : Int]]
      /\ sums'[p].succ = SuccessfulSum(p, Current(p))
      /\ req'[p].pc \in {"find", "write"} => sums'[p].refd = RefundedSum(p, Current(p))
  <2>1. CASE req[p].pc = "sumSuccessful"
    <3>1. /\ sums' = [sums EXCEPT ![p].succ = SuccessfulSum(p, Current(p))]
          /\ req'[p].pc = "sumRefunded"
      BY <1>1, <2>1 DEF Reads
    <3> QED
      BY <1>5, <1>6, <3>1
  <2>2. CASE req[p].pc = "sumRefunded"
    <3>1. sums' = [sums EXCEPT ![p].refd = RefundedSum(p, Current(p))]
      BY <1>1, <2>2 DEF Reads
    <3>2. sums[p].succ = SuccessfulSum(p, Current(p))
      BY <1>2, <2>2 DEF TransactionOK
    <3> QED
      BY <1>5, <1>6, <3>1, <3>2
  <2>3. CASE req[p].pc = "find"
    <3>1. sums' = sums
      BY <1>1, <2>3 DEF Reads
    <3>2. /\ sums[p].succ = SuccessfulSum(p, Current(p))
          /\ sums[p].refd = RefundedSum(p, Current(p))
      BY <1>2, <2>3 DEF TransactionOK
    <3> QED
      BY <1>6, <3>1, <3>2
  <2> QED
    BY <1>1, <2>1, <2>2, <2>3 DEF Reads
<1>8. ProgressOK(p)'
  BY <1>2, <1>3 DEF ProgressOK, GoesOn, Settling
<1>9. TransactionOK(p)'
  BY <1>2, <1>3, <1>4, <1>5, <1>7 DEF TransactionOK, Settling, Payable
<1>10. \A q \in Procs \ {p} : req'[q] = req[q] /\ ~req[q].intx
  BY <1>2, <1>3, OneTransaction DEF GoesOn
<1> QED
  BY <1>3, <1>4, <1>7, <1>8, <1>9, <1>10, TransactionGoesOn DEF MoneyInv, PaymentOK

LEMMA RefreshStatusMoney ==
  ASSUME AtTheTill, VerifiedInv, FinesInv, MoneyInv, NEW p \in Procs, RefreshStatus(p)
  PROVE  MoneyInv'
<1> DEFINE i == Current(p)
           left == req[p].todo \ {i}
<1>1. Settles(p) /\ req[p].pc = "write" /\ Accepted(p) /\ sums' = [sums EXCEPT ![p] = NoSums]
  BY RefreshStatusEffect DEF RefreshStatus
<1>2. /\ req[p].intx /\ ProgressOK(p) /\ TransactionOK(p) /\ req[p].todo # {}
      /\ req[p].todo \subseteq Invoices
      /\ req[p].wrote \in [Invoices -> InvoiceRow \cup {None}]
  BY <1>1 DEF MoneyInv, ProgressOK, Settling, VerifiedInv, TypeOK, Request
<1>3. i \in req[p].todo /\ i \in Invoices
  BY <1>2, OldestIsMember DEF Current
<1>4. /\ GoesOn(p) /\ UNCHANGED <<invoice, payment>>
      /\ req'[p].intx = req[p].intx /\ req'[p].rows = req[p].rows
      /\ req'[p].todo = left
      /\ req'[p].wrote = [req[p].wrote EXCEPT ![i] = SettledRow(p)]
      /\ req'[p].pc = IF left = {} THEN "commit" ELSE "insert"
  BY <1>1, <1>2, Zenon DEF Settles, AfterSettle
<1>5. \A j : /\ Held(j)' = Held(j) /\ HeldAfter(p, j)' = HeldAfter(p, j)
             /\ Touches(p, j)' = Touches(p, j)
  BY <1>4, ViewKept
<1>6. /\ SettledRow(p).paidTotal = HeldAfter(p, i)
      /\ SettledRow(p).paidTotal <= Payable(i, invoice[i])
  <2>1. invoice[i] \in InvoiceRow
    BY <1>3 DEF VerifiedInv, TypeOK
  <2>2. SettledRow(p).paidTotal = Net(p)
    BY <2>1 DEF SettledRow, InvoiceRow
  <2>3. sums[p].succ = SuccessfulSum(p, i) /\ sums[p].refd = RefundedSum(p, i)
    BY <1>1, <1>2 DEF TransactionOK
  <2>4. Net(p) = HeldAfter(p, i)
    BY <2>3, NetIsHeldAfter DEF Net
  <2>5. Payable(i, invoice[i]) \in Nat
    BY <1>3, <2>1, FeeAssumption DEF FeeAssumption, Payable, InvoiceRow
  <2>6. Net(p) <= Payable(i, invoice[i])
    BY <1>1, <2>5 DEF Accepted
  <2> QED
    BY <2>2, <2>4, <2>6
<1>7. left # {} => req[p].op = "collect"
  <2> SUFFICES ASSUME req[p].op = "refund" PROVE left = {}
    BY <1>2 DEF ProgressOK
  <2> QED
    BY <1>2, <1>3 DEF ProgressOK
<1>8. ProgressOK(p)'
  BY <1>2, <1>4, <1>7 DEF ProgressOK, GoesOn, Settling
<1>9. TransactionOK(p)'
  <2>1. ASSUME NEW j \in Invoices, req'[p].wrote[j] # None
        PROVE  /\ j \notin left
               /\ req'[p].wrote[j].paidTotal = HeldAfter(p, j)
               /\ req'[p].wrote[j].paidTotal <= Payable(j, invoice[j])
    <3>1. CASE j = i
      BY <1>2, <1>4, <1>6, <3>1
    <3>2. CASE j # i
      BY <1>2, <1>4, <2>1, <3>2 DEF TransactionOK
    <3> QED
      BY <3>1, <3>2
  <2>2. SettledRow(p) # None
    <3>1. Net(p) \in Nat /\ invoice[i] \in InvoiceRow
      BY <1>1, <1>3, FeeAssumption
      DEF Accepted, Payable, FeeAssumption, VerifiedInv, TypeOK, InvoiceRow
    <3>2. SettledRow(p) \in InvoiceRow
      BY <3>1 DEF SettledRow, DeriveStatus, InvoiceRow, InvoiceStatus
    <3> QED
      BY <3>2, NoneIsNoRow
  <2>3. ASSUME NEW j \in Invoices, Touches(p, j) PROVE req'[p].wrote[j] # None
    BY <1>2, <1>3, <1>4, <2>2, <2>3 DEF TransactionOK
  <2> QED
    BY <1>4, <1>5, <2>1, <2>3 DEF TransactionOK, Payable
<1>10. \A q \in Procs \ {p} : req'[q] = req[q] /\ ~req[q].intx
  BY <1>2, <1>4, OneTransaction DEF GoesOn
<1>11. sums' \in [Procs -> [succ : Int, refd : Int]]
  BY <1>1 DEF MoneyInv, NoSums
<1> QED
  BY <1>4, <1>5, <1>8, <1>9, <1>10, <1>11, TransactionGoesOn DEF MoneyInv, PaymentOK

\* What a commit does to the tables.
LEMMA CommitEffect ==
  ASSUME VerifiedInv, MoneyInv, NEW p \in Procs, Commit(p)
  PROVE  /\ req[p].intx /\ TransactionOK(p)
         /\ \A x \in Payments :
              /\ payment'[x].status = payment[x].status /\ payment'[x].inv = payment[x].inv
              /\ payment'[x].amount = payment[x].amount
              /\ payment'[x].refunded = payment[x].refunded + OwnRefund(p, x)
              /\ ~InRefund(p, x) => payment'[x] = payment[x]
         /\ \A q \in Procs \ {p} : req'[q] = req[q]
         /\ req'[p].pc \in {"announce", "idle"} /\ ~req'[p].intx
         /\ req'[p].pc = "announce" => req'[p].op = "collect" /\ req[p].op = "collect"
         /\ req'[p].pc = "idle" => req'[p] = Idle
         /\ \A i : Held(i)' = HeldAfter(p, i)
<1>1. req[p].intx /\ TransactionOK(p)
  BY DEF MoneyInv, ProgressOK, Commit
<1>2. ASSUME NEW x \in Payments
      PROVE  /\ payment'[x].status = payment[x].status /\ payment'[x].inv = payment[x].inv
             /\ payment'[x].amount = payment[x].amount
             /\ payment'[x].refunded = payment[x].refunded + OwnRefund(p, x)
             /\ ~InRefund(p, x) => payment'[x] = payment[x]
  <2>1. payment[x] \in PaymentRow /\ payment[x].refunded \in Nat
    BY DEF VerifiedInv, TypeOK, PaymentRow
  <2>2. CASE InRefund(p, x)
    <3>1. payment'[x] = [payment[x] EXCEPT !.refunded = @ + req[p].amount, !.status = @]
      BY <2>2, NothingEmpties DEF Commit
    <3> QED
      BY <2>1, <2>2, <3>1 DEF PaymentRow, OwnRefund
  <2>3. CASE ~InRefund(p, x)
    <3>1. payment'[x] = payment[x]
      BY <2>3 DEF Commit
    <3> QED
      BY <2>1, <2>3, <3>1 DEF OwnRefund
  <2> QED
    BY <2>2, <2>3
<1>3. req \in [Procs -> Request] /\ req' = [req EXCEPT ![p] =
           IF req[p].op = "collect"
             THEN [Idle EXCEPT !.op = "collect", !.pc = "announce", !.rows = req[p].rows]
             ELSE Idle]
  BY DEF Commit, VerifiedInv, TypeOK
<1>4. \A q \in Procs \ {p} : req'[q] = req[q]
  BY <1>3
<1>5. /\ req'[p].pc \in {"announce", "idle"} /\ ~req'[p].intx
      /\ req'[p].pc = "announce" => req'[p].op = "collect" /\ req[p].op = "collect"
      /\ req'[p].pc = "idle" => req'[p] = Idle
  BY <1>3 DEF Idle
<1>6. \A q \in Procs : Hidden(q)' = {}
  BY <1>1, <1>4, <1>5, OneTransaction DEF Hidden
<1>7. Committed' = VisibleTo(p)
  BY <1>1, <1>2, <1>6, OneTransaction DEF Committed
<1>8. ASSUME NEW i PROVE Held(i)' = HeldAfter(p, i)
  <2> DEFINE R == {x \in VisibleTo(p) : payment[x].inv = i}
             C == {x \in Committed : /\ payment[x].inv = i
                                     /\ payment[x].status \in {"SUCCESS", "REFUNDED"}}
  <2>1. R \subseteq Payments
    BY DEF VisibleTo
  <2>2. C' = R
    BY <1>2, <1>7, <2>1 DEF VisibleTo, MoneyInv, PaymentOK
  <2>3. [x \in C |-> payment[x].amount - payment[x].refunded]'
          = [x \in R |-> payment[x].amount - (payment[x].refunded + OwnRefund(p, x))]
    BY <1>2, <2>1, <2>2
  <2> QED
    BY <2>3 DEF Held, HeldAfter
<1> QED
  BY <1>1, <1>2, <1>4, <1>5, <1>8

LEMMA CommitMoney ==
  ASSUME AtTheTill, VerifiedInv, FinesInv, MoneyInv, NEW p \in Procs, Commit(p)
  PROVE  MoneyInv'
<1>1. req[p].intx /\ TransactionOK(p) /\ ProgressOK(p) /\ req[p].pc = "commit"
  BY CommitEffect DEF MoneyInv, Commit
<1>2. \A q \in Procs \ {p} : req'[q] = req[q] /\ ~req[q].intx
  BY <1>1, CommitEffect, OneTransaction
<1>3. ~req'[p].intx /\ ProgressOK(p)'
  <2>1. req'[p].pc = "idle" => ProgressOK(p)'
    BY CommitEffect, IdleProgress
  <2>2. req'[p].pc = "announce" => ProgressOK(p)'
    BY <1>1, CommitEffect DEF ProgressOK, Settling
  <2> QED
    BY <2>1, <2>2, CommitEffect
<1>4. ASSUME NEW x \in Payments PROVE PaymentOK(x)'
  <2>1. PaymentOK(x)
    BY DEF MoneyInv
  <2>2. CASE ~InRefund(p, x)
    BY <2>1, <2>2, CommitEffect DEF PaymentOK
  <2>3. CASE InRefund(p, x)
    <3>1. /\ payment[x].refunded + req[p].amount < payment[x].amount
          /\ payment[x].status # "absent"
      BY <1>1, <2>3 DEF ProgressOK, InRefund, VerifiedInv, HoldsOK
    <3>2. payment'[x].refunded = payment[x].refunded + req[p].amount
      BY <2>3, CommitEffect DEF OwnRefund
    <3> QED
      BY <2>1, <3>1, <3>2, CommitEffect DEF PaymentOK
  <2> QED
    BY <2>2, <2>3
<1>5. ASSUME NEW i \in Invoices PROVE AccountOK(i)'
  <2>1. invoice'[i] = IF req[p].wrote[i] # None THEN req[p].wrote[i] ELSE invoice[i]
    BY DEF Commit
  <2>2. Held(i)' = HeldAfter(p, i)
    BY CommitEffect
  <2>3. CASE req[p].wrote[i] # None
    <3>1. /\ req[p].wrote[i].paidTotal = HeldAfter(p, i)
          /\ req[p].wrote[i].paidTotal <= Payable(i, invoice[i])
      BY <1>1, <2>3 DEF TransactionOK
    <3>2. req[p].wrote[i].fine = invoice[i].fine
      BY <2>3 DEF FinesInv, SameFine
    <3> QED
      BY <2>1, <2>2, <2>3, <3>1, <3>2 DEF AccountOK, Payable
  <2>4. CASE req[p].wrote[i] = None
    <3>1. ~Touches(p, i)
      BY <1>1, <2>4 DEF TransactionOK, Settling
    <3>2. HeldAfter(p, i) = Held(i)
      BY <1>1, <3>1, UntouchedHolds
    <3> QED
      BY <2>1, <2>2, <2>4, <3>2 DEF MoneyInv, AccountOK, Payable
  <2> QED
    BY <2>3, <2>4
<1>6. \A q \in Procs \ {p} : ProgressOK(q)'
  BY <1>2, OtherProgress
<1>7. sums' = sums
  BY DEF Commit
<1> QED
  BY <1>2, <1>3, <1>4, <1>5, <1>6, <1>7 DEF MoneyInv

\* A request that dies, or is refused by the CHECK, takes back what it wrote.
LEMMA AbortMoney ==
  ASSUME AtTheTill, VerifiedInv, FinesInv, MoneyInv, NEW p \in Procs, Abort(p)
  PROVE  MoneyInv'
<1>1. /\ req' = [req EXCEPT ![p] = Idle] /\ sums' = [sums EXCEPT ![p] = NoSums]
      /\ payment' = [x \in Payments |-> IF x \in Hidden(p) THEN Absent ELSE payment[x]]
      /\ UNCHANGED invoice
      /\ payment \in [Payments -> PaymentRow] /\ req \in [Procs -> Request]
  BY DEF Abort, VerifiedInv, TypeOK
<1>2. CASE ~req[p].intx
  <2>1. Hidden(p) = {}
    BY <1>2 DEF Hidden
  <2>2. payment' = payment
    BY <1>1, <2>1
  <2> QED
    BY <1>1, <1>2, <2>2, RequestEnds
<1>3. CASE req[p].intx
  <2>1. \A q \in Procs \ {p} : ~req[q].intx /\ req'[q] = req[q] /\ Hidden(q) = {}
    BY <1>1, <1>3, OneTransaction
  <2>2. req'[p] = Idle /\ Idle.intx = FALSE /\ Absent.status = "absent"
    BY <1>1, IdleFields DEF Absent
  <2>3. \A q \in Procs : Hidden(q)' = {}
    BY <2>1, <2>2 DEF Hidden
  <2>4. Committed' = Committed
    BY <1>1, <2>1, <2>2, <2>3 DEF Committed
  <2>5. \A x \in Committed : payment'[x] = payment[x]
    BY <1>1 DEF Committed
  <2>6. \A i \in Invoices : Held(i)' = Held(i)
    BY <2>4, <2>5 DEF Held
  <2>7. \A x \in Payments : PaymentOK(x)'
    BY <1>1, <2>2 DEF MoneyInv, PaymentOK
  <2>8. /\ ProgressOK(p)' /\ \A q \in Procs \ {p} : ProgressOK(q)'
    BY <2>1, <2>2, IdleProgress, OtherProgress
  <2>9. \A i \in Invoices : AccountOK(i)'
    BY <1>1, <2>6 DEF MoneyInv, AccountOK, Payable
  <2>10. sums' \in [Procs -> [succ : Int, refd : Int]]
    BY <1>1 DEF MoneyInv, NoSums
  <2> QED
    BY <2>1, <2>2, <2>7, <2>8, <2>9, <2>10 DEF MoneyInv
<1> QED
  BY <1>2, <1>3

LEMMA CancelWriteMoney ==
  ASSUME AtTheTill, VerifiedInv, MoneyInv, NEW p \in Procs, CancelWrite(p)
  PROVE  MoneyInv'
<1>1. /\ req' = [req EXCEPT ![p] = Idle] /\ UNCHANGED <<payment, sums>>
      /\ invoice' = [invoice EXCEPT ![Current(p)].status = "CANCELLED"]
      /\ invoice \in [Invoices -> InvoiceRow] /\ req[p].pc = "cancel"
  BY DEF CancelWrite, VerifiedInv, TypeOK
<1>2. \A i \in Invoices : /\ invoice'[i].paidTotal = invoice[i].paidTotal
                          /\ invoice'[i].fine = invoice[i].fine
  BY <1>1 DEF InvoiceRow
<1>3. ~req[p].intx
  BY <1>1 DEF MoneyInv, ProgressOK, Settling
<1> QED
  BY <1>1, <1>2, <1>3, RequestEnds

LEMMA FineWriteMoney ==
  ASSUME AtTheTill, VerifiedInv, FinesInv, MoneyInv, NEW p \in Procs, FineWrite(p)
  PROVE  MoneyInv'
<1>1. PICK i \in Invoices : Fines(p, i)
  BY FineWriteEffect
<1>2. /\ req[p].pc = "charge" /\ ~req[p].intx /\ ProgressOK(p)
      /\ req \in [Procs -> Request] /\ UNCHANGED <<payment, sums>>
  BY <1>1 DEF FineWrite, MoneyInv, ProgressOK, Settling, VerifiedInv, TypeOK, Fines
<1>3. ASSUME NEW j \in Invoices
      PROVE  /\ invoice'[j].paidTotal = invoice[j].paidTotal
             /\ invoice'[j].fine \in Nat /\ invoice[j].fine <= invoice'[j].fine
  <2>1. invoice[j].fine \in Nat
    BY DEF VerifiedInv, TypeOK, InvoiceRow
  <2>2. CASE j = i
    <3>1. i \in req[p].todo
      BY <1>1 DEF Fines
    <3>2. /\ req[p].seen[i].fine \in Nat /\ FineCharge(i, req[p].seen[i], today) \in Nat
          /\ invoice[i].fine <= req[p].seen[i].fine + FineCharge(i, req[p].seen[i], today)
      BY <1>2, <3>1, FineToWrite
    <3> QED
      BY <1>1, <2>1, <2>2, <3>2 DEF Fines
  <2>3. CASE j # i
    BY <1>1, <2>1, <2>3 DEF Fines
  <2> QED
    BY <2>2, <2>3
<1>4. /\ \A q \in Procs \ {p} : req'[q] = req[q]
      /\ ~req'[p].intx /\ ProgressOK(p)'
  <2>1. CASE req' = [req EXCEPT ![p] = Idle]
    BY <1>2, <2>1, IdleFields, IdleProgress
  <2>2. CASE req' # [req EXCEPT ![p] = Idle]
    <3>1. GoesOn(p) /\ req'[p].pc = "charge" /\ req'[p].intx = req[p].intx
      BY <1>1, <2>2 DEF Fines
    <3>2. \A q \in Procs \ {p} : req'[q] = req[q]
      BY <3>1 DEF GoesOn
    <3>3. req'[p].op = "fine" /\ req'[p].pc = "charge" /\ ~req'[p].intx
      BY <1>2, <3>1 DEF GoesOn, VerifiedInv, CarriesOK
    <3>4. req'[p].op \in Ops[p]
      BY <1>2, <3>1, <3>3 DEF GoesOn, ProgressOK
    <3>5. ProgressOK(p)'
      BY <3>3, <3>4 DEF ProgressOK, Settling
    <3> QED
      BY <3>2, <3>3, <3>5
  <2> QED
    BY <2>1, <2>2
<1> QED
  BY <1>2, <1>3, <1>4, NoMoneyMoves DEF MoneyInv

LEMMA ContinueMoney ==
  ASSUME AtTheTill, VerifiedInv, FinesInv, MoneyInv, NEW p \in Procs, Continue(p)
  PROVE  MoneyInv'
<1>1. CASE InsertPayment(p)
  BY <1>1, InsertPaymentMoney
<1>2. CASE InsertRefund(p)
  BY <1>2, InsertRefundMoney
<1>3. CASE SumSuccessful(p) \/ SumRefunded(p) \/ FindForSettle(p)
  BY <1>3, SettleReadMoney
<1>4. CASE RefreshStatus(p)
  BY <1>4, RefreshStatusMoney
<1>5. CASE RefuseSettle(p)
  BY <1>5, AbortMoney DEF RefuseSettle
<1>6. CASE Commit(p)
  BY <1>6, CommitMoney
<1>7. CASE Announce(p)
  <2>1. /\ req' = [req EXCEPT ![p] = Idle] /\ UNCHANGED <<invoice, payment, sums>>
        /\ req[p].pc = "announce"
    BY <1>7 DEF Announce
  <2>2. ~req[p].intx
    BY <2>1 DEF MoneyInv, ProgressOK, Settling
  <2> QED
    BY <2>1, <2>2, RequestEnds
<1>8. CASE CancelWrite(p)
  BY <1>8, CancelWriteMoney
<1>9. CASE FineWrite(p)
  BY <1>9, FineWriteMoney
<1>10. CASE CreatePending(p) \/ Verify(p) \/ MarkAll(p)
  <2>1. req[p].pc \in {"create", "verify", "mark"}
    BY <1>10 DEF CreatePending, Verify, MarkAll
  <2> QED
    BY <2>1 DEF MoneyInv, ProgressOK, Settling
<1> QED
  BY <1>1, <1>2, <1>3, <1>4, <1>5, <1>6, <1>7, <1>8, <1>9, <1>10 DEF Continue

LEMMA NothingMovesMoney ==
  ASSUME MoneyInv, UNCHANGED <<invoice, payment, req, sums>>
  PROVE  MoneyInv'
<1>1. \A p \in Procs : Hidden(p)' = Hidden(p) /\ Current(p)' = Current(p)
  BY DEF Hidden, Current, Oldest
<1>2. /\ Committed' = Committed
      /\ \A p \in Procs : VisibleTo(p)' = VisibleTo(p)
  BY <1>1 DEF Committed, VisibleTo
<1>3. \A i : Held(i)' = Held(i)
  BY <1>2 DEF Held
<1>4. \A i \in Invoices : AccountOK(i)'
  BY <1>3 DEF MoneyInv, AccountOK, Payable
<1>5. \A p \in Procs : \A x : InRefund(p, x)' = InRefund(p, x) /\ Empties(p, x)' = Empties(p, x)
  BY DEF InRefund, Empties
<1>6. \A p \in Procs : \A i : /\ HeldAfter(p, i)' = HeldAfter(p, i)
                              /\ SuccessfulSum(p, i)' = SuccessfulSum(p, i)
                              /\ RefundedSum(p, i)' = RefundedSum(p, i)
  BY <1>2, <1>5 DEF HeldAfter, SuccessfulSum, RefundedSum, OwnRefund
<1>7. \A p \in Procs : \A i : Touches(p, i)' = Touches(p, i)
  BY <1>1 DEF Touches
<1>8. \A p \in Procs : req[p].intx => TransactionOK(p)'
  BY <1>1, <1>6, <1>7 DEF MoneyInv, TransactionOK, Payable
<1>9. \A p \in Procs : ProgressOK(p)'
  BY DEF MoneyInv, ProgressOK
<1>10. \A x \in Payments : PaymentOK(x)'
  BY DEF MoneyInv, PaymentOK
<1> QED
  BY <1>4, <1>8, <1>9, <1>10 DEF MoneyInv

LEMMA NextMoney ==
  ASSUME AtTheTill, VerifiedInv, FinesInv, MoneyInv, [Next]_vars
  PROVE  MoneyInv'
<1>1. CASE Tick
  BY <1>1, NothingMovesMoney DEF Tick
<1>2. ASSUME NEW s \in Sessions, GatewayDecides(s) PROVE MoneyInv'
  BY <1>2, NothingMovesMoney DEF GatewayDecides
<1>3. ASSUME NEW p \in Procs, Begin(p) PROVE MoneyInv'
  BY <1>3, BeginMoney
<1>4. ASSUME NEW p \in Procs, Continue(p) PROVE MoneyInv'
  BY <1>4, ContinueMoney
<1>5. ASSUME NEW p \in Procs, Fail(p) PROVE MoneyInv'
  BY <1>5, AbortMoney DEF Fail
<1>6. CASE UNCHANGED vars
  BY <1>6, NothingMovesMoney DEF vars
<1> QED
  BY <1>1, <1>2, <1>3, <1>4, <1>5, <1>6 DEF Next

LEMMA InitMoney == ASSUME AtTheTill, Init PROVE MoneyInv
<1>1. \A x \in Payments : payment[x] = Absent
  BY DEF Init
<1>2. \A p \in Procs : req[p] = Idle
  BY DEF Init
<1>3. ASSUME NEW i \in Invoices PROVE Held(i) = 0
  <2> DEFINE rows == {x \in Committed : /\ payment[x].inv = i
                                        /\ payment[x].status \in {"SUCCESS", "REFUNDED"}}
             d == [x \in rows |-> payment[x].amount - payment[x].refunded]
  <2>1. Committed = {}
    BY <1>1 DEF Committed, Absent
  <2>2. rows = {}
    BY <2>1
  <2>3. Held(i) = SumFunctionOnSet(d, rows)
    BY DEF Held, SumFunction
  <2> HIDE DEF d, rows
  <2> QED
    BY <2>2, <2>3, SumOfNone
<1>4. \A i \in Invoices : AccountOK(i)
  BY <1>3, FeeAssumption DEF FeeAssumption, Init, AccountOK, Payable
<1>5. \A p \in Procs : ProgressOK(p) /\ ~req[p].intx
  BY <1>2 DEF Idle, ProgressOK, Settling
<1>6. \A x \in Payments : PaymentOK(x)
  <2>1. Absent.status = "absent"
    BY DEF Absent
  <2> QED
    BY <1>1, <2>1 DEF PaymentOK
<1>7. sums \in [Procs -> [succ : Int, refd : Int]]
  BY DEF Init, NoSums
<1> QED
  BY <1>4, <1>5, <1>6, <1>7 DEF MoneyInv

-----------------------------------------------------------------------------
(* Theorems. *)

THEOREM MoneyInvariant ==
  ASSUME AtTheTill
  PROVE  Spec => [](VerifiedInv /\ FinesInv /\ MoneyInv)
<1>1. Init => MoneyInv
  BY InitMoney
<1>2. (VerifiedInv /\ FinesInv) /\ MoneyInv /\ [Next]_vars => MoneyInv'
  BY NextMoney
<1> QED
  BY <1>1, <1>2, FinesInvariant, PTL DEF Spec

\* At the till, the paid total of every invoice is the money on it, whatever the
\* desks interleave: settle reads three times, but between its reads nobody else
\* can commit money, for the receipt number it drew keeps them waiting.
THEOREM PaidTotalsAreRight ==
  ASSUME AtTheTill
  PROVE  Spec => []PaidTotalAgrees
<1>1. MoneyInv => PaidTotalAgrees
  BY DEF MoneyInv, AccountOK, PaidTotalAgrees
<1> QED
  BY <1>1, MoneyInvariant, PTL

\* At the till nobody is charged twice for one bill: of two collections that
\* were both allocated from the same due, the CHECK turns the second away.
THEOREM NobodyPaysTwice ==
  ASSUME AtTheTill
  PROVE  Spec => []NeverOvercollected
<1>1. MoneyInv => NeverOvercollected
  BY DEF MoneyInv, AccountOK, NeverOvercollected
<1> QED
  BY <1>1, MoneyInvariant, PTL

\* A refund that passed its checks outside the transaction is not refused by the
\* CHECK inside it, as long as nobody else refunds.
THEOREM RefundsGoThrough ==
  ASSUME AtTheTill
  PROVE  Spec => []RefundIsAccepted
<1>1. VerifiedInv /\ MoneyInv => RefundIsAccepted
  <2> SUFFICES ASSUME VerifiedInv, MoneyInv, NEW p \in Procs,
                      req[p].op = "refund", req[p].pc = "write"
               PROVE  Accepted(p)
    BY DEF RefundIsAccepted
  <2>1. req[p].intx /\ req[p].todo # {} /\ ProgressOK(p) /\ TransactionOK(p)
    BY DEF MoneyInv, ProgressOK, Settling
  <2>2. req[p].todo \in SUBSET Invoices
    BY DEF VerifiedInv, TypeOK, Request
  <2>3. Current(p) \in req[p].todo
    BY <2>1, <2>2, OldestIsMember DEF Current
  <2> DEFINE i == Current(p)
  <2>4. i = payment[req[p].pay].inv /\ i \in Invoices
    BY <2>1, <2>2, <2>3 DEF ProgressOK
  <2>5. HeldAfter(p, i) = Held(i) - req[p].amount /\ req[p].amount \in Nat
    BY <2>1, <2>4, RefundTakes
  <2>6. HeldAfter(p, i) \in Nat /\ Held(i) \in Nat
    BY HeldAfterIsNatural
  <2>7. Net(p) = HeldAfter(p, i)
    BY <2>1, NetIsHeldAfter DEF TransactionOK, Net
  <2>8. Held(i) <= Payable(i, invoice[i])
    BY <2>4 DEF MoneyInv, AccountOK
  <2>9. Payable(i, invoice[i]) \in Nat
    BY <2>4, FeeAssumption DEF FeeAssumption, Payable, VerifiedInv, TypeOK, InvoiceRow
  <2> HIDE DEF i
  <2>10. Net(p) \in 0..Payable(i, invoice[i])
    BY <2>5, <2>6, <2>7, <2>8, <2>9
  <2> QED
    BY <2>10 DEF i, Accepted
<1> QED
  BY <1>1, MoneyInvariant, PTL

-----------------------------------------------------------------------------
(* One clerk: what a request has read is still so when it writes.           *)

OneClerk == \A p, q \in Procs : p = q

\* What the status of an invoice says about its money.
StatusOK(i, row) ==
  /\ row.status \in Outstanding => row.paidTotal < Payable(i, row)
  /\ row.status = "PAID" => row.paidTotal >= Payable(i, row)
  /\ row.status = "CANCELLED" => row.paidTotal = 0

OfficeOK(p) ==
  LET r == req[p]
  IN  /\ r.op = "collect" /\ r.pc # "announce" =>
           \A i \in Invoices : r.alloc[i] > 0 => invoice[i].status # "CANCELLED"
      /\ \A i \in Invoices : r.wrote[i] # None =>
           /\ invoice[i].status # "CANCELLED" /\ r.wrote[i].status # "CANCELLED"
           /\ StatusOK(i, r.wrote[i])
      /\ r.pc = "cancel" => \A i \in r.todo : invoice[i].paidTotal = 0
      /\ r.pc = "cancel" => r.todo # {}
      /\ r.pc = "write" => r.seen[Current(p)] = invoice[Current(p)]
      /\ r.pc = "charge" => \A i \in r.todo : /\ r.seen[i] = invoice[i]
                                              /\ invoice[i].status \in Outstanding
                                              /\ FineCharge(i, invoice[i], today) > 0

OfficeInv ==
  /\ \A i \in Invoices : StatusOK(i, invoice[i])
  /\ \A p \in Procs : OfficeOK(p)

LEMMA OfficeMoves ==
  ASSUME OneClerk, OfficeInv, NEW p \in Procs, OfficeOK(p)',
         \A i \in Invoices : StatusOK(i, invoice'[i])
  PROVE  OfficeInv'
<1>1. \A i \in Invoices : StatusOK(i, invoice[i])'
  BY DEF StatusOK, Payable
<1>2. \A q \in Procs : q = p
  BY DEF OneClerk
<1> QED
  BY <1>1, <1>2 DEF OfficeInv

LEMMA IdleOffice ==
  ASSUME NEW p \in Procs, req'[p] = Idle PROVE OfficeOK(p)'
BY DEF Idle, OfficeOK

\* A request that ends, or has ended, and leaves the invoices as they are.
LEMMA OfficeCloses ==
  ASSUME OneClerk, VerifiedInv, OfficeInv, NEW p \in Procs,
         req' = [req EXCEPT ![p] = Idle], UNCHANGED invoice
  PROVE  OfficeInv'
<1>1. req'[p] = Idle
  BY DEF VerifiedInv, TypeOK
<1> QED
  BY <1>1, IdleOffice, OfficeMoves DEF OfficeInv

LEMMA BeginOffice ==
  ASSUME AtTheTill, OneClerk, VerifiedInv, OfficeInv, NEW p \in Procs, Begin(p)
  PROVE  OfficeInv'
<1>1. req \in [Procs -> Request]
  BY DEF VerifiedInv, TypeOK
<1>2. CASE Collect(p)
  <2>1. PICK basket \in SUBSET Invoices, amount \in 1..MaxAmount, c \in Counters :
          LET due == [i \in Invoices |-> IF i \in basket THEN Due(i, invoice[i]) ELSE 0]
          IN  /\ \A i \in basket : invoice[i].status # "CANCELLED"
              /\ \E alloc \in [Invoices -> 0..amount] :
                   /\ IsAllocation(alloc, amount, due)
                   /\ req' = [req EXCEPT ![p] = Collecting(c, alloc)]
    BY <1>2, Zenon DEF Collect
  <2> DEFINE due == [i \in Invoices |-> IF i \in basket THEN Due(i, invoice[i]) ELSE 0]
  <2>2. PICK alloc \in [Invoices -> 0..amount] :
          /\ IsAllocation(alloc, amount, due)
          /\ req' = [req EXCEPT ![p] = Collecting(c, alloc)]
    BY <2>1
  <2>3. ASSUME NEW i \in Invoices, alloc[i] > 0 PROVE invoice[i].status # "CANCELLED"
    <3>1. alloc[i] <= due[i] /\ alloc[i] \in Int
      BY <2>2 DEF IsAllocation
    <3>2. CASE i \in basket
      BY <2>1, <3>2
    <3>3. CASE i \notin basket
      <4>1. due[i] = 0
        BY <3>3
      <4> HIDE DEF due
      <4> QED
        BY <2>3, <3>1, <4>1
    <3> QED
      BY <3>2, <3>3
  <2> DEFINE r == Collecting(c, alloc)
  <2>4. /\ r.op = "collect" /\ r.pc = "insert" /\ r.alloc = alloc
        /\ \A i \in Invoices : r.wrote[i] = None
    BY DEF Collecting, Idle
  <2> HIDE DEF r
  <2>5. req'[p] = r /\ UNCHANGED invoice
    BY <1>1, <1>2, <2>2 DEF r, Collect
  <2>6. OfficeOK(p)'
    BY <2>3, <2>4, <2>5 DEF OfficeOK
  <2> QED
    BY <2>5, <2>6, OfficeMoves DEF OfficeInv
<1>3. CASE Refund(p)
  <2>1. PICK x \in Committed, amount \in 1..MaxAmount :
          req' = [req EXCEPT ![p] =
               [Idle EXCEPT !.op = "refund", !.pc = "refund", !.pay = x,
                            !.amount = amount, !.sofar = payment[x].refunded]]
    BY <1>3 DEF Refund
  <2> DEFINE r == [Idle EXCEPT !.op = "refund", !.pc = "refund", !.pay = x,
                            !.amount = amount, !.sofar = payment[x].refunded]
  <2>2. /\ r.op = "refund" /\ r.pc = "refund" /\ \A i \in Invoices : r.wrote[i] = None
    BY DEF Idle
  <2> HIDE DEF r
  <2>3. req'[p] = r /\ UNCHANGED invoice
    BY <1>1, <1>3, <2>1 DEF r, Refund
  <2>4. OfficeOK(p)'
    BY <2>2, <2>3 DEF OfficeOK
  <2> QED
    BY <2>3, <2>4, OfficeMoves DEF OfficeInv
<1>4. CASE Cancel(p)
  <2>1. PICK i \in Invoices :
          /\ Cancellable(invoice[i])
          /\ req' = [req EXCEPT ![p] = [Idle EXCEPT !.op = "cancel", !.pc = "cancel",
                                                    !.todo = {i}]]
    BY <1>4 DEF Cancel
  <2> DEFINE r == [Idle EXCEPT !.op = "cancel", !.pc = "cancel", !.todo = {i}]
  <2>2. /\ r.op = "cancel" /\ r.pc = "cancel" /\ r.todo = {i}
        /\ \A j \in Invoices : r.wrote[j] = None
    BY DEF Idle
  <2> HIDE DEF r
  <2>3. req'[p] = r /\ UNCHANGED invoice
    BY <1>1, <1>4, <2>1 DEF r, Cancel
  <2>4. OfficeOK(p)'
    BY <2>1, <2>2, <2>3 DEF OfficeOK, Cancellable
  <2> QED
    BY <2>3, <2>4, OfficeMoves DEF OfficeInv
<1>5. CASE FineRun(p)
  <2> DEFINE S == {i \in Invoices : /\ invoice[i].status \in Outstanding
                                    /\ FineCharge(i, invoice[i], today) > 0}
             r == [Idle EXCEPT !.op = "fine", !.pc = "charge", !.todo = S,
                     !.seen = [i \in Invoices |-> IF i \in S THEN invoice[i] ELSE None]]
  <2>1. req' = [req EXCEPT ![p] = r] /\ UNCHANGED <<invoice, today>>
    BY <1>5 DEF FineRun
  <2>2. /\ r.op = "fine" /\ r.pc = "charge" /\ r.todo = S
        /\ \A i \in S : r.seen[i] = invoice[i]
        /\ \A i \in Invoices : r.wrote[i] = None
    BY DEF Idle
  <2> HIDE DEF r
  <2>3. req'[p] = r
    BY <1>1, <2>1
  <2>4. OfficeOK(p)'
    BY <2>1, <2>2, <2>3 DEF OfficeOK, FineCharge, Overdue
  <2> QED
    BY <2>1, <2>4, OfficeMoves DEF OfficeInv
<1>6. ~Initiate(p) /\ ~HandleCallback(p) /\ ~Reconcile(p)
  <2>1. \A op \in {"initiate", "callback", "reconcile", "sweep"} : ~Starts(p, op)
    BY DEF AtTheTill, Starts
  <2> QED
    BY <2>1 DEF Initiate, HandleCallback, Reconcile
<1> QED
  BY <1>2, <1>3, <1>4, <1>5, <1>6 DEF Begin

\* A transaction that goes on and has not written.
LEMMA TransactionOffice ==
  ASSUME OneClerk, OfficeInv, NEW p \in Procs, GoesOn(p), UNCHANGED invoice,
         req[p].pc # "announce",
         req'[p].wrote = req[p].wrote, req'[p].pc \notin {"cancel", "charge"},
         req'[p].pc = "write" => req'[p].seen[Current(p)'] = invoice[Current(p)']
  PROVE  OfficeInv'
<1>1. OfficeOK(p)
  BY DEF OfficeInv
<1>2. OfficeOK(p)'
  BY <1>1 DEF OfficeOK, GoesOn, StatusOK, Payable
<1> QED
  BY <1>2, OfficeMoves DEF OfficeInv

LEMMA InTransactionOffice ==
  ASSUME OneClerk, VerifiedInv, MoneyInv, OfficeInv, NEW p \in Procs,
         InsertPayment(p) \/ InsertRefund(p) \/ SumSuccessful(p) \/ SumRefunded(p)
           \/ FindForSettle(p)
  PROVE  OfficeInv'
<1>1. CASE InsertPayment(p)
  <2>1. PICK x \in Payments : Inserts(p, x)
    BY <1>1, InsertPaymentEffect
  <2> QED
    BY <1>1, <2>1, TransactionOffice DEF Inserts, InsertPayment
<1>2. CASE InsertRefund(p)
  BY <1>2, InsertRefundEffect, TransactionOffice DEF Opens, InsertRefund
<1>3. CASE SumSuccessful(p) \/ SumRefunded(p) \/ FindForSettle(p)
  <2>1. Reads(p)
    BY <1>3, ReadEffect
  <2>2. /\ GoesOn(p) /\ UNCHANGED invoice /\ req'[p].wrote = req[p].wrote
        /\ req[p].pc # "announce" /\ req'[p].pc \in {"sumRefunded", "find", "write"}
        /\ req'[p].todo = req[p].todo
    BY <2>1 DEF Reads
  <2>3. Current(p)' = Current(p)
    BY <2>2 DEF Current, Oldest
  <2>4. Current(p) \in Invoices
    <3>1. req[p].pc \in Settling /\ req[p].todo \in SUBSET Invoices
      BY <2>1 DEF Reads, Settling, VerifiedInv, TypeOK, Request
    <3>2. req[p].todo # {}
      BY <3>1 DEF MoneyInv, ProgressOK
    <3> QED
      BY <3>1, <3>2, OldestIsMember DEF Current
  <2>5. req'[p].pc = "write" => req'[p].seen[Current(p)] = invoice[Current(p)]
    BY <2>1, <2>4 DEF Reads
  <2> QED
    BY <2>2, <2>3, <2>5, TransactionOffice
<1> QED
  BY <1>1, <1>2, <1>3

\* The row a settle writes is not that of a cancelled invoice, and its status is
\* right about its money.
LEMMA SettledRowOffice ==
  ASSUME AtTheTill, VerifiedInv, MoneyInv, OfficeInv, NEW p \in Procs, RefreshStatus(p)
  PROVE  LET i == Current(p)
         IN  /\ i \in Invoices /\ invoice[i].status # "CANCELLED"
             /\ SettledRow(p).status # "CANCELLED" /\ StatusOK(i, SettledRow(p))
<1> DEFINE i == Current(p)
<1>1. /\ req[p].pc = "write" /\ Accepted(p) /\ ProgressOK(p) /\ OfficeOK(p)
      /\ req[p].intx /\ req[p].op \in {"collect", "refund"}
      /\ req[p].todo # {} /\ req[p].todo \in SUBSET Invoices
  BY DEF RefreshStatus, MoneyInv, ProgressOK, Settling, OfficeInv, VerifiedInv, TypeOK, Request
<1>2. i \in req[p].todo /\ i \in Invoices
  BY <1>1, OldestIsMember DEF Current
<1>3. invoice[i].status # "CANCELLED"
  <2>1. CASE req[p].op = "collect"
    BY <1>1, <1>2, <2>1 DEF ProgressOK, OfficeOK
  <2>2. CASE req[p].op = "refund"
    <3>1. i = payment[req[p].pay].inv
      BY <1>1, <1>2, <2>2 DEF ProgressOK
    <3>2. HeldAfter(p, i) = Held(i) - req[p].amount /\ req[p].amount \in Nat \ {0}
      BY <1>1, <2>2, <3>1, RefundTakes
    <3>3. HeldAfter(p, i) \in Nat /\ Held(i) \in Nat
      BY HeldAfterIsNatural
    <3>4. invoice[i].paidTotal = Held(i)
      BY <1>2 DEF MoneyInv, AccountOK
    <3>5. invoice[i].paidTotal # 0
      <4> HIDE DEF i
      <4> QED
        BY <3>2, <3>3, <3>4
    <3> QED
      BY <1>2, <3>5 DEF OfficeInv, StatusOK
  <2> QED
    BY <1>1, <2>1, <2>2
<1> DEFINE paid == Net(p)
           status == DeriveStatus(Payable(i, invoice[i]), paid, Overdue(i, today),
                                  invoice[i].status = "CANCELLED",
                                  sums[p].succ > 0 /\ paid <= 0)
<1>4. SettledRow(p) = [invoice[i] EXCEPT !.paidTotal = paid, !.status = status]
  BY <1>1 DEF OfficeOK, SettledRow
<1>5. invoice[i] \in InvoiceRow /\ Payable(i, invoice[i]) \in Nat
  BY <1>2, FeeAssumption DEF FeeAssumption, Payable, VerifiedInv, TypeOK, InvoiceRow
<1>6. paid \in Nat
  BY <1>1, <1>5 DEF Accepted
<1>7. /\ status # "CANCELLED"
      /\ status \in Outstanding => paid < Payable(i, invoice[i])
      /\ status = "PAID" => paid >= Payable(i, invoice[i])
  <2> HIDE DEF paid, i
  <2> QED
    BY <1>3, <1>5, <1>6 DEF DeriveStatus, Outstanding
<1> HIDE DEF paid, status
<1>8. /\ SettledRow(p).paidTotal = paid /\ SettledRow(p).status = status
      /\ SettledRow(p).fine = invoice[i].fine
  BY <1>4, <1>5 DEF InvoiceRow
<1> QED
  BY <1>2, <1>3, <1>7, <1>8 DEF StatusOK, Payable

LEMMA RefreshStatusOffice ==
  ASSUME AtTheTill, OneClerk, VerifiedInv, MoneyInv, OfficeInv, NEW p \in Procs,
         RefreshStatus(p)
  PROVE  OfficeInv'
<1> DEFINE i == Current(p)
<1>1. Settles(p) /\ req[p].pc = "write" /\ req[p].intx /\ OfficeOK(p)
  BY RefreshStatusEffect DEF RefreshStatus, MoneyInv, ProgressOK, Settling, OfficeInv
<1>2. /\ GoesOn(p) /\ UNCHANGED invoice
      /\ req'[p].wrote = [req[p].wrote EXCEPT ![i] = SettledRow(p)]
      /\ req'[p].pc \in {"commit", "insert"}
  BY <1>1, Zenon DEF Settles, AfterSettle
<1>3. /\ i \in Invoices /\ invoice[i].status # "CANCELLED"
      /\ SettledRow(p).status # "CANCELLED" /\ StatusOK(i, SettledRow(p))
  BY SettledRowOffice
<1>4. req[p].wrote \in [Invoices -> InvoiceRow \cup {None}]
  BY DEF VerifiedInv, TypeOK, Request
<1>5. ASSUME NEW j \in Invoices, req'[p].wrote[j] # None
      PROVE  /\ invoice[j].status # "CANCELLED" /\ req'[p].wrote[j].status # "CANCELLED"
             /\ StatusOK(j, req'[p].wrote[j])
  <2>1. CASE j = i
    BY <1>2, <1>3, <1>4, <2>1
  <2>2. CASE j # i
    BY <1>1, <1>2, <1>4, <1>5, <2>2 DEF OfficeOK
  <2> QED
    BY <2>1, <2>2
<1>6. req'[p].op = req[p].op /\ req'[p].alloc = req[p].alloc
  BY <1>2 DEF GoesOn
<1>7. req'[p].op = "collect" =>
        \A j \in Invoices : req'[p].alloc[j] > 0 => invoice[j].status # "CANCELLED"
  BY <1>1, <1>6 DEF OfficeOK
<1>8. OfficeOK(p)'
  BY <1>2, <1>5, <1>7 DEF OfficeOK, StatusOK, Payable
<1> QED
  BY <1>2, <1>8, OfficeMoves DEF OfficeInv

LEMMA CommitOffice ==
  ASSUME OneClerk, VerifiedInv, MoneyInv, OfficeInv, NEW p \in Procs, Commit(p)
  PROVE  OfficeInv'
<1>1. \A i \in Invoices : invoice'[i] = IF req[p].wrote[i] # None
                                          THEN req[p].wrote[i] ELSE invoice[i]
  BY DEF Commit
<1>2. \A i \in Invoices : StatusOK(i, invoice'[i])
  BY <1>1 DEF OfficeInv, OfficeOK
<1>3. req'[p] = IF req[p].op = "collect"
         THEN [Idle EXCEPT !.op = "collect", !.pc = "announce", !.rows = req[p].rows]
         ELSE Idle
  BY DEF Commit, VerifiedInv, TypeOK
<1>4. OfficeOK(p)'
  <2>1. CASE req[p].op = "collect"
    <3>1. req'[p].pc = "announce" /\ \A i \in Invoices : req'[p].wrote[i] = None
      BY <1>3, <2>1 DEF Idle
    <3> QED
      BY <3>1 DEF OfficeOK
  <2>2. CASE req[p].op # "collect"
    BY <1>3, <2>2, IdleOffice
  <2> QED
    BY <2>1, <2>2
<1> QED
  BY <1>2, <1>4, OfficeMoves

LEMMA CancelWriteEffect ==
  ASSUME VerifiedInv, OfficeInv, NEW p \in Procs, CancelWrite(p)
  PROVE  /\ Current(p) \in Invoices /\ invoice[Current(p)].paidTotal = 0
         /\ \A i \in Invoices :
              /\ invoice'[i].paidTotal = invoice[i].paidTotal
              /\ invoice'[i].fine = invoice[i].fine
              /\ invoice'[i].status =
                   IF i = Current(p) THEN "CANCELLED" ELSE invoice[i].status
<1>1. /\ req[p].pc = "cancel" /\ OfficeOK(p)
      /\ invoice' = [invoice EXCEPT ![Current(p)].status = "CANCELLED"]
      /\ invoice \in [Invoices -> InvoiceRow] /\ req[p].todo \in SUBSET Invoices
  BY DEF CancelWrite, OfficeInv, VerifiedInv, TypeOK, Request
<1>2. Current(p) \in req[p].todo
  BY <1>1, OldestIsMember DEF Current, OfficeOK
<1>3. Current(p) \in Invoices /\ invoice[Current(p)].paidTotal = 0
  BY <1>1, <1>2 DEF OfficeOK
<1>4. \A i \in Invoices :
              /\ invoice'[i].paidTotal = invoice[i].paidTotal
              /\ invoice'[i].fine = invoice[i].fine
              /\ invoice'[i].status =
                   IF i = Current(p) THEN "CANCELLED" ELSE invoice[i].status
  BY <1>1 DEF InvoiceRow
<1> QED
  BY <1>3, <1>4

LEMMA CancelWriteOffice ==
  ASSUME OneClerk, VerifiedInv, OfficeInv, NEW p \in Procs, CancelWrite(p)
  PROVE  OfficeInv'
<1>1. \A i \in Invoices : StatusOK(i, invoice'[i])
  BY CancelWriteEffect DEF OfficeInv, StatusOK, Payable, Outstanding
<1>2. req'[p] = Idle
  BY DEF CancelWrite, VerifiedInv, TypeOK
<1> QED
  BY <1>1, <1>2, IdleOffice, OfficeMoves

\* What a fine run writes, when nobody else has been at the invoice since.
ChargesFresh(p, i) ==
  /\ Fines(p, i)
  /\ invoice[i].status \in Outstanding
  /\ invoice'[i].fine \in Nat /\ invoice'[i].fine > invoice[i].fine
  /\ invoice'[i].paidTotal = invoice[i].paidTotal
  /\ invoice'[i].status # "CANCELLED"
  /\ StatusOK(i, invoice'[i])

LEMMA FineWriteFresh ==
  ASSUME VerifiedInv, OfficeInv, NEW p \in Procs, FineWrite(p)
  PROVE  \E i \in Invoices : ChargesFresh(p, i)
<1>1. PICK i \in Invoices : Fines(p, i)
  BY FineWriteEffect
<1> DEFINE row == invoice'[i]
<1>2. /\ req[p].seen[i] = invoice[i] /\ invoice[i].status \in Outstanding
      /\ FineCharge(i, invoice[i], today) > 0
  BY <1>1 DEF Fines, FineWrite, OfficeInv, OfficeOK
<1>3. /\ row.fine = invoice[i].fine + FineCharge(i, invoice[i], today)
      /\ row.paidTotal = invoice[i].paidTotal
      /\ row.status = DeriveStatus(Subtotal[i] + row.fine, row.paidTotal,
                        Overdue(i, today), invoice[i].status = "CANCELLED", FALSE)
  BY <1>1, <1>2 DEF Fines
<1>4. /\ invoice[i].fine \in Nat /\ invoice[i].paidTotal \in Nat
      /\ Subtotal[i] \in Nat
  BY FeeAssumption DEF FeeAssumption, VerifiedInv, TypeOK, InvoiceRow
<1>5. FineCharge(i, invoice[i], today) \in Nat
  BY <1>4, FeeAssumption DEF FineCharge, FeeAssumption
<1>6. row.fine \in Nat /\ row.fine > invoice[i].fine
  BY <1>2, <1>3, <1>4, <1>5
<1>7. /\ row.status # "CANCELLED"
      /\ row.status \in Outstanding => row.paidTotal < Subtotal[i] + row.fine
      /\ row.status = "PAID" => row.paidTotal >= Subtotal[i] + row.fine
  <2>1. invoice[i].status # "CANCELLED" /\ Subtotal[i] + row.fine \in Nat /\ row.paidTotal \in Nat
    BY <1>2, <1>3, <1>4, <1>6 DEF Outstanding
  <2> HIDE DEF row
  <2> QED
    BY <1>3, <2>1 DEF DeriveStatus, Outstanding
<1>8. StatusOK(i, row)
  BY <1>7 DEF StatusOK, Payable
<1> QED
  BY <1>1, <1>2, <1>3, <1>6, <1>7, <1>8 DEF ChargesFresh

LEMMA FineWriteOffice ==
  ASSUME OneClerk, VerifiedInv, FinesInv, MoneyInv, OfficeInv, NEW p \in Procs, FineWrite(p)
  PROVE  OfficeInv'
<1>1. PICK i \in Invoices : ChargesFresh(p, i)
  BY FineWriteFresh
<1>2. \A j \in Invoices \ {i} : invoice'[j] = invoice[j]
  BY <1>1 DEF ChargesFresh, Fines
<1>3. \A j \in Invoices : StatusOK(j, invoice'[j])
  BY <1>1, <1>2 DEF ChargesFresh, OfficeInv
<1>4. req[p].pc = "charge" /\ req[p].op = "fine" /\ req[p].todo \in SUBSET Invoices
  BY DEF FineWrite, VerifiedInv, CarriesOK, TypeOK, Request
<1>5. OfficeOK(p)'
  <2>1. CASE req' = [req EXCEPT ![p] = Idle]
    <3>1. req'[p] = Idle
      BY <2>1 DEF VerifiedInv, TypeOK
    <3> QED
      BY <3>1, IdleOffice
  <2>2. CASE req' # [req EXCEPT ![p] = Idle]
    <3>1. /\ req'[p].op = "fine" /\ req'[p].pc = "charge" /\ req'[p].wrote = req[p].wrote
          /\ req'[p].todo = req[p].todo \ {i} /\ UNCHANGED today
          /\ \A j \in Invoices \ {i} : req'[p].seen[j] = req[p].seen[j]
      BY <1>1, <1>4, <2>2 DEF ChargesFresh, Fines, GoesOn
    <3>2. \A j \in Invoices : req[p].wrote[j] = None
      BY <1>4 DEF FinesInv, MoneyInv, ProgressOK, Settling
    <3>3. ASSUME NEW j \in req'[p].todo
          PROVE  /\ req'[p].seen[j] = invoice'[j]
                 /\ invoice'[j].status \in Outstanding
                 /\ FineCharge(j, invoice'[j], today') > 0
      <4>1. j \in Invoices \ {i} /\ j \in req[p].todo
        BY <1>4, <3>1
      <4>2. /\ req[p].seen[j] = invoice[j]
            /\ invoice[j].status \in Outstanding
            /\ FineCharge(j, invoice[j], today) > 0
        BY <1>4, <4>1 DEF OfficeInv, OfficeOK
      <4> QED
        BY <1>2, <3>1, <4>1, <4>2
    <3> QED
      BY <3>1, <3>2, <3>3 DEF OfficeOK, FineCharge, Overdue
  <2> QED
    BY <2>1, <2>2
<1> QED
  BY <1>3, <1>5, OfficeMoves

LEMMA NothingMovesOffice ==
  ASSUME OfficeInv, UNCHANGED <<invoice, req>>,
         today' = today \/ \A p \in Procs : req[p].pc = "idle"
  PROVE  OfficeInv'
<1>1. \A i \in Invoices : StatusOK(i, invoice[i])'
  BY DEF OfficeInv, StatusOK, Payable
<1>2. ASSUME NEW p \in Procs PROVE OfficeOK(p)'
  <2>1. OfficeOK(p) /\ Current(p)' = Current(p)
    BY DEF OfficeInv, Current, Oldest
  <2>2. CASE today' = today
    BY <2>1, <2>2 DEF OfficeOK, StatusOK, Payable, FineCharge, Overdue
  <2>3. CASE req[p].pc = "idle"
    BY <2>1, <2>3 DEF OfficeOK, StatusOK, Payable
  <2> QED
    BY <2>2, <2>3
<1> QED
  BY <1>1, <1>2 DEF OfficeInv

LEMMA NextOffice ==
  ASSUME AtTheTill, OneClerk, VerifiedInv, FinesInv, MoneyInv, OfficeInv, [Next]_vars
  PROVE  OfficeInv'
<1>1. ASSUME NEW p \in Procs, Begin(p) PROVE OfficeInv'
  BY <1>1, BeginOffice
<1>2. ASSUME NEW p \in Procs, Continue(p) PROVE OfficeInv'
  <2>1. CASE InsertPayment(p) \/ InsertRefund(p) \/ SumSuccessful(p) \/ SumRefunded(p)
               \/ FindForSettle(p)
    BY <2>1, InTransactionOffice
  <2>2. CASE RefreshStatus(p)
    BY <2>2, RefreshStatusOffice
  <2>3. CASE RefuseSettle(p) \/ Announce(p)
    BY <2>3, OfficeCloses DEF RefuseSettle, Abort, Announce
  <2>4. CASE Commit(p)
    BY <2>4, CommitOffice
  <2>5. CASE CancelWrite(p)
    BY <2>5, CancelWriteOffice
  <2>6. CASE FineWrite(p)
    BY <2>6, FineWriteOffice
  <2>7. CASE CreatePending(p) \/ Verify(p) \/ MarkAll(p)
    <3>1. req[p].pc \in {"create", "verify", "mark"}
      BY <2>7 DEF CreatePending, Verify, MarkAll
    <3> QED
      BY <3>1 DEF MoneyInv, ProgressOK, Settling
  <2> QED
    BY <1>2, <2>1, <2>2, <2>3, <2>4, <2>5, <2>6, <2>7 DEF Continue
<1>3. ASSUME NEW p \in Procs, Fail(p) PROVE OfficeInv'
  BY <1>3, OfficeCloses DEF Fail, Abort
<1>4. CASE Tick \/ UNCHANGED vars \/ \E s \in Sessions : GatewayDecides(s)
  BY <1>4, NothingMovesOffice DEF Tick, GatewayDecides, vars
<1> QED
  BY <1>1, <1>2, <1>3, <1>4 DEF Next

LEMMA InitOffice == ASSUME Init PROVE OfficeInv
<1>1. ASSUME NEW i \in Invoices PROVE StatusOK(i, invoice[i])
  <2>1. /\ invoice[i].paidTotal = 0 /\ invoice[i].fine = 0 /\ Subtotal[i] \in Nat
        /\ invoice[i].status = DeriveStatus(Subtotal[i], 0, FALSE, FALSE, FALSE)
    BY FeeAssumption DEF Init, FeeAssumption
  <2>2. /\ invoice[i].status \in {"PAID", "UNPAID"}
        /\ invoice[i].status = "PAID" => 0 >= Subtotal[i]
        /\ invoice[i].status = "UNPAID" => 0 < Subtotal[i]
    BY <2>1 DEF DeriveStatus
  <2>3. Payable(i, invoice[i]) = Subtotal[i] /\ invoice[i].paidTotal = 0
    BY <2>1 DEF Payable
  <2> QED
    BY <2>2, <2>3 DEF StatusOK, Outstanding
<1>2. ASSUME NEW p \in Procs PROVE OfficeOK(p)
  BY DEF Init, Idle, OfficeOK
<1> QED
  BY <1>1, <1>2 DEF OfficeInv

THEOREM OfficeInvariant ==
  ASSUME AtTheTill, OneClerk
  PROVE  Spec => [](VerifiedInv /\ FinesInv /\ MoneyInv /\ OfficeInv)
<1>1. Init => OfficeInv
  BY InitOffice
<1>2. (VerifiedInv /\ FinesInv /\ MoneyInv) /\ OfficeInv /\ [Next]_vars => OfficeInv'
  BY NextOffice
<1> QED
  BY <1>1, <1>2, MoneyInvariant, PTL DEF Spec

\* With one clerk a cancelled invoice holds no money.
THEOREM CancelledInvoicesAreEmpty ==
  ASSUME AtTheTill, OneClerk
  PROVE  Spec => []CancelledHoldsNoMoney
<1>1. MoneyInv /\ OfficeInv => CancelledHoldsNoMoney
  BY DEF MoneyInv, AccountOK, OfficeInv, StatusOK, CancelledHoldsNoMoney
<1> QED
  BY <1>1, OfficeInvariant, PTL

\* With one clerk a bill that is still owed reads as one.
THEOREM DuesStayVisible ==
  ASSUME AtTheTill, OneClerk
  PROVE  Spec => []DuesAreSeen
<1>1. VerifiedInv /\ OfficeInv => DuesAreSeen
  <2> SUFFICES ASSUME VerifiedInv, OfficeInv, NEW i \in Invoices,
                      Due(i, invoice[i]) > 0,
                      invoice[i].status \notin {"CANCELLED", "REFUNDED"}
               PROVE  invoice[i].status \in Outstanding
    BY DEF DuesAreSeen
  <2>1. invoice[i].status \in InvoiceStatus /\ invoice[i].paidTotal \in Nat
        /\ Payable(i, invoice[i]) \in Nat
    BY FeeAssumption DEF FeeAssumption, VerifiedInv, TypeOK, InvoiceRow, Payable
  <2>2. invoice[i].paidTotal < Payable(i, invoice[i])
    BY <2>1 DEF Due
  <2>3. invoice[i].status # "PAID"
    BY <2>1, <2>2 DEF OfficeInv, StatusOK
  <2> QED
    BY <2>1, <2>3 DEF InvoiceStatus, Outstanding
<1> QED
  BY <1>1, OfficeInvariant, PTL

-----------------------------------------------------------------------------
(* The abstract account.  A transaction is one step of it, its commit; what  *)
(* comes before the commit, and what ends without one, does not move it.     *)

LEMMA AccountUnmoved ==
  ASSUME UNCHANGED invoice
  PROVE  UNCHANGED Account!vars
BY DEF Account!vars, Payable

LEMMA CommitMovesAccount ==
  ASSUME AtTheTill, VerifiedInv, FinesInv, MoneyInv, OfficeInv, NEW p \in Procs, Commit(p)
  PROVE  Account!Next
<1> DEFINE paid == [i \in Invoices |-> invoice[i].paidTotal]
<1>1. /\ req[p].intx /\ TransactionOK(p) /\ ProgressOK(p) /\ OfficeOK(p)
      /\ req[p].pc = "commit" /\ req[p].op \in {"collect", "refund"}
  BY CommitEffect DEF Commit, MoneyInv, ProgressOK, OfficeInv
<1>2. \A i \in Invoices : invoice'[i] = IF req[p].wrote[i] # None
                                          THEN req[p].wrote[i] ELSE invoice[i]
  BY DEF Commit
<1>3. ASSUME NEW i \in Invoices
      PROVE  /\ invoice'[i].fine = invoice[i].fine
             /\ invoice'[i].status = "CANCELLED" <=> invoice[i].status = "CANCELLED"
             /\ invoice'[i].paidTotal # invoice[i].paidTotal
                  => invoice[i].status # "CANCELLED"
  BY <1>1, <1>2 DEF FinesInv, SameFine, OfficeOK
<1>4. ASSUME NEW i \in Invoices
      PROVE  /\ invoice'[i].paidTotal = HeldAfter(p, i)
             /\ invoice[i].paidTotal = Held(i)
             /\ invoice'[i].paidTotal \in Nat /\ invoice[i].paidTotal \in Nat
             /\ Payable(i, invoice[i]) \in Nat
             /\ invoice'[i].paidTotal <= Payable(i, invoice[i])
  <2>1. /\ invoice[i].paidTotal = Held(i) /\ Payable(i, invoice[i]) \in Nat
        /\ invoice[i].paidTotal <= Payable(i, invoice[i])
    BY FeeAssumption DEF MoneyInv, AccountOK, FeeAssumption, VerifiedInv, TypeOK,
                         InvoiceRow, Payable
  <2>2. HeldAfter(p, i) \in Nat /\ Held(i) \in Nat
    BY HeldAfterIsNatural
  <2>3. CASE req[p].wrote[i] # None
    BY <1>1, <1>2, <2>1, <2>2, <2>3 DEF TransactionOK
  <2>4. CASE req[p].wrote[i] = None
    <3>1. ~Touches(p, i)
      BY <1>1, <2>4 DEF TransactionOK, Settling
    <3>2. HeldAfter(p, i) = Held(i)
      BY <1>1, <3>1, UntouchedHolds
    <3> QED
      BY <1>2, <2>1, <2>2, <2>4, <3>2
  <2> QED
    BY <2>3, <2>4
<1>5. /\ [i \in Invoices |-> Payable(i, invoice[i])]'
           = [i \in Invoices |-> Payable(i, invoice[i])]
      /\ {i \in Invoices : invoice[i].status = "CANCELLED"}'
           = {i \in Invoices : invoice[i].status = "CANCELLED"}
  BY <1>3 DEF Payable
<1>6. CASE req[p].op = "collect"
  <2>1. \A i \in Invoices : invoice[i].paidTotal <= invoice'[i].paidTotal
    BY <1>1, <1>4, <1>6, CollectionAdds
  <2>2. paid' \in [Invoices -> Nat]
    BY <1>4
  <2>3. \A i \in Invoices :
          \/ invoice'[i].paidTotal = invoice[i].paidTotal
          \/ /\ invoice[i].status # "CANCELLED"
             /\ invoice'[i].paidTotal \in invoice[i].paidTotal..Payable(i, invoice[i])
    BY <1>3, <1>4, <2>1
  <2>4. Account!Pay
    BY <1>5, <2>2, <2>3 DEF Account!Pay
  <2> QED
    BY <2>4 DEF Account!Next
<1>7. CASE req[p].op = "refund"
  <2>0. PICK i \in Invoices : i = payment[req[p].pay].inv
    BY <1>1, <1>7, RefundTakes
  <2>1. HeldAfter(p, i) = Held(i) - req[p].amount /\ req[p].amount \in Nat \ {0}
    BY <1>1, <1>7, <2>0, RefundTakes
  <2>2. \A j \in Invoices \ {i} : ~Touches(p, j)
    BY <1>7, <2>0 DEF Touches, Hidden
  <2>3. \A j \in Invoices \ {i} : invoice'[j].paidTotal = invoice[j].paidTotal
    BY <1>1, <1>4, <2>2, UntouchedHolds
  <2>4. /\ invoice[i].paidTotal > 0
        /\ invoice'[i].paidTotal \in 0..(invoice[i].paidTotal - 1)
    <3>1. /\ invoice'[i].paidTotal = invoice[i].paidTotal - req[p].amount
          /\ invoice'[i].paidTotal \in Nat /\ invoice[i].paidTotal \in Nat
      BY <1>4, <2>1
    <3> QED
      BY <2>1, <3>1
  <2>5. paid' = [paid EXCEPT ![i] = invoice'[i].paidTotal]
    BY <2>1, <2>3
  <2>6. paid[i] = invoice[i].paidTotal
    BY <2>1
  <2>7. Account!GiveBack(i)
    BY <1>5, <2>4, <2>5, <2>6 DEF Account!GiveBack
  <2> QED
    BY <2>7 DEF Account!Next
<1> QED
  BY <1>1, <1>6, <1>7

LEMMA CancelMovesAccount ==
  ASSUME VerifiedInv, OfficeInv, NEW p \in Procs, CancelWrite(p)
  PROVE  Account!Next
<1>0. PICK i \in Invoices : i = Current(p)
  BY CancelWriteEffect
<1>1. /\ invoice[i].paidTotal = 0
      /\ \A j \in Invoices :
           /\ invoice'[j].paidTotal = invoice[j].paidTotal
           /\ invoice'[j].fine = invoice[j].fine
           /\ invoice'[j].status = IF j = i THEN "CANCELLED" ELSE invoice[j].status
  BY <1>0, CancelWriteEffect
<1>2. /\ [j \in Invoices |-> Payable(j, invoice[j])]'
           = [j \in Invoices |-> Payable(j, invoice[j])]
      /\ [j \in Invoices |-> invoice[j].paidTotal]'
           = [j \in Invoices |-> invoice[j].paidTotal]
  BY <1>1 DEF Payable
<1>3. {j \in Invoices : invoice[j].status = "CANCELLED"}'
        = {j \in Invoices : invoice[j].status = "CANCELLED"} \cup {i}
  BY <1>1
<1>4. Account!Close(i)
  BY <1>1, <1>2, <1>3 DEF Account!Close
<1> QED
  BY <1>4 DEF Account!Next

LEMMA FineMovesAccount ==
  ASSUME VerifiedInv, OfficeInv, NEW p \in Procs, FineWrite(p)
  PROVE  Account!Next
<1> DEFINE owed == [j \in Invoices |-> Payable(j, invoice[j])]
<1>1. PICK i \in Invoices : ChargesFresh(p, i)
  BY FineWriteFresh
<1>2. /\ \A j \in Invoices \ {i} : invoice'[j] = invoice[j]
      /\ invoice[i].status \in Outstanding /\ invoice'[i].status # "CANCELLED"
      /\ invoice'[i].fine \in Nat /\ invoice'[i].fine > invoice[i].fine
      /\ invoice'[i].paidTotal = invoice[i].paidTotal
  BY <1>1 DEF ChargesFresh, Fines
<1>3. invoice[i].status # "CANCELLED"
  BY <1>2 DEF Outstanding
<1>4. invoice[i].paidTotal < Payable(i, invoice[i])
  BY <1>2 DEF OfficeInv, StatusOK
<1>5. invoice[i].fine \in Nat /\ Subtotal[i] \in Nat
  BY FeeAssumption DEF FeeAssumption, VerifiedInv, TypeOK, InvoiceRow
<1>6. owed'[i] > owed[i] /\ owed' = [owed EXCEPT ![i] = owed'[i]]
  <2>1. owed' = [j \in Invoices |-> Subtotal[j] + invoice'[j].fine]
    BY DEF Payable
  <2>2. owed = [j \in Invoices |-> Subtotal[j] + invoice[j].fine]
    BY DEF Payable
  <2> HIDE DEF owed
  <2> QED
    BY <1>2, <1>5, <2>1, <2>2
<1>7. /\ [j \in Invoices |-> invoice[j].paidTotal]'
           = [j \in Invoices |-> invoice[j].paidTotal]
      /\ {j \in Invoices : invoice[j].status = "CANCELLED"}'
           = {j \in Invoices : invoice[j].status = "CANCELLED"}
  BY <1>2, <1>3
<1>8. Account!Charge(i)
  BY <1>3, <1>4, <1>6, <1>7 DEF Account!Charge
<1> QED
  BY <1>8 DEF Account!Next

LEMMA StepMovesAccount ==
  ASSUME AtTheTill, VerifiedInv, FinesInv, MoneyInv, OfficeInv, [Next]_vars
  PROVE  [Account!Next]_Account!vars
<1>1. ASSUME NEW p \in Procs, Begin(p) PROVE UNCHANGED invoice
  BY <1>1 DEF Begin, Collect, Refund, Cancel, FineRun, Initiate, HandleCallback, Reconcile
<1>2. ASSUME NEW p \in Procs, Continue(p) PROVE UNCHANGED invoice \/ Account!Next
  <2>1. CASE InsertPayment(p) \/ InsertRefund(p) \/ SumSuccessful(p) \/ SumRefunded(p)
             \/ FindForSettle(p) \/ RefuseSettle(p) \/ Announce(p)
             \/ CreatePending(p) \/ Verify(p) \/ MarkAll(p)
    BY <2>1 DEF InsertPayment, InsertRefund, SumSuccessful, SumRefunded, FindForSettle,
                RefuseSettle, Abort, Announce, CreatePending, Verify, MarkAll
  <2>2. CASE RefreshStatus(p)
    <3>1. req[p].intx
      BY <2>2 DEF RefreshStatus, MoneyInv, ProgressOK, Settling
    <3> QED
      BY <2>2, <3>1 DEF RefreshStatus
  <2>3. CASE Commit(p)
    BY <2>3, CommitMovesAccount
  <2>4. CASE CancelWrite(p)
    BY <2>4, CancelMovesAccount
  <2>5. CASE FineWrite(p)
    BY <2>5, FineMovesAccount
  <2> QED
    BY <1>2, <2>1, <2>2, <2>3, <2>4, <2>5 DEF Continue
<1>3. ASSUME NEW p \in Procs, Fail(p) PROVE UNCHANGED invoice
  BY <1>3 DEF Fail, Abort
<1>4. CASE Tick \/ UNCHANGED vars \/ \E s \in Sessions : GatewayDecides(s)
  BY <1>4, AccountUnmoved DEF Tick, GatewayDecides, vars
<1> QED
  BY <1>1, <1>2, <1>3, <1>4, AccountUnmoved DEF Next

\* With one clerk the fee module keeps the account it promises: money is put on
\* invoices and given back in whole transactions, never beyond what is asked or
\* what is there, and an invoice is cancelled for good.
THEOREM OneClerkKeepsTheAccount ==
  ASSUME AtTheTill, OneClerk
  PROVE  Spec => ImplementsAccount
<1>1. Init => Account!Init
  BY FeeAssumption DEF Init, Account!Init, FeeAssumption, Payable, DeriveStatus
<1>2. (VerifiedInv /\ FinesInv /\ MoneyInv /\ OfficeInv) /\ [Next]_vars
        => [Account!Next]_Account!vars
  BY StepMovesAccount
<1> QED
  BY <1>1, <1>2, OfficeInvariant, PTL DEF Spec, ImplementsAccount, Account!Spec
=============================================================================
