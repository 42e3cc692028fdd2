-------------------------- MODULE FeeLedger_proofs --------------------------
(***************************************************************************)
(* Facts about FeeLedger for any number of invoices, payments, sessions    *)
(* and requests, any bounds and any gateway: its state is well typed,      *)
(* online money is only ever what the gateway confirmed, late fines are    *)
(* charged once a month; and, where callbacks name their session and       *)
(* nothing is refunded, a checkout has one verdict, which stays where      *)
(* requests do not overlap.                                                *)
(*                                                                         *)
(* OnlyVerifiedMoney speaks of the payments table.  What makes it          *)
(* inductive is what the requests in flight carry: the rows a verifying    *)
(* request will mark belong to the session it asked about, the verdict it  *)
(* brings along is still the gateway's, the payment a refund is about to   *)
(* write was verified when it was picked, and no transaction that rolls    *)
(* back takes one of those rows with it.                                   *)
(*                                                                         *)
(* FineOncePerMonth holds because a fine run writes an absolute fine: a    *)
(* row is either as the run first read it, or another run of the same      *)
(* month has already put on it what this one is about to write.            *)
(*                                                                         *)
(* SessionIsOneVerdict holds because the rows of a session appear in one   *)
(* transaction, before anybody can ask about it, and every request that    *)
(* asks holds all of them: FreshSession and WholeSession.                  *)
(*                                                                         *)
(* The section on handlers says once what each step does to the request it *)
(* serves, field by field; FeeMoney_proofs uses it too.                    *)
(***************************************************************************)
EXTENDS FeeLedger, WellFoundedInduction, TLAPS

-----------------------------------------------------------------------------
(* The inductive invariant. *)

\* A row stands for money of a session only if the gateway took it.
Backed(x) ==
  payment[x].ref # None => gateway[payment[x].ref] = "SUCCESS"

\* What holds of a row of the payments table.
RowOK(x) ==
  /\ payment[x].status # "absent" => payment[x].inv \in Invoices
  /\ payment[x].ref # None => gateway[payment[x].ref] # "unopened"
  /\ payment[x].status \in {"SUCCESS", "REFUNDED"} => Backed(x)

\* What a request in flight carries from one step to the next.
CarriesOK(p) ==
  LET r == req[p]
  IN  /\ r.pc = "insert" => /\ r.todo # {}
                            /\ r.op \in {"collect", "refund"}
                            /\ ~r.intx => r.rows = {}
      /\ r.intx => r.op \in {"collect", "refund"}
      /\ r.pc = "refund" => r.op = "refund"
      /\ r.pc = "charge" => /\ r.op = "fine" /\ r.rows = {}
                            /\ \A i \in r.todo : r.seen[i] \in InvoiceRow
      /\ r.pc = "create" => r.ref # None /\ gateway[r.ref] # "unopened"
      /\ r.pc \in {"verify", "mark"} =>
           /\ r.op \in {"callback", "reconcile"}
           /\ r.ref # None /\ gateway[r.ref] # "unopened"
      /\ r.pc = "mark" => /\ r.verdict # "none"
                          /\ r.verdict = "SUCCESS" => gateway[r.ref] = "SUCCESS"

\* The rows a request holds on to: they exist, no other transaction can take
\* them back, and they are rows of the kind its handler looked for.
HoldsOK(p) ==
  LET r == req[p]
  IN  /\ \A x \in r.rows : /\ payment[x].status # "absent"
                           /\ \A q \in Procs \ {p} : x \notin Hidden(q)
                           /\ r.op = "collect" => payment[x].ref = None
                           /\ r.op \in {"callback", "reconcile"}
                                => payment[x].ref = r.ref
      /\ r.op = "refund" =>
           /\ r.pay # None
           /\ payment[r.pay].status # "absent"
           /\ Backed(r.pay)
           /\ \A q \in Procs : r.pay \notin Hidden(q)

VerifiedInv ==
  /\ TypeOK
  /\ \A x \in Payments : RowOK(x)
  /\ \A p \in Procs : CarriesOK(p) /\ HoldsOK(p)

-----------------------------------------------------------------------------
(* Lemmas. *)

\* A nonempty set of naturals has a least element.
LEMMA Smallest ==
  ASSUME NEW T \in SUBSET Nat, T # {}
  PROVE  \E x \in T : \A y \in T : x <= y
<1> DEFINE R == OpToRel(<, Nat)
<1>1. \A x, y \in Nat : y < x => <<y, x>> \in R
  BY DEF OpToRel
<1>2. IsWellFoundedOn(R, Nat)
  BY NatLessThanWellFounded
<1> HIDE DEF R
<1>3. PICK x \in T : \A y \in T : <<y, x>> \notin R
  BY <1>2, WFMin
<1>4. \A y \in T : ~(y < x)
  BY <1>1, <1>3
<1> QED
  BY <1>4

\* The invoice whose turn it is is one of those still to be worked off.
LEMMA OldestIsMember ==
  ASSUME NEW S \in SUBSET Invoices, S # {}
  PROVE  Oldest(S) \in S
<1> DEFINE D == {DueOn[i] : i \in S}
<1>1. D \in SUBSET Nat /\ D # {}
  BY FeeAssumption DEF FeeAssumption
<1>2. PICK d \in D : \A e \in D : d <= e
  BY <1>1, Smallest
<1>3. PICK i \in S : DueOn[i] = d
  BY <1>2
<1>4. \A j \in S : DueOn[i] <= DueOn[j]
  BY <1>2, <1>3
<1> QED
  BY <1>3, <1>4 DEF Oldest

LEMMA IdleIsRequest == Idle \in Request
  BY DEF Idle, Request, PCs, OpNames

\* A step that only moves one request along disturbs nothing that the others,
\* or the table, are held to.
LEMMA OneRequestMoves ==
  ASSUME VerifiedInv, NEW p \in Procs,
         req' \in [Procs -> Request],
         \A q \in Procs \ {p} : req'[q] = req[q],
         UNCHANGED <<payment, gateway>>,
         Hidden(p)' \subseteq Hidden(p),
         CarriesOK(p)', HoldsOK(p)'
  PROVE  /\ \A x \in Payments : RowOK(x)'
         /\ \A q \in Procs : CarriesOK(q)' /\ HoldsOK(q)'
<1>1. \A x \in Payments : RowOK(x)'
  BY DEF VerifiedInv, RowOK, Backed
<1>2. \A q \in Procs : Hidden(q)' \subseteq Hidden(q)
  BY DEF Hidden
<1>3. ASSUME NEW q \in Procs \ {p} PROVE CarriesOK(q)'
  BY <1>3 DEF VerifiedInv, CarriesOK
<1>4. ASSUME NEW q \in Procs \ {p} PROVE HoldsOK(q)'
  BY <1>2, <1>4 DEF VerifiedInv, HoldsOK, Backed
<1> QED
  BY <1>1, <1>3, <1>4

\* A request that goes on with the rows, the payment and the session it had.
LEMMA RequestMovesOn ==
  ASSUME VerifiedInv, NEW p \in Procs, NEW r \in Request,
         req' = [req EXCEPT ![p] = r],
         UNCHANGED <<payment, gateway>>,
         r.op = req[p].op, r.intx = req[p].intx, r.rows = req[p].rows,
         r.pay = req[p].pay, r.ref = req[p].ref,
         r.pc \notin {"refund", "charge", "create", "verify", "mark"},
         r.pc = "insert" => r.todo # {} /\ r.intx
  PROVE  /\ req' \in [Procs -> Request]
         /\ \A x \in Payments : RowOK(x)'
         /\ \A q \in Procs : CarriesOK(q)' /\ HoldsOK(q)'
<1>1. req' \in [Procs -> Request] /\ \A q \in Procs \ {p} : req'[q] = req[q]
  BY DEF VerifiedInv, TypeOK
<1>2. req'[p] = r
  BY DEF VerifiedInv, TypeOK
<1>3. Hidden(p)' = Hidden(p) /\ CarriesOK(p)'
  BY <1>2 DEF VerifiedInv, CarriesOK, Hidden
<1>4. \A q \in Procs : Hidden(q)' = Hidden(q)
  BY <1>1, <1>3 DEF Hidden
<1>5. HoldsOK(p)'
  BY <1>2, <1>4 DEF VerifiedInv, HoldsOK, Backed
<1> QED
  BY <1>1, <1>3, <1>5, OneRequestMoves

\* A request that holds on to no row: a new one that only looked at invoices, or
\* the idle state a finished one leaves behind.
LEMMA RequestHoldsNothing ==
  ASSUME VerifiedInv, NEW p \in Procs, NEW r \in Request,
         req' = [req EXCEPT ![p] = r],
         UNCHANGED <<payment, gateway>>,
         r.op # "refund", ~r.intx, r.rows = {},
         r.pc \in {"idle", "cancel", "charge"},
         r.pc = "charge" => /\ r.op = "fine"
                            /\ \A i \in r.todo : r.seen[i] \in InvoiceRow
  PROVE  /\ req' \in [Procs -> Request]
         /\ \A x \in Payments : RowOK(x)'
         /\ \A q \in Procs : CarriesOK(q)' /\ HoldsOK(q)'
<1>1. req' \in [Procs -> Request] /\ \A q \in Procs \ {p} : req'[q] = req[q]
  BY DEF VerifiedInv, TypeOK
<1>2. req'[p] = r
  BY DEF VerifiedInv, TypeOK
<1>3. Hidden(p)' = {} /\ CarriesOK(p)' /\ HoldsOK(p)'
  BY <1>2 DEF CarriesOK, HoldsOK, Hidden
<1> QED
  BY <1>1, <1>3, OneRequestMoves

\* A request that writes payment rows leaves the others theirs, as long as it only
\* empties rows that nobody else could see and only fills rows that were empty.
LEMMA OthersKeepTheirRows ==
  ASSUME VerifiedInv, NEW p \in Procs,
         \A q \in Procs \ {p} : req'[q] = req[q],
         UNCHANGED gateway,
         \A x \in Payments \ Hidden(p) :
           payment[x].status # "absent" => /\ payment'[x].status # "absent"
                                           /\ payment'[x].ref = payment[x].ref,
         \A x \in Hidden(p)' : x \in Hidden(p) \/ payment[x].status = "absent"
  PROVE  \A q \in Procs \ {p} : CarriesOK(q)' /\ HoldsOK(q)'
<1> SUFFICES ASSUME NEW q \in Procs \ {p}
             PROVE  CarriesOK(q)' /\ HoldsOK(q)'
  OBVIOUS
<1>1. CarriesOK(q)'
  BY DEF VerifiedInv, CarriesOK
<1>2. req[q].rows \subseteq Payments /\ req[q].pay \in Payments \cup {None}
  BY DEF VerifiedInv, TypeOK, Request
<1>3. ASSUME NEW x \in Payments, payment[x].status # "absent",
             \A s \in Procs \ {q} : x \notin Hidden(s)
      PROVE  /\ \A s \in Procs \ {q} : x \notin Hidden(s)'
             /\ payment'[x].status # "absent" /\ payment'[x].ref = payment[x].ref
  <2>1. x \notin Hidden(p) /\ x \notin Hidden(p)'
    BY <1>3
  <2>2. \A s \in Procs \ {p} : Hidden(s)' = Hidden(s)
    BY DEF Hidden
  <2> QED
    BY <1>3, <2>1, <2>2
<1>4. Hidden(q)' = Hidden(q)
  BY DEF Hidden
<1>5. \A x \in req'[q].rows :
        /\ payment'[x].status # "absent"
        /\ \A s \in Procs \ {q} : x \notin Hidden(s)'
        /\ req'[q].op = "collect" => payment'[x].ref = None
        /\ req'[q].op \in {"callback", "reconcile"} => payment'[x].ref = req'[q].ref
  BY <1>2, <1>3 DEF VerifiedInv, HoldsOK
<1>6. ASSUME req[q].op = "refund"
      PROVE  /\ req[q].pay # None
             /\ payment'[req[q].pay].status # "absent"
             /\ payment'[req[q].pay].ref = payment[req[q].pay].ref
             /\ Backed(req[q].pay)
             /\ \A s \in Procs : req[q].pay \notin Hidden(s)'
  <2>1. /\ req[q].pay \in Payments /\ payment[req[q].pay].status # "absent"
        /\ Backed(req[q].pay)
        /\ \A s \in Procs : req[q].pay \notin Hidden(s)
    BY <1>2, <1>6 DEF VerifiedInv, HoldsOK
  <2> QED
    BY <1>2, <1>3, <1>4, <1>6, <2>1 DEF VerifiedInv, HoldsOK
<1>7. HoldsOK(q)'
  BY <1>5, <1>6 DEF HoldsOK, Backed
<1> QED
  BY <1>1, <1>7

-----------------------------------------------------------------------------
(* One lemma per action. *)

LEMMA CollectStep ==
  ASSUME VerifiedInv, NEW p \in Procs, Collect(p)
  PROVE  VerifiedInv'
<1>1. PICK c \in Counters, alloc \in [Invoices -> Nat] :
        /\ \E i \in Invoices : alloc[i] > 0
        /\ req' = [req EXCEPT ![p] = Collecting(c, alloc)]
  <2>1. PICK amount \in 1..MaxAmount, c \in Counters :
          \E alloc \in [Invoices -> 0..amount] :
            /\ \E due : IsAllocation(alloc, amount, due)
            /\ req' = [req EXCEPT ![p] = Collecting(c, alloc)]
    BY Zenon DEF Collect
  <2>2. [Invoices -> 0..amount] \subseteq [Invoices -> Nat]
    OBVIOUS
  <2> QED
    BY <2>1, <2>2, Zenon DEF IsAllocation
<1>2. Collecting(c, alloc) \in Request
  BY IdleIsRequest DEF Collecting, Request, OpNames, PCs
<1>3. req' \in [Procs -> Request] /\ \A q \in Procs \ {p} : req'[q] = req[q]
  BY <1>1, <1>2 DEF VerifiedInv, TypeOK
<1>4. CarriesOK(p)' /\ HoldsOK(p)' /\ Hidden(p)' = {}
  BY <1>1 DEF VerifiedInv, TypeOK, Collecting, Idle, CarriesOK, HoldsOK, Hidden
<1>5. TypeOK' /\ UNCHANGED <<payment, gateway>>
  BY <1>3 DEF VerifiedInv, TypeOK, Collect
<1> QED
  BY <1>3, <1>4, <1>5, OneRequestMoves DEF VerifiedInv

LEMMA RefundStep ==
  ASSUME VerifiedInv, NEW p \in Procs, Refund(p)
  PROVE  VerifiedInv'
<1>1. PICK x \in Committed, amount \in 1..MaxAmount :
        /\ payment[x].status = "SUCCESS"
        /\ req' = [req EXCEPT ![p] =
             [Idle EXCEPT !.op = "refund", !.pc = "refund", !.pay = x,
                          !.amount = amount, !.sofar = payment[x].refunded]]
  BY DEF Refund
<1>2. /\ x \in Payments /\ x # None
      /\ \A q \in Procs : x \notin Hidden(q)
      /\ Backed(x)
  BY <1>1, FeeAssumption DEF FeeAssumption, Committed, VerifiedInv, RowOK
<1>3. [Idle EXCEPT !.op = "refund", !.pc = "refund", !.pay = x,
                   !.amount = amount, !.sofar = payment[x].refunded] \in Request
  <2>1. amount \in Nat /\ payment[x].refunded \in Nat
    BY <1>2, FeeAssumption DEF FeeAssumption, VerifiedInv, TypeOK, PaymentRow
  <2>2. "refund" \in OpNames \cup {"none"} /\ "refund" \in PCs
    BY DEF OpNames, PCs
  <2> QED
    BY <1>2, <2>1, <2>2, IdleIsRequest DEF Request
<1>4. req' \in [Procs -> Request] /\ \A q \in Procs \ {p} : req'[q] = req[q]
  BY <1>1, <1>3 DEF VerifiedInv, TypeOK
<1>5. UNCHANGED <<payment, gateway>> /\ TypeOK'
  BY <1>4 DEF VerifiedInv, TypeOK, Refund
<1>6. Hidden(p)' = {} /\ CarriesOK(p)'
  BY <1>1 DEF VerifiedInv, TypeOK, Idle, CarriesOK, Hidden
<1>7. HoldsOK(p)'
  BY <1>1, <1>2, <1>4, <1>5, <1>6
  DEF VerifiedInv, TypeOK, Idle, HoldsOK, Hidden, Backed
<1> QED
  BY <1>4, <1>5, <1>6, <1>7, OneRequestMoves DEF VerifiedInv

LEMMA InsertRefundStep ==
  ASSUME VerifiedInv, NEW p \in Procs, InsertRefund(p)
  PROVE  VerifiedInv'
<1>1. req[p] \in Request /\ req[p].op = "refund" /\ req[p].pay \in Payments
  BY DEF VerifiedInv, TypeOK, CarriesOK, HoldsOK, Request, InsertRefund
<1>2. payment[req[p].pay].inv \in Invoices
  BY <1>1 DEF VerifiedInv, HoldsOK, RowOK
<1>3. req' = [req EXCEPT ![p].intx = TRUE, ![p].todo = {payment[req[p].pay].inv},
                         ![p].pc = "sumSuccessful"]
  BY DEF InsertRefund
<1>4. req' \in [Procs -> Request] /\ \A q \in Procs \ {p} : req'[q] = req[q]
  <2>1. [req[p] EXCEPT !.intx = TRUE, !.todo = {payment[req[p].pay].inv},
                       !.pc = "sumSuccessful"] \in Request
    BY <1>1, <1>2 DEF Request, PCs
  <2> QED
    BY <1>3, <2>1 DEF VerifiedInv, TypeOK
<1>5. UNCHANGED <<payment, gateway>> /\ TypeOK'
  BY <1>4 DEF VerifiedInv, TypeOK, InsertRefund
<1>6. /\ req'[p].op = "refund" /\ req'[p].pc = "sumSuccessful"
      /\ req'[p].rows = req[p].rows /\ req'[p].pay = req[p].pay
  BY <1>1, <1>3 DEF VerifiedInv, TypeOK, Request
<1>7. Hidden(p)' = {} /\ CarriesOK(p)'
  BY <1>6 DEF CarriesOK, Hidden
<1>8. \A q \in Procs : Hidden(q)' \subseteq Hidden(q)
  BY <1>4, <1>7 DEF Hidden
<1>9. HoldsOK(p)'
  BY <1>1, <1>5, <1>6, <1>8 DEF VerifiedInv, HoldsOK, Backed
<1> QED
  BY <1>4, <1>5, <1>7, <1>9, OneRequestMoves DEF VerifiedInv

\* The three reads of a settle.
LEMMA SettleReadStep ==
  ASSUME VerifiedInv, NEW p \in Procs,
         SumSuccessful(p) \/ SumRefunded(p) \/ FindForSettle(p)
  PROVE  VerifiedInv'
<1>1. req[p] \in Request
  BY DEF VerifiedInv, TypeOK
<1>2. PICK r \in Request :
        /\ req' = [req EXCEPT ![p] = r]
        /\ r.op = req[p].op /\ r.intx = req[p].intx /\ r.rows = req[p].rows
        /\ r.pay = req[p].pay /\ r.ref = req[p].ref
        /\ r.pc \in {"sumRefunded", "find", "write"}
  <2>1. CASE SumSuccessful(p)
    <3>1. [req[p] EXCEPT !.pc = "sumRefunded"] \in Request
      BY <1>1 DEF Request, PCs
    <3>2. req' = [req EXCEPT ![p] = [req[p] EXCEPT !.pc = "sumRefunded"]]
      BY <2>1 DEF SumSuccessful, VerifiedInv, TypeOK
    <3> QED
      BY <1>1, <3>1, <3>2 DEF Request
  <2>2. CASE SumRefunded(p)
    <3>1. [req[p] EXCEPT !.pc = "find"] \in Request
      BY <1>1 DEF Request, PCs
    <3>2. req' = [req EXCEPT ![p] = [req[p] EXCEPT !.pc = "find"]]
      BY <2>2 DEF SumRefunded, VerifiedInv, TypeOK
    <3> QED
      BY <1>1, <3>1, <3>2 DEF Request
  <2>3. CASE FindForSettle(p)
    <3> DEFINE i == Current(p)
               r == [req[p] EXCEPT !.seen = [@ EXCEPT ![i] = invoice[i]],
                                   !.pc = "write"]
    <3>1. [req[p].seen EXCEPT ![i] = invoice[i]] \in [Invoices -> InvoiceRow \cup {None}]
      BY <1>1 DEF Request, VerifiedInv, TypeOK
    <3>2. r \in Request
      BY <1>1, <3>1 DEF Request, PCs
    <3>3. req' = [req EXCEPT ![p] = r]
      BY <2>3 DEF FindForSettle, VerifiedInv, TypeOK
    <3> QED
      BY <1>1, <3>2, <3>3 DEF Request
  <2> QED
    BY <2>1, <2>2, <2>3
<1>3. /\ UNCHANGED <<today, invoice, payment, gateway, announced, fails>>
  BY DEF SumSuccessful, SumRefunded, FindForSettle
<1>4. /\ req' \in [Procs -> Request]
      /\ \A x \in Payments : RowOK(x)'
      /\ \A q \in Procs : CarriesOK(q)' /\ HoldsOK(q)'
  BY <1>2, <1>3, RequestMovesOn
<1> QED
  BY <1>3, <1>4 DEF VerifiedInv, TypeOK

LEMMA RefreshStatusStep ==
  ASSUME VerifiedInv, NEW p \in Procs, RefreshStatus(p)
  PROVE  VerifiedInv'
<1> DEFINE i == Current(p)
           left == req[p].todo \ {i}
           w == IF req[p].intx THEN SettledRow(p) ELSE None
           r == [req[p] EXCEPT !.wrote = [@ EXCEPT ![i] = w],
                               !.seen = [@ EXCEPT ![i] = None],
                               !.todo = left, !.pc = AfterSettle(p, left)]
<1>1. req[p] \in Request
  BY DEF VerifiedInv, TypeOK
<1>2. i \in Invoices => SettledRow(p) \in InvoiceRow
  <2>1. ASSUME i \in Invoices PROVE Net(p) \in Nat /\ invoice[i] \in InvoiceRow
    BY <2>1, FeeAssumption
    DEF RefreshStatus, Accepted, Payable, FeeAssumption, VerifiedInv, TypeOK, InvoiceRow
  <2> QED
    BY <2>1 DEF SettledRow, DeriveStatus, InvoiceRow, InvoiceStatus
<1>3. r \in Request
  <2>1. [req[p].wrote EXCEPT ![i] = w] \in [Invoices -> InvoiceRow \cup {None}]
    BY <1>1, <1>2 DEF Request
  <2>2. [req[p].seen EXCEPT ![i] = None] \in [Invoices -> InvoiceRow \cup {None}]
    BY <1>1 DEF Request
  <2>3. AfterSettle(p, left) \in PCs /\ left \in SUBSET Invoices
    BY <1>1 DEF AfterSettle, PCs, Request
  <2> QED
    BY <1>1, <2>1, <2>2, <2>3 DEF Request
<1>4. req' = [req EXCEPT ![p] = r]
  BY ZenonT(40) DEF RefreshStatus, VerifiedInv, TypeOK
<1>5. invoice' \in [Invoices -> InvoiceRow]
  BY <1>2 DEF RefreshStatus, VerifiedInv, TypeOK
<1>6. /\ r.pc \in {"commit", "insert", "announce", "sumSuccessful"}
      /\ r.pc = "insert" => left # {} /\ req[p].intx
  BY <1>1 DEF AfterSettle, Request
<1>7. UNCHANGED <<today, payment, gateway, announced, fails>>
  BY DEF RefreshStatus
<1>8. /\ r.op = req[p].op /\ r.intx = req[p].intx /\ r.rows = req[p].rows
      /\ r.pay = req[p].pay /\ r.ref = req[p].ref /\ r.todo = left
  BY <1>1 DEF Request
<1> HIDE DEF r
<1>9. /\ req' \in [Procs -> Request]
      /\ \A x \in Payments : RowOK(x)'
      /\ \A q \in Procs : CarriesOK(q)' /\ HoldsOK(q)'
  BY <1>3, <1>4, <1>6, <1>7, <1>8, RequestMovesOn
<1> QED
  BY <1>5, <1>7, <1>9 DEF VerifiedInv, TypeOK

LEMMA AnnounceStep ==
  ASSUME VerifiedInv, NEW p \in Procs, Announce(p)
  PROVE  VerifiedInv'
<1>1. /\ req' = [req EXCEPT ![p] = Idle]
      /\ announced' = announced \cup req[p].rows
      /\ UNCHANGED <<today, invoice, payment, gateway, fails>>
  BY DEF Announce
<1>2. /\ req' \in [Procs -> Request]
      /\ \A x \in Payments : RowOK(x)'
      /\ \A q \in Procs : CarriesOK(q)' /\ HoldsOK(q)'
  <2>1. Idle.op = "none" /\ Idle.intx = FALSE /\ Idle.rows = {} /\ Idle.pc = "idle"
    BY DEF Idle
  <2> QED
    BY <1>1, <2>1, IdleIsRequest, RequestHoldsNothing
<1>3. announced' \subseteq Payments
  BY <1>1 DEF VerifiedInv, TypeOK, Request
<1> QED
  BY <1>1, <1>2, <1>3 DEF VerifiedInv, TypeOK

LEMMA CancelStep ==
  ASSUME VerifiedInv, NEW p \in Procs, Cancel(p)
  PROVE  VerifiedInv'
<1>1. PICK i \in Invoices :
        req' = [req EXCEPT ![p] = [Idle EXCEPT !.op = "cancel", !.pc = "cancel",
                                               !.todo = {i}]]
  BY DEF Cancel
<1> DEFINE r == [Idle EXCEPT !.op = "cancel", !.pc = "cancel", !.todo = {i}]
<1>2. r \in Request
  BY ZenonT(40), IdleIsRequest DEF Request, OpNames, PCs
<1>3. r.op = "cancel" /\ r.intx = FALSE /\ r.rows = {} /\ r.pc = "cancel"
  BY DEF Idle
<1>4. UNCHANGED <<today, invoice, payment, gateway, announced, fails>>
  BY DEF Cancel
<1> HIDE DEF r
<1>5. /\ req' \in [Procs -> Request]
      /\ \A x \in Payments : RowOK(x)'
      /\ \A q \in Procs : CarriesOK(q)' /\ HoldsOK(q)'
  BY <1>1, <1>2, <1>3, <1>4, RequestHoldsNothing DEF r
<1> QED
  BY <1>4, <1>5 DEF VerifiedInv, TypeOK

LEMMA CancelWriteStep ==
  ASSUME VerifiedInv, NEW p \in Procs, CancelWrite(p)
  PROVE  VerifiedInv'
<1>1. /\ req' = [req EXCEPT ![p] = Idle]
      /\ UNCHANGED <<today, payment, gateway, announced, fails>>
  BY DEF CancelWrite
<1>2. invoice' \in [Invoices -> InvoiceRow]
  BY DEF CancelWrite, VerifiedInv, TypeOK, InvoiceRow, InvoiceStatus
<1>3. Idle.op = "none" /\ Idle.intx = FALSE /\ Idle.rows = {} /\ Idle.pc = "idle"
  BY DEF Idle
<1>4. /\ req' \in [Procs -> Request]
      /\ \A x \in Payments : RowOK(x)'
      /\ \A q \in Procs : CarriesOK(q)' /\ HoldsOK(q)'
  BY <1>1, <1>3, IdleIsRequest, RequestHoldsNothing
<1> QED
  BY <1>1, <1>2, <1>4 DEF VerifiedInv, TypeOK

LEMMA FineRunStep ==
  ASSUME VerifiedInv, NEW p \in Procs, FineRun(p)
  PROVE  VerifiedInv'
<1>1. PICK S \in SUBSET Invoices :
        req' = [req EXCEPT ![p] =
          [Idle EXCEPT !.op = "fine", !.pc = "charge", !.todo = S,
             !.seen = [i \in Invoices |-> IF i \in S THEN invoice[i] ELSE None]]]
  BY DEF FineRun
<1> DEFINE r == [Idle EXCEPT !.op = "fine", !.pc = "charge", !.todo = S,
             !.seen = [i \in Invoices |-> IF i \in S THEN invoice[i] ELSE None]]
<1>2. r \in Request
  BY ZenonT(40), IdleIsRequest DEF Request, OpNames, PCs, VerifiedInv, TypeOK
<1>3. /\ r.op = "fine" /\ r.intx = FALSE /\ r.rows = {} /\ r.pc = "charge"
      /\ \A i \in r.todo : r.seen[i] \in InvoiceRow
  BY DEF Idle, VerifiedInv, TypeOK
<1>4. UNCHANGED <<today, invoice, payment, gateway, announced, fails>>
  BY DEF FineRun
<1> HIDE DEF r
<1>5. /\ req' \in [Procs -> Request]
      /\ \A x \in Payments : RowOK(x)'
      /\ \A q \in Procs : CarriesOK(q)' /\ HoldsOK(q)'
  BY <1>1, <1>2, <1>3, <1>4, RequestHoldsNothing DEF r
<1> QED
  BY <1>4, <1>5 DEF VerifiedInv, TypeOK

\* A fine is a natural number whatever the cap.
LEMMA FineChargeIsNat ==
  ASSUME NEW i \in Invoices, NEW row \in InvoiceRow
  PROVE  FineCharge(i, row, today) \in Nat
  BY FeeAssumption DEF FeeAssumption, FineCharge, InvoiceRow

LEMMA FineWriteStep ==
  ASSUME VerifiedInv, NEW p \in Procs, FineWrite(p)
  PROVE  VerifiedInv'
<1>1. PICK i \in req[p].todo :
        LET old == req[p].seen[i]
            fine == old.fine + FineCharge(i, old, today)
            left == req[p].todo \ {i}
        IN  /\ invoice' = [invoice EXCEPT ![i].fine = fine,
                 ![i].finedFor = today,
                 ![i].status = DeriveStatus(Subtotal[i] + fine, old.paidTotal,
                                 Overdue(i, today), old.status = "CANCELLED",
                                 FALSE)]
            /\ req' = [req EXCEPT ![p] =
                 IF left = {} THEN Idle
                 ELSE [req[p] EXCEPT !.todo = left, !.seen[i] = None]]
  BY DEF FineWrite
<1>2. UNCHANGED <<today, payment, gateway, announced, fails>> /\ req[p].pc = "charge"
  BY DEF FineWrite
<1>3. /\ req[p] \in Request /\ i \in Invoices
      /\ \A j \in req[p].todo : req[p].seen[j] \in InvoiceRow
      /\ req[p].op = "fine" /\ ~req[p].intx /\ req[p].rows = {}
  BY <1>2 DEF VerifiedInv, TypeOK, CarriesOK, Request
<1> DEFINE old == req[p].seen[i]
           fine == old.fine + FineCharge(i, old, today)
           status == DeriveStatus(Subtotal[i] + fine, old.paidTotal,
                       Overdue(i, today), old.status = "CANCELLED", FALSE)
           left == req[p].todo \ {i}
           r == [req[p] EXCEPT !.todo = left, !.seen = [@ EXCEPT ![i] = None]]
           n == IF left = {} THEN Idle ELSE r
<1>4. invoice' \in [Invoices -> InvoiceRow]
  <2>1. fine \in Nat
    BY <1>3, FineChargeIsNat DEF InvoiceRow
  <2>2. today \in Nat
    BY FeeAssumption DEF FeeAssumption, VerifiedInv, TypeOK
  <2>3. status \in InvoiceStatus
    BY DEF DeriveStatus, InvoiceStatus
  <2>4. invoice' = [invoice EXCEPT ![i] = [@ EXCEPT !.fine = fine, !.finedFor = today,
                                                   !.status = status]]
    BY <1>1, <1>3 DEF VerifiedInv, TypeOK
  <2> HIDE DEF fine, status
  <2> QED
    BY <1>3, <2>1, <2>2, <2>3, <2>4 DEF VerifiedInv, TypeOK, InvoiceRow
<1>5. r \in Request
  <2>1. [req[p].seen EXCEPT ![i] = None] \in [Invoices -> InvoiceRow \cup {None}]
    BY <1>3 DEF Request
  <2> QED
    BY <1>3, <2>1 DEF Request
<1>6. req' = [req EXCEPT ![p] = n]
  BY <1>1, <1>3
<1>7. /\ n.op # "refund" /\ ~n.intx /\ n.rows = {}
      /\ n.pc \in {"idle", "charge"}
      /\ n.pc = "charge" => /\ n.op = "fine"
                            /\ \A j \in n.todo : n.seen[j] \in InvoiceRow
  <2>1. CASE left = {}
    BY <2>1 DEF Idle
  <2>2. CASE left # {}
    <3>1. n = r
      BY <2>2
    <3>2. r.op = "fine" /\ ~r.intx /\ r.rows = {} /\ r.pc = "charge" /\ r.todo = left
      BY <1>2, <1>3 DEF Request
    <3>3. \A j \in left : r.seen[j] = req[p].seen[j]
      BY <1>3 DEF Request
    <3> HIDE DEF r, n
    <3> QED
      BY <1>3, <3>1, <3>2, <3>3
  <2> QED
    BY <2>1, <2>2
<1>8. n \in Request
  BY <1>5, IdleIsRequest
<1> HIDE DEF n
<1>9. /\ req' \in [Procs -> Request]
      /\ \A x \in Payments : RowOK(x)'
      /\ \A q \in Procs : CarriesOK(q)' /\ HoldsOK(q)'
  BY <1>2, <1>6, <1>7, <1>8, RequestHoldsNothing
<1> QED
  BY <1>2, <1>4, <1>9 DEF VerifiedInv, TypeOK

LEMMA InsertPaymentStep ==
  ASSUME VerifiedInv, NEW p \in Procs, InsertPayment(p)
  PROVE  VerifiedInv'
<1> DEFINE i == Current(p)
<1>1. PICK x \in Unused :
        /\ payment' = [payment EXCEPT ![x] =
             [Absent EXCEPT !.status = "SUCCESS", !.inv = i, !.amount = req[p].alloc[i]]]
        /\ req' = [req EXCEPT ![p].intx = TRUE, ![p].rows = @ \cup {x},
                              ![p].pc = "sumSuccessful"]
  BY DEF InsertPayment
<1>2. /\ UNCHANGED <<today, invoice, gateway, announced, fails>>
      /\ req[p].pc = "insert" /\ req[p] \in Request
      /\ x \in Payments /\ payment[x].status = "absent"
  BY DEF InsertPayment, VerifiedInv, TypeOK, Unused
<1>3. i \in Invoices /\ req[p].alloc[i] \in Nat
  BY <1>2, OldestIsMember DEF VerifiedInv, CarriesOK, Request, Current
<1>4. /\ payment' \in [Payments -> PaymentRow]
      /\ \A y \in Payments \ {x} : payment'[y] = payment[y]
      /\ payment'[x].status = "SUCCESS" /\ payment'[x].inv = i
      /\ payment'[x].ref = None
  BY <1>1, <1>2, <1>3 DEF VerifiedInv, TypeOK, PaymentRow, PaymentStatus, Absent
<1>5. /\ req' \in [Procs -> Request]
      /\ \A q \in Procs \ {p} : req'[q] = req[q]
      /\ req'[p].op = req[p].op /\ req'[p].rows = req[p].rows \cup {x}
      /\ req'[p].pc = "sumSuccessful" /\ req'[p].pay = req[p].pay
  <2> DEFINE r == [req[p] EXCEPT !.intx = TRUE, !.rows = @ \cup {x},
                                 !.pc = "sumSuccessful"]
  <2>1. r \in Request
    BY <1>2 DEF Request, PCs
  <2>2. req' = [req EXCEPT ![p] = r]
    BY <1>1 DEF VerifiedInv, TypeOK
  <2>3. /\ r.op = req[p].op /\ r.rows = req[p].rows \cup {x}
        /\ r.pc = "sumSuccessful" /\ r.pay = req[p].pay
    BY <1>2 DEF Request
  <2> HIDE DEF r
  <2> QED
    BY <2>1, <2>2, <2>3 DEF VerifiedInv, TypeOK
<1>6. req[p].op \in {"collect", "refund"} /\ (~req[p].intx => req[p].rows = {})
  BY <1>2 DEF VerifiedInv, CarriesOK
<1>7. \A y \in Hidden(p)' : y \in Hidden(p) \/ y = x
  BY <1>5, <1>6 DEF Hidden
<1>8. \A q \in Procs \ {p} : CarriesOK(q)' /\ HoldsOK(q)'
  BY <1>2, <1>4, <1>5, <1>7, OthersKeepTheirRows
<1>9. \A y \in Payments : RowOK(y)'
  BY <1>2, <1>3, <1>4 DEF VerifiedInv, RowOK, Backed
<1>10. CarriesOK(p)'
  BY <1>5, <1>6 DEF CarriesOK
<1>11. \A q \in Procs \ {p} : Hidden(q)' = Hidden(q) /\ x \notin Hidden(q)
  BY <1>2, <1>5 DEF Hidden, VerifiedInv, HoldsOK
<1>12. HoldsOK(p)'
  <2>1. req[p].rows \subseteq Payments /\ req[p].pay \in Payments \cup {None}
    BY <1>2 DEF Request
  <2>2. \A y \in req'[p].rows :
          /\ payment'[y].status # "absent"
          /\ \A q \in Procs \ {p} : y \notin Hidden(q)'
          /\ req'[p].op = "collect" => payment'[y].ref = None
    BY <1>2, <1>4, <1>5, <1>11, <2>1 DEF VerifiedInv, HoldsOK
  <2>3. ASSUME req[p].op = "refund"
        PROVE  /\ req[p].pay # None /\ payment'[req[p].pay] = payment[req[p].pay]
               /\ payment[req[p].pay].status # "absent" /\ Backed(req[p].pay)
               /\ \A q \in Procs : req[p].pay \notin Hidden(q)'
    <3>1. Hidden(p)' = {}
      BY <1>5, <2>3 DEF Hidden
    <3> QED
      BY <1>2, <1>4, <1>11, <2>1, <2>3, <3>1 DEF VerifiedInv, HoldsOK
  <2> QED
    BY <1>2, <1>5, <1>6, <2>2, <2>3 DEF HoldsOK, Backed
<1> QED
  BY <1>2, <1>4, <1>5, <1>8, <1>9, <1>10, <1>12 DEF VerifiedInv, TypeOK

LEMMA CommitStep ==
  ASSUME VerifiedInv, NEW p \in Procs, Commit(p)
  PROVE  VerifiedInv'
<1> DEFINE n == IF req[p].op = "collect"
                  THEN [Idle EXCEPT !.op = "collect", !.pc = "announce",
                                    !.rows = req[p].rows]
                  ELSE Idle
<1>1. /\ req[p] \in Request /\ req[p].rows \subseteq Payments
      /\ UNCHANGED <<today, gateway, announced, fails>>
      /\ req' = [req EXCEPT ![p] = n]
  BY DEF Commit, VerifiedInv, TypeOK, Request
<1>2. /\ n \in Request /\ n.op \in {"none", "collect"} /\ n.intx = FALSE
      /\ n.pc \in {"idle", "announce"}
      /\ n.rows # {} => req[p].op = "collect" /\ n.op = "collect" /\ n.rows = req[p].rows
  <2>1. CASE req[p].op = "collect"
    <3> DEFINE m == [Idle EXCEPT !.op = "collect", !.pc = "announce",
                                 !.rows = req[p].rows]
    <3>1. m \in Request
      <4>1. \A S \in SUBSET Payments :
              [Idle EXCEPT !.op = "collect", !.pc = "announce", !.rows = S] \in Request
        BY IdleIsRequest DEF Request, OpNames, PCs
      <4> QED
        BY <1>1, <4>1
    <3>2. m.op = "collect" /\ m.intx = FALSE /\ m.pc = "announce" /\ m.rows = req[p].rows
      BY DEF Idle
    <3>3. n = m
      BY <2>1
    <3> HIDE DEF n, m
    <3> QED
      BY <2>1, <3>1, <3>2, <3>3
  <2>2. CASE req[p].op # "collect"
    <3>1. n = Idle
      BY <2>2
    <3> QED
      BY <3>1, IdleIsRequest DEF Idle
  <2> QED
    BY <2>1, <2>2
<1> HIDE DEF n
<1>3. /\ req' \in [Procs -> Request] /\ req'[p] = n
      /\ \A q \in Procs \ {p} : req'[q] = req[q]
  BY <1>1, <1>2 DEF VerifiedInv, TypeOK
<1>4. invoice' \in [Invoices -> InvoiceRow]
  <2>1. /\ req[p].wrote \in [Invoices -> InvoiceRow \cup {None}]
        /\ invoice \in [Invoices -> InvoiceRow]
    BY <1>1 DEF VerifiedInv, TypeOK, Request
  <2>2. invoice' = [i \in Invoices |-> IF req[p].wrote[i] # None
                                        THEN req[p].wrote[i] ELSE invoice[i]]
    BY DEF Commit
  <2> QED
    BY <2>1, <2>2
<1>5. /\ payment' \in [Payments -> PaymentRow]
      /\ \A x \in Payments :
           /\ payment'[x].ref = payment[x].ref /\ payment'[x].inv = payment[x].inv
           /\ payment'[x].status # payment[x].status =>
                InRefund(p, x) /\ payment'[x].status = "REFUNDED"
  <2>1. payment \in [Payments -> PaymentRow] /\ req[p].amount \in Nat
    BY <1>1 DEF VerifiedInv, TypeOK, Request
  <2>2. ASSUME NEW x \in Payments
        PROVE  /\ payment'[x] \in PaymentRow
               /\ payment'[x].ref = payment[x].ref /\ payment'[x].inv = payment[x].inv
               /\ payment'[x].status # payment[x].status =>
                    InRefund(p, x) /\ payment'[x].status = "REFUNDED"
    <3>1. CASE InRefund(p, x)
      <4> DEFINE s == IF Empties(p, x) THEN "REFUNDED" ELSE payment[x].status
                 f == payment[x].refunded + req[p].amount
      <4>1. payment'[x] = [payment[x] EXCEPT !.refunded = f, !.status = s]
        BY <3>1 DEF Commit
      <4>2. s \in {"REFUNDED", payment[x].status}
        OBVIOUS
      <4>3. s \in PaymentStatus \cup {"absent"} /\ f \in Nat
        BY <2>1, <4>2 DEF PaymentRow, PaymentStatus
      <4> HIDE DEF s, f
      <4>4. /\ payment'[x] \in PaymentRow /\ payment'[x].status = s
            /\ payment'[x].ref = payment[x].ref /\ payment'[x].inv = payment[x].inv
        BY ZenonT(40), <2>1, <4>1, <4>3 DEF PaymentRow
      <4> QED
        BY <3>1, <4>2, <4>4
    <3>2. CASE ~InRefund(p, x)
      BY <2>1, <3>2 DEF Commit
    <3> QED
      BY <3>1, <3>2
  <2>3. payment' = [x \in Payments |-> payment'[x]]
    BY DEF Commit
  <2> QED
    BY <2>2, <2>3
<1>6. \A x \in Payments : InRefund(p, x) => Backed(x) /\ payment[x].status # "absent"
  BY DEF InRefund, VerifiedInv, HoldsOK
<1>7. Hidden(p)' = {}
  BY <1>2, <1>3 DEF Hidden
<1>8. \A q \in Procs \ {p} : CarriesOK(q)' /\ HoldsOK(q)'
  BY <1>1, <1>3, <1>5, <1>7, OthersKeepTheirRows
<1>9. \A x \in Payments : RowOK(x)'
  BY <1>1, <1>5, <1>6 DEF VerifiedInv, RowOK, Backed
<1>10. CarriesOK(p)'
  BY <1>2, <1>3 DEF CarriesOK
<1>11. \A q \in Procs \ {p} : Hidden(q)' = Hidden(q)
  BY <1>3 DEF Hidden
<1>12. HoldsOK(p)'
  BY <1>1, <1>2, <1>3, <1>5, <1>6, <1>11 DEF VerifiedInv, HoldsOK
<1> QED
  BY <1>1, <1>3, <1>4, <1>5, <1>8, <1>9, <1>10, <1>12 DEF VerifiedInv, TypeOK

LEMMA AbortStep ==
  ASSUME VerifiedInv, NEW p \in Procs, Abort(p), fails' \in 0..MaxFails
  PROVE  VerifiedInv'
<1>1. /\ UNCHANGED <<today, invoice, gateway, announced>>
      /\ req' = [req EXCEPT ![p] = Idle]
      /\ payment' = [x \in Payments |-> IF x \in Hidden(p) THEN Absent ELSE payment[x]]
  BY DEF Abort
<1>2. /\ req' \in [Procs -> Request] /\ req'[p] = Idle
      /\ \A q \in Procs \ {p} : req'[q] = req[q]
  BY <1>1, IdleIsRequest DEF VerifiedInv, TypeOK
<1>3. Absent \in PaymentRow /\ Absent.status = "absent" /\ Absent.ref = None
  BY DEF Absent, PaymentRow
<1>4. payment' \in [Payments -> PaymentRow]
  BY <1>1, <1>3 DEF VerifiedInv, TypeOK
<1>5. \A x \in Payments \ Hidden(p) : payment'[x] = payment[x]
  BY <1>1
<1>6. \A x \in Payments : x \in Hidden(p) => payment'[x] = Absent
  BY <1>1
<1>7. Idle.op = "none" /\ Idle.intx = FALSE /\ Idle.rows = {} /\ Idle.pc = "idle"
  BY DEF Idle
<1>8. CarriesOK(p)' /\ HoldsOK(p)' /\ Hidden(p)' = {}
  BY <1>2, <1>7 DEF CarriesOK, HoldsOK, Hidden
<1>9. \A q \in Procs \ {p} : CarriesOK(q)' /\ HoldsOK(q)'
  BY <1>1, <1>2, <1>5, <1>8, OthersKeepTheirRows
<1>10. \A x \in Payments : RowOK(x)'
  BY <1>1, <1>3, <1>5, <1>6 DEF VerifiedInv, RowOK, Backed
<1> QED
  BY <1>1, <1>2, <1>4, <1>8, <1>9, <1>10 DEF VerifiedInv, TypeOK

-----------------------------------------------------------------------------
(* The steps of an online payment. *)

\* The gateway gives a session it opened a verdict, and that verdict stays.
GatewayOnlyAdvances ==
  \A s \in Sessions : /\ gateway[s] # "unopened" => gateway'[s] # "unopened"
                      /\ gateway[s] = "SUCCESS" => gateway'[s] = "SUCCESS"

\* The requests that stand still while the gateway advances keep what they hold.
LEMMA GatewayMovesOn ==
  ASSUME VerifiedInv, NEW Q \in SUBSET Procs,
         \A q \in Q : req'[q] = req[q],
         \A q \in Procs : Hidden(q)' \subseteq Hidden(q),
         payment' = payment,
         GatewayOnlyAdvances
  PROVE  /\ \A x \in Payments : RowOK(x)'
         /\ \A q \in Q : CarriesOK(q)' /\ HoldsOK(q)'
<1>1. \A x \in Payments : payment[x].ref \in Sessions \cup {None}
  BY DEF VerifiedInv, TypeOK, PaymentRow
<1>2. \A x \in Payments : Backed(x) => Backed(x)'
  BY <1>1 DEF Backed, GatewayOnlyAdvances
<1>3. \A x \in Payments : RowOK(x)'
  BY <1>1, <1>2 DEF VerifiedInv, RowOK, GatewayOnlyAdvances
<1>4. ASSUME NEW q \in Q PROVE CarriesOK(q)' /\ HoldsOK(q)'
  <2>1. /\ req[q].ref \in Sessions \cup {None}
        /\ req[q].pay \in Payments \cup {None}
    BY <1>4 DEF VerifiedInv, TypeOK, Request
  <2>2. CarriesOK(q)'
    BY <1>4, <2>1 DEF VerifiedInv, CarriesOK, GatewayOnlyAdvances
  <2>3. req[q].op = "refund" =>
          /\ req[q].pay \in Payments
          /\ payment'[req[q].pay].ref # None
               => gateway'[payment'[req[q].pay].ref] = "SUCCESS"
    BY <1>2, <1>4, <2>1 DEF VerifiedInv, HoldsOK, Backed
  <2>4. HoldsOK(q)'
    BY <1>4, <2>1, <2>3 DEF VerifiedInv, HoldsOK, Backed
  <2> QED
    BY <2>2, <2>4
<1> QED
  BY <1>3, <1>4

LEMMA GatewayDecidesStep ==
  ASSUME VerifiedInv, NEW s \in Sessions, GatewayDecides(s)
  PROVE  VerifiedInv'
<1>1. /\ UNCHANGED <<today, invoice, payment, req, announced, fails>>
      /\ gateway[s] = "PENDING"
      /\ \E out \in {"SUCCESS", "FAILED", "CANCELLED"} :
           gateway' = [gateway EXCEPT ![s] = out]
  BY DEF GatewayDecides
<1>2. gateway' \in [Sessions -> Outcomes \cup {"unopened"}] /\ GatewayOnlyAdvances
  BY <1>1 DEF VerifiedInv, TypeOK, Outcomes, GatewayOnlyAdvances
<1>3. \A q \in Procs : Hidden(q)' \subseteq Hidden(q)
  BY <1>1 DEF Hidden
<1>4. \A q \in Procs : req'[q] = req[q]
  BY <1>1
<1>5. /\ \A x \in Payments : RowOK(x)'
      /\ \A q \in Procs : CarriesOK(q)' /\ HoldsOK(q)'
  BY <1>1, <1>2, <1>3, <1>4, GatewayMovesOn
<1> QED
  BY <1>1, <1>2, <1>5 DEF VerifiedInv, TypeOK

LEMMA InitiateStep ==
  ASSUME VerifiedInv, NEW p \in Procs, Initiate(p)
  PROVE  VerifiedInv'
<1>1. PICK s \in Sessions, due \in [Invoices -> Nat] :
        /\ gateway[s] = "unopened"
        /\ gateway' = [gateway EXCEPT ![s] = "PENDING"]
        /\ req' = [req EXCEPT ![p] = Opening(s, due)]
  <2>1. PICK basket \in SUBSET Invoices, s \in Sessions :
          LET due == [i \in Invoices |-> IF i \in basket THEN Due(i, invoice[i]) ELSE 0]
          IN  /\ gateway[s] = "unopened"
              /\ gateway' = [gateway EXCEPT ![s] = "PENDING"]
              /\ req' = [req EXCEPT ![p] = Opening(s, due)]
    BY Zenon DEF Initiate
  <2> DEFINE due == [i \in Invoices |-> IF i \in basket THEN Due(i, invoice[i]) ELSE 0]
  <2>2. due \in [Invoices -> Nat]
    <3>1. \A i \in Invoices : Due(i, invoice[i]) \in Nat
      BY FeeAssumption
      DEF FeeAssumption, Due, Payable, VerifiedInv, TypeOK, InvoiceRow
    <3> QED
      BY <3>1
  <2> HIDE DEF due
  <2> QED
    BY <2>1, <2>2 DEF due
<1>2. UNCHANGED <<today, invoice, payment, announced, fails>>
  BY DEF Initiate
<1>3. Opening(s, due) \in Request
  BY IdleIsRequest DEF Opening, Request, OpNames, PCs
<1>4. /\ req' \in [Procs -> Request] /\ req'[p] = Opening(s, due)
      /\ \A q \in Procs \ {p} : req'[q] = req[q]
  BY <1>1, <1>3 DEF VerifiedInv, TypeOK
<1>5. gateway' \in [Sessions -> Outcomes \cup {"unopened"}] /\ GatewayOnlyAdvances
  BY <1>1 DEF VerifiedInv, TypeOK, Outcomes, GatewayOnlyAdvances
<1>6. gateway'[s] = "PENDING" /\ s # None
  BY <1>1, FeeAssumption DEF VerifiedInv, TypeOK, FeeAssumption
<1>7. CarriesOK(p)' /\ HoldsOK(p)' /\ Hidden(p)' = {}
  <2>1. LET r == Opening(s, due)
        IN  r.op = "initiate" /\ r.pc = "create" /\ r.intx = FALSE /\ r.rows = {}
            /\ r.ref = s
    BY DEF Opening, Idle
  <2> QED
    BY <1>4, <1>6, <2>1 DEF CarriesOK, HoldsOK, Hidden
<1>8. \A q \in Procs : Hidden(q)' \subseteq Hidden(q)
  BY <1>4, <1>7 DEF Hidden
<1>9. /\ \A x \in Payments : RowOK(x)'
      /\ \A q \in Procs \ {p} : CarriesOK(q)' /\ HoldsOK(q)'
  BY <1>2, <1>4, <1>5, <1>8, GatewayMovesOn
<1> QED
  BY <1>2, <1>4, <1>5, <1>7, <1>9 DEF VerifiedInv, TypeOK

LEMMA CreatePendingStep ==
  ASSUME VerifiedInv, NEW p \in Procs, CreatePending(p)
  PROVE  VerifiedInv'
<1>1. PICK row \in Injection(req[p].todo, Unused) :
        payment' = [x \in Payments |->
          IF x \in Range(row)
            THEN LET i == CHOOSE j \in req[p].todo : row[j] = x
                 IN  [Absent EXCEPT !.status = "PENDING", !.inv = i,
                                    !.amount = req[p].alloc[i], !.ref = req[p].ref]
            ELSE payment[x]]
  BY DEF CreatePending
<1>2. /\ UNCHANGED <<today, invoice, gateway, announced, fails>>
      /\ req' = [req EXCEPT ![p] = Idle]
      /\ req[p] \in Request /\ req[p].ref \in Sessions \cup {None}
      /\ req[p].ref # None /\ gateway[req[p].ref] # "unopened"
  BY DEF CreatePending, VerifiedInv, TypeOK, CarriesOK, Request
<1>3. \A x \in Range(row) : /\ x \in Payments /\ payment[x].status = "absent"
                            /\ \E j \in req[p].todo : row[j] = x
  BY DEF Range, Injection, IsInjective, Unused
<1>4. ASSUME NEW x \in Payments, x \in Range(row)
      PROVE  /\ payment'[x] \in PaymentRow
             /\ payment'[x].status = "PENDING" /\ payment'[x].inv \in Invoices
             /\ payment'[x].ref = req[p].ref
  <2> DEFINE k == CHOOSE j \in req[p].todo : row[j] = x
  <2>1. payment'[x] = [Absent EXCEPT !.status = "PENDING", !.inv = k,
                                     !.amount = req[p].alloc[k], !.ref = req[p].ref]
    BY <1>1, <1>4
  <2>2. k \in Invoices /\ req[p].alloc[k] \in Nat
    BY <1>2, <1>3, <1>4 DEF Request
  <2> HIDE DEF k
  <2>3. PICK i \in Invoices, a \in Nat, s \in Sessions \cup {None} :
          i = k /\ a = req[p].alloc[k] /\ s = req[p].ref
    BY <1>2, <2>2
  <2> DEFINE r == [Absent EXCEPT !.status = "PENDING", !.inv = i, !.amount = a,
                                 !.ref = s]
  <2>4. r \in PaymentRow /\ r.status = "PENDING" /\ r.inv = i /\ r.ref = s
    <3>1. r \in PaymentRow
      BY DEF Absent, PaymentRow, PaymentStatus
    <3>2. r.status = "PENDING" /\ r.inv = i /\ r.ref = s
      BY DEF Absent
    <3> QED
      BY <3>1, <3>2
  <2>5. payment'[x] = r
    BY <2>1, <2>3
  <2> HIDE DEF r
  <2> QED
    BY <2>3, <2>4, <2>5
<1>5. \A x \in Payments : x \notin Range(row) => payment'[x] = payment[x]
  BY <1>1
<1>6. payment' \in [Payments -> PaymentRow]
  <2>1. payment' = [x \in Payments |-> payment'[x]]
    <3> DEFINE new(x) ==
          IF x \in Range(row)
            THEN LET i == CHOOSE j \in req[p].todo : row[j] = x
                 IN  [Absent EXCEPT !.status = "PENDING", !.inv = i,
                                    !.amount = req[p].alloc[i], !.ref = req[p].ref]
            ELSE payment[x]
    <3>1. payment' = [x \in Payments |-> new(x)]
      BY <1>1
    <3> HIDE DEF new
    <3> QED
      BY <3>1
  <2>2. \A x \in Payments : payment'[x] \in PaymentRow
    BY <1>4, <1>5 DEF VerifiedInv, TypeOK
  <2> QED
    BY <2>1, <2>2
<1>7. /\ req' \in [Procs -> Request] /\ req'[p] = Idle
      /\ \A q \in Procs \ {p} : req'[q] = req[q]
  BY <1>2, IdleIsRequest DEF VerifiedInv, TypeOK
<1>8. Idle.op = "none" /\ Idle.intx = FALSE /\ Idle.rows = {} /\ Idle.pc = "idle"
  BY DEF Idle
<1>9. CarriesOK(p)' /\ HoldsOK(p)' /\ Hidden(p)' = {}
  BY <1>7, <1>8 DEF CarriesOK, HoldsOK, Hidden
<1>10. \A q \in Procs \ {p} : CarriesOK(q)' /\ HoldsOK(q)'
  BY <1>2, <1>3, <1>5, <1>7, <1>9, OthersKeepTheirRows
<1>11. \A x \in Payments : RowOK(x)'
  BY <1>2, <1>4, <1>5 DEF VerifiedInv, RowOK, Backed
<1> QED
  BY <1>2, <1>6, <1>7, <1>9, <1>10, <1>11 DEF VerifiedInv, TypeOK

\* A request that will ask the gateway about rows it found committed.
LEMMA RequestTakesRows ==
  ASSUME VerifiedInv, NEW p \in Procs, NEW r \in Request,
         req' = [req EXCEPT ![p] = r],
         UNCHANGED <<payment, gateway>>,
         r.op \in {"callback", "reconcile"}, ~r.intx, r.pc = "verify",
         r.rows \subseteq RowsOf(r.ref),
         r.ref # None, gateway[r.ref] # "unopened"
  PROVE  /\ req' \in [Procs -> Request]
         /\ \A x \in Payments : RowOK(x)'
         /\ \A q \in Procs : CarriesOK(q)' /\ HoldsOK(q)'
<1>1. req' \in [Procs -> Request] /\ \A q \in Procs \ {p} : req'[q] = req[q]
  BY DEF VerifiedInv, TypeOK
<1>2. req'[p] = r
  BY DEF VerifiedInv, TypeOK
<1>3. Hidden(p)' = {} /\ CarriesOK(p)'
  BY <1>2 DEF CarriesOK, Hidden
<1>4. \A q \in Procs \ {p} : Hidden(q)' = Hidden(q)
  BY <1>1 DEF Hidden
<1>5. \A x \in r.rows : /\ payment[x].status # "absent" /\ payment[x].ref = r.ref
                        /\ \A q \in Procs : x \notin Hidden(q)
  BY DEF RowsOf, Committed
<1>6. HoldsOK(p)'
  BY <1>2, <1>4, <1>5 DEF HoldsOK
<1> QED
  BY <1>1, <1>3, <1>6, OneRequestMoves

LEMMA HandleCallbackStep ==
  ASSUME VerifiedInv, NEW p \in Procs, HandleCallback(p)
  PROVE  VerifiedInv'
<1>1. PICK s \in Sessions, hint \in Hints :
        LET rows == FindPendingFor(s, hint)
        IN  /\ rows # {}
            /\ \E found \in IF hint = "ref" THEN {None} ELSE rows :
                 req' = [req EXCEPT ![p] =
                   [Idle EXCEPT !.op = "callback", !.pc = "verify", !.ref = s,
                                !.pay = found, !.rows = rows]]
  BY DEF HandleCallback
<1> DEFINE rows == FindPendingFor(s, hint)
<1>2. PICK found \in IF hint = "ref" THEN {None} ELSE rows :
        req' = [req EXCEPT ![p] =
          [Idle EXCEPT !.op = "callback", !.pc = "verify", !.ref = s,
                       !.pay = found, !.rows = rows]]
  BY <1>1
<1> DEFINE r == [Idle EXCEPT !.op = "callback", !.pc = "verify", !.ref = s,
                             !.pay = found, !.rows = rows]
<1>3. rows # {} /\ rows \subseteq RowsOf(s) /\ rows \subseteq Payments
  BY <1>1 DEF FindPendingFor, RowsOf, Committed
<1>4. s # None /\ gateway[s] # "unopened"
  <2>1. PICK x \in RowsOf(s) : TRUE
    BY <1>3
  <2> QED
    BY <2>1, FeeAssumption DEF FeeAssumption, RowsOf, Committed, VerifiedInv, RowOK
<1>5. UNCHANGED <<today, invoice, payment, gateway, announced, fails>>
  BY DEF HandleCallback
<1>6. req' = [req EXCEPT ![p] = r] /\ found \in Payments \cup {None}
  BY <1>2, <1>3
<1> HIDE DEF rows
<1>7. r \in Request
  BY <1>3, <1>6, IdleIsRequest DEF Request, OpNames, PCs
<1>8. r.op = "callback" /\ r.pc = "verify" /\ r.intx = FALSE /\ r.ref = s /\ r.rows = rows
  BY DEF Idle
<1> HIDE DEF r
<1>9. /\ req' \in [Procs -> Request]
      /\ \A x \in Payments : RowOK(x)'
      /\ \A q \in Procs : CarriesOK(q)' /\ HoldsOK(q)'
  BY <1>3, <1>4, <1>5, <1>6, <1>7, <1>8, RequestTakesRows
<1> QED
  BY <1>5, <1>9 DEF VerifiedInv, TypeOK

LEMMA ReconcileStep ==
  ASSUME VerifiedInv, NEW p \in Procs, Reconcile(p)
  PROVE  VerifiedInv'
<1>1. PICK x \in Committed :
        /\ payment[x].ref # None
        /\ req' = [req EXCEPT ![p] =
             [Idle EXCEPT !.op = "reconcile", !.pc = "verify", !.pay = x,
                          !.ref = payment[x].ref, !.rows = Siblings(x)]]
  BY DEF Reconcile
<1> DEFINE s == payment[x].ref
           r == [Idle EXCEPT !.op = "reconcile", !.pc = "verify", !.pay = x,
                             !.ref = s, !.rows = RowsOf(s)]
<1>2. /\ x \in Payments /\ s \in Sessions /\ s # None /\ gateway[s] # "unopened"
      /\ RowsOf(s) \subseteq Payments
  BY <1>1 DEF Committed, RowsOf, VerifiedInv, TypeOK, RowOK, PaymentRow
<1>3. UNCHANGED <<today, invoice, payment, gateway, announced, fails>>
  BY DEF Reconcile
<1>4. req' = [req EXCEPT ![p] = r]
  BY <1>1 DEF Siblings
<1> HIDE DEF s
<1>5. r \in Request
  BY <1>2, IdleIsRequest DEF Request, OpNames, PCs
<1>6. r.op = "reconcile" /\ r.pc = "verify" /\ r.intx = FALSE /\ r.ref = s
      /\ r.rows = RowsOf(s)
  BY DEF Idle
<1> HIDE DEF r
<1>7. /\ req' \in [Procs -> Request]
      /\ \A y \in Payments : RowOK(y)'
      /\ \A q \in Procs : CarriesOK(q)' /\ HoldsOK(q)'
  BY <1>2, <1>3, <1>4, <1>5, <1>6, RequestTakesRows
<1> QED
  BY <1>3, <1>7 DEF VerifiedInv, TypeOK

\* Whatever the adapter makes of an answer or a claim, SUCCESS is the gateway's.
LEMMA VerdictIsBacked ==
  ASSUME TypeOK, NEW p \in Procs, req[p].ref \in Sessions, gateway[req[p].ref] # "unopened",
         NEW outcome \in VerifyOutcomes(p), NEW v \in Verdicts(p, outcome)
  PROVE  /\ v \in Outcomes \cup {"MISMATCH"}
         /\ v = "SUCCESS" => gateway[req[p].ref] = "SUCCESS"
<1>1. outcome \in {"PENDING", "FAILED", "CANCELLED", gateway[req[p].ref]}
  BY DEF VerifyOutcomes, ClaimedBy, AnswerFor
<1>2. gateway[req[p].ref] \in Outcomes
  BY DEF TypeOK
<1>3. v = "MISMATCH" \/ v = outcome
  BY DEF Verdicts
<1> QED
  BY <1>1, <1>2, <1>3 DEF Outcomes

LEMMA VerifyStep ==
  ASSUME VerifiedInv, NEW p \in Procs, Verify(p)
  PROVE  VerifiedInv'
<1>1. PICK outcome \in VerifyOutcomes(p) : \E v \in Verdicts(p, outcome) :
         req' = [req EXCEPT ![p].verdict = v, ![p].pc = "mark"]
  BY DEF Verify
<1>2. PICK v \in Verdicts(p, outcome) :
         req' = [req EXCEPT ![p].verdict = v, ![p].pc = "mark"]
  BY <1>1
<1> DEFINE r == [req[p] EXCEPT !.verdict = v, !.pc = "mark"]
<1>3. /\ UNCHANGED <<today, invoice, payment, gateway, announced, fails>>
      /\ req[p] \in Request
      /\ req[p].op \in {"callback", "reconcile"} /\ ~req[p].intx
      /\ req[p].ref \in Sessions /\ req[p].ref # None
      /\ gateway[req[p].ref] # "unopened"
  BY DEF Verify, VerifiedInv, TypeOK, CarriesOK, Request
<1>4. req' = [req EXCEPT ![p] = r]
  BY <1>2 DEF VerifiedInv, TypeOK
<1>5. /\ v \in Outcomes \cup {"MISMATCH"}
      /\ v = "SUCCESS" => gateway[req[p].ref] = "SUCCESS"
  BY <1>3, VerdictIsBacked DEF VerifiedInv
<1>6. r \in Request
  BY <1>3, <1>5 DEF Request, PCs
<1>7. /\ r.op = req[p].op /\ r.intx = req[p].intx /\ r.rows = req[p].rows
      /\ r.ref = req[p].ref /\ r.pc = "mark" /\ r.verdict = v
  BY <1>3 DEF Request
<1> HIDE DEF r
<1>8. /\ req' \in [Procs -> Request] /\ req'[p] = r
      /\ \A q \in Procs \ {p} : req'[q] = req[q]
  BY <1>4, <1>6 DEF VerifiedInv, TypeOK
<1>9. Hidden(p)' = Hidden(p) /\ CarriesOK(p)'
  BY <1>3, <1>5, <1>7, <1>8 DEF Hidden, CarriesOK, Outcomes
<1>10. \A q \in Procs : Hidden(q)' = Hidden(q)
  BY <1>8, <1>9 DEF Hidden
<1>11. HoldsOK(p)'
  BY <1>3, <1>7, <1>8, <1>10 DEF HoldsOK, VerifiedInv
<1> QED
  BY <1>3, <1>8, <1>9, <1>11, OneRequestMoves DEF VerifiedInv, TypeOK

LEMMA MarkAllStep ==
  ASSUME VerifiedInv, NEW p \in Procs, MarkAll(p)
  PROVE  VerifiedInv'
<1>1. /\ UNCHANGED <<today, invoice, gateway, announced, fails>>
      /\ req[p] \in Request /\ req[p].pc = "mark"
      /\ req[p].op \in {"callback", "reconcile"} /\ ~req[p].intx
      /\ req[p].rows \subseteq Payments
      /\ req[p].verdict \in Outcomes \cup {"MISMATCH"}
      /\ req[p].verdict = "SUCCESS" => gateway[req[p].ref] = "SUCCESS"
  BY DEF MarkAll, VerifiedInv, TypeOK, CarriesOK, Request
<1>2. PICK given \in BOOLEAN :
        payment' = [x \in Payments |->
          IF x \in req[p].rows
            THEN [payment[x] EXCEPT !.status = StatusFor(req[p].verdict),
                                    !.txn = IF given THEN x = FirstOf(req[p].rows)
                                                     ELSE @]
            ELSE payment[x]]
  BY DEF MarkAll
<1>3. StatusFor(req[p].verdict) \in PaymentStatus
  BY <1>1 DEF StatusFor, Outcomes, PaymentStatus
<1>4. ASSUME NEW x \in req[p].rows
      PROVE  /\ payment'[x] \in PaymentRow
             /\ payment'[x].status = StatusFor(req[p].verdict)
             /\ payment'[x].ref = payment[x].ref /\ payment'[x].inv = payment[x].inv
  <2> DEFINE t == IF given THEN x = FirstOf(req[p].rows) ELSE payment[x].txn
  <2>1. payment[x] \in PaymentRow
    BY <1>1 DEF VerifiedInv, TypeOK
  <2>2. t \in BOOLEAN
    BY <2>1 DEF PaymentRow
  <2>3. payment'[x] = [payment[x] EXCEPT !.status = StatusFor(req[p].verdict), !.txn = t]
    BY <1>1, <1>2
  <2> HIDE DEF t
  <2> QED
    BY <1>3, <2>1, <2>2, <2>3 DEF PaymentRow
<1>5. \A x \in Payments \ req[p].rows : payment'[x] = payment[x]
  BY <1>2
<1>6. payment' \in [Payments -> PaymentRow]
  <2>1. payment' = [x \in Payments |-> payment'[x]]
    BY <1>2
  <2>2. \A x \in Payments : payment'[x] \in PaymentRow
    BY <1>4, <1>5 DEF VerifiedInv, TypeOK
  <2> QED
    BY <2>1, <2>2
<1>7. \A x \in req[p].rows : /\ payment[x].status # "absent"
                             /\ payment[x].ref = req[p].ref
                             /\ payment[x].inv \in Invoices
                             /\ \A q \in Procs \ {p} : x \notin Hidden(q)
  BY <1>1 DEF VerifiedInv, HoldsOK, RowOK
<1> DEFINE n == IF req[p].verdict = "SUCCESS"
                  THEN [req[p] EXCEPT !.pc = "sumSuccessful",
                                      !.todo = {payment[x].inv : x \in req[p].rows}]
                  ELSE Idle
<1>8. /\ n \in Request /\ ~n.intx /\ n.pc \in {"sumSuccessful", "idle"}
      /\ n.op # "refund"
      /\ n.rows # {} => /\ n.op = req[p].op /\ n.ref = req[p].ref
                        /\ n.rows = req[p].rows
  <2>1. CASE req[p].verdict = "SUCCESS"
    <3> DEFINE todo == {payment[x].inv : x \in req[p].rows}
               r == [req[p] EXCEPT !.pc = "sumSuccessful", !.todo = todo]
    <3>1. todo \subseteq Invoices
      BY <1>7
    <3> HIDE DEF todo
    <3>2. r \in Request
      BY <1>1, <3>1 DEF Request, PCs
    <3>3. /\ r.op = req[p].op /\ r.intx = req[p].intx /\ r.rows = req[p].rows
          /\ r.ref = req[p].ref /\ r.pc = "sumSuccessful"
      BY <1>1 DEF Request
    <3>4. n = r
      BY <2>1 DEF todo
    <3> HIDE DEF r, n
    <3> QED
      BY <1>1, <3>2, <3>3, <3>4
  <2>2. CASE req[p].verdict # "SUCCESS"
    <3>1. n = Idle
      BY <2>2
    <3> QED
      BY <3>1, IdleIsRequest DEF Idle
  <2> QED
    BY <2>1, <2>2
<1>9. req' = [req EXCEPT ![p] = n]
  BY DEF MarkAll
<1> HIDE DEF n
<1>10. /\ req' \in [Procs -> Request] /\ req'[p] = n
       /\ \A q \in Procs \ {p} : req'[q] = req[q]
  BY <1>8, <1>9 DEF VerifiedInv, TypeOK
<1>11. CarriesOK(p)' /\ Hidden(p)' = {} /\ \A q \in Procs \ {p} : Hidden(q)' = Hidden(q)
  BY <1>8, <1>10 DEF CarriesOK, Hidden
<1>12. \A x \in req[p].rows : payment'[x].status # "absent"
  BY <1>3, <1>4 DEF PaymentStatus
<1>13. HoldsOK(p)'
  BY <1>1, <1>4, <1>7, <1>8, <1>10, <1>11, <1>12 DEF HoldsOK
<1>14. \A q \in Procs \ {p} : CarriesOK(q)' /\ HoldsOK(q)'
  <2>1. \A x \in Payments : payment[x].status # "absent" =>
          payment'[x].status # "absent" /\ payment'[x].ref = payment[x].ref
    BY <1>4, <1>5, <1>12
  <2> QED
    BY <1>1, <1>10, <1>11, <2>1, OthersKeepTheirRows
<1>15. \A x \in req[p].rows : RowOK(x)'
  <2>1. StatusFor(req[p].verdict) # "REFUNDED"
        /\ (StatusFor(req[p].verdict) = "SUCCESS" => req[p].verdict = "SUCCESS")
    BY <1>1 DEF StatusFor, Outcomes
  <2> QED
    BY <1>1, <1>4, <1>7, <2>1 DEF VerifiedInv, RowOK, Backed
<1>16. \A x \in Payments \ req[p].rows : RowOK(x)'
  BY <1>1, <1>5 DEF VerifiedInv, RowOK, Backed
<1> QED
  BY <1>1, <1>6, <1>10, <1>11, <1>13, <1>14, <1>15, <1>16 DEF VerifiedInv, TypeOK

-----------------------------------------------------------------------------
(* The theorems. *)

LEMMA InitVerified == Init => VerifiedInv
<1> SUFFICES ASSUME Init PROVE VerifiedInv
  OBVIOUS
<1>1. /\ today = 0 /\ payment = [x \in Payments |-> Absent]
      /\ gateway = [s \in Sessions |-> "unopened"]
      /\ req = [p \in Procs |-> Idle] /\ announced = {} /\ fails = 0
  BY DEF Init
<1>2. invoice \in [Invoices -> InvoiceRow]
  <2>1. \A i \in Invoices :
          DeriveStatus(Subtotal[i], 0, FALSE, FALSE, FALSE) \in InvoiceStatus
    BY DEF DeriveStatus, InvoiceStatus
  <2> QED
    BY <2>1 DEF Init, InvoiceRow
<1>3. payment \in [Payments -> PaymentRow]
  BY <1>1 DEF Absent, PaymentRow
<1>4. TypeOK
  BY <1>1, <1>2, <1>3, IdleIsRequest, FeeAssumption DEF FeeAssumption, TypeOK, Outcomes
<1>5. \A x \in Payments : RowOK(x)
  BY <1>1 DEF Absent, RowOK
<1>6. \A p \in Procs : CarriesOK(p) /\ HoldsOK(p)
  BY <1>1 DEF Idle, CarriesOK, HoldsOK
<1> QED
  BY <1>4, <1>5, <1>6 DEF VerifiedInv

LEMMA TickStep ==
  ASSUME VerifiedInv, Tick
  PROVE  VerifiedInv'
<1>1. /\ today' = today + 1 /\ today < MaxMonth
      /\ UNCHANGED <<invoice, payment, gateway, req, announced, fails>>
  BY DEF Tick
<1>2. TypeOK'
  BY <1>1, FeeAssumption DEF FeeAssumption, VerifiedInv, TypeOK
<1>3. \A q \in Procs : Hidden(q)' = Hidden(q)
  BY <1>1 DEF Hidden
<1> QED
  BY <1>1, <1>2, <1>3 DEF VerifiedInv, RowOK, CarriesOK, HoldsOK, Backed

LEMMA StutterStep ==
  ASSUME VerifiedInv, UNCHANGED vars
  PROVE  VerifiedInv'
<1>1. UNCHANGED <<today, invoice, payment, gateway, req, announced, fails>>
  BY DEF vars
<1>2. \A q \in Procs : Hidden(q)' = Hidden(q)
  BY <1>1 DEF Hidden
<1> QED
  BY <1>1, <1>2 DEF VerifiedInv, TypeOK, RowOK, CarriesOK, HoldsOK, Backed

LEMMA FailStep ==
  ASSUME VerifiedInv, NEW p \in Procs, Fail(p) \/ RefuseSettle(p)
  PROVE  VerifiedInv'
<1>1. Abort(p)
  BY DEF Fail, RefuseSettle
<1>2. fails' \in 0..MaxFails
  BY FeeAssumption DEF FeeAssumption, VerifiedInv, TypeOK, Fail, RefuseSettle
<1> QED
  BY <1>1, <1>2, AbortStep

LEMMA NextVerified == VerifiedInv /\ [Next]_vars => VerifiedInv'
<1> SUFFICES ASSUME VerifiedInv, [Next]_vars PROVE VerifiedInv'
  OBVIOUS
<1>1. CASE UNCHANGED vars
  BY <1>1, StutterStep
<1>2. CASE Tick
  BY <1>2, TickStep
<1>3. ASSUME NEW s \in Sessions, GatewayDecides(s) PROVE VerifiedInv'
  BY <1>3, GatewayDecidesStep
<1>4. ASSUME NEW p \in Procs, Begin(p) PROVE VerifiedInv'
  BY <1>4, CollectStep, RefundStep, CancelStep, FineRunStep, InitiateStep,
     HandleCallbackStep, ReconcileStep DEF Begin
<1>5. ASSUME NEW p \in Procs, Continue(p) PROVE VerifiedInv'
  BY <1>5, InsertPaymentStep, InsertRefundStep, SettleReadStep, RefreshStatusStep,
     FailStep, CommitStep, AnnounceStep, CancelWriteStep, FineWriteStep,
     CreatePendingStep, VerifyStep, MarkAllStep DEF Continue
<1>6. ASSUME NEW p \in Procs, Fail(p) PROVE VerifiedInv'
  BY <1>6, FailStep
<1> QED
  BY <1>1, <1>2, <1>3, <1>4, <1>5, <1>6 DEF Next

\* The inductive invariant holds of every reachable state.
THEOREM VerifiedInvariant == Spec => []VerifiedInv
<1>1. Init => VerifiedInv
  BY InitVerified
<1>2. VerifiedInv /\ [Next]_vars => VerifiedInv'
  BY NextVerified
<1> QED
  BY <1>1, <1>2, PTL DEF Spec

\* Every table of the fee module, and every request over it, keeps its type
\* through any interleaving of its handlers.
THEOREM TypeCorrect == Spec => []TypeOK
<1>1. VerifiedInv => TypeOK
  BY DEF VerifiedInv
<1> QED
  BY <1>1, VerifiedInvariant, PTL

\* handleCallback, reconcile and the sweep mark online money SUCCESS only on the
\* gateway's own word, and nothing later (refunds included) rests on less.
THEOREM OnlineMoneyIsVerified == Spec => []OnlyVerifiedMoney
<1>1. VerifiedInv => OnlyVerifiedMoney
  BY DEF VerifiedInv, RowOK, Backed, OnlyVerifiedMoney
<1> QED
  BY <1>1, VerifiedInvariant, PTL

-----------------------------------------------------------------------------
(* What each handler does to the request it serves, field by field.        *)

\* A request that goes on: nobody else moves, and it keeps what it was asked.
GoesOn(p) ==
  /\ \A q \in Procs \ {p} : req'[q] = req[q]
  /\ req'[p].op = req[p].op /\ req'[p].counter = req[p].counter
  /\ req'[p].pay = req[p].pay /\ req'[p].amount = req[p].amount
  /\ req'[p].sofar = req[p].sofar /\ req'[p].alloc = req[p].alloc

Inserts(p, x) ==
  /\ x \in Payments /\ payment[x].status = "absent"
  /\ \A y \in Payments \ {x} : payment'[y] = payment[y]
  /\ payment'[x] = [Absent EXCEPT !.status = "SUCCESS", !.inv = Current(p),
                                  !.amount = req[p].alloc[Current(p)]]
  /\ GoesOn(p)
  /\ req'[p].intx = TRUE /\ req'[p].pc = "sumSuccessful"
  /\ req'[p].rows = req[p].rows \cup {x}
  /\ req'[p].todo = req[p].todo /\ req'[p].wrote = req[p].wrote
  /\ UNCHANGED <<today, invoice, sums>>

LEMMA InsertPaymentEffect ==
  ASSUME VerifiedInv, NEW p \in Procs, InsertPayment(p)
  PROVE  \E x \in Payments : Inserts(p, x)
<1>1. PICK x \in Unused :
        /\ payment' = [payment EXCEPT ![x] =
             [Absent EXCEPT !.status = "SUCCESS", !.inv = Current(p),
                            !.amount = req[p].alloc[Current(p)]]]
        /\ req' = [req EXCEPT ![p].intx = TRUE, ![p].rows = @ \cup {x},
                              ![p].pc = "sumSuccessful"]
  BY DEF InsertPayment
<1>2. /\ x \in Payments /\ payment[x].status = "absent"
      /\ req \in [Procs -> Request] /\ payment \in [Payments -> PaymentRow]
  BY DEF Unused, VerifiedInv, TypeOK
<1>3. /\ \A y \in Payments \ {x} : payment'[y] = payment[y]
      /\ payment'[x] = [Absent EXCEPT !.status = "SUCCESS", !.inv = Current(p),
                                      !.amount = req[p].alloc[Current(p)]]
  BY <1>1, <1>2
<1>4. /\ \A q \in Procs \ {p} : req'[q] = req[q]
      /\ req'[p] = [req[p] EXCEPT !.intx = TRUE, !.rows = @ \cup {x},
                                  !.pc = "sumSuccessful"]
  BY <1>1, <1>2
<1>5. req[p] \in Request
  BY <1>2
<1>6. GoesOn(p)
  BY <1>4, <1>5 DEF GoesOn, Request
<1>7. /\ req'[p].intx = TRUE /\ req'[p].pc = "sumSuccessful"
      /\ req'[p].rows = req[p].rows \cup {x}
      /\ req'[p].todo = req[p].todo /\ req'[p].wrote = req[p].wrote
  BY <1>4, <1>5 DEF Request
<1>8. UNCHANGED <<today, invoice, sums>>
  BY DEF InsertPayment
<1> QED
  BY <1>2, <1>3, <1>6, <1>7, <1>8 DEF Inserts

Opens(p) ==
  /\ GoesOn(p)
  /\ req'[p].intx = TRUE /\ req'[p].pc = "sumSuccessful"
  /\ req'[p].todo = {payment[req[p].pay].inv}
  /\ req'[p].rows = req[p].rows /\ req'[p].wrote = req[p].wrote
  /\ UNCHANGED <<today, invoice, payment, sums>>

LEMMA InsertRefundEffect ==
  ASSUME VerifiedInv, NEW p \in Procs, InsertRefund(p)
  PROVE  Opens(p)
<1>1. req' = [req EXCEPT ![p].intx = TRUE, ![p].todo = {payment[req[p].pay].inv},
                         ![p].pc = "sumSuccessful"]
  BY DEF InsertRefund
<1>2. req \in [Procs -> Request] /\ req[p] \in Request
  BY DEF VerifiedInv, TypeOK
<1>3. /\ \A q \in Procs \ {p} : req'[q] = req[q]
      /\ req'[p] = [req[p] EXCEPT !.intx = TRUE, !.todo = {payment[req[p].pay].inv},
                                  !.pc = "sumSuccessful"]
  BY <1>1, <1>2
<1>4. GoesOn(p)
  BY <1>2, <1>3 DEF GoesOn, Request
<1>5. /\ req'[p].intx = TRUE /\ req'[p].pc = "sumSuccessful"
      /\ req'[p].todo = {payment[req[p].pay].inv}
      /\ req'[p].rows = req[p].rows /\ req'[p].wrote = req[p].wrote
  BY <1>2, <1>3 DEF Request
<1>6. UNCHANGED <<today, invoice, payment, sums>>
  BY DEF InsertRefund
<1> QED
  BY <1>4, <1>5, <1>6 DEF Opens

\* The three reads of a settle.
Reads(p) ==
  /\ GoesOn(p)
  /\ req'[p].intx = req[p].intx /\ req'[p].rows = req[p].rows
  /\ req'[p].todo = req[p].todo /\ req'[p].wrote = req[p].wrote
  /\ UNCHANGED <<today, invoice, payment>>
  /\ \/ /\ req[p].pc = "sumSuccessful" /\ req'[p].pc = "sumRefunded"
        /\ sums' = [sums EXCEPT ![p].succ = SuccessfulSum(p, Current(p))]
     \/ /\ req[p].pc = "sumRefunded" /\ req'[p].pc = "find"
        /\ sums' = [sums EXCEPT ![p].refd = RefundedSum(p, Current(p))]
     \/ /\ req[p].pc = "find" /\ req'[p].pc = "write"
        /\ Current(p) \in Invoices =>
             req'[p].seen[Current(p)] = invoice[Current(p)]
        /\ sums' = sums

LEMMA ReadEffect ==
  ASSUME VerifiedInv, NEW p \in Procs,
         SumSuccessful(p) \/ SumRefunded(p) \/ FindForSettle(p)
  PROVE  Reads(p)
<1>1. req \in [Procs -> Request] /\ req[p] \in Request
  BY DEF VerifiedInv, TypeOK
<1>2. UNCHANGED <<today, invoice, payment>>
  BY DEF SumSuccessful, SumRefunded, FindForSettle
<1>3. CASE SumSuccessful(p)
  <2>1. /\ req' = [req EXCEPT ![p].pc = "sumRefunded"]
        /\ req[p].pc = "sumSuccessful"
        /\ sums' = [sums EXCEPT ![p].succ = SuccessfulSum(p, Current(p))]
    BY <1>3 DEF SumSuccessful
  <2>2. /\ \A q \in Procs \ {p} : req'[q] = req[q]
        /\ req'[p] = [req[p] EXCEPT !.pc = "sumRefunded"]
    BY <1>1, <2>1
  <2>3. GoesOn(p)
    BY <1>1, <2>2 DEF GoesOn, Request
  <2>4. /\ req'[p].intx = req[p].intx /\ req'[p].rows = req[p].rows
        /\ req'[p].todo = req[p].todo /\ req'[p].wrote = req[p].wrote
        /\ req'[p].pc = "sumRefunded"
    BY <1>1, <2>2 DEF Request
  <2> QED
    BY <1>2, <2>1, <2>3, <2>4 DEF Reads
<1>4. CASE SumRefunded(p)
  <2>1. /\ req' = [req EXCEPT ![p].pc = "find"]
        /\ req[p].pc = "sumRefunded"
        /\ sums' = [sums EXCEPT ![p].refd = RefundedSum(p, Current(p))]
    BY <1>4 DEF SumRefunded
  <2>2. /\ \A q \in Procs \ {p} : req'[q] = req[q]
        /\ req'[p] = [req[p] EXCEPT !.pc = "find"]
    BY <1>1, <2>1
  <2>3. GoesOn(p)
    BY <1>1, <2>2 DEF GoesOn, Request
  <2>4. /\ req'[p].intx = req[p].intx /\ req'[p].rows = req[p].rows
        /\ req'[p].todo = req[p].todo /\ req'[p].wrote = req[p].wrote
        /\ req'[p].pc = "find"
    BY <1>1, <2>2 DEF Request
  <2> QED
    BY <1>2, <2>1, <2>3, <2>4 DEF Reads
<1>5. CASE FindForSettle(p)
  <2> DEFINE i == Current(p)
             seen == [req[p].seen EXCEPT ![i] = invoice[i]]
  <2>1. /\ req' = [req EXCEPT ![p].seen[i] = invoice[i], ![p].pc = "write"]
        /\ req[p].pc = "find" /\ sums' = sums
    BY <1>5 DEF FindForSettle
  <2>2. /\ \A q \in Procs \ {p} : req'[q] = req[q]
        /\ req'[p] = [req[p] EXCEPT !.seen = seen, !.pc = "write"]
    BY <1>1, <2>1
  <2>3. i \in Invoices => seen[i] = invoice[i]
    BY <1>1 DEF Request
  <2> HIDE DEF seen
  <2>4. GoesOn(p)
    BY <1>1, <2>2 DEF GoesOn, Request
  <2>5. /\ req'[p].intx = req[p].intx /\ req'[p].rows = req[p].rows
        /\ req'[p].todo = req[p].todo /\ req'[p].wrote = req[p].wrote
        /\ req'[p].pc = "write" /\ req'[p].seen = seen
    BY <1>1, <2>2 DEF Request
  <2> QED
    BY <1>2, <2>1, <2>3, <2>4, <2>5 DEF Reads
<1> QED
  BY <1>3, <1>4, <1>5

\* The write of refreshStatus, in the transaction of a collect or a refund or on
\* its own.
Settles(p) ==
  LET i == Current(p)
  IN  /\ GoesOn(p)
      /\ req'[p].intx = req[p].intx /\ req'[p].rows = req[p].rows
      /\ req'[p].todo = req[p].todo \ {i}
      /\ req'[p].pc = AfterSettle(p, req[p].todo \ {i})
      /\ req'[p].wrote
           = [req[p].wrote EXCEPT ![i] = IF req[p].intx THEN SettledRow(p) ELSE None]
      /\ invoice' = IF req[p].intx THEN invoice
                                   ELSE [invoice EXCEPT ![i] = SettledRow(p)]
      /\ UNCHANGED <<today, payment>>

LEMMA RefreshStatusEffect ==
  ASSUME VerifiedInv, NEW p \in Procs, RefreshStatus(p)
  PROVE  Settles(p)
<1> DEFINE i == Current(p)
           left == req[p].todo \ {i}
           w == IF req[p].intx THEN SettledRow(p) ELSE None
           wrote == [req[p].wrote EXCEPT ![i] = w]
           seen == [req[p].seen EXCEPT ![i] = None]
           pc == AfterSettle(p, left)
<1>1. req \in [Procs -> Request] /\ req[p] \in Request
  BY DEF VerifiedInv, TypeOK
<1>2. /\ UNCHANGED <<today, payment>>
      /\ invoice' = IF req[p].intx THEN invoice ELSE [invoice EXCEPT ![i] = SettledRow(p)]
  BY DEF RefreshStatus
<1>3. req' = [req EXCEPT ![p].wrote[i] = w, ![p].seen[i] = None,
                         ![p].todo = left, ![p].pc = pc]
  BY Zenon DEF RefreshStatus
<1> HIDE DEF w, left, pc
<1>4. /\ \A q \in Procs \ {p} : req'[q] = req[q]
      /\ req'[p] = [req[p] EXCEPT !.wrote = wrote, !.seen = seen, !.todo = left, !.pc = pc]
  BY <1>1, <1>3 DEF Request
<1> HIDE DEF wrote, seen
<1>5. GoesOn(p)
  BY <1>1, <1>4 DEF GoesOn, Request
<1>6. /\ req'[p].intx = req[p].intx /\ req'[p].rows = req[p].rows
      /\ req'[p].todo = left /\ req'[p].pc = pc /\ req'[p].wrote = wrote
  BY <1>1, <1>4 DEF Request
<1> QED
  BY <1>2, <1>5, <1>6, Zenon DEF Settles, w, left, pc, wrote

\* One turn of the fine run.
Fines(p, i) ==
  LET old == req[p].seen[i]
      row == invoice'[i]
  IN  /\ i \in req[p].todo /\ InvoiceFree(p, i)
      /\ \A j \in Invoices \ {i} : invoice'[j] = invoice[j]
      /\ row.fine = old.fine + FineCharge(i, old, today) /\ row.finedFor = today
      /\ row.paidTotal = invoice[i].paidTotal
      /\ row.status = DeriveStatus(Subtotal[i] + row.fine, old.paidTotal,
                        Overdue(i, today), old.status = "CANCELLED", FALSE)
      /\ \/ req' = [req EXCEPT ![p] = Idle]
         \/ /\ GoesOn(p)
            /\ req'[p].pc = "charge" /\ req'[p].todo = req[p].todo \ {i}
            /\ req'[p].intx = req[p].intx /\ req'[p].rows = req[p].rows
            /\ req'[p].wrote = req[p].wrote
            /\ \A j \in Invoices \ {i} : req'[p].seen[j] = req[p].seen[j]
      /\ UNCHANGED <<today, payment, sums>>

LEMMA FineWriteEffect ==
  ASSUME VerifiedInv, NEW p \in Procs, FineWrite(p)
  PROVE  \E i \in Invoices : Fines(p, i)
<1>1. /\ req \in [Procs -> Request] /\ req[p] \in Request
      /\ invoice \in [Invoices -> InvoiceRow] /\ req[p].pc = "charge"
      /\ UNCHANGED <<today, payment, sums>>
  BY DEF VerifiedInv, TypeOK, FineWrite
<1>2. PICK i \in req[p].todo :
        LET old == req[p].seen[i]
            fine == old.fine + FineCharge(i, old, today)
            left == req[p].todo \ {i}
        IN  /\ InvoiceFree(p, i)
            /\ invoice' = [invoice EXCEPT ![i].fine = fine,
                 ![i].finedFor = today,
                 ![i].status = DeriveStatus(Subtotal[i] + fine, old.paidTotal,
                                 Overdue(i, today), old.status = "CANCELLED",
                                 FALSE)]
            /\ req' = [req EXCEPT ![p] =
                 IF left = {} THEN Idle
                 ELSE [req[p] EXCEPT !.todo = left, !.seen[i] = None]]
  BY DEF FineWrite
<1> DEFINE old == req[p].seen[i]
           fine == old.fine + FineCharge(i, old, today)
           status == DeriveStatus(Subtotal[i] + fine, old.paidTotal,
                       Overdue(i, today), old.status = "CANCELLED", FALSE)
           left == req[p].todo \ {i}
           seen == [req[p].seen EXCEPT ![i] = None]
<1>3. i \in Invoices /\ invoice[i] \in InvoiceRow
  BY <1>1 DEF Request
<1>4. /\ \A j \in Invoices \ {i} : invoice'[j] = invoice[j]
      /\ invoice'[i] = [invoice[i] EXCEPT !.fine = fine, !.finedFor = today,
                                          !.status = status]
  BY <1>1, <1>2, <1>3
<1>5. /\ invoice'[i].fine = fine /\ invoice'[i].finedFor = today
      /\ invoice'[i].paidTotal = invoice[i].paidTotal /\ invoice'[i].status = status
  <2> HIDE DEF fine, status
  <2> QED
    BY <1>3, <1>4 DEF InvoiceRow
<1>6. \/ req' = [req EXCEPT ![p] = Idle]
      \/ /\ GoesOn(p)
         /\ req'[p].pc = "charge" /\ req'[p].todo = left
         /\ req'[p].intx = req[p].intx /\ req'[p].rows = req[p].rows
         /\ req'[p].wrote = req[p].wrote
         /\ \A j \in Invoices \ {i} : req'[p].seen[j] = req[p].seen[j]
  <2>1. CASE left = {}
    BY <1>2, <2>1
  <2>2. CASE left # {}
    <3>1. req' = [req EXCEPT ![p] = [req[p] EXCEPT !.todo = left, !.seen = seen]]
      BY <1>2, <2>2
    <3>2. \A j \in Invoices \ {i} : seen[j] = req[p].seen[j]
      BY <1>1 DEF Request
    <3> HIDE DEF seen, left
    <3>3. /\ \A q \in Procs \ {p} : req'[q] = req[q]
          /\ req'[p] = [req[p] EXCEPT !.todo = left, !.seen = seen]
      BY <1>1, <3>1
    <3>4. GoesOn(p)
      BY <1>1, <3>3 DEF GoesOn, Request
    <3>5. /\ req'[p].pc = "charge" /\ req'[p].todo = left
          /\ req'[p].intx = req[p].intx /\ req'[p].rows = req[p].rows
          /\ req'[p].wrote = req[p].wrote /\ req'[p].seen = seen
      BY <1>1, <3>3 DEF Request
    <3> QED
      BY <3>2, <3>4, <3>5
  <2> QED
    BY <2>1, <2>2
<1>7. InvoiceFree(p, i)
  BY <1>2
<1> QED
  BY <1>1, <1>2, <1>3, <1>4, <1>5, <1>6, <1>7 DEF Fines

-----------------------------------------------------------------------------
(* Late fines. *)
SameFine(row, other) == row.fine = other.fine /\ row.finedFor = other.finedFor

Late(i, month) == IF Overdue(i, month) THEN month - DueOn[i] ELSE 0

\* Fines so far, and what the fine run has not charged for this month yet.
FineFits(i) ==
  /\ invoice[i].finedFor <= today
  /\ invoice[i].fine <= FineFlat * Late(i, today)
  /\ invoice[i].finedFor # today => invoice[i].fine <= FineFlat * Late(i, today - 1)

\* What a fine run is about to write is either the fine to come or the fine
\* another run has charged by now.
Chargeable(p, i) ==
  LET old == req[p].seen[i]
  IN  /\ old.finedFor # today
      /\ invoice[i].fine =
           old.fine + IF invoice[i].finedFor = today THEN FineCharge(i, old, today) ELSE 0

FinesInv ==
  /\ \A i \in Invoices : FineFits(i)
  /\ \A p \in Procs :
       /\ req[p].pc = "idle" => req[p] = Idle
       /\ req[p].pc = "charge" => \A i \in req[p].todo : Chargeable(p, i)
       /\ \A i \in Invoices : req[p].wrote[i] # None =>
            req[p].intx /\ SameFine(req[p].wrote[i], invoice[i])

\* Nothing wrong with the fines while the rows that change keep theirs.
LEMMA FinesKept ==
  ASSUME VerifiedInv, FinesInv, NEW p \in Procs,
         UNCHANGED today,
         \A i \in Invoices : SameFine(invoice'[i], invoice[i]),
         \A q \in Procs \ {p} : req'[q] = req[q],
         req'[p].pc # "charge",
         req'[p].pc = "idle" => req'[p] = Idle,
         \A i \in Invoices : req'[p].wrote[i] # None =>
            req'[p].intx /\ SameFine(req'[p].wrote[i], invoice[i])
  PROVE  FinesInv'
<1>1. \A i \in Invoices : FineFits(i)'
  BY DEF FinesInv, FineFits, Late, Overdue, SameFine
<1>2. \A q \in Procs, i \in Invoices : q # p =>
        (Chargeable(q, i) <=> Chargeable(q, i)')
  BY DEF Chargeable, FineCharge, Overdue, SameFine
<1>3. ASSUME NEW q \in Procs \ {p}
      PROVE  /\ req'[q].pc = "idle" => req'[q] = Idle
             /\ req'[q].pc = "charge" => \A i \in req'[q].todo : Chargeable(q, i)'
             /\ \A i \in Invoices : req'[q].wrote[i] # None =>
                  req'[q].intx /\ SameFine(req'[q].wrote[i], invoice'[i])
  <2>1. req'[q] = req[q] /\ req[q].todo \subseteq Invoices
    BY DEF VerifiedInv, TypeOK, Request
  <2> QED
    BY <1>2, <2>1 DEF FinesInv, SameFine
<1>4. \A i \in Invoices : req'[p].wrote[i] # None =>
        req'[p].intx /\ SameFine(req'[p].wrote[i], invoice'[i])
  BY DEF SameFine
<1> QED
  BY <1>1, <1>3, <1>4 DEF FinesInv

\* A request that leaves the invoices alone.
LEMMA InvoicesAlone ==
  ASSUME VerifiedInv, FinesInv, NEW p \in Procs,
         UNCHANGED <<today, invoice>>,
         \A q \in Procs \ {p} : req'[q] = req[q],
         req'[p].pc # "charge",
         req'[p].pc = "idle" => req'[p] = Idle,
         \/ \A i \in Invoices : req'[p].wrote[i] = None
         \/ req'[p].wrote = req[p].wrote /\ (req[p].intx => req'[p].intx)
  PROVE  FinesInv'
<1>1. \A i \in Invoices : SameFine(invoice'[i], invoice[i])
  BY DEF SameFine
<1>2. \A i \in Invoices : req'[p].wrote[i] # None =>
        req'[p].intx /\ SameFine(req'[p].wrote[i], invoice[i])
  BY DEF FinesInv
<1> QED
  BY <1>1, <1>2, FinesKept

LEMMA IdleFields ==
  /\ Idle.op = "none" /\ Idle.pc = "idle" /\ Idle.intx = FALSE /\ Idle.rows = {}
  /\ Idle.todo = {} /\ \A i \in Invoices : Idle.wrote[i] = None
BY DEF Idle

LEMMA EndOfRequestFines ==
  ASSUME VerifiedInv, FinesInv, NEW p \in Procs, req' = [req EXCEPT ![p] = Idle],
         UNCHANGED <<today, invoice>>
  PROVE  FinesInv'
<1>1. req'[p] = Idle /\ \A q \in Procs \ {p} : req'[q] = req[q]
  BY DEF VerifiedInv, TypeOK
<1> QED
  BY <1>1, IdleFields, InvoicesAlone

\* What a fine run writes never goes below the fine there is, charges the month
\* once, and stays within the months that are over.
LEMMA FineToWrite ==
  ASSUME VerifiedInv, FinesInv, NEW p \in Procs, NEW i \in Invoices,
         req[p].pc = "charge", i \in req[p].todo
  PROVE  LET old == req[p].seen[i]
             fine == old.fine + FineCharge(i, old, today)
         IN  /\ old.fine \in Nat /\ FineCharge(i, old, today) \in Nat
             /\ invoice[i].fine <= fine /\ fine <= FineFlat * Late(i, today)
             /\ fine = invoice[i].fine +
                  IF invoice[i].finedFor = today THEN 0 ELSE FineCharge(i, old, today)
<1> DEFINE old == req[p].seen[i]
           charge == FineCharge(i, old, today)
<1>1. /\ old \in InvoiceRow /\ invoice[i] \in InvoiceRow
      /\ today \in Nat /\ DueOn[i] \in Nat /\ FineFlat \in Nat
  BY FeeAssumption DEF FeeAssumption, VerifiedInv, TypeOK, CarriesOK
<1>2. old.fine \in Nat /\ invoice[i].fine \in Nat
  BY <1>1 DEF InvoiceRow
<1>3. Chargeable(p, i) /\ FineFits(i)
  BY DEF FinesInv
<1>4. /\ old.finedFor # today
      /\ invoice[i].fine = old.fine + IF invoice[i].finedFor = today THEN charge ELSE 0
  BY <1>3 DEF Chargeable
<1>5. /\ charge \in Nat /\ charge <= FineFlat
      /\ charge = 0 \/ Overdue(i, today)
  BY <1>1, <1>2, FeeAssumption DEF FeeAssumption, FineCharge
<1> HIDE DEF charge, old
<1>6. old.fine + charge <= FineFlat * Late(i, today)
  <2>1. CASE invoice[i].finedFor = today
    BY <1>3, <1>4, <2>1 DEF FineFits
  <2>2. CASE invoice[i].finedFor # today
    <3>1. old.fine <= FineFlat * Late(i, today - 1) /\ old.fine <= FineFlat * Late(i, today)
      BY <1>2, <1>3, <1>4, <2>2 DEF FineFits
    <3>2. CASE charge = 0
      BY <1>2, <3>1, <3>2
    <3>3. CASE Overdue(i, today)
      <4> DEFINE n == Late(i, today - 1)
      <4>1. n \in Nat /\ Late(i, today) = n + 1
        BY <1>1, <3>3 DEF Late, Overdue
      <4> HIDE DEF n
      <4>2. FineFlat * (n + 1) = FineFlat * n + FineFlat /\ FineFlat * n \in Nat
        BY <1>1, <4>1
      <4> QED
        BY <1>1, <1>2, <1>5, <3>1, <4>1, <4>2 DEF n
    <3> QED
      BY <1>5, <3>2, <3>3
  <2> QED
    BY <2>1, <2>2
<1> QED
  BY <1>2, <1>4, <1>5, <1>6 DEF charge, old

LEMMA FineWriteFines ==
  ASSUME VerifiedInv, FinesInv, NEW p \in Procs, FineWrite(p)
  PROVE  FinesInv'
<1>1. PICK i \in Invoices : Fines(p, i)
  BY FineWriteEffect
<1> DEFINE old == req[p].seen[i]
           charge == FineCharge(i, old, today)
<1>2. /\ req \in [Procs -> Request] /\ invoice \in [Invoices -> InvoiceRow]
      /\ req[p].pc = "charge" /\ i \in req[p].todo /\ today \in Nat /\ FineFlat \in Nat
      /\ req[p].op = "fine" /\ ~req[p].intx
  <2>1. req[p].pc = "charge"
    BY DEF FineWrite
  <2>2. i \in req[p].todo
    BY <1>1 DEF Fines
  <2>3. today \in Nat /\ FineFlat \in Nat
    BY FeeAssumption DEF FeeAssumption, VerifiedInv, TypeOK
  <2>4. req[p].op = "fine" /\ ~req[p].intx
    BY <2>1 DEF VerifiedInv, TypeOK, CarriesOK, Request
  <2> QED
    BY <2>1, <2>2, <2>3, <2>4 DEF VerifiedInv, TypeOK
<1>3. /\ invoice[i].fine \in Nat /\ invoice[i].finedFor \in Nat
      /\ old.fine \in Nat /\ charge \in Nat
      /\ old.fine + charge <= FineFlat * Late(i, today)
      /\ old.fine + charge = invoice[i].fine +
           IF invoice[i].finedFor = today THEN 0 ELSE charge
  BY <1>2, FineToWrite DEF InvoiceRow
<1>4. /\ \A j \in Invoices \ {i} : invoice'[j] = invoice[j]
      /\ invoice'[i].fine = old.fine + charge /\ invoice'[i].finedFor = today
      /\ today' = today
  BY <1>1 DEF Fines
<1> HIDE DEF charge
<1>5. \A j \in Invoices : FineFits(j)'
  <2>1. FineFits(i)'
    BY <1>2, <1>3, <1>4 DEF FineFits, Late, Overdue
  <2>2. ASSUME NEW j \in Invoices \ {i} PROVE FineFits(j)'
    BY <1>4 DEF FinesInv, FineFits, Late, Overdue
  <2> QED
    BY <2>1, <2>2
<1>6. \A q \in Procs \ {p} : req'[q] = req[q]
  BY <1>1, <1>2 DEF Fines, GoesOn
<1>7. ASSUME NEW q \in Procs, NEW j \in Invoices, req[q].pc = "charge", j \in req[q].todo,
             req'[q].seen[j] = req[q].seen[j]
      PROVE  Chargeable(q, j)'
  <2>1. Chargeable(q, j)
    BY <1>7 DEF FinesInv
  <2>2. CASE j # i
    BY <1>4, <1>7, <2>1, <2>2 DEF Chargeable, FineCharge, Overdue
  <2>3. CASE j = i
    <3> DEFINE his == req[q].seen[i]
    <3>1. /\ his.fine \in Nat /\ FineCharge(i, his, today) \in Nat
          /\ his.fine + FineCharge(i, his, today) = invoice[i].fine +
               IF invoice[i].finedFor = today THEN 0 ELSE FineCharge(i, his, today)
          /\ his.finedFor # today /\ old.finedFor # today
      BY <1>2, <1>7, <2>1, <2>3, FineToWrite DEF Chargeable, FinesInv
    <3>2. his.fine = old.fine => FineCharge(i, his, today) = charge
      BY <3>1 DEF FineCharge, charge
    <3>3. invoice'[i].fine = his.fine + FineCharge(i, his, today)
      BY <1>3, <1>4, <3>1, <3>2
    <3>4. FineCharge(i, his, today)' = FineCharge(i, his, today) /\ his' = his
      BY <1>4, <1>7, <2>3 DEF FineCharge, Overdue
    <3> HIDE DEF his
    <3> QED
      BY <1>4, <1>7, <2>3, <3>1, <3>3, <3>4 DEF Chargeable, his
  <2> QED
    BY <2>2, <2>3
<1>8. ASSUME NEW q \in Procs, NEW j \in Invoices, req'[q].wrote[j] # None
      PROVE  req'[q].intx /\ SameFine(req'[q].wrote[j], invoice'[j])
  <2>1. q # p
    <3>1. \A k \in Invoices : req[p].wrote[k] = None
      BY <1>2 DEF FinesInv
    <3> QED
      BY <1>1, <1>2, <1>8, <3>1, IdleFields DEF Fines
  <2>2. j # i
    BY <1>1, <1>6, <1>8, <2>1 DEF Fines, InvoiceFree
  <2> QED
    BY <1>4, <1>6, <1>8, <2>1, <2>2 DEF FinesInv
<1>9. ASSUME NEW q \in Procs PROVE req'[q].pc = "idle" => req'[q] = Idle
  BY <1>1, <1>2, <1>6 DEF Fines, FinesInv
<1>10. ASSUME NEW q \in Procs, req'[q].pc = "charge", NEW j \in req'[q].todo
       PROVE  Chargeable(q, j)'
  <2>1. req[q] \in Request /\ req[q].todo \subseteq Invoices
    BY <1>2 DEF Request
  <2>2. CASE q # p
    BY <1>6, <1>7, <1>10, <2>1, <2>2
  <2>3. CASE q = p
    <3>1. req' # [req EXCEPT ![p] = Idle]
      BY <1>2, <1>10, <2>3, IdleFields
    <3>2. /\ req'[p].todo = req[p].todo \ {i}
          /\ \A k \in Invoices \ {i} : req'[p].seen[k] = req[p].seen[k]
      BY <1>1, <3>1 DEF Fines
    <3> QED
      BY <1>2, <1>7, <1>10, <2>1, <2>3, <3>2
  <2> QED
    BY <2>2, <2>3
<1> QED
  BY <1>5, <1>8, <1>9, <1>10 DEF FinesInv

LEMMA FineRunFines ==
  ASSUME VerifiedInv, FinesInv, NEW p \in Procs, FineRun(p)
  PROVE  FinesInv'
<1>1. PICK S \in SUBSET Invoices :
        /\ \A i \in S : FineCharge(i, invoice[i], today) > 0
        /\ req' = [req EXCEPT ![p] =
             [Idle EXCEPT !.op = "fine", !.pc = "charge", !.todo = S,
                !.seen = [i \in Invoices |-> IF i \in S THEN invoice[i] ELSE None]]]
  BY DEF FineRun
<1>2. UNCHANGED <<today, invoice>> /\ req \in [Procs -> Request]
  BY DEF FineRun, VerifiedInv, TypeOK
<1>3. \A q \in Procs \ {p} : req'[q] = req[q]
  BY <1>1, <1>2
<1>4. /\ req'[p].pc = "charge" /\ req'[p].todo = S
      /\ \A i \in S : req'[p].seen[i] = invoice[i]
      /\ \A i \in Invoices : req'[p].wrote[i] = None
  BY <1>1, <1>2 DEF Idle
<1>5. \A i \in Invoices : FineFits(i)'
  BY <1>2 DEF FinesInv, FineFits, Late, Overdue
<1>6. ASSUME NEW q \in Procs \ {p}
      PROVE  /\ req'[q].pc = "idle" => req'[q] = Idle
             /\ req'[q].pc = "charge" => \A i \in req'[q].todo : Chargeable(q, i)'
             /\ \A i \in Invoices : req'[q].wrote[i] # None =>
                  req'[q].intx /\ SameFine(req'[q].wrote[i], invoice'[i])
  <2>1. req'[q] = req[q] /\ req[q].todo \subseteq Invoices
    BY <1>2, <1>3 DEF Request
  <2>2. \A i \in Invoices : Chargeable(q, i) => Chargeable(q, i)'
    BY <1>2, <2>1 DEF Chargeable, FineCharge, Overdue
  <2> QED
    BY <1>2, <2>1, <2>2 DEF FinesInv
<1>7. ASSUME NEW i \in S PROVE Chargeable(p, i)'
  <2>1. invoice[i].finedFor # today
    BY <1>1 DEF FineCharge
  <2>2. invoice[i].fine \in Nat
    BY <1>2 DEF VerifiedInv, TypeOK, InvoiceRow
  <2> QED
    BY <1>2, <1>4, <2>1, <2>2 DEF Chargeable
<1> QED
  BY <1>4, <1>5, <1>6, <1>7 DEF FinesInv

LEMMA TickFines ==
  ASSUME VerifiedInv, FinesInv, Tick
  PROVE  FinesInv'
<1>1. /\ UNCHANGED <<invoice, req>> /\ today' = today + 1
      /\ \A p \in Procs : req[p].pc = "idle"
  BY DEF Tick
<1>2. \A p \in Procs : req[p] = Idle
  BY <1>1 DEF FinesInv
<1>3. ASSUME NEW i \in Invoices PROVE FineFits(i)'
  <2>1. /\ today \in Nat /\ DueOn[i] \in Nat /\ FineFlat \in Nat
        /\ invoice[i].fine \in Nat /\ invoice[i].finedFor \in Nat
    BY FeeAssumption DEF FeeAssumption, VerifiedInv, TypeOK, InvoiceRow
  <2> DEFINE n == Late(i, today)
  <2>2. invoice[i].finedFor <= today /\ invoice[i].fine <= FineFlat * n
    BY DEF FinesInv, FineFits
  <2>3. n \in Nat /\ (Late(i, today + 1) = n \/ Late(i, today + 1) = n + 1)
    BY <2>1 DEF Late, Overdue
  <2>4. Late(i, (today + 1) - 1) = n /\ today + 1 - 1 = today
    BY <2>1
  <2> HIDE DEF n
  <2>5. FineFlat * (n + 1) = FineFlat * n + FineFlat /\ FineFlat * n \in Nat
    BY <2>1, <2>3
  <2>6. invoice[i].fine <= FineFlat * Late(i, today + 1)
    BY <2>1, <2>2, <2>3, <2>5
  <2>7. /\ Late(i, today)' = Late(i, today + 1)
        /\ Late(i, today - 1)' = Late(i, (today + 1) - 1)
    BY <1>1 DEF Late, Overdue
  <2> QED
    BY <1>1, <2>1, <2>2, <2>4, <2>6, <2>7 DEF FineFits
<1> QED
  BY <1>1, <1>2, <1>3, IdleFields DEF FinesInv

LEMMA CommitFines ==
  ASSUME VerifiedInv, FinesInv, NEW p \in Procs, Commit(p)
  PROVE  FinesInv'
<1>1. /\ today' = today /\ req \in [Procs -> Request]
      /\ invoice' = [i \in Invoices |-> IF req[p].wrote[i] # None
                                          THEN req[p].wrote[i] ELSE invoice[i]]
      /\ req' = [req EXCEPT ![p] =
           IF req[p].op = "collect"
             THEN [Idle EXCEPT !.op = "collect", !.pc = "announce", !.rows = req[p].rows]
             ELSE Idle]
  BY DEF Commit, VerifiedInv, TypeOK
<1>2. \A i \in Invoices : SameFine(invoice'[i], invoice[i])
  BY <1>1 DEF FinesInv, SameFine
<1>3. \A q \in Procs \ {p} : req'[q] = req[q]
  BY <1>1
<1>4. /\ req'[p].pc \in {"announce", "idle"}
      /\ req'[p].pc = "idle" => req'[p] = Idle
      /\ \A i \in Invoices : req'[p].wrote[i] = None
  BY <1>1 DEF Idle
<1> QED
  BY <1>1, <1>2, <1>3, <1>4, FinesKept

LEMMA CancelWriteFines ==
  ASSUME VerifiedInv, FinesInv, NEW p \in Procs, CancelWrite(p)
  PROVE  FinesInv'
<1>1. /\ today' = today /\ req' = [req EXCEPT ![p] = Idle]
      /\ invoice' = [invoice EXCEPT ![Current(p)].status = "CANCELLED"]
      /\ req \in [Procs -> Request] /\ invoice \in [Invoices -> InvoiceRow]
  BY DEF CancelWrite, VerifiedInv, TypeOK
<1>2. \A i \in Invoices : SameFine(invoice'[i], invoice[i])
  BY <1>1 DEF SameFine, InvoiceRow
<1>3. req'[p] = Idle /\ \A q \in Procs \ {p} : req'[q] = req[q]
  BY <1>1
<1> QED
  BY <1>1, <1>2, <1>3, IdleFields, FinesKept

LEMMA RefreshStatusFines ==
  ASSUME VerifiedInv, FinesInv, NEW p \in Procs, RefreshStatus(p)
  PROVE  FinesInv'
<1> DEFINE i == Current(p)
           w == IF req[p].intx THEN SettledRow(p) ELSE None
<1>1. /\ Settles(p) /\ req[p] \in Request /\ invoice \in [Invoices -> InvoiceRow]
  BY RefreshStatusEffect DEF VerifiedInv, TypeOK
<1>2. /\ UNCHANGED today /\ \A q \in Procs \ {p} : req'[q] = req[q]
      /\ req'[p].intx = req[p].intx
      /\ req'[p].wrote = [req[p].wrote EXCEPT ![i] = w]
      /\ invoice' = IF req[p].intx THEN invoice ELSE [invoice EXCEPT ![i] = SettledRow(p)]
      /\ req'[p].pc \in {"commit", "announce", "insert", "sumSuccessful"}
  BY <1>1, Zenon DEF Settles, GoesOn, AfterSettle
<1>3. i \in Invoices => SameFine(SettledRow(p), invoice[i])
  BY <1>1 DEF SettledRow, SameFine, InvoiceRow
<1>4. \A j \in Invoices : SameFine(invoice'[j], invoice[j])
  BY <1>1, <1>2, <1>3 DEF SameFine
<1>5. ASSUME NEW j \in Invoices, req'[p].wrote[j] # None
      PROVE  req'[p].intx /\ SameFine(req'[p].wrote[j], invoice[j])
  <2>1. req[p].wrote \in [Invoices -> InvoiceRow \cup {None}]
    BY <1>1 DEF Request
  <2>2. CASE j = i
    BY <1>2, <1>3, <1>5, <2>1, <2>2
  <2>3. CASE j # i
    BY <1>2, <1>5, <2>1, <2>3 DEF FinesInv
  <2> QED
    BY <2>2, <2>3
<1> QED
  BY <1>2, <1>4, <1>5, FinesKept

\* Every new request but a fine run starts with nothing written.
LEMMA BeginFines ==
  ASSUME VerifiedInv, FinesInv, NEW p \in Procs, Begin(p)
  PROVE  FinesInv'
<1>1. req \in [Procs -> Request]
  BY DEF VerifiedInv, TypeOK
<1>2. ASSUME NEW r, req' = [req EXCEPT ![p] = r], UNCHANGED <<today, invoice>>,
             r.pc \notin {"idle", "charge"}, \A i \in Invoices : r.wrote[i] = None
      PROVE  FinesInv'
  <2>1. req'[p] = r /\ \A q \in Procs \ {p} : req'[q] = req[q]
    BY <1>1, <1>2
  <2> QED
    BY <1>2, <2>1, InvoicesAlone
<1>3. CASE Collect(p)
  <2>1. PICK c, alloc : req' = [req EXCEPT ![p] = Collecting(c, alloc)]
    BY <1>3, Zenon DEF Collect
  <2>2. Collecting(c, alloc).pc = "insert"
        /\ \A i \in Invoices : Collecting(c, alloc).wrote[i] = None
    BY DEF Collecting, Idle
  <2> QED
    BY <1>2, <1>3, <2>1, <2>2 DEF Collect
<1>4. CASE Refund(p)
  <2>1. PICK x, amount : req' = [req EXCEPT ![p] =
            [Idle EXCEPT !.op = "refund", !.pc = "refund", !.pay = x,
                         !.amount = amount, !.sofar = payment[x].refunded]]
    BY <1>4, Zenon DEF Refund
  <2> DEFINE r == [Idle EXCEPT !.op = "refund", !.pc = "refund", !.pay = x,
                         !.amount = amount, !.sofar = payment[x].refunded]
  <2>2. r.pc = "refund" /\ \A i \in Invoices : r.wrote[i] = None
    BY DEF Idle
  <2> HIDE DEF r
  <2> QED
    BY <1>2, <1>4, <2>1, <2>2 DEF Refund, r
<1>5. CASE Cancel(p)
  <2>1. PICK i \in Invoices : req' = [req EXCEPT ![p] =
            [Idle EXCEPT !.op = "cancel", !.pc = "cancel", !.todo = {i}]]
    BY <1>5, Zenon DEF Cancel
  <2> DEFINE r == [Idle EXCEPT !.op = "cancel", !.pc = "cancel", !.todo = {i}]
  <2>2. r.pc = "cancel" /\ \A j \in Invoices : r.wrote[j] = None
    BY DEF Idle
  <2> HIDE DEF r
  <2> QED
    BY <1>2, <1>5, <2>1, <2>2 DEF Cancel, r
<1>6. CASE Initiate(p)
  <2>1. PICK s, due : req' = [req EXCEPT ![p] = Opening(s, due)]
    BY <1>6, Zenon DEF Initiate
  <2>2. Opening(s, due).pc = "create"
        /\ \A i \in Invoices : Opening(s, due).wrote[i] = None
    BY DEF Opening, Idle
  <2> QED
    BY <1>2, <1>6, <2>1, <2>2 DEF Initiate
<1>7. CASE HandleCallback(p)
  <2>1. PICK s, found, rows : req' = [req EXCEPT ![p] =
            [Idle EXCEPT !.op = "callback", !.pc = "verify", !.ref = s,
                         !.pay = found, !.rows = rows]]
    BY <1>7, Zenon DEF HandleCallback
  <2> DEFINE r == [Idle EXCEPT !.op = "callback", !.pc = "verify", !.ref = s,
                               !.pay = found, !.rows = rows]
  <2>2. r.pc = "verify" /\ \A j \in Invoices : r.wrote[j] = None
    BY DEF Idle
  <2> HIDE DEF r
  <2> QED
    BY <1>2, <1>7, <2>1, <2>2 DEF HandleCallback, r
<1>8. CASE Reconcile(p)
  <2>1. PICK x : req' = [req EXCEPT ![p] =
            [Idle EXCEPT !.op = "reconcile", !.pc = "verify", !.pay = x,
                         !.ref = payment[x].ref, !.rows = Siblings(x)]]
    BY <1>8, Zenon DEF Reconcile
  <2> DEFINE r == [Idle EXCEPT !.op = "reconcile", !.pc = "verify", !.pay = x,
                               !.ref = payment[x].ref, !.rows = Siblings(x)]
  <2>2. r.pc = "verify" /\ \A j \in Invoices : r.wrote[j] = None
    BY DEF Idle
  <2> HIDE DEF r
  <2> QED
    BY <1>2, <1>8, <2>1, <2>2 DEF Reconcile, r
<1> QED
  BY <1>3, <1>4, <1>5, <1>6, <1>7, <1>8, FineRunFines DEF Begin

LEMMA ContinueFines ==
  ASSUME VerifiedInv, FinesInv, NEW p \in Procs, Continue(p)
  PROVE  FinesInv'
<1>1. req \in [Procs -> Request] /\ req[p] \in Request
  BY DEF VerifiedInv, TypeOK
<1>2. CASE InsertPayment(p)
  BY <1>2, InsertPaymentEffect, InvoicesAlone DEF Inserts, GoesOn
<1>3. CASE InsertRefund(p)
  BY <1>3, InsertRefundEffect, InvoicesAlone DEF Opens, GoesOn
<1>4. CASE SumSuccessful(p) \/ SumRefunded(p) \/ FindForSettle(p)
  BY <1>4, ReadEffect, InvoicesAlone DEF Reads, GoesOn
<1>5. CASE Announce(p)
  BY <1>5, EndOfRequestFines DEF Announce
<1>6. CASE CreatePending(p)
  BY <1>6, EndOfRequestFines DEF CreatePending
<1>7. CASE RefuseSettle(p)
  BY <1>7, EndOfRequestFines DEF RefuseSettle, Abort
<1>8. CASE Verify(p)
  <2>1. /\ UNCHANGED <<today, invoice>>
        /\ \E v : req' = [req EXCEPT ![p] = [req[p] EXCEPT !.verdict = v, !.pc = "mark"]]
    BY <1>1, <1>8 DEF Verify
  <2>2. PICK v : req' = [req EXCEPT ![p] = [req[p] EXCEPT !.verdict = v, !.pc = "mark"]]
    BY <2>1
  <2>3. /\ req'[p].pc = "mark" /\ req'[p].wrote = req[p].wrote
        /\ req'[p].intx = req[p].intx
        /\ \A q \in Procs \ {p} : req'[q] = req[q]
    BY <1>1, <2>2 DEF Request
  <2> QED
    BY <2>1, <2>3, InvoicesAlone
<1>9. CASE MarkAll(p)
  <2>1. UNCHANGED <<today, invoice>>
    BY <1>9 DEF MarkAll
  <2>2. CASE req[p].verdict = "SUCCESS"
    <3>1. PICK todo : req' = [req EXCEPT ![p] =
                               [req[p] EXCEPT !.pc = "sumSuccessful", !.todo = todo]]
      BY <1>9, <2>2 DEF MarkAll
    <3>2. /\ req'[p].pc = "sumSuccessful" /\ req'[p].wrote = req[p].wrote
          /\ req'[p].intx = req[p].intx
          /\ \A q \in Procs \ {p} : req'[q] = req[q]
      BY <1>1, <3>1 DEF Request
    <3> QED
      BY <2>1, <3>2, InvoicesAlone
  <2>3. CASE req[p].verdict # "SUCCESS"
    BY <1>9, <2>1, <2>3, EndOfRequestFines DEF MarkAll
  <2> QED
    BY <2>2, <2>3
<1> QED
  BY <1>2, <1>3, <1>4, <1>5, <1>6, <1>7, <1>8, <1>9, RefreshStatusFines, CommitFines,
     CancelWriteFines, FineWriteFines DEF Continue

LEMMA NextFines == VerifiedInv /\ FinesInv /\ [Next]_vars => FinesInv'
<1> SUFFICES ASSUME VerifiedInv, FinesInv, [Next]_vars PROVE FinesInv'
  OBVIOUS
<1>1. ASSUME UNCHANGED <<today, invoice, req>> PROVE FinesInv'
  BY <1>1 DEF FinesInv, FineFits, Late, Overdue, Chargeable, FineCharge, SameFine
<1>2. CASE UNCHANGED vars
  BY <1>1, <1>2 DEF vars
<1>3. ASSUME NEW s \in Sessions, GatewayDecides(s) PROVE FinesInv'
  BY <1>1, <1>3 DEF GatewayDecides
<1>4. ASSUME NEW p \in Procs, Fail(p) PROVE FinesInv'
  BY <1>4, EndOfRequestFines DEF Fail, Abort
<1> QED
  BY <1>2, <1>3, <1>4, TickFines, BeginFines, ContinueFines DEF Next

LEMMA InitFines == Init => FinesInv
<1> SUFFICES ASSUME Init PROVE FinesInv
  OBVIOUS
<1>1. /\ today = 0 /\ req = [p \in Procs |-> Idle]
      /\ \A i \in Invoices : invoice[i].fine = 0 /\ invoice[i].finedFor = 0
  BY DEF Init
<1>2. ASSUME NEW i \in Invoices PROVE FineFits(i)
  <2>1. FineFlat \in Nat /\ DueOn[i] \in Nat
    BY FeeAssumption DEF FeeAssumption
  <2>2. Late(i, 0) = 0
    BY <2>1 DEF Late, Overdue
  <2> QED
    BY <1>1, <2>1, <2>2 DEF FineFits
<1> QED
  BY <1>1, <1>2, IdleFields DEF FinesInv

THEOREM FinesInvariant == Spec => [](VerifiedInv /\ FinesInv)
<1>1. Init => VerifiedInv /\ FinesInv
  BY InitVerified, InitFines
<1>2. VerifiedInv /\ FinesInv /\ [Next]_vars => (VerifiedInv /\ FinesInv)'
  BY NextVerified, NextFines
<1> QED
  BY <1>1, <1>2, PTL DEF Spec

\* The nightly run charges an overdue calendar month once, however many runs
\* overlap and whatever settles, refunds and cancellations come in between: it
\* writes an absolute fine worked out from the row as it first read it.
THEOREM FinesAreMonthly == Spec => []FineOncePerMonth
<1>1. FinesInv => FineOncePerMonth
  BY DEF FinesInv, FineFits, Late, FineOncePerMonth
<1> QED
  BY <1>1, FinesInvariant, PTL

-----------------------------------------------------------------------------
(* One verdict per checkout session.                                       *)

\* Callbacks name the session, never one transaction of it, and no receipt of
\* it is given back: a callback by transaction id marks one row of several, and
\* a refund turns one row REFUNDED.
WholeSessions ==
  /\ Hints \subseteq {"ref"}
  /\ \A p \in Procs : "refund" \notin Ops[p]

EveryRowOf(s) == {x \in Payments : payment[x].ref = s}

\* A session whose rows are about to be created has none yet, and nobody else
\* is about to create them.
FreshSession(p) ==
  /\ EveryRowOf(req[p].ref) = {}
  /\ \A q \in Procs \ {p} : req[q].pc = "create" => req[q].ref # req[p].ref

\* A request that asked about a session holds all its rows; when no other
\* request runs, they were not verified before.
WholeSession(p) ==
  /\ req[p].rows = EveryRowOf(req[p].ref)
  /\ req[p].rows # {}
  /\ (\A q \in Procs : q = p) => \A x \in req[p].rows : payment[x].status # "SUCCESS"

SessionInv ==
  /\ SessionIsOneVerdict
  /\ \A x \in Payments : payment[x].status = "absent" => payment[x].ref = None
  /\ \A p \in Procs : /\ req[p].op # "refund"
                      /\ req[p].pc = "create" => FreshSession(p)
                      /\ req[p].pc \in {"verify", "mark"} => WholeSession(p)

\* Steps that leave the rows of every session alone.
LEMMA SessionsAlone ==
  ASSUME SessionInv, NEW p \in Procs,
         \A q \in Procs \ {p} : req'[q] = req[q],
         \A x \in Payments : /\ payment'[x].ref = payment[x].ref
                             /\ payment[x].ref # None
                                  => payment'[x].status = payment[x].status,
         req'[p].op # "refund", req'[p].pc \notin {"create", "verify", "mark"}
  PROVE  SessionInv'
<1>1. SessionIsOneVerdict'
  BY DEF SessionInv, SessionIsOneVerdict
<1>2. \A x \in Payments : payment'[x].status = "absent" => payment'[x].ref = None
  BY DEF SessionInv
<1>3. ASSUME NEW q \in Procs
      PROVE  /\ req'[q].op # "refund"
             /\ req'[q].pc = "create" => FreshSession(q)'
             /\ req'[q].pc \in {"verify", "mark"} => WholeSession(q)'
  <2>1. CASE q = p
    BY <2>1
  <2>2. CASE q # p
    <3>1. req'[q] = req[q]
      BY <2>2
    <3>2. \A s : EveryRowOf(s)' = EveryRowOf(s)
      BY DEF EveryRowOf
    <3>3. req[q].pc = "create" => FreshSession(q)'
      BY <3>1, <3>2 DEF SessionInv, FreshSession
    <3>4. req[q].pc \in {"verify", "mark"} => WholeSession(q)'
      BY <2>2, <3>1, <3>2 DEF SessionInv, WholeSession
    <3> QED
      BY <3>1, <3>3, <3>4 DEF SessionInv
  <2> QED
    BY <2>1, <2>2
<1> QED
  BY <1>1, <1>2, <1>3 DEF SessionInv

\* A request that starts, or ends, without a session in its hands.
LEMMA SessionUntouched ==
  ASSUME VerifiedInv, SessionInv, NEW p \in Procs, NEW r,
         req' = [req EXCEPT ![p] = r], UNCHANGED payment,
         r.op # "refund", r.pc \notin {"create", "verify", "mark"}
  PROVE  SessionInv'
<1>1. req'[p] = r /\ \A q \in Procs \ {p} : req'[q] = req[q]
  BY DEF VerifiedInv, TypeOK
<1> QED
  BY <1>1, SessionsAlone

\* Every row a session has is one the handlers can see: only the receipts of a
\* collection in progress are hidden.
LEMMA SessionIsVisible ==
  ASSUME VerifiedInv, SessionInv, NEW s, s # None
  PROVE  RowsOf(s) = EveryRowOf(s)
<1> SUFFICES ASSUME NEW x \in Payments, payment[x].ref = s
             PROVE  x \in Committed
  BY DEF RowsOf, EveryRowOf, Committed
<1>1. payment[x].status # "absent"
  BY DEF SessionInv
<1>2. \A q \in Procs : x \notin Hidden(q)
  BY DEF VerifiedInv, HoldsOK, Hidden
<1> QED
  BY <1>1, <1>2 DEF Committed

\* A request that takes up a session takes up all of it.
LEMMA SessionTaken ==
  ASSUME VerifiedInv, SessionInv, NEW p \in Procs, NEW r,
         req' = [req EXCEPT ![p] = r], UNCHANGED payment,
         r.op # "refund", r.pc \in {"verify", "mark"},
         r.ref # None, r.rows = RowsOf(r.ref), r.rows # {},
         \E x \in r.rows : payment[x].status # "SUCCESS"
  PROVE  SessionInv'
<1>1. req'[p] = r /\ \A q \in Procs \ {p} : req'[q] = req[q]
  BY DEF VerifiedInv, TypeOK
<1>2. r.rows = EveryRowOf(r.ref)
  BY SessionIsVisible
<1>3. \A s : EveryRowOf(s)' = EveryRowOf(s)
  BY DEF EveryRowOf
<1>4. \A x \in r.rows : payment[x].status # "SUCCESS"
  BY <1>2 DEF EveryRowOf, SessionInv, SessionIsOneVerdict
<1>5. WholeSession(p)'
  BY <1>1, <1>2, <1>3, <1>4 DEF WholeSession
<1>6. ASSUME NEW q \in Procs \ {p}
      PROVE  /\ req'[q].op # "refund"
             /\ req'[q].pc = "create" => FreshSession(q)'
             /\ req'[q].pc \in {"verify", "mark"} => WholeSession(q)'
  <2>1. req'[q] = req[q]
    BY <1>1
  <2>2. req[q].pc = "create" => FreshSession(q)'
    BY <1>1, <1>3, <2>1 DEF SessionInv, FreshSession
  <2>3. req[q].pc \in {"verify", "mark"} => WholeSession(q)'
    BY <1>3, <2>1 DEF SessionInv, WholeSession
  <2> QED
    BY <2>1, <2>2, <2>3 DEF SessionInv
<1>7. SessionIsOneVerdict'
  BY DEF SessionInv, SessionIsOneVerdict
<1> QED
  BY <1>1, <1>5, <1>6, <1>7 DEF SessionInv

LEMMA InitiateSession ==
  ASSUME VerifiedInv, SessionInv, NEW p \in Procs, Initiate(p)
  PROVE  SessionInv'
<1>1. PICK s \in Sessions :
        gateway[s] = "unopened" /\ \E d : req' = [req EXCEPT ![p] = Opening(s, d)]
  BY Zenon DEF Initiate
<1>2. PICK due : req' = [req EXCEPT ![p] = Opening(s, due)]
  BY <1>1
<1>3. UNCHANGED payment
  BY DEF Initiate
<1>4. Opening(s, due).op = "initiate" /\ Opening(s, due).pc = "create"
      /\ Opening(s, due).ref = s
  BY DEF Opening, Idle
<1>5. req'[p] = Opening(s, due) /\ \A q \in Procs \ {p} : req'[q] = req[q]
  BY <1>2 DEF VerifiedInv, TypeOK
<1>6. s # None
  BY FeeAssumption DEF FeeAssumption
<1>7. EveryRowOf(s) = {}
  BY <1>1, <1>6 DEF EveryRowOf, VerifiedInv, RowOK
<1>8. \A q \in Procs : req[q].pc = "create" => req[q].ref # s
  BY <1>1 DEF VerifiedInv, CarriesOK
<1>9. \A t : EveryRowOf(t)' = EveryRowOf(t)
  BY <1>3 DEF EveryRowOf
<1>10. FreshSession(p)'
  BY <1>4, <1>5, <1>7, <1>8, <1>9 DEF FreshSession
<1>11. ASSUME NEW q \in Procs \ {p}
       PROVE  /\ req'[q].op # "refund"
              /\ req'[q].pc = "create" => FreshSession(q)'
              /\ req'[q].pc \in {"verify", "mark"} => WholeSession(q)'
  <2>1. req'[q] = req[q]
    BY <1>5
  <2>2. req[q].pc = "create" => FreshSession(q)'
    BY <1>4, <1>5, <1>8, <1>9, <2>1 DEF SessionInv, FreshSession
  <2>3. req[q].pc \in {"verify", "mark"} => WholeSession(q)'
    BY <1>3, <1>9, <2>1 DEF SessionInv, WholeSession
  <2> QED
    BY <2>1, <2>2, <2>3 DEF SessionInv
<1>12. SessionIsOneVerdict'
  BY <1>3 DEF SessionInv, SessionIsOneVerdict
<1> QED
  BY <1>3, <1>4, <1>5, <1>10, <1>11, <1>12 DEF SessionInv

LEMMA HandleCallbackSession ==
  ASSUME WholeSessions, VerifiedInv, SessionInv, NEW p \in Procs, HandleCallback(p)
  PROVE  SessionInv'
<1>1. PICK s \in Sessions, found \in {None} :
        /\ RowsOf(s) # {} /\ ~AlreadyVerified(RowsOf(s))
        /\ req' = [req EXCEPT ![p] =
             [Idle EXCEPT !.op = "callback", !.pc = "verify", !.ref = s,
                          !.pay = found, !.rows = RowsOf(s)]]
  BY DEF HandleCallback, FindPendingFor, WholeSessions
<1> DEFINE r == [Idle EXCEPT !.op = "callback", !.pc = "verify", !.ref = s,
                             !.pay = found, !.rows = RowsOf(s)]
<1>2. r.op = "callback" /\ r.pc = "verify" /\ r.ref = s /\ r.rows = RowsOf(s)
  BY DEF Idle
<1>3. req' = [req EXCEPT ![p] = r] /\ UNCHANGED payment
  BY <1>1 DEF HandleCallback
<1>4. s # None
  BY FeeAssumption DEF FeeAssumption
<1> HIDE DEF r
<1>5. /\ r.op # "refund" /\ r.pc \in {"verify", "mark"} /\ r.ref # None
      /\ r.rows = RowsOf(r.ref) /\ r.rows # {}
      /\ \E x \in r.rows : payment[x].status # "SUCCESS"
  BY <1>1, <1>2, <1>4 DEF AlreadyVerified
<1> QED
  BY <1>3, <1>5, SessionTaken

LEMMA ReconcileSession ==
  ASSUME VerifiedInv, SessionInv, NEW p \in Procs, Reconcile(p)
  PROVE  SessionInv'
<1>1. PICK x \in Committed :
        /\ payment[x].ref # None /\ payment[x].status # "SUCCESS"
        /\ req' = [req EXCEPT ![p] =
             [Idle EXCEPT !.op = "reconcile", !.pc = "verify", !.pay = x,
                          !.ref = payment[x].ref, !.rows = Siblings(x)]]
  BY DEF Reconcile
<1> DEFINE r == [Idle EXCEPT !.op = "reconcile", !.pc = "verify", !.pay = x,
                             !.ref = payment[x].ref, !.rows = Siblings(x)]
<1>2. /\ r.op = "reconcile" /\ r.pc = "verify" /\ r.ref = payment[x].ref
      /\ r.rows = RowsOf(payment[x].ref)
  BY DEF Idle, Siblings
<1>3. req' = [req EXCEPT ![p] = r] /\ UNCHANGED payment
  BY <1>1 DEF Reconcile
<1>4. x \in RowsOf(payment[x].ref)
  BY DEF RowsOf
<1> HIDE DEF r
<1>5. /\ r.op # "refund" /\ r.pc \in {"verify", "mark"} /\ r.ref # None
      /\ r.rows = RowsOf(r.ref) /\ r.rows # {}
      /\ \E y \in r.rows : payment[y].status # "SUCCESS"
  BY <1>1, <1>2, <1>4
<1> QED
  BY <1>3, <1>5, SessionTaken

LEMMA BeginSession ==
  ASSUME WholeSessions, VerifiedInv, SessionInv, NEW p \in Procs, Begin(p)
  PROVE  SessionInv'
<1>1. CASE Collect(p)
  <2>1. PICK c, alloc : req' = [req EXCEPT ![p] = Collecting(c, alloc)]
    BY <1>1, Zenon DEF Collect
  <2>2. Collecting(c, alloc).pc = "insert" /\ Collecting(c, alloc).op = "collect"
    BY DEF Collecting, Idle
  <2> QED
    BY <1>1, <2>1, <2>2, SessionUntouched DEF Collect
<1>2. ~Refund(p)
  BY DEF Refund, Starts, WholeSessions
<1>3. CASE Cancel(p)
  <2>1. PICK i \in Invoices : req' = [req EXCEPT ![p] =
            [Idle EXCEPT !.op = "cancel", !.pc = "cancel", !.todo = {i}]]
    BY <1>3, Zenon DEF Cancel
  <2> DEFINE r == [Idle EXCEPT !.op = "cancel", !.pc = "cancel", !.todo = {i}]
  <2>2. r.pc = "cancel" /\ r.op = "cancel"
    BY DEF Idle
  <2> HIDE DEF r
  <2> QED
    BY <1>3, <2>1, <2>2, SessionUntouched DEF Cancel, r
<1>4. CASE FineRun(p)
  <2>1. PICK todo, seen : req' = [req EXCEPT ![p] =
            [Idle EXCEPT !.op = "fine", !.pc = "charge", !.todo = todo, !.seen = seen]]
    BY <1>4, Zenon DEF FineRun
  <2> DEFINE r == [Idle EXCEPT !.op = "fine", !.pc = "charge", !.todo = todo,
                               !.seen = seen]
  <2>2. r.pc = "charge" /\ r.op = "fine"
    BY DEF Idle
  <2> HIDE DEF r
  <2> QED
    BY <1>4, <2>1, <2>2, SessionUntouched DEF FineRun, r
<1> QED
  BY <1>1, <1>2, <1>3, <1>4, InitiateSession, HandleCallbackSession, ReconcileSession
  DEF Begin

\* The rows of a checkout appear together.
LEMMA CreatePendingSession ==
  ASSUME VerifiedInv, SessionInv, NEW p \in Procs, CreatePending(p)
  PROVE  SessionInv'
<1> DEFINE s == req[p].ref
<1>1. PICK row \in Injection(req[p].todo, Unused) :
        payment' = [x \in Payments |->
          IF x \in Range(row)
            THEN LET i == CHOOSE j \in req[p].todo : row[j] = x
                 IN  [Absent EXCEPT !.status = "PENDING", !.inv = i,
                                    !.amount = req[p].alloc[i], !.ref = req[p].ref]
            ELSE payment[x]]
  BY DEF CreatePending
<1>2. /\ req' = [req EXCEPT ![p] = Idle]
      /\ req[p].pc = "create" /\ s # None
  BY DEF CreatePending, VerifiedInv, CarriesOK
<1>3. \A x \in Range(row) : x \in Payments /\ payment[x].status = "absent"
  BY DEF Range, Injection, IsInjective, Unused
<1>4. ASSUME NEW x \in Payments, x \in Range(row)
      PROVE  payment'[x].status = "PENDING" /\ payment'[x].ref = s
  <2> DEFINE k == CHOOSE j \in req[p].todo : row[j] = x
  <2>1. payment'[x] = [Absent EXCEPT !.status = "PENDING", !.inv = k,
                                     !.amount = req[p].alloc[k], !.ref = req[p].ref]
    BY <1>1, <1>4
  <2> HIDE DEF k
  <2> QED
    BY <2>1 DEF Absent
<1>5. \A x \in Payments : x \notin Range(row) => payment'[x] = payment[x]
  BY <1>1
<1>6. req'[p] = Idle /\ \A q \in Procs \ {p} : req'[q] = req[q]
  BY <1>2 DEF VerifiedInv, TypeOK
<1>7. EveryRowOf(s) = {} /\ \A q \in Procs \ {p} : req[q].pc = "create" => req[q].ref # s
  BY <1>2 DEF SessionInv, FreshSession
<1>8. \A t : t # s /\ t # None => EveryRowOf(t)' = EveryRowOf(t)
  <2>1. \A x \in Payments : x \in Range(row) =>
           payment[x].ref = None /\ payment'[x].ref = s
    BY <1>3, <1>4 DEF SessionInv
  <2> QED
    BY <1>5, <2>1 DEF EveryRowOf
<1>9. SessionIsOneVerdict'
  <2> SUFFICES ASSUME NEW x \in Payments, NEW y \in Payments,
                      payment'[x].ref # None, payment'[x].ref = payment'[y].ref
               PROVE  payment'[x].status = payment'[y].status
    BY DEF SessionIsOneVerdict
  <2>1. \A z \in Payments : z \notin Range(row) => payment'[z].ref # s
    BY <1>5, <1>7 DEF EveryRowOf
  <2>2. x \in Range(row) <=> y \in Range(row)
    BY <1>4, <2>1
  <2> QED
    BY <1>4, <1>5, <2>2 DEF SessionInv, SessionIsOneVerdict
<1>10. \A x \in Payments : payment'[x].status = "absent" => payment'[x].ref = None
  BY <1>4, <1>5 DEF SessionInv
<1>11. \A q \in Procs \ {p} : req[q].pc = "create" => FreshSession(q)'
  <2> SUFFICES ASSUME NEW q \in Procs \ {p}, req[q].pc = "create"
               PROVE  FreshSession(q)'
    OBVIOUS
  <2>1. req[q].ref # s /\ req[q].ref # None
    BY <1>7 DEF VerifiedInv, CarriesOK
  <2>2. EveryRowOf(req[q].ref)' = {}
    BY <1>6, <1>8, <2>1 DEF SessionInv, FreshSession
  <2> QED
    BY <1>6, <2>2, IdleFields DEF SessionInv, FreshSession
<1>12. \A q \in Procs \ {p} : req[q].pc \in {"verify", "mark"} => WholeSession(q)'
  <2> SUFFICES ASSUME NEW q \in Procs \ {p}, req[q].pc \in {"verify", "mark"}
               PROVE  WholeSession(q)'
    OBVIOUS
  <2>1. /\ req[q].ref # None /\ req[q].rows = EveryRowOf(req[q].ref)
        /\ req[q].rows # {}
    BY DEF VerifiedInv, CarriesOK, SessionInv, WholeSession
  <2>2. req[q].ref # s
    BY <1>7, <2>1
  <2>3. {x \in Payments : payment'[x].ref = req[q].ref} = req[q].rows
    BY <1>8, <2>1, <2>2 DEF EveryRowOf
  <2> QED
    BY <1>6, <2>1, <2>3 DEF WholeSession, EveryRowOf
<1> QED
  BY <1>6, <1>9, <1>10, <1>11, <1>12, IdleFields DEF SessionInv

LEMMA VerifySession ==
  ASSUME VerifiedInv, SessionInv, NEW p \in Procs, Verify(p)
  PROVE  SessionInv'
<1>1. req \in [Procs -> Request] /\ req[p] \in Request /\ req[p].pc = "verify"
  BY DEF VerifiedInv, TypeOK, Verify
<1>2. PICK v : req' = [req EXCEPT ![p] = [req[p] EXCEPT !.verdict = v, !.pc = "mark"]]
  BY <1>1 DEF Verify
<1>3. /\ \A q \in Procs \ {p} : req'[q] = req[q]
      /\ req'[p].op = req[p].op /\ req'[p].pc = "mark"
      /\ req'[p].ref = req[p].ref /\ req'[p].rows = req[p].rows
  BY <1>1, <1>2 DEF Request
<1>4. UNCHANGED payment /\ \A t : EveryRowOf(t)' = EveryRowOf(t)
  BY DEF Verify, EveryRowOf
<1>5. SessionIsOneVerdict'
  BY <1>4 DEF SessionInv, SessionIsOneVerdict
<1>6. WholeSession(p)'
  BY <1>1, <1>3, <1>4 DEF SessionInv, WholeSession
<1>7. \A q \in Procs \ {p} : req[q].pc = "create" => FreshSession(q)'
  BY <1>3, <1>4 DEF SessionInv, FreshSession
<1>8. \A q \in Procs \ {p} : req[q].pc \in {"verify", "mark"} => WholeSession(q)'
  BY <1>3, <1>4 DEF SessionInv, WholeSession
<1> QED
  BY <1>1, <1>3, <1>4, <1>5, <1>6, <1>7, <1>8 DEF SessionInv

\* markAll writes one status on all the rows of the session it asked about.
LEMMA MarkAllSession ==
  ASSUME VerifiedInv, SessionInv, NEW p \in Procs, MarkAll(p)
  PROVE  SessionInv'
<1> DEFINE s == req[p].ref
<1>1. /\ req \in [Procs -> Request] /\ req[p] \in Request /\ req[p].pc = "mark"
      /\ req[p].rows = EveryRowOf(s) /\ req[p].rows # {} /\ s # None
      /\ req[p].rows \subseteq Payments
      /\ payment \in [Payments -> PaymentRow]
      /\ req[p].verdict \in Outcomes \cup {"MISMATCH"}
  BY DEF VerifiedInv, TypeOK, MarkAll, SessionInv, WholeSession, CarriesOK, Request
<1> DEFINE st == StatusFor(req[p].verdict)
<1>2. PICK given \in BOOLEAN :
        payment' = [x \in Payments |->
          IF x \in req[p].rows
            THEN [payment[x] EXCEPT !.status = st,
                                    !.txn = IF given THEN x = FirstOf(req[p].rows)
                                                     ELSE @]
            ELSE payment[x]]
  BY DEF MarkAll
<1>3. st # "absent"
  BY <1>1 DEF StatusFor, Outcomes
<1> HIDE DEF st
<1>4. ASSUME NEW x \in req[p].rows
      PROVE  payment'[x].status = st /\ payment'[x].ref = payment[x].ref
  <2>1. PICK t : payment'[x] = [payment[x] EXCEPT !.status = st, !.txn = t]
    BY <1>1, <1>2
  <2>2. payment[x] \in PaymentRow
    BY <1>1
  <2> QED
    BY <2>1, <2>2 DEF PaymentRow
<1>5. \A x \in Payments \ req[p].rows : payment'[x] = payment[x]
  BY <1>2
<1>6. \A t : EveryRowOf(t)' = EveryRowOf(t)
  BY <1>4, <1>5 DEF EveryRowOf
<1>7. SessionIsOneVerdict'
  <2> SUFFICES ASSUME NEW x \in Payments, NEW y \in Payments,
                      payment'[x].ref # None, payment'[x].ref = payment'[y].ref
               PROVE  payment'[x].status = payment'[y].status
    BY DEF SessionIsOneVerdict
  <2>1. payment[x].ref # None /\ payment[x].ref = payment[y].ref
    BY <1>4, <1>5
  <2>2. x \in req[p].rows <=> y \in req[p].rows
    BY <1>1, <2>1 DEF EveryRowOf
  <2> QED
    BY <1>4, <1>5, <2>1, <2>2 DEF SessionInv, SessionIsOneVerdict
<1>8. \A x \in Payments : payment'[x].status = "absent" => payment'[x].ref = None
  BY <1>3, <1>4, <1>5 DEF SessionInv
<1>9. \A q \in Procs \ {p} : req'[q] = req[q]
  BY <1>1 DEF MarkAll
<1>10. req'[p].op # "refund" /\ req'[p].pc \in {"sumSuccessful", "idle"}
  <2>1. req[p].op # "refund"
    BY DEF SessionInv
  <2>2. CASE req[p].verdict = "SUCCESS"
    <3>1. PICK todo : req' = [req EXCEPT ![p] =
                               [req[p] EXCEPT !.pc = "sumSuccessful", !.todo = todo]]
      BY <2>2 DEF MarkAll
    <3> QED
      BY <1>1, <2>1, <3>1 DEF Request
  <2>3. CASE req[p].verdict # "SUCCESS"
    BY <1>1, <2>3, IdleFields DEF MarkAll
  <2> QED
    BY <2>2, <2>3
<1>11. \A q \in Procs \ {p} : req[q].pc = "create" => FreshSession(q)'
  BY <1>6, <1>9, <1>10 DEF SessionInv, FreshSession
<1>12. \A q \in Procs \ {p} : req[q].pc \in {"verify", "mark"} => WholeSession(q)'
  BY <1>6, <1>9 DEF SessionInv, WholeSession
<1> QED
  BY <1>7, <1>8, <1>9, <1>10, <1>11, <1>12 DEF SessionInv

\* What a dying request takes back is what it had collected, never a session's row.
LEMMA AbortSession ==
  ASSUME VerifiedInv, SessionInv, NEW p \in Procs, Abort(p)
  PROVE  SessionInv'
<1>1. /\ req' = [req EXCEPT ![p] = Idle]
      /\ payment' = [x \in Payments |-> IF x \in Hidden(p) THEN Absent ELSE payment[x]]
  BY DEF Abort
<1>2. req'[p] = Idle /\ \A q \in Procs \ {p} : req'[q] = req[q]
  BY <1>1 DEF VerifiedInv, TypeOK
<1>3. \A x \in Payments : x \in Hidden(p) => /\ payment[x].ref = None
                                             /\ payment'[x].ref = None
  BY <1>1 DEF VerifiedInv, HoldsOK, Hidden, Absent
<1>4. \A x \in Payments : x \notin Hidden(p) => payment'[x] = payment[x]
  BY <1>1
<1> QED
  BY <1>2, <1>3, <1>4, IdleFields, SessionsAlone

LEMMA ContinueSession ==
  ASSUME VerifiedInv, SessionInv, NEW p \in Procs, Continue(p)
  PROVE  SessionInv'
<1>1. req \in [Procs -> Request] /\ req[p] \in Request /\ req[p].op # "refund"
  BY DEF VerifiedInv, TypeOK, SessionInv
<1>2. CASE InsertPayment(p)
  <2>1. PICK x \in Payments : Inserts(p, x)
    BY <1>2, InsertPaymentEffect
  <2>2. payment[x].ref = None /\ payment'[x].ref = None
    BY <2>1 DEF Inserts, SessionInv, Absent
  <2>3. \A y \in Payments \ {x} : payment'[y] = payment[y]
    BY <2>1 DEF Inserts
  <2>4. \A y \in Payments : /\ payment'[y].ref = payment[y].ref
                            /\ payment[y].ref # None
                                 => payment'[y].status = payment[y].status
    BY <2>2, <2>3
  <2>5. /\ \A q \in Procs \ {p} : req'[q] = req[q]
        /\ req'[p].op # "refund" /\ req'[p].pc = "sumSuccessful"
    BY <1>1, <2>1 DEF Inserts, GoesOn
  <2> QED
    BY <2>4, <2>5, SessionsAlone
<1>3. CASE InsertRefund(p)
  BY <1>1, <1>3, InsertRefundEffect, SessionsAlone DEF Opens, GoesOn
<1>4. CASE SumSuccessful(p) \/ SumRefunded(p) \/ FindForSettle(p)
  BY <1>1, <1>4, ReadEffect, SessionsAlone DEF Reads, GoesOn
<1>5. CASE RefreshStatus(p)
  <2>1. Settles(p)
    BY <1>5, RefreshStatusEffect
  <2>2. req'[p].pc \in {"commit", "announce", "insert", "sumSuccessful"}
    BY <2>1 DEF Settles, AfterSettle
  <2> QED
    BY <1>1, <2>1, <2>2, SessionsAlone DEF Settles, GoesOn
<1>6. CASE RefuseSettle(p)
  BY <1>6, AbortSession DEF RefuseSettle
<1>7. CASE Commit(p)
  <2>1. \A x \in Payments : payment'[x] = payment[x]
    BY <1>1, <1>7 DEF Commit, InRefund
  <2>2. \A q \in Procs \ {p} : req'[q] = req[q]
    BY <1>1, <1>7 DEF Commit
  <2>3. req'[p].op # "refund" /\ req'[p].pc \in {"announce", "idle"}
    BY <1>1, <1>7 DEF Commit, Idle
  <2> QED
    BY <2>1, <2>2, <2>3, SessionsAlone
<1>8. CASE Announce(p) \/ CancelWrite(p)
  BY <1>8, IdleFields, SessionUntouched DEF Announce, CancelWrite
<1>9. CASE FineWrite(p)
  <2>1. PICK i \in Invoices : Fines(p, i)
    BY <1>9, FineWriteEffect
  <2>2. UNCHANGED payment
    BY <2>1 DEF Fines
  <2>3. CASE req' = [req EXCEPT ![p] = Idle]
    BY <2>2, <2>3, IdleFields, SessionUntouched
  <2>4. CASE GoesOn(p) /\ req'[p].pc = "charge"
    BY <1>1, <2>2, <2>4, SessionsAlone DEF GoesOn
  <2> QED
    BY <2>1, <2>3, <2>4 DEF Fines
<1> QED
  BY <1>2, <1>3, <1>4, <1>5, <1>6, <1>7, <1>8, <1>9, CreatePendingSession,
     VerifySession, MarkAllSession DEF Continue

LEMMA NextSession == WholeSessions /\ VerifiedInv /\ SessionInv /\ [Next]_vars => SessionInv'
<1> SUFFICES ASSUME WholeSessions, VerifiedInv, SessionInv, [Next]_vars
             PROVE  SessionInv'
  OBVIOUS
<1>1. ASSUME UNCHANGED <<payment, req>> PROVE SessionInv'
  BY <1>1 DEF SessionInv, SessionIsOneVerdict, FreshSession, WholeSession, EveryRowOf
<1>2. CASE UNCHANGED vars
  BY <1>1, <1>2 DEF vars
<1>3. CASE Tick
  BY <1>1, <1>3 DEF Tick
<1>4. ASSUME NEW s \in Sessions, GatewayDecides(s) PROVE SessionInv'
  BY <1>1, <1>4 DEF GatewayDecides
<1>5. ASSUME NEW p \in Procs, Fail(p) PROVE SessionInv'
  BY <1>5, AbortSession DEF Fail
<1> QED
  BY <1>2, <1>3, <1>4, <1>5, BeginSession, ContinueSession DEF Next

LEMMA InitSession == Init => SessionInv
<1> SUFFICES ASSUME Init PROVE SessionInv
  OBVIOUS
<1>1. /\ \A p \in Procs : req[p] = Idle
      /\ \A x \in Payments : payment[x].ref = None
  BY DEF Init, Absent
<1> QED
  BY <1>1, IdleFields DEF SessionInv, SessionIsOneVerdict

\* Where sessions are whole, the invariant of sessions comes along with the first.
THEOREM SessionInvariant == WholeSessions => (Spec => [](VerifiedInv /\ SessionInv))
<1> SUFFICES ASSUME WholeSessions PROVE Spec => [](VerifiedInv /\ SessionInv)
  OBVIOUS
<1>1. Init => VerifiedInv /\ SessionInv
  BY InitVerified, InitSession
<1>2. VerifiedInv /\ SessionInv /\ [Next]_vars => (VerifiedInv /\ SessionInv)'
  BY NextVerified, NextSession
<1> QED
  BY <1>1, <1>2, PTL DEF Spec

\* All or nothing: whatever callbacks, reconciliations and sweeps race over a
\* checkout, its rows always carry one status, because they are created in one
\* transaction, looked up by their session and marked together.
THEOREM CheckoutsAreWhole == WholeSessions => (Spec => []SessionIsOneVerdict)
<1> SUFFICES ASSUME WholeSessions PROVE Spec => []SessionIsOneVerdict
  OBVIOUS
<1>1. SessionInv => SessionIsOneVerdict
  BY DEF SessionInv
<1>2. Spec => [](VerifiedInv /\ SessionInv)
  BY SessionInvariant
<1> QED
  BY <1>1, <1>2, PTL

\* A payment's row is marked by nothing but markAll, and by a refund.
LEMMA OnlyMarkingUnverifies ==
  ASSUME VerifiedInv, SessionInv, [Next]_vars, NEW x \in Payments,
         payment[x].ref # None, payment[x].status = "SUCCESS",
         payment'[x].status \notin {"SUCCESS", "REFUNDED"}
  PROVE  \E p \in Procs : req[p].pc = "mark" /\ x \in req[p].rows
<1>1. payment'[x] # payment[x]
  OBVIOUS
<1>2. \A p \in Procs : x \notin Hidden(p)
  BY DEF VerifiedInv, HoldsOK, Hidden
<1>3. ~Tick /\ ~UNCHANGED vars /\ \A s \in Sessions : ~GatewayDecides(s)
  BY <1>1 DEF Tick, vars, GatewayDecides
<1>4. ASSUME NEW p \in Procs, Begin(p) PROVE FALSE
  BY <1>1, <1>4 DEF Begin, Collect, Refund, Cancel, FineRun, Initiate,
     HandleCallback, Reconcile
<1>5. ASSUME NEW p \in Procs, Abort(p) PROVE FALSE
  BY <1>1, <1>2, <1>5 DEF Abort
<1>6. ASSUME NEW p \in Procs, Continue(p)
      PROVE  req[p].pc = "mark" /\ x \in req[p].rows
  <2>1. CASE InsertPayment(p)
    BY <1>1, <2>1 DEF InsertPayment, Unused, VerifiedInv, TypeOK
  <2>2. CASE Commit(p)
    BY <1>1, <2>2 DEF Commit, InRefund, SessionInv
  <2>3. CASE CreatePending(p)
    <3>1. PICK row \in Injection(req[p].todo, Unused) :
            x \notin Range(row) => payment'[x] = payment[x]
      BY <2>3 DEF CreatePending
    <3>2. x \notin Range(row)
      BY DEF Range, Injection, Unused
    <3> QED
      BY <1>1, <3>1, <3>2
  <2>4. CASE MarkAll(p)
    BY <1>1, <2>4 DEF MarkAll
  <2>5. CASE InsertRefund(p) \/ SumSuccessful(p) \/ SumRefunded(p) \/ FindForSettle(p)
             \/ RefreshStatus(p) \/ Announce(p) \/ CancelWrite(p) \/ FineWrite(p)
             \/ Verify(p)
    BY <1>1, <2>5 DEF InsertRefund, SumSuccessful, SumRefunded, FindForSettle,
       RefreshStatus, Announce, CancelWrite, FineWrite, Verify
  <2>6. CASE RefuseSettle(p)
    BY <1>5, <2>6 DEF RefuseSettle
  <2> QED
    BY <1>6, <2>1, <2>2, <2>3, <2>4, <2>5, <2>6 DEF Continue
<1> QED
  BY <1>3, <1>4, <1>5, <1>6 DEF Next, Fail

OneAtATime == \A p, q \in Procs : p = q

\* A retried callback, a sweep or a reconciliation by hand never takes back what
\* was verified, as long as requests come one at a time: each of them looks for
\* work first and finds a verified session has none.
THEOREM VerifiedMoneyStays ==
  WholeSessions /\ OneAtATime => (Spec => VerifiedStays)
<1> SUFFICES ASSUME WholeSessions, OneAtATime PROVE Spec => VerifiedStays
  OBVIOUS
<1> DEFINE Stays == \A x \in Payments :
                      payment[x].ref # None /\ payment[x].status = "SUCCESS"
                      => payment'[x].status \in {"SUCCESS", "REFUNDED"}
<1>1. ASSUME VerifiedInv, SessionInv, [Next]_vars PROVE Stays
  <2> SUFFICES ASSUME NEW x \in Payments,
                      payment[x].ref # None, payment[x].status = "SUCCESS",
                      payment'[x].status \notin {"SUCCESS", "REFUNDED"}
               PROVE  FALSE
    OBVIOUS
  <2>1. PICK p \in Procs : req[p].pc = "mark" /\ x \in req[p].rows
    BY <1>1, OnlyMarkingUnverifies
  <2>2. WholeSession(p) /\ \A q \in Procs : q = p
    BY <1>1, <2>1 DEF SessionInv, OneAtATime
  <2> QED
    BY <2>1, <2>2 DEF WholeSession
<1>2. Spec => [](VerifiedInv /\ SessionInv)
  BY SessionInvariant
<1>3. VerifiedInv /\ SessionInv /\ [Next]_vars => [Stays]_vars
  BY <1>1
<1>4. [][Stays]_vars => VerifiedStays
  BY DEF VerifiedStays
<1> QED
  BY <1>2, <1>3, <1>4, PTL DEF Spec
=============================================================================
