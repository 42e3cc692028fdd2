---------------------------- MODULE StockLedger ----------------------------
(***************************************************************************)
(* The store: deliveries, issue slips, returns and stock counts, and the   *)
(* ledger of movements they all write.                                     *)
(*                                                                         *)
(* A request reads what it decides on outside its transaction, in the      *)
(* action that begins it; that action lays out in `todo` the statements of *)
(* the transaction, which then run one by one beside those of the others.  *)
(* Each takes the row locks Postgres gives it: FOR UPDATE on an item       *)
(* (lockItemAndReadBalance), the row an UPDATE changes, and the share lock *)
(* on an item by which a line inserted for it checks its foreign key.      *)
(* Locks last until the commit, which alone makes the writes visible.      *)
(*                                                                         *)
(* Items are counted in base units and all are consumables: the register   *)
(* of tagged assets is not here.  An item's number is the place of its id  *)
(* in the order recordMany sorts by.                                       *)
(*                                                                         *)
(* Just above some definitions stand variants of them with a likely slip;  *)
(* the specification uses none of those.                                   *)
(***************************************************************************)
EXTENDS Integers, Sequences, FiniteSets, Functions

CONSTANTS
  Items,        \* the catalogue, 1..n
  Slips,        \* issue slips that can ever exist (bounds the run)
  Purchases,    \* deliveries that can ever exist (bounds the run)
  Procs,        \* requests in flight at once
  Ops,          \* Ops[p]: the operations process p may start
  EntrySorted,  \* whether clerks happen to list items in the order of their ids
  MaxQty,       \* bound: largest quantity on a line
  MaxRequests,  \* bound: requests started
  MaxFails,     \* bound: requests that die half way
  None

OpNames == {"draft", "update", "remove", "receive", "cancel", "issue", "return", "adjust"}

ASSUME StockAssumption ==
  /\ Items \subseteq Nat /\ IsFiniteSet(Items) /\ None \notin Slips \cup Purchases
  /\ Slips \cap Purchases = {}
  /\ MaxQty \in Nat /\ MaxRequests \in Nat /\ MaxFails \in Nat
  /\ Ops \in [Procs -> SUBSET OpNames]
  /\ EntrySorted \in BOOLEAN

VARIABLES
  ledger,    \* stock_ledger, per item in the order written
  slip,      \* stock_issues with their lines
  purchase,  \* purchases with their lines
  req,       \* the request each process is serving
  todo,      \* the statements its transaction has yet to run
  holds,     \* the row locks its transaction has
  asked, fails

tables == <<ledger, slip, purchase>>
vars == <<tables, req, todo, holds, asked, fails>>

Documents == Slips \cup Purchases
Quantities == [Items -> Nat]
Zero == [i \in Items |-> 0]

LedgerRow == [ref : Documents \cup {None}, qtyIn : Nat, qtyOut : Nat, balance : Nat]

ASSUME NoneIsNoRow == None \notin LedgerRow

SlipStatus == {"absent", "ISSUED", "PARTIAL_RETURN", "RETURNED"}
SlipRow == [status : SlipStatus,
            qty : Quantities, returned : Quantities]
NoSlip == [status |-> "absent", qty |-> Zero, returned |-> Zero]

\* The items of a list that has no item twice, in the order it was entered.
Lists == {s \in UNION {[1..n -> Items] : n \in 1..Cardinality(Items)} :
            \A m, n \in DOMAIN s : m # n => s[m] # s[n]}

PurchaseRow == [status : {"absent", "DRAFT", "RECEIVED", "CANCELLED"}, deleted : BOOLEAN,
                entry : Lists \cup {<<>>}, qty : Quantities]
NoPurchase == [status |-> "absent", deleted |-> FALSE, entry |-> <<>>, qty |-> Zero]

\* A statement of a transaction, and the item it is about.
Step == [do : {"number", "share", "credit", "move", "reread", "stamp"},
         item : Items \cup {None}]

Request ==
  [op : OpNames \cup {"none"}, doc : Documents \cup {None}, entry : Lists \cup {<<>>},
   move : [Items -> Int],                    \* what the ledger gains or loses
   wrote : [Items -> LedgerRow \cup {None}], \* ledger rows not yet committed
   status : SlipStatus]     \* what processReturn makes of the slip

NothingWritten == [i \in Items |-> None]

Asked(op, doc, entry, move) ==
  [op |-> op, doc |-> doc, entry |-> entry, move |-> move,
   wrote |-> NothingWritten, status |-> "absent"]

Idle == Asked("none", None, <<>>, Zero)

-----------------------------------------------------------------------------
(* Row locks. *)

Own(row) == [mode |-> "own", row |-> row]
Share(row) == [mode |-> "share", row |-> row]

LockWithoutForUpdate(p, s) ==
  CASE s.do = "number" -> {Own(<<"counter", req[p].op>>)}
    [] s.do \in {"share", "move"} -> {Share(<<"item", s.item>>)}
    [] s.do = "credit" -> {Own(<<"line", req[p].doc, s.item>>)}
    [] s.do = "stamp" -> {Own(<<"document", req[p].doc>>)}
    [] s.do = "reread" -> {}
LockFor(p, s) ==
  CASE s.do = "number" -> {Own(<<"counter", req[p].op>>)}
    [] s.do = "share" -> {Share(<<"item", s.item>>)}
    [] s.do = "move" -> {Own(<<"item", s.item>>)}
    [] s.do = "credit" -> {Own(<<"line", req[p].doc, s.item>>)}
    [] s.do = "stamp" -> {Own(<<"document", req[p].doc>>)}
    [] s.do = "reread" -> {}

Conflict(k, l) == k.row = l.row /\ "own" \in {k.mode, l.mode}

\* Those p waits for before its next statement can run.
Blockers(p) ==
  IF todo[p] = <<>> THEN {}
  ELSE {q \in Procs \ {p} : \E k \in holds[q], l \in LockFor(p, Head(todo[p])) :
                              Conflict(k, l)}

-----------------------------------------------------------------------------
(* What is read. *)

\* balance_after of the row with the newest created_at.  That is the last one
\* written: an item's rows are written one after the other under its lock, and each
\* is stamped, by one server's clock, when its own INSERT goes out.
Balance(i) == IF ledger[i] = <<>> THEN 0 ELSE ledger[i][Len(ledger[i])].balance

Outstanding(s, i) == slip[s].qty[i] - slip[s].returned[i]

\* deriveIssueStatus, of what was issued and what has come back.
DeriveStatus(qty, returned) ==
  IF \A i \in Items : returned[i] >= qty[i] THEN "RETURNED"
  ELSE IF \E i \in Items : returned[i] > 0 THEN "PARTIAL_RETURN"
  ELSE "ISSUED"

Ascending(s) == \A m, n \in DOMAIN s : m < n => s[m] < s[n]

\* recordMany sorts what it is given.
SortedBackwards(entry) ==
  CHOOSE s \in [DOMAIN entry -> Range(entry)] :
    \A m, n \in DOMAIN s : m < n => s[m] > s[n]
Sorted(entry) == CHOOSE s \in [DOMAIN entry -> Range(entry)] : Ascending(s)

Do(what, entry) == [n \in DOMAIN entry |-> [do |-> what, item |-> entry[n]]]
Once(what) == <<[do |-> what, item |-> None]>>

\* What a clerk may enter: a list of items with a quantity for each.
Entries == {s \in Lists : EntrySorted => Ascending(s)}
QuantitiesOf(entry) ==
  {q \in [Items -> 0..MaxQty] : \A i \in Items : q[i] > 0 <=> i \in Range(entry)}

Minus(q) == [i \in Items |-> -q[i]]

Begins(p, op) == req[p].op = "none" /\ op \in Ops[p] /\ asked < MaxRequests

Asks(p, op, doc, entry, move, statements) ==
  /\ req' = [req EXCEPT ![p] = Asked(op, doc, entry, move)]
  /\ todo' = [todo EXCEPT ![p] = statements]
  /\ asked' = asked + 1
  /\ UNCHANGED <<tables, holds, fails>>

\* A row nobody has and nobody is about to insert.
New(docs) == {d \in docs : \A p \in Procs : req[p].doc # d}

-----------------------------------------------------------------------------
Init ==
  /\ ledger = [i \in Items |-> <<>>]
  /\ slip = [s \in Slips |-> NoSlip]
  /\ purchase = [d \in Purchases |-> NoPurchase]
  /\ req = [p \in Procs |-> Idle]
  /\ todo = [p \in Procs |-> <<>>]
  /\ holds = [p \in Procs |-> {}]
  /\ asked = 0
  /\ fails = 0

-----------------------------------------------------------------------------
(* Deliveries. *)

Drafts == {d \in Purchases : purchase[d].status = "DRAFT" /\ ~purchase[d].deleted}

DraftPurchase(p) ==
  /\ Begins(p, "draft")
  /\ \E d \in New({e \in Purchases : purchase[e].status = "absent"}), entry \in Entries :
       \E qty \in QuantitiesOf(entry) :
         Asks(p, "draft", d, entry, qty, Once("number") \o Do("share", entry))

UpdatePurchase(p) ==
  /\ Begins(p, "update")
  /\ \E d \in Drafts, entry \in Entries : \E qty \in QuantitiesOf(entry) :
       Asks(p, "update", d, entry, qty, Once("stamp") \o Do("share", entry))

RemovePurchase(p) ==
  /\ Begins(p, "remove")
  /\ \E d \in Drafts : Asks(p, "remove", d, <<>>, Zero, Once("stamp"))

\* receive records line by line as the delivery lists them, not through recordMany.
ReceivableUnlessCancelled ==
  {d \in Purchases : purchase[d].status \in {"DRAFT", "RECEIVED"} /\ ~purchase[d].deleted}
Receivable == Drafts

ReceivePurchase(p) ==
  /\ Begins(p, "receive")
  /\ \E d \in Receivable :
       Asks(p, "receive", d, purchase[d].entry, purchase[d].qty,
            Do("move", purchase[d].entry) \o Once("stamp"))

\* cancel: a draft is only marked, a received delivery is taken out again.
CancelPurchase(p) ==
  /\ Begins(p, "cancel")
  /\ \E d \in Purchases :
       /\ ~purchase[d].deleted
       /\ \/ /\ purchase[d].status = "DRAFT"
             /\ Asks(p, "cancel", d, <<>>, Zero, Once("stamp"))
          \/ /\ purchase[d].status = "RECEIVED"
             /\ Asks(p, "cancel", d, purchase[d].entry, Minus(purchase[d].qty),
                     Do("move", Sorted(purchase[d].entry)) \o Once("stamp"))

-----------------------------------------------------------------------------
(* The issue desk. *)

\* create, when canIssue finds enough of everything.
Issue(p) ==
  /\ Begins(p, "issue")
  /\ \E s \in New({t \in Slips : slip[t].status = "absent"}), entry \in Entries :
       \E qty \in QuantitiesOf(entry) :
         /\ \A i \in Items : qty[i] <= Balance(i)
         /\ Asks(p, "issue", s, entry, Minus(qty),
                 Once("number") \o Do("share", entry) \o Do("move", Sorted(entry)))

\* processReturn, when canReturn finds as much outstanding on every line.
Return(p) ==
  /\ Begins(p, "return")
  /\ \E s \in Slips, entry \in Entries : \E qty \in QuantitiesOf(entry) :
       /\ slip[s].status \in {"ISSUED", "PARTIAL_RETURN"}
       /\ \A i \in Items : qty[i] <= Outstanding(s, i)
       /\ Asks(p, "return", s, entry, qty,
               Do("credit", entry) \o Do("move", Sorted(entry))
                 \o Once("reread") \o Once("stamp"))

\* adjust: what was counted, as the movement from what the ledger says just now.
Adjust(p) ==
  /\ Begins(p, "adjust")
  /\ \E entry \in Entries : \E counted \in [Range(entry) -> 0..MaxQty] :
       LET move == [i \in Items |-> IF i \in Range(entry) THEN counted[i] - Balance(i)
                                                          ELSE 0]
       IN  /\ \A i \in Range(entry) : move[i] # 0
           /\ Asks(p, "adjust", None, entry, move, Do("move", Sorted(entry)))

-----------------------------------------------------------------------------
(* The statements of a transaction. *)

\* p is at this statement and nobody holds a lock against it.
MayRun(p, what, i) ==
  /\ todo[p] # <<>>
  /\ Head(todo[p]) = [do |-> what, item |-> i]
  /\ Blockers(p) = {}

Runs(p, what, i) ==
  /\ MayRun(p, what, i)
  /\ holds' = [holds EXCEPT ![p] = @ \cup LockFor(p, [do |-> what, item |-> i])]
  /\ todo' = [todo EXCEPT ![p] = Tail(@)]
  /\ UNCHANGED <<tables, asked, fails>>

Ends(p) == /\ req' = [req EXCEPT ![p] = Idle]
           /\ todo' = [todo EXCEPT ![p] = <<>>]
           /\ holds' = [holds EXCEPT ![p] = {}]

RollsBack(p) == Ends(p) /\ UNCHANGED <<tables, asked, fails>>

\* A document number, a line's foreign key, the document's own row.
TakeNumber(p) == Runs(p, "number", None) /\ UNCHANGED req
CheckForeignKey(p) == \E i \in Items : Runs(p, "share", i) /\ UNCHANGED req
Stamp(p) == Runs(p, "stamp", None) /\ UNCHANGED req

\* addReturned: an increment of the row as it is now, under
\* chk_stock_issue_items_returned.
CreditUnchecked(p, i) == TRUE
CreditAllowed(p, i) == req[p].move[i] <= Outstanding(req[p].doc, i)

CreditLine(p) ==
  \E i \in Items :
    \/ Runs(p, "credit", i) /\ CreditAllowed(p, i) /\ UNCHANGED req
    \/ MayRun(p, "credit", i) /\ ~CreditAllowed(p, i) /\ RollsBack(p)

\* record: the lock, the balance, the verdict and the row.
MovementUnchecked(balance, move) == TRUE
MovementAllowed(balance, move) == balance + move >= 0

RowFor(p, i) ==
  LET move == req[p].move[i]
  IN  [ref |-> req[p].doc,
       qtyIn |-> IF move > 0 THEN move ELSE 0,
       qtyOut |-> IF move > 0 THEN 0 ELSE -move,
       balance |-> Balance(i) + move]

Move(p) ==
  \E i \in Items :
    \/ /\ Runs(p, "move", i)
       /\ MovementAllowed(Balance(i), req[p].move[i])
       /\ req' = [req EXCEPT ![p].wrote[i] = RowFor(p, i)]
    \/ /\ MayRun(p, "move", i)
       /\ ~MovementAllowed(Balance(i), req[p].move[i])
       /\ RollsBack(p)

\* The lines once more: what others have committed, and its own increments.
Reread(p) ==
  /\ Runs(p, "reread", None)
  /\ LET s == slip[req[p].doc]
         now == [i \in Items |-> s.returned[i] + req[p].move[i]]
     IN  req' = [req EXCEPT ![p].status = DeriveStatus(s.qty, now)]

-----------------------------------------------------------------------------
(* Commits: all of a transaction's writes at once. *)

LedgerWith(p) ==
  [i \in Items |-> IF req[p].wrote[i] = None THEN ledger[i]
                   ELSE Append(ledger[i], req[p].wrote[i])]

CommitSlip(p) ==
  /\ req[p].op \in {"issue", "return"}
  /\ LET s == req[p].doc
         move == req[p].move
         now == [i \in Items |-> slip[s].returned[i] + move[i]]
     IN  slip' = [slip EXCEPT ![s] =
           IF req[p].op = "issue"
           THEN [NoSlip EXCEPT !.status = "ISSUED", !.qty = Minus(move)]
           ELSE [@ EXCEPT !.status = req[p].status, !.returned = now]]
  /\ UNCHANGED purchase

CommitPurchase(p) ==
  /\ req[p].op \in {"draft", "update", "remove", "receive", "cancel"}
  /\ LET r == req[p]
     IN  purchase' = [purchase EXCEPT ![r.doc] =
           CASE r.op = "draft"   -> [NoPurchase EXCEPT !.status = "DRAFT",
                                       !.entry = r.entry, !.qty = r.move]
             [] r.op = "update"  -> [@ EXCEPT !.entry = r.entry, !.qty = r.move]
             [] r.op = "remove"  -> [@ EXCEPT !.deleted = TRUE]
             [] r.op = "receive" -> [@ EXCEPT !.status = "RECEIVED"]
             [] r.op = "cancel"  -> [@ EXCEPT !.status = "CANCELLED"]]
  /\ UNCHANGED slip

Commit(p) ==
  /\ req[p].op # "none"
  /\ todo[p] = <<>>
  /\ \/ CommitSlip(p)
     \/ CommitPurchase(p)
     \/ req[p].op = "adjust" /\ UNCHANGED <<slip, purchase>>
  /\ ledger' = LedgerWith(p)
  /\ Ends(p)
  /\ UNCHANGED <<asked, fails>>

\* A request dies (a crash, the transaction's time limit, the victim Postgres
\* picks out of a deadlock): its transaction is rolled back.
Fail(p) ==
  /\ req[p].op # "none"
  /\ fails < MaxFails
  /\ fails' = fails + 1
  /\ Ends(p)
  /\ UNCHANGED <<tables, asked>>

Begin(p) ==
  \/ DraftPurchase(p) \/ UpdatePurchase(p) \/ RemovePurchase(p)
  \/ ReceivePurchase(p) \/ CancelPurchase(p)
  \/ Issue(p) \/ Return(p) \/ Adjust(p)

Continue(p) ==
  \/ TakeNumber(p) \/ CheckForeignKey(p) \/ CreditLine(p) \/ Move(p)
  \/ Reread(p) \/ Stamp(p) \/ Commit(p)

Next == \E p \in Procs : Begin(p) \/ Continue(p) \/ Fail(p)

Spec == Init /\ [][Next]_vars

\* A transaction goes on while it can, and Postgres queues those that wait for a
\* lock, so that none is overtaken for ever.
FairSpec == Spec /\ \A p \in Procs : SF_vars(Continue(p))

-----------------------------------------------------------------------------
(* Properties. *)

\* Rows of their types: no balance below zero, no line returned beyond counting.
RowsOK ==
  /\ ledger \in [Items -> Seq(LedgerRow)]
  /\ slip \in [Slips -> SlipRow]
  /\ purchase \in [Purchases -> PurchaseRow]
  /\ req \in [Procs -> Request]

TypeOK ==
  /\ RowsOK
  /\ todo \in [Procs -> Seq(Step)]
  /\ \A p \in Procs : \A l \in holds[p] : l.mode \in {"own", "share"}
  /\ asked \in 0..MaxRequests
  /\ fails \in 0..MaxFails

BalanceBefore(i, n) == IF n = 1 THEN 0 ELSE ledger[i][n - 1].balance

\* findBalanceBreak finds nothing: every stored running balance is the one before
\* it plus its own movement, whoever else was moving the same item meanwhile.
LedgerAddsUp ==
  \A i \in Items : \A n \in DOMAIN ledger[i] :
    LET row == ledger[i][n]
    IN  /\ row.balance = BalanceBefore(i, n) + row.qtyIn - row.qtyOut
        /\ row.balance >= 0

\* What the ledger has moved, in the end, for a document.
Net(d, i) ==
  LET rows == {n \in DOMAIN ledger[i] : ledger[i][n].ref = d}
  IN  SumFunction([n \in rows |-> ledger[i][n].qtyIn - ledger[i][n].qtyOut])

\* What a slip says is still out is what the ledger says went out for it and has
\* not come back, and nothing comes back that did not go out.
SlipsAgreeWithLedger ==
  \A s \in Slips, i \in Items :
    /\ Outstanding(s, i) >= 0
    /\ Net(s, i) = -Outstanding(s, i)

\* A delivery is in the ledger, line for line, exactly while it is RECEIVED:
\* never twice, never in part, and not any more once cancelled.
DeliveredOnce ==
  \A d \in Purchases, i \in Items :
    Net(d, i) = IF purchase[d].status = "RECEIVED" THEN purchase[d].qty[i] ELSE 0

\* Locks are taken in one order across every caller, which makes a deadlock
\* "impossible rather than unlikely" (recordMany).
NoDeadlock ==
  ~ \E stuck \in SUBSET Procs \ {{}} : \A p \in stuck : Blockers(p) \cap stuck # {}

\* The status of a slip describes its lines "as they are after this return".
StatusTellsLines ==
  \A s \in Slips : slip[s].status # "absent"
                     => slip[s].status = DeriveStatus(slip[s].qty, slip[s].returned)

\* Every request is answered: nobody waits for a lock for ever.
EveryRequestEnds == \A p \in Procs : req[p].op # "none" ~> req[p].op = "none"
=============================================================================
