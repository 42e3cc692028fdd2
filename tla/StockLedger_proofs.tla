------------------------- MODULE StockLedger_proofs -------------------------
(***************************************************************************)
(* What the stock room's tables say of one another, for every number of    *)
(* items, documents and requests.                                          *)
(*                                                                         *)
(* The stored running balances add up.  The argument is the one of         *)
(* stock.service.ts: between reading a balance and writing the next row,   *)
(* no other transaction may move the same item.  In the invariant: two     *)
(* transactions never hold conflicting locks, and a row that is written    *)
(* and not yet committed belongs to a transaction that holds its item.     *)
(*                                                                         *)
(* A slip and the rows under its number agree.  A transaction that is      *)
(* through with its statements has written a row for every item it was     *)
(* asked to move and commits them with the slip's lines; what a return     *)
(* credits was looked at under the lock of the line; no two requests make  *)
(* the same slip.                                                          *)
(*                                                                         *)
(* A delivery is taken in once when one keeper receives purchases; two     *)
(* keepers who both found the purchase open would take it in twice.        *)
(***************************************************************************)
EXTENDS StockLedger, Sums_proofs, TLAPS

\* Quantities a commit will store as they are: none is negative.
MovesFit ==
  \A p \in Procs :
    /\ req[p].op \in {"draft", "update", "return"} => req[p].move \in Quantities
    /\ req[p].op = "issue" => Minus(req[p].move) \in Quantities

LocksExclude ==
  /\ holds = [p \in Procs |-> holds[p]]
  /\ \A p, q \in Procs : p # q => \A k \in holds[p], l \in holds[q] : ~Conflict(k, l)

\* A row waiting for its commit continues the ledger, and its item is locked.
WrittenUnderLock ==
  \A p \in Procs, i \in Items :
    req[p].wrote[i] # None =>
      /\ Own(<<"item", i>>) \in holds[p]
      /\ req[p].wrote[i].balance
           = Balance(i) + req[p].wrote[i].qtyIn - req[p].wrote[i].qtyOut

StockInvariant ==
  /\ RowsOK
  /\ MovesFit
  /\ LocksExclude
  /\ WrittenUnderLock
  /\ LedgerAddsUp

-----------------------------------------------------------------------------
(* The records the actions build. *)

LEMMA ZeroTyped == Zero \in Quantities /\ Zero \in [Items -> Int]
  BY DEF Zero, Quantities

LEMMA MinusTyped ==
  ASSUME NEW q \in Quantities
  PROVE  Minus(q) \in [Items -> Int] /\ Minus(Minus(q)) = q
  <1>1. Minus(q) \in [Items -> Int]
    BY DEF Minus, Quantities
  <1>2. Minus(Minus(q)) = [i \in Items |-> q[i]]
    BY DEF Minus, Quantities
  <1> QED
    BY <1>1, <1>2 DEF Quantities

LEMMA EntryTyped ==
  ASSUME NEW entry \in Entries, NEW q \in QuantitiesOf(entry)
  PROVE  entry \in Lists /\ q \in Quantities /\ q \in [Items -> Int]
  BY StockAssumption DEF Entries, QuantitiesOf, Quantities

LEMMA AskedTyped ==
  ASSUME NEW op \in OpNames \cup {"none"}, NEW doc \in Documents \cup {None},
         NEW entry \in Lists \cup {<<>>}, NEW move \in [Items -> Int]
  PROVE  /\ Asked(op, doc, entry, move) \in Request
         /\ Asked(op, doc, entry, move).op = op
         /\ Asked(op, doc, entry, move).move = move
         /\ \A i \in Items : Asked(op, doc, entry, move).wrote[i] = None
  BY DEF Asked, Request, SlipStatus, NothingWritten

LEMMA IdleTyped ==
  Idle \in Request /\ Idle.op = "none" /\ \A i \in Items : Idle.wrote[i] = None
  BY ZeroTyped, AskedTyped DEF Idle

-----------------------------------------------------------------------------
THEOREM StockInit == Init => StockInvariant
  <1> SUFFICES ASSUME Init PROVE StockInvariant
    OBVIOUS
  <1>1. RowsOK
    <2>1. NoSlip \in SlipRow
      BY ZeroTyped DEF NoSlip, SlipRow, SlipStatus
    <2>2. NoPurchase \in PurchaseRow
      BY ZeroTyped DEF NoPurchase, PurchaseRow
    <2> QED
      BY <2>1, <2>2, IdleTyped DEF Init, RowsOK
  <1>2. MovesFit
    BY IdleTyped DEF Init, MovesFit
  <1>3. LocksExclude
    BY DEF Init, LocksExclude
  <1>4. WrittenUnderLock
    BY IdleTyped DEF Init, WrittenUnderLock
  <1>5. LedgerAddsUp
    BY DEF Init, LedgerAddsUp
  <1> QED
    BY <1>1, <1>2, <1>3, <1>4, <1>5 DEF StockInvariant

\* Beginning a request: its record is typed and nothing else changes.
LEMMA AsksPreserves ==
  ASSUME StockInvariant, NEW p \in Procs,
         NEW op \in OpNames, NEW doc \in Documents \cup {None},
         NEW entry \in Lists \cup {<<>>}, NEW move \in [Items -> Int],
         NEW statements, Asks(p, op, doc, entry, move, statements),
         op \in {"draft", "update", "return"} => move \in Quantities,
         op = "issue" => Minus(move) \in Quantities
  PROVE  StockInvariant'
  <1> DEFINE r == Asked(op, doc, entry, move)
  <1>0. op \in OpNames \cup {"none"}
    OBVIOUS
  <1>1. r \in Request /\ r.op = op /\ r.move = move /\ \A i \in Items : r.wrote[i] = None
    BY <1>0, AskedTyped, Z3
  <1>2. req \in [Procs -> Request] /\ req' = [req EXCEPT ![p] = r]
    BY DEF StockInvariant, RowsOK, Asks
  <1>3. UNCHANGED <<ledger, slip, purchase, holds>>
    BY DEF Asks, tables
  <1> HIDE DEF r
  <1>4. \A q \in Procs : req'[q] = IF q = p THEN r ELSE req[q]
    BY <1>2
  <1>5. RowsOK'
    BY <1>1, <1>2, <1>3 DEF StockInvariant, RowsOK
  <1>6. MovesFit'
    BY <1>1, <1>4 DEF StockInvariant, MovesFit
  <1>7. LocksExclude'
    BY <1>3 DEF StockInvariant, LocksExclude
  <1>8. WrittenUnderLock'
    BY <1>1, <1>3, <1>4 DEF StockInvariant, WrittenUnderLock, Balance
  <1>9. LedgerAddsUp'
    BY <1>3 DEF StockInvariant, LedgerAddsUp, BalanceBefore
  <1> QED
    BY <1>5, <1>6, <1>7, <1>8, <1>9 DEF StockInvariant

-----------------------------------------------------------------------------
(* Statements and locks. *)

LEMMA ConflictIsMutual ==
  ASSUME NEW k, NEW l, ~Conflict(k, l)
  PROVE  ~Conflict(l, k)
  BY DEF Conflict

\* A statement runs only when its lock conflicts with nobody's.
LEMMA RunsKeepsLocks ==
  ASSUME LocksExclude, NEW p \in Procs, NEW what, NEW i, Runs(p, what, i)
  PROVE  /\ LocksExclude'
         /\ \A q \in Procs : holds[q] \subseteq holds'[q]
         /\ LockFor(p, [do |-> what, item |-> i]) \subseteq holds'[p]
  <1> DEFINE new == LockFor(p, [do |-> what, item |-> i])
  <1>1. \A q \in Procs \ {p} : \A k \in holds[q], l \in new : ~Conflict(k, l)
    BY DEF Runs, MayRun, Blockers
  <1>2. holds' = [holds EXCEPT ![p] = @ \cup new]
    BY DEF Runs
  <1> HIDE DEF new
  <1>3. \A q \in Procs : holds'[q] = IF q = p THEN holds[p] \cup new ELSE holds[q]
    BY <1>2 DEF LocksExclude
  <1>4. holds' = [q \in Procs |-> holds'[q]]
    BY <1>2 DEF LocksExclude
  <1>5. ASSUME NEW q \in Procs, NEW r \in Procs, q # r, NEW k \in holds'[q], NEW l \in holds'[r]
        PROVE  ~Conflict(k, l)
    <2>1. CASE q = p
      BY <1>1, <1>3, <1>5, <2>1, ConflictIsMutual DEF LocksExclude
    <2>2. CASE q # p
      BY <1>1, <1>3, <1>5, <2>2 DEF LocksExclude
    <2> QED
      BY <2>1, <2>2
  <1>6. LocksExclude'
    BY <1>4, <1>5 DEF LocksExclude
  <1> QED
    BY <1>3, <1>6 DEF new

\* A statement that only takes its lock.
LEMMA LockingPreserves ==
  ASSUME StockInvariant, NEW p \in Procs, NEW what, NEW i, Runs(p, what, i), UNCHANGED req
  PROVE  StockInvariant'
  <1>1. UNCHANGED <<ledger, slip, purchase, req>>
    BY DEF Runs, tables
  <1>2. LocksExclude' /\ \A q \in Procs : holds[q] \subseteq holds'[q]
    BY RunsKeepsLocks DEF StockInvariant
  <1>3. RowsOK' /\ MovesFit'
    BY <1>1 DEF StockInvariant, RowsOK, MovesFit
  <1>4. WrittenUnderLock'
    BY <1>1, <1>2 DEF StockInvariant, WrittenUnderLock, Balance
  <1>5. LedgerAddsUp'
    BY <1>1 DEF StockInvariant, LedgerAddsUp, BalanceBefore
  <1> QED
    BY <1>2, <1>3, <1>4, <1>5 DEF StockInvariant

\* processReturn's second look: only the status it will write changes.
LEMMA RereadPreserves ==
  ASSUME StockInvariant, NEW p \in Procs, Reread(p)
  PROVE  StockInvariant'
  <1> PICK status \in SlipStatus : req' = [req EXCEPT ![p].status = status]
    BY DEF Reread, DeriveStatus, SlipStatus
  <1>1. UNCHANGED <<ledger, slip, purchase>>
    BY DEF Reread, Runs, tables
  <1>2. LocksExclude' /\ \A q \in Procs : holds[q] \subseteq holds'[q]
    BY RunsKeepsLocks DEF StockInvariant, Reread
  <1>3. req \in [Procs -> Request]
    BY DEF StockInvariant, RowsOK
  <1>4. req' \in [Procs -> Request]
    BY <1>3 DEF Request
  <1>5. \A q \in Procs : /\ req'[q].op = req[q].op
                         /\ req'[q].move = req[q].move
                         /\ req'[q].wrote = req[q].wrote
    BY <1>3 DEF Request
  <1>6. RowsOK'
    BY <1>1, <1>4 DEF StockInvariant, RowsOK
  <1>7. MovesFit'
    BY <1>5 DEF StockInvariant, MovesFit
  <1>8. WrittenUnderLock'
    BY <1>1, <1>2, <1>5 DEF StockInvariant, WrittenUnderLock, Balance
  <1>9. LedgerAddsUp'
    BY <1>1 DEF StockInvariant, LedgerAddsUp, BalanceBefore
  <1> QED
    BY <1>2, <1>6, <1>7, <1>8, <1>9 DEF StockInvariant

\* A rolled-back transaction gives up its locks and its rows.
LEMMA EndingPreserves ==
  ASSUME StockInvariant, NEW p \in Procs, Ends(p), UNCHANGED tables
  PROVE  StockInvariant'
  <1>1. UNCHANGED <<ledger, slip, purchase>>
    BY DEF tables
  <1>2. req \in [Procs -> Request] /\ req' = [req EXCEPT ![p] = Idle]
    BY DEF Ends, StockInvariant, RowsOK
  <1>3. \A q \in Procs : req'[q] = IF q = p THEN Idle ELSE req[q]
    BY <1>2
  <1>4. \A q \in Procs : holds'[q] = IF q = p THEN {} ELSE holds[q]
    BY DEF Ends, StockInvariant, LocksExclude
  <1>5. RowsOK'
    BY <1>1, <1>2, IdleTyped DEF StockInvariant, RowsOK
  <1>6. MovesFit'
    BY <1>3, IdleTyped DEF StockInvariant, MovesFit
  <1>7. LocksExclude'
    BY <1>4 DEF Ends, StockInvariant, LocksExclude
  <1>8. WrittenUnderLock'
    BY <1>1, <1>3, <1>4, IdleTyped DEF StockInvariant, WrittenUnderLock, Balance
  <1>9. LedgerAddsUp'
    BY <1>1 DEF StockInvariant, LedgerAddsUp, BalanceBefore
  <1> QED
    BY <1>5, <1>6, <1>7, <1>8, <1>9 DEF StockInvariant

-----------------------------------------------------------------------------
(* Movements. *)

LEMMA BalanceTyped ==
  ASSUME RowsOK, NEW i \in Items
  PROVE  Balance(i) \in Nat
  <1>1. ledger[i] \in Seq(LedgerRow)
    BY DEF RowsOK
  <1>2. CASE ledger[i] = <<>>
    BY <1>2 DEF Balance
  <1>3. CASE ledger[i] # <<>>
    <2>1. ledger[i][Len(ledger[i])] \in LedgerRow
      BY <1>1, <1>3
    <2> QED
      BY <1>3, <2>1 DEF Balance, LedgerRow
  <1> QED
    BY <1>2, <1>3

\* The row record writes, when its verdict allows it.
LEMMA RowForTyped ==
  ASSUME RowsOK, NEW p \in Procs, NEW i \in Items,
         MovementAllowed(Balance(i), req[p].move[i])
  PROVE  /\ RowFor(p, i) \in LedgerRow
         /\ RowFor(p, i).balance = Balance(i) + RowFor(p, i).qtyIn - RowFor(p, i).qtyOut
  <1>1. Balance(i) \in Nat
    BY BalanceTyped
  <1>2. req[p].move[i] \in Int /\ req[p].doc \in Documents \cup {None}
    BY DEF RowsOK, Request
  <1> QED
    BY <1>1, <1>2 DEF RowFor, LedgerRow, MovementAllowed

LEMMA MovePreserves ==
  ASSUME StockInvariant, NEW p \in Procs, NEW i \in Items, Runs(p, "move", i),
         MovementAllowed(Balance(i), req[p].move[i]),
         req' = [req EXCEPT ![p].wrote[i] = RowFor(p, i)]
  PROVE  StockInvariant'
  <1> DEFINE row == RowFor(p, i)
  <1>1. UNCHANGED <<ledger, slip, purchase>>
    BY DEF Runs, tables
  <1>2. /\ LocksExclude'
        /\ \A q \in Procs : holds[q] \subseteq holds'[q]
        /\ LockFor(p, [do |-> "move", item |-> i]) \subseteq holds'[p]
    BY RunsKeepsLocks DEF StockInvariant
  <1>3. Own(<<"item", i>>) \in holds'[p]
    BY <1>2 DEF LockFor
  <1>4. row \in LedgerRow /\ row.balance = Balance(i) + row.qtyIn - row.qtyOut
    BY RowForTyped DEF StockInvariant
  <1>5. req \in [Procs -> Request]
    BY DEF StockInvariant, RowsOK
  <1>6. req' = [req EXCEPT ![p] = [req[p] EXCEPT !.wrote = [req[p].wrote EXCEPT ![i] = row]]]
    BY <1>5 DEF Request
  <1> HIDE DEF row
  <1>7. [req[p].wrote EXCEPT ![i] = row] \in [Items -> LedgerRow \cup {None}]
    BY <1>4, <1>5 DEF Request
  <1>8. req' \in [Procs -> Request]
    <2> DEFINE wrote == [req[p].wrote EXCEPT ![i] = row]
    <2>1. req[p] \in Request /\ wrote \in [Items -> LedgerRow \cup {None}]
      BY <1>5, <1>7
    <2> HIDE DEF wrote
    <2>2. [req[p] EXCEPT !.wrote = wrote] \in Request
      BY <2>1 DEF Request
    <2> QED
      BY <1>5, <1>6, <2>2 DEF wrote
  <1>9. \A q \in Procs : req'[q].op = req[q].op /\ req'[q].move = req[q].move
    BY <1>5, <1>6 DEF Request
  <1>10. \A q \in Procs, j \in Items :
           req'[q].wrote[j] = IF q = p /\ j = i THEN row ELSE req[q].wrote[j]
    BY <1>5, <1>6 DEF Request
  <1>11. RowsOK'
    BY <1>1, <1>8 DEF StockInvariant, RowsOK
  <1>12. MovesFit'
    BY <1>9 DEF StockInvariant, MovesFit
  <1>13. WrittenUnderLock'
    BY <1>1, <1>2, <1>3, <1>4, <1>10 DEF StockInvariant, WrittenUnderLock, Balance
  <1>14. LedgerAddsUp'
    BY <1>1 DEF StockInvariant, LedgerAddsUp, BalanceBefore
  <1> QED
    BY <1>2, <1>11, <1>12, <1>13, <1>14 DEF StockInvariant

-----------------------------------------------------------------------------
(* Commits. *)

\* One more row that continues the balance keeps an item's ledger adding up.
LEMMA LedgerGrows ==
  ASSUME StockInvariant, NEW p \in Procs, ledger' = LedgerWith(p)
  PROVE  ledger' \in [Items -> Seq(LedgerRow)] /\ LedgerAddsUp'
  <1>1. /\ ledger \in [Items -> Seq(LedgerRow)]
        /\ req[p].wrote \in [Items -> LedgerRow \cup {None}]
    BY DEF StockInvariant, RowsOK, Request
  <1>2. \A i \in Items : ledger'[i] = IF req[p].wrote[i] = None THEN ledger[i]
                                      ELSE Append(ledger[i], req[p].wrote[i])
    BY DEF LedgerWith
  <1>3. ledger' = [i \in Items |-> ledger'[i]]
    BY DEF LedgerWith
  <1>4. ASSUME NEW i \in Items PROVE ledger'[i] \in Seq(LedgerRow)
    <2>1. ledger[i] \in Seq(LedgerRow) /\ req[p].wrote[i] \in LedgerRow \cup {None}
      BY <1>1
    <2>2. req[p].wrote[i] # None => Append(ledger[i], req[p].wrote[i]) \in Seq(LedgerRow)
      BY <2>1
    <2> QED
      BY <1>2, <2>1, <2>2
  <1>5. ASSUME NEW i \in Items, NEW n \in DOMAIN ledger'[i]
        PROVE  /\ ledger'[i][n].balance
                    = BalanceBefore(i, n)' + ledger'[i][n].qtyIn - ledger'[i][n].qtyOut
               /\ ledger'[i][n].balance >= 0
    <2>1. ledger[i] \in Seq(LedgerRow) /\ Len(ledger[i]) \in Nat
      BY <1>1
    <2>2. CASE req[p].wrote[i] = None
      <3>1. ledger'[i] = ledger[i]
        BY <1>2, <2>2
      <3> QED
        BY <3>1, <1>5 DEF StockInvariant, LedgerAddsUp, BalanceBefore
    <2>3. CASE req[p].wrote[i] # None
      <3> DEFINE row == req[p].wrote[i]
      <3>1. /\ row \in LedgerRow
            /\ row.balance = Balance(i) + row.qtyIn - row.qtyOut
        BY <1>1, <2>3 DEF StockInvariant, WrittenUnderLock
      <3>2. ledger'[i] = Append(ledger[i], row)
        BY <1>2, <2>3
      <3> HIDE DEF row
      <3>3. n \in 1..(Len(ledger[i]) + 1)
        BY <1>5, <2>1, <3>1, <3>2
      <3>4. CASE n = Len(ledger[i]) + 1
        <4>1. ledger'[i][n] = row
          BY <2>1, <3>1, <3>2, <3>4
        <4>2. BalanceBefore(i, n)' = Balance(i)
          <5>1. CASE ledger[i] = <<>>
            BY <3>4, <5>1 DEF BalanceBefore, Balance
          <5>2. CASE ledger[i] # <<>>
            <6>1. n # 1 /\ n - 1 = Len(ledger[i]) /\ Len(ledger[i]) >= 1
              BY <2>1, <3>4, <5>2
            <6>2. ledger'[i][n - 1] = ledger[i][Len(ledger[i])]
              BY <2>1, <3>1, <3>2, <6>1
            <6> QED
              BY <5>2, <6>1, <6>2 DEF BalanceBefore, Balance
          <5> QED
            BY <5>1, <5>2
        <4> QED
          BY <3>1, <4>1, <4>2 DEF LedgerRow
      <3>5. CASE n \in 1..Len(ledger[i])
        <4>1. ledger'[i][n] = ledger[i][n]
          BY <2>1, <3>1, <3>2, <3>5
        <4>2. BalanceBefore(i, n)' = BalanceBefore(i, n)
          BY <2>1, <3>1, <3>2, <3>5 DEF BalanceBefore
        <4>3. n \in DOMAIN ledger[i]
          BY <2>1, <3>5
        <4> QED
          BY <4>1, <4>2, <4>3 DEF StockInvariant, LedgerAddsUp
      <3> QED
        BY <2>1, <3>3, <3>4, <3>5
    <2> QED
      BY <2>2, <2>3
  <1>6. LedgerAddsUp'
    BY <1>5 DEF LedgerAddsUp
  <1> QED
    BY <1>3, <1>4, <1>6

LEMMA CommitSlipTyped ==
  ASSUME StockInvariant, NEW p \in Procs, CommitSlip(p)
  PROVE  slip' \in [Slips -> SlipRow] /\ purchase' \in [Purchases -> PurchaseRow]
  <1>1. slip \in [Slips -> SlipRow] /\ req[p] \in Request
    BY DEF StockInvariant, RowsOK
  <1>2. CASE req[p].op = "issue"
    <2>1. Minus(req[p].move) \in Quantities
      BY <1>2 DEF StockInvariant, MovesFit
    <2>2. [NoSlip EXCEPT !.status = "ISSUED", !.qty = Minus(req[p].move)] \in SlipRow
      BY <2>1, ZeroTyped DEF NoSlip, SlipRow, SlipStatus
    <2> QED
      BY <1>1, <1>2, <2>2 DEF CommitSlip, StockInvariant, RowsOK
  <1>3. CASE req[p].op = "return"
    <2>1. req[p].move \in Quantities /\ req[p].status \in SlipStatus
      BY <1>1, <1>3 DEF StockInvariant, MovesFit, Request
    <2>2. ASSUME NEW s \in Slips
          PROVE  [slip[s] EXCEPT !.status = req[p].status, !.returned =
                    [i \in Items |-> slip[s].returned[i] + req[p].move[i]]] \in SlipRow
      <3>1. slip[s] \in SlipRow
        BY <1>1
      <3>2. [i \in Items |-> slip[s].returned[i] + req[p].move[i]] \in Quantities
        BY <2>1, <3>1 DEF SlipRow, Quantities
      <3> QED
        BY <2>1, <3>1, <3>2 DEF SlipRow
    <2> QED
      BY <1>1, <1>3, <2>2 DEF CommitSlip, StockInvariant, RowsOK
  <1> QED
    BY <1>2, <1>3 DEF CommitSlip

LEMMA CommitPurchaseTyped ==
  ASSUME StockInvariant, NEW p \in Procs, CommitPurchase(p)
  PROVE  slip' \in [Slips -> SlipRow] /\ purchase' \in [Purchases -> PurchaseRow]
  <1> DEFINE r == req[p]
  <1>1. purchase \in [Purchases -> PurchaseRow] /\ r \in Request
    BY DEF StockInvariant, RowsOK
  <1>2. slip' \in [Slips -> SlipRow]
    BY DEF CommitPurchase, StockInvariant, RowsOK
  <1>3. r.op \in {"draft", "update"} => r.move \in Quantities
    BY DEF StockInvariant, MovesFit
  <1>4. r.entry \in Lists \cup {<<>>}
    BY <1>1 DEF Request
  <1>5. CASE r.op = "draft"
    <2>1. [NoPurchase EXCEPT !.status = "DRAFT", !.entry = r.entry, !.qty = r.move]
            \in PurchaseRow
      BY <1>3, <1>4, <1>5 DEF NoPurchase, PurchaseRow
    <2> QED
      BY <1>1, <1>2, <1>5, <2>1 DEF CommitPurchase
  <1>6. CASE r.op = "update"
    <2>1. \A d \in Purchases :
            [purchase[d] EXCEPT !.entry = r.entry, !.qty = r.move] \in PurchaseRow
      BY <1>1, <1>3, <1>4, <1>6 DEF PurchaseRow
    <2> QED
      BY <1>1, <1>2, <1>6, <2>1 DEF CommitPurchase
  <1>7. CASE r.op = "remove"
    <2>1. \A d \in Purchases : [purchase[d] EXCEPT !.deleted = TRUE] \in PurchaseRow
      BY <1>1 DEF PurchaseRow
    <2> QED
      BY <1>1, <1>2, <1>7, <2>1 DEF CommitPurchase
  <1>8. CASE r.op \in {"receive", "cancel"}
    <2>1. \A d \in Purchases : /\ [purchase[d] EXCEPT !.status = "RECEIVED"] \in PurchaseRow
                               /\ [purchase[d] EXCEPT !.status = "CANCELLED"] \in PurchaseRow
      BY <1>1 DEF PurchaseRow
    <2> QED
      BY <1>1, <1>2, <1>8, <2>1 DEF CommitPurchase
  <1> QED
    BY <1>5, <1>6, <1>7, <1>8 DEF CommitPurchase

\* What a transaction wrote nobody else can have been writing: it held the items.
LEMMA CommitPreserves ==
  ASSUME StockInvariant, NEW p \in Procs, Commit(p)
  PROVE  StockInvariant'
  <1>1. ledger' \in [Items -> Seq(LedgerRow)] /\ LedgerAddsUp'
    BY LedgerGrows DEF Commit
  <1>2. slip' \in [Slips -> SlipRow] /\ purchase' \in [Purchases -> PurchaseRow]
    BY CommitSlipTyped, CommitPurchaseTyped DEF Commit, StockInvariant, RowsOK
  <1>3. req \in [Procs -> Request] /\ req' = [req EXCEPT ![p] = Idle]
    BY DEF Commit, Ends, StockInvariant, RowsOK
  <1>4. \A q \in Procs : req'[q] = IF q = p THEN Idle ELSE req[q]
    BY <1>3
  <1>5. \A q \in Procs : holds'[q] = IF q = p THEN {} ELSE holds[q]
    BY DEF Commit, Ends, StockInvariant, LocksExclude
  <1>6. RowsOK'
    BY <1>1, <1>2, <1>3, IdleTyped DEF RowsOK
  <1>7. MovesFit'
    BY <1>4, IdleTyped DEF StockInvariant, MovesFit
  <1>8. LocksExclude'
    BY <1>5 DEF Commit, Ends, StockInvariant, LocksExclude
  <1>9. ASSUME NEW q \in Procs, NEW i \in Items, req'[q].wrote[i] # None
        PROVE  /\ Own(<<"item", i>>) \in holds'[q]
               /\ req'[q].wrote[i].balance
                    = Balance(i)' + req'[q].wrote[i].qtyIn - req'[q].wrote[i].qtyOut
    <2>1. q # p /\ req'[q] = req[q] /\ holds'[q] = holds[q]
      BY <1>4, <1>5, <1>9, IdleTyped
    <2>2. Own(<<"item", i>>) \in holds[q]
      BY <1>9, <2>1 DEF StockInvariant, WrittenUnderLock
    <2>3. req[p].wrote[i] = None
      <3>1. SUFFICES ASSUME req[p].wrote[i] # None PROVE FALSE
        OBVIOUS
      <3>2. Own(<<"item", i>>) \in holds[p]
        BY <3>1 DEF StockInvariant, WrittenUnderLock
      <3>3. Conflict(Own(<<"item", i>>), Own(<<"item", i>>))
        BY DEF Conflict, Own
      <3> QED
        BY <2>1, <2>2, <3>2, <3>3 DEF StockInvariant, LocksExclude
    <2>4. ledger'[i] = ledger[i]
      BY <2>3 DEF Commit, LedgerWith
    <2>5. Balance(i)' = Balance(i)
      BY <2>4 DEF Balance
    <2> QED
      BY <1>9, <2>1, <2>2, <2>5 DEF StockInvariant, WrittenUnderLock
  <1>10. WrittenUnderLock'
    BY <1>9 DEF WrittenUnderLock
  <1> QED
    BY <1>1, <1>6, <1>7, <1>8, <1>10 DEF StockInvariant

-----------------------------------------------------------------------------
(* Requests. *)

LEMMA PurchaseTyped ==
  ASSUME StockInvariant, NEW d \in Purchases
  PROVE  /\ purchase[d].entry \in Lists \cup {<<>>}
         /\ purchase[d].qty \in Quantities
         /\ purchase[d].qty \in [Items -> Int]
  <1>1. purchase[d] \in PurchaseRow
    BY DEF StockInvariant, RowsOK
  <1> QED
    BY <1>1 DEF PurchaseRow, Quantities

LEMMA DeliveryBeginsPreserve ==
  ASSUME StockInvariant, NEW p \in Procs,
         \/ DraftPurchase(p) \/ UpdatePurchase(p) \/ RemovePurchase(p)
         \/ ReceivePurchase(p) \/ CancelPurchase(p)
  PROVE  StockInvariant'
  <1>1. CASE DraftPurchase(p)
    <2>1. PICK d \in Purchases, entry \in Entries : \E qty \in QuantitiesOf(entry) :
            Asks(p, "draft", d, entry, qty, Once("number") \o Do("share", entry))
      BY <1>1 DEF DraftPurchase, New
    <2>2. PICK qty \in QuantitiesOf(entry) :
            Asks(p, "draft", d, entry, qty, Once("number") \o Do("share", entry))
      BY <2>1
    <2>3. entry \in Lists /\ qty \in Quantities /\ qty \in [Items -> Int]
      BY EntryTyped
    <2>4. "draft" \in OpNames /\ d \in Documents \cup {None} /\ entry \in Lists \cup {<<>>}
      BY <2>3 DEF OpNames, Documents
    <2> QED
      BY <2>2, <2>3, <2>4, AsksPreserves
  <1>2. CASE UpdatePurchase(p)
    <2>1. PICK d \in Purchases, entry \in Entries : \E qty \in QuantitiesOf(entry) :
            Asks(p, "update", d, entry, qty, Once("stamp") \o Do("share", entry))
      BY <1>2 DEF UpdatePurchase, Drafts
    <2>2. PICK qty \in QuantitiesOf(entry) :
            Asks(p, "update", d, entry, qty, Once("stamp") \o Do("share", entry))
      BY <2>1
    <2>3. entry \in Lists /\ qty \in Quantities /\ qty \in [Items -> Int]
      BY EntryTyped
    <2>4. "update" \in OpNames /\ d \in Documents \cup {None} /\ entry \in Lists \cup {<<>>}
      BY <2>3 DEF OpNames, Documents
    <2> QED
      BY <2>2, <2>3, <2>4, AsksPreserves
  <1>3. CASE RemovePurchase(p)
    <2>1. PICK d \in Purchases : Asks(p, "remove", d, <<>>, Zero, Once("stamp"))
      BY <1>3 DEF RemovePurchase, Drafts
    <2>2. "remove" \in OpNames /\ d \in Documents \cup {None} /\ <<>> \in Lists \cup {<<>>}
      BY DEF OpNames, Documents
    <2> QED
      BY <2>1, <2>2, ZeroTyped, AsksPreserves
  <1>4. CASE ReceivePurchase(p)
    <2>1. PICK d \in Purchases :
            Asks(p, "receive", d, purchase[d].entry, purchase[d].qty,
                 Do("move", purchase[d].entry) \o Once("stamp"))
      BY <1>4 DEF ReceivePurchase, Receivable, Drafts
    <2>2. "receive" \in OpNames /\ d \in Documents \cup {None}
      BY DEF OpNames, Documents
    <2> QED
      BY <2>1, <2>2, PurchaseTyped, AsksPreserves
  <1>5. CASE CancelPurchase(p)
    <2>1. PICK d \in Purchases :
            \/ Asks(p, "cancel", d, <<>>, Zero, Once("stamp"))
            \/ Asks(p, "cancel", d, purchase[d].entry, Minus(purchase[d].qty),
                    Do("move", Sorted(purchase[d].entry)) \o Once("stamp"))
      BY <1>5 DEF CancelPurchase
    <2>2. "cancel" \in OpNames /\ d \in Documents \cup {None} /\ <<>> \in Lists \cup {<<>>}
      BY DEF OpNames, Documents
    <2>3. Minus(purchase[d].qty) \in [Items -> Int]
      BY PurchaseTyped, MinusTyped
    <2>4. CASE Asks(p, "cancel", d, <<>>, Zero, Once("stamp"))
      BY <2>2, <2>4, ZeroTyped, AsksPreserves
    <2>5. CASE Asks(p, "cancel", d, purchase[d].entry, Minus(purchase[d].qty),
                    Do("move", Sorted(purchase[d].entry)) \o Once("stamp"))
      BY <2>2, <2>3, <2>5, PurchaseTyped, AsksPreserves
    <2> QED
      BY <2>1, <2>4, <2>5
  <1> QED
    BY <1>1, <1>2, <1>3, <1>4, <1>5

LEMMA DeskBeginsPreserve ==
  ASSUME StockInvariant, NEW p \in Procs, Issue(p) \/ Return(p) \/ Adjust(p)
  PROVE  StockInvariant'
  <1>1. CASE Issue(p)
    <2>1. PICK s \in Slips, entry \in Entries : \E qty \in QuantitiesOf(entry) :
            Asks(p, "issue", s, entry, Minus(qty),
                 Once("number") \o Do("share", entry) \o Do("move", Sorted(entry)))
      BY <1>1 DEF Issue, New
    <2>2. PICK qty \in QuantitiesOf(entry) :
            Asks(p, "issue", s, entry, Minus(qty),
                 Once("number") \o Do("share", entry) \o Do("move", Sorted(entry)))
      BY <2>1
    <2>3. entry \in Lists /\ qty \in Quantities
      BY EntryTyped
    <2>4. Minus(qty) \in [Items -> Int] /\ Minus(Minus(qty)) \in Quantities
      BY <2>3, MinusTyped
    <2>5. "issue" \in OpNames /\ s \in Documents \cup {None} /\ entry \in Lists \cup {<<>>}
      BY <2>3 DEF OpNames, Documents
    <2> QED
      BY <2>2, <2>4, <2>5, AsksPreserves
  <1>2. CASE Return(p)
    <2>1. PICK s \in Slips, entry \in Entries : \E qty \in QuantitiesOf(entry) :
            Asks(p, "return", s, entry, qty,
                 Do("credit", entry) \o Do("move", Sorted(entry))
                   \o Once("reread") \o Once("stamp"))
      BY <1>2 DEF Return
    <2>2. PICK qty \in QuantitiesOf(entry) :
            Asks(p, "return", s, entry, qty,
                 Do("credit", entry) \o Do("move", Sorted(entry))
                   \o Once("reread") \o Once("stamp"))
      BY <2>1
    <2>3. entry \in Lists /\ qty \in Quantities /\ qty \in [Items -> Int]
      BY EntryTyped
    <2>4. "return" \in OpNames /\ s \in Documents \cup {None} /\ entry \in Lists \cup {<<>>}
      BY <2>3 DEF OpNames, Documents
    <2> QED
      BY <2>2, <2>3, <2>4, AsksPreserves
  <1>3. CASE Adjust(p)
    <2> DEFINE gap(entry, counted) ==
          [i \in Items |-> IF i \in Range(entry) THEN counted[i] - Balance(i) ELSE 0]
    <2>1. PICK entry \in Entries : \E counted \in [Range(entry) -> 0..MaxQty] :
            Asks(p, "adjust", None, entry, gap(entry, counted), Do("move", Sorted(entry)))
      BY <1>3 DEF Adjust
    <2>2. PICK counted \in [Range(entry) -> 0..MaxQty] :
            Asks(p, "adjust", None, entry, gap(entry, counted), Do("move", Sorted(entry)))
      BY <2>1
    <2>3. \A i \in Items : Balance(i) \in Nat
      BY BalanceTyped DEF StockInvariant
    <2>4. gap(entry, counted) \in [Items -> Int]
      BY <2>3, StockAssumption
    <2>5. /\ "adjust" \in OpNames /\ None \in Documents \cup {None}
          /\ entry \in Lists \cup {<<>>}
      BY DEF OpNames, Entries
    <2> HIDE DEF gap
    <2> QED
      BY <2>2, <2>4, <2>5, AsksPreserves
  <1> QED
    BY <1>1, <1>2, <1>3

-----------------------------------------------------------------------------
LEMMA ContinuePreserves ==
  ASSUME StockInvariant, NEW p \in Procs, Continue(p)
  PROVE  StockInvariant'
  <1>1. CASE TakeNumber(p)
    BY <1>1, LockingPreserves DEF TakeNumber
  <1>2. CASE CheckForeignKey(p)
    BY <1>2, LockingPreserves DEF CheckForeignKey
  <1>3. CASE CreditLine(p)
    BY <1>3, LockingPreserves, EndingPreserves DEF CreditLine, RollsBack
  <1>4. CASE Move(p)
    BY <1>4, MovePreserves, EndingPreserves DEF Move, RollsBack
  <1>5. CASE Reread(p)
    BY <1>5, RereadPreserves
  <1>6. CASE Stamp(p)
    BY <1>6, LockingPreserves DEF Stamp
  <1>7. CASE Commit(p)
    BY <1>7, CommitPreserves
  <1> QED
    BY <1>1, <1>2, <1>3, <1>4, <1>5, <1>6, <1>7 DEF Continue

LEMMA StutterPreserves ==
  ASSUME StockInvariant, UNCHANGED vars
  PROVE  StockInvariant'
  <1>1. UNCHANGED <<ledger, slip, purchase, req, holds>>
    BY DEF vars, tables
  <1> QED
    BY <1>1 DEF StockInvariant, RowsOK, MovesFit, LocksExclude, WrittenUnderLock,
                LedgerAddsUp, Balance, BalanceBefore

\* Every reachable state satisfies the invariant the argument rests on: rows of
\* their types, locks that exclude each other, and uncommitted rows under them.
THEOREM StockInvariantHolds == Spec => []StockInvariant
  <1>1. ASSUME StockInvariant, [Next]_vars PROVE StockInvariant'
    <2>1. CASE Next
      <3>1. PICK p \in Procs : Begin(p) \/ Continue(p) \/ Fail(p)
        BY <2>1 DEF Next
      <3>2. CASE Begin(p)
        BY <1>1, <3>2, DeliveryBeginsPreserve, DeskBeginsPreserve DEF Begin
      <3>3. CASE Continue(p)
        BY <1>1, <3>3, ContinuePreserves
      <3>4. CASE Fail(p)
        BY <1>1, <3>4, EndingPreserves DEF Fail
      <3> QED
        BY <3>1, <3>2, <3>3, <3>4
    <2>2. CASE UNCHANGED vars
      BY <1>1, <2>2, StutterPreserves
    <2> QED
      BY <1>1, <2>1, <2>2
  <1> QED
    BY StockInit, <1>1, PTL DEF Spec

\* However many clerks move the same items at once, every balance stored in the
\* ledger is the one before it plus its own movement, and none is negative: what
\* lockItemAndReadBalance is for.
THEOREM LedgerIsSound == Spec => []LedgerAddsUp
  <1>1. StockInvariant => LedgerAddsUp
    BY DEF StockInvariant
  <1> QED
    BY StockInvariantHolds, <1>1, PTL

-----------------------------------------------------------------------------
(* The lists of a transaction. *)

LEMMA ListTyped ==
  ASSUME NEW entry \in Lists \cup {<<>>}
  PROVE  \E n \in Nat : /\ entry \in [1..n -> Items]
                        /\ \A k, m \in 1..n : k # m => entry[k] # entry[m]
  <1>1. Cardinality(Items) \in Nat
    BY StockAssumption, FS_CardinalityType
  <1>2. CASE entry = <<>>
    <2>1. entry \in [1..0 -> Items] /\ \A k, m \in 1..0 : k # m => entry[k] # entry[m]
      BY <1>2
    <2> QED
      BY <2>1
  <1>3. CASE entry \in Lists
    <2>1. PICK n \in 1..Cardinality(Items) : entry \in [1..n -> Items]
      BY <1>3 DEF Lists
    <2>2. n \in Nat
      BY <1>1
    <2>3. DOMAIN entry = 1..n
      BY <2>1
    <2>4. \A k, m \in 1..n : k # m => entry[k] # entry[m]
      BY <1>3, <2>3 DEF Lists
    <2> QED
      BY <2>1, <2>2, <2>4
  <1> QED
    BY <1>2, <1>3

\* What recordMany sorts by has an order: an item's place in it is the number of
\* items of the list that do not come after it, and no two share a place.
LEMMA SortedTyped ==
  ASSUME NEW n \in Nat, NEW entry \in [1..n -> Items],
         \A k, m \in 1..n : k # m => entry[k] # entry[m]
  PROVE  Sorted(entry) \in [1..n -> Range(entry)] /\ Ascending(Sorted(entry))
  <1> DEFINE R == Range(entry)
             upTo(i) == {j \in R : j <= i}
             place == [i \in R |-> Cardinality(upTo(i))]
  <1>1. /\ DOMAIN entry = 1..n
        /\ R = {entry[k] : k \in 1..n}
        /\ R \subseteq Nat
    BY StockAssumption DEF Range
  <1>2. IsFiniteSet(1..n) /\ Cardinality(1..n) = n
    BY FS_Interval
  <1>3. IsFiniteSet(R) /\ Cardinality(R) = n
    <2>1. entry \in Bijection(1..n, R)
      BY <1>1 DEF Bijection, Injection, Surjection, IsInjective
    <2>2. ExistsBijection(1..n, R)
      BY <2>1 DEF ExistsBijection
    <2> HIDE DEF R
    <2> QED
      BY <1>2, <2>2, FS_Bijection
  <1> HIDE DEF R
  <1>4. \A i \in R : IsFiniteSet(upTo(i)) /\ Cardinality(upTo(i)) \in 1..n
    <2> SUFFICES ASSUME NEW i \in R
                 PROVE  IsFiniteSet(upTo(i)) /\ Cardinality(upTo(i)) \in 1..n
      OBVIOUS
    <2>1. upTo(i) \in SUBSET R /\ i \in upTo(i)
      BY <1>1
    <2> HIDE DEF upTo
    <2>2. IsFiniteSet(upTo(i)) /\ Cardinality(upTo(i)) <= n
      BY <1>3, <2>1, FS_Subset
    <2>3. Cardinality(upTo(i)) \in Nat /\ Cardinality(upTo(i)) # 0
      BY <2>1, <2>2, FS_CardinalityType, FS_EmptySet
    <2> QED
      BY <2>2, <2>3
  <1>5. \A i, j \in R : i < j => place[i] < place[j]
    <2> SUFFICES ASSUME NEW i \in R, NEW j \in R, i < j
                 PROVE  Cardinality(upTo(i)) < Cardinality(upTo(j))
      OBVIOUS
    <2>0. i \in Nat /\ j \in Nat /\ \A k \in R : k \in Nat
      BY <1>1
    <2>1. upTo(i) \in SUBSET upTo(j) /\ j \in upTo(j) /\ j \notin upTo(i)
      <3>1. \A k \in R : k <= i => k <= j
        BY <2>0
      <3>2. j <= j /\ ~(j <= i)
        BY <2>0
      <3> QED
        BY <3>1, <3>2, Zenon
    <2> HIDE DEF upTo
    <2>2. upTo(i) # upTo(j)
      BY <2>1
    <2>3. /\ IsFiniteSet(upTo(j))
          /\ Cardinality(upTo(i)) \in Nat /\ Cardinality(upTo(j)) \in Nat
      BY <1>4
    <2>4. Cardinality(upTo(i)) <= Cardinality(upTo(j))
          /\ Cardinality(upTo(i)) # Cardinality(upTo(j))
      BY <2>1, <2>2, <2>3, FS_Subset
    <2> QED
      BY <2>3, <2>4
  <1>6. place \in [R -> 1..n]
    BY <1>4
  <1> HIDE DEF place
  <1>7. place \in Injection(R, 1..n)
    <2>1. \A i, j \in R : place[i] = place[j] => i = j
      <3>1. \A i \in R : i \in Nat
        BY <1>1
      <3>2. \A i \in R : place[i] \in Int
        BY <1>6
      <3> QED
        BY <1>5, <3>1, <3>2
    <2> QED
      BY <1>6, <2>1 DEF Injection, IsInjective
  <1>8. place \in Surjection(R, 1..n)
    BY <1>2, <1>3, <1>7, FS_Injection
  <1>9. \A m \in 1..n : \E i \in R : place[i] = m
    BY <1>8 DEF Surjection
  <1> DEFINE s == [m \in 1..n |-> CHOOSE i \in R : place[i] = m]
  <1>10. \A m \in 1..n : s[m] \in R /\ place[s[m]] = m
    BY <1>9
  <1>11. s \in [1..n -> R]
    BY <1>10
  <1> HIDE DEF s
  <1>12. Ascending(s)
    <2> SUFFICES ASSUME NEW m \in 1..n, NEW k \in 1..n, m < k PROVE s[m] < s[k]
      BY <1>11 DEF Ascending
    <2>1. s[m] \in R /\ s[k] \in R /\ s[m] \in Nat /\ s[k] \in Nat
      BY <1>1, <1>10
    <2>2. place[s[m]] = m /\ place[s[k]] = k
      BY <1>10
    <2>3. ~(s[k] < s[m]) /\ s[k] # s[m]
      BY <1>5, <2>1, <2>2
    <2> QED
      BY <2>1, <2>3
  <1>13. s \in [DOMAIN entry -> Range(entry)]
    BY <1>1, <1>11 DEF R
  <1>14. Sorted(entry) \in [DOMAIN entry -> Range(entry)] /\ Ascending(Sorted(entry))
    BY <1>12, <1>13 DEF Sorted
  <1> QED
    BY <1>1, <1>14

-----------------------------------------------------------------------------
(* What a transaction has left to do, the locks it has, and the counters. *)

Bookkeeping ==
  /\ todo \in [Procs -> Seq(Step)]
  /\ \A p \in Procs : \A l \in holds[p] : l.mode \in {"own", "share"}
  /\ asked \in 0..MaxRequests
  /\ fails \in 0..MaxFails

LEMMA DoTyped ==
  ASSUME NEW what \in {"share", "credit", "move"}, NEW n \in Nat, NEW entry \in [1..n -> Items]
  PROVE  Do(what, entry) \in Seq(Step)
  <1>1. \A k \in 1..n : [do |-> what, item |-> entry[k]] \in Step
    BY DEF Step
  <1>2. Do(what, entry) \in [1..n -> Step]
    BY <1>1 DEF Do
  <1> QED
    BY <1>2

LEMMA StatementsTyped ==
  ASSUME NEW entry \in Lists \cup {<<>>}
  PROVE  /\ \A what \in {"share", "credit", "move"} : Do(what, entry) \in Seq(Step)
         /\ Do("move", Sorted(entry)) \in Seq(Step)
         /\ \A what \in {"number", "stamp", "reread"} : Once(what) \in Seq(Step)
  <1>1. PICK n \in Nat : /\ entry \in [1..n -> Items]
                         /\ \A k, m \in 1..n : k # m => entry[k] # entry[m]
    BY ListTyped
  <1>2. Sorted(entry) \in [1..n -> Range(entry)]
    BY <1>1, SortedTyped
  <1>3. Range(entry) \subseteq Items
    BY <1>1 DEF Range
  <1>4. Sorted(entry) \in [1..n -> Items]
    BY <1>2, <1>3
  <1>5. \A what \in {"number", "stamp", "reread"} : Once(what) \in Seq(Step)
    BY DEF Once, Step
  <1> QED
    BY <1>1, <1>4, <1>5, DoTyped

LEMMA AsksKeepsBooks ==
  ASSUME Bookkeeping, NEW p \in Procs, NEW op, NEW doc, NEW entry, NEW move,
         NEW statements \in Seq(Step), Begins(p, op), Asks(p, op, doc, entry, move, statements)
  PROVE  Bookkeeping'
  <1>1. todo' \in [Procs -> Seq(Step)]
    BY DEF Bookkeeping, Asks
  <1>2. asked' \in 0..MaxRequests
    BY StockAssumption DEF Bookkeeping, Asks, Begins
  <1>3. holds' = holds /\ fails' = fails
    BY DEF Asks
  <1> QED
    BY <1>1, <1>2, <1>3 DEF Bookkeeping

LEMMA BeginKeepsBooks ==
  ASSUME StockInvariant, Bookkeeping, NEW p \in Procs, Begin(p)
  PROVE  Bookkeeping'
  <1> \A s, t \in Seq(Step) : s \o t \in Seq(Step)
    OBVIOUS
  <1>0. <<>> \in Lists \cup {<<>>} /\ \A entry \in Entries : entry \in Lists \cup {<<>>}
    BY DEF Entries
  <1>1. CASE DraftPurchase(p)
    <2>1. PICK d \in Purchases, entry \in Entries : \E qty \in QuantitiesOf(entry) :
            Asks(p, "draft", d, entry, qty, Once("number") \o Do("share", entry))
      BY <1>1 DEF DraftPurchase, New
    <2>2. Once("number") \o Do("share", entry) \in Seq(Step)
      BY <1>0, StatementsTyped
    <2> QED
      BY <1>1, <2>1, <2>2, AsksKeepsBooks DEF DraftPurchase
  <1>2. CASE UpdatePurchase(p)
    <2>1. PICK d \in Drafts, entry \in Entries : \E qty \in QuantitiesOf(entry) :
            Asks(p, "update", d, entry, qty, Once("stamp") \o Do("share", entry))
      BY <1>2 DEF UpdatePurchase
    <2>2. Once("stamp") \o Do("share", entry) \in Seq(Step)
      BY <1>0, StatementsTyped
    <2> QED
      BY <1>2, <2>1, <2>2, AsksKeepsBooks DEF UpdatePurchase
  <1>3. CASE RemovePurchase(p)
    <2>1. Once("stamp") \in Seq(Step)
      BY <1>0, StatementsTyped
    <2> QED
      BY <1>3, <2>1, AsksKeepsBooks DEF RemovePurchase
  <1>4. CASE ReceivePurchase(p)
    <2>1. PICK d \in Purchases :
            Asks(p, "receive", d, purchase[d].entry, purchase[d].qty,
                 Do("move", purchase[d].entry) \o Once("stamp"))
      BY <1>4 DEF ReceivePurchase, Receivable, Drafts
    <2>2. Do("move", purchase[d].entry) \o Once("stamp") \in Seq(Step)
      BY PurchaseTyped, StatementsTyped
    <2> QED
      BY <1>4, <2>1, <2>2, AsksKeepsBooks DEF ReceivePurchase
  <1>5. CASE CancelPurchase(p)
    <2>1. PICK d \in Purchases :
            \/ Asks(p, "cancel", d, <<>>, Zero, Once("stamp"))
            \/ Asks(p, "cancel", d, purchase[d].entry, Minus(purchase[d].qty),
                    Do("move", Sorted(purchase[d].entry)) \o Once("stamp"))
      BY <1>5 DEF CancelPurchase
    <2>2. Once("stamp") \in Seq(Step)
      BY <1>0, StatementsTyped
    <2>3. Do("move", Sorted(purchase[d].entry)) \o Once("stamp") \in Seq(Step)
      BY PurchaseTyped, StatementsTyped
    <2> QED
      BY <1>5, <2>1, <2>2, <2>3, AsksKeepsBooks DEF CancelPurchase
  <1>6. CASE Issue(p)
    <2>1. PICK s \in Slips, entry \in Entries : \E qty \in QuantitiesOf(entry) :
            Asks(p, "issue", s, entry, Minus(qty),
                 Once("number") \o Do("share", entry) \o Do("move", Sorted(entry)))
      BY <1>6 DEF Issue, New
    <2>2. Once("number") \o Do("share", entry) \o Do("move", Sorted(entry)) \in Seq(Step)
      BY <1>0, StatementsTyped
    <2> QED
      BY <1>6, <2>1, <2>2, AsksKeepsBooks DEF Issue
  <1>7. CASE Return(p)
    <2>1. PICK s \in Slips, entry \in Entries : \E qty \in QuantitiesOf(entry) :
            Asks(p, "return", s, entry, qty,
                 Do("credit", entry) \o Do("move", Sorted(entry))
                   \o Once("reread") \o Once("stamp"))
      BY <1>7 DEF Return
    <2>2. Do("credit", entry) \o Do("move", Sorted(entry)) \o Once("reread") \o Once("stamp")
            \in Seq(Step)
      BY <1>0, StatementsTyped
    <2> QED
      BY <1>7, <2>1, <2>2, AsksKeepsBooks DEF Return
  <1>8. CASE Adjust(p)
    <2>1. PICK entry \in Entries : \E move :
            Asks(p, "adjust", None, entry, move, Do("move", Sorted(entry)))
      BY <1>8 DEF Adjust
    <2>2. Do("move", Sorted(entry)) \in Seq(Step)
      BY <1>0, StatementsTyped
    <2> QED
      BY <1>8, <2>1, <2>2, AsksKeepsBooks DEF Adjust
  <1> QED
    BY <1>1, <1>2, <1>3, <1>4, <1>5, <1>6, <1>7, <1>8 DEF Begin

LEMMA RunsKeepsBooks ==
  ASSUME LocksExclude, Bookkeeping, NEW p \in Procs, NEW i,
         NEW what \in {"number", "share", "credit", "move", "reread", "stamp"},
         Runs(p, what, i)
  PROVE  Bookkeeping'
  <1> DEFINE new == LockFor(p, [do |-> what, item |-> i])
  <1>1. \A l \in new : l.mode \in {"own", "share"}
    BY DEF LockFor, Own, Share
  <1>2. holds' = [holds EXCEPT ![p] = @ \cup new]
    BY DEF Runs
  <1> HIDE DEF new
  <1>3. \A q \in Procs : holds'[q] = IF q = p THEN holds[p] \cup new ELSE holds[q]
    BY <1>2 DEF LocksExclude
  <1>4. \A q \in Procs : \A l \in holds'[q] : l.mode \in {"own", "share"}
    BY <1>1, <1>3 DEF Bookkeeping
  <1>5. todo' \in [Procs -> Seq(Step)]
    <2>1. todo[p] \in Seq(Step) /\ todo[p] # <<>>
      BY DEF Bookkeeping, Runs, MayRun
    <2>2. Tail(todo[p]) \in Seq(Step)
      BY <2>1
    <2> QED
      BY <2>2 DEF Bookkeeping, Runs
  <1>6. asked' = asked /\ fails' = fails
    BY DEF Runs
  <1> QED
    BY <1>4, <1>5, <1>6 DEF Bookkeeping

LEMMA EndsKeepsBooks ==
  ASSUME LocksExclude, Bookkeeping, NEW p \in Procs, Ends(p), asked' = asked,
         fails' \in 0..MaxFails
  PROVE  Bookkeeping'
  <1>1. todo' \in [Procs -> Seq(Step)]
    BY DEF Bookkeeping, Ends
  <1>2. \A q \in Procs : holds'[q] = IF q = p THEN {} ELSE holds[q]
    BY DEF Ends, LocksExclude
  <1> QED
    BY <1>1, <1>2 DEF Bookkeeping

LEMMA ContinueKeepsBooks ==
  ASSUME LocksExclude, Bookkeeping, NEW p \in Procs, Continue(p)
  PROVE  Bookkeeping'
  <1>1. CASE TakeNumber(p) \/ CheckForeignKey(p) \/ Stamp(p) \/ Reread(p)
    BY <1>1, RunsKeepsBooks DEF TakeNumber, CheckForeignKey, Stamp, Reread
  <1>2. CASE CreditLine(p) \/ Move(p)
    <2>1. PICK i \in Items, what \in {"credit", "move"} : Runs(p, what, i) \/ RollsBack(p)
      BY <1>2 DEF CreditLine, Move
    <2> QED
      BY <2>1, RunsKeepsBooks, EndsKeepsBooks DEF RollsBack, Bookkeeping
  <1>3. CASE Commit(p)
    BY <1>3, EndsKeepsBooks DEF Commit, Bookkeeping
  <1> QED
    BY <1>1, <1>2, <1>3 DEF Continue

LEMMA NextKeepsBooks ==
  ASSUME StockInvariant, Bookkeeping, [Next]_vars
  PROVE  Bookkeeping'
  <1>1. LocksExclude
    BY DEF StockInvariant
  <1>2. CASE Next
    <2>1. PICK p \in Procs : Begin(p) \/ Continue(p) \/ Fail(p)
      BY <1>2 DEF Next
    <2>2. CASE Begin(p)
      BY <2>2, BeginKeepsBooks
    <2>3. CASE Continue(p)
      BY <1>1, <2>3, ContinueKeepsBooks
    <2>4. CASE Fail(p)
      <3>1. fails' \in 0..MaxFails
        BY <2>4, StockAssumption DEF Bookkeeping, Fail
      <3> QED
        BY <1>1, <2>4, <3>1, EndsKeepsBooks DEF Fail
    <2> QED
      BY <2>1, <2>2, <2>3, <2>4
  <1>3. CASE UNCHANGED vars
    BY <1>3 DEF vars, Bookkeeping
  <1> QED
    BY <1>2, <1>3

\* Every reachable state is one the declarations describe: tables of their rows,
\* which no balance below zero and no impossible return gets into, transactions
\* made of known statements (recordMany's sort has a result), and the bounds.
THEOREM TypeCorrect == Spec => []TypeOK
  <1>1. Init => Bookkeeping
    BY StockAssumption DEF Init, Bookkeeping
  <1>2. ASSUME StockInvariant, Bookkeeping, [Next]_vars PROVE Bookkeeping'
    BY <1>2, NextKeepsBooks
  <1>3. StockInvariant /\ Bookkeeping => TypeOK
    BY DEF StockInvariant, Bookkeeping, TypeOK
  <1> QED
    BY StockInvariantHolds, <1>1, <1>2, <1>3, PTL DEF Spec

-----------------------------------------------------------------------------
(* What the ledger has moved for a document. *)

NetOf(rows, d) ==
  LET own == {n \in DOMAIN rows : rows[n].ref = d}
  IN  SumFunction([n \in own |-> rows[n].qtyIn - rows[n].qtyOut])

LEMMA NetIsNetOf == \A d, i : Net(d, i) = NetOf(ledger[i], d)
  BY DEF Net, NetOf

LEMMA NetOfTyped ==
  ASSUME NEW rows \in Seq(LedgerRow), NEW d
  PROVE  NetOf(rows, d) \in Int
  <1> DEFINE own == {n \in DOMAIN rows : rows[n].ref = d}
             f == [n \in own |-> rows[n].qtyIn - rows[n].qtyOut]
  <1>1. IsFiniteSet(1..Len(rows)) /\ own \in SUBSET (1..Len(rows))
    BY FS_Interval
  <1>2. IsFiniteSet(own)
    BY <1>1, FS_Subset
  <1>3. \A n \in own : rows[n] \in LedgerRow
    BY <1>1
  <1>4. \A n \in own : f[n] \in Int
    BY <1>3 DEF LedgerRow
  <1>5. NetOf(rows, d) = SumFunctionOnSet(f, own)
    BY DEF NetOf, SumFunction
  <1> HIDE DEF own, f
  <1> QED
    BY <1>2, <1>4, <1>5, SumIsInteger

LEMMA NetOfNothing == \A d : NetOf(<<>>, d) = 0
  <1> SUFFICES ASSUME NEW d PROVE NetOf(<<>>, d) = 0
    OBVIOUS
  <1> DEFINE own == {n \in DOMAIN <<>> : <<>>[n].ref = d}
             f == [n \in own |-> <<>>[n].qtyIn - <<>>[n].qtyOut]
  <1>1. own = {}
    OBVIOUS
  <1>2. NetOf(<<>>, d) = SumFunctionOnSet(f, own)
    BY DEF NetOf, SumFunction
  <1> HIDE DEF own, f
  <1> QED
    BY <1>1, <1>2, SumOfNone

\* One more row changes what was moved for its own document, by its movement.
LEMMA NetOfAppend ==
  ASSUME NEW rows \in Seq(LedgerRow), NEW row \in LedgerRow, NEW d
  PROVE  NetOf(Append(rows, row), d)
           = NetOf(rows, d) + IF row.ref = d THEN row.qtyIn - row.qtyOut ELSE 0
  <1> DEFINE own(s) == {n \in DOMAIN s : s[n].ref = d}
             f(s) == [n \in own(s) |-> s[n].qtyIn - s[n].qtyOut]
             more == Append(rows, row)
             last == Len(rows) + 1
  <1>1. /\ DOMAIN rows = 1..Len(rows) /\ DOMAIN more = 1..last /\ Len(rows) \in Nat
        /\ \A n \in 1..Len(rows) : more[n] = rows[n] /\ rows[n] \in LedgerRow
        /\ more[last] = row
    OBVIOUS
  <1>2. IsFiniteSet(1..Len(rows)) /\ own(rows) \in SUBSET (1..Len(rows))
    BY <1>1, FS_Interval
  <1>3. IsFiniteSet(own(rows)) /\ last \notin own(rows)
    BY <1>1, <1>2, FS_Subset
  <1>4. \A s : NetOf(s, d) = SumFunctionOnSet(f(s), own(s))
    BY DEF NetOf, SumFunction
  <1> HIDE DEF more
  <1>5. own(more) = IF row.ref = d THEN own(rows) \cup {last} ELSE own(rows)
    <2>1. 1..last = (1..Len(rows)) \cup {last}
      BY <1>1
    <2> QED
      BY <1>1, <2>1
  <1>6. \A n \in own(rows) : f(rows)[n] \in Int /\ n \in own(more) /\ f(more)[n] = f(rows)[n]
    <2> SUFFICES ASSUME NEW n \in own(rows)
                 PROVE  f(rows)[n] \in Int /\ n \in own(more) /\ f(more)[n] = f(rows)[n]
      OBVIOUS
    <2>1. rows[n] \in LedgerRow /\ more[n] = rows[n] /\ n \in own(more)
      BY <1>1, <1>2, <1>5
    <2> QED
      BY <2>1 DEF LedgerRow
  <1>7. CASE row.ref = d
    <2>1. last \in own(more)
      BY <1>5, <1>7
    <2>2. f(more)[last] = row.qtyIn - row.qtyOut /\ f(more)[last] \in Int
      BY <1>1, <2>1 DEF LedgerRow
    <2>3. own(more) = own(rows) \cup {last}
      BY <1>5, <1>7
    <2>4. NetOf(more, d) = SumFunctionOnSet(f(more), own(rows) \cup {last})
      BY <1>4, <2>3
    <2>5. NetOf(rows, d) = SumFunctionOnSet(f(rows), own(rows))
      BY <1>4
    <2>6. NetOf(rows, d) \in Int
      BY NetOfTyped
    <2> HIDE DEF own, f, last
    <2>7. SumFunctionOnSet(f(more), own(rows) \cup {last})
            = f(more)[last] + SumFunctionOnSet(f(rows), own(rows))
      <3> DEFINE T == own(rows)
                 fr == f(rows)
                 fm == f(more)
      <3>1. /\ IsFiniteSet(T) /\ last \notin T /\ fm[last] \in Int
            /\ \A n \in T : fr[n] \in Int /\ fm[n] = fr[n]
        BY <1>3, <1>6, <2>2
      <3> HIDE DEF T, fr, fm
      <3>2. SumFunctionOnSet(fm, T \cup {last}) = fm[last] + SumFunctionOnSet(fr, T)
        BY <3>1, SumAdds
      <3> QED
        BY <3>2 DEF T, fr, fm
    <2>8. NetOf(more, d) = row.qtyIn - row.qtyOut + NetOf(rows, d)
      BY <2>2, <2>4, <2>5, <2>7
    <2>9. row.qtyIn \in Int /\ row.qtyOut \in Int
      BY DEF LedgerRow
    <2> QED
      BY <1>7, <2>6, <2>8, <2>9 DEF more
  <1>8. CASE row.ref # d
    <2>1. own(more) = own(rows)
      BY <1>5, <1>8
    <2>2. NetOf(more, d) = SumFunctionOnSet(f(more), own(rows))
      BY <1>4, <2>1
    <2>3. NetOf(rows, d) = SumFunctionOnSet(f(rows), own(rows))
      BY <1>4
    <2>4. NetOf(rows, d) \in Int
      BY NetOfTyped
    <2> HIDE DEF own, f
    <2>5. SumFunctionOnSet(f(more), own(rows)) = SumFunctionOnSet(f(rows), own(rows))
      BY <1>3, <1>6, SumCongruence
    <2> QED
      BY <1>8, <2>2, <2>3, <2>4, <2>5 DEF more
  <1> QED
    BY <1>7, <1>8

-----------------------------------------------------------------------------
(* Slips against the ledger.  A transaction that is through with its       *)
(* statements has written a row for every item it was asked to move; what  *)
(* a return credits it has looked at under the lock of the line; and no    *)
(* two requests make the same slip.                                        *)

Left(p) == Range(todo[p])

Moving == {"receive", "cancel", "issue", "return", "adjust"}
OnSlips == {"issue", "return"}
OnDeliveries == {"draft", "update", "remove", "receive", "cancel"}

MoveIsWhole(p, i) ==
  /\ req[p].op \in Moving /\ req[p].move[i] # 0
       => req[p].wrote[i] # None \/ [do |-> "move", item |-> i] \in Left(p)
  /\ req[p].op \notin Moving => [do |-> "move", item |-> i] \notin Left(p)
  /\ req[p].wrote[i] # None
       => /\ req[p].op \in Moving
          /\ req[p].wrote[i].ref = req[p].doc
          /\ req[p].wrote[i].qtyIn - req[p].wrote[i].qtyOut = req[p].move[i]

MovesAreWhole == \A p \in Procs, i \in Items : MoveIsWhole(p, i)

DocsInFlight ==
  /\ \A p \in Procs :
       /\ req[p].op \in OnSlips <=> req[p].doc \in Slips
       /\ req[p].op \in OnDeliveries <=> req[p].doc \in Purchases
       /\ req[p].op = "issue" => slip[req[p].doc] = NoSlip
       /\ req[p].op = "return" => slip[req[p].doc].status # "absent"
  /\ \A p, q \in Procs : p # q /\ req[p].op = "issue" => req[q].doc # req[p].doc
  /\ \A s \in Slips : slip[s].status = "absent" => slip[s] = NoSlip

CreditedUnderLock ==
  \A p \in Procs : req[p].op = "return" =>
    /\ req[p].status # "absent" \/ [do |-> "reread", item |-> None] \in Left(p)
    /\ \A i \in Items : req[p].move[i] # 0 =>
         \/ [do |-> "credit", item |-> i] \in Left(p)
         \/ /\ Own(<<"line", req[p].doc, i>>) \in holds[p]
            /\ req[p].move[i] <= Outstanding(req[p].doc, i)

\* A delivery lists every item it has a quantity of.
EntriesCover ==
  /\ \A d \in Purchases, i \in Items :
       purchase[d].qty[i] # 0 => i \in Range(purchase[d].entry)
  /\ \A p \in Procs, i \in Items :
       req[p].op \in {"draft", "update"} /\ req[p].move[i] # 0 => i \in Range(req[p].entry)

SlipInvariant ==
  /\ MovesAreWhole
  /\ DocsInFlight
  /\ CreditedUnderLock
  /\ EntriesCover
  /\ SlipsAgreeWithLedger

-----------------------------------------------------------------------------
(* Statements still to run. *)

LEMMA LeftAfterTail ==
  ASSUME NEW s \in Seq(Step), s # <<>>
  PROVE  /\ Range(Tail(s)) \subseteq Range(s)
         /\ \A x \in Range(s) : x = Head(s) \/ x \in Range(Tail(s))
  <1>1. /\ Len(s) \in Nat \ {0} /\ DOMAIN s = 1..Len(s)
        /\ Tail(s) \in Seq(Step) /\ Len(Tail(s)) = Len(s) - 1 /\ Head(s) = s[1]
        /\ DOMAIN Tail(s) = 1..(Len(s) - 1)
        /\ \A n \in 1..(Len(s) - 1) : Tail(s)[n] = s[n + 1]
    OBVIOUS
  <1>2. ASSUME NEW n \in 1..(Len(s) - 1) PROVE Tail(s)[n] \in Range(s)
    <2>1. n + 1 \in DOMAIN s /\ Tail(s)[n] = s[n + 1]
      BY <1>1
    <2> QED
      BY <2>1 DEF Range
  <1>3. ASSUME NEW n \in 1..Len(s) PROVE s[n] = Head(s) \/ s[n] \in Range(Tail(s))
    <2>1. CASE n = 1
      BY <1>1, <2>1
    <2>2. CASE n # 1
      <3>1. n - 1 \in DOMAIN Tail(s) /\ Tail(s)[n - 1] = s[n]
        BY <1>1, <2>2
      <3> QED
        BY <3>1 DEF Range
    <2> QED
      BY <2>1, <2>2
  <1> QED
    BY <1>1, <1>2, <1>3 DEF Range

LEMMA RangeOfConcat ==
  ASSUME NEW s \in Seq(Step), NEW t \in Seq(Step)
  PROVE  Range(s \o t) = Range(s) \cup Range(t)
  <1> DEFINE st == s \o t
  <1>1. /\ Len(s) \in Nat /\ Len(t) \in Nat
        /\ DOMAIN s = 1..Len(s) /\ DOMAIN t = 1..Len(t)
        /\ DOMAIN st = 1..(Len(s) + Len(t))
        /\ \A n \in 1..Len(s) : st[n] = s[n]
        /\ \A n \in 1..Len(t) : st[Len(s) + n] = t[n]
    OBVIOUS
  <1> HIDE DEF st
  <1>2. ASSUME NEW n \in DOMAIN st PROVE st[n] \in Range(s) \cup Range(t)
    <2>1. CASE n <= Len(s)
      <3>1. n \in DOMAIN s /\ st[n] = s[n]
        BY <1>1, <2>1
      <3> QED
        BY <3>1 DEF Range
    <2>2. CASE ~(n <= Len(s))
      <3>1. n - Len(s) \in DOMAIN t /\ Len(s) + (n - Len(s)) = n
        BY <1>1, <2>2
      <3>2. st[n] = t[n - Len(s)]
        BY <1>1, <3>1
      <3> QED
        BY <3>1, <3>2 DEF Range
    <2> QED
      BY <1>1, <2>1, <2>2
  <1>3. ASSUME NEW n \in DOMAIN s PROVE s[n] \in Range(st)
    <2>1. n \in DOMAIN st /\ st[n] = s[n]
      BY <1>1
    <2> QED
      BY <2>1 DEF Range
  <1>4. ASSUME NEW n \in DOMAIN t PROVE t[n] \in Range(st)
    <2>1. Len(s) + n \in DOMAIN st /\ st[Len(s) + n] = t[n]
      BY <1>1
    <2> QED
      BY <2>1 DEF Range
  <1>5. Range(st) = Range(s) \cup Range(t)
    BY <1>2, <1>3, <1>4 DEF Range
  <1> QED
    BY <1>5 DEF st

LEMMA RangeOfDo ==
  \A what, entry : Range(Do(what, entry)) = {[do |-> what, item |-> i] : i \in Range(entry)}
  BY DEF Do, Range

LEMMA RangeOfOnce == \A what : Range(Once(what)) = {[do |-> what, item |-> None]}
  BY DEF Once, Range

\* Sorting loses no item.
LEMMA SortedHasAll ==
  ASSUME NEW entry \in Lists \cup {<<>>}
  PROVE  Range(Sorted(entry)) = Range(entry)
  <1>1. PICK n \in Nat : /\ entry \in [1..n -> Items]
                         /\ \A k, m \in 1..n : k # m => entry[k] # entry[m]
    BY ListTyped
  <1> DEFINE R == Range(entry)
             s == Sorted(entry)
  <1>2. s \in [1..n -> R] /\ Ascending(s)
    BY <1>1, SortedTyped
  <1>3. R \subseteq Nat /\ DOMAIN entry = 1..n
    BY <1>1, StockAssumption DEF Range
  <1>4. IsFiniteSet(1..n) /\ Cardinality(1..n) = n
    BY FS_Interval
  <1>5. IsFiniteSet(R) /\ Cardinality(R) = n
    <2>1. entry \in Bijection(1..n, R)
      BY <1>1, <1>3 DEF Bijection, Injection, Surjection, IsInjective, Range
    <2>2. ExistsBijection(1..n, R)
      BY <2>1 DEF ExistsBijection
    <2> HIDE DEF R
    <2> QED
      BY <1>4, <2>2, FS_Bijection
  <1> HIDE DEF R, s
  <1>6. s \in Injection(1..n, R)
    <2>1. \A k, m \in 1..n : k < m => s[k] < s[m]
      BY <1>2 DEF Ascending
    <2>2. \A k \in 1..n : s[k] \in Nat
      BY <1>2, <1>3
    <2>3. \A k, m \in 1..n : s[k] = s[m] => k = m
      BY <2>1, <2>2
    <2> QED
      BY <1>2, <2>3 DEF Injection, IsInjective
  <1>7. s \in Surjection(1..n, R)
    BY <1>4, <1>5, <1>6, FS_Injection
  <1>8. Range(s) = R
    BY <1>2, <1>7 DEF Surjection, Range
  <1> QED
    BY <1>8 DEF R, s

-----------------------------------------------------------------------------
(* Steps that leave the tables as they are. *)

LEMMA NetAfterwards == \A d, i : Net(d, i)' = NetOf(ledger'[i], d)
  BY DEF Net, NetOf

LEMMA SlipsStayInAgreement ==
  ASSUME SlipsAgreeWithLedger, ledger' = ledger, slip' = slip
  PROVE  SlipsAgreeWithLedger'
  <1>1. \A d, i : Net(d, i)' = Net(d, i)
    BY NetAfterwards, NetIsNetOf
  <1>2. \A s, i : Outstanding(s, i)' = Outstanding(s, i)
    BY DEF Outstanding
  <1> QED
    BY <1>1, <1>2 DEF SlipsAgreeWithLedger

LEMMA AsksPreservesSlips ==
  ASSUME StockInvariant, Bookkeeping, SlipInvariant, NEW p \in Procs,
         NEW op \in OpNames, NEW doc \in Documents \cup {None},
         NEW entry \in Lists \cup {<<>>}, NEW move \in [Items -> Int],
         NEW statements, Asks(p, op, doc, entry, move, statements),
         op \in OnSlips <=> doc \in Slips,
         op \in OnDeliveries <=> doc \in Purchases,
         op = "issue" => slip[doc] = NoSlip /\ \A q \in Procs : req[q].doc # doc,
         op = "return" =>
           /\ slip[doc].status # "absent"
           /\ [do |-> "reread", item |-> None] \in Range(statements)
           /\ \A i \in Items : move[i] # 0 => [do |-> "credit", item |-> i] \in Range(statements),
         op \in Moving =>
           \A i \in Items : move[i] # 0 => [do |-> "move", item |-> i] \in Range(statements),
         op \notin Moving =>
           \A i \in Items : [do |-> "move", item |-> i] \notin Range(statements),
         op \in {"draft", "update"} => \A i \in Items : move[i] # 0 => i \in Range(entry)
  PROVE  SlipInvariant'
  <1> DEFINE r == Asked(op, doc, entry, move)
  <1>1. r.op = op /\ r.move = move /\ \A i \in Items : r.wrote[i] = None
    BY DEF Asked, NothingWritten
  <1>2. r.doc = doc /\ r.entry = entry /\ r.status = "absent"
    BY DEF Asked
  <1>3. req \in [Procs -> Request] /\ req' = [req EXCEPT ![p] = r]
    BY DEF StockInvariant, RowsOK, Asks
  <1>4. UNCHANGED <<ledger, slip, purchase, holds>>
    BY DEF Asks, tables
  <1>5. todo' = [todo EXCEPT ![p] = statements] /\ todo \in [Procs -> Seq(Step)]
    BY DEF Asks, Bookkeeping
  <1> HIDE DEF r
  <1>6. \A q \in Procs : req'[q] = IF q = p THEN r ELSE req[q]
    BY <1>3
  <1>7. \A q \in Procs : Left(q)' = IF q = p THEN Range(statements) ELSE Left(q)
    BY <1>5 DEF Left
  <1> HIDE DEF Left
  <1>8. MovesAreWhole'
    <2> SUFFICES ASSUME NEW q \in Procs, NEW j \in Items PROVE MoveIsWhole(q, j)'
      BY DEF MovesAreWhole
    <2>1. CASE q = p
      BY <1>1, <1>6, <1>7, <2>1 DEF MoveIsWhole
    <2>2. CASE q # p
      BY <1>6, <1>7, <2>2 DEF SlipInvariant, MovesAreWhole, MoveIsWhole
    <2> QED
      BY <2>1, <2>2
  <1>9. DocsInFlight'
    <2>1. ASSUME NEW q \in Procs
          PROVE  /\ req'[q].op \in OnSlips <=> req'[q].doc \in Slips
                 /\ req'[q].op \in OnDeliveries <=> req'[q].doc \in Purchases
                 /\ req'[q].op = "issue" => slip'[req'[q].doc] = NoSlip
                 /\ req'[q].op = "return" => slip'[req'[q].doc].status # "absent"
      BY <1>1, <1>2, <1>4, <1>6 DEF SlipInvariant, DocsInFlight
    <2>2. ASSUME NEW q \in Procs, NEW o \in Procs, q # o, req'[q].op = "issue"
          PROVE  req'[o].doc # req'[q].doc
      <3>1. CASE q = p
        BY <1>1, <1>2, <1>6, <2>2, <3>1 DEF SlipInvariant, DocsInFlight
      <3>2. CASE q # p /\ o # p
        BY <1>6, <2>2, <3>2 DEF SlipInvariant, DocsInFlight
      <3>3. CASE o = p
        <4>1. req[q].op = "issue" /\ req'[q] = req[q] /\ req'[o].doc = doc
          BY <1>2, <1>6, <2>2, <3>3
        <4>2. req[q].doc \in Slips /\ slip[req[q].doc] = NoSlip
          BY <4>1 DEF SlipInvariant, DocsInFlight, OnSlips
        <4>3. NoSlip.status = "absent"
          BY DEF NoSlip
        <4>4. CASE doc \in Slips
          BY <4>1, <4>2, <4>3, <4>4 DEF OnSlips
        <4> QED
          BY <4>1, <4>2, <4>4
      <3> QED
        BY <3>1, <3>2, <3>3
    <2>3. \A s \in Slips : slip'[s].status = "absent" => slip'[s] = NoSlip
      BY <1>4 DEF SlipInvariant, DocsInFlight
    <2> QED
      BY <2>1, <2>2, <2>3 DEF DocsInFlight
  <1>10. CreditedUnderLock'
    BY <1>1, <1>2, <1>4, <1>6, <1>7 DEF SlipInvariant, CreditedUnderLock, Outstanding
  <1>11. EntriesCover'
    BY <1>1, <1>2, <1>4, <1>6 DEF SlipInvariant, EntriesCover
  <1>12. SlipsAgreeWithLedger'
    BY <1>4, SlipsStayInAgreement DEF SlipInvariant
  <1> QED
    BY <1>8, <1>9, <1>10, <1>11, <1>12 DEF SlipInvariant

\* A statement that runs: what it is for has been done, the rest is still to do.
LEMMA RunsPreservesSlips ==
  ASSUME StockInvariant, Bookkeeping, SlipInvariant, NEW p \in Procs, NEW what, NEW i,
         Runs(p, what, i), req' \in [Procs -> Request],
         \A q \in Procs : q # p => req'[q] = req[q],
         /\ req'[p].op = req[p].op /\ req'[p].doc = req[p].doc
         /\ req'[p].entry = req[p].entry /\ req'[p].move = req[p].move,
         req'[p].status = req[p].status \/ req'[p].status # "absent",
         what = "reread" => req'[p].status # "absent",
         what = "credit" => req[p].move[i] <= Outstanding(req[p].doc, i),
         \A j \in Items :
           \/ req'[p].wrote[j] = req[p].wrote[j]
           \/ /\ what = "move" /\ j = i
              /\ req'[p].wrote[j].ref = req[p].doc
              /\ req'[p].wrote[j].qtyIn - req'[p].wrote[j].qtyOut = req[p].move[j],
         what = "move" => i \in Items /\ req'[p].wrote[i] # None
  PROVE  SlipInvariant'
  <1> DEFINE st == [do |-> what, item |-> i]
  <1>1. UNCHANGED <<ledger, slip, purchase>>
    BY DEF Runs, tables
  <1>2. /\ \A q \in Procs : holds[q] \subseteq holds'[q]
        /\ LockFor(p, st) \subseteq holds'[p]
    BY RunsKeepsLocks DEF StockInvariant
  <1>3. /\ todo \in [Procs -> Seq(Step)] /\ todo[p] # <<>> /\ Head(todo[p]) = st
        /\ todo' = [todo EXCEPT ![p] = Tail(@)]
    BY DEF Bookkeeping, Runs, MayRun
  <1>4. \A q \in Procs : Left(q)' = IF q = p THEN Range(Tail(todo[p])) ELSE Left(q)
    BY <1>3 DEF Left
  <1>5. Left(p)' \subseteq Left(p) /\ \A x \in Left(p) : x = st \/ x \in Left(p)'
    <2>1. todo[p] \in Seq(Step)
      BY <1>3
    <2> QED
      BY <1>3, <1>4, <2>1, LeftAfterTail DEF Left
  <1>6. \A q \in Procs : q # p => Left(q)' = Left(q)
    BY <1>4
  <1>7. st \in Left(p)
    BY <1>3 DEF Left, Range
  <1>8. st.do = what /\ st.item = i
    OBVIOUS
  <1> HIDE DEF Left
  <1>9. MovesAreWhole'
    <2> SUFFICES ASSUME NEW q \in Procs, NEW j \in Items PROVE MoveIsWhole(q, j)'
      BY DEF MovesAreWhole
    <2>1. CASE q # p
      BY <1>6, <2>1 DEF SlipInvariant, MovesAreWhole, MoveIsWhole
    <2>2. CASE q = p
      <3>1. req[p].op \in Moving /\ req[p].move[j] # 0
              => \/ req'[p].wrote[j] # None
                 \/ [do |-> "move", item |-> j] \in Left(p)'
        BY <1>5, <1>8 DEF SlipInvariant, MovesAreWhole, MoveIsWhole
      <3>2. req[p].op \notin Moving => [do |-> "move", item |-> j] \notin Left(p)'
        BY <1>5 DEF SlipInvariant, MovesAreWhole, MoveIsWhole
      <3>3. what = "move" /\ j = i => req[p].op \in Moving
        BY <1>7 DEF SlipInvariant, MovesAreWhole, MoveIsWhole
      <3> QED
        BY <2>2, <3>1, <3>2, <3>3 DEF SlipInvariant, MovesAreWhole, MoveIsWhole
    <2> QED
      BY <2>1, <2>2
  <1>10. \A q \in Procs : /\ req'[q].op = req[q].op /\ req'[q].doc = req[q].doc
                          /\ req'[q].entry = req[q].entry /\ req'[q].move = req[q].move
    OBVIOUS
  <1>11. DocsInFlight'
    BY <1>1, <1>10 DEF SlipInvariant, DocsInFlight
  <1>12. CreditedUnderLock'
    <2> SUFFICES ASSUME NEW q \in Procs, req[q].op = "return"
                 PROVE  /\ \/ req'[q].status # "absent"
                           \/ [do |-> "reread", item |-> None] \in Left(q)'
                        /\ \A j \in Items : req[q].move[j] # 0 =>
                             \/ [do |-> "credit", item |-> j] \in Left(q)'
                             \/ /\ Own(<<"line", req[q].doc, j>>) \in holds'[q]
                                /\ req[q].move[j] <= Outstanding(req[q].doc, j)
      BY <1>1, <1>10 DEF CreditedUnderLock, Outstanding
    <2>1. CASE q # p
      BY <1>2, <1>6, <2>1 DEF SlipInvariant, CreditedUnderLock
    <2>2. CASE q = p
      <3>1. \/ req'[q].status # "absent"
            \/ [do |-> "reread", item |-> None] \in Left(q)'
        BY <1>5, <1>8, <2>2 DEF SlipInvariant, CreditedUnderLock
      <3>2. what = "credit" => Own(<<"line", req[p].doc, i>>) \in holds'[p]
        BY <1>2 DEF LockFor
      <3> QED
        BY <1>2, <1>5, <1>8, <2>2, <3>1, <3>2 DEF SlipInvariant, CreditedUnderLock
    <2> QED
      BY <2>1, <2>2
  <1>13. EntriesCover'
    BY <1>1, <1>10 DEF SlipInvariant, EntriesCover
  <1>14. SlipsAgreeWithLedger'
    BY <1>1, SlipsStayInAgreement DEF SlipInvariant
  <1> QED
    BY <1>9, <1>11, <1>12, <1>13, <1>14 DEF SlipInvariant

\* A transaction that ends without a trace.
LEMMA EndsPreservesSlips ==
  ASSUME StockInvariant, Bookkeeping, SlipInvariant, NEW p \in Procs, Ends(p), UNCHANGED tables
  PROVE  SlipInvariant'
  <1>1. UNCHANGED <<ledger, slip, purchase>>
    BY DEF tables
  <1>2. req \in [Procs -> Request] /\ req' = [req EXCEPT ![p] = Idle]
    BY DEF Ends, StockInvariant, RowsOK
  <1>3. \A q \in Procs : req'[q] = IF q = p THEN Idle ELSE req[q]
    BY <1>2
  <1>4. \A q \in Procs : q # p => holds'[q] = holds[q]
    BY DEF Ends, StockInvariant, LocksExclude
  <1>5. \A q \in Procs : Left(q)' = IF q = p THEN {} ELSE Left(q)
    BY DEF Left, Ends, Bookkeeping, Range
  <1>6. /\ Idle.op = "none" /\ Idle.doc = None /\ Idle.move = Zero
        /\ \A i \in Items : Idle.wrote[i] = None
    BY DEF Idle, Asked, NothingWritten
  <1> HIDE DEF Left
  <1>7. MovesAreWhole'
    <2> SUFFICES ASSUME NEW q \in Procs, NEW j \in Items PROVE MoveIsWhole(q, j)'
      BY DEF MovesAreWhole
    <2>1. CASE q = p
      BY <1>3, <1>5, <1>6, <2>1 DEF MoveIsWhole, Moving
    <2>2. CASE q # p
      <3>1. req'[q] = req[q] /\ Left(q)' = Left(q)
        BY <1>3, <1>5, <2>2
      <3> QED
        BY <3>1 DEF SlipInvariant, MovesAreWhole, MoveIsWhole
    <2> QED
      BY <2>1, <2>2
  <1>8. DocsInFlight'
    <2>1. None \notin Slips /\ None \notin Purchases
      BY StockAssumption
    <2>2. \A q \in Procs : req[q].op = "issue" => req[q].doc # None
      BY <2>1 DEF SlipInvariant, DocsInFlight, OnSlips
    <2> QED
      BY <1>1, <1>3, <1>6, <2>1, <2>2 DEF SlipInvariant, DocsInFlight, OnSlips, OnDeliveries
  <1>9. CreditedUnderLock'
    BY <1>1, <1>3, <1>4, <1>5, <1>6 DEF SlipInvariant, CreditedUnderLock, Outstanding
  <1>10. EntriesCover'
    BY <1>1, <1>3, <1>6 DEF SlipInvariant, EntriesCover
  <1>11. SlipsAgreeWithLedger'
    BY <1>1, SlipsStayInAgreement DEF SlipInvariant
  <1> QED
    BY <1>7, <1>8, <1>9, <1>10, <1>11 DEF SlipInvariant

-----------------------------------------------------------------------------
(* Commits. *)

\* What a commit adds to the ledger for each document.
LEMMA NetAfterCommit ==
  ASSUME StockInvariant, SlipInvariant, NEW p \in Procs, Commit(p), NEW d, NEW i \in Items,
         Left(p) = {}
  PROVE  Net(d, i)' = Net(d, i) + IF req[p].op \in Moving /\ req[p].doc = d
                                  THEN req[p].move[i] ELSE 0
  <1>1. ledger'[i] = IF req[p].wrote[i] = None THEN ledger[i]
                     ELSE Append(ledger[i], req[p].wrote[i])
    BY DEF Commit, LedgerWith
  <1>2. /\ ledger[i] \in Seq(LedgerRow)
        /\ req[p].wrote[i] \in LedgerRow \cup {None} /\ req[p].move[i] \in Int
    BY DEF StockInvariant, RowsOK, Request
  <1>3. Net(d, i) = NetOf(ledger[i], d) /\ Net(d, i)' = NetOf(ledger'[i], d)
    BY NetIsNetOf, NetAfterwards
  <1>4. NetOf(ledger[i], d) \in Int
    BY <1>2, NetOfTyped
  <1>5. CASE req[p].wrote[i] = None
    <2>1. req[p].op \in Moving => req[p].move[i] = 0
      BY <1>5 DEF SlipInvariant, MovesAreWhole, MoveIsWhole
    <2> QED
      BY <1>1, <1>3, <1>4, <1>5, <2>1
  <1>6. CASE req[p].wrote[i] # None
    <2> DEFINE row == req[p].wrote[i]
    <2>1. /\ row \in LedgerRow /\ req[p].op \in Moving
          /\ row.ref = req[p].doc /\ row.qtyIn - row.qtyOut = req[p].move[i]
      BY <1>2, <1>6 DEF SlipInvariant, MovesAreWhole, MoveIsWhole
    <2>2. ledger'[i] = Append(ledger[i], row)
      BY <1>1, <1>6
    <2> HIDE DEF row
    <2>3. NetOf(ledger'[i], d)
            = NetOf(ledger[i], d) + IF row.ref = d THEN row.qtyIn - row.qtyOut ELSE 0
      BY <1>2, <2>1, <2>2, NetOfAppend
    <2> QED
      BY <1>3, <2>1, <2>3
  <1> QED
    BY <1>5, <1>6

\* What a commit does to a slip.
LEMMA SlipAfterCommit ==
  ASSUME StockInvariant, SlipInvariant, NEW p \in Procs, Commit(p), Left(p) = {},
         NEW s \in Slips
  PROVE  /\ req[p].doc # s => slip'[s] = slip[s]
         /\ req[p].doc = s =>
              /\ req[p].op \in OnSlips
              /\ slip'[s].status # "absent"
              /\ \A i \in Items : Outstanding(s, i)' = Outstanding(s, i) - req[p].move[i]
              /\ req[p].op = "issue" =>
                   \A i \in Items : Outstanding(s, i) = 0 /\ 0 <= -req[p].move[i]
  <1>1. slip \in [Slips -> SlipRow] /\ req[p] \in Request
    BY DEF StockInvariant, RowsOK
  <1>2. req[p].op \in OnSlips <=> req[p].doc \in Slips
    BY DEF SlipInvariant, DocsInFlight
  <1>3. \/ req[p].op \in OnSlips /\ CommitSlip(p)
        \/ req[p].op \notin OnSlips /\ slip' = slip
    BY DEF Commit, CommitSlip, CommitPurchase, OnSlips
  <1>4. CASE req[p].doc # s
    BY <1>1, <1>3, <1>4 DEF CommitSlip
  <1>5. CASE req[p].doc = s
    <2> DEFINE move == req[p].move
               now == [i \in Items |-> slip[s].returned[i] + move[i]]
    <2>1. req[p].op \in OnSlips /\ CommitSlip(p)
      BY <1>2, <1>3, <1>5
    <2>2. /\ slip[s] \in SlipRow /\ move \in [Items -> Int]
          /\ slip[s].qty \in Quantities /\ slip[s].returned \in Quantities
      BY <1>1 DEF Request, SlipRow
    <2>3. CASE req[p].op = "issue"
      <3>1. slip'[s] = [NoSlip EXCEPT !.status = "ISSUED", !.qty = Minus(move)]
        BY <1>1, <1>5, <2>1, <2>3 DEF CommitSlip
      <3>2. slip[s] = NoSlip
        BY <1>5, <2>3 DEF SlipInvariant, DocsInFlight
      <3>3. /\ slip'[s].status = "ISSUED" /\ slip'[s].qty = Minus(move)
            /\ slip'[s].returned = Zero
            /\ slip[s].qty = Zero /\ slip[s].returned = Zero
        BY <3>1, <3>2 DEF NoSlip
      <3>4. Minus(move) \in Quantities
        BY <2>3 DEF StockInvariant, MovesFit
      <3>5. \A i \in Items : /\ Minus(move)[i] = -move[i] /\ Zero[i] = 0
                             /\ move[i] \in Int /\ -move[i] \in Nat
        BY <2>2, <3>4 DEF Minus, Zero, Quantities
      <3> HIDE DEF move
      <3>6. \A i \in Items : /\ Outstanding(s, i)' = -move[i]
                             /\ Outstanding(s, i) = 0 /\ 0 <= -move[i]
        BY <3>3, <3>5 DEF Outstanding
      <3>7. \A i \in Items : Outstanding(s, i)' = Outstanding(s, i) - move[i]
        BY <3>5, <3>6
      <3> QED
        BY <1>5, <2>1, <3>3, <3>6, <3>7 DEF move
    <2>4. CASE req[p].op = "return"
      <3>1. slip'[s] = [slip[s] EXCEPT !.status = req[p].status, !.returned = now]
        BY <1>1, <1>5, <2>1, <2>4 DEF CommitSlip
      <3>2. /\ slip'[s].status = req[p].status /\ slip'[s].qty = slip[s].qty
            /\ slip'[s].returned = now
        BY <2>2, <3>1 DEF SlipRow
      <3>3. req[p].status # "absent"
        BY <2>4 DEF SlipInvariant, CreditedUnderLock
      <3>4. \A i \in Items : /\ now[i] = slip[s].returned[i] + move[i]
                             /\ move[i] \in Int /\ slip[s].returned[i] \in Int
                             /\ slip[s].qty[i] \in Int
        BY <2>2 DEF Quantities
      <3> HIDE DEF move, now
      <3>5. \A i \in Items : Outstanding(s, i)' = Outstanding(s, i) - move[i]
        BY <3>2, <3>4 DEF Outstanding
      <3> QED
        BY <1>5, <2>1, <2>4, <3>2, <3>3, <3>5 DEF move
    <2> QED
      BY <2>1, <2>3, <2>4 DEF OnSlips
  <1> QED
    BY <1>4, <1>5

LEMMA CommitPreservesSlips ==
  ASSUME StockInvariant, Bookkeeping, SlipInvariant, NEW p \in Procs, Commit(p)
  PROVE  SlipInvariant'
  <1>1. req \in [Procs -> Request] /\ req' = [req EXCEPT ![p] = Idle]
    BY DEF Commit, Ends, StockInvariant, RowsOK
  <1>2. \A q \in Procs : req'[q] = IF q = p THEN Idle ELSE req[q]
    BY <1>1
  <1>3. \A q \in Procs : q # p => holds'[q] = holds[q]
    BY DEF Commit, Ends, StockInvariant, LocksExclude
  <1>4. \A q \in Procs : Left(q)' = IF q = p THEN {} ELSE Left(q)
    BY DEF Left, Commit, Ends, Bookkeeping, Range
  <1>5. Left(p) = {}
    BY DEF Left, Commit, Range
  <1>6. /\ Idle.op = "none" /\ Idle.doc = None /\ Idle.move = Zero
        /\ \A i \in Items : Idle.wrote[i] = None
    BY DEF Idle, Asked, NothingWritten
  <1> HIDE DEF Left
  <1>7. \A s \in Slips :
          /\ req[p].doc # s => slip'[s] = slip[s]
          /\ req[p].doc = s =>
               /\ req[p].op \in OnSlips
               /\ slip'[s].status # "absent"
               /\ \A i \in Items : Outstanding(s, i)' = Outstanding(s, i) - req[p].move[i]
               /\ req[p].op = "issue" =>
                    \A i \in Items : Outstanding(s, i) = 0 /\ 0 <= -req[p].move[i]
    BY <1>5, SlipAfterCommit
  <1>8. MovesAreWhole'
    <2> SUFFICES ASSUME NEW q \in Procs, NEW j \in Items PROVE MoveIsWhole(q, j)'
      BY DEF MovesAreWhole
    <2>1. CASE q = p
      BY <1>2, <1>4, <1>6, <2>1 DEF MoveIsWhole, Moving
    <2>2. CASE q # p
      <3>1. req'[q] = req[q] /\ Left(q)' = Left(q)
        BY <1>2, <1>4, <2>2
      <3> QED
        BY <3>1 DEF SlipInvariant, MovesAreWhole, MoveIsWhole
    <2> QED
      BY <2>1, <2>2
  <1>9. DocsInFlight'
    <2>1. None \notin Slips /\ None \notin Purchases
      BY StockAssumption
    <2>2. \A q \in Procs : req[q].op = "issue" => req[q].doc # None
      BY <2>1 DEF SlipInvariant, DocsInFlight, OnSlips
    <2>3. ASSUME NEW q \in Procs
          PROVE  /\ req'[q].op \in OnSlips <=> req'[q].doc \in Slips
                 /\ req'[q].op \in OnDeliveries <=> req'[q].doc \in Purchases
      BY <1>2, <1>6, <2>1 DEF SlipInvariant, DocsInFlight, OnSlips, OnDeliveries
    <2>4. ASSUME NEW q \in Procs, req'[q].op = "issue"
          PROVE  slip'[req'[q].doc] = NoSlip
      <3>1. q # p /\ req'[q] = req[q]
        BY <1>2, <1>6, <2>4
      <3>2. req[q].doc \in Slips /\ slip[req[q].doc] = NoSlip /\ req[p].doc # req[q].doc
        BY <2>4, <3>1 DEF SlipInvariant, DocsInFlight, OnSlips
      <3> QED
        BY <1>7, <3>1, <3>2
    <2>5. ASSUME NEW q \in Procs, req'[q].op = "return"
          PROVE  slip'[req'[q].doc].status # "absent"
      <3>1. q # p /\ req'[q] = req[q]
        BY <1>2, <1>6, <2>5
      <3>2. req[q].doc \in Slips /\ slip[req[q].doc].status # "absent"
        BY <2>5, <3>1 DEF SlipInvariant, DocsInFlight, OnSlips
      <3> QED
        BY <1>7, <3>1, <3>2
    <2>6. \A q, o \in Procs : q # o /\ req'[q].op = "issue" => req'[o].doc # req'[q].doc
      BY <1>2, <1>6, <2>2 DEF SlipInvariant, DocsInFlight
    <2>7. \A s \in Slips : slip'[s].status = "absent" => slip'[s] = NoSlip
      BY <1>7 DEF SlipInvariant, DocsInFlight
    <2> QED
      BY <2>3, <2>4, <2>5, <2>6, <2>7 DEF DocsInFlight
  <1>10. CreditedUnderLock'
    <2> SUFFICES ASSUME NEW q \in Procs, req'[q].op = "return"
                 PROVE  /\ \/ req'[q].status # "absent"
                           \/ [do |-> "reread", item |-> None] \in Left(q)'
                        /\ \A i \in Items : req'[q].move[i] # 0 =>
                             \/ [do |-> "credit", item |-> i] \in Left(q)'
                             \/ /\ Own(<<"line", req'[q].doc, i>>) \in holds'[q]
                                /\ req'[q].move[i] <= Outstanding(req[q].doc, i)'
      BY DEF CreditedUnderLock
    <2>1. q # p /\ req'[q] = req[q] /\ Left(q)' = Left(q) /\ holds'[q] = holds[q]
      BY <1>2, <1>3, <1>4, <1>6
    <2>2. PICK s \in Slips : req[q].doc = s
      BY <2>1 DEF SlipInvariant, DocsInFlight, OnSlips
    <2>3. ASSUME NEW i \in Items, req[q].move[i] # 0,
                 [do |-> "credit", item |-> i] \notin Left(q)
          PROVE  /\ Own(<<"line", s, i>>) \in holds[q]
                 /\ req[q].move[i] <= Outstanding(s, i)'
      <3>1. Own(<<"line", s, i>>) \in holds[q] /\ req[q].move[i] <= Outstanding(s, i)
        BY <2>1, <2>2, <2>3 DEF SlipInvariant, CreditedUnderLock
      <3>2. CASE req[p].doc # s
        BY <1>7, <2>2, <3>1, <3>2 DEF Outstanding
      <3>3. CASE req[p].doc = s
        <4>1. req[p].op = "return"
          <5>1. req[p].op \in OnSlips
            BY <1>7, <2>2, <3>3
          <5>2. req[p].op # "issue"
            BY <2>1, <2>2, <3>3 DEF SlipInvariant, DocsInFlight
          <5> QED
            BY <5>1, <5>2 DEF OnSlips
        <4>2. req[p].move[i] = 0
          <5>1. SUFFICES ASSUME req[p].move[i] # 0 PROVE FALSE
            OBVIOUS
          <5>2. Own(<<"line", s, i>>) \in holds[p]
            BY <1>5, <3>3, <4>1, <5>1 DEF SlipInvariant, CreditedUnderLock
          <5>3. Conflict(Own(<<"line", s, i>>), Own(<<"line", s, i>>))
            BY DEF Conflict, Own
          <5> QED
            BY <2>1, <3>1, <5>2, <5>3 DEF StockInvariant, LocksExclude
        <4>3. Outstanding(s, i)' = Outstanding(s, i) - 0
          BY <1>7, <2>2, <3>3, <4>2
        <4>4. Outstanding(s, i) \in Int
          BY <2>2 DEF StockInvariant, RowsOK, SlipRow, Quantities, Outstanding
        <4> QED
          BY <3>1, <4>3, <4>4
      <3> QED
        BY <3>2, <3>3
    <2> QED
      BY <2>1, <2>2, <2>3 DEF SlipInvariant, CreditedUnderLock, Outstanding
  <1>11. EntriesCover'
    <2>1. ASSUME NEW d \in Purchases, NEW i \in Items, purchase'[d].qty[i] # 0
          PROVE  i \in Range(purchase'[d].entry)
      <3>0. purchase \in [Purchases -> PurchaseRow] /\ purchase[d] \in PurchaseRow
        BY DEF StockInvariant, RowsOK
      <3>1. CASE purchase'[d].qty = purchase[d].qty /\ purchase'[d].entry = purchase[d].entry
        BY <2>1, <3>1 DEF SlipInvariant, EntriesCover
      <3>2. CASE req[p].doc = d /\ req[p].op = "draft" /\ CommitPurchase(p)
        <4>1. purchase'[d] = [NoPurchase EXCEPT !.status = "DRAFT", !.entry = req[p].entry,
                                                !.qty = req[p].move]
          BY <3>0, <3>2 DEF CommitPurchase
        <4>2. purchase'[d].entry = req[p].entry /\ purchase'[d].qty = req[p].move
          BY <4>1 DEF NoPurchase
        <4> QED
          BY <2>1, <3>2, <4>2 DEF SlipInvariant, EntriesCover
      <3>3. CASE req[p].doc = d /\ req[p].op = "update" /\ CommitPurchase(p)
        <4>1. purchase'[d] = [purchase[d] EXCEPT !.entry = req[p].entry, !.qty = req[p].move]
          BY <3>0, <3>3 DEF CommitPurchase
        <4>2. purchase'[d].entry = req[p].entry /\ purchase'[d].qty = req[p].move
          BY <3>0, <4>1 DEF PurchaseRow
        <4> QED
          BY <2>1, <3>3, <4>2 DEF SlipInvariant, EntriesCover
      <3>4. CASE req[p].doc = d /\ req[p].op \in {"remove", "receive", "cancel"} /\ CommitPurchase(p)
        <4>1. \/ purchase'[d] = [purchase[d] EXCEPT !.deleted = TRUE]
              \/ purchase'[d] = [purchase[d] EXCEPT !.status = "RECEIVED"]
              \/ purchase'[d] = [purchase[d] EXCEPT !.status = "CANCELLED"]
          BY <3>0, <3>4 DEF CommitPurchase
        <4>2. purchase'[d].qty = purchase[d].qty /\ purchase'[d].entry = purchase[d].entry
          BY <3>0, <4>1 DEF PurchaseRow
        <4> QED
          BY <3>1, <4>2
      <3>5. CASE req[p].doc # d /\ CommitPurchase(p)
        <4>1. purchase'[d] = purchase[d]
          BY <3>0, <3>5 DEF CommitPurchase
        <4> QED
          BY <3>1, <4>1
      <3>6. CASE purchase' = purchase
        BY <3>1, <3>6
      <3>7. CommitPurchase(p) => req[p].op \in {"draft", "update", "remove", "receive", "cancel"}
        BY DEF CommitPurchase
      <3>8. CommitPurchase(p) \/ purchase' = purchase
        BY DEF Commit, CommitSlip
      <3> QED
        BY <3>2, <3>3, <3>4, <3>5, <3>6, <3>7, <3>8
    <2>2. \A q \in Procs, i \in Items :
            req'[q].op \in {"draft", "update"} /\ req'[q].move[i] # 0
              => i \in Range(req'[q].entry)
      BY <1>2, <1>6 DEF SlipInvariant, EntriesCover
    <2> QED
      BY <2>1, <2>2 DEF EntriesCover
  <1>12. SlipsAgreeWithLedger'
    <2> SUFFICES ASSUME NEW s \in Slips, NEW i \in Items
                 PROVE  Outstanding(s, i)' >= 0 /\ Net(s, i)' = -(Outstanding(s, i)')
      BY DEF SlipsAgreeWithLedger
    <2>1. Outstanding(s, i) >= 0 /\ Net(s, i) = -Outstanding(s, i)
      BY DEF SlipInvariant, SlipsAgreeWithLedger
    <2>2. Outstanding(s, i) \in Int /\ req[p].move[i] \in Int
      BY DEF StockInvariant, RowsOK, SlipRow, Quantities, Outstanding, Request
    <2>3. Net(s, i)' = Net(s, i) + IF req[p].op \in Moving /\ req[p].doc = s
                                   THEN req[p].move[i] ELSE 0
      BY <1>5, NetAfterCommit
    <2>4. CASE req[p].doc # s
      <3>1. Outstanding(s, i)' = Outstanding(s, i)
        BY <1>7, <2>4 DEF Outstanding
      <3> QED
        BY <2>1, <2>2, <2>3, <2>4, <3>1
    <2>5. CASE req[p].doc = s
      <3>1. req[p].op \in OnSlips /\ Outstanding(s, i)' = Outstanding(s, i) - req[p].move[i]
        BY <1>7, <2>5
      <3>2. req[p].op \in Moving
        BY <3>1 DEF OnSlips, Moving
      <3>3. req[p].move[i] <= Outstanding(s, i)
        <4>1. CASE req[p].op = "issue"
          BY <1>7, <2>2, <2>5, <4>1
        <4>2. CASE req[p].op = "return"
          BY <1>5, <2>1, <2>2, <2>5, <4>2 DEF SlipInvariant, CreditedUnderLock
        <4> QED
          BY <3>1, <4>1, <4>2 DEF OnSlips
      <3> QED
        BY <2>1, <2>2, <2>3, <2>5, <3>1, <3>2, <3>3
    <2> QED
      BY <2>4, <2>5
  <1> QED
    BY <1>8, <1>9, <1>10, <1>11, <1>12 DEF SlipInvariant

-----------------------------------------------------------------------------
(* Requests that begin: their statements cover what they are to move. *)

MoveStep(i) == [do |-> "move", item |-> i]
CreditStep(i) == [do |-> "credit", item |-> i]
RereadStep == [do |-> "reread", item |-> None]

\* The statements a list is laid out in, by what there is one of for each item.
LEMMA StepsOfList ==
  ASSUME NEW entry \in Lists \cup {<<>>}
  PROVE  /\ \A i \in Range(entry) : /\ MoveStep(i) \in Range(Do("move", entry))
                                    /\ CreditStep(i) \in Range(Do("credit", entry))
                                    /\ MoveStep(i) \in Range(Do("move", Sorted(entry)))
         /\ \A i : MoveStep(i) \notin Range(Do("share", entry))
         /\ \A i, what : what # "move" => MoveStep(i) \notin Range(Once(what))
         /\ RereadStep \in Range(Once("reread"))
  <1>1. Range(Sorted(entry)) = Range(entry)
    BY SortedHasAll
  <1>2. \A i \in Range(entry) : /\ MoveStep(i) \in Range(Do("move", entry))
                                /\ CreditStep(i) \in Range(Do("credit", entry))
                                /\ MoveStep(i) \in Range(Do("move", Sorted(entry)))
    BY <1>1, RangeOfDo DEF MoveStep, CreditStep
  <1>3. \A i : MoveStep(i) \notin Range(Do("share", entry))
    <2>1. \A x \in Range(Do("share", entry)) : x.do = "share"
      BY RangeOfDo
    <2> QED
      BY <2>1 DEF MoveStep
  <1>4. \A i, what : what # "move" => MoveStep(i) \notin Range(Once(what))
    <2>1. \A what : \A x \in Range(Once(what)) : x.do = what
      BY RangeOfOnce
    <2> QED
      BY <2>1 DEF MoveStep
  <1>5. RereadStep \in Range(Once("reread"))
    BY RangeOfOnce DEF RereadStep
  <1> QED
    BY <1>2, <1>3, <1>4, <1>5

LEMMA EntryHasQuantities ==
  ASSUME NEW entry \in Entries, NEW q \in QuantitiesOf(entry)
  PROVE  /\ entry \in Lists \cup {<<>>} /\ q \in [Items -> Int] /\ Minus(q) \in [Items -> Int]
         /\ \A i \in Items : q[i] # 0 => i \in Range(entry)
         /\ \A i \in Items : Minus(q)[i] # 0 => i \in Range(entry)
  <1>1. entry \in Lists /\ q \in Quantities /\ q \in [Items -> Int]
    BY EntryTyped
  <1>2. \A i \in Items : q[i] \in Nat /\ (q[i] > 0 <=> i \in Range(entry))
    BY <1>1 DEF QuantitiesOf, Quantities
  <1>3. \A i \in Items : Minus(q)[i] = -q[i]
    BY DEF Minus
  <1> QED
    BY <1>1, <1>2, <1>3, MinusTyped

LEMMA DeliveryBeginsPreserveSlips ==
  ASSUME StockInvariant, Bookkeeping, SlipInvariant, NEW p \in Procs,
         \/ DraftPurchase(p) \/ UpdatePurchase(p) \/ RemovePurchase(p)
         \/ ReceivePurchase(p) \/ CancelPurchase(p)
  PROVE  SlipInvariant'
  <1> USE DEF MoveStep, OnSlips, OnDeliveries, Moving, OpNames
  <1>0. \A d \in Purchases : d \notin Slips /\ d \in Documents \cup {None}
    BY StockAssumption DEF Documents
  <1>1. CASE DraftPurchase(p)
    <2>1. PICK d \in Purchases, entry \in Entries : \E qty \in QuantitiesOf(entry) :
            Asks(p, "draft", d, entry, qty, Once("number") \o Do("share", entry))
      BY <1>1 DEF DraftPurchase, New
    <2>2. PICK qty \in QuantitiesOf(entry) :
            Asks(p, "draft", d, entry, qty, Once("number") \o Do("share", entry))
      BY <2>1
    <2> DEFINE st == Once("number") \o Do("share", entry)
    <2>3. /\ entry \in Lists \cup {<<>>} /\ qty \in [Items -> Int]
          /\ \A i \in Items : qty[i] # 0 => i \in Range(entry)
      BY EntryHasQuantities
    <2>4. Range(st) = Range(Once("number")) \cup Range(Do("share", entry))
      BY <2>3, StatementsTyped, RangeOfConcat
    <2>5. \A i \in Items : MoveStep(i) \notin Range(st)
      BY <2>3, <2>4, StepsOfList
    <2> HIDE DEF st
    <2>6. Asks(p, "draft", d, entry, qty, st)
      BY <2>2 DEF st
    <2> QED
      BY <1>0, <2>3, <2>5, <2>6, AsksPreservesSlips
  <1>2. CASE UpdatePurchase(p)
    <2>1. PICK d \in Purchases, entry \in Entries : \E qty \in QuantitiesOf(entry) :
            Asks(p, "update", d, entry, qty, Once("stamp") \o Do("share", entry))
      BY <1>2 DEF UpdatePurchase, Drafts
    <2>2. PICK qty \in QuantitiesOf(entry) :
            Asks(p, "update", d, entry, qty, Once("stamp") \o Do("share", entry))
      BY <2>1
    <2> DEFINE st == Once("stamp") \o Do("share", entry)
    <2>3. /\ entry \in Lists \cup {<<>>} /\ qty \in [Items -> Int]
          /\ \A i \in Items : qty[i] # 0 => i \in Range(entry)
      BY EntryHasQuantities
    <2>4. Range(st) = Range(Once("stamp")) \cup Range(Do("share", entry))
      BY <2>3, StatementsTyped, RangeOfConcat
    <2>5. \A i \in Items : MoveStep(i) \notin Range(st)
      BY <2>3, <2>4, StepsOfList
    <2> HIDE DEF st
    <2>6. Asks(p, "update", d, entry, qty, st)
      BY <2>2 DEF st
    <2> QED
      BY <1>0, <2>3, <2>5, <2>6, AsksPreservesSlips
  <1>3. CASE RemovePurchase(p)
    <2>1. PICK d \in Purchases : Asks(p, "remove", d, <<>>, Zero, Once("stamp"))
      BY <1>3 DEF RemovePurchase, Drafts
    <2>2. \A i \in Items : MoveStep(i) \notin Range(Once("stamp"))
      BY StepsOfList
    <2>3. <<>> \in Lists \cup {<<>>}
      OBVIOUS
    <2> QED
      BY <1>0, <2>1, <2>2, <2>3, ZeroTyped, AsksPreservesSlips
  <1>4. CASE ReceivePurchase(p)
    <2>1. PICK d \in Purchases :
            Asks(p, "receive", d, purchase[d].entry, purchase[d].qty,
                 Do("move", purchase[d].entry) \o Once("stamp"))
      BY <1>4 DEF ReceivePurchase, Receivable, Drafts
    <2>2. PICK entry \in Lists \cup {<<>>}, qty \in [Items -> Int] :
            entry = purchase[d].entry /\ qty = purchase[d].qty
      BY PurchaseTyped
    <2> DEFINE st == Do("move", entry) \o Once("stamp")
    <2>3. Range(st) = Range(Do("move", entry)) \cup Range(Once("stamp"))
      BY StatementsTyped, RangeOfConcat
    <2>4. \A i \in Items : qty[i] # 0 => MoveStep(i) \in Range(st)
      BY <2>2, <2>3, StepsOfList DEF SlipInvariant, EntriesCover
    <2> HIDE DEF st
    <2>5. Asks(p, "receive", d, entry, qty, st)
      BY <2>1, <2>2 DEF st
    <2> QED
      BY <1>0, <2>4, <2>5, AsksPreservesSlips
  <1>5. CASE CancelPurchase(p)
    <2>1. PICK d \in Purchases :
            \/ Asks(p, "cancel", d, <<>>, Zero, Once("stamp"))
            \/ Asks(p, "cancel", d, purchase[d].entry, Minus(purchase[d].qty),
                    Do("move", Sorted(purchase[d].entry)) \o Once("stamp"))
      BY <1>5 DEF CancelPurchase
    <2>2. CASE Asks(p, "cancel", d, <<>>, Zero, Once("stamp"))
      <3>1. \A i \in Items : Zero[i] = 0
        BY DEF Zero
      <3>2. <<>> \in Lists \cup {<<>>}
        OBVIOUS
      <3> QED
        BY <1>0, <2>2, <3>1, <3>2, ZeroTyped, AsksPreservesSlips
    <2>3. CASE Asks(p, "cancel", d, purchase[d].entry, Minus(purchase[d].qty),
                    Do("move", Sorted(purchase[d].entry)) \o Once("stamp"))
      <3>1. PICK entry \in Lists \cup {<<>>}, qty \in [Items -> Int] :
              entry = purchase[d].entry /\ qty = Minus(purchase[d].qty)
        BY PurchaseTyped, MinusTyped
      <3> DEFINE st == Do("move", Sorted(entry)) \o Once("stamp")
      <3>2. Range(st) = Range(Do("move", Sorted(entry))) \cup Range(Once("stamp"))
        BY StatementsTyped, RangeOfConcat
      <3>3. \A i \in Items : qty[i] # 0 => i \in Range(entry)
        <4>1. \A i \in Items : purchase[d].qty[i] \in Int /\ qty[i] = -purchase[d].qty[i]
          BY <3>1, PurchaseTyped DEF Minus
        <4> QED
          BY <3>1, <4>1 DEF SlipInvariant, EntriesCover
      <3>4. \A i \in Items : qty[i] # 0 => MoveStep(i) \in Range(st)
        BY <3>2, <3>3, StepsOfList
      <3> HIDE DEF st
      <3>5. Asks(p, "cancel", d, entry, qty, st)
        BY <2>3, <3>1 DEF st
      <3> QED
        BY <1>0, <3>4, <3>5, AsksPreservesSlips
    <2> QED
      BY <2>1, <2>2, <2>3
  <1> QED
    BY <1>1, <1>2, <1>3, <1>4, <1>5

LEMMA DeskBeginsPreserveSlips ==
  ASSUME StockInvariant, Bookkeeping, SlipInvariant, NEW p \in Procs,
         Issue(p) \/ Return(p) \/ Adjust(p)
  PROVE  SlipInvariant'
  <1> USE DEF MoveStep, CreditStep, RereadStep, OnSlips, OnDeliveries, Moving, OpNames
  <1>0. \A s \in Slips : s \notin Purchases /\ s \in Documents \cup {None}
    BY StockAssumption DEF Documents
  <1>1. CASE Issue(p)
    <2>1. PICK s \in New({t \in Slips : slip[t].status = "absent"}), entry \in Entries :
            \E qty \in QuantitiesOf(entry) :
              Asks(p, "issue", s, entry, Minus(qty),
                   Once("number") \o Do("share", entry) \o Do("move", Sorted(entry)))
      BY <1>1 DEF Issue
    <2>2. PICK qty \in QuantitiesOf(entry) :
            Asks(p, "issue", s, entry, Minus(qty),
                 Once("number") \o Do("share", entry) \o Do("move", Sorted(entry)))
      BY <2>1
    <2> DEFINE st == Once("number") \o Do("share", entry) \o Do("move", Sorted(entry))
               move == Minus(qty)
    <2>3. /\ entry \in Lists \cup {<<>>} /\ move \in [Items -> Int]
          /\ \A i \in Items : move[i] # 0 => i \in Range(entry)
      BY EntryHasQuantities
    <2>4. /\ Once("number") \in Seq(Step) /\ Do("share", entry) \in Seq(Step)
          /\ Do("move", Sorted(entry)) \in Seq(Step)
      BY <2>3, StatementsTyped
    <2>5. Once("number") \o Do("share", entry) \in Seq(Step)
      BY <2>4
    <2>6. Range(Do("move", Sorted(entry))) \subseteq Range(st)
      BY <2>4, <2>5, RangeOfConcat
    <2>7. \A i \in Items : move[i] # 0 => MoveStep(i) \in Range(st)
      BY <2>3, <2>6, StepsOfList
    <2>8. s \in Slips /\ slip[s].status = "absent" /\ \A q \in Procs : req[q].doc # s
      BY DEF New
    <2>9. slip[s] = NoSlip
      BY <2>8 DEF SlipInvariant, DocsInFlight
    <2> HIDE DEF st, move
    <2>10. Asks(p, "issue", s, entry, move, st)
      BY <2>2 DEF st, move
    <2> QED
      BY <1>0, <2>3, <2>7, <2>8, <2>9, <2>10, AsksPreservesSlips
  <1>2. CASE Return(p)
    <2>1. PICK s \in Slips, entry \in Entries : \E qty \in QuantitiesOf(entry) :
            /\ slip[s].status \in {"ISSUED", "PARTIAL_RETURN"}
            /\ Asks(p, "return", s, entry, qty,
                    Do("credit", entry) \o Do("move", Sorted(entry))
                      \o Once("reread") \o Once("stamp"))
      BY <1>2 DEF Return
    <2>2. PICK qty \in QuantitiesOf(entry) :
            /\ slip[s].status \in {"ISSUED", "PARTIAL_RETURN"}
            /\ Asks(p, "return", s, entry, qty,
                    Do("credit", entry) \o Do("move", Sorted(entry))
                      \o Once("reread") \o Once("stamp"))
      BY <2>1
    <2> DEFINE lines == Do("credit", entry) \o Do("move", Sorted(entry))
               st == lines \o Once("reread") \o Once("stamp")
    <2>3. /\ entry \in Lists \cup {<<>>} /\ qty \in [Items -> Int]
          /\ \A i \in Items : qty[i] # 0 => i \in Range(entry)
      BY EntryHasQuantities
    <2>4. /\ Do("credit", entry) \in Seq(Step) /\ Do("move", Sorted(entry)) \in Seq(Step)
          /\ Once("reread") \in Seq(Step) /\ Once("stamp") \in Seq(Step)
      BY <2>3, StatementsTyped
    <2>5. /\ lines \in Seq(Step)
          /\ Range(lines) = Range(Do("credit", entry)) \cup Range(Do("move", Sorted(entry)))
      BY <2>4, RangeOfConcat
    <2>6. Range(st) = Range(lines) \cup Range(Once("reread")) \cup Range(Once("stamp"))
      <3> HIDE DEF lines
      <3>1. /\ lines \o Once("reread") \in Seq(Step)
            /\ Range(lines \o Once("reread")) = Range(lines) \cup Range(Once("reread"))
        BY <2>4, <2>5, RangeOfConcat
      <3> QED
        BY <2>4, <3>1, RangeOfConcat
    <2>7. /\ \A i \in Items : qty[i] # 0 => MoveStep(i) \in Range(st) /\ CreditStep(i) \in Range(st)
          /\ RereadStep \in Range(st)
      <3>1. /\ \A i \in Range(entry) : /\ CreditStep(i) \in Range(Do("credit", entry))
                                       /\ MoveStep(i) \in Range(Do("move", Sorted(entry)))
            /\ RereadStep \in Range(Once("reread"))
        BY <2>3, StepsOfList
      <3> HIDE DEF st, lines, MoveStep, CreditStep, RereadStep
      <3> QED
        BY <2>3, <2>5, <2>6, <3>1
    <2> HIDE DEF st, lines
    <2>8. Asks(p, "return", s, entry, qty, st) /\ slip[s].status # "absent"
      BY <2>2 DEF st, lines
    <2> QED
      BY <1>0, <2>3, <2>7, <2>8, AsksPreservesSlips
  <1>3. CASE Adjust(p)
    <2> DEFINE gap(entry, counted) ==
          [i \in Items |-> IF i \in Range(entry) THEN counted[i] - Balance(i) ELSE 0]
    <2>1. PICK entry \in Entries : \E counted \in [Range(entry) -> 0..MaxQty] :
            Asks(p, "adjust", None, entry, gap(entry, counted), Do("move", Sorted(entry)))
      BY <1>3 DEF Adjust
    <2>2. PICK counted \in [Range(entry) -> 0..MaxQty] :
            Asks(p, "adjust", None, entry, gap(entry, counted), Do("move", Sorted(entry)))
      BY <2>1
    <2>3. \A i \in Items : Balance(i) \in Nat
      BY BalanceTyped DEF StockInvariant
    <2>4. PICK move \in [Items -> Int] :
            /\ move = gap(entry, counted)
            /\ \A i \in Items : move[i] # 0 => i \in Range(entry)
      <3>1. \A i \in Items : i \in Range(entry) => counted[i] \in Int
        BY StockAssumption
      <3>2. gap(entry, counted) \in [Items -> Int]
        BY <2>3, <3>1
      <3>3. \A i \in Items : gap(entry, counted)[i] # 0 => i \in Range(entry)
        OBVIOUS
      <3> HIDE DEF gap
      <3> QED
        BY <3>2, <3>3
    <2>5. entry \in Lists \cup {<<>>}
      BY DEF Entries
    <2>6. \A i \in Items : move[i] # 0 => MoveStep(i) \in Range(Do("move", Sorted(entry)))
      BY <2>4, <2>5, StepsOfList
    <2>7. None \notin Slips /\ None \notin Purchases
      BY StockAssumption
    <2> HIDE DEF gap
    <2> DEFINE st == Do("move", Sorted(entry))
    <2> HIDE DEF st
    <2>8. Asks(p, "adjust", None, entry, move, st)
      BY <2>2, <2>4 DEF st
    <2>9. \A i \in Items : move[i] # 0 => [do |-> "move", item |-> i] \in Range(st)
      BY <2>6 DEF st
    <2> QED
      BY <2>5, <2>7, <2>8, <2>9, AsksPreservesSlips
  <1> QED
    BY <1>1, <1>2, <1>3

-----------------------------------------------------------------------------
LEMMA ContinuePreservesSlips ==
  ASSUME StockInvariant, Bookkeeping, SlipInvariant, NEW p \in Procs, Continue(p)
  PROVE  SlipInvariant'
  <1>0. req \in [Procs -> Request]
    BY DEF StockInvariant, RowsOK
  <1>1. CASE TakeNumber(p) \/ CheckForeignKey(p) \/ Stamp(p)
    <2>1. PICK what \in {"number", "share", "stamp"}, i \in Items \cup {None} :
            Runs(p, what, i) /\ req' = req
      BY <1>1 DEF TakeNumber, CheckForeignKey, Stamp
    <2> QED
      BY <1>0, <2>1, RunsPreservesSlips
  <1>2. CASE CreditLine(p)
    <2>1. PICK i \in Items : \/ Runs(p, "credit", i) /\ CreditAllowed(p, i) /\ req' = req
                             \/ RollsBack(p)
      BY <1>2 DEF CreditLine
    <2>2. CASE RollsBack(p)
      BY <2>2, EndsPreservesSlips DEF RollsBack
    <2>3. CASE Runs(p, "credit", i) /\ CreditAllowed(p, i) /\ req' = req
      <3>1. req[p].move[i] <= Outstanding(req[p].doc, i)
        BY <2>3 DEF CreditAllowed
      <3> QED
        BY <1>0, <2>3, <3>1, RunsPreservesSlips
    <2> QED
      BY <2>1, <2>2, <2>3
  <1>3. CASE Move(p)
    <2>1. PICK i \in Items : \/ /\ Runs(p, "move", i)
                                /\ MovementAllowed(Balance(i), req[p].move[i])
                                /\ req' = [req EXCEPT ![p].wrote[i] = RowFor(p, i)]
                             \/ RollsBack(p)
      BY <1>3 DEF Move
    <2>2. CASE RollsBack(p)
      BY <2>2, EndsPreservesSlips DEF RollsBack
    <2>3. CASE /\ Runs(p, "move", i)
               /\ MovementAllowed(Balance(i), req[p].move[i])
               /\ req' = [req EXCEPT ![p].wrote[i] = RowFor(p, i)]
      <3> DEFINE row == RowFor(p, i)
                 one == [req[p] EXCEPT !.wrote = [req[p].wrote EXCEPT ![i] = row]]
      <3>1. row \in LedgerRow /\ row # None
        BY <2>3, RowForTyped, NoneIsNoRow DEF StockInvariant
      <3>2. req[p] \in Request /\ req[p].move[i] \in Int
        BY <1>0 DEF Request
      <3>3. row.ref = req[p].doc /\ row.qtyIn - row.qtyOut = req[p].move[i]
        BY <3>2 DEF RowFor
      <3>4. req' = [req EXCEPT ![p] = one]
        BY <1>0, <2>3, <3>2 DEF Request
      <3> HIDE DEF row
      <3>5. [req[p].wrote EXCEPT ![i] = row] \in [Items -> LedgerRow \cup {None}]
        BY <3>1, <3>2 DEF Request
      <3>6. /\ one \in Request
            /\ one.op = req[p].op /\ one.doc = req[p].doc /\ one.entry = req[p].entry
            /\ one.move = req[p].move /\ one.status = req[p].status
            /\ \A j \in Items : one.wrote[j] = IF j = i THEN row ELSE req[p].wrote[j]
        BY <3>2, <3>5 DEF Request
      <3> HIDE DEF one
      <3>7. req' \in [Procs -> Request] /\ \A q \in Procs : q # p => req'[q] = req[q]
        BY <1>0, <3>4, <3>6
      <3>8. req'[p] = one
        BY <1>0, <3>4
      <3>9. \A j \in Items :
              \/ req'[p].wrote[j] = req[p].wrote[j]
              \/ /\ j = i
                 /\ req'[p].wrote[j].ref = req[p].doc
                 /\ req'[p].wrote[j].qtyIn - req'[p].wrote[j].qtyOut = req[p].move[j]
        BY <3>3, <3>6, <3>8
      <3>10. /\ req'[p].op = req[p].op /\ req'[p].doc = req[p].doc
             /\ req'[p].entry = req[p].entry /\ req'[p].move = req[p].move
             /\ req'[p].status = req[p].status /\ req'[p].wrote[i] # None
        BY <3>1, <3>6, <3>8
      <3> QED
        BY <2>3, <3>7, <3>9, <3>10, RunsPreservesSlips
    <2> QED
      BY <2>1, <2>2, <2>3
  <1>4. CASE Reread(p)
    <2>1. PICK status \in SlipStatus \ {"absent"} : req' = [req EXCEPT ![p].status = status]
      BY <1>4 DEF Reread, DeriveStatus, SlipStatus
    <2> DEFINE one == [req[p] EXCEPT !.status = status]
    <2>2. req[p] \in Request /\ req' = [req EXCEPT ![p] = one]
      BY <1>0, <2>1
    <2>3. /\ one \in Request
          /\ one.op = req[p].op /\ one.doc = req[p].doc /\ one.entry = req[p].entry
          /\ one.move = req[p].move /\ one.wrote = req[p].wrote /\ one.status # "absent"
      BY <2>2 DEF Request
    <2> HIDE DEF one
    <2>4. /\ req' \in [Procs -> Request] /\ \A q \in Procs : q # p => req'[q] = req[q]
          /\ req'[p] = one
      BY <1>0, <2>2, <2>3
    <2>5. Runs(p, "reread", None)
      BY <1>4 DEF Reread
    <2> QED
      BY <2>3, <2>4, <2>5, RunsPreservesSlips
  <1>5. CASE Commit(p)
    BY <1>5, CommitPreservesSlips
  <1> QED
    BY <1>1, <1>2, <1>3, <1>4, <1>5 DEF Continue

LEMMA InitSlips == Init => SlipInvariant
  <1> SUFFICES ASSUME Init PROVE SlipInvariant
    OBVIOUS
  <1>1. /\ Idle.op = "none" /\ Idle.doc = None /\ Idle.move = Zero
        /\ \A i \in Items : Idle.wrote[i] = None
    BY DEF Idle, Asked, NothingWritten
  <1>2. \A p \in Procs : req[p] = Idle /\ Left(p) = {}
    BY DEF Init, Left, Range
  <1>3. None \notin Slips /\ None \notin Purchases
    BY StockAssumption
  <1>4. MovesAreWhole
    BY <1>1, <1>2 DEF MovesAreWhole, MoveIsWhole, Moving
  <1>5. DocsInFlight
    BY <1>1, <1>2, <1>3 DEF DocsInFlight, OnSlips, OnDeliveries, Init
  <1>6. CreditedUnderLock
    BY <1>1, <1>2 DEF CreditedUnderLock
  <1>7. EntriesCover
    <2>1. \A d \in Purchases, i \in Items : purchase[d].qty[i] = 0
      BY DEF Init, NoPurchase, Zero
    <2> QED
      BY <1>1, <1>2, <2>1 DEF EntriesCover
  <1>8. SlipsAgreeWithLedger
    <2> SUFFICES ASSUME NEW s \in Slips, NEW i \in Items
                 PROVE  Outstanding(s, i) >= 0 /\ Net(s, i) = -Outstanding(s, i)
      BY DEF SlipsAgreeWithLedger
    <2>1. Outstanding(s, i) = 0
      BY DEF Init, NoSlip, Zero, Outstanding
    <2>2. Net(s, i) = 0
      BY NetIsNetOf, NetOfNothing DEF Init
    <2> HIDE DEF Outstanding, Net
    <2>3. Outstanding(s, i) \in Int /\ Net(s, i) \in Int /\ Net(s, i) + Outstanding(s, i) = 0
      BY <2>1, <2>2
    <2>4. \A m, n \in Int : n + m = 0 => n = -m
      OBVIOUS
    <2>5. Net(s, i) = -Outstanding(s, i)
      BY <2>3, <2>4, Zenon
    <2> QED
      BY <2>1, <2>5
  <1> QED
    BY <1>4, <1>5, <1>6, <1>7, <1>8 DEF SlipInvariant

\* The three invariants together, each of which the next rests on.
LEMMA SlipInvariantHolds == Spec => [](StockInvariant /\ Bookkeeping /\ SlipInvariant)
  <1>1. Init => Bookkeeping
    BY StockAssumption DEF Init, Bookkeeping
  <1>2. ASSUME StockInvariant, Bookkeeping, [Next]_vars PROVE Bookkeeping'
    BY <1>2, NextKeepsBooks
  <1>3. ASSUME StockInvariant, Bookkeeping, SlipInvariant, [Next]_vars PROVE SlipInvariant'
    <2>1. CASE Next
      <3>1. PICK p \in Procs : Begin(p) \/ Continue(p) \/ Fail(p)
        BY <2>1 DEF Next
      <3>2. CASE Begin(p)
        BY <1>3, <3>2, DeliveryBeginsPreserveSlips, DeskBeginsPreserveSlips DEF Begin
      <3>3. CASE Continue(p)
        BY <1>3, <3>3, ContinuePreservesSlips
      <3>4. CASE Fail(p)
        BY <1>3, <3>4, EndsPreservesSlips DEF Fail
      <3> QED
        BY <3>1, <3>2, <3>3, <3>4
    <2>2. CASE UNCHANGED vars
      <3>1. UNCHANGED <<ledger, slip, purchase, req, todo, holds>>
        BY <2>2 DEF vars, tables
      <3>2. \A p : Left(p)' = Left(p)
        BY <3>1 DEF Left
      <3>3. SlipsAgreeWithLedger'
        BY <1>3, <3>1, SlipsStayInAgreement DEF SlipInvariant
      <3>4. \A s, i : Outstanding(s, i)' = Outstanding(s, i)
        BY <3>1 DEF Outstanding
      <3> HIDE DEF Left, Outstanding
      <3>5. MovesAreWhole'
        BY <1>3, <3>1, <3>2 DEF SlipInvariant, MovesAreWhole, MoveIsWhole
      <3>6. DocsInFlight' /\ EntriesCover'
        BY <1>3, <3>1 DEF SlipInvariant, DocsInFlight, EntriesCover
      <3>7. CreditedUnderLock'
        BY <1>3, <3>1, <3>2 DEF SlipInvariant, CreditedUnderLock, Outstanding
      <3> QED
        BY <3>3, <3>5, <3>6, <3>7 DEF SlipInvariant
    <2> QED
      BY <1>3, <2>1, <2>2
  <1> QED
    BY StockInvariantHolds, InitSlips, <1>1, <1>2, <1>3, PTL DEF Spec

\* Whoever issues and returns at once, what a slip says is still out is what the
\* ledger says went out for it and has not come back, and no return gives back
\* what was not issued: the rows of processReturn agree with those of recordMany.
THEOREM SlipsMatchTheLedger == Spec => []SlipsAgreeWithLedger
  <1>1. SlipInvariant => SlipsAgreeWithLedger
    BY DEF SlipInvariant
  <1> QED
    BY SlipInvariantHolds, <1>1, PTL

-----------------------------------------------------------------------------
(* Deliveries against the ledger, while one clerk at a time looks after    *)
(* deliveries: purchases.service.ts checks a status before the transaction *)
(* and writes it by id alone, so this is what it takes.                    *)

OneKeeper ==
  \A p, q \in Procs : p # q => Ops[p] \cap OnDeliveries = {} \/ Ops[q] \cap OnDeliveries = {}

\* What the keeper read of the delivery is still so.
SeenIsSo(p) ==
  LET d == purchase[req[p].doc]
  IN  /\ req[p].op = "draft" => d.status = "absent"
      /\ req[p].op \in {"update", "remove", "receive"} => d.status = "DRAFT"
      /\ req[p].op = "receive" => req[p].move = d.qty
      /\ req[p].op = "cancel" =>
           \/ d.status = "DRAFT" /\ req[p].move = Zero
           \/ d.status = "RECEIVED" /\ req[p].move = Minus(d.qty)

KeeperInvariant ==
  /\ \A p \in Procs : req[p].op = "none" \/ req[p].op \in Ops[p]
  /\ \A p \in Procs : req[p].op \in OnDeliveries => SeenIsSo(p)
  /\ DeliveredOnce

LEMMA DeliveriesStayAsLedger ==
  ASSUME DeliveredOnce, ledger' = ledger, purchase' = purchase
  PROVE  DeliveredOnce'
  <1>1. \A d, i : Net(d, i)' = Net(d, i)
    BY NetAfterwards, NetIsNetOf
  <1> QED
    BY <1>1 DEF DeliveredOnce

LEMMA AsksPreservesKeeper ==
  ASSUME StockInvariant, KeeperInvariant, NEW p \in Procs, NEW op \in OpNames,
         NEW doc, NEW entry, NEW move, NEW statements, Begins(p, op),
         Asks(p, op, doc, entry, move, statements),
         op = "draft" => purchase[doc].status = "absent",
         op \in {"update", "remove", "receive"} => purchase[doc].status = "DRAFT",
         op = "receive" => move = purchase[doc].qty,
         op = "cancel" =>
           \/ purchase[doc].status = "DRAFT" /\ move = Zero
           \/ purchase[doc].status = "RECEIVED" /\ move = Minus(purchase[doc].qty)
  PROVE  KeeperInvariant'
  <1> DEFINE r == Asked(op, doc, entry, move)
  <1>1. r.op = op /\ r.doc = doc /\ r.move = move
    BY DEF Asked
  <1>2. req \in [Procs -> Request] /\ req' = [req EXCEPT ![p] = r]
    BY DEF StockInvariant, RowsOK, Asks
  <1>3. ledger' = ledger /\ purchase' = purchase
    BY DEF Asks, tables
  <1> HIDE DEF r
  <1>4. \A q \in Procs : req'[q] = IF q = p THEN r ELSE req[q]
    BY <1>2
  <1>5. \A q \in Procs : req'[q].op = "none" \/ req'[q].op \in Ops[q]
    BY <1>1, <1>4 DEF KeeperInvariant, Begins
  <1>6. ASSUME NEW q \in Procs, req'[q].op \in OnDeliveries PROVE SeenIsSo(q)'
    <2>1. CASE q = p
      BY <1>1, <1>3, <1>4, <2>1 DEF SeenIsSo
    <2>2. CASE q # p
      BY <1>3, <1>4, <1>6, <2>2 DEF KeeperInvariant, SeenIsSo
    <2> QED
      BY <2>1, <2>2
  <1>7. DeliveredOnce'
    BY <1>3, DeliveriesStayAsLedger DEF KeeperInvariant
  <1> QED
    BY <1>5, <1>6, <1>7 DEF KeeperInvariant

LEMMA BeginPreservesKeeper ==
  ASSUME StockInvariant, KeeperInvariant, NEW p \in Procs, Begin(p)
  PROVE  KeeperInvariant'
  <1> USE DEF OpNames
  <1>1. CASE DraftPurchase(p)
    <2>1. PICK d \in New({e \in Purchases : purchase[e].status = "absent"}), entry \in Entries :
            \E qty \in QuantitiesOf(entry) :
              Asks(p, "draft", d, entry, qty, Once("number") \o Do("share", entry))
      BY <1>1 DEF DraftPurchase
    <2>2. purchase[d].status = "absent"
      BY DEF New
    <2> QED
      BY <1>1, <2>1, <2>2, AsksPreservesKeeper DEF DraftPurchase
  <1>2. CASE UpdatePurchase(p)
    <2>1. PICK d \in Drafts, entry \in Entries : \E qty \in QuantitiesOf(entry) :
            Asks(p, "update", d, entry, qty, Once("stamp") \o Do("share", entry))
      BY <1>2 DEF UpdatePurchase
    <2>2. purchase[d].status = "DRAFT"
      BY DEF Drafts
    <2> QED
      BY <1>2, <2>1, <2>2, AsksPreservesKeeper DEF UpdatePurchase
  <1>3. CASE RemovePurchase(p)
    <2>1. PICK d \in Drafts : Asks(p, "remove", d, <<>>, Zero, Once("stamp"))
      BY <1>3 DEF RemovePurchase
    <2>2. purchase[d].status = "DRAFT"
      BY DEF Drafts
    <2> QED
      BY <1>3, <2>1, <2>2, AsksPreservesKeeper DEF RemovePurchase
  <1>4. CASE ReceivePurchase(p)
    <2>1. PICK d \in Drafts :
            Asks(p, "receive", d, purchase[d].entry, purchase[d].qty,
                 Do("move", purchase[d].entry) \o Once("stamp"))
      BY <1>4 DEF ReceivePurchase, Receivable
    <2>2. purchase[d].status = "DRAFT"
      BY DEF Drafts
    <2> QED
      BY <1>4, <2>1, <2>2, AsksPreservesKeeper DEF ReceivePurchase
  <1>5. CASE CancelPurchase(p)
    <2>1. PICK d \in Purchases :
            \/ /\ purchase[d].status = "DRAFT"
               /\ Asks(p, "cancel", d, <<>>, Zero, Once("stamp"))
            \/ /\ purchase[d].status = "RECEIVED"
               /\ Asks(p, "cancel", d, purchase[d].entry, Minus(purchase[d].qty),
                       Do("move", Sorted(purchase[d].entry)) \o Once("stamp"))
      BY <1>5 DEF CancelPurchase
    <2> QED
      BY <1>5, <2>1, AsksPreservesKeeper DEF CancelPurchase
  <1>6. CASE Issue(p)
    <2>1. \E s, entry, move, st : Asks(p, "issue", s, entry, move, st)
      BY <1>6 DEF Issue
    <2> QED
      BY <1>6, <2>1, AsksPreservesKeeper DEF Issue
  <1>7. CASE Return(p)
    <2>1. \E s, entry, move, st : Asks(p, "return", s, entry, move, st)
      BY <1>7 DEF Return
    <2> QED
      BY <1>7, <2>1, AsksPreservesKeeper DEF Return
  <1>8. CASE Adjust(p)
    <2>1. \E entry, move, st : Asks(p, "adjust", None, entry, move, st)
      BY <1>8 DEF Adjust
    <2> QED
      BY <1>8, <2>1, AsksPreservesKeeper DEF Adjust
  <1> QED
    BY <1>1, <1>2, <1>3, <1>4, <1>5, <1>6, <1>7, <1>8 DEF Begin

\* A step that writes nothing, of a request that goes on or ends.
LEMMA StepPreservesKeeper ==
  ASSUME KeeperInvariant, ledger' = ledger, purchase' = purchase,
         \A q \in Procs : \/ req'[q].op = "none"
                          \/ /\ req'[q].op = req[q].op /\ req'[q].doc = req[q].doc
                             /\ req'[q].move = req[q].move
  PROVE  KeeperInvariant'
  <1>1. \A q \in Procs : req'[q].op = "none" \/ req'[q].op \in Ops[q]
    BY DEF KeeperInvariant
  <1>2. ASSUME NEW q \in Procs, req'[q].op \in OnDeliveries PROVE SeenIsSo(q)'
    <2>1. /\ req'[q].op = req[q].op /\ req'[q].doc = req[q].doc
          /\ req'[q].move = req[q].move
      BY <1>2 DEF OnDeliveries
    <2> QED
      BY <1>2, <2>1 DEF KeeperInvariant, SeenIsSo
  <1>3. DeliveredOnce'
    BY DeliveriesStayAsLedger DEF KeeperInvariant
  <1> QED
    BY <1>1, <1>2, <1>3 DEF KeeperInvariant

\* What a commit makes of a delivery its clerk read right.
LEMMA DeliveryAfterCommit ==
  ASSUME StockInvariant, SlipInvariant, KeeperInvariant, NEW p \in Procs, Commit(p),
         Left(p) = {}, NEW d \in Purchases, NEW i \in Items
  PROVE  Net(d, i)' = IF purchase'[d].status = "RECEIVED" THEN purchase'[d].qty[i] ELSE 0
  <1>1. purchase \in [Purchases -> PurchaseRow] /\ purchase[d] \in PurchaseRow
    BY DEF StockInvariant, RowsOK
  <1>2. Net(d, i) = IF purchase[d].status = "RECEIVED" THEN purchase[d].qty[i] ELSE 0
    BY DEF KeeperInvariant, DeliveredOnce
  <1>3. purchase[d].qty[i] \in Nat
    BY <1>1 DEF PurchaseRow, Quantities
  <1>4. Net(d, i)' = Net(d, i) + IF req[p].op \in Moving /\ req[p].doc = d
                                 THEN req[p].move[i] ELSE 0
    BY NetAfterCommit
  <1>5. req[p].op \in OnDeliveries <=> req[p].doc \in Purchases
    BY DEF SlipInvariant, DocsInFlight
  <1>6. \/ req[p].op \in OnDeliveries /\ CommitPurchase(p)
        \/ req[p].op \notin OnDeliveries /\ purchase' = purchase
    BY DEF Commit, CommitSlip, CommitPurchase, OnDeliveries
  <1>7. CASE req[p].doc # d
    <2>1. purchase'[d] = purchase[d]
      BY <1>1, <1>6, <1>7 DEF CommitPurchase
    <2> QED
      BY <1>2, <1>3, <1>4, <1>7, <2>1
  <1>8. CASE req[p].doc = d
    <2>1. req[p].op \in OnDeliveries /\ CommitPurchase(p)
      BY <1>5, <1>6, <1>8
    <2>2. SeenIsSo(p)
      BY <2>1 DEF KeeperInvariant
    <2>3. CASE req[p].op = "draft"
      <3>1. purchase'[d] = [NoPurchase EXCEPT !.status = "DRAFT", !.entry = req[p].entry,
                                              !.qty = req[p].move]
        BY <1>1, <1>8, <2>1, <2>3 DEF CommitPurchase
      <3>2. purchase'[d].status = "DRAFT" /\ purchase[d].status = "absent"
        BY <1>8, <2>2, <2>3, <3>1 DEF NoPurchase, SeenIsSo
      <3> QED
        BY <1>2, <1>4, <2>3, <3>2 DEF Moving
    <2>4. CASE req[p].op \in {"update", "remove"}
      <3>1. \/ purchase'[d] = [purchase[d] EXCEPT !.entry = req[p].entry, !.qty = req[p].move]
            \/ purchase'[d] = [purchase[d] EXCEPT !.deleted = TRUE]
        BY <1>1, <1>8, <2>1, <2>4 DEF CommitPurchase
      <3>2. purchase'[d].status = "DRAFT" /\ purchase[d].status = "DRAFT"
        BY <1>1, <1>8, <2>2, <2>4, <3>1 DEF PurchaseRow, SeenIsSo
      <3> QED
        BY <1>2, <1>4, <2>4, <3>2 DEF Moving
    <2>5. CASE req[p].op = "receive"
      <3>1. purchase'[d] = [purchase[d] EXCEPT !.status = "RECEIVED"]
        BY <1>1, <1>8, <2>1, <2>5 DEF CommitPurchase
      <3>2. purchase'[d].status = "RECEIVED" /\ purchase'[d].qty = purchase[d].qty
        BY <1>1, <3>1 DEF PurchaseRow
      <3>3. purchase[d].status = "DRAFT" /\ req[p].move = purchase[d].qty
        BY <1>8, <2>2, <2>5 DEF SeenIsSo
      <3> QED
        BY <1>2, <1>3, <1>4, <1>8, <2>5, <3>2, <3>3 DEF Moving
    <2>6. CASE req[p].op = "cancel"
      <3>1. purchase'[d] = [purchase[d] EXCEPT !.status = "CANCELLED"]
        BY <1>1, <1>8, <2>1, <2>6 DEF CommitPurchase
      <3>2. purchase'[d].status = "CANCELLED"
        BY <1>1, <3>1 DEF PurchaseRow
      <3>3. \/ purchase[d].status = "DRAFT" /\ req[p].move = Zero
            \/ purchase[d].status = "RECEIVED" /\ req[p].move = Minus(purchase[d].qty)
        BY <1>8, <2>2, <2>6 DEF SeenIsSo
      <3>4. Zero[i] = 0 /\ Minus(purchase[d].qty)[i] = -purchase[d].qty[i]
        BY DEF Zero, Minus
      <3>5. Net(d, i)' = Net(d, i) + req[p].move[i]
        BY <1>4, <1>8, <2>6 DEF Moving
      <3>6. Net(d, i)' = 0
        <4>1. CASE purchase[d].status = "DRAFT" /\ req[p].move = Zero
          BY <1>2, <3>4, <3>5, <4>1
        <4>2. CASE purchase[d].status = "RECEIVED" /\ req[p].move = Minus(purchase[d].qty)
          BY <1>2, <1>3, <3>4, <3>5, <4>2
        <4> QED
          BY <3>3, <4>1, <4>2
      <3> QED
        BY <3>2, <3>6
    <2> QED
      BY <2>1, <2>3, <2>4, <2>5, <2>6 DEF OnDeliveries
  <1> QED
    BY <1>7, <1>8

LEMMA CommitPreservesKeeper ==
  ASSUME OneKeeper, StockInvariant, Bookkeeping, SlipInvariant, KeeperInvariant,
         NEW p \in Procs, Commit(p)
  PROVE  KeeperInvariant'
  <1>1. req \in [Procs -> Request] /\ req' = [req EXCEPT ![p] = Idle]
    BY DEF Commit, Ends, StockInvariant, RowsOK
  <1>2. \A q \in Procs : req'[q] = IF q = p THEN Idle ELSE req[q]
    BY <1>1
  <1>3. Left(p) = {} /\ Idle.op = "none"
    BY DEF Left, Commit, Range, Idle, Asked
  <1>4. \A q \in Procs : req'[q].op = "none" \/ req'[q].op \in Ops[q]
    BY <1>2, <1>3 DEF KeeperInvariant
  <1>5. ASSUME NEW q \in Procs, req'[q].op \in OnDeliveries PROVE SeenIsSo(q)'
    <2>1. q # p /\ req'[q] = req[q]
      BY <1>2, <1>3, <1>5 DEF OnDeliveries
    <2>2. req[p].op \notin OnDeliveries
      <3>1. req[q].op \in Ops[q] \cap OnDeliveries
        BY <1>5, <2>1 DEF KeeperInvariant, OnDeliveries
      <3>2. req[p].op \in Ops[p]
        BY DEF KeeperInvariant, Commit
      <3> QED
        BY <2>1, <3>1, <3>2 DEF OneKeeper
    <2>3. purchase' = purchase
      BY <2>2 DEF Commit, CommitSlip, CommitPurchase, OnDeliveries
    <2> QED
      BY <1>5, <2>1, <2>3 DEF KeeperInvariant, SeenIsSo
  <1>6. DeliveredOnce'
    <2>1. \A d \in Purchases, i \in Items :
            Net(d, i)' = IF purchase'[d].status = "RECEIVED" THEN purchase'[d].qty[i] ELSE 0
      BY <1>3, DeliveryAfterCommit
    <2> QED
      BY <2>1 DEF DeliveredOnce
  <1> QED
    BY <1>4, <1>5, <1>6 DEF KeeperInvariant

LEMMA NextPreservesKeeper ==
  ASSUME OneKeeper, StockInvariant, Bookkeeping, SlipInvariant, KeeperInvariant, Next
  PROVE  KeeperInvariant'
  <1> DEFINE GoesOn(q) == \/ req'[q].op = "none"
                          \/ /\ req'[q].op = req[q].op /\ req'[q].doc = req[q].doc
                             /\ req'[q].move = req[q].move
  <1>1. PICK p \in Procs : Begin(p) \/ Continue(p) \/ Fail(p)
    BY DEF Next
  <1>2. req \in [Procs -> Request] /\ Idle.op = "none"
    BY DEF StockInvariant, RowsOK, Idle, Asked
  <1>3. ASSUME Ends(p), UNCHANGED tables PROVE KeeperInvariant'
    <2>1. \A q \in Procs : GoesOn(q)
      BY <1>2, <1>3 DEF Ends
    <2> QED
      BY <1>3, <2>1, StepPreservesKeeper DEF tables
  <1>4. ASSUME NEW what, NEW i, Runs(p, what, i), \A q \in Procs : GoesOn(q)
        PROVE  KeeperInvariant'
    BY <1>4, StepPreservesKeeper DEF Runs, tables
  <1>5. CASE Begin(p)
    BY <1>5, BeginPreservesKeeper
  <1>6. CASE Fail(p)
    BY <1>3, <1>6 DEF Fail
  <1>7. CASE Continue(p)
    <2>1. CASE TakeNumber(p) \/ CheckForeignKey(p) \/ Stamp(p)
      <3>1. \E what, i : Runs(p, what, i) /\ req' = req
        BY <2>1 DEF TakeNumber, CheckForeignKey, Stamp
      <3> QED
        BY <1>4, <3>1
    <2>2. CASE CreditLine(p)
      <3>1. \E i : (Runs(p, "credit", i) /\ req' = req) \/ RollsBack(p)
        BY <2>2 DEF CreditLine
      <3> QED
        BY <1>3, <1>4, <3>1 DEF RollsBack
    <2>3. CASE Move(p)
      <3>1. PICK i \in Items :
              \/ Runs(p, "move", i) /\ req' = [req EXCEPT ![p].wrote[i] = RowFor(p, i)]
              \/ RollsBack(p)
        BY <2>3 DEF Move
      <3>2. CASE RollsBack(p)
        BY <1>3, <3>2 DEF RollsBack
      <3>3. CASE Runs(p, "move", i) /\ req' = [req EXCEPT ![p].wrote[i] = RowFor(p, i)]
        <4>1. \A q \in Procs : GoesOn(q)
          BY <1>2, <3>3 DEF Request
        <4> QED
          BY <1>4, <3>3, <4>1
      <3> QED
        BY <3>1, <3>2, <3>3
    <2>4. CASE Reread(p)
      <3>1. PICK status : req' = [req EXCEPT ![p].status = status]
        BY <2>4 DEF Reread
      <3>2. \A q \in Procs : GoesOn(q)
        BY <1>2, <3>1 DEF Request
      <3> QED
        BY <1>4, <2>4, <3>2 DEF Reread
    <2>5. CASE Commit(p)
      BY <2>5, CommitPreservesKeeper
    <2> QED
      BY <1>7, <2>1, <2>2, <2>3, <2>4, <2>5 DEF Continue
  <1> QED
    BY <1>1, <1>5, <1>6, <1>7

LEMMA InitKeeper == Init => KeeperInvariant
  <1> SUFFICES ASSUME Init PROVE KeeperInvariant
    OBVIOUS
  <1>1. \A p \in Procs : req[p].op = "none"
    BY DEF Init, Idle, Asked
  <1>2. \A d \in Purchases, i \in Items : Net(d, i) = 0
    BY NetIsNetOf, NetOfNothing DEF Init
  <1>3. \A d \in Purchases : purchase[d].status = "absent"
    BY DEF Init, NoPurchase
  <1>4. DeliveredOnce
    BY <1>2, <1>3 DEF DeliveredOnce
  <1> QED
    BY <1>1, <1>4 DEF KeeperInvariant, OnDeliveries

\* While one clerk at a time looks after deliveries, a delivery is in the ledger
\* line for line exactly while it is RECEIVED, however many others issue, return
\* and count the same items meanwhile: receive and cancel move what they say.
THEOREM DeliveriesMatchTheLedger == ASSUME OneKeeper PROVE Spec => []DeliveredOnce
  <1>1. ASSUME StockInvariant, Bookkeeping, SlipInvariant, KeeperInvariant, [Next]_vars
        PROVE  KeeperInvariant'
    <2>1. CASE Next
      BY <1>1, <2>1, NextPreservesKeeper
    <2>2. CASE UNCHANGED vars
      BY <1>1, <2>2, StepPreservesKeeper DEF vars, tables
    <2> QED
      BY <1>1, <2>1, <2>2
  <1>2. KeeperInvariant => DeliveredOnce
    BY DEF KeeperInvariant
  <1> QED
    BY SlipInvariantHolds, InitKeeper, <1>1, <1>2, PTL DEF Spec
=============================================================================
