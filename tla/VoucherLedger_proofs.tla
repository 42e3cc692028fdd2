------------------------ MODULE VoucherLedger_proofs ------------------------
(***************************************************************************)
(* That the tables keep their types and an event never has two live        *)
(* vouchers, whoever is at work; that periods never overlap while one      *)
(* desk defines them; that a closed month is locked, where requests do     *)
(* not overlap and nothing may be dated back into it; and that every event *)
(* is booked once, every cancelled voucher mirrored once and no posted one *)
(* changed, while one clerk has the drafts and reversals stand.            *)
(***************************************************************************)
EXTENDS VoucherLedger, Sums_proofs, FiniteSetTheorems, TLAPS

\* Of a table V of vouchers: v holds the key ref, or is there at all.
Holds(V, v, ref) ==
  V[v].status \notin {"absent", "CANCELLED"} /\ ~V[v].deleted /\ V[v].ref = ref
Written(V, v) == V[v].status # "absent"

\* uq_vouchers_source_ref, as every reader may rely on it.
OneLivePerKey ==
  \A ref \in SourceRefs : ref # None =>
    \A v, w \in Vouchers : Holds(voucher, v, ref) /\ Holds(voucher, w, ref) => v = w

Inserts == {"create", "payment", "refund"}
ById == {"update", "post", "delete", "cancel"}
OnAPeriod == {"define", "redefine", "remove", "close", "reopen"}

RequestOK(r, V) ==
  /\ r \in Request
  /\ r.op \in ById => r.id \in Vouchers /\ Written(V, r.id)
  /\ r.op \in OnAPeriod => r.per \in Periods

BooksInvariant ==
  /\ TypeOK
  /\ OneLivePerKey
  /\ \A p \in Procs : RequestOK(req[p], voucher)

-----------------------------------------------------------------------------
LEMMA IdleOK == Idle \in Request /\ NoVoucher \in VoucherRow /\ NoPeriod \in PeriodRow
  BY VoucherAssumption DEF Idle, Request, NoVoucher, VoucherRow, NoPeriod, PeriodRow, OpNames

\* A request that begins: a row or a span is filled in, and where to write it.
LEMMA RowAsked ==
  ASSUME NEW op \in OpNames, NEW row \in VoucherRow, NEW V, op \notin ById \cup OnAPeriod
  PROVE  RequestOK([Idle EXCEPT !.op = op, !.row = row], V)
  BY IdleOK DEF Idle, Request, RequestOK, OpNames, ById, OnAPeriod

LEMMA WriteAsked ==
  ASSUME NEW op \in {"update", "post", "cancel"}, NEW v \in Vouchers, NEW row \in VoucherRow,
         NEW V, Written(V, v)
  PROVE  RequestOK([Idle EXCEPT !.op = op, !.id = v, !.row = row], V)
  BY IdleOK DEF Idle, Request, RequestOK, OpNames, ById, OnAPeriod

LEMMA DeleteAsked ==
  ASSUME NEW v \in Vouchers, NEW V, Written(V, v)
  PROVE  RequestOK([Idle EXCEPT !.op = "delete", !.id = v], V)
  BY IdleOK DEF Idle, Request, RequestOK, OpNames, ById, OnAPeriod

LEMMA SpanAsked ==
  ASSUME NEW op \in {"define", "redefine"}, NEW k \in Periods, NEW span \in PeriodRow, NEW V
  PROVE  RequestOK([Idle EXCEPT !.op = op, !.per = k, !.span = span], V)
  BY IdleOK DEF Idle, Request, RequestOK, OpNames, ById, OnAPeriod

LEMMA PeriodAsked ==
  ASSUME NEW op \in {"remove", "close", "reopen"}, NEW k \in Periods, NEW V
  PROVE  RequestOK([Idle EXCEPT !.op = op, !.per = k], V)
  BY IdleOK DEF Idle, Request, RequestOK, OpNames, ById, OnAPeriod

LEMMA AsksOK ==
  ASSUME BooksInvariant, NEW p \in Procs, NEW r, Asks(p, r), RequestOK(r, voucher)
  PROVE  BooksInvariant'
  <1>1. req \in [Procs -> Request] /\ r \in Request
    BY DEF BooksInvariant, TypeOK, RequestOK
  <1>2. req' = [req EXCEPT ![p] = r] /\ UNCHANGED <<today, voucher, period, fails>>
    BY DEF Asks
  <1>3. req' \in [Procs -> Request] /\ \A q \in Procs : RequestOK(req'[q], voucher')
    BY <1>1, <1>2 DEF BooksInvariant
  <1> QED BY <1>2, <1>3 DEF BooksInvariant, TypeOK, OneLivePerKey

\* Whatever is resolved is a period or none.
LEMMA ResolvedPeriod == ASSUME NEW day, NEW k \in Resolve(day) PROVE k \in Periods \cup {None}
  BY DEF Resolve, Containing, Defined, EarliestOpenFrom

LEMMA DoneOK ==
  ASSUME BooksInvariant, NEW p \in Procs, Done(p),
         \A v \in Vouchers : Written(voucher, v) => Written(voucher', v)
  PROVE  req' \in [Procs -> Request] /\ \A q \in Procs : RequestOK(req'[q], voucher')
  <1>1. req \in [Procs -> Request] /\ req' = [req EXCEPT ![p] = Idle]
    BY DEF BooksInvariant, TypeOK, Done
  <1>2. RequestOK(Idle, voucher')
    BY IdleOK DEF RequestOK, Idle, ById, OnAPeriod
  <1>3. ASSUME NEW q \in Procs PROVE RequestOK(req'[q], voucher')
    <2>1. CASE q = p
      BY <1>1, <1>2, <2>1
    <2>2. CASE q # p
      BY <1>1, <2>2 DEF BooksInvariant, RequestOK
    <2> QED BY <2>1, <2>2
  <1> QED BY <1>1, <1>3, IdleOK

-----------------------------------------------------------------------------
(* Types, and one voucher per event, step by step.                          *)

LEMMA CreateStep ==
  ASSUME BooksInvariant, NEW p \in Procs, Create(p) PROVE BooksInvariant'
  <1>1. PICK day \in 0..today, cash \in (-MaxAmount)..MaxAmount, status \in {"DRAFT", "POSTED"} :
          \E k \in Resolve(day) :
            Asks(p, [Idle EXCEPT !.op = "create",
                       !.row = [NoVoucher EXCEPT !.status = status, !.date = day,
                                                 !.cash = cash, !.period = k]])
    BY DEF Create
  <1>2. PICK k \in Resolve(day) :
            Asks(p, [Idle EXCEPT !.op = "create",
                       !.row = [NoVoucher EXCEPT !.status = status, !.date = day,
                                                 !.cash = cash, !.period = k]])
    BY <1>1
  <1> DEFINE row == [NoVoucher EXCEPT !.status = status, !.date = day, !.cash = cash, !.period = k]
  <1>3. today \in 0..MaxDay
    BY DEF BooksInvariant, TypeOK
  <1>4. day \in 0..MaxDay /\ cash \in Int
    BY <1>3, VoucherAssumption
  <1>5. row \in VoucherRow
    BY <1>4, IdleOK, ResolvedPeriod DEF VoucherRow, NoVoucher
  <1> HIDE DEF row
  <1>6. RequestOK([Idle EXCEPT !.op = "create", !.row = row], voucher)
    BY <1>5, RowAsked DEF OpNames, ById, OnAPeriod
  <1> QED BY <1>2, <1>6, AsksOK DEF row

LEMMA EditStep ==
  ASSUME BooksInvariant, NEW p \in Procs, Update(p) \/ Post(p) PROVE BooksInvariant'
  <1>1. voucher \in [Vouchers -> VoucherRow] /\ today \in 0..MaxDay
    BY DEF BooksInvariant, TypeOK
  <1>2. CASE Update(p)
    <2>1. PICK v \in Vouchers, day \in 0..today, cash \in (-MaxAmount)..MaxAmount :
            /\ Live(v)
            /\ \E k \in Resolve(day) :
                 Asks(p, [Idle EXCEPT !.op = "update", !.id = v,
                   !.row = [voucher[v] EXCEPT !.date = day, !.cash = cash, !.period = k]])
      BY <1>2 DEF Update
    <2>2. PICK k \in Resolve(day) :
            Asks(p, [Idle EXCEPT !.op = "update", !.id = v,
                   !.row = [voucher[v] EXCEPT !.date = day, !.cash = cash, !.period = k]])
      BY <2>1
    <2> DEFINE old == voucher[v]
               row == [old EXCEPT !.date = day, !.cash = cash, !.period = k]
    <2>3. day \in 0..MaxDay /\ cash \in Int /\ old \in VoucherRow
      BY <1>1, VoucherAssumption
    <2> HIDE DEF old
    <2>4. row \in VoucherRow
      BY <2>3, ResolvedPeriod DEF VoucherRow
    <2> HIDE DEF row
    <2>5. RequestOK([Idle EXCEPT !.op = "update", !.id = v, !.row = row], voucher)
      BY <2>1, <2>4, WriteAsked DEF Live, Written
    <2> QED BY <2>2, <2>5, AsksOK DEF row, old
  <1>3. CASE Post(p)
    <2>1. PICK v \in Vouchers :
            /\ Live(v)
            /\ \E k \in Resolve(voucher[v].date) :
                 Asks(p, [Idle EXCEPT !.op = "post", !.id = v,
                   !.row = [voucher[v] EXCEPT !.status = "POSTED", !.period = k]])
      BY <1>3 DEF Post
    <2>2. PICK k \in Resolve(voucher[v].date) :
            Asks(p, [Idle EXCEPT !.op = "post", !.id = v,
                   !.row = [voucher[v] EXCEPT !.status = "POSTED", !.period = k]])
      BY <2>1
    <2> DEFINE old == voucher[v]
               row == [old EXCEPT !.status = "POSTED", !.period = k]
    <2>3. old \in VoucherRow /\ k \in Periods \cup {None}
      BY <1>1, ResolvedPeriod
    <2> HIDE DEF old
    <2>4. row \in VoucherRow
      BY <2>3 DEF VoucherRow
    <2> HIDE DEF row
    <2>5. RequestOK([Idle EXCEPT !.op = "post", !.id = v, !.row = row], voucher)
      BY <2>1, <2>4, WriteAsked DEF Live, Written
    <2> QED BY <2>2, <2>5, AsksOK DEF row, old
  <1> QED BY <1>2, <1>3

LEMMA CancelStep ==
  ASSUME BooksInvariant, NEW p \in Procs, Cancel(p) PROVE BooksInvariant'
  <1>1. PICK v \in Vouchers :
          /\ Live(v)
          /\ \/ Asks(p, [Idle EXCEPT !.op = "delete", !.id = v])
             \/ \E k \in Resolve(today) :
                  Asks(p, [Idle EXCEPT !.op = "cancel", !.id = v,
                    !.row = [NoVoucher EXCEPT !.status = "POSTED",
                               !.ref = ReversalRef(v), !.date = ReversalDate(v),
                               !.cash = -voucher[v].cash, !.period = k,
                               !.reverses = v]])
    BY DEF Cancel
  <1>2. CASE Asks(p, [Idle EXCEPT !.op = "delete", !.id = v])
    BY <1>1, <1>2, DeleteAsked, AsksOK DEF Live, Written
  <1>3. CASE \E k \in Resolve(today) :
                  Asks(p, [Idle EXCEPT !.op = "cancel", !.id = v,
                    !.row = [NoVoucher EXCEPT !.status = "POSTED",
                               !.ref = ReversalRef(v), !.date = ReversalDate(v),
                               !.cash = -voucher[v].cash, !.period = k,
                               !.reverses = v]])
    <2>1. PICK k \in Resolve(today) :
                  Asks(p, [Idle EXCEPT !.op = "cancel", !.id = v,
                    !.row = [NoVoucher EXCEPT !.status = "POSTED",
                               !.ref = ReversalRef(v), !.date = ReversalDate(v),
                               !.cash = -voucher[v].cash, !.period = k,
                               !.reverses = v]])
      BY <1>3
    <2> DEFINE ref == ReversalRef(v)
               cash == -voucher[v].cash
               row == [NoVoucher EXCEPT !.status = "POSTED", !.ref = ref,
                         !.date = ReversalDate(v), !.cash = cash, !.period = k, !.reverses = v]
    <2>2. ref \in SourceRefs \cup {None}
      BY DEF ReversalRef, SourceRefs
    <2>3. cash \in Int /\ ReversalDate(v) \in 0..MaxDay /\ k \in Periods \cup {None}
      BY ResolvedPeriod DEF BooksInvariant, TypeOK, VoucherRow, ReversalDate
    <2> HIDE DEF ref, cash
    <2>4. row \in VoucherRow
      BY <2>2, <2>3 DEF VoucherRow, NoVoucher
    <2> HIDE DEF row
    <2>5. RequestOK([Idle EXCEPT !.op = "cancel", !.id = v, !.row = row], voucher)
      BY <1>1, <2>4, WriteAsked DEF Live, Written
    <2> QED BY <2>1, <2>5, AsksOK DEF row, ref, cash
  <1> QED BY <1>1, <1>2, <1>3

LEMMA RaiseStep ==
  ASSUME BooksInvariant, NEW p \in Procs, NEW op \in {"payment", "refund"},
         NEW ref \in SourceRefs, NEW day \in 0..MaxDay, NEW cash \in Int,
         Raise(p, op, ref, day, cash)
  PROVE  BooksInvariant'
  <1>1. PICK k \in Resolve(day) :
          Asks(p, [Idle EXCEPT !.op = op,
            !.row = [NoVoucher EXCEPT
                       !.status = IF AutoPostAsDraft THEN "DRAFT" ELSE "POSTED",
                       !.ref = ref, !.date = day, !.cash = cash, !.period = k]])
    BY DEF Raise
  <1> DEFINE status == IF AutoPostAsDraft THEN "DRAFT" ELSE "POSTED"
             row == [NoVoucher EXCEPT !.status = status, !.ref = ref, !.date = day,
                                      !.cash = cash, !.period = k]
  <1>2. status \in {"DRAFT", "POSTED"} /\ k \in Periods \cup {None}
    BY ResolvedPeriod
  <1> HIDE DEF status
  <1>3. row \in VoucherRow
    BY <1>2 DEF VoucherRow, NoVoucher
  <1> HIDE DEF row
  <1>4. RequestOK([Idle EXCEPT !.op = op, !.row = row], voucher)
    BY <1>3, RowAsked DEF OpNames, ById, OnAPeriod
  <1> QED BY <1>1, <1>4, AsksOK DEF row, status

LEMMA PaymentStep ==
  ASSUME BooksInvariant, NEW p \in Procs, PostPayment(p) \/ PostRefund(p) PROVE BooksInvariant'
  <1>1. CASE PostPayment(p)
    <2>1. PICK x \in Payments : Raise(p, "payment", <<"payment", x>>, PaidOn[x], Amount[x])
      BY <1>1 DEF PostPayment
    <2>2. <<"payment", x>> \in SourceRefs /\ PaidOn[x] \in 0..MaxDay /\ Amount[x] \in Int
      BY VoucherAssumption DEF SourceRefs
    <2> QED BY <2>1, <2>2, RaiseStep
  <1>2. CASE PostRefund(p)
    <2>1. PICK r \in Refunds :
            \E v \in Holding(<<"payment", RefundOf[r]>>) :
              Raise(p, "refund", <<"refund", r>>, today,
                    -((voucher[v].cash * RefundAmount[r]) \div Amount[RefundOf[r]]))
      BY <1>2 DEF PostRefund
    <2>2. PICK v \in Holding(<<"payment", RefundOf[r]>>) :
            Raise(p, "refund", <<"refund", r>>, today,
                  -((voucher[v].cash * RefundAmount[r]) \div Amount[RefundOf[r]]))
      BY <2>1
    <2>3. <<"refund", r>> \in SourceRefs /\ today \in 0..MaxDay
      BY DEF SourceRefs, BooksInvariant, TypeOK
    <2>4. voucher[v].cash \in Int /\ RefundAmount[r] \in Int /\ Amount[RefundOf[r]] \in Nat \ {0}
      BY VoucherAssumption DEF Holding, BooksInvariant, TypeOK, VoucherRow
    <2>5. \A i, j \in Int, n \in Nat \ {0} : -((i * j) \div n) \in Int
      OBVIOUS
    <2>6. -((voucher[v].cash * RefundAmount[r]) \div Amount[RefundOf[r]]) \in Int
      BY <2>4, <2>5
    <2> QED BY <2>3, <2>6, <2>2, RaiseStep
  <1> QED BY <1>1, <1>2

LEMMA PeriodStep ==
  ASSUME BooksInvariant, NEW p \in Procs,
         DefinePeriod(p) \/ RedefinePeriod(p) \/ RemovePeriod(p) \/ ClosePeriod(p) \/ ReopenPeriod(p)
  PROVE  BooksInvariant'
  <1>1. \A span \in Spans : SpanOf(span) \in PeriodRow
    BY VoucherAssumption DEF SpanOf, NoPeriod, PeriodRow
  <1>2. Defined \subseteq Periods
    BY DEF Defined
  <1>3. CASE DefinePeriod(p)
    <2>1. PICK k \in Periods, span \in Spans :
            Asks(p, [Idle EXCEPT !.op = "define", !.per = k, !.span = SpanOf(span)])
      BY <1>3 DEF DefinePeriod
    <2> QED BY <1>1, <2>1, SpanAsked, AsksOK
  <1>4. CASE RedefinePeriod(p)
    <2>1. PICK k \in Periods, span \in Spans :
            Asks(p, [Idle EXCEPT !.op = "redefine", !.per = k, !.span = SpanOf(span)])
      BY <1>2, <1>4 DEF RedefinePeriod
    <2> QED BY <1>1, <2>1, SpanAsked, AsksOK
  <1>5. CASE RemovePeriod(p) \/ ClosePeriod(p) \/ ReopenPeriod(p)
    <2>1. PICK op \in {"remove", "close", "reopen"}, k \in Periods :
            Asks(p, [Idle EXCEPT !.op = op, !.per = k])
      BY <1>2, <1>5 DEF RemovePeriod, ClosePeriod, ReopenPeriod
    <2> QED BY <2>1, PeriodAsked, AsksOK
  <1> QED BY <1>3, <1>4, <1>5

\* A new row whose key is free.
LEMMA InsertStep ==
  ASSUME BooksInvariant, NEW p \in Procs, WriteNew(p) PROVE BooksInvariant'
  <1> DEFINE row == req[p].row
  <1>1. /\ voucher \in [Vouchers -> VoucherRow] /\ row \in VoucherRow
        /\ Done(p) /\ UNCHANGED <<today, period, fails>>
    BY DEF BooksInvariant, TypeOK, Request, WriteNew
  <1>2. CASE UNCHANGED voucher
    <2>1. req' \in [Procs -> Request] /\ \A q \in Procs : RequestOK(req'[q], voucher')
      BY <1>1, <1>2, DoneOK
    <2> QED BY <1>1, <1>2, <2>1 DEF BooksInvariant, TypeOK, OneLivePerKey
  <1>3. CASE KeyFree(row.ref) /\ \E v \in Unused : voucher' = [voucher EXCEPT ![v] = row]
    <2>1. PICK v \in Vouchers : ~Written(voucher, v) /\ voucher' = [voucher EXCEPT ![v] = row]
      BY <1>3 DEF Unused, Written
    <2> HIDE DEF row
    <2>2. voucher' \in [Vouchers -> VoucherRow]
      BY <1>1, <2>1
    <2>3. \A w \in Vouchers : Written(voucher, w) => Written(voucher', w)
      BY <1>1, <2>1 DEF Written
    <2>4. req' \in [Procs -> Request] /\ \A q \in Procs : RequestOK(req'[q], voucher')
      BY <1>1, <2>3, DoneOK
    <2>5. OneLivePerKey'
      <3> SUFFICES ASSUME NEW ref \in SourceRefs, ref # None, NEW u \in Vouchers, NEW w \in Vouchers,
                          Holds(voucher', u, ref), Holds(voucher', w, ref)
                   PROVE  u = w
        BY DEF OneLivePerKey
      <3>1. \A x \in Vouchers \ {v} : Holds(voucher', x, ref) => Holds(voucher, x, ref)
        BY <1>1, <2>1 DEF Holds
      <3>2. Holds(voucher', v, ref) => \A x \in Vouchers : ~Holds(voucher, x, ref)
        <4>1. Holds(voucher', v, ref) => row.ref = ref
          BY <1>1, <2>1 DEF Holds
        <4> QED BY <1>3, <4>1 DEF KeyFree, Holding, Holds, Live
      <3> QED BY <3>1, <3>2 DEF BooksInvariant, OneLivePerKey
    <2> QED BY <1>1, <2>2, <2>4, <2>5 DEF BooksInvariant, TypeOK
  <1> QED BY <1>2, <1>3 DEF WriteNew

\* A row changed by id that holds no key it did not hold, or one that nobody else does.
LEMMA ChangeStep ==
  ASSUME BooksInvariant, NEW p \in Procs, NEW v \in Vouchers, NEW row \in VoucherRow,
         Written(voucher, v), row.status # "absent",
         voucher' = [voucher EXCEPT ![v] = row],
         \A ref \in SourceRefs : Holds(voucher', v, ref) =>
            ref = None \/ \A w \in Vouchers \ {v} : ~Holds(voucher, w, ref),
         Done(p), UNCHANGED <<today, period, fails>>
  PROVE  BooksInvariant'
  <1>1. voucher \in [Vouchers -> VoucherRow]
    BY DEF BooksInvariant, TypeOK
  <1>2. voucher' \in [Vouchers -> VoucherRow]
    BY <1>1
  <1>3. \A w \in Vouchers : Written(voucher, w) => Written(voucher', w)
    BY <1>1 DEF Written
  <1>4. req' \in [Procs -> Request] /\ \A q \in Procs : RequestOK(req'[q], voucher')
    BY <1>3, DoneOK
  <1>5. OneLivePerKey'
    <2> SUFFICES ASSUME NEW ref \in SourceRefs, ref # None, NEW u \in Vouchers, NEW w \in Vouchers,
                        Holds(voucher', u, ref), Holds(voucher', w, ref)
                 PROVE  u = w
      BY DEF OneLivePerKey
    <2>1. \A x \in Vouchers \ {v} : Holds(voucher', x, ref) => Holds(voucher, x, ref)
      BY <1>1 DEF Holds
    <2> QED BY <2>1 DEF BooksInvariant, OneLivePerKey
  <1> QED BY <1>2, <1>4, <1>5 DEF BooksInvariant, TypeOK

\* A row changed by id that keeps its key and was live before, if it is live now.
LEMMA SameKeyStep ==
  ASSUME BooksInvariant, NEW p \in Procs, NEW v \in Vouchers, NEW row \in VoucherRow,
         Written(voucher, v), row.status # "absent", row.ref = voucher[v].ref,
         row.status \in {voucher[v].status, "CANCELLED"},
         voucher[v].deleted => row.deleted,
         voucher' = [voucher EXCEPT ![v] = row],
         Done(p), UNCHANGED <<today, period, fails>>
  PROVE  BooksInvariant'
  <1>1. voucher'[v] = row
    BY DEF BooksInvariant, TypeOK
  <1>2. \A ref \in SourceRefs : Holds(voucher', v, ref) => Holds(voucher, v, ref)
    BY <1>1 DEF Holds, BooksInvariant, TypeOK, VoucherRow
  <1> QED BY <1>2, ChangeStep DEF BooksInvariant, OneLivePerKey

LEMMA UpdateStep ==
  ASSUME BooksInvariant, NEW p \in Procs, WriteUpdate(p) \/ WriteDelete(p) PROVE BooksInvariant'
  <1> DEFINE v == req[p].id
             new == req[p].row
  <1>1. /\ voucher \in [Vouchers -> VoucherRow] /\ voucher[v] \in VoucherRow
        /\ v \in Vouchers /\ Written(voucher, v) /\ new \in VoucherRow
        /\ Done(p) /\ UNCHANGED <<today, period, fails>>
    BY DEF BooksInvariant, TypeOK, RequestOK, Request, WriteUpdate, WriteDelete, ById
  <1>2. CASE WriteUpdate(p)
    <2> DEFINE old == voucher[v]
               row == [old EXCEPT !.date = new.date, !.cash = new.cash, !.period = new.period]
    <2>1. voucher' = [voucher EXCEPT ![v] = row]
      BY <1>1, <1>2 DEF WriteUpdate, VoucherRow
    <2> HIDE DEF v, new
    <2>2. row \in VoucherRow /\ row.status = old.status /\ row.ref = old.ref /\ row.deleted = old.deleted
      BY <1>1 DEF VoucherRow
    <2> HIDE DEF row
    <2> QED BY <1>1, <2>1, <2>2, SameKeyStep DEF Written
  <1>3. CASE WriteDelete(p)
    <2> DEFINE old == voucher[v]
               row == [old EXCEPT !.deleted = TRUE]
    <2>1. voucher' = [voucher EXCEPT ![v] = row]
      BY <1>1, <1>3 DEF WriteDelete, VoucherRow
    <2> HIDE DEF v, new
    <2>2. row \in VoucherRow /\ row.status = old.status /\ row.ref = old.ref /\ row.deleted = TRUE
      BY <1>1 DEF VoucherRow
    <2> HIDE DEF row
    <2> QED BY <1>1, <2>1, <2>2, SameKeyStep DEF Written
  <1> QED BY <1>2, <1>3

LEMMA PostStep ==
  ASSUME BooksInvariant, NEW p \in Procs, WritePost(p) PROVE BooksInvariant'
  <1> DEFINE v == req[p].id
             new == req[p].row
             old == voucher[v]
             row == [old EXCEPT !.status = "POSTED", !.period = new.period]
  <1>1. /\ voucher \in [Vouchers -> VoucherRow] /\ old \in VoucherRow
        /\ v \in Vouchers /\ Written(voucher, v) /\ new \in VoucherRow
        /\ Done(p) /\ UNCHANGED <<today, period, fails>>
    BY DEF BooksInvariant, TypeOK, RequestOK, Request, WritePost, ById
  <1>2. CASE UNCHANGED voucher
    <2>1. req' \in [Procs -> Request] /\ \A q \in Procs : RequestOK(req'[q], voucher')
      BY <1>1, <1>2, DoneOK
    <2> QED BY <1>1, <1>2, <2>1 DEF BooksInvariant, TypeOK, OneLivePerKey
  <1>3. CASE /\ old.deleted \/ old.ref = None \/ Holding(old.ref) \subseteq {v}
             /\ voucher' = [voucher EXCEPT ![v].status = "POSTED", ![v].period = new.period]
    <2>1. voucher' = [voucher EXCEPT ![v] = row]
      BY <1>1, <1>3
    <2> HIDE DEF v, new
    <2>2. /\ row \in VoucherRow /\ row.status = "POSTED" /\ row.ref = old.ref
          /\ row.deleted = old.deleted
      BY <1>1 DEF VoucherRow
    <2> HIDE DEF row
    <2>3. ASSUME NEW ref \in SourceRefs, Holds(voucher', v, ref)
          PROVE  ref = None \/ \A w \in Vouchers \ {v} : ~Holds(voucher, w, ref)
      <3>1. voucher'[v] = row
        BY <1>1, <2>1
      <3>2. ~old.deleted /\ old.ref = ref
        BY <2>2, <2>3, <3>1 DEF Holds
      <3> QED BY <1>3, <3>2 DEF Holding, Holds, Live
    <2> QED BY <1>1, <2>1, <2>2, <2>3, ChangeStep
  <1> QED BY <1>2, <1>3 DEF WritePost

\* A reversal: a new row, and the row it mirrors gives its key up.
LEMMA ReversalStep ==
  ASSUME BooksInvariant, NEW p \in Procs, WriteReversal(p) PROVE BooksInvariant'
  <1> DEFINE id == req[p].id
             row == req[p].row
             old == voucher[id]
             mark == [old EXCEPT !.status = "CANCELLED"]
  <1>1. /\ voucher \in [Vouchers -> VoucherRow] /\ row \in VoucherRow
        /\ id \in Vouchers /\ Written(voucher, id) /\ old \in VoucherRow
        /\ Done(p) /\ UNCHANGED <<today, period, fails>>
    BY DEF BooksInvariant, TypeOK, RequestOK, Request, WriteReversal, ById
  <1>2. CASE UNCHANGED voucher
    <2>1. req' \in [Procs -> Request] /\ \A q \in Procs : RequestOK(req'[q], voucher')
      BY <1>1, <1>2, DoneOK
    <2> QED BY <1>1, <1>2, <2>1 DEF BooksInvariant, TypeOK, OneLivePerKey
  <1>3. CASE /\ KeyFree(row.ref)
             /\ \E v \in Unused : voucher' = [voucher EXCEPT ![v] = row, ![id].status = "CANCELLED"]
    <2>1. PICK v \in Vouchers :
            ~Written(voucher, v) /\ voucher' = [voucher EXCEPT ![v] = row, ![id].status = "CANCELLED"]
      BY <1>3 DEF Unused, Written
    <2>2. v # id
      BY <1>1, <2>1
    <2>3. /\ voucher' \in [Vouchers -> VoucherRow]
          /\ voucher'[v] = row /\ voucher'[id] = mark
          /\ \A w \in Vouchers \ {v, id} : voucher'[w] = voucher[w]
      <3>1. mark \in VoucherRow
        BY <1>1 DEF VoucherRow
      <3>2. voucher' = [[voucher EXCEPT ![v] = row] EXCEPT ![id] = mark]
        BY <1>1, <2>1, <2>2
      <3> HIDE DEF row, mark, id
      <3> QED BY <1>1, <2>2, <3>1, <3>2
    <2>4. mark.status = "CANCELLED" /\ mark.deleted = old.deleted
      BY <1>1 DEF VoucherRow
    <2> HIDE DEF row, mark, id
    <2>5. \A w \in Vouchers : Written(voucher, w) => Written(voucher', w)
      BY <2>1, <2>3, <2>4 DEF Written
    <2>6. req' \in [Procs -> Request] /\ \A q \in Procs : RequestOK(req'[q], voucher')
      BY <1>1, <2>5, DoneOK
    <2>7. OneLivePerKey'
      <3> SUFFICES ASSUME NEW ref \in SourceRefs, ref # None, NEW u \in Vouchers, NEW w \in Vouchers,
                          Holds(voucher', u, ref), Holds(voucher', w, ref)
                   PROVE  u = w
        BY DEF OneLivePerKey
      <3>1. \A x \in Vouchers \ {v} : Holds(voucher', x, ref) => Holds(voucher, x, ref)
        BY <2>3, <2>4 DEF Holds
      <3>2. Holds(voucher', v, ref) => \A x \in Vouchers : ~Holds(voucher, x, ref)
        <4>1. Holds(voucher', v, ref) => row.ref = ref
          BY <2>3 DEF Holds
        <4> QED BY <1>3, <4>1 DEF KeyFree, Holding, Holds, Live
      <3> QED BY <3>1, <3>2 DEF BooksInvariant, OneLivePerKey
    <2> QED BY <1>1, <2>3, <2>6, <2>7 DEF BooksInvariant, TypeOK
  <1> QED BY <1>2, <1>3 DEF WriteReversal

LEMMA WritePeriodStep ==
  ASSUME BooksInvariant, NEW p \in Procs, WritePeriod(p) PROVE BooksInvariant'
  <1> DEFINE k == req[p].per
             to == req[p].span
  <1>1. /\ period \in [Periods -> PeriodRow] /\ to \in PeriodRow
        /\ k \in Periods /\ Done(p) /\ UNCHANGED <<today, voucher, fails>>
    BY DEF BooksInvariant, TypeOK, RequestOK, Request, WritePeriod, OnAPeriod
  <1>2. period' \in [Periods -> PeriodRow]
    <2>1. \A old \in PeriodRow :
            /\ [old EXCEPT !.first = to.first, !.last = to.last] \in PeriodRow
            /\ \A s \in {"absent", "OPEN", "CLOSED"} : [old EXCEPT !.status = s] \in PeriodRow
      BY <1>1 DEF PeriodRow
    <2> DEFINE status == IF k \notin Defined THEN period[k].status
                         ELSE IF req[p].op = "close" THEN "CLOSED" ELSE "OPEN"
               redefined == [period[k] EXCEPT !.first = to.first, !.last = to.last]
               changed == [period[k] EXCEPT !.status = status]
    <2>2. \/ period' = [period EXCEPT ![k] = to]
          \/ period' = [period EXCEPT ![k] = redefined]
          \/ period' = [period EXCEPT ![k] = NoPeriod]
          \/ period' = [period EXCEPT ![k] = changed]
      BY <1>1 DEF WritePeriod, PeriodRow
    <2>3. redefined \in PeriodRow /\ changed \in PeriodRow
      <3>1. period[k] \in PeriodRow /\ period[k].status \in {"absent", "OPEN", "CLOSED"}
        BY <1>1 DEF PeriodRow
      <3>2. status \in {"absent", "OPEN", "CLOSED"}
        BY <3>1
      <3> HIDE DEF status
      <3> QED BY <2>1, <3>1, <3>2
    <2> HIDE DEF redefined, changed, k, to
    <2> QED BY <1>1, <2>2, <2>3, IdleOK
  <1>3. req' \in [Procs -> Request] /\ \A q \in Procs : RequestOK(req'[q], voucher')
    BY <1>1, DoneOK
  <1> QED BY <1>1, <1>2, <1>3 DEF BooksInvariant, TypeOK, OneLivePerKey

LEMMA BooksStep == BooksInvariant /\ [Next]_vars => BooksInvariant'
  <1> SUFFICES ASSUME BooksInvariant, [Next]_vars PROVE BooksInvariant'
    OBVIOUS
  <1>1. CASE UNCHANGED vars
    BY <1>1 DEF vars, BooksInvariant, TypeOK, OneLivePerKey
  <1>2. CASE Tick
    <2>1. today' \in 0..MaxDay
      BY <1>2, VoucherAssumption DEF Tick, BooksInvariant, TypeOK
    <2> QED BY <1>2, <2>1 DEF Tick, BooksInvariant, TypeOK, OneLivePerKey
  <1>3. ASSUME NEW p \in Procs, Begin(p) PROVE BooksInvariant'
    BY <1>3, CreateStep, EditStep, CancelStep, PaymentStep, PeriodStep DEF Begin
  <1>4. ASSUME NEW p \in Procs, Continue(p) PROVE BooksInvariant'
    BY <1>4, InsertStep, UpdateStep, PostStep, ReversalStep, WritePeriodStep DEF Continue
  <1>5. ASSUME NEW p \in Procs, Fail(p) PROVE BooksInvariant'
    <2>1. fails' \in 0..MaxFails /\ Done(p) /\ UNCHANGED <<today, voucher, period>>
      BY <1>5, VoucherAssumption DEF Fail, BooksInvariant, TypeOK
    <2>2. req' \in [Procs -> Request] /\ \A q \in Procs : RequestOK(req'[q], voucher')
      BY <2>1, DoneOK
    <2> QED BY <2>1, <2>2 DEF BooksInvariant, TypeOK, OneLivePerKey
  <1> QED BY <1>1, <1>2, <1>3, <1>4, <1>5 DEF Next

LEMMA InitBooks == Init => BooksInvariant
  <1> SUFFICES ASSUME Init PROVE BooksInvariant
    OBVIOUS
  <1>1. TypeOK
    BY IdleOK, VoucherAssumption DEF Init, TypeOK
  <1>2. OneLivePerKey
    BY DEF Init, OneLivePerKey, Holds, NoVoucher
  <1>3. \A p \in Procs : RequestOK(req[p], voucher)
    BY IdleOK DEF Init, RequestOK, Idle, ById, OnAPeriod
  <1> QED BY <1>1, <1>2, <1>3 DEF BooksInvariant

\* For any vouchers, periods, events and requests in flight: the tables hold rows
\* of their types, and every request what it decided on.
THEOREM BooksTyped == Spec => []TypeOK
  <1>1. BooksInvariant => TypeOK
    BY DEF BooksInvariant
  <1> QED BY InitBooks, BooksStep, <1>1, PTL DEF Spec

\* An event (or a reversal) has one live voucher at most, however listeners race,
\* clerks cancel and events are replayed: postAuto looks first and the unique index
\* stands behind it, and a post that would revive a cancelled voucher meets it too.
THEOREM OneVoucherPerEvent == Spec => []OneLivePerKey
  <1>1. BooksInvariant => OneLivePerKey
    BY DEF BooksInvariant
  <1> QED BY InitBooks, BooksStep, <1>1, PTL DEF Spec

-----------------------------------------------------------------------------
(* Periods, when one desk draws the calendar.                               *)

Drawing == {"define", "redefine"}
OneCalendar == \A p, q \in Procs : p # q => Ops[p] \cap Drawing = {} \/ Ops[q] \cap Drawing = {}

Disjoint ==
  \A j, k \in Defined, day \in 0..MaxDay : Covers(j, day) /\ Covers(k, day) => j = k

\* The span a request will write is still free of other periods.
StaysFree(r) ==
  \A k \in Defined : r.op \in Drawing /\ k # r.per =>
    ~(period[k].first <= r.span.last /\ r.span.first <= period[k].last)

CalendarInvariant ==
  /\ BooksInvariant
  /\ Disjoint
  /\ \A p \in Procs : /\ req[p].op \in Drawing => req[p].op \in Ops[p]
                      /\ StaysFree(req[p])

LEMMA DisjointCounts == Disjoint => PeriodsDisjoint
  <1> SUFFICES ASSUME Disjoint, NEW day \in 0..MaxDay
               PROVE  Cardinality(Containing(day)) <= 1
    BY DEF PeriodsDisjoint
  <1>1. CASE Containing(day) = {}
    BY <1>1, FS_EmptySet
  <1>2. CASE Containing(day) # {}
    <2>1. PICK k : k \in Containing(day)
      BY <1>2
    <2>2. Containing(day) = {k}
      BY <2>1 DEF Containing, Disjoint
    <2>3. Cardinality(Containing(day)) = 1
      BY <2>2, FS_Singleton
    <2> QED BY <2>3
  <1> QED BY <1>1, <1>2

\* A step that adds no period and moves none.
LEMMA CalendarKept ==
  ASSUME CalendarInvariant, BooksInvariant',
         \A k \in Periods : period'[k].status # "absent" =>
            /\ period[k].status # "absent"
            /\ period'[k].first = period[k].first /\ period'[k].last = period[k].last,
         \A q \in Procs : req'[q] = req[q] \/ req'[q].op \notin Drawing
                          \/ (req'[q].op \in Ops[q] /\ StaysFree(req[q])')
  PROVE  CalendarInvariant'
  <1>1. Disjoint'
    BY DEF CalendarInvariant, Disjoint, Defined, Covers
  <1>2. ASSUME NEW q \in Procs
        PROVE  (req'[q].op \in Drawing => req'[q].op \in Ops[q]) /\ StaysFree(req[q])'
    BY DEF CalendarInvariant, StaysFree, Defined
  <1> QED BY <1>1, <1>2 DEF CalendarInvariant

\* A step that draws: the one request that may is at work.
LEMMA CalendarDrawn ==
  ASSUME CalendarInvariant, BooksInvariant', OneCalendar, NEW p \in Procs,
         WritePeriod(p), req[p].op \in Drawing
  PROVE  CalendarInvariant'
  <1> DEFINE k == req[p].per
             to == req[p].span
  <1>1. /\ period \in [Periods -> PeriodRow] /\ k \in Periods /\ to \in PeriodRow
        /\ req \in [Procs -> Request] /\ req' = [req EXCEPT ![p] = Idle]
    BY DEF CalendarInvariant, BooksInvariant, TypeOK, RequestOK, Request, WritePeriod, Done,
           OnAPeriod, Drawing
  <1>2. /\ \A j \in Periods \ {k} : period'[j] = period[j]
        /\ period'[k].first = to.first /\ period'[k].last = to.last
    BY <1>1 DEF WritePeriod, Drawing, PeriodRow
  <1>3. \A j \in Defined \ {k} : ~(period[j].first <= to.last /\ to.first <= period[j].last)
    BY DEF CalendarInvariant, StaysFree
  <1>4. /\ to.first \in Nat /\ to.last \in Nat
        /\ \A j \in Periods : period[j].first \in Nat /\ period[j].last \in Nat
    BY <1>1, VoucherAssumption DEF PeriodRow
  <1> HIDE DEF k, to
  <1>5. Disjoint'
    <2> SUFFICES ASSUME NEW i \in Periods, NEW j \in Periods, NEW day \in 0..MaxDay,
                        period'[i].status # "absent", period'[j].status # "absent",
                        period'[i].first <= day, day <= period'[i].last,
                        period'[j].first <= day, day <= period'[j].last
                 PROVE  i = j
      BY DEF Disjoint, Defined, Covers
    <2>1. day \in Nat
      BY VoucherAssumption
    <2>2. CASE i # k /\ j # k
      BY <1>2, <2>2 DEF CalendarInvariant, Disjoint, Defined, Covers
    <2>3. CASE i = k /\ j # k
      BY <1>2, <1>3, <1>4, <2>1, <2>3 DEF Defined
    <2>4. CASE i # k /\ j = k
      BY <1>2, <1>3, <1>4, <2>1, <2>4 DEF Defined
    <2> QED BY <2>2, <2>3, <2>4
  <1>6. ASSUME NEW q \in Procs
        PROVE  (req'[q].op \in Drawing => req'[q].op \in Ops[q]) /\ StaysFree(req[q])'
    <2>1. req'[q].op \notin Drawing
      BY <1>1 DEF CalendarInvariant, OneCalendar, Drawing, Idle
    <2> QED BY <2>1 DEF StaysFree
  <1> QED BY <1>5, <1>6 DEF CalendarInvariant

\* A request to draw, as it begins.
LEMMA CalendarAsked ==
  ASSUME CalendarInvariant, NEW p \in Procs, DefinePeriod(p) \/ RedefinePeriod(p)
  PROVE  /\ UNCHANGED period
         /\ \A q \in Procs : req'[q] = req[q] \/ (req'[q].op \in Ops[q] /\ StaysFree(req[q])')
  <1>1. req \in [Procs -> Request] /\ UNCHANGED period
    BY DEF CalendarInvariant, BooksInvariant, TypeOK, DefinePeriod, RedefinePeriod, Asks
  <1>2. PICK op \in Drawing, k \in Periods, span \in Spans :
          /\ op \in Ops[p] /\ Asks(p, [Idle EXCEPT !.op = op, !.per = k, !.span = SpanOf(span)])
          /\ \A j \in Defined \ {k} : ~(period[j].first <= span[2] /\ span[1] <= period[j].last)
    <2>1. CASE DefinePeriod(p)
      BY <2>1, VoucherAssumption DEF DefinePeriod, Overlaps, Defined, Starts, Drawing
    <2>2. CASE RedefinePeriod(p)
      BY <2>2 DEF RedefinePeriod, Overlaps, Defined, Starts, Drawing
    <2> QED BY <2>1, <2>2
  <1> DEFINE new == [Idle EXCEPT !.op = op, !.per = k, !.span = SpanOf(span)]
  <1>3. req' = [req EXCEPT ![p] = new]
    BY <1>2 DEF Asks
  <1>4. new.op = op /\ new.per = k /\ new.span.first = span[1] /\ new.span.last = span[2]
    BY DEF Idle, SpanOf, NoPeriod
  <1> HIDE DEF new
  <1>5. StaysFree(req[p])' /\ req'[p].op \in Ops[p]
    BY <1>1, <1>2, <1>3, <1>4 DEF StaysFree, Defined
  <1> QED BY <1>1, <1>3, <1>5

\* What the other requests ask for is not to draw.
LEMMA NoDrawing ==
  ASSUME NEW p \in Procs,
         \/ Create(p) \/ Update(p) \/ Post(p) \/ Cancel(p)
         \/ PostPayment(p) \/ PostRefund(p)
         \/ RemovePeriod(p) \/ ClosePeriod(p) \/ ReopenPeriod(p)
  PROVE  \E r : Asks(p, r) /\ r.op \notin Drawing
  <1>1. ASSUME NEW op \in {"create", "update", "post", "delete", "cancel", "payment", "refund",
                           "remove", "close", "reopen"},
               NEW v, NEW k, NEW row,
               NEW r \in {[Idle EXCEPT !.op = op, !.row = row], [Idle EXCEPT !.op = op, !.id = v],
                          [Idle EXCEPT !.op = op, !.id = v, !.row = row],
                          [Idle EXCEPT !.op = op, !.per = k]},
               Asks(p, r)
        PROVE  \E x : Asks(p, x) /\ x.op \notin Drawing
    <2>1. r.op = op /\ op \notin Drawing
      BY DEF Idle, Drawing
    <2> QED BY <1>1, <2>1
  <1>2. CASE Create(p)
    <2>1. PICK row : Asks(p, [Idle EXCEPT !.op = "create", !.row = row])
      BY <1>2, Zenon DEF Create
    <2> QED BY <1>1, <2>1, Zenon
  <1>3. CASE Update(p)
    <2>1. PICK v, row : Asks(p, [Idle EXCEPT !.op = "update", !.id = v, !.row = row])
      BY <1>3, Zenon DEF Update
    <2> QED BY <1>1, <2>1, Zenon
  <1>4. CASE Post(p)
    <2>1. PICK v, row : Asks(p, [Idle EXCEPT !.op = "post", !.id = v, !.row = row])
      BY <1>4, Zenon DEF Post
    <2> QED BY <1>1, <2>1, Zenon
  <1>5. CASE Cancel(p)
    <2>1. \/ \E v : Asks(p, [Idle EXCEPT !.op = "delete", !.id = v])
          \/ \E v, row : Asks(p, [Idle EXCEPT !.op = "cancel", !.id = v, !.row = row])
      BY <1>5, Zenon DEF Cancel
    <2> QED BY <1>1, <2>1, Zenon
  <1>6. CASE PostPayment(p) \/ PostRefund(p)
    <2>1. PICK op \in {"payment", "refund"} : \E ref, day, cash : Raise(p, op, ref, day, cash)
      BY <1>6, Zenon DEF PostPayment, PostRefund
    <2>2. PICK row : Asks(p, [Idle EXCEPT !.op = op, !.row = row])
      BY <2>1, Zenon DEF Raise
    <2> QED BY <1>1, <2>1, <2>2, Zenon
  <1>7. CASE RemovePeriod(p) \/ ClosePeriod(p) \/ ReopenPeriod(p)
    <2>1. PICK op \in {"remove", "close", "reopen"}, k \in Periods :
            Asks(p, [Idle EXCEPT !.op = op, !.per = k])
      BY <1>7 DEF RemovePeriod, ClosePeriod, ReopenPeriod, Defined
    <2> QED BY <1>1, <2>1, Zenon
  <1> QED BY <1>2, <1>3, <1>4, <1>5, <1>6, <1>7

LEMMA CalendarStep == OneCalendar /\ CalendarInvariant /\ [Next]_vars => CalendarInvariant'
  <1> SUFFICES ASSUME OneCalendar, CalendarInvariant, [Next]_vars PROVE CalendarInvariant'
    OBVIOUS
  <1> DEFINE Quiet(q) == req'[q] = req[q] \/ req'[q].op \notin Drawing
  <1>1. BooksInvariant' /\ req \in [Procs -> Request]
    BY BooksStep DEF CalendarInvariant, BooksInvariant, TypeOK
  <1>2. CASE UNCHANGED vars
    <2>1. UNCHANGED <<period, req>>
      BY <1>2 DEF vars
    <2> QED BY <1>1, <2>1, CalendarKept
  <1>3. CASE Tick
    BY <1>1, <1>3, CalendarKept DEF Tick
  <1>4. ASSUME NEW p \in Procs, Begin(p) PROVE CalendarInvariant'
    <2>1. CASE DefinePeriod(p) \/ RedefinePeriod(p)
      BY <1>1, <2>1, CalendarAsked, CalendarKept
    <2>2. CASE ~(DefinePeriod(p) \/ RedefinePeriod(p))
      <3>1. PICK r : Asks(p, r) /\ r.op \notin Drawing
        BY <1>4, <2>2, NoDrawing DEF Begin
      <3>2. UNCHANGED period /\ \A q \in Procs : Quiet(q)
        BY <1>1, <3>1 DEF Asks
      <3> QED BY <1>1, <3>2, CalendarKept
    <2> QED BY <2>1, <2>2
  <1>5. ASSUME NEW p \in Procs, Done(p) PROVE \A q \in Procs : Quiet(q)
    BY <1>1, <1>5 DEF Done, Idle, Drawing
  <1>6. ASSUME NEW p \in Procs, Continue(p) PROVE CalendarInvariant'
    <2>1. CASE WritePeriod(p) /\ req[p].op \in Drawing
      BY <1>1, <2>1, CalendarDrawn
    <2>2. CASE WritePeriod(p) /\ req[p].op \notin Drawing
      <3> DEFINE k == req[p].per
      <3>1. Done(p) /\ k \in Periods /\ period \in [Periods -> PeriodRow]
        BY <2>2 DEF WritePeriod, CalendarInvariant, BooksInvariant, TypeOK, RequestOK, OnAPeriod
      <3>2. \/ period' = [period EXCEPT ![k] = NoPeriod]
            \/ \E status : /\ period[k].status = "absent" => status = "absent"
                           /\ period' = [period EXCEPT ![k].status = status]
        BY <2>2, <3>1 DEF WritePeriod, Drawing, Defined
      <3> HIDE DEF k
      <3>3. \A j \in Periods : period'[j].status # "absent" =>
              /\ period[j].status # "absent"
              /\ period'[j].first = period[j].first /\ period'[j].last = period[j].last
        BY <3>1, <3>2 DEF NoPeriod, PeriodRow
      <3> QED BY <1>1, <1>5, <3>1, <3>3, CalendarKept
    <2>3. CASE UNCHANGED period /\ Done(p)
      BY <1>1, <1>5, <2>3, CalendarKept
    <2> QED BY <1>6, <2>1, <2>2, <2>3
         DEF Continue, WriteNew, WriteUpdate, WritePost, WriteDelete, WriteReversal
  <1>7. ASSUME NEW p \in Procs, Fail(p) PROVE CalendarInvariant'
    BY <1>1, <1>5, <1>7, CalendarKept DEF Fail
  <1> QED BY <1>2, <1>3, <1>4, <1>6, <1>7 DEF Next

LEMMA InitCalendar == Init => CalendarInvariant
  <1> SUFFICES ASSUME Init PROVE CalendarInvariant
    OBVIOUS
  <1>1. Defined = {} /\ \A p \in Procs : req[p] = Idle
    BY DEF Init, Defined, NoPeriod
  <1> QED BY <1>1, InitBooks DEF CalendarInvariant, Disjoint, StaysFree, Idle, Drawing

\* Where one desk at a time defines and redefines periods, every date belongs to one
\* period at most, whatever else is at work: findOverlappingPeriod is read before the
\* write and only another such request can make it stale.
THEOREM PeriodsNeverOverlap ==
  ASSUME OneCalendar
  PROVE  Spec => []PeriodsDisjoint
  <1>1. CalendarInvariant /\ [Next]_vars => CalendarInvariant'
    BY CalendarStep
  <1>2. CalendarInvariant => PeriodsDisjoint
    BY DisjointCounts DEF CalendarInvariant
  <1> QED BY InitCalendar, <1>1, <1>2, PTL DEF Spec

-----------------------------------------------------------------------------
(* The lock of a closed month, when requests do not overlap and nothing is  *)
(* dated back.                                                              *)

OneAtATime == \A p, q \in Procs : p = q

OpenDay(day) == \A k \in Defined : Covers(k, day) => period[k].status # "CLOSED"

\* What the request in flight decided on is still so when it writes.
StillSo(r) ==
  /\ r.op \in Inserts \cup {"update", "cancel"} => OpenDay(r.row.date)
  /\ r.op \in {"update", "post", "delete"} => voucher[r.id].status = "DRAFT"
  /\ r.op = "post" => OpenDay(voucher[r.id].date)
  /\ r.op = "cancel" => Posted(r.id)
  /\ r.op \in {"redefine", "close"} => period[r.per].status # "CLOSED"
  /\ r.op = "close" => DraftsIn(r.per) = {}
  /\ r.op = "define" => r.span.status = "OPEN"

LockInvariant ==
  /\ CalendarInvariant
  /\ NoDraftStranded
  /\ \A p \in Procs : StillSo(req[p])

Locked ==
  \A k \in Periods : period[k].status = "CLOSED" /\ period'[k].status = "CLOSED"
                     => Figures(k)' = Figures(k)

LEMMA ResolvedIsOpen ==
  ASSUME CalendarInvariant, BackdateAfterClose = FALSE,
         NEW day \in 0..MaxDay, NEW k \in Resolve(day)
  PROVE  OpenDay(day)
  <1>1. CASE Containing(day) = {}
    BY <1>1 DEF Containing, OpenDay
  <1>2. CASE Containing(day) # {}
    <2>1. PICK j \in Containing(day) : period[j].status = "OPEN"
      BY <1>2 DEF Resolve
    <2>2. \A i \in Containing(day) : i = j
      BY <2>1 DEF CalendarInvariant, Disjoint, Containing
    <2> QED BY <2>1, <2>2 DEF OpenDay, Containing
  <1> QED BY <1>1, <1>2

LEMMA LockAsked ==
  ASSUME LockInvariant, OneAtATime, CalendarInvariant', NEW p \in Procs, NEW r,
         Asks(p, r), StillSo(r)
  PROVE  LockInvariant' /\ Locked
  <1>1. req \in [Procs -> Request] /\ UNCHANGED <<voucher, period>>
    BY DEF LockInvariant, CalendarInvariant, BooksInvariant, TypeOK, Asks
  <1>2. \A q \in Procs : req'[q] = r
    BY <1>1 DEF OneAtATime, Asks
  <1>3. \A x : StillSo(x)' <=> StillSo(x)
    BY <1>1 DEF StillSo, OpenDay, Defined, Covers, Posted, Live, DraftsIn
  <1>4. NoDraftStranded' /\ Locked
    BY <1>1 DEF LockInvariant, NoDraftStranded, Defined, Covers, Live, Locked, Figures, Posted
  <1> QED BY <1>2, <1>3, <1>4 DEF LockInvariant

LEMMA LockDone ==
  ASSUME OneAtATime, CalendarInvariant, CalendarInvariant', NoDraftStranded',
         NEW p \in Procs, Done(p)
  PROVE  LockInvariant'
  <1>1. \A q \in Procs : req'[q] = Idle
    BY DEF OneAtATime, Done, CalendarInvariant, BooksInvariant, TypeOK
  <1>2. StillSo(Idle)'
    BY DEF StillSo, Idle, Inserts
  <1> QED BY <1>1, <1>2 DEF LockInvariant

\* A write to the vouchers: what is new lies in an open month, and what was posted
\* stays as it was.
LEMMA LedgerKept ==
  ASSUME LockInvariant, UNCHANGED period,
         \A v \in Vouchers :
            \/ voucher'[v] = voucher[v]
            \/ ~Posted(v) /\ OpenDay(voucher'[v].date)
            \/ ~Posted(v) /\ ~Live(v)'
            \/ /\ Posted(v) /\ Posted(v)'
               /\ voucher'[v].date = voucher[v].date /\ voucher'[v].cash = voucher[v].cash
  PROVE  NoDraftStranded' /\ Locked
  <1>1. NoDraftStranded'
    <2> SUFFICES ASSUME NEW k \in Defined, NEW v \in Vouchers, period[k].status = "CLOSED",
                        Live(v)', voucher'[v].status = "DRAFT"
                 PROVE  ~Covers(k, voucher'[v].date)
      BY DEF NoDraftStranded, Defined, Covers
    <2> QED BY DEF LockInvariant, NoDraftStranded, OpenDay, Live, Posted
  <1>2. ASSUME NEW k \in Periods, period[k].status = "CLOSED" PROVE Figures(k)' = Figures(k)
    <2> DEFINE In(v) == Posted(v) /\ Covers(k, voucher[v].date)
    <2>1. ASSUME NEW v \in Vouchers
          PROVE  (In(v)' <=> In(v)) /\ (In(v) => voucher'[v].cash = voucher[v].cash)
      <3>1. k \in Defined
        BY <1>2 DEF Defined
      <3> QED BY <1>2, <3>1 DEF OpenDay, Covers, Posted, Live
    <2>2. Figures(k) = {<<v, voucher[v].cash>> : v \in {w \in Vouchers : In(w)}}
      BY DEF Figures
    <2>3. Figures(k)' = {<<v, voucher'[v].cash>> : v \in {w \in Vouchers : In(w)'}}
      BY DEF Figures
    <2> HIDE DEF In
    <2> QED BY <2>1, <2>2, <2>3
  <1> QED BY <1>1, <1>2 DEF Locked

\* Every request decides on what the tables say as it begins.
LEMMA RowDecided ==
  ASSUME LockInvariant, OneAtATime, BackdateAfterClose = FALSE, CalendarInvariant',
         NEW p \in Procs, NEW op \in Inserts, NEW day \in 0..MaxDay, NEW k \in Resolve(day),
         NEW row, row.date = day, Asks(p, [Idle EXCEPT !.op = op, !.row = row])
  PROVE  LockInvariant' /\ Locked
  <1> DEFINE new == [Idle EXCEPT !.op = op, !.row = row]
  <1>1. new.op = op /\ new.row = row
    BY DEF Idle
  <1> HIDE DEF new
  <1>2. OpenDay(day)
    BY ResolvedIsOpen DEF LockInvariant
  <1>3. StillSo(new)
    BY <1>1, <1>2 DEF StillSo, Inserts
  <1> QED BY <1>3, LockAsked DEF new

LEMMA EntryAsked ==
  ASSUME LockInvariant, OneAtATime, BackdateAfterClose = FALSE, CalendarInvariant',
         NEW p \in Procs, Create(p) \/ PostPayment(p) \/ PostRefund(p)
  PROVE  LockInvariant' /\ Locked
  <1>1. today \in 0..MaxDay /\ today \in Nat /\ MaxDay \in Nat
    BY VoucherAssumption DEF LockInvariant, CalendarInvariant, BooksInvariant, TypeOK
  <1>2. CASE Create(p)
    <2>1. PICK day \in 0..today, cash \in (-MaxAmount)..MaxAmount,
               status \in {"DRAFT", "POSTED"} :
            \E k \in Resolve(day) :
              Asks(p, [Idle EXCEPT !.op = "create",
                !.row = [NoVoucher EXCEPT !.status = status, !.date = day, !.cash = cash,
                                          !.period = k]])
      BY <1>2, Zenon DEF Create
    <2>2. PICK k \in Resolve(day) :
            Asks(p, [Idle EXCEPT !.op = "create",
              !.row = [NoVoucher EXCEPT !.status = status, !.date = day, !.cash = cash,
                                        !.period = k]])
      BY <2>1
    <2> DEFINE row == [NoVoucher EXCEPT !.status = status, !.date = day, !.cash = cash,
                                        !.period = k]
    <2>3. row.date = day
      BY DEF NoVoucher
    <2>4. day \in 0..MaxDay /\ "create" \in Inserts
      BY <1>1 DEF Inserts
    <2> HIDE DEF row
    <2> QED BY <2>2, <2>3, <2>4, RowDecided DEF row
  <1>3. CASE PostPayment(p) \/ PostRefund(p)
    <2>1. PICK op \in Inserts, day \in 0..MaxDay : \E ref, cash : Raise(p, op, ref, day, cash)
      BY <1>1, <1>3, VoucherAssumption DEF PostPayment, PostRefund, Inserts
    <2>2. PICK ref, cash : Raise(p, op, ref, day, cash)
      BY <2>1
    <2> DEFINE status == IF AutoPostAsDraft THEN "DRAFT" ELSE "POSTED"
               row(k) == [NoVoucher EXCEPT !.status = status, !.ref = ref, !.date = day,
                                           !.cash = cash, !.period = k]
    <2>3. PICK k \in Resolve(day) : Asks(p, [Idle EXCEPT !.op = op, !.row = row(k)])
      BY <2>2 DEF Raise
    <2>4. row(k).date = day
      BY DEF NoVoucher
    <2> HIDE DEF row
    <2> QED BY <2>3, <2>4, RowDecided
  <1> QED BY <1>2, <1>3

LEMMA ChangeAsked ==
  ASSUME LockInvariant, OneAtATime, BackdateAfterClose = FALSE, CalendarInvariant',
         NEW p \in Procs, Update(p) \/ Post(p) \/ Cancel(p)
  PROVE  LockInvariant' /\ Locked
  <1>1. /\ today \in 0..MaxDay /\ today \in Nat /\ MaxDay \in Nat
        /\ voucher \in [Vouchers -> VoucherRow]
    BY VoucherAssumption DEF LockInvariant, CalendarInvariant, BooksInvariant, TypeOK
  <1>2. CASE Update(p)
    <2>0. PICK v \in Vouchers, day \in 0..today, cash \in (-MaxAmount)..MaxAmount :
            /\ Editable(v)
            /\ \E k \in Resolve(day) :
                 Asks(p, [Idle EXCEPT !.op = "update", !.id = v,
                   !.row = [voucher[v] EXCEPT !.date = day, !.cash = cash, !.period = k]])
      BY <1>2, Zenon DEF Update
    <2>1. PICK k \in Resolve(day) :
            Asks(p, [Idle EXCEPT !.op = "update", !.id = v,
              !.row = [voucher[v] EXCEPT !.date = day, !.cash = cash, !.period = k]])
      BY <2>0
    <2> DEFINE row == [voucher[v] EXCEPT !.date = day, !.cash = cash, !.period = k]
               new == [Idle EXCEPT !.op = "update", !.id = v, !.row = row]
    <2>2. OpenDay(day)
      <3>1. day \in 0..MaxDay
        BY <1>1
      <3> QED BY <3>1, ResolvedIsOpen DEF LockInvariant
    <2>3. row.date = day
      <3> DEFINE old == voucher[v]
      <3>1. old \in VoucherRow
        BY <1>1
      <3> HIDE DEF old
      <3>2. [old EXCEPT !.date = day, !.cash = cash, !.period = k].date = day
        BY <3>1 DEF VoucherRow
      <3> QED BY <3>2 DEF old
    <2> HIDE DEF row
    <2>4. new.op = "update" /\ new.id = v /\ new.row = row
      BY DEF Idle
    <2> HIDE DEF new
    <2>5. StillSo(new)
      BY <2>0, <2>2, <2>3, <2>4 DEF StillSo, Inserts, Editable
    <2> QED BY <2>1, <2>5, LockAsked DEF new, row
  <1>3. CASE Post(p)
    <2>0. PICK v \in Vouchers :
            /\ voucher[v].status = "DRAFT"
            /\ \E k \in Resolve(voucher[v].date) :
                 Asks(p, [Idle EXCEPT !.op = "post", !.id = v,
                   !.row = [voucher[v] EXCEPT !.status = "POSTED", !.period = k]])
      BY <1>3, Zenon DEF Post
    <2>1. PICK k \in Resolve(voucher[v].date) :
            Asks(p, [Idle EXCEPT !.op = "post", !.id = v,
              !.row = [voucher[v] EXCEPT !.status = "POSTED", !.period = k]])
      BY <2>0
    <2> DEFINE row == [voucher[v] EXCEPT !.status = "POSTED", !.period = k]
               new == [Idle EXCEPT !.op = "post", !.id = v, !.row = row]
    <2>2. voucher[v].date \in 0..MaxDay
      BY <1>1 DEF VoucherRow
    <2>3. OpenDay(voucher[v].date)
      BY <2>2, ResolvedIsOpen DEF LockInvariant
    <2> HIDE DEF row
    <2>4. new.op = "post" /\ new.id = v
      BY DEF Idle
    <2> HIDE DEF new
    <2>5. StillSo(new)
      BY <2>0, <2>3, <2>4 DEF StillSo, Inserts
    <2> QED BY <2>1, <2>5, LockAsked DEF new, row
  <1>4. CASE Cancel(p)
    <2>1. PICK v \in Vouchers :
            /\ Live(v)
            /\ \/ /\ voucher[v].status = "DRAFT"
                  /\ Asks(p, [Idle EXCEPT !.op = "delete", !.id = v])
               \/ /\ voucher[v].status = "POSTED"
                  /\ \E k \in Resolve(today) :
                       Asks(p, [Idle EXCEPT !.op = "cancel", !.id = v,
                         !.row = [NoVoucher EXCEPT !.status = "POSTED",
                               !.ref = ReversalRef(v), !.date = ReversalDate(v),
                               !.cash = -voucher[v].cash, !.period = k,
                               !.reverses = v]])
      BY <1>4, Zenon DEF Cancel
    <2>2. CASE voucher[v].status = "DRAFT" /\ Asks(p, [Idle EXCEPT !.op = "delete", !.id = v])
      <3> DEFINE new == [Idle EXCEPT !.op = "delete", !.id = v]
      <3>1. new.op = "delete" /\ new.id = v
        BY DEF Idle
      <3> HIDE DEF new
      <3>2. StillSo(new)
        BY <2>2, <3>1 DEF StillSo, Inserts
      <3> QED BY <2>2, <3>2, LockAsked DEF new
    <2>3. CASE /\ voucher[v].status = "POSTED"
               /\ \E k \in Resolve(today) :
                       Asks(p, [Idle EXCEPT !.op = "cancel", !.id = v,
                         !.row = [NoVoucher EXCEPT !.status = "POSTED",
                               !.ref = ReversalRef(v), !.date = ReversalDate(v),
                               !.cash = -voucher[v].cash, !.period = k,
                               !.reverses = v]])
      <3>1. PICK k \in Resolve(today) :
                       Asks(p, [Idle EXCEPT !.op = "cancel", !.id = v,
                         !.row = [NoVoucher EXCEPT !.status = "POSTED",
                               !.ref = ReversalRef(v), !.date = ReversalDate(v),
                               !.cash = -voucher[v].cash, !.period = k,
                               !.reverses = v]])
        BY <2>3, Zenon
      <3> DEFINE row == [NoVoucher EXCEPT !.status = "POSTED",
                               !.ref = ReversalRef(v), !.date = ReversalDate(v),
                               !.cash = -voucher[v].cash, !.period = k,
                               !.reverses = v]
                 new == [Idle EXCEPT !.op = "cancel", !.id = v, !.row = row]
      <3>2. row.date = today
        BY DEF NoVoucher, ReversalDate
      <3> HIDE DEF row
      <3>3. new.op = "cancel" /\ new.id = v /\ new.row = row
        BY DEF Idle
      <3> HIDE DEF new
      <3>4. OpenDay(today)
        BY <1>1, ResolvedIsOpen DEF LockInvariant
      <3>5. StillSo(new)
        BY <2>1, <2>3, <3>2, <3>3, <3>4 DEF StillSo, Inserts, Posted
      <3> QED BY <3>1, <3>5, LockAsked DEF new, row
    <2> QED BY <2>1, <2>2, <2>3
  <1> QED BY <1>2, <1>3, <1>4

LEMMA PeriodAskedFor ==
  ASSUME LockInvariant, OneAtATime, CalendarInvariant', NEW p \in Procs,
         \/ DefinePeriod(p) \/ RedefinePeriod(p) \/ RemovePeriod(p)
         \/ ClosePeriod(p) \/ ReopenPeriod(p)
  PROVE  LockInvariant' /\ Locked
  <1>1. CASE DefinePeriod(p) \/ RedefinePeriod(p)
    <2>1. PICK op \in {"define", "redefine"}, k \in Periods, span \in Spans :
            /\ Asks(p, [Idle EXCEPT !.op = op, !.per = k, !.span = SpanOf(span)])
            /\ op = "redefine" => period[k].status # "CLOSED"
      BY <1>1 DEF DefinePeriod, RedefinePeriod, Defined
    <2> DEFINE new == [Idle EXCEPT !.op = op, !.per = k, !.span = SpanOf(span)]
    <2>2. new.op = op /\ new.per = k /\ new.span.status = "OPEN"
      BY DEF Idle, SpanOf, NoPeriod
    <2> HIDE DEF new
    <2>3. StillSo(new)
      BY <2>1, <2>2 DEF StillSo, Inserts
    <2> QED BY <2>1, <2>3, LockAsked DEF new
  <1>2. CASE RemovePeriod(p) \/ ClosePeriod(p) \/ ReopenPeriod(p)
    <2>1. PICK op \in {"remove", "close", "reopen"}, k \in Periods :
            /\ Asks(p, [Idle EXCEPT !.op = op, !.per = k])
            /\ op = "close" => period[k].status # "CLOSED" /\ DraftsIn(k) = {}
      BY <1>2 DEF RemovePeriod, ClosePeriod, ReopenPeriod, Defined
    <2> DEFINE new == [Idle EXCEPT !.op = op, !.per = k]
    <2>2. new.op = op /\ new.per = k
      BY DEF Idle
    <2> HIDE DEF new
    <2>3. StillSo(new)
      BY <2>1, <2>2 DEF StillSo, Inserts
    <2> QED BY <2>1, <2>3, LockAsked DEF new
  <1> QED BY <1>1, <1>2

\* The writes to the vouchers.
LEMMA LockWritten ==
  ASSUME LockInvariant, OneAtATime, CalendarInvariant', NEW p \in Procs,
         \/ WriteNew(p) \/ WriteUpdate(p) \/ WritePost(p) \/ WriteDelete(p) \/ WriteReversal(p)
  PROVE  LockInvariant' /\ Locked
  <1> DEFINE id == req[p].id
             row == req[p].row
             Kept(v) == \/ voucher'[v] = voucher[v]
                        \/ ~Posted(v) /\ OpenDay(voucher'[v].date)
                        \/ ~Posted(v) /\ ~Live(v)'
                        \/ /\ Posted(v) /\ Posted(v)'
                           /\ voucher'[v].date = voucher[v].date
                           /\ voucher'[v].cash = voucher[v].cash
  <1>1. /\ voucher \in [Vouchers -> VoucherRow] /\ row \in VoucherRow
        /\ UNCHANGED period /\ Done(p) /\ StillSo(req[p])
    BY DEF LockInvariant, CalendarInvariant, BooksInvariant, TypeOK, Request,
           WriteNew, WriteUpdate, WritePost, WriteDelete, WriteReversal
  <1>2. req[p].op \in ById => id \in Vouchers
    BY DEF LockInvariant, CalendarInvariant, BooksInvariant, RequestOK
  <1>3. CalendarInvariant
    BY DEF LockInvariant
  <1>4. SUFFICES \A v \in Vouchers : Kept(v)
    BY <1>1, <1>3, LedgerKept, LockDone
  <1>5. CASE WriteNew(p)
    <2>1. OpenDay(row.date)
      BY <1>1, <1>5 DEF StillSo, WriteNew, Inserts
    <2>2. CASE UNCHANGED voucher
      BY <2>2
    <2>3. CASE \E v \in Unused : voucher' = [voucher EXCEPT ![v] = row]
      <3>1. PICK v \in Vouchers : ~Posted(v) /\ voucher' = [voucher EXCEPT ![v] = row]
        BY <2>3 DEF Unused, Posted, Live
      <3>2. voucher'[v] = row /\ \A w \in Vouchers \ {v} : voucher'[w] = voucher[w]
        BY <1>1, <3>1
      <3> QED BY <2>1, <3>1, <3>2
    <2> QED BY <1>5, <2>2, <2>3 DEF WriteNew
  <1>6. CASE WriteUpdate(p)
    <2>1. id \in Vouchers /\ OpenDay(row.date) /\ ~Posted(id)
      BY <1>1, <1>2, <1>6 DEF StillSo, WriteUpdate, ById, Posted
    <2>2. voucher'[id].date = row.date /\ \A w \in Vouchers \ {id} : voucher'[w] = voucher[w]
      BY <1>1, <1>6, <2>1 DEF WriteUpdate, VoucherRow
    <2> QED BY <2>1, <2>2
  <1>7. CASE WritePost(p)
    <2>1. id \in Vouchers /\ OpenDay(voucher[id].date) /\ ~Posted(id)
      BY <1>1, <1>2, <1>7 DEF StillSo, WritePost, ById, Posted
    <2>2. /\ voucher'[id].date = voucher[id].date
          /\ \A w \in Vouchers \ {id} : voucher'[w] = voucher[w]
      BY <1>1, <1>7, <2>1 DEF WritePost, VoucherRow
    <2> QED BY <2>1, <2>2
  <1>8. CASE WriteDelete(p)
    <2>1. id \in Vouchers /\ ~Posted(id)
      BY <1>1, <1>2, <1>8 DEF StillSo, WriteDelete, ById, Posted
    <2>2. voucher'[id].deleted /\ \A w \in Vouchers \ {id} : voucher'[w] = voucher[w]
      BY <1>1, <1>8, <2>1 DEF WriteDelete, VoucherRow
    <2> QED BY <2>1, <2>2 DEF Live
  <1>9. CASE WriteReversal(p)
    <2>1. id \in Vouchers /\ OpenDay(row.date) /\ Posted(id)
      BY <1>1, <1>2, <1>9 DEF StillSo, WriteReversal, ById
    <2>2. CASE UNCHANGED voucher
      BY <2>2
    <2>3. CASE \E v \in Unused : voucher' = [voucher EXCEPT ![v] = row, ![id].status = "CANCELLED"]
      <3>1. PICK v \in Vouchers :
              /\ ~Posted(v)
              /\ voucher' = [voucher EXCEPT ![v] = row, ![id].status = "CANCELLED"]
        BY <2>3 DEF Unused, Posted, Live
      <3>2. v # id
        BY <2>1, <3>1
      <3>3. /\ voucher'[v] = row
            /\ voucher'[id] = [voucher[id] EXCEPT !.status = "CANCELLED"]
            /\ \A w \in Vouchers \ {v, id} : voucher'[w] = voucher[w]
        BY <1>1, <2>1, <3>1, <3>2
      <3>4. ASSUME NEW w \in Vouchers, w = id PROVE Kept(w)
        <4>1. /\ voucher'[w].status = "CANCELLED" /\ voucher'[w].date = voucher[w].date
              /\ voucher'[w].cash = voucher[w].cash /\ voucher'[w].deleted = voucher[w].deleted
          BY <1>1, <3>3, <3>4 DEF VoucherRow
        <4> HIDE DEF id
        <4> QED BY <2>1, <3>4, <4>1 DEF Posted, Live
      <3>5. Kept(v)
        BY <2>1, <3>1, <3>3
      <3>6. \A w \in Vouchers \ {v, id} : Kept(w)
        BY <3>3
      <3> HIDE DEF Kept
      <3> QED BY <3>4, <3>5, <3>6
    <2> QED BY <1>9, <2>2, <2>3 DEF WriteReversal
  <1> QED BY <1>5, <1>6, <1>7, <1>8, <1>9

\* The writes to the periods: a closed one is reopened or removed, never moved.
LEMMA LockOfPeriods ==
  ASSUME LockInvariant, OneAtATime, CalendarInvariant', NEW p \in Procs, WritePeriod(p)
  PROVE  LockInvariant' /\ Locked
  <1> DEFINE k == req[p].per
             to == req[p].span
  <1>1. /\ period \in [Periods -> PeriodRow] /\ to \in PeriodRow /\ k \in Periods
        /\ UNCHANGED voucher /\ Done(p) /\ StillSo(req[p])
    BY DEF LockInvariant, CalendarInvariant, BooksInvariant, TypeOK, Request, RequestOK,
           OnAPeriod, WritePeriod
  <1>2. \A j \in Periods \ {k} : period'[j] = period[j]
    BY <1>1 DEF WritePeriod
  <1>3. period'[k].status = "CLOSED" =>
          /\ period'[k].first = period[k].first /\ period'[k].last = period[k].last
          /\ period[k].status # "absent"
          /\ period[k].status = "CLOSED" \/ DraftsIn(k) = {}
    <2>1. CASE req[p].op = "define"
      BY <1>1, <2>1 DEF WritePeriod, StillSo
    <2>2. CASE req[p].op = "redefine"
      BY <1>1, <2>2 DEF WritePeriod, StillSo, PeriodRow
    <2>3. CASE req[p].op = "remove"
      BY <1>1, <2>3 DEF WritePeriod, NoPeriod
    <2>4. CASE req[p].op \in {"close", "reopen"}
      BY <1>1, <2>4 DEF WritePeriod, StillSo, PeriodRow, Defined
    <2> QED BY <2>1, <2>2, <2>3, <2>4 DEF WritePeriod
  <1>4. NoDraftStranded'
    <2> SUFFICES ASSUME NEW j \in Periods, NEW v \in Vouchers, period'[j].status = "CLOSED",
                        Live(v), voucher[v].status = "DRAFT"
                 PROVE  ~(period'[j].first <= voucher[v].date /\ voucher[v].date <= period'[j].last)
      BY <1>1 DEF NoDraftStranded, Defined, Covers, Live
    <2>1. CASE j # k
      BY <1>2, <2>1 DEF LockInvariant, NoDraftStranded, Defined, Covers
    <2>2. CASE j = k
      BY <1>3, <2>2 DEF LockInvariant, NoDraftStranded, Defined, Covers, DraftsIn
    <2> QED BY <2>1, <2>2
  <1>5. Locked
    <2> SUFFICES ASSUME NEW j \in Periods, period'[j].status = "CLOSED"
                 PROVE  Figures(j)' = Figures(j)
      BY DEF Locked
    <2>1. period'[j].first = period[j].first /\ period'[j].last = period[j].last
      BY <1>2, <1>3
    <2> QED BY <1>1, <2>1 DEF Figures, Posted, Live, Covers
  <1> QED BY <1>1, <1>4, <1>5, LockDone DEF LockInvariant

LEMMA LockStep ==
  OneAtATime /\ BackdateAfterClose = FALSE /\ LockInvariant /\ [Next]_vars
  => LockInvariant' /\ [Locked]_vars
  <1> SUFFICES ASSUME OneAtATime, BackdateAfterClose = FALSE, LockInvariant, [Next]_vars
               PROVE  LockInvariant' /\ [Locked]_vars
    OBVIOUS
  <1>1. CalendarInvariant'
    BY CalendarStep DEF LockInvariant, OneCalendar, OneAtATime
  <1>2. CASE UNCHANGED vars
    BY <1>1, <1>2 DEF vars, LockInvariant, NoDraftStranded, StillSo, OpenDay, Defined, Covers,
                      Live, Posted, DraftsIn
  <1>3. CASE Tick
    <2>1. UNCHANGED <<voucher, period, req>>
      BY <1>3 DEF Tick
    <2>2. LockInvariant'
      BY <1>1, <2>1 DEF LockInvariant, NoDraftStranded, StillSo, OpenDay, Defined, Covers,
                        Live, Posted, DraftsIn
    <2> QED BY <2>1, <2>2 DEF Locked, Figures, Posted, Live, Covers
  <1>4. ASSUME NEW p \in Procs, Begin(p) PROVE LockInvariant' /\ Locked
    BY <1>1, <1>4, EntryAsked, ChangeAsked, PeriodAskedFor DEF Begin
  <1>5. ASSUME NEW p \in Procs, Continue(p) PROVE LockInvariant' /\ Locked
    BY <1>1, <1>5, LockWritten, LockOfPeriods DEF Continue
  <1>6. ASSUME NEW p \in Procs, Fail(p) PROVE LockInvariant' /\ Locked
    <2>1. Done(p) /\ UNCHANGED <<voucher, period>>
      BY <1>6 DEF Fail
    <2>2. NoDraftStranded' /\ Locked
      BY <2>1, LedgerKept DEF LockInvariant
    <2> QED BY <1>1, <2>1, <2>2, LockDone DEF LockInvariant
  <1> QED BY <1>2, <1>3, <1>4, <1>5, <1>6 DEF Next

LEMMA InitLock == Init => LockInvariant
  <1> SUFFICES ASSUME Init PROVE LockInvariant
    OBVIOUS
  <1>1. Defined = {} /\ \A p \in Procs : req[p] = Idle
    BY DEF Init, Defined, NoPeriod
  <1> QED BY <1>1, InitCalendar DEF LockInvariant, NoDraftStranded, StillSo, Idle, Inserts

\* Where requests do not overlap and vouchers are not dated back into a closed month,
\* closing leaves no draft behind and none gets in later: an edit, a post and an event
\* all resolve the period of their day first.
THEOREM DraftsAreNeverStranded ==
  ASSUME OneAtATime, BackdateAfterClose = FALSE
  PROVE  Spec => []NoDraftStranded
  <1>1. LockInvariant /\ [Next]_vars => LockInvariant'
    BY LockStep
  <1>2. LockInvariant => NoDraftStranded
    BY DEF LockInvariant
  <1> QED BY InitLock, <1>1, <1>2, PTL DEF Spec

\* Under the same terms a CLOSED month is locked: no step changes what the reports
\* show of it while it stays closed, and reversals fall on the day they are made.
THEOREM ClosedMonthIsLocked ==
  ASSUME OneAtATime, BackdateAfterClose = FALSE
  PROVE  Spec => ClosedMonthKeepsItsFigures
  <1>1. LockInvariant /\ [Next]_vars => LockInvariant' /\ [Locked]_vars
    BY LockStep
  <1>2. [Locked]_vars =>
          [\A k \in Periods : period[k].status = "CLOSED" /\ period'[k].status = "CLOSED"
                              => Figures(k)' = Figures(k)]_vars
    BY DEF Locked
  <1> QED BY InitLock, <1>1, <1>2, PTL DEF Spec, ClosedMonthKeepsItsFigures

-----------------------------------------------------------------------------
(* What is booked.  Reversals are not cancelled in their turn, and one     *)
(* clerk has all drafts in hand and all vouchers entered by hand:          *)
(* voucher.service.ts checks a status before the transaction and writes    *)
(* by id.  Vouchers raised by events may be cancelled by anyone, their     *)
(* reversals being under uq_vouchers_source_ref.                           *)

ByClerk == {"update", "post", "cancel"} \cup IF AutoPostAsDraft THEN {"cancelAuto"} ELSE {}
Clerk(p) == Ops[p] \cap ByClerk # {}
OneClerk == ReversalsStand /\ \A p, q \in Procs : Clerk(p) /\ Clerk(q) => p = q

EventRefs == ({"payment"} \X Payments) \cup ({"refund"} \X Refunds)
Worth(ref) == IF ref[1] = "payment" THEN Amount[ref[2]] ELSE -RefundAmount[ref[2]]

\* A row that is no reversal, and what a handler decides to insert.
Tells(row) ==
  /\ row.ref \in EventRefs \cup {None}
  /\ row.ref # None => row.cash = Worth(row.ref)
  /\ row.ref # None /\ row.status = "DRAFT" => AutoPostAsDraft

Fresh(row) ==
  /\ row.status \in {"DRAFT", "POSTED"} /\ ~row.deleted /\ row.reverses = None
  /\ Tells(row)

\* A reversal of v.
Mirrors(V, row, v) ==
  /\ row.status = "POSTED" /\ ~row.deleted /\ row.reverses = v /\ row.cash = -V[v].cash
  /\ row.ref = IF V[v].ref = None THEN None ELSE <<"reversal", v>>
  /\ V[v].reverses = None /\ ~V[v].deleted

RowKept(V, v) ==
  /\ ~Written(V, v) => V[v] = NoVoucher
  /\ Written(V, v) /\ V[v].reverses = None => Tells(V[v])
  /\ V[v].deleted => V[v].status = "DRAFT"
  /\ V[v].reverses # None =>
       /\ V[v].reverses \in Vouchers
       /\ Mirrors(V, V[v], V[v].reverses)
       /\ V[V[v].reverses].status = "CANCELLED"
  /\ V[v].status = "CANCELLED" =>
       V[v].reverses = None /\ \E w \in Vouchers : V[w].reverses = v

OneMirror(V) ==
  \A v, w \in Vouchers : V[v].reverses # None /\ V[v].reverses = V[w].reverses => v = w

TableOK(V) ==
  /\ V \in [Vouchers -> VoucherRow]
  /\ \A v \in Vouchers : RowKept(V, v)
  /\ OneMirror(V)

\* What p will write still fits the table.
Decided(p, r, V) ==
  /\ r.op \in Inserts => Fresh(r.row)
  /\ r.op \in {"update", "post", "delete"} =>
       Clerk(p) /\ V[r.id].status = "DRAFT" /\ ~V[r.id].deleted
  /\ r.op = "update" => V[r.id].ref = None
  /\ r.op = "cancel" =>
       /\ Mirrors(V, r.row, r.id)
       /\ V[r.id].status = "POSTED" \/ (V[r.id].status = "CANCELLED" /\ V[r.id].ref # None)
       /\ V[r.id].ref = None => Clerk(p)

-----------------------------------------------------------------------------
(* The three ways the table changes. *)

NobodyHolds(V, ref) == ref = None \/ \A u \in Vouchers : ~Holds(V, u, ref)

Inserted(V, W, v, row) ==
  /\ v \in Vouchers /\ ~Written(V, v) /\ row \in VoucherRow
  /\ Fresh(row) /\ NobodyHolds(V, row.ref)
  /\ W = [V EXCEPT ![v] = row]

Redrafted(V, W, v, row) ==
  /\ v \in Vouchers /\ V[v].status = "DRAFT" /\ ~V[v].deleted /\ row \in VoucherRow
  /\ row.status \in {"DRAFT", "POSTED"} /\ (row.deleted => row.status = "DRAFT")
  /\ row.ref = V[v].ref /\ row.reverses = V[v].reverses
  /\ row.ref = None \/ row.cash = V[v].cash
  /\ W = [V EXCEPT ![v] = row]

Reversed(V, W, id, v, row) ==
  /\ v \in Vouchers /\ ~Written(V, v) /\ row \in VoucherRow
  /\ id \in Vouchers /\ V[id].status = "POSTED" /\ Mirrors(V, row, id)
  /\ W \in [Vouchers -> VoucherRow]
  /\ W[v] = row /\ W[id] = [V[id] EXCEPT !.status = "CANCELLED"]
  /\ \A u \in Vouchers \ {v, id} : W[u] = V[u]

\* A reversal points at a cancelled row, a draft at none, and no event is a reversal.
LEMMA Pointers ==
  ASSUME NEW V, TableOK(V), NEW v \in Vouchers
  PROVE  /\ V[v].reverses # None => V[V[v].reverses].status = "CANCELLED"
                                    /\ V[v].reverses \in Vouchers
         /\ V[v].status \in {"absent", "DRAFT", "CANCELLED"} => V[v].reverses = None
         /\ V[v].ref \in EventRefs => V[v].reverses = None
  <1>1. RowKept(V, v)
    BY DEF TableOK
  <1>2. V[v].reverses # None => Mirrors(V, V[v], V[v].reverses)
    BY <1>1 DEF RowKept
  <1>3. V[v].status \in {"absent", "DRAFT", "CANCELLED"} => V[v].reverses = None
    BY <1>2 DEF Mirrors
  <1>4. None \notin EventRefs /\ \A w : <<"reversal", w>> \notin EventRefs
    BY NoneIsNoRef DEF EventRefs, SourceRefs
  <1>5. V[v].ref \in EventRefs => V[v].reverses = None
    BY <1>2, <1>4 DEF Mirrors
  <1> QED
    BY <1>1, <1>3, <1>5 DEF RowKept

LEMMA InsertKeepsTable ==
  ASSUME NEW V, TableOK(V), NEW W, NEW v, NEW row, Inserted(V, W, v, row)
  PROVE  TableOK(W)
  <1>1. /\ V \in [Vouchers -> VoucherRow] /\ v \in Vouchers /\ row \in VoucherRow
        /\ W = [V EXCEPT ![v] = row] /\ \A u \in Vouchers : RowKept(V, u)
    BY DEF TableOK, Inserted
  <1>2. W \in [Vouchers -> VoucherRow] /\ W[v] = row /\ \A u \in Vouchers \ {v} : W[u] = V[u]
    BY <1>1
  <1>3. V[v].status = "absent" /\ V[v].reverses = None
    BY <1>1 DEF Inserted, Written, RowKept, NoVoucher
  <1>4. \A u \in Vouchers : W[u].reverses = V[u].reverses
    BY <1>2, <1>3 DEF Inserted, Fresh
  <1>5. ASSUME NEW u \in Vouchers PROVE RowKept(W, u)
    <2>1. CASE u = v
      BY <1>2, <2>1, VoucherAssumption DEF Inserted, Fresh, RowKept, Written
    <2>2. CASE u # v
      <3>1. W[u] = V[u] /\ RowKept(V, u)
        BY <1>1, <1>2, <2>2
      <3>2. V[u].reverses # None => W[V[u].reverses] = V[V[u].reverses]
        BY <1>2, <1>3, Pointers
      <3>3. V[u].status = "CANCELLED" => \E w \in Vouchers : W[w].reverses = u
        BY <1>4, <3>1 DEF RowKept
      <3> QED
        BY <3>1, <3>2, <3>3 DEF RowKept, Written, Mirrors
    <2> QED
      BY <2>1, <2>2
  <1>6. OneMirror(W)
    BY <1>4 DEF TableOK, OneMirror
  <1> QED
    BY <1>2, <1>5, <1>6 DEF TableOK

LEMMA RedraftKeepsTable ==
  ASSUME NEW V, TableOK(V), NEW W, NEW v, NEW row, Redrafted(V, W, v, row)
  PROVE  TableOK(W)
  <1>1. /\ V \in [Vouchers -> VoucherRow] /\ v \in Vouchers /\ row \in VoucherRow
        /\ W = [V EXCEPT ![v] = row] /\ \A u \in Vouchers : RowKept(V, u)
    BY DEF TableOK, Redrafted
  <1>2. W \in [Vouchers -> VoucherRow] /\ W[v] = row /\ \A u \in Vouchers \ {v} : W[u] = V[u]
    BY <1>1
  <1>3. V[v].status = "DRAFT" /\ V[v].reverses = None
    BY <1>1, Pointers DEF Redrafted
  <1>4. \A u \in Vouchers : W[u].reverses = V[u].reverses
    BY <1>2, <1>3 DEF Redrafted
  <1>5. ASSUME NEW u \in Vouchers PROVE RowKept(W, u)
    <2>1. CASE u = v
      <3>1. Tells(V[v])
        BY <1>1, <1>3 DEF RowKept, Written
      <3>2. Tells(row)
        BY <1>3, <3>1 DEF Tells, Redrafted
      <3> QED
        BY <1>2, <1>3, <2>1, <3>2 DEF Redrafted, RowKept, Written
    <2>2. CASE u # v
      <3>1. W[u] = V[u] /\ RowKept(V, u)
        BY <1>1, <1>2, <2>2
      <3>2. V[u].reverses # None => W[V[u].reverses] = V[V[u].reverses]
        BY <1>2, <1>3, Pointers
      <3>3. V[u].status = "CANCELLED" => \E w \in Vouchers : W[w].reverses = u
        BY <1>4, <3>1 DEF RowKept
      <3> QED
        BY <3>1, <3>2, <3>3 DEF RowKept, Written, Mirrors
    <2> QED
      BY <2>1, <2>2
  <1>6. OneMirror(W)
    BY <1>4 DEF TableOK, OneMirror
  <1> QED
    BY <1>2, <1>5, <1>6 DEF TableOK

LEMMA ReverseKeepsTable ==
  ASSUME NEW V, TableOK(V), NEW W, NEW id, NEW v, NEW row, Reversed(V, W, id, v, row)
  PROVE  TableOK(W)
  <1>1. /\ V \in [Vouchers -> VoucherRow] /\ v \in Vouchers /\ id \in Vouchers
        /\ W \in [Vouchers -> VoucherRow] /\ row \in VoucherRow
        /\ W[v] = row /\ W[id] = [V[id] EXCEPT !.status = "CANCELLED"]
        /\ \A u \in Vouchers \ {v, id} : W[u] = V[u]
        /\ \A u \in Vouchers : RowKept(V, u)
    BY DEF TableOK, Reversed
  <1>2. V[v] = NoVoucher /\ V[v].status = "absent" /\ V[v].reverses = None
    BY <1>1 DEF Reversed, Written, RowKept, NoVoucher
  <1>3. V[id].status = "POSTED" /\ V[id].reverses = None /\ id # None /\ v # id
    BY <1>1, <1>2, VoucherAssumption DEF Reversed, Mirrors
  <1>4. V[id] \in VoucherRow /\ row.reverses = id
    BY <1>1 DEF Reversed, Mirrors
  <1>5. /\ W[id].status = "CANCELLED" /\ W[id].reverses = None
        /\ W[id].deleted = V[id].deleted /\ W[id].ref = V[id].ref /\ W[id].cash = V[id].cash
    BY <1>1, <1>3, <1>4 DEF VoucherRow
  <1>6. ASSUME NEW u \in Vouchers
        PROVE  W[u].reverses = IF u = v THEN id ELSE V[u].reverses
    <2>1. CASE u = v
      BY <1>1, <1>4, <2>1
    <2>2. CASE u = id
      BY <1>3, <1>5, <2>2
    <2>3. CASE u \in Vouchers \ {v, id}
      BY <1>1, <2>3
    <2> QED
      BY <2>1, <2>2, <2>3
  <1>7. \A u \in Vouchers : V[u].reverses # id
    BY <1>3, Pointers
  <1>8. ASSUME NEW u \in Vouchers PROVE RowKept(W, u)
    <2>1. CASE u = v
      <3>1. Mirrors(W, row, id)
        BY <1>3, <1>5 DEF Reversed, Mirrors
      <3>2. row.status = "POSTED" /\ ~row.deleted
        BY DEF Reversed, Mirrors
      <3> QED
        BY <1>1, <1>3, <1>4, <1>5, <2>1, <3>1, <3>2 DEF RowKept, Written
    <2>2. CASE u = id
      <3>1. Tells(V[id]) /\ (V[id].deleted => V[id].status = "DRAFT")
        BY <1>1, <1>3 DEF RowKept, Written
      <3>2. Tells(W[id])
        BY <1>5, <3>1 DEF Tells
      <3>3. \E w \in Vouchers : W[w].reverses = id
        BY <1>1, <1>4
      <3> QED
        BY <1>3, <1>5, <2>2, <3>1, <3>2, <3>3 DEF RowKept, Written
    <2>3. CASE u # v /\ u # id
      <3>1. W[u] = V[u] /\ RowKept(V, u)
        BY <1>1, <2>3
      <3>2. V[u].reverses # None => W[V[u].reverses] = V[V[u].reverses]
        BY <1>1, <1>2, <1>3, Pointers
      <3>3. V[u].status = "CANCELLED" => \E w \in Vouchers : W[w].reverses = u
        <4>1. SUFFICES ASSUME V[u].status = "CANCELLED" PROVE \E w \in Vouchers : W[w].reverses = u
          OBVIOUS
        <4>2. PICK w \in Vouchers : V[w].reverses = u
          BY <3>1, <4>1 DEF RowKept
        <4>3. w # v
          BY <1>2, <4>2, VoucherAssumption
        <4> QED
          BY <1>6, <4>2, <4>3
      <3> QED
        BY <3>1, <3>2, <3>3 DEF RowKept, Written, Mirrors
    <2> QED
      BY <2>1, <2>2, <2>3
  <1>9. OneMirror(W)
    BY <1>6, <1>7 DEF TableOK, OneMirror
  <1> QED
    BY <1>1, <1>8, <1>9 DEF TableOK

\* An event's story in a table, and what it adds up to.
StoryOf(V, ref) ==
  {v \in Vouchers : /\ V[v].status \in {"POSTED", "CANCELLED"} /\ ~V[v].deleted
                    /\ V[v].ref = ref \/ (V[v].reverses # None /\ V[V[v].reverses].ref = ref)}
BookedOf(V, ref) == SumFunction([v \in StoryOf(V, ref) |-> V[v].cash])
Standing(V, v, ref) == V[v].status = "POSTED" /\ ~V[v].deleted /\ V[v].ref = ref

BookedOnce(V, ref) ==
  BookedOf(V, ref) = IF \E v \in Vouchers : Standing(V, v, ref) THEN Worth(ref) ELSE 0

LEMMA BookedIsBookedOf == \A ref : Booked(ref) = BookedOf(voucher, ref)
  <1>1. \A ref : Story(ref) = StoryOf(voucher, ref)
    BY DEF Story, StoryOf, Posted, Live
  <1> QED
    BY <1>1 DEF Booked, BookedOf

LEMMA BookedIsSum ==
  ASSUME NEW V, TableOK(V), NEW ref
  PROVE  /\ IsFiniteSet(StoryOf(V, ref))
         /\ \A v \in StoryOf(V, ref) : [u \in StoryOf(V, ref) |-> V[u].cash][v] = V[v].cash
                                       /\ V[v].cash \in Int
         /\ BookedOf(V, ref)
              = SumFunctionOnSet([u \in StoryOf(V, ref) |-> V[u].cash], StoryOf(V, ref))
         /\ BookedOf(V, ref) \in Int
  <1>1. StoryOf(V, ref) \subseteq Vouchers
    BY DEF StoryOf
  <1>2. IsFiniteSet(StoryOf(V, ref))
    BY <1>1, VoucherAssumption, FS_Subset
  <1>3. \A v \in Vouchers : V[v].cash \in Int
    BY DEF TableOK, VoucherRow
  <1> HIDE DEF StoryOf
  <1>4. BookedOf(V, ref)
          = SumFunctionOnSet([u \in StoryOf(V, ref) |-> V[u].cash], StoryOf(V, ref))
    BY DEF BookedOf, SumFunction
  <1>5. \A v \in StoryOf(V, ref) : [u \in StoryOf(V, ref) |-> V[u].cash][v] = V[v].cash
                                   /\ V[v].cash \in Int
    BY <1>1, <1>3
  <1>6. BookedOf(V, ref) \in Int
    BY <1>2, <1>4, <1>5, SumIsInteger
  <1> QED
    BY <1>2, <1>4, <1>5, <1>6

LEMMA StoryStays ==
  ASSUME NEW V, TableOK(V), NEW W, TableOK(W), NEW ref, StoryOf(W, ref) = StoryOf(V, ref),
         \A u \in StoryOf(V, ref) : W[u].cash = V[u].cash
  PROVE  BookedOf(W, ref) = BookedOf(V, ref)
  <1> DEFINE S == StoryOf(V, ref)
  <1>1. IsFiniteSet(S)
    BY BookedIsSum
  <1>2. BookedOf(V, ref) = SumFunctionOnSet([u \in S |-> V[u].cash], S)
    BY BookedIsSum
  <1>3. BookedOf(W, ref) = SumFunctionOnSet([u \in S |-> W[u].cash], S)
    BY BookedIsSum
  <1> HIDE DEF S
  <1>4. \A u \in S : [w \in S |-> W[w].cash][u] = [w \in S |-> V[w].cash][u]
    BY DEF S
  <1> QED
    BY <1>1, <1>2, <1>3, <1>4, SumCongruence

LEMMA StoryGrows ==
  ASSUME NEW V, TableOK(V), NEW W, TableOK(W), NEW ref, NEW v \in Vouchers,
         v \notin StoryOf(V, ref), StoryOf(W, ref) = StoryOf(V, ref) \cup {v},
         \A u \in StoryOf(V, ref) : W[u].cash = V[u].cash
  PROVE  BookedOf(W, ref) = W[v].cash + BookedOf(V, ref)
  <1> DEFINE S == StoryOf(V, ref)
             f == [u \in S |-> V[u].cash]
             e == [u \in S \cup {v} |-> W[u].cash]
  <1>1. IsFiniteSet(S) /\ v \notin S
    BY BookedIsSum
  <1>2. BookedOf(V, ref) = SumFunctionOnSet(f, S)
    BY BookedIsSum
  <1>3. BookedOf(W, ref) = SumFunctionOnSet(e, S \cup {v})
    BY BookedIsSum
  <1>4. \A u \in S : f[u] \in Int /\ e[u] = f[u]
    BY BookedIsSum
  <1>5. e[v] = W[v].cash /\ e[v] \in Int
    BY DEF TableOK, VoucherRow
  <1> HIDE DEF S, f, e
  <1>6. SumFunctionOnSet(e, S \cup {v}) = e[v] + SumFunctionOnSet(f, S)
    BY <1>1, <1>4, <1>5, SumAdds
  <1> QED
    BY <1>2, <1>3, <1>5, <1>6

LEMMA WorthTyped == \A ref \in EventRefs : Worth(ref) \in Int
  BY VoucherAssumption DEF EventRefs, Worth

\* No event, a voucher raised by one or a reversal of it: what a new row adds.
LEMMA InsertBooksOnce ==
  ASSUME NEW V, TableOK(V), NEW W, NEW v, NEW row, Inserted(V, W, v, row),
         NEW ref \in EventRefs, BookedOnce(V, ref)
  PROVE  BookedOnce(W, ref)
  <1>1. /\ V \in [Vouchers -> VoucherRow] /\ v \in Vouchers /\ V[v].status = "absent"
        /\ W[v] = row /\ \A u \in Vouchers \ {v} : W[u] = V[u]
    BY DEF TableOK, Inserted, Written
  <1>2. TableOK(W)
    BY InsertKeepsTable
  <1>3. row.reverses = None /\ ~row.deleted /\ row.status \in {"DRAFT", "POSTED"} /\ Tells(row)
    BY DEF Inserted, Fresh
  <1>4. \A u \in Vouchers : V[u].reverses # None => V[u].reverses \in Vouchers \ {v}
    BY <1>1, Pointers
  <1>5. \A u \in Vouchers \ {v} : u \in StoryOf(W, ref) <=> u \in StoryOf(V, ref)
    BY <1>1, <1>4 DEF StoryOf
  <1>6. v \notin StoryOf(V, ref) /\ StoryOf(V, ref) \subseteq Vouchers /\ StoryOf(W, ref) \subseteq Vouchers
    BY <1>1 DEF StoryOf
  <1>7. \A u \in StoryOf(V, ref) : W[u].cash = V[u].cash
    BY <1>1, <1>6
  <1>8. v \in StoryOf(W, ref) <=> row.status = "POSTED" /\ row.ref = ref
    BY <1>1, <1>3 DEF StoryOf
  <1>9. \A u \in Vouchers \ {v} : Standing(W, u, ref) <=> Standing(V, u, ref)
    BY <1>1 DEF Standing
  <1>10. ~Standing(V, v, ref) /\ (Standing(W, v, ref) <=> v \in StoryOf(W, ref))
    BY <1>1, <1>3, <1>8 DEF Standing
  <1>11. CASE v \in StoryOf(W, ref)
    <2>1. StoryOf(W, ref) = StoryOf(V, ref) \cup {v}
      BY <1>5, <1>6, <1>11
    <2>2. BookedOf(W, ref) = row.cash + BookedOf(V, ref)
      BY <1>1, <1>2, <1>6, <1>7, <2>1, StoryGrows
    <2>3. ref # None
      BY NoneIsNoRef DEF EventRefs, SourceRefs
    <2>4. \A u \in Vouchers : ~Standing(V, u, ref)
      BY <1>8, <1>11, <2>3 DEF Inserted, NobodyHolds, Holds, Standing
    <2>5. row.cash = Worth(ref) /\ Worth(ref) \in Int
      BY <1>3, <1>8, <1>11, <2>3, WorthTyped DEF Tells
    <2>6. BookedOf(V, ref) = 0
      BY <2>4 DEF BookedOnce
    <2> QED
      BY <1>1, <1>10, <1>11, <2>2, <2>5, <2>6 DEF BookedOnce
  <1>12. CASE v \notin StoryOf(W, ref)
    <2>1. StoryOf(W, ref) = StoryOf(V, ref)
      BY <1>5, <1>6, <1>12
    <2>2. BookedOf(W, ref) = BookedOf(V, ref)
      BY <1>2, <1>7, <2>1, StoryStays
    <2> QED
      BY <1>9, <1>10, <1>12, <2>2 DEF BookedOnce
  <1> QED
    BY <1>11, <1>12

LEMMA RedraftBooksOnce ==
  ASSUME NEW V, TableOK(V), NEW W, NEW v, NEW row, Redrafted(V, W, v, row),
         \A ref \in SourceRefs : \A u, w \in Vouchers :
            Holds(V, u, ref) /\ Holds(V, w, ref) => u = w,
         NEW ref \in EventRefs, BookedOnce(V, ref)
  PROVE  BookedOnce(W, ref)
  <1>1. /\ V \in [Vouchers -> VoucherRow] /\ v \in Vouchers /\ V[v].status = "DRAFT"
        /\ ~V[v].deleted /\ row.ref = V[v].ref /\ row.status \in {"DRAFT", "POSTED"}
        /\ (row.deleted => row.status = "DRAFT")
        /\ W[v] = row /\ \A u \in Vouchers \ {v} : W[u] = V[u]
    BY DEF TableOK, Redrafted
  <1>2. TableOK(W)
    BY RedraftKeepsTable
  <1>3. V[v].reverses = None /\ row.reverses = None
    BY <1>1, Pointers DEF Redrafted
  <1>4. \A u \in Vouchers : V[u].reverses # None => V[u].reverses \in Vouchers \ {v}
    BY <1>1, Pointers
  <1>5. \A u \in Vouchers \ {v} : u \in StoryOf(W, ref) <=> u \in StoryOf(V, ref)
    BY <1>1, <1>4 DEF StoryOf
  <1>6. v \notin StoryOf(V, ref) /\ StoryOf(V, ref) \subseteq Vouchers /\ StoryOf(W, ref) \subseteq Vouchers
    BY <1>1 DEF StoryOf
  <1>7. \A u \in StoryOf(V, ref) : W[u].cash = V[u].cash
    BY <1>1, <1>6
  <1>8. v \in StoryOf(W, ref) <=> row.status = "POSTED" /\ row.ref = ref
    BY <1>1, <1>3 DEF StoryOf
  <1>9. \A u \in Vouchers \ {v} : Standing(W, u, ref) <=> Standing(V, u, ref)
    BY <1>1 DEF Standing
  <1>10. ~Standing(V, v, ref) /\ (Standing(W, v, ref) <=> v \in StoryOf(W, ref))
    BY <1>1, <1>8 DEF Standing
  <1>11. CASE v \in StoryOf(W, ref)
    <2>1. StoryOf(W, ref) = StoryOf(V, ref) \cup {v}
      BY <1>5, <1>6, <1>11
    <2>2. BookedOf(W, ref) = row.cash + BookedOf(V, ref)
      BY <1>1, <1>2, <1>6, <1>7, <2>1, StoryGrows
    <2>3. ref # None /\ ref \in SourceRefs
      BY NoneIsNoRef DEF EventRefs, SourceRefs
    <2>4. ASSUME NEW u \in Vouchers, Standing(V, u, ref) PROVE FALSE
      <3>1. Holds(V, v, ref) /\ Holds(V, u, ref)
        BY <1>1, <1>8, <1>11, <2>4 DEF Holds, Standing
      <3> QED
        BY <1>1, <1>10, <2>3, <2>4, <3>1
    <2>5. row.cash = Worth(ref) /\ Worth(ref) \in Int
      <3>1. Tells(V[v])
        BY <1>1, <1>3 DEF TableOK, RowKept, Written
      <3> QED
        BY <1>1, <1>8, <1>11, <2>3, <3>1, WorthTyped DEF Tells, Redrafted
    <2>6. BookedOf(V, ref) = 0
      BY <2>4 DEF BookedOnce
    <2> QED
      BY <1>1, <1>10, <1>11, <2>2, <2>5, <2>6 DEF BookedOnce
  <1>12. CASE v \notin StoryOf(W, ref)
    <2>1. StoryOf(W, ref) = StoryOf(V, ref)
      BY <1>5, <1>6, <1>12
    <2>2. BookedOf(W, ref) = BookedOf(V, ref)
      BY <1>2, <1>7, <2>1, StoryStays
    <2> QED
      BY <1>9, <1>10, <1>12, <2>2 DEF BookedOnce
  <1> QED
    BY <1>11, <1>12

LEMMA ReverseBooksOnce ==
  ASSUME NEW V, TableOK(V), NEW W, NEW id, NEW v, NEW row, Reversed(V, W, id, v, row),
         \A ref \in SourceRefs : \A u, w \in Vouchers :
            Holds(V, u, ref) /\ Holds(V, w, ref) => u = w,
         NEW ref \in EventRefs, BookedOnce(V, ref)
  PROVE  BookedOnce(W, ref)
  <1>1. /\ V \in [Vouchers -> VoucherRow] /\ v \in Vouchers /\ V[v].status = "absent"
        /\ id \in Vouchers /\ V[id].status = "POSTED" /\ ~V[id].deleted /\ V[id] \in VoucherRow
        /\ V[id].reverses = None
        /\ W[v] = row /\ W[id] = [V[id] EXCEPT !.status = "CANCELLED"]
        /\ \A u \in Vouchers \ {v, id} : W[u] = V[u]
    BY DEF TableOK, Reversed, Written, Mirrors
  <1>2. TableOK(W)
    BY ReverseKeepsTable
  <1>3. /\ row.status = "POSTED" /\ ~row.deleted /\ row.reverses = id
        /\ row.cash = -V[id].cash /\ row.ref # ref
    <2>1. None # ref /\ <<"reversal", id>> # ref
      BY NoneIsNoRef DEF EventRefs, SourceRefs
    <2> QED
      BY <2>1 DEF Reversed, Mirrors
  <1>4. /\ W[id].status = "CANCELLED" /\ W[id].ref = V[id].ref /\ W[id].cash = V[id].cash
        /\ ~W[id].deleted /\ W[id].reverses = None /\ id # v /\ id # None
    BY <1>1, VoucherAssumption DEF VoucherRow
  <1>5. \A u \in Vouchers : V[u].reverses # None => V[u].reverses \in Vouchers \ {v, id}
    BY <1>1, Pointers
  <1>6. \A u \in Vouchers \ {v} : u \in StoryOf(W, ref) <=> u \in StoryOf(V, ref)
    <2> SUFFICES ASSUME NEW u \in Vouchers \ {v}
                 PROVE  u \in StoryOf(W, ref) <=> u \in StoryOf(V, ref)
      OBVIOUS
    <2>1. CASE u = id
      BY <1>1, <1>4, <2>1 DEF StoryOf
    <2>2. CASE u # id
      <3>1. W[u] = V[u] /\ (V[u].reverses # None => W[V[u].reverses] = V[V[u].reverses])
        BY <1>1, <1>5, <2>2
      <3> QED
        BY <3>1 DEF StoryOf
    <2> QED
      BY <2>1, <2>2
  <1>7. v \notin StoryOf(V, ref) /\ StoryOf(V, ref) \subseteq Vouchers /\ StoryOf(W, ref) \subseteq Vouchers
    BY <1>1 DEF StoryOf
  <1>8. \A u \in StoryOf(V, ref) : W[u].cash = V[u].cash
    BY <1>1, <1>4, <1>7
  <1>9. v \in StoryOf(W, ref) <=> V[id].ref = ref
    <2>1. W[v].reverses = id /\ W[W[v].reverses].ref = V[id].ref /\ W[v].ref # ref
      BY <1>1, <1>3, <1>4
    <2>2. v \in Vouchers /\ W[v].status = "POSTED" /\ ~W[v].deleted
      BY <1>1, <1>3 DEF Reversed
    <2> QED
      BY <1>4, <2>1, <2>2 DEF StoryOf
  <1>10. ~Standing(V, v, ref) /\ ~Standing(W, v, ref) /\ ~Standing(W, id, ref)
    BY <1>1, <1>3, <1>4 DEF Standing
  <1>11. CASE V[id].ref = ref
    <2>1. StoryOf(W, ref) = StoryOf(V, ref) \cup {v}
      BY <1>6, <1>7, <1>9, <1>11 DEF Reversed
    <2>2. BookedOf(W, ref) = -V[id].cash + BookedOf(V, ref)
      BY <1>1, <1>2, <1>3, <1>7, <1>8, <2>1, StoryGrows DEF Reversed
    <2>3. ref # None /\ ref \in SourceRefs
      BY NoneIsNoRef DEF EventRefs, SourceRefs
    <2>4. V[id].cash = Worth(ref) /\ Worth(ref) \in Int
      <3>1. Tells(V[id])
        BY <1>1 DEF TableOK, RowKept, Written
      <3> QED
        BY <1>11, <2>3, <3>1, WorthTyped DEF Tells
    <2>5. Standing(V, id, ref)
      BY <1>1, <1>11 DEF Standing
    <2>6. BookedOf(V, ref) = Worth(ref)
      BY <1>1, <2>5 DEF BookedOnce
    <2>7. ASSUME NEW u \in Vouchers, Standing(W, u, ref) PROVE FALSE
      <3>1. u \in Vouchers \ {v, id}
        BY <1>10, <2>7
      <3>2. Holds(V, u, ref) /\ Holds(V, id, ref)
        BY <1>1, <1>11, <2>7, <3>1 DEF Holds, Standing
      <3> QED
        BY <1>1, <2>3, <3>1, <3>2
    <2>8. BookedOf(W, ref) = 0
      BY <2>2, <2>4, <2>6
    <2> QED
      BY <2>7, <2>8 DEF BookedOnce
  <1>12. CASE V[id].ref # ref
    <2>1. StoryOf(W, ref) = StoryOf(V, ref)
      BY <1>6, <1>7, <1>9, <1>12
    <2>2. BookedOf(W, ref) = BookedOf(V, ref)
      BY <1>2, <1>8, <2>1, StoryStays
    <2>3. \A u \in Vouchers : Standing(W, u, ref) <=> Standing(V, u, ref)
      BY <1>1, <1>10, <1>12 DEF Standing
    <2> QED
      BY <2>2, <2>3 DEF BookedOnce
  <1> QED
    BY <1>11, <1>12

-----------------------------------------------------------------------------
(* What requests have decided, while the table changes under them.          *)

DecidedAll(V) == \A p \in Procs : Decided(p, req[p], V)

StoryInvariant ==
  /\ BooksInvariant
  /\ TableOK(voucher)
  /\ DecidedAll(voucher)
  /\ \A ref \in EventRefs : BookedOnce(voucher, ref)

Keyed == \A ref \in SourceRefs : \A u, w \in Vouchers :
            Holds(voucher, u, ref) /\ Holds(voucher, w, ref) => u = w

LEMMA IdleDecides == \A p, V : Decided(p, Idle, V)
  BY DEF Decided, Idle, Inserts

\* The request p is done; what the others will write still fits.
LEMMA OthersDecided ==
  ASSUME StoryInvariant, NEW p \in Procs, Done(p),
         \A q \in Procs \ {p} : Decided(q, req[q], voucher')
  PROVE  DecidedAll(voucher)'
  <1>1. \A q \in Procs : req'[q] = IF q = p THEN Idle ELSE req[q]
    BY DEF StoryInvariant, BooksInvariant, TypeOK, Done
  <1> QED
    BY <1>1, IdleDecides DEF DecidedAll

LEMMA AfterInsert ==
  ASSUME StoryInvariant, NEW p \in Procs, Done(p), NEW v, NEW row,
         Inserted(voucher, voucher', v, row), BooksInvariant'
  PROVE  StoryInvariant'
  <1>1. TableOK(voucher')
    BY InsertKeepsTable DEF StoryInvariant
  <1>2. \A ref \in EventRefs : BookedOnce(voucher', ref)
    BY InsertBooksOnce DEF StoryInvariant
  <1>3. \A u \in Vouchers : Written(voucher, u) => voucher'[u] = voucher[u]
    BY DEF StoryInvariant, TableOK, Inserted
  <1>4. ASSUME NEW q \in Procs PROVE Decided(q, req[q], voucher')
    <2>1. Decided(q, req[q], voucher) /\ RequestOK(req[q], voucher)
      BY DEF StoryInvariant, DecidedAll, BooksInvariant
    <2>2. req[q].op \in ById => voucher'[req[q].id] = voucher[req[q].id]
      BY <1>3, <2>1 DEF RequestOK
    <2> QED
      BY <2>1, <2>2 DEF Decided, ById, Mirrors
  <1>5. DecidedAll(voucher)'
    BY <1>4, OthersDecided
  <1> QED
    BY <1>1, <1>2, <1>5 DEF StoryInvariant

LEMMA LivesOnce == StoryInvariant => Keyed
  BY NoneIsNoRef DEF StoryInvariant, BooksInvariant, OneLivePerKey, Keyed

LEMMA AfterRedraft ==
  ASSUME OneClerk, StoryInvariant, NEW p \in Procs, Clerk(p), Done(p), NEW v, NEW row,
         Redrafted(voucher, voucher', v, row), BooksInvariant'
  PROVE  StoryInvariant'
  <1>1. TableOK(voucher')
    BY RedraftKeepsTable DEF StoryInvariant
  <1>2. \A ref \in EventRefs : BookedOnce(voucher', ref)
    BY RedraftBooksOnce, LivesOnce DEF StoryInvariant, Keyed
  <1>3. \A u \in Vouchers : voucher[u].status # "DRAFT" => voucher'[u] = voucher[u]
    BY DEF StoryInvariant, TableOK, Redrafted
  <1>4. ASSUME NEW q \in Procs \ {p} PROVE Decided(q, req[q], voucher')
    <2>1. Decided(q, req[q], voucher) /\ RequestOK(req[q], voucher)
      BY DEF StoryInvariant, DecidedAll, BooksInvariant
    <2>2. ~Clerk(q)
      BY DEF OneClerk
    <2>3. req[q].op \in ById => req[q].op = "cancel"
      BY <2>1, <2>2 DEF Decided, ById
    <2>4. req[q].op = "cancel" => req[q].id \in Vouchers
      BY <2>1 DEF RequestOK, ById
    <2>5. req[q].op = "cancel" => voucher'[req[q].id] = voucher[req[q].id]
      BY <1>3, <2>1, <2>4 DEF Decided
    <2> QED
      BY <2>1, <2>3, <2>5 DEF Decided, ById, Mirrors
  <1>5. DecidedAll(voucher)'
    BY <1>4, OthersDecided
  <1> QED
    BY <1>1, <1>2, <1>5 DEF StoryInvariant

LEMMA AfterReversal ==
  ASSUME OneClerk, StoryInvariant, NEW p \in Procs, Done(p), NEW id, NEW v, NEW row,
         voucher[id].ref = None => Clerk(p),
         Reversed(voucher, voucher', id, v, row), BooksInvariant'
  PROVE  StoryInvariant'
  <1>1. TableOK(voucher')
    BY ReverseKeepsTable DEF StoryInvariant
  <1>2. \A ref \in EventRefs : BookedOnce(voucher', ref)
    BY ReverseBooksOnce, LivesOnce DEF StoryInvariant, Keyed
  <1>3. /\ \A u \in Vouchers : Written(voucher, u) /\ u # id => voucher'[u] = voucher[u]
        /\ id \in Vouchers /\ voucher[id].status = "POSTED" /\ voucher[id] \in VoucherRow
        /\ voucher'[id] = [voucher[id] EXCEPT !.status = "CANCELLED"]
    BY DEF StoryInvariant, TableOK, Reversed, Written
  <1>4. /\ voucher'[id].status = "CANCELLED" /\ voucher'[id].ref = voucher[id].ref
        /\ voucher'[id].cash = voucher[id].cash /\ voucher'[id].deleted = voucher[id].deleted
        /\ voucher'[id].reverses = voucher[id].reverses
    BY <1>3 DEF VoucherRow
  <1>5. ASSUME NEW q \in Procs \ {p} PROVE Decided(q, req[q], voucher')
    <2>1. Decided(q, req[q], voucher) /\ RequestOK(req[q], voucher)
      BY DEF StoryInvariant, DecidedAll, BooksInvariant
    <2>2. CASE req[q].op \in ById /\ req[q].id = id
      <3>1. req[q].op = "cancel"
        BY <1>3, <2>1, <2>2 DEF Decided, ById
      <3>2. voucher[id].ref # None
        BY <2>1, <2>2, <3>1 DEF Decided, OneClerk
      <3>3. Mirrors(voucher', req[q].row, id)
        BY <1>4, <2>1, <2>2, <3>1 DEF Decided, Mirrors
      <3> QED
        BY <1>4, <2>2, <3>1, <3>2, <3>3 DEF Decided, Inserts
    <2>3. CASE req[q].op \in ById /\ req[q].id # id
      <3>1. voucher'[req[q].id] = voucher[req[q].id]
        BY <1>3, <2>1, <2>3 DEF RequestOK
      <3> QED
        BY <2>1, <3>1 DEF Decided, Mirrors
    <2>4. CASE req[q].op \notin ById
      BY <2>1, <2>4 DEF Decided, ById
    <2> QED
      BY <2>2, <2>3, <2>4
  <1>6. DecidedAll(voucher)'
    BY <1>5, OthersDecided
  <1> QED
    BY <1>1, <1>2, <1>6 DEF StoryInvariant

-----------------------------------------------------------------------------
(* The actions.                                                             *)

LEMMA AsksDecides ==
  ASSUME StoryInvariant, NEW p \in Procs, NEW r, Asks(p, r), Decided(p, r, voucher),
         BooksInvariant'
  PROVE  StoryInvariant'
  <1>1. voucher' = voucher /\ \A q \in Procs : req'[q] = IF q = p THEN r ELSE req[q]
    BY DEF StoryInvariant, BooksInvariant, TypeOK, Asks
  <1>2. DecidedAll(voucher)'
    BY <1>1 DEF StoryInvariant, DecidedAll
  <1> QED
    BY <1>1, <1>2 DEF StoryInvariant

LEMMA EntryDecides ==
  ASSUME OneClerk, StoryInvariant, NEW p \in Procs, Create(p) \/ Update(p) \/ Post(p),
         BooksInvariant'
  PROVE  StoryInvariant'
  <1>1. CASE Create(p)
    <2>1. PICK day \in 0..today, cash \in (-MaxAmount)..MaxAmount, status \in {"DRAFT", "POSTED"} :
            \E k \in Resolve(day) :
              Asks(p, [Idle EXCEPT !.op = "create",
                         !.row = [NoVoucher EXCEPT !.status = status, !.date = day,
                                                   !.cash = cash, !.period = k]])
      BY <1>1 DEF Create
    <2>2. PICK k :
              Asks(p, [Idle EXCEPT !.op = "create",
                         !.row = [NoVoucher EXCEPT !.status = status, !.date = day,
                                                   !.cash = cash, !.period = k]])
      BY <2>1
    <2> DEFINE row == [NoVoucher EXCEPT !.status = status, !.date = day,
                                        !.cash = cash, !.period = k]
               r == [Idle EXCEPT !.op = "create", !.row = row]
    <2>3. Fresh(row)
      BY DEF NoVoucher, Fresh, Tells
    <2> HIDE DEF row
    <2>4. r.op = "create" /\ r.row = row
      BY DEF Idle
    <2> HIDE DEF r
    <2>5. Decided(p, r, voucher)
      BY <2>3, <2>4 DEF Decided
    <2> QED
      BY <2>2, <2>5, AsksDecides DEF r, row
  <1>2. CASE Update(p)
    <2>1. PICK v, day, cash, k :
            /\ v \in Vouchers /\ Live(v) /\ Editable(v) /\ "update" \in Ops[p]
            /\ Asks(p, [Idle EXCEPT !.op = "update", !.id = v,
                          !.row = [voucher[v] EXCEPT !.date = day, !.cash = cash, !.period = k]])
      BY <1>2 DEF Update, Starts
    <2> DEFINE row == [voucher[v] EXCEPT !.date = day, !.cash = cash, !.period = k]
               r == [Idle EXCEPT !.op = "update", !.id = v, !.row = row]
    <2> HIDE DEF row
    <2>2. r.op = "update" /\ r.id = v
      BY DEF Idle
    <2> HIDE DEF r
    <2>3. Decided(p, r, voucher)
      BY <2>1, <2>2 DEF Decided, Clerk, ByClerk, Inserts, Live, Editable
    <2> QED
      BY <2>1, <2>3, AsksDecides DEF r, row
  <1>3. CASE Post(p)
    <2>1. PICK v, k :
            /\ v \in Vouchers /\ Live(v) /\ voucher[v].status = "DRAFT" /\ "post" \in Ops[p]
            /\ Asks(p, [Idle EXCEPT !.op = "post", !.id = v,
                          !.row = [voucher[v] EXCEPT !.status = "POSTED", !.period = k]])
      BY <1>3 DEF Post, Starts
    <2> DEFINE row == [voucher[v] EXCEPT !.status = "POSTED", !.period = k]
               r == [Idle EXCEPT !.op = "post", !.id = v, !.row = row]
    <2> HIDE DEF row
    <2>2. r.op = "post" /\ r.id = v
      BY DEF Idle
    <2> HIDE DEF r
    <2>3. Decided(p, r, voucher)
      BY <2>1, <2>2 DEF Decided, Clerk, ByClerk, Inserts, Live
    <2> QED
      BY <2>1, <2>3, AsksDecides DEF r, row
  <1> QED
    BY <1>1, <1>2, <1>3

LEMMA CancelDecides ==
  ASSUME OneClerk, StoryInvariant, NEW p \in Procs, Cancel(p), BooksInvariant'
  PROVE  StoryInvariant'
  <1>1. PICK v \in Vouchers :
          /\ "cancel" \in Ops[p] \/ ("cancelAuto" \in Ops[p] /\ voucher[v].ref # None)
          /\ Live(v)
          /\ voucher[v].reverses = None
          /\ \/ /\ voucher[v].status = "DRAFT"
                /\ Asks(p, [Idle EXCEPT !.op = "delete", !.id = v])
             \/ /\ voucher[v].status = "POSTED"
                /\ \E k \in Resolve(today) :
                     Asks(p, [Idle EXCEPT !.op = "cancel", !.id = v,
                       !.row = [NoVoucher EXCEPT !.status = "POSTED",
                                  !.ref = ReversalRef(v), !.date = ReversalDate(v),
                                  !.cash = -voucher[v].cash, !.period = k,
                                  !.reverses = v]])
    BY DEF Cancel, Starts, OneClerk
  <1>2. Tells(voucher[v]) /\ ~voucher[v].deleted
    BY <1>1 DEF StoryInvariant, TableOK, RowKept, Live, Written
  <1>3. voucher[v].ref = None => Clerk(p)
    BY <1>1 DEF Clerk, ByClerk
  <1>4. CASE voucher[v].status = "DRAFT" /\ Asks(p, [Idle EXCEPT !.op = "delete", !.id = v])
    <2> DEFINE r == [Idle EXCEPT !.op = "delete", !.id = v]
    <2>1. r.op = "delete" /\ r.id = v
      BY DEF Idle
    <2> HIDE DEF r
    <2>2. Clerk(p)
      BY <1>1, <1>2, <1>4 DEF Clerk, ByClerk, Tells
    <2>3. Decided(p, r, voucher)
      BY <1>2, <1>4, <2>1, <2>2 DEF Decided, Inserts
    <2> QED
      BY <1>4, <2>3, AsksDecides DEF r
  <1>5. CASE /\ voucher[v].status = "POSTED"
             /\ \E k \in Resolve(today) :
                     Asks(p, [Idle EXCEPT !.op = "cancel", !.id = v,
                       !.row = [NoVoucher EXCEPT !.status = "POSTED",
                                  !.ref = ReversalRef(v), !.date = ReversalDate(v),
                                  !.cash = -voucher[v].cash, !.period = k,
                                  !.reverses = v]])
    <2>1. PICK k :
            Asks(p, [Idle EXCEPT !.op = "cancel", !.id = v,
                       !.row = [NoVoucher EXCEPT !.status = "POSTED",
                                  !.ref = ReversalRef(v), !.date = ReversalDate(v),
                                  !.cash = -voucher[v].cash, !.period = k,
                                  !.reverses = v]])
      BY <1>5
    <2> DEFINE row == [NoVoucher EXCEPT !.status = "POSTED",
                                  !.ref = ReversalRef(v), !.date = ReversalDate(v),
                                  !.cash = -voucher[v].cash, !.period = k,
                                  !.reverses = v]
               r == [Idle EXCEPT !.op = "cancel", !.id = v, !.row = row]
    <2>2. Mirrors(voucher, row, v)
      BY <1>1, <1>2 DEF Mirrors, NoVoucher, ReversalRef
    <2> HIDE DEF row
    <2>3. r.op = "cancel" /\ r.id = v /\ r.row = row
      BY DEF Idle
    <2> HIDE DEF r
    <2>4. Decided(p, r, voucher)
      BY <1>3, <1>5, <2>2, <2>3 DEF Decided, Inserts
    <2> QED
      BY <2>1, <2>4, AsksDecides DEF r, row
  <1> QED
    BY <1>1, <1>4, <1>5

\* postRefund scales a payment's own voucher, so it books the refund to the taka.
LEMMA ScaledExactly == \A a \in Nat \ {0}, n \in Nat : (a * n) \div a = n
  OBVIOUS

LEMMA RaiseDecides ==
  ASSUME StoryInvariant, NEW p \in Procs, NEW op \in {"payment", "refund"},
         NEW ref \in EventRefs, NEW day, Raise(p, op, ref, day, Worth(ref)), BooksInvariant'
  PROVE  StoryInvariant'
  <1> DEFINE cash == Worth(ref)
             status == IF AutoPostAsDraft THEN "DRAFT" ELSE "POSTED"
  <1>1. PICK k :
          Asks(p, [Idle EXCEPT !.op = op,
            !.row = [NoVoucher EXCEPT !.status = status, !.ref = ref, !.date = day,
                                      !.cash = cash, !.period = k]])
    BY DEF Raise
  <1> DEFINE row == [NoVoucher EXCEPT !.status = status, !.ref = ref, !.date = day,
                                      !.cash = cash, !.period = k]
             r == [Idle EXCEPT !.op = op, !.row = row]
  <1>2. status \in {"DRAFT", "POSTED"} /\ (status = "DRAFT" => AutoPostAsDraft)
    OBVIOUS
  <1>3. /\ row.status = status /\ row.ref = ref /\ row.cash = cash
        /\ ~row.deleted /\ row.reverses = None
    BY DEF NoVoucher
  <1> HIDE DEF row, status
  <1>4. Fresh(row)
    BY <1>2, <1>3 DEF Fresh, Tells
  <1>5. r.op = op /\ r.row = row
    BY DEF Idle
  <1> HIDE DEF r, cash
  <1>6. Decided(p, r, voucher)
    BY <1>4, <1>5 DEF Decided
  <1> QED
    BY <1>1, <1>6, AsksDecides DEF r, row, status

LEMMA EventDecides ==
  ASSUME StoryInvariant, NEW p \in Procs, PostPayment(p) \/ PostRefund(p), BooksInvariant'
  PROVE  StoryInvariant'
  <1>1. CASE PostPayment(p)
    <2>1. PICK x \in Payments : Raise(p, "payment", <<"payment", x>>, PaidOn[x], Amount[x])
      BY <1>1 DEF PostPayment
    <2>2. <<"payment", x>> \in EventRefs /\ Worth(<<"payment", x>>) = Amount[x]
      BY DEF EventRefs, Worth
    <2> QED
      BY <2>1, <2>2, RaiseDecides
  <1>2. CASE PostRefund(p)
    <2>1. PICK r, v :
            /\ r \in Refunds /\ v \in Holding(<<"payment", RefundOf[r]>>)
            /\ Raise(p, "refund", <<"refund", r>>, today,
                     -((voucher[v].cash * RefundAmount[r]) \div Amount[RefundOf[r]]))
      BY <1>2 DEF PostRefund
    <2> DEFINE x == RefundOf[r]
    <2>2. x \in Payments /\ Amount[x] \in Nat \ {0} /\ RefundAmount[r] \in Nat
      BY <2>1, VoucherAssumption
    <2>3. /\ <<"payment", x>> \in EventRefs /\ <<"refund", r>> \in EventRefs
          /\ Worth(<<"payment", x>>) = Amount[x] /\ Worth(<<"refund", r>>) = -RefundAmount[r]
      BY <2>1, <2>2 DEF EventRefs, Worth
    <2>4. voucher[v].cash = Amount[x]
      <3>1. v \in Vouchers /\ voucher[v].ref = <<"payment", x>> /\ Written(voucher, v)
        BY <2>1 DEF Holding, Live, Written
      <3>2. TableOK(voucher)
        BY DEF StoryInvariant
      <3>3. voucher[v].reverses = None
        BY <2>3, <3>1, <3>2, Pointers
      <3>4. Tells(voucher[v])
        BY <3>1, <3>2, <3>3 DEF TableOK, RowKept
      <3>5. <<"payment", x>> # None
        BY <2>3, NoneIsNoRef DEF EventRefs, SourceRefs
      <3> QED
        BY <2>3, <3>1, <3>4, <3>5 DEF Tells
    <2>5. (voucher[v].cash * RefundAmount[r]) \div Amount[x] = RefundAmount[r]
      BY <2>2, <2>4, ScaledExactly
    <2> QED
      BY <2>1, <2>3, <2>5, RaiseDecides
  <1> QED
    BY <1>1, <1>2

LEMMA PeriodDecides ==
  ASSUME StoryInvariant, NEW p \in Procs, BooksInvariant',
         DefinePeriod(p) \/ RedefinePeriod(p) \/ RemovePeriod(p) \/ ClosePeriod(p) \/ ReopenPeriod(p)
  PROVE  StoryInvariant'
  <1>1. ASSUME NEW op \in OnAPeriod, NEW k, Asks(p, [Idle EXCEPT !.op = op, !.per = k])
        PROVE  StoryInvariant'
    <2> DEFINE r == [Idle EXCEPT !.op = op, !.per = k]
    <2>1. r.op = op
      BY DEF Idle
    <2> HIDE DEF r
    <2>2. Decided(p, r, voucher)
      BY <1>1, <2>1 DEF Decided, OnAPeriod, Inserts
    <2> QED
      BY <1>1, <2>2, AsksDecides DEF r
  <1>2. ASSUME NEW op \in OnAPeriod, NEW k, NEW span,
               Asks(p, [Idle EXCEPT !.op = op, !.per = k, !.span = span])
        PROVE  StoryInvariant'
    <2> DEFINE r == [Idle EXCEPT !.op = op, !.per = k, !.span = span]
    <2>1. r.op = op
      BY DEF Idle
    <2> HIDE DEF r
    <2>2. Decided(p, r, voucher)
      BY <1>2, <2>1 DEF Decided, OnAPeriod, Inserts
    <2> QED
      BY <1>2, <2>2, AsksDecides DEF r
  <1>3. CASE DefinePeriod(p) \/ RedefinePeriod(p)
    <2>1. \E op \in OnAPeriod : \E k, span :
            Asks(p, [Idle EXCEPT !.op = op, !.per = k, !.span = span])
      BY <1>3, Zenon DEF DefinePeriod, RedefinePeriod, OnAPeriod
    <2> QED
      BY <1>2, <2>1
  <1>4. CASE RemovePeriod(p) \/ ClosePeriod(p) \/ ReopenPeriod(p)
    <2>1. \E op \in OnAPeriod : \E k : Asks(p, [Idle EXCEPT !.op = op, !.per = k])
      BY <1>4, Zenon DEF RemovePeriod, ClosePeriod, ReopenPeriod, OnAPeriod
    <2> QED
      BY <1>1, <2>1
  <1> QED
    BY <1>3, <1>4

LEMMA NothingWrittenKeeps ==
  ASSUME StoryInvariant, voucher' = voucher, req' = req \/ (\E p \in Procs : Done(p)),
         BooksInvariant'
  PROVE  StoryInvariant'
  <1>1. \A q \in Procs : req'[q] = req[q] \/ req'[q] = Idle
    BY DEF StoryInvariant, BooksInvariant, TypeOK, Done
  <1>2. DecidedAll(voucher)'
    BY <1>1, IdleDecides DEF StoryInvariant, DecidedAll
  <1> QED
    BY <1>2 DEF StoryInvariant

\* What a write does to the table, one case for each way it changes.
LEMMA WhatInsertDoes ==
  ASSUME StoryInvariant, NEW p \in Procs, WriteNew(p)
  PROVE  voucher' = voucher \/ \E v : Inserted(voucher, voucher', v, req[p].row)
  <1> DEFINE row == req[p].row
  <1>1. Fresh(row) /\ row \in VoucherRow
    BY DEF StoryInvariant, DecidedAll, Decided, WriteNew, Inserts, BooksInvariant, RequestOK, Request
  <1>2. CASE KeyFree(row.ref) /\ \E v \in Unused : voucher' = [voucher EXCEPT ![v] = row]
    <2>1. PICK v \in Unused : voucher' = [voucher EXCEPT ![v] = row]
      BY <1>2
    <2>2. NobodyHolds(voucher, row.ref)
      BY <1>2 DEF KeyFree, Holding, NobodyHolds, Holds, Live
    <2> HIDE DEF row
    <2>3. Inserted(voucher, voucher', v, row)
      BY <1>1, <2>1, <2>2 DEF Inserted, Unused, Written
    <2> QED
      BY <2>3 DEF row
  <1> QED
    BY <1>2 DEF WriteNew

LEMMA WhatRedraftDoes ==
  ASSUME StoryInvariant, NEW p \in Procs, WriteUpdate(p) \/ WritePost(p) \/ WriteDelete(p)
  PROVE  /\ Clerk(p)
         /\ \/ voucher' = voucher
            \/ \E row : Redrafted(voucher, voucher', req[p].id, row)
  <1> DEFINE v == req[p].id
             new == req[p].row
             old == voucher[v]
  <1>1. req[p].op \in {"update", "post", "delete"}
    BY DEF WriteUpdate, WritePost, WriteDelete
  <1>2. /\ voucher \in [Vouchers -> VoucherRow] /\ v \in Vouchers /\ old \in VoucherRow
        /\ new \in VoucherRow
    BY <1>1 DEF StoryInvariant, TableOK, BooksInvariant, RequestOK, ById, Request
  <1>3. Clerk(p) /\ old.status = "DRAFT" /\ ~old.deleted
    BY <1>1 DEF StoryInvariant, DecidedAll, Decided
  <1>4. CASE WriteUpdate(p)
    <2> DEFINE row == [old EXCEPT !.date = new.date, !.cash = new.cash, !.period = new.period]
    <2>1. voucher' = [voucher EXCEPT ![v] = row]
      BY <1>2, <1>4 DEF WriteUpdate, VoucherRow
    <2>2. old.ref = None
      BY <1>4 DEF StoryInvariant, DecidedAll, Decided, WriteUpdate
    <2>3. /\ row \in VoucherRow /\ row.status = old.status /\ row.ref = old.ref
          /\ row.deleted = old.deleted /\ row.reverses = old.reverses
      BY <1>2 DEF VoucherRow
    <2> HIDE DEF row, v, new
    <2>4. Redrafted(voucher, voucher', v, row)
      BY <1>2, <1>3, <2>1, <2>2, <2>3 DEF Redrafted
    <2> QED
      BY <1>3, <2>4 DEF v
  <1>5. CASE WritePost(p)
    <2> DEFINE row == [old EXCEPT !.status = "POSTED", !.period = new.period]
    <2>1. voucher' = [voucher EXCEPT ![v] = row] \/ voucher' = voucher
      BY <1>2, <1>5 DEF WritePost, VoucherRow
    <2>2. /\ row \in VoucherRow /\ row.status = "POSTED" /\ row.ref = old.ref
          /\ row.deleted = old.deleted /\ row.reverses = old.reverses /\ row.cash = old.cash
      BY <1>2 DEF VoucherRow
    <2> HIDE DEF row, v, new
    <2>3. voucher' = voucher \/ Redrafted(voucher, voucher', v, row)
      BY <1>2, <1>3, <2>1, <2>2 DEF Redrafted
    <2> QED
      BY <1>3, <2>3 DEF v
  <1>6. CASE WriteDelete(p)
    <2> DEFINE row == [old EXCEPT !.deleted = TRUE]
    <2>1. voucher' = [voucher EXCEPT ![v] = row]
      BY <1>2, <1>6 DEF WriteDelete, VoucherRow
    <2>2. /\ row \in VoucherRow /\ row.status = old.status /\ row.ref = old.ref
          /\ row.reverses = old.reverses /\ row.cash = old.cash
      BY <1>2 DEF VoucherRow
    <2> HIDE DEF row, v, new
    <2>3. Redrafted(voucher, voucher', v, row)
      BY <1>2, <1>3, <2>1, <2>2 DEF Redrafted
    <2> QED
      BY <1>3, <2>3 DEF v
  <1> QED
    BY <1>4, <1>5, <1>6

LEMMA WhatReversalDoes ==
  ASSUME StoryInvariant, NEW p \in Procs, WriteReversal(p)
  PROVE  /\ voucher[req[p].id].ref = None => Clerk(p)
         /\ \/ voucher' = voucher
            \/ \E v : Reversed(voucher, voucher', req[p].id, v, req[p].row)
  <1> DEFINE id == req[p].id
             row == req[p].row
             old == voucher[id]
             mark == [old EXCEPT !.status = "CANCELLED"]
  <1>1. /\ voucher \in [Vouchers -> VoucherRow] /\ id \in Vouchers /\ old \in VoucherRow
        /\ row \in VoucherRow /\ TableOK(voucher)
    BY DEF StoryInvariant, TableOK, BooksInvariant, RequestOK, ById, Request, WriteReversal
  <1>2. /\ Mirrors(voucher, row, id)
        /\ old.status = "POSTED" \/ (old.status = "CANCELLED" /\ old.ref # None)
        /\ old.ref = None => Clerk(p)
    BY DEF StoryInvariant, DecidedAll, Decided, WriteReversal
  <1>3. CASE /\ KeyFree(row.ref)
             /\ \E v \in Unused : voucher' = [voucher EXCEPT ![v] = row, ![id].status = "CANCELLED"]
    <2>1. PICK v \in Unused :
            voucher' = [voucher EXCEPT ![v] = row, ![id].status = "CANCELLED"]
      BY <1>3
    <2>2. v \in Vouchers /\ ~Written(voucher, v) /\ v # id
      BY <1>1, <1>2 DEF Unused, Written
    <2>3. mark \in VoucherRow
      BY <1>1 DEF VoucherRow
    <2>4. voucher' = [[voucher EXCEPT ![v] = row] EXCEPT ![id] = mark]
      BY <1>1, <2>1, <2>2
    <2>5. old.status = "POSTED"
      <3>1. SUFFICES ASSUME old.status = "CANCELLED", old.ref # None PROVE FALSE
        BY <1>2
      <3>2. row.ref = <<"reversal", id>> /\ <<"reversal", id>> # None
        BY <1>1, <1>2, <3>1, NoneIsNoRef DEF Mirrors, SourceRefs
      <3>3. PICK w \in Vouchers : voucher[w].reverses = id
        BY <1>1, <3>1 DEF TableOK, RowKept
      <3>4. Mirrors(voucher, voucher[w], id)
        BY <1>1, <3>3, VoucherAssumption DEF TableOK, RowKept
      <3>5. w \in Holding(row.ref)
        BY <3>1, <3>2, <3>4 DEF Mirrors, Holding, Live
      <3> QED
        BY <1>3, <3>2, <3>5 DEF KeyFree
    <2> HIDE DEF mark, row, id
    <2>6. /\ voucher' \in [Vouchers -> VoucherRow] /\ voucher'[v] = row /\ voucher'[id] = mark
          /\ \A u \in Vouchers \ {v, id} : voucher'[u] = voucher[u]
      BY <1>1, <2>2, <2>3, <2>4
    <2>7. Reversed(voucher, voucher', id, v, row)
      BY <1>1, <1>2, <2>2, <2>5, <2>6 DEF Reversed, mark
    <2> QED
      BY <1>2, <2>7 DEF id, row
  <1> QED
    BY <1>2, <1>3 DEF WriteReversal

LEMMA StoryStep ==
  ASSUME OneClerk, StoryInvariant, [Next]_vars
  PROVE  StoryInvariant'
  <1>1. BooksInvariant'
    BY BooksStep DEF StoryInvariant
  <1>2. CASE UNCHANGED vars \/ Tick
    BY <1>1, <1>2, NothingWrittenKeeps DEF vars, Tick
  <1>3. ASSUME NEW p \in Procs, Begin(p) PROVE StoryInvariant'
    <2>1. CASE Create(p) \/ Update(p) \/ Post(p) \/ Cancel(p) \/ PostPayment(p) \/ PostRefund(p)
      BY <1>1, <2>1, EntryDecides, CancelDecides, EventDecides
    <2>2. CASE DefinePeriod(p) \/ RedefinePeriod(p) \/ RemovePeriod(p)
                 \/ ClosePeriod(p) \/ ReopenPeriod(p)
      BY <1>1, <2>2, PeriodDecides
    <2> QED
      BY <1>3, <2>1, <2>2 DEF Begin
  <1>4. ASSUME NEW p \in Procs, Continue(p) PROVE StoryInvariant'
    <2>1. Done(p)
      BY <1>4 DEF Continue, WriteNew, WriteUpdate, WritePost, WriteDelete, WriteReversal, WritePeriod
    <2>2. CASE voucher' = voucher
      BY <1>1, <2>1, <2>2, NothingWrittenKeeps
    <2>3. CASE WriteNew(p)
      BY <1>1, <2>1, <2>2, <2>3, WhatInsertDoes, AfterInsert
    <2>4. CASE WriteUpdate(p) \/ WritePost(p) \/ WriteDelete(p)
      BY <1>1, <2>1, <2>2, <2>4, WhatRedraftDoes, AfterRedraft
    <2>5. CASE WriteReversal(p)
      BY <1>1, <2>1, <2>2, <2>5, WhatReversalDoes, AfterReversal
    <2>6. CASE WritePeriod(p)
      BY <2>2, <2>6 DEF WritePeriod
    <2> QED
      BY <1>4, <2>3, <2>4, <2>5, <2>6 DEF Continue
  <1>5. ASSUME NEW p \in Procs, Fail(p) PROVE StoryInvariant'
    BY <1>1, <1>5, NothingWrittenKeeps DEF Fail
  <1> QED
    BY <1>2, <1>3, <1>4, <1>5 DEF Next

LEMMA InitStory == Init => StoryInvariant
  <1> SUFFICES ASSUME Init PROVE StoryInvariant
    OBVIOUS
  <1>1. \A v \in Vouchers : voucher[v] = NoVoucher
    BY DEF Init
  <1>2. BooksInvariant
    BY InitBooks
  <1>3. TableOK(voucher)
    <2>1. /\ NoVoucher.status = "absent" /\ ~NoVoucher.deleted
          /\ NoVoucher.reverses = None
      BY DEF NoVoucher
    <2>2. \A v \in Vouchers : RowKept(voucher, v)
      BY <1>1, <2>1 DEF RowKept, Written
    <2>3. OneMirror(voucher)
      BY <1>1, <2>1 DEF OneMirror
    <2> QED
      BY <1>2, <2>2, <2>3 DEF TableOK, BooksInvariant, TypeOK
  <1>4. DecidedAll(voucher)
    BY IdleDecides DEF Init, DecidedAll
  <1>5. ASSUME NEW ref \in EventRefs PROVE BookedOnce(voucher, ref)
    <2>1. StoryOf(voucher, ref) = {}
      BY <1>1 DEF StoryOf, NoVoucher
    <2>2. BookedOf(voucher, ref)
            = SumFunctionOnSet([u \in StoryOf(voucher, ref) |-> voucher[u].cash],
                               StoryOf(voucher, ref))
      BY <1>3, BookedIsSum
    <2>3. BookedOf(voucher, ref) = 0
      BY <2>1, <2>2, SumOfNone
    <2>4. \A v \in Vouchers : ~Standing(voucher, v, ref)
      BY <1>1 DEF Standing, NoVoucher
    <2> QED
      BY <2>3, <2>4 DEF BookedOnce
  <1> QED
    BY <1>2, <1>3, <1>4, <1>5 DEF StoryInvariant

THEOREM StoryHolds == ASSUME OneClerk PROVE Spec => []StoryInvariant
  BY InitStory, StoryStep, PTL DEF Spec

\* Where reversals stand and one clerk has the drafts, a payment and a refund are
\* booked for what they are or not at all, whatever is replayed, raced, cancelled
\* and raised again: postAuto and the reversals of cancel keep the books together.
THEOREM EventsAreBookedOnce == ASSUME OneClerk PROVE Spec => []BooksCountOnce
  <1>1. ASSUME StoryInvariant PROVE BooksCountOnce
    <2>1. \A ref \in EventRefs : Booked(ref) \in {0, Worth(ref)}
      BY <1>1, BookedIsBookedOf DEF StoryInvariant, BookedOnce
    <2>2. \A x \in Payments : <<"payment", x>> \in EventRefs /\ Worth(<<"payment", x>>) = Amount[x]
      BY DEF EventRefs, Worth
    <2>3. \A r \in Refunds : <<"refund", r>> \in EventRefs
                             /\ Worth(<<"refund", r>>) = -RefundAmount[r]
      BY DEF EventRefs, Worth
    <2> HIDE DEF Booked
    <2> QED
      BY <2>1, <2>2, <2>3 DEF BooksCountOnce
  <1> QED
    BY StoryHolds, <1>1, PTL

\* On the same terms a cancelled voucher has exactly one mirror image in the
\* ledger, and nothing else has any: cancel writes both rows or none, and two who
\* cancel the same voucher are told apart by the reversal's source_ref.
THEOREM CancelledIsMirroredOnce == ASSUME OneClerk PROVE Spec => []MirroredOnce
  <1>1. ASSUME StoryInvariant PROVE MirroredOnce
    <2> SUFFICES ASSUME NEW v \in Vouchers
                 PROVE  LET mirrors == {w \in Vouchers : Posted(w) /\ voucher[w].reverses = v}
                        IN  /\ Posted(v) /\ voucher[v].status = "CANCELLED"
                                 => Cardinality(mirrors) = 1
                            /\ \A w \in mirrors : /\ Posted(v) /\ voucher[v].status = "CANCELLED"
                                                  /\ voucher[w].cash = -voucher[v].cash
      BY DEF MirroredOnce
    <2> DEFINE mirrors == {w \in Vouchers : Posted(w) /\ voucher[w].reverses = v}
    <2>1. v # None /\ \A w \in Vouchers : RowKept(voucher, w)
      BY <1>1, VoucherAssumption DEF StoryInvariant, TableOK
    <2>2. \A w \in Vouchers : voucher[w].reverses = v =>
            /\ w \in mirrors /\ voucher[v].status = "CANCELLED" /\ Posted(v)
            /\ voucher[w].cash = -voucher[v].cash
      BY <2>1 DEF RowKept, Mirrors, Posted, Live
    <2>3. ASSUME voucher[v].status = "CANCELLED" PROVE Cardinality(mirrors) = 1
      <3>1. PICK w \in Vouchers : voucher[w].reverses = v
        BY <2>1, <2>3 DEF RowKept
      <3>2. mirrors = {w}
        BY <1>1, <2>1, <2>2, <3>1 DEF StoryInvariant, TableOK, OneMirror
      <3> QED
        BY <3>2, FS_Singleton
    <2> QED
      BY <2>2, <2>3
  <1> QED
    BY StoryHolds, <1>1, PTL

\* On the same terms a posted voucher never leaves the ledger and keeps its date
\* and its sum: assertEditable, and a cancel that adds a row instead.
THEOREM PostedVouchersStand == ASSUME OneClerk PROVE Spec => PostedIsImmutable
  <1> DEFINE In(V, v) == V[v].status \in {"POSTED", "CANCELLED"} /\ ~V[v].deleted
             Stands(V, W) == \A v \in Vouchers : In(V, v) =>
                               In(W, v) /\ W[v].date = V[v].date /\ W[v].cash = V[v].cash
  <1>1. ASSUME NEW v, NEW row, StoryInvariant, Inserted(voucher, voucher', v, row)
        PROVE  Stands(voucher, voucher')
    BY <1>1 DEF Inserted, Written, StoryInvariant, TableOK
  <1>2. ASSUME NEW v, NEW row, StoryInvariant, Redrafted(voucher, voucher', v, row)
        PROVE  Stands(voucher, voucher')
    BY <1>2 DEF Redrafted, StoryInvariant, TableOK
  <1>3. ASSUME NEW id, NEW v, NEW row, StoryInvariant, Reversed(voucher, voucher', id, v, row)
        PROVE  Stands(voucher, voucher')
    <2>1. /\ voucher[id] \in VoucherRow /\ voucher'[id] = [voucher[id] EXCEPT !.status = "CANCELLED"]
          /\ \A u \in Vouchers \ {v, id} : voucher'[u] = voucher[u]
          /\ v \in Vouchers /\ voucher[v].status = "absent"
      BY <1>3 DEF Reversed, StoryInvariant, TableOK, Written
    <2>2. /\ voucher'[id].status = "CANCELLED" /\ voucher'[id].deleted = voucher[id].deleted
          /\ voucher'[id].date = voucher[id].date /\ voucher'[id].cash = voucher[id].cash
      BY <2>1 DEF VoucherRow
    <2> QED
      BY <2>1, <2>2
  <1>4. voucher' = voucher => Stands(voucher, voucher')
    OBVIOUS
  <1> HIDE DEF Stands
  <1>5. ASSUME StoryInvariant, [Next]_vars PROVE Stands(voucher, voucher')
    <2>1. CASE UNCHANGED vars \/ Tick
      BY <1>4, <2>1 DEF vars, Tick
    <2>2. ASSUME NEW p \in Procs, Begin(p) \/ Fail(p) PROVE Stands(voucher, voucher')
      <3>1. voucher' = voucher
        BY <2>2 DEF Begin, Create, Update, Post, Cancel, PostPayment, PostRefund, Raise,
              DefinePeriod, RedefinePeriod, RemovePeriod, ClosePeriod, ReopenPeriod, Asks, Fail
      <3> QED
        BY <1>4, <3>1
    <2>3. ASSUME NEW p \in Procs, Continue(p) PROVE Stands(voucher, voucher')
      <3>1. CASE WriteNew(p)
        BY <1>1, <1>4, <1>5, <3>1, WhatInsertDoes
      <3>2. CASE WriteUpdate(p) \/ WritePost(p) \/ WriteDelete(p)
        BY <1>2, <1>4, <1>5, <3>2, WhatRedraftDoes
      <3>3. CASE WriteReversal(p)
        BY <1>3, <1>4, <1>5, <3>3, WhatReversalDoes
      <3>4. CASE WritePeriod(p)
        BY <1>4, <3>4 DEF WritePeriod
      <3> QED
        BY <2>3, <3>1, <3>2, <3>3, <3>4 DEF Continue
    <2> QED
      BY <1>5, <2>1, <2>2, <2>3 DEF Next
  <1>6. ASSUME StoryInvariant, [Next]_vars
        PROVE  [\A v \in Vouchers :
                  Posted(v) => /\ Posted(v)'
                               /\ voucher'[v].date = voucher[v].date
                               /\ voucher'[v].cash = voucher[v].cash]_vars
    BY <1>5, <1>6 DEF Stands, Posted, Live
  <1> QED
    BY StoryHolds, <1>6, PTL DEF Spec, PostedIsImmutable
=============================================================================
