--------------------------- MODULE VoucherLedger ---------------------------
(***************************************************************************)
(* The accounting module: vouchers, their reversals, the vouchers that     *)
(* payment events raise by themselves, and the fiscal periods that lock    *)
(* the books.                                                              *)
(*                                                                         *)
(* Every request or event listener is a process.  A handler reads what it  *)
(* needs, decides, and writes in one statement or one transaction whose    *)
(* only reads are the document counters; so a handler is two steps here,   *)
(* and whatever others write between them has gone unseen.                 *)
(*                                                                         *)
(* The lines of a voucher are reduced to what they move on the cash        *)
(* account, the other side being implied by debits = credits.  The chart   *)
(* of accounts is taken to be valid (a voucher it refuses leaves no trace) *)
(* and vouchers may not be dated ahead (accounting.future_voucher_days is  *)
(* 0, its default).                                                        *)
(*                                                                         *)
(* A definition just above the one it varies (KeyNeverTaken above KeyFree, *)
(* say) is the same step with a likely slip in it; the specification uses  *)
(* none of them, they show that the properties notice.                     *)
(***************************************************************************)
EXTENDS Integers, FiniteSets, Functions

CONSTANTS
  Vouchers,           \* the voucher rows that can ever exist (bounds the run)
  Periods,            \* fiscal period rows
  Spans,              \* the ranges of days <<first, last>> a period may be given
  Payments,           \* fee payments that succeeded
  Refunds,            \* refunds of them
  Amount,             \* Amount[x]: what payment x brought in
  PaidOn,             \* PaidOn[x]: the day of its paid_at
  RefundOf,           \* RefundOf[r]: the payment refund r gives back from
  RefundAmount,       \* RefundAmount[r]: how much of it
  Procs,              \* requests and listeners in flight at once
  Ops,                \* Ops[p]: the operations process p may start
  BackdateAfterClose, \* accounting.backdate_after_close
  AutoPostAsDraft,    \* accounting.auto_post_as_draft
  CashHard,           \* accounting.cash_negative is HARD
  ReversalsStand,     \* whether nobody cancels a reversal
  MaxDay,             \* bound: last day of the run
  MaxAmount,          \* bound: largest sum a clerk enters
  MaxFails,           \* bound: requests that may die half way
  None

OpNames == {"create", "update", "post", "cancel", "cancelAuto", "payment", "refund",
            "define", "redefine", "remove", "close", "reopen"}

ASSUME VoucherAssumption ==
  /\ None \notin Vouchers \cup Periods /\ IsFiniteSet(Vouchers)
  /\ MaxDay \in Nat /\ MaxAmount \in Nat /\ MaxFails \in Nat
  /\ Amount \in [Payments -> Nat \ {0}]
  /\ PaidOn \in [Payments -> 0..MaxDay]
  /\ RefundOf \in [Refunds -> Payments]
  /\ RefundAmount \in [Refunds -> Nat \ {0}]
  /\ \A r \in Refunds : RefundAmount[r] <= Amount[RefundOf[r]]
  /\ \A s \in Spans : s \in (0..MaxDay) \X (0..MaxDay) /\ s[1] <= s[2]
  /\ Ops \in [Procs -> SUBSET OpNames]
  /\ {BackdateAfterClose, AutoPostAsDraft, CashHard, ReversalsStand} \subseteq BOOLEAN

VARIABLES
  today,
  voucher,   \* the vouchers table
  period,    \* the fiscal_periods table
  req,       \* the request each process is serving
  fails      \* requests that died so far

vars == <<today, voucher, period, req, fails>>

\* source_ref; a voucher is MANUAL exactly when it has none.
SourceRefs == ({"payment"} \X Payments) \cup ({"refund"} \X Refunds)
                \cup ({"reversal"} \X Vouchers)

ASSUME NoneIsNoRef == None \notin SourceRefs

VoucherRow ==
  [status : {"absent", "DRAFT", "POSTED", "CANCELLED"}, deleted : BOOLEAN,
   ref : SourceRefs \cup {None}, date : 0..MaxDay, cash : Int,
   period : Periods \cup {None}, reverses : Vouchers \cup {None}]

NoVoucher == [status |-> "absent", deleted |-> FALSE, ref |-> None, date |-> 0,
              cash |-> 0, period |-> None, reverses |-> None]

PeriodRow ==
  [status : {"absent", "OPEN", "CLOSED"}, first : 0..MaxDay, last : 0..MaxDay]

NoPeriod == [status |-> "absent", first |-> 0, last |-> 0]

\* What a handler has decided to write, and where.
Request ==
  [op : OpNames \cup {"none", "delete"}, id : Vouchers \cup {None}, row : VoucherRow,
   per : Periods \cup {None}, span : PeriodRow]

Idle == [op |-> "none", id |-> None, row |-> NoVoucher, per |-> None,
         span |-> NoPeriod]

-----------------------------------------------------------------------------
(* What the handlers read. *)

Live(v) == voucher[v].status # "absent" /\ ~voucher[v].deleted

\* The ledger predicate of every report: whatever was posted once.
Posted(v) == Live(v) /\ voucher[v].status \in {"POSTED", "CANCELLED"}

Unused == {v \in Vouchers : voucher[v].status = "absent"}

\* findBySourceRef, and what uq_vouchers_source_ref counts.
Holding(ref) == {v \in Vouchers : /\ Live(v)
                                  /\ voucher[v].status # "CANCELLED"
                                  /\ voucher[v].ref = ref}
KeyNeverTaken(ref) == TRUE
KeyFree(ref) == ref = None \/ Holding(ref) = {}

\* sumByAccount up to a date.
CashUpTo(day) ==
  LET rows == {v \in Vouchers : Posted(v) /\ voucher[v].date <= day}
  IN  SumFunction([v \in rows |-> voucher[v].cash])

\* assertCashNotNegative
CashAllows(row) ==
  ~CashHard \/ row.cash = 0 \/ CashUpTo(row.date) + row.cash >= 0

Defined == {k \in Periods : period[k].status # "absent"}
Covers(k, day) == period[k].first <= day /\ day <= period[k].last
Containing(day) == {k \in Defined : Covers(k, day)}

EarliestOpenFrom(day) ==
  LET open == {k \in Defined : period[k].status = "OPEN" /\ period[k].last >= day}
  IN  {k \in open : \A j \in open : period[k].first <= period[j].first}

\* resolvePeriodFor: the period to record a voucher in, None where none was
\* defined; the set is empty where the handler is refused.
Resolve(day) ==
  IF Containing(day) = {} THEN {None}
  ELSE UNION {CASE period[k].status = "OPEN" -> {k}
                [] period[k].status = "CLOSED" /\ BackdateAfterClose
                     -> EarliestOpenFrom(day)
                [] OTHER -> {} : k \in Containing(day)}

\* findOverlappingPeriod, over the ids other than `self`.
OverlapsStrictly(span, self) ==
  \E k \in Defined \ {self} : period[k].first < span[2] /\ span[1] < period[k].last
Overlaps(span, self) ==
  \E k \in Defined \ {self} : period[k].first <= span[2] /\ span[1] <= period[k].last

\* countDraftsInRange
DraftsAttachedTo(k) == {v \in Vouchers : /\ Live(v)
                                         /\ voucher[v].status = "DRAFT"
                                         /\ voucher[v].period = k}
DraftsIn(k) == {v \in Vouchers : /\ Live(v)
                                 /\ voucher[v].status = "DRAFT"
                                 /\ Covers(k, voucher[v].date)}

\* countInPeriod
PostedAttachedTo(k) == {v \in Vouchers : Posted(v) /\ voucher[v].period = k}
AttachedTo(k) == {v \in Vouchers : Live(v) /\ voucher[v].period = k}

Starts(p, op) == req[p].op = "none" /\ op \in Ops[p]
Asks(p, r) == req' = [req EXCEPT ![p] = r] /\ UNCHANGED <<today, voucher, period, fails>>

-----------------------------------------------------------------------------
Init ==
  /\ today = 0
  /\ voucher = [v \in Vouchers |-> NoVoucher]
  /\ period = [k \in Periods |-> NoPeriod]
  /\ req = [p \in Procs |-> Idle]
  /\ fails = 0

\* No request is so slow that a day ends in the middle of it.
Tick ==
  /\ today < MaxDay
  /\ \A p \in Procs : req[p].op = "none"
  /\ today' = today + 1
  /\ UNCHANGED <<voucher, period, req, fails>>

-----------------------------------------------------------------------------
(* The clerk. *)

\* create: a draft, or a voucher posted in one go.
Create(p) ==
  /\ Starts(p, "create")
  /\ \E day \in 0..today, cash \in (-MaxAmount)..MaxAmount,
        status \in {"DRAFT", "POSTED"} :
       \E k \in Resolve(day) :
         LET row == [NoVoucher EXCEPT !.status = status, !.date = day, !.cash = cash,
                                      !.period = k]
         IN  /\ status = "POSTED" => CashAllows(row)
             /\ Asks(p, [Idle EXCEPT !.op = "create", !.row = row])

\* assertEditable
EditableIfManual(v) == voucher[v].status # "CANCELLED" /\ voucher[v].ref = None
Editable(v) == voucher[v].status = "DRAFT" /\ voucher[v].ref = None

Update(p) ==
  /\ Starts(p, "update")
  /\ \E v \in Vouchers, day \in 0..today, cash \in (-MaxAmount)..MaxAmount :
       /\ Live(v)
       /\ Editable(v)
       /\ \E k \in Resolve(day) :
            Asks(p, [Idle EXCEPT !.op = "update", !.id = v,
              !.row = [voucher[v] EXCEPT !.date = day, !.cash = cash, !.period = k]])

\* post: a draft, its period and the cash box looked at anew.
Post(p) ==
  /\ Starts(p, "post")
  /\ \E v \in Vouchers :
       /\ Live(v)
       /\ voucher[v].status = "DRAFT"
       /\ CashAllows(voucher[v])
       /\ \E k \in Resolve(voucher[v].date) :
            Asks(p, [Idle EXCEPT !.op = "post", !.id = v,
              !.row = [voucher[v] EXCEPT !.status = "POSTED", !.period = k]])

ReversalRefNone(v) == None
ReversalRef(v) == IF voucher[v].ref = None THEN None ELSE <<"reversal", v>>

ReversalDateOfOriginal(v) == voucher[v].date
ReversalDateTomorrow(v) == today + 1
ReversalDate(v) == today

\* cancel: a draft goes, a posted voucher gets a mirror image dated today.
\* ("cancelAuto" is the same handler used on machine-raised vouchers only.)
Cancel(p) ==
  /\ \E v \in Vouchers :
       /\ \/ Starts(p, "cancel")
          \/ Starts(p, "cancelAuto") /\ voucher[v].ref # None
       /\ Live(v)
       /\ ReversalsStand => voucher[v].reverses = None
       /\ \/ /\ voucher[v].status = "DRAFT"
             /\ Asks(p, [Idle EXCEPT !.op = "delete", !.id = v])
          \/ /\ voucher[v].status = "POSTED"
             /\ \E k \in Resolve(today) :
                  Asks(p, [Idle EXCEPT !.op = "cancel", !.id = v,
                    !.row = [NoVoucher EXCEPT !.status = "POSTED",
                               !.ref = ReversalRef(v), !.date = ReversalDate(v),
                               !.cash = -voucher[v].cash, !.period = k,
                               !.reverses = v]])

-----------------------------------------------------------------------------
(* The listener: payment events raise vouchers. *)

\* postAuto, up to its transaction: nothing to do when the key is held.
Raise(p, op, ref, day, cash) ==
  /\ Holding(ref) = {}
  /\ \E k \in Resolve(day) :
       Asks(p, [Idle EXCEPT !.op = op,
         !.row = [NoVoucher EXCEPT
                    !.status = IF AutoPostAsDraft THEN "DRAFT" ELSE "POSTED",
                    !.ref = ref, !.date = day, !.cash = cash, !.period = k]])

\* postPayment.  The event of a payment may come twice: a callback and a sweep
\* that race both emit it.
PostPayment(p) ==
  /\ Starts(p, "payment")
  /\ \E x \in Payments : /\ PaidOn[x] <= today
                         /\ Raise(p, "payment", <<"payment", x>>, PaidOn[x], Amount[x])

\* postRefund scales the voucher of the payment, which must be there.
PostRefund(p) ==
  /\ Starts(p, "refund")
  /\ \E r \in Refunds : \E v \in Holding(<<"payment", RefundOf[r]>>) :
       Raise(p, "refund", <<"refund", r>>, today,
             -((voucher[v].cash * RefundAmount[r]) \div Amount[RefundOf[r]]))

-----------------------------------------------------------------------------
(* The periods. *)

SpanOf(span) == [NoPeriod EXCEPT !.status = "OPEN", !.first = span[1], !.last = span[2]]

DefinePeriod(p) ==
  /\ Starts(p, "define")
  /\ \E k \in Periods \ Defined, span \in Spans :
       /\ ~Overlaps(span, None)
       /\ Asks(p, [Idle EXCEPT !.op = "define", !.per = k, !.span = SpanOf(span)])

RedefinePeriod(p) ==
  /\ Starts(p, "redefine")
  /\ \E k \in Defined, span \in Spans :
       /\ period[k].status # "CLOSED"
       /\ ~Overlaps(span, k)
       /\ Asks(p, [Idle EXCEPT !.op = "redefine", !.per = k, !.span = SpanOf(span)])

\* remove asks for attached vouchers only: a closed period goes as well.
RemovePeriod(p) ==
  /\ Starts(p, "remove")
  /\ \E k \in Defined :
       /\ AttachedTo(k) = {}
       /\ Asks(p, [Idle EXCEPT !.op = "remove", !.per = k])

ClosePeriod(p) ==
  /\ Starts(p, "close")
  /\ \E k \in Defined :
       /\ period[k].status # "CLOSED"
       /\ DraftsIn(k) = {}
       /\ Asks(p, [Idle EXCEPT !.op = "close", !.per = k])

ReopenPeriod(p) ==
  /\ Starts(p, "reopen")
  /\ \E k \in Defined :
       /\ period[k].status = "CLOSED"
       /\ Asks(p, [Idle EXCEPT !.op = "reopen", !.per = k])

-----------------------------------------------------------------------------
(* The writes.  None of them looks again at what was read. *)

Done(p) == req' = [req EXCEPT ![p] = Idle]

\* A row of its own; when the unique index refuses it, postAuto returns the
\* voucher of whoever was first.
WriteNew(p) ==
  /\ req[p].op \in {"create", "payment", "refund"}
  /\ \/ /\ KeyFree(req[p].row.ref)
        /\ \E v \in Unused : voucher' = [voucher EXCEPT ![v] = req[p].row]
     \/ ~KeyFree(req[p].row.ref) /\ UNCHANGED voucher
  /\ Done(p)
  /\ UNCHANGED <<today, period, fails>>

\* update, by id: the date, the lines and the period.
WriteUpdate(p) ==
  /\ req[p].op = "update"
  /\ LET row == req[p].row
     IN  voucher' = [voucher EXCEPT ![req[p].id].date = row.date,
                       ![req[p].id].cash = row.cash, ![req[p].id].period = row.period]
  /\ Done(p)
  /\ UNCHANGED <<today, period, fails>>

\* post, by id: the status and the period.  The index stands in the way of a
\* voucher that was cancelled meanwhile and whose key is held again.
WritePost(p) ==
  /\ req[p].op = "post"
  /\ LET v == req[p].id
         ref == voucher[v].ref
     IN  IF voucher[v].deleted \/ ref = None \/ Holding(ref) \subseteq {v}
         THEN voucher' = [voucher EXCEPT ![v].status = "POSTED",
                                         ![v].period = req[p].row.period]
         ELSE UNCHANGED voucher
  /\ Done(p)
  /\ UNCHANGED <<today, period, fails>>

WriteDelete(p) ==
  /\ req[p].op = "delete"
  /\ voucher' = [voucher EXCEPT ![req[p].id].deleted = TRUE]
  /\ Done(p)
  /\ UNCHANGED <<today, period, fails>>

\* The reversal and the CANCELLED mark in one transaction, which the unique
\* index takes back as a whole.
WriteReversal(p) ==
  /\ req[p].op = "cancel"
  /\ \/ /\ KeyFree(req[p].row.ref)
        /\ \E v \in Unused :
             voucher' = [voucher EXCEPT ![v] = req[p].row,
                                        ![req[p].id].status = "CANCELLED"]
     \/ ~KeyFree(req[p].row.ref) /\ UNCHANGED voucher
  /\ Done(p)
  /\ UNCHANGED <<today, period, fails>>

\* By id; a period that was removed meanwhile stays removed.
WritePeriod(p) ==
  /\ LET k == req[p].per
         to == req[p].span
     IN  \/ req[p].op = "define" /\ period' = [period EXCEPT ![k] = to]
         \/ /\ req[p].op = "redefine"
            /\ period' = [period EXCEPT ![k].first = to.first, ![k].last = to.last]
         \/ req[p].op = "remove" /\ period' = [period EXCEPT ![k] = NoPeriod]
         \/ /\ req[p].op \in {"close", "reopen"}
            /\ period' = [period EXCEPT ![k].status =
                            IF k \notin Defined THEN @
                            ELSE IF req[p].op = "close" THEN "CLOSED" ELSE "OPEN"]
  /\ Done(p)
  /\ UNCHANGED <<today, voucher, fails>>

-----------------------------------------------------------------------------
\* A request dies between its reads and its write; the listener swallows it.
Fail(p) ==
  /\ req[p].op # "none"
  /\ fails < MaxFails
  /\ fails' = fails + 1
  /\ Done(p)
  /\ UNCHANGED <<today, voucher, period>>

Begin(p) ==
  \/ Create(p) \/ Update(p) \/ Post(p) \/ Cancel(p)
  \/ PostPayment(p) \/ PostRefund(p)
  \/ DefinePeriod(p) \/ RedefinePeriod(p) \/ RemovePeriod(p)
  \/ ClosePeriod(p) \/ ReopenPeriod(p)

Continue(p) ==
  \/ WriteNew(p) \/ WriteUpdate(p) \/ WritePost(p) \/ WriteDelete(p)
  \/ WriteReversal(p) \/ WritePeriod(p)

Next == Tick \/ \E p \in Procs : Begin(p) \/ Continue(p) \/ Fail(p)

Spec == Init /\ [][Next]_vars

-----------------------------------------------------------------------------
(* Properties. *)

\* The tables hold rows of their types, and every request what it decided on.
TypeOK ==
  /\ today \in 0..MaxDay
  /\ voucher \in [Vouchers -> VoucherRow]
  /\ period \in [Periods -> PeriodRow]
  /\ req \in [Procs -> Request]
  /\ fails \in 0..MaxFails

\* The vouchers that tell of one event: what it raised, and their reversals.
Story(ref) ==
  {v \in Vouchers : /\ Posted(v)
                    /\ \/ voucher[v].ref = ref
                       \/ /\ voucher[v].reverses # None
                          /\ voucher[voucher[v].reverses].ref = ref}
Booked(ref) == SumFunction([v \in Story(ref) |-> voucher[v].cash])

\* An event is booked once or not at all, whatever is replayed, raced or cancelled:
\* a replay, a sweep and a double-clicked callback "must all land ONE voucher".
BooksCountOnce ==
  /\ \A x \in Payments : Booked(<<"payment", x>>) \in {0, Amount[x]}
  /\ \A r \in Refunds : Booked(<<"refund", r>>) \in {0, -RefundAmount[r]}

\* A cancelled voucher stays in the ledger with exactly one mirror image of it, and
\* nothing else is ever mirrored.
MirroredOnce ==
  \A v \in Vouchers :
    LET mirrors == {w \in Vouchers : Posted(w) /\ voucher[w].reverses = v}
    IN  /\ Posted(v) /\ voucher[v].status = "CANCELLED" => Cardinality(mirrors) = 1
        /\ \A w \in mirrors : /\ Posted(v) /\ voucher[v].status = "CANCELLED"
                              /\ voucher[w].cash = -voucher[v].cash

\* A posted voucher never leaves the ledger and is never edited: corrections are
\* made by reversal only.
PostedIsImmutable ==
  [][\A v \in Vouchers :
       Posted(v) => /\ Posted(v)'
                    /\ voucher'[v].date = voucher[v].date
                    /\ voucher'[v].cash = voucher[v].cash]_vars

\* What the reports show of a period.
Figures(k) ==
  {<<v, voucher[v].cash>> : v \in {w \in Vouchers : /\ Posted(w)
                                                    /\ Covers(k, voucher[w].date)}}

\* A CLOSED period locks every voucher dated inside it: while it stays closed, no
\* report over it changes.
ClosedMonthKeepsItsFigures ==
  [][\A k \in Periods :
       period[k].status = "CLOSED" /\ period'[k].status = "CLOSED"
       => Figures(k)' = Figures(k)]_vars

\* Closing refuses over a draft, so that no unfinished voucher is ever left behind
\* in a month that is locked: nothing can put one there afterwards either.
NoDraftStranded ==
  \A k \in Defined, v \in Vouchers :
    period[k].status = "CLOSED" /\ Live(v) /\ voucher[v].status = "DRAFT"
    => ~Covers(k, voucher[v].date)

\* Every date belongs to at most one period, or its lock would depend on which of
\* two rows a query happens to return.
PeriodsDisjoint == \A day \in 0..MaxDay : Cardinality(Containing(day)) <= 1
=============================================================================
