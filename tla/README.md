# TLA+ models of the HexSchool backend

Models, model checks and proofs of the parts of HexSchool where several requests,
workers or callbacks work on the same rows: fee collection (module 16), accounting
(module 20), the store (module 24), notifications and SMS credit (module 17),
library circulation (module 23), and enrollment with promotion (module 11). The reference is the code under
`hexschool-backend/src`, the Prisma schema and the SQL migrations. Paths below are relative to `hexschool-backend/src`
unless they start with `docs/` or `prisma/`.

## 1. The system

A NestJS backend over PostgreSQL (Prisma, READ COMMITTED), with Redis and BullMQ
for queued work, cron jobs in the same process and a Next.js front end. A request
handler awaits one SQL statement at a time: between two of them any other request
may run. Transactions are used for writes that belong together, but what a write
is decided on is usually read before the transaction, and writes are by id. What
holds under concurrency holds because of a row lock, a unique index, a CHECK, or
not at all; this is what the models are about.

| Component | State it keeps | Operations | Talks to | What makes it correct |
|---|---|---|---|---|
| Fees (`modules/fee`) | invoices with status, fine and paid total; payments; refunds | generate, collect, refund, cancel, nightly fine, initiate, callback, reconcile, hourly sweep | sequences, payment gateways, accounting (events) | `paid_total` is the money on the invoice; nobody is charged twice; online money only on the gateway's word; a decided session is closed and verified money credited |
| Accounting (`modules/accounting`) | vouchers and lines, fiscal periods, posting map, budgets | create, update, post, cancel, auto-post; define, move, close, reopen, remove a period | fees (events), sequences | an event is booked once; a posted voucher is corrected by reversal only; a closed period is locked |
| Sequences (`modules/sequence`) | a counter per school and prefix | next number | every module that numbers documents | gap-free within the caller's transaction; the counter row's lock serialises its users |
| Inventory (`modules/inventory`) | stock ledger with running balances, deliveries, issue slips | draft, edit, delete, receive, cancel a delivery; issue, return, adjust | sequences, assets | running balances add up and stay above zero; slips and deliveries agree with the ledger; requests never wait for each other |
| Communication (`modules/communication`, `queues`) | notifications, SMS credit ledger, jobs | send, dispatch, retry, delivery report, purchase, adjust | BullMQ, SMS and mail gateways | sent once per asking, billed once, never left QUEUED; a delivered message goes out again only when asked for |
| Library (`modules/library`) | copies, issues, reservations, fines | issue, renew, return, mark, reserve, cancel, expire | fees (dues) | a copy is with one member at a time; copies, loans and holds agree; the queue is served in order |
| Enrollment (`modules/enrollment`) | enrollments, promotion batches and their items, pupils' status | enrol one or many, cancel, transfer; build, edit, execute, roll back, remove a batch | fees, attendance, marks (they hang on an enrollment) | one live enrollment per pupil and session; a batch is carried out whole or not at all; undoing it leaves nobody behind |
| Admission | applications, seats | apply, offer, admit | enrollment, fees | no seat given twice |
| Hostel, transport | beds, seats | allocate, vacate | fees | capacity is respected |
| HR and payroll | leave, payroll runs | apply, approve, process, lock | accounting | a run is paid once |
| Exams, results, assignments, attendance, timetable | rows per pupil | CRUD, publish | students | mostly pure engines, unit tested |
| Auth, RBAC, audit, set-up, portals, website, analytics, documents, community, storage, front end | | | | not about shared state that steps of two requests could spoil |

Hard in this system: statements of two requests in an order nobody tested (two
desks, cancel against collect, the fine run against everything, close against
post, two counters with one book, the office against a promotion); row locks taken in orders that differ; jobs
that are given out again after a worker died; verdicts fetched from a gateway and written later; callbacks lost, doubled
or late, with a sweep racing them; a crash between a commit and what should
follow it; events that are emitted in process and swallowed on failure; periods
that move under vouchers. The list, line by line, is under `hazards` in
`PROJECT.json`, each with the properties that would notice or the reason why none
does.

## 2. The modules

| Module | What it is |
|---|---|
| `FeeLedger` | the money side of the fee module |
| `InvoiceAccount` | the abstract account the fee module implements where nothing races |
| `MCFeeLedger` | its instances for TLC |
| `Sums_proofs` | lemmas about sums over finite sets, used by the three modules below that count money or stock |
| `FeeLedger_proofs` | theorems about `FeeLedger`, for every value of the constants: types, online money, late fines |
| `FeeMoney_proofs` | theorems about the money over the counter, and that `FeeLedger` implements `InvoiceAccount` |
| `VoucherLedger` | vouchers, auto-posting and fiscal periods |
| `MCVoucherLedger` | its instances for TLC |
| `VoucherLedger_proofs` | theorems about `VoucherLedger` |
| `StockLedger` | the store: deliveries, slips, adjustments, the ledger and row locks |
| `MCStockLedger` | its instances for TLC |
| `StockLedger_proofs` | theorems about `StockLedger` |
| `NotificationDelivery` | a message from its row to the gateway and back, with the queue and the credit |
| `MCNotificationDelivery` | its instances for TLC |
| `NotificationDelivery_proofs` | theorems about `NotificationDelivery` |
| `Circulation` | copies, loans and holds of the library |
| `MCCirculation` | its instances for TLC |
| `Circulation_proofs` | theorems about `Circulation` |
| `Enrollment` | enrollments of pupils and the promotion batches over them |
| `MCEnrollment` | its instances for TLC |
| `Enrollment_proofs` | theorems about `Enrollment` |

### FeeLedger

`invoice`, `payment`, `gateway` and `bill` are the tables and what the gateway
knows; `req[p]` is what the handler that process `p` runs keeps in local
variables, with a `pc` naming the statement it stands before. `Begin` starts a
handler (everything up to its first write, one step, as its later reads and
writes do not depend on when these reads happened relative to each other), and
`Continue` runs its next statement.

| Code | Actions |
|---|---|
| `CollectionService.collect` | `Collect`, then per allocation `InsertPayment` and a settle, then `Commit`, `Announce` |
| `CollectionService.refund` | `Refund`, `InsertRefund`, a settle, `Commit` |
| `CollectionService.settle`, `InvoiceService.refreshStatus` | `SumSuccessful`, `SumRefunded`, `FindForSettle`, `RefreshStatus` or `RefuseSettle` |
| `InvoiceService.cancel` | `Cancel`, `CancelWrite` |
| `FineJob.runForSchool` | `FineRun`, one `FineWrite` per candidate |
| `PaymentGatewayService.initiate` | `Initiate`, `CreatePending` |
| `handleCallback` | `HandleCallback`, `Verify`, `MarkAll`, a settle per invoice, `Announce` |
| `reconcile`, by hand or from `ReconciliationJob` | `Reconcile`, then the same path |
| the gateway and the payer | `GatewayDecides` |
| a request that dies | `Fail` |

The transaction of a collect is `intx`: its payment rows are in the table but
hidden from others (`Hidden`, `VisibleTo`), the invoice rows it has written are in
`wrote`, whose locks the others wait for (`InvoiceFree`), and `Commit` or `Abort`
ends both. `findForSettle` is not given the transaction and reads the committed
row; the two aggregates are given it and see the handler's own rows. The receipt
number's counter row is locked first and held to the commit (`CounterFree`).
`chk_invoices_amounts` is `Accepted`, evaluated by the write. `IsAllocation`
characterises what `allocatePayment` returns instead of computing it.

What a request learns of a session is what the adapter makes of it, and that need not
be what the gateway holds. `VerifyOutcomes` is the set of what it may come back with:
PENDING when the hint lacks what the gateway is asked by (`MayAsk`: bKash and Nagad ask
by session id, SSLCommerz by the `val_id` of its callback); the gateway's own status, or
FAILED where the answer has no status the adapter knows (`AnswerFor`, all three adapters);
CANCELLED or FAILED without asking when a bKash callback claims so (`ClaimedBy`). None of
the three makes SUCCESS of anything but the gateway's own. `Verdicts` adds the check of
the amount, which `handleCallback` alone makes and only when the answer has an amount,
and `MarkAll` that the answer may lack a transaction id.

Money is counted in whole units, so rounding is outside the model, and time in
calendar months, the grain of fines and due dates. Due dates are distinct, which
stands for the order by due date and then number. A checkout's receipt number is
left out.

### InvoiceAccount

What a caller may rely on: `Pay` spreads a sum over open invoices, never beyond
what they ask for; `GiveBack`, `Close` (only an empty invoice, for good) and
`Charge`. `FeeLedger!ImplementsAccount` maps `owed` to subtotal plus fine, `paid`
to `paid_total` and `closed` to the cancelled invoices. The refinement holds where
requests do not overlap; section 5 says what overlap breaks.

### VoucherLedger

A handler reads, decides and then writes, in one statement or one transaction; it
is two steps, `Begin` (`Create`, `Update`, `Post`, `Cancel`, `PostPayment`,
`PostRefund`, `DefinePeriod`, `RedefinePeriod`, `RemovePeriod`, `ClosePeriod`,
`ReopenPeriod`), which leaves in `req[p]` what will be written, and `Continue`
(`WriteNew`, `WriteUpdate`, `WritePost`, `WriteDelete`, `WriteReversal`,
`WritePeriod`), which looks at nothing again but the unique index on `source_ref`
(`KeyFree`, and in `WritePost` for a voucher that was cancelled meanwhile). `Resolve` is `resolvePeriodFor` as a set: empty where the code
refuses, several members only where a query could return either of two rows.

The lines of a voucher are reduced to what they move on the cash account; that
debits equal credits is the engine's own check on one voucher and is taken as
given, as is a chart of accounts that accepts the voucher. No voucher is dated
ahead (`accounting.future_voucher_days` 0).

### StockLedger

A handler reads and decides outside its transaction (`Begin`) and lays out in
`todo` the statements the transaction will run; `Continue` runs the next one when
the rows it locks are free. `holds` are the row locks: `FOR UPDATE` on an item in
`lockItemAndReadBalance`, the rows an UPDATE changes, and the share lock on an item
that the foreign key of a new line takes. What a transaction has written is in
`req[p].wrote` until `Commit`, which also releases the locks.

| Code | Actions |
|---|---|
| `PurchasesService.create`, `update`, `remove` | `DraftPurchase`, `UpdatePurchase`, `RemovePurchase` |
| `receive`, `cancel` | `ReceivePurchase` (items as listed), `CancelPurchase` (sorted) |
| `StockIssuesService.create`, `processReturn` | `Issue`, `Return`, `CreditLine`, `Reread` |
| `StockService.adjust` | `Adjust` |
| `record`, `recordMany` | `Move` per item, in the order of `Sorted` |
| document numbers, foreign keys, the document's own row | `TakeNumber`, `CheckForeignKey`, `Stamp` |
| a request that dies | `Fail` |

Items are counted in base units, and all are consumables.

`Balance` is the last row written, the code's is the one with the newest `created_at`
(`stock.repository.ts:61-65`). They are the same row as long as `created_at` follows the
order of writing: the rows of one item are written under its lock, one transaction after
the other, and the column is a `@default(now())` that the Prisma client (7.8 with
`@prisma/adapter-pg`) fills for each INSERT when it is sent, that is after the lock was
granted. The model takes that on trust, with one server, a clock that does not step back
and no two movements of an item in one millisecond. Were the column left to its SQL default, `CURRENT_TIMESTAMP`, which
is the start of the transaction, a request that began first and got the lock second would
write a row that looks older than the one it continues, and the next balance would be
read from the wrong row.

### NotificationDelivery

`note` is the row, `jobs` the queue, `worker[w].at` the await a worker stands
before, `caller` what a request still has to enqueue, `credit` the append-only
ledger, `sent` what the gateway has accepted. A row's `pid` is the gateway's id of
the message. `again` and `broken` only count: how often a row was queued again, and
how many of its dispatches ended after the gateway had taken the message and before
the row was marked.

| Code | Actions |
|---|---|
| `NotificationService.send` | `Compose`, `Enqueue` or `EnqueueFails` |
| `retryFailed` | `FindFailed`, then per row `Requeue` and `Enqueue` |
| `SmsCreditService.purchase`, `adjust` | `Credit` |
| `NotificationsProcessor`, `NotificationDispatchService.dispatch` | `Take`, `Load`, `Gate`, `Send`, `Consume`, `Charge`, `Mark` or `FailRow`, `Finish` |
| a thrown error, `forceFail` | `Throw`: the next attempt, or after the last `FailRow` |
| a worker that dies, BullMQ's stalled-job check | `Crash` |
| `DlrService.handle` | `ReportComes` (the lookup), `ReportApplies` (the write), for each message any number of times |

A report is applied whatever the row says by then, as in the code: one says DELIVERED,
the next FAILED or something unknown, and each overwrites the last.

The gateway, BullMQ and the administrator are environments, modelled from how the
code uses them. A retry's delay and a stalled job's are any delay.

### Circulation

A request reads and decides (`at = "read"`), opens its transaction with a write
whose row stays locked and reads again what the code reads in the transaction
(`"tx"`), and commits. `loan` and `hold` are indexed in the order of their making,
which stands for `issued_on` and `reserved_at`.

| Code | Actions |
|---|---|
| `CirculationService.issue` | `IssueVerdict`, `IssueLends`, `IssueCommits` |
| `return_` | `ReturnFinds`, `ReturnLocks`, `ReturnCommits` |
| `BookCopiesService.generate`, `mark`, `remove` | `Generate`; `MarkReads`, `MarkLocks`, `MarkCommits`; `RemoveCounts`, `RemoveDeletes` |
| `ReservationsService.create`, `cancel` | `ReserveReads`, `ReserveInserts`; `CancelReads`, `CancelLocks`, `CancelCommits` |
| `expireLapsed` | `SweepReads`, then per hold `SweepLocks`, `SweepCommits` |
| `releaseHeldCopy` | `EndHold` |
| refused, rolled back, abandoned | `Abandon` |

The unique indexes `uq_book_issues_open_copy`, `uq_book_reservations_live` and
`uq_book_reservations_held_copy` are guards of the steps that write.

### Enrollment

A request is two steps: it reads and decides, and leaves in `req[p]` the ids and the
values it will write; then it writes them, whatever they have become. The statements
of `execute` and `rollback` are one step, since nothing they read between the first
write and the commit could be changed by others except rows whose change makes a
write fail (`Abandon`). `depends` is what other modules hang on an enrollment and a
hard delete takes away with it.

| Code | Actions |
|---|---|
| `EnrollmentsService.enroll`, `bulkEnroll` | `EnrollReads`, `BulkReads`; `EnrollInserts` |
| `cancel` | `CancelReads`, `CancelWrites` |
| `transferSection` | `TransferReads`, `TransferWrites` |
| `PromotionService.create` | `CreateBatch` (the batch), `CreateItems` (its items, a statement of their own) |
| `updateItems` | `EditReads`, `EditWrites`, for one item |
| `execute` | `ExecuteReads`, `ExecuteWrites` (close, graduate, insert, mark the items and the batch) |
| `rollback` | `RollbackReads` (its guard), `RollbackWrites` (delete, reopen, `RevertGraduates`) |
| `remove` | `RemoveReads`, `RemoveDeletes` |
| attendance, marks and invoices of an active pupil | `DependentReads`, `DependentInserts` |
| refused, rolled back, dead | `Abandon` |

`Indexed` is `uq_enrollments_student_session`, evaluated by each insert and reopening;
`TargetOK` is `validateTarget`, `Room` is `assertCapacity` and `BulkFits` the way
`bulkEnroll` calls it. A row that was hard-deleted keeps its place as `"deleted"`, so
that a request that still has its id finds nothing there.

### Variants

A definition just above the one it varies (`CounterNeverLocked` above
`CounterFree`) is the same step with a likely slip in it: a lock not taken, a
guard on the wrong field, a sum outside the transaction. Putting it in the place of
the original makes the property named with it in `PROJECT.json` fail.

## 3. What the runs check

Every bound below is a constant of the configuration.

| Run | Instance | Distinct states | Shows |
|---|---|---|---|
| `fee_desk` | 2 invoices (2 and 1), 2 payments, 3 processes, 1 counter, months 0-2, fine 2 capped at 3, 1 failure | 245,602 | two desks and two fine runs: `PaidTotalAgrees`, `NeverOvercollected`, `FineOncePerMonth` |
| `fee_office` | 3 payments, 1 process, months 0-2, fine 1 capped at 2, 1 failure | 19,016 | every offline operation in any order: `PaidTotalAgrees`, `CancelledHoldsNoMoney`, `DuesAreSeen`, `RefundIsAccepted`, `ImplementsAccount` |
| `fee_online` | 1 session over 2 invoices, 2 processes, 1 failure, claims and unclear answers | 460,023 | callbacks, manual and hourly reconciliation racing: `OnlyVerifiedMoney`, `SessionIsOneVerdict`, `DecidedIsClosed`, `TypeOK` |
| `fee_serial` | 1 session, 1 process, no failure, claims and unclear answers | 2,013 | the same without overlap: `VerifiedStays`, `VerifiedMoneyIsCredited`, `VerifiedMoneyIsAnnounced` |
| `voucher_books` | 4 vouchers, 1 payment of 2, 1 refund of 1, 3 processes, 1 failure | 164,508 | events delivered twice and racing, cancelled and replayed: `BooksCountOnce`, `MirroredOnce`, `PostedIsImmutable` |
| `voucher_periods` | 2 vouchers, 2 periods, days 0-2, 1 process, backdating off | 605,318 | every operation in any order: `NoDraftStranded`, `PeriodsDisjoint`, `ClosedMonthKeepsItsFigures`, `TypeOK` |
| `stock_room` | 2 items, 2 slips, 1 delivery, 2 processes, quantity 1, 4 requests, 1 failure | 56,925 | storekeeper and issue desk on the same items: `LedgerAddsUp`, `SlipsAgreeWithLedger`, `DeliveredOnce`, `EveryRequestEnds`, `TypeOK` |
| `notify_line` | 1 SMS, 1 e-mail, 1 worker, 1 caller, 2 attempts, 2 acceptances, 1 top-up, 1 retry of the SMS, 2 mishaps (errors, a crash, a lost enqueue), any number of reports | 701,296 | a message through every failure: `BilledAsSent`, `SentOncePerAsking`, `OnlyReportsUndoDelivery`, `EveryMessageSettles`, `TypeOK` |
| `library_desks` | 2 copies of a title, 2 members, 2 desks (one issues, reserves, cancels and sweeps; the other returns, marks, generates and removes), limit 1, 2 loans, 2 holds | 1,986,600 | two counters: `ShelfMatchesLoans`, `ReadyHoldHasItsCopy`, `LoansWithinLimit`, `QueueInOrder`, `TypeOK` |
| `school_year` | 2 pupils, 2 sections of the old session and 1 of the new, 2 seats each, 1 batch, 3 enrollments, 1 that something hangs on, the office and the head, decisions PROMOTE and GRADUATE | 798,182 | a promotion while the office works on the same pupils: `BatchIsWhole`, `NobodyLeftBehind`, `TypeOK` |
| `fee_refund_race`, `bulk_overflow` | | | a disagreement between code and documentation each, see section 5 |

Why the bounds are enough for their question: two invoices are the fewest that make
an allocation, a basket and a multi-invoice session interesting; with sums of 1 and
2 there are partial and full payments and refunds; two payment rows let two desks
fight for the same debt, three let a refund leave something behind; three months
give a fine, a second fine that hits the cap and one that is refused; two periods
over three days give a closed month with an open one after it, adjacent periods and
overlapping ones, and two vouchers a posting and its reversal in them; four vouchers hold a posting, its reversal, the replay and a
refund. Two items are the fewest that can be locked in two orders, and four requests
hold a delivery, two slips and a return or a cancellation of one; two attempts are a retry
and a last one; two holds on two copies are one that is READY and one that waits behind it,
and two loans a copy lent, returned and lent again; two pupils let a batch move one
and leave one out, two sections of the old session a transfer, and a third
enrollment is the new place of one, or what the office gives away while a batch
waits (a batch that moves both pupils needs a fourth: with `MaxRows = 4` the run
holds too, on 11,222,706 states). RETAIN is PROMOTE with another closing status and
EXCLUDE does nothing; both are in the proofs, and EXCLUDE in the configurations of
section 5. Payments, vouchers, periods, pupils and the two old sections are
interchangeable, which the symmetry sets use in the runs without liveness.

Configurations that belong to no run, each for one disagreement of section 5, are
kept beside the others: `FeeWholeRefund`, `FeeSweepMismatch`, `FeeCrashAfterMark`,
`FeeHearsay`, `FeeUnclearAnswer`
(`MCFeeLedger`), `VoucherBackdate` (`MCVoucherLedger`), `StockSlipStatus`, `StockDeadlock`
(`MCStockLedger`), `NotifyUnbilled` (`MCNotificationDelivery`), `LibraryWriteOff`,
`LibraryTwoReturns` (`MCCirculation`), `RollbackInvoices`, `CancelledComesBack` and
`PromotedTwice` (`MCEnrollment`). `tlc
-config FeeWholeRefund.cfg MCFeeLedger` shows the counterexample, and so with the
others.

Where a run has one process, that is its statement: the property holds when
requests do not overlap. For `CancelledHoldsNoMoney`, `DuesAreSeen`, `VerifiedStays`,
`RefundIsAccepted`, `NoDraftStranded`, `PeriodsDisjoint`
and `ClosedMonthKeepsItsFigures` two overlapping requests do break them, in the way
the hazards describe (the same configuration with two processes shows it); so do
two clerks for `PostedIsImmutable`. The code documents nothing about overlap there,
with one exception, `PaidTotalAgrees`, which `fee_refund_race` is about.

In `stock_room` one process serves the storekeeper and one the issue desk, and in
`library_desks` one counter takes books in: what two of the same kind do to
each other is in section 5 (`StockSlipStatus`, `LibraryTwoReturns`), and
`LedgerAddsUp`, `QueueInOrder` and the one-loan rule are proved for any number
of them. `notify_line` has one worker and one caller; two workers are
`NotifyUnbilled.cfg`. `school_year` has one head (`OneHead` of the proofs): two requests
on one batch are `PromotedTwice.cfg`.

`CHECK_DEADLOCK FALSE`: a desk may have nothing left to do within the bounds.

**Assumptions made by constants.** `WholeRefunds = FALSE` in `fee_office`: nobody
asks for the whole of a payment back, which the code cannot do (section 5).
`VerifyByRef = TRUE`: the gateway verifies from its session id, as bKash and Nagad
do and SSLCommerz does not (without it `DecidedIsClosed` fails). `TrustsClaims` and
`UnclearAnswers` are TRUE in `fee_online` and `fee_serial`, as the adapters are; the other
configurations set them FALSE where the question is another. `fee_serial` lets no request
die, since a death between marking and settling does lose the credit
(`FeeCrashAfterMark.cfg`). `ReversalsStand = TRUE` in `voucher_books`: nobody
cancels a reversal and replays the event. `BackdateAfterClose = FALSE` in
`voucher_periods`: the strict setting. `EntrySorted = TRUE` in `stock_room`: clerks
list items in the order of their ids (without that, section 5). `MarkReserved =
FALSE` in `library_desks`: nobody writes off a copy that is on the hold shelf
(section 5).

**A decided session is closed, not always rightly.** With claims and unclear answers the
end of a session need not be the gateway's: `DecidedIsClosed` says that its rows leave PENDING
for good, `OnlyVerifiedMoney` that they are never SUCCESS without the gateway's word, and
`VerifiedMoneyIsCredited` and `VerifiedMoneyIsAnnounced` start from a row that was
verified. That money the gateway holds always ends up SUCCESS is what the
code's comment promises and the adapters do not keep (`LostCallbackIsRecovered`,
`NeverCancelledOnHearsay`, section 5).

**Fairness.** `WF(Continue(p))`: a request that was started executes its next
statement unless it has to wait or dies, and dying is bounded (`MaxFails`).
`SF("sweep" \in Ops[p] /\ Reconcile(p))`: a cron timer fires every hour whatever
else runs, so a process that is free again and again for the sweep is not taken by
other requests for ever. Nothing is assumed of the payer, of callbacks or of
manual reconciliation. `StockLedger` asks `SF(Continue(p))`: a transaction goes on,
and PostgreSQL queues those that wait for a row, so none is overtaken for ever.
`NotificationDelivery` asks `WF(Enqueue(c))` and `WF(Dispatch(w))`: a request goes on
after its insert, and a worker that is alive takes the next job and goes on with
it; nothing is assumed of reports, retries or top-ups. `EveryMessageSettles` speaks of
rows whose job is in the queue, as a failed enqueue leaves the row alone (section 5).
`Circulation` and `Enrollment` are checked for safety only: their requests either end or are abandoned.

## 4. What is proved

The assumptions are those the modules state about their constants: sets of names
that do not overlap, amounts that are natural numbers, and, where sums are formed over
a table, that the table is finite (`IsFiniteSet` of the payments, the vouchers and the
catalogue), which a table of a database is. `NoneIsNoRow` and `NoneIsNoRef` say that
`None`, which stands for SQL's NULL, is no row and no reference. Where a theorem has a
condition of its own on who may do what, the condition is a definition with a name, and
each is needed: without it TLC finds the property violated.

`Sums_proofs`. `SumFunctionOnSet` is a fold that takes the members of a finite set in an
order the definition leaves open. `SumTakesAny` shows that any member may be taken out
first, by induction on the set, which is stated over a set of subsets
(`SubsetInduction`) since a lemma here cannot take a predicate. From it follow
what the models need: sums add up over disjoint sets (`SumAdds`), change by what one
member changes (`SumChanges`), grow with their set (`SumGrows`) and can be taken
differences of (`SumOfDifferences`).

`FeeLedger_proofs`, for any sets of invoices, payments, sessions and processes and
any values of the bounds, from `FeeAssumption` and `NoneIsNoRow`:

- `TypeCorrect`: `Spec => []TypeOK`.
- `OnlineMoneyIsVerified`: `Spec => []OnlyVerifiedMoney`. An online payment is
  SUCCESS, or REFUNDED afterwards, only if the gateway reported success for its
  session, however callbacks, sweeps, refunds and crashes interleave.
- `VerifiedInvariant`: `Spec => []VerifiedInv`, the inductive invariant of both.

`OnlyVerifiedMoney` talks about the table alone and is not inductive: a request on
its way to `MarkAll` could hold anything. `VerifiedInv` adds what requests carry
(`CarriesOK`: a verdict SUCCESS in hand is still the gateway's, the session asked
about is open), what they hold on to (`HoldsOK`: the rows to be marked belong to
that session, the payment a refund will write was backed when it was picked, and
no transaction that rolls back can take such a row away) and of each row
(`RowOK`: SUCCESS and REFUNDED are backed). The argument: whatever
`Verify` makes of an answer, it makes SUCCESS of the gateway's SUCCESS alone
(`VerdictIsBacked`), and verdicts of the gateway are final (`GatewayOnlyAdvances`), so it is still
true when `MarkAll` writes it. There is one lemma per action; `OneRequestMoves`,
`RequestMovesOn`, `RequestHoldsNothing` and `RequestTakesRows` collect what the
actions that change only requests have in common.

- `FinesAreMonthly`: `Spec => []FineOncePerMonth`, whatever else is at work. The fine run
  reads all its candidates at once and writes an absolute fine to one after the
  other. `FinesInv` says that a row still to be written either is as the run
  read it or already has this month's fine from another run, which is the one about to
  be written (`Chargeable`); and that what an open transaction has written carries the
  fine the row has (`SameFine`), because the fine run waits for its lock.
- `CheckoutsAreWhole`: `WholeSessions` implies `Spec => []SessionIsOneVerdict`, with any
  callbacks, sweeps, reconciliations and failures. `WholeSessions` says that callbacks name
  their session and that nothing is refunded: TLC breaks the property where a callback
  names one transaction of the session, and where one of its receipts is given back
  in full. `SessionInv` says that a session about to get its rows has none and that nobody
  else is about to give it some (`FreshSession`), and that a request that asked about a
  session holds all its rows (`WholeSession`), so `markAll` writes them alike.
- `VerifiedMoneyStays`: `WholeSessions` and `OneAtATime` imply `Spec => VerifiedStays`. A
  request that is alone holds rows of which none is SUCCESS, as each looks for one that is
  not and all are alike; only `markAll` and a refund write a verified row
  (`OnlyMarkingUnverifies`). With two requests a verdict fetched before the payer paid
  overwrites the SUCCESS (`hazards`).

`FeeMoney_proofs`:

- `PaidTotalsAreRight`, `NobodyPaysTwice`, `RefundsGoThrough`: `AtTheTill` implies
  `Spec => []PaidTotalAgrees`, `[]NeverOvercollected` and `[]RefundIsAccepted`.
  `AtTheTill` says: no online payments; no refund of the whole of a payment; and either
  one process, which collects, refunds, cancels and fines, or any number that do not
  refund and draw their receipt numbers from one counter. `MoneyInv` says that at most
  one transaction is open, and of that one that the sums it has read are those of the
  rows it sees, and the paid totals it has written what the invoices will hold once
  it commits (`TransactionOK`, `HeldAfter`). It is kept since the receipt number is drawn before the first
  row is inserted, and its counter row stays locked. A refund draws no number, and two months'
  counters do not exclude each other: in both cases a total is lost
  (`fee_refund_race`, and `FeeDesk` with two counters), so neither can be let in. A
  refund of the whole is refused by the CHECK (section 5, item 1).
- `CancelledInvoicesAreEmpty`, `DuesStayVisible`: `AtTheTill` and `OneClerk` (no two
  processes) imply `Spec => []CancelledHoldsNoMoney` and `Spec => []DuesAreSeen`.
  `OfficeInv` adds that what a request read is still so when it writes: the invoice it
  cancels is empty, the row it read to settle is the row it overwrites, the invoices it
  was asked to collect for are not cancelled.
- `OneClerkKeepsTheAccount`: on the same terms `Spec => ImplementsAccount`. `Commit` of a
  collect is `Pay`, of a refund `GiveBack`; `CancelWrite` is `Close`, `FineWrite` is
  `Charge`; every other step leaves the account as it is (`StepMovesAccount`).

`VoucherLedger_proofs`, from `VoucherAssumption`, for any vouchers, periods, spans,
payments and refunds:

- `BooksTyped`: `Spec => []TypeOK`, and `OneVoucherPerEvent`: `Spec => []OneLivePerKey`,
  under any overlap. `BooksInvariant` adds to the two what a request will write and
  that the row it names is there (`RequestOK`). Only an insert and a post can give a
  row a key that counts, and both meet the unique index (`ChangeStep`).
- `PeriodsNeverOverlap`: `OneCalendar` implies `Spec => []PeriodsDisjoint`.
  `OneCalendar` says that at most one process defines or redefines periods; closing,
  reopening, removing and every voucher may go on beside it. `CalendarInvariant`
  carries the overlap check from its reading to the write (`StaysFree`).
- `DraftsAreNeverStranded` and `ClosedMonthIsLocked`: `OneAtATime` and
  `BackdateAfterClose = FALSE` imply `Spec => []NoDraftStranded` and
  `Spec => ClosedMonthKeepsItsFigures`. `LockInvariant` says what a request in flight
  still relies on as it writes (`StillSo`): that the day of its row is in no closed
  month, that a draft is still a draft and a posted voucher posted, that a month to be
  closed has no draft. It needs `PeriodsDisjoint`: with two periods over one day,
  `resolvePeriodFor` could find the open one. Both terms are needed: with backdating on,
  which is the default, section 5, item 5, and where requests overlap, a draft can slip
  in between the count of drafts and the close (`hazards`).
- `EventsAreBookedOnce`, `CancelledIsMirroredOnce`, `PostedVouchersStand`: `OneClerk`
  implies `Spec => []BooksCountOnce`, `Spec => []MirroredOnce` and
  `Spec => PostedIsImmutable`. Here `OneClerk` says that reversals stand and that one
  process only edits, posts and cancels by hand; the listeners, any number of them, race
  it and each other over the same events. `StoryInvariant` tells the story of an event
  row by row: each of its vouchers is worth the event, live ones exclude each
  other by the index, a cancelled one is paired with its one reversal, so the sum over
  the story is that of the live voucher, if there is one. Two clerks who cancel the
  same voucher made by hand would both find it posted: such a voucher has no key, so
  the index does not stop the second, and `Decided` says it is the one clerk's.

`StockLedger_proofs`, from `StockAssumption` and `NoneIsNoRow`:

- `LedgerIsSound`: `Spec => []LedgerAddsUp`, for any items, documents, processes,
  lists in any order and failures.
- `StockInvariantHolds`: `Spec => []StockInvariant`, the inductive invariant behind it.

A row is computed from a balance that was read some statements before it is
written, so `LedgerAddsUp` needs to know that nothing was written in between. The
invariant adds that every uncommitted row continues the committed ledger and that
whoever has one owns the item's lock (`WrittenUnderLock`), that two requests never
own conflicting locks (`LocksExclude`), and what keeps the rows typed (`MovesFit`). A commit by one then leaves
what the others have written in place, because it can only touch other items. The
share locks of foreign keys matter here too: they conflict with `FOR UPDATE`, and the
proof splits on the modes.

- `TypeCorrect`: `Spec => []TypeOK`.
- `SlipsMatchTheLedger`: `Spec => []SlipsAgreeWithLedger`, for any number of issue desks
  and storekeepers. A transaction that is through with its statements has written one
  row for each item it moves, with the quantities it was asked for; what a
  return credits was outstanding when the conditional UPDATE looked, and still is at the
  commit, because that UPDATE has locked the line (`CreditedUnderLock`); and while a
  slip is being made no other request can be at work on it (`DocsInFlight`).
- `DeliveriesMatchTheLedger`: `OneKeeper` implies `Spec => []DeliveredOnce`. `OneKeeper`
  says that one process takes the requests on deliveries; issue desks may be any
  number. What the keeper read of the delivery's status is then still so at the commit
  (`SeenIsSo`). Two keepers take one delivery in twice: status is checked outside the transaction and
  written by id.

`Circulation_proofs`, from `CirculationAssumption`:

- `QueueTyped`: `Spec => []TypeOK`, with `QueueServedInOrder`:
  `Spec => QueueInOrder`. A hold is chosen as the head of the queue in one step and
  made READY in a later one; meanwhile others may place, end and serve holds. The
  invariant `QueueInvariant` says that nobody older than the chosen hold waits for
  the title while the request is in its transaction (`RequestOK`): holds are only
  ever added at the end (`InOrder`), so none can come in before it.
- `LendingInvariantHolds`, `CopyIsLentOnce`: `Spec => []OneOpenLoan`, the first
  conjunct of `ShelfMatchesLoans`, from the lock on the copy between the index's
  check and the commit (`LendersExclude`).
- `ShelfTellsTheLoans`, `ReadyBooksAreThere`: `OneCounterEach` implies
  `Spec => []ShelfMatchesLoans` and `Spec => []ReadyHoldHasItsCopy`. `OneCounterEach` says
  that one desk returns and marks, one desk (perhaps the same) issues, cancels and
  sweeps, and `MarkReserved = FALSE`; desks that place holds, generate and remove copies
  may be any number. Statuses are written by id, whatever they have become since they
  were read, so the invariant (`StillSo`) says what each counter may still rely on
  while the other writes: a loan to be returned is open, a copy to be written off is
  not on the hold shelf and has no other open loan, a copy whose hold is being ended is
  RESERVED and kept for that hold alone, as are all those of the rest of a sweep's
  list. The two properties need each other: that a copy with an open loan is kept for
  nobody takes both. Section 5, items 13 and 14, show what happens without the terms.
- `CardsAreKept`: `OneLender` implies `Spec => []LoansWithinLimit`: any number of desks do
  anything but issue. The verdict counts before the transaction, and until the commit
  only returns and write-offs can touch the member's loans (`CardOK`).

`Enrollment_proofs`, from `EnrollmentAssumption`:

- `OnePlacePerSession`: `Spec => []TypeOK`, for any number of requests of any kind. The
  index is looked at by what inserts and reopens, but a transfer writes a section by id
  without it; `RegisterInvariant` adds that the section in its hands is of the session
  the row is in (`RequestOK`), which stays so because no row ever changes session and a
  deleted one does not come back (`Evolves`).
- `BatchesAreWhole`: `OneHead` implies `Spec => []BatchIsWhole`, and
  `UndoneLeavesNobody`: `OneHead` implies `Spec => []NobodyLeftBehind`. `OneHead` says
  that one process takes the requests on batches; the office, and what hangs on
  enrollments, may have any number. The two properties speak of each other's
  terms: which closings a rollback undoes follows from what the batch's items say, and
  that those are the items it read from nobody else writing them. `BatchInvariant` is
  their conjunction with `RegisterInvariant`, with what a request on a batch holds
  (`HeadOK`: the batch is still DRAFT, or EXECUTED, and its items are those it read) and
  that a place made by a batch is a pupil's. What the office does is covered once, by
  `Keeps`: it takes no row away, closes none and makes none for a batch.

Without `OneHead` both fail (section 5, item 19).

`NotificationDelivery_proofs`, from `DeliveryAssumption`, for any rows, jobs, attempts,
acceptances, errors, crashes and lost enqueues:

- `TypeCorrect`: `Spec => []TypeOK`, for any number of workers and callers, with
  `DeliveryInvariant`. Two things are not seen in the types: that a busy worker's job
  is in the queue, active and nobody else's (`HoldsItsJob`; only the holder may drop or
  release it), and that a worker which stores what the gateway said finds a message
  the gateway took (`WasAccepted`, `LatestKnown`).
- `SentOnce`: `OneWorker` implies `Spec => []SentOncePerAsking`, for any number of
  callers. `AskedFor` counts for each row one more than was sent as long as it may
  still go out without anybody asking again (`MaySend`): it is QUEUED, or a worker is
  on its way with it, and none is past the gateway with it. Only `Compose` and
  `Requeue` make that true anew, and `Crash` and `Charge` where a dispatch breaks off.
- `BilledOnce`: `OneWorker` and `OnlyTopsUp` imply `Spec => []BilledAsSent`. What `Gate`
  saw is still there when `Charge` bills it (`Funded`), so neither `consume` nor the
  CHECK can refuse. `OnlyTopsUp` says that corrections of the credit only add to it;
  one that takes away between the two leaves a message unbilled, and so does a
  second worker (section 5, `NotifyUnbilled.cfg`).
- `DeliveredForGood`: `Spec => OnlyReportsUndoDelivery`, for any number of workers,
  callers, stalls and reports. `DeliveredInv` says of a row nobody asked for again that
  it has one job, or one caller about to add it (`HasOneJob`), and that while a worker has
  it in its hands it is QUEUED and no message id is stored (`IsDecidedOnce`). So no report
  can find the row before it is decided, and no worker can write it after: a DELIVERED
  row has nobody left who would take it back but a further report. A retry is excused,
  and must be: it reads the failed rows and requeues them one by one by id, while
  a late report may make one of them DELIVERED.

Only model-checked: liveness under fairness (`EveryRequestEnds`, `EveryMessageSettles`,
`DecidedIsClosed`, `VerifiedMoneyIsCredited`, `VerifiedMoneyIsAnnounced`), which the
prover cannot do. Of `VerifiedStays`, `fee_serial` also checks callbacks that name a
transaction, which its theorem leaves out.

## 5. Where the code and its documentation disagree

Each is told with its lines under `findings` in `PROJECT.json`. In brackets: the run
or the configuration that shows it, if one does.

1. A whole refund is refused (`FeeWholeRefund.cfg`): the emptied payment drops out of
   one aggregate while its refund stays in the other, the net is negative and the
   CHECK rolls the refund back. `docs/modules/16-fees-payments.md:16` promises
   refunds "whole or partial".
2. A refund and a collect that overlap disagree about the invoice (run
   `fee_refund_race`), which `modules/fee/services/collection.service.ts:364-368`
   says can never be: collects take turns at the receipt counter, refunds do not.
3. The sweep has no amount check (`FeeSweepMismatch.cfg`), which
   `modules/fee/jobs/reconciliation.job.ts:18-20` says it has.
4. A crash between marking and settling loses the credit (`FeeCrashAfterMark.cfg`):
   every way to retry stops at the SUCCESS status.
5. A closed month changes under the default setting (`VoucherBackdate.cfg`): the
   voucher is recorded in the next period but dated, and reported, in the closed one.
6. Reconciling again does not post a missing voucher, as
   `modules/accounting/events/accounting.listener.ts:17` says it does (no run: read
   off the short-circuit in `reconcile`).
7. An SSLCommerz payment whose callback is lost stays PENDING (no run of its own:
   `VerifyByRef = FALSE`, under which `DecidedIsClosed` fails).
8. Two stock movements can deadlock (`StockDeadlock.cfg`), which
   `modules/inventory/services/stock.service.ts:116-118` says the sorting makes
   impossible: `receive` does not sort, and foreign keys lock before the sort.
9. A slip whose lines come back at two desks at once stays PARTIAL_RETURN
   (`StockSlipStatus.cfg`), against `stock-issues.service.ts:294-297`.
10. A message can be sent and not billed (`NotifyUnbilled.cfg`), against
    `notification-dispatch.service.ts:125-126`: nobody looks at `consume`'s refusal.
11. A row whose enqueue failed stays QUEUED for good, against
    `notification.service.ts:196-198`: the retry path takes FAILED rows only
    (`EnqueueFails`).
12. A delivery report that beats the acknowledgement is dropped, against
    `dlr.service.ts:7-8` (`ReportComes` asks for the id that `Mark`
    stores, so such a report is none).
13. A copy on the hold shelf that is written off leaves its hold READY
    (`LibraryWriteOff.cfg`), against `reservations.service.ts:27`.
14. A book taken in at two counters, and lent in between, is put on the shelf while
    it is out (`LibraryTwoReturns.cfg`), against `circulation.service.ts:77-80`.
15. A copy lent while it is being deleted is deleted, against
    `book-copies.service.ts:284-287`: the foreign key does not see a soft delete.
16. The bulk enrolment admits one pupil more than a section seats (run `bulk_overflow`),
    against `docs/modules/11-enrollment-promotion.md:13`: the pupil who would exceed the
    capacity is checked with nothing added.
17. A rollback deletes the new session's invoices and their payments
    (`RollbackInvoices.cfg`), which cascade with the enrollment as attendance and marks
    do, against `promotion.service.ts:428-432`: the guard asks for those two alone.
18. A rollback makes cancelled enrollments active again, and those of EXCLUDE items
    (`CancelledComesBack.cfg`), against `docs/modules/11-enrollment-promotion.md:68`.
19. A batch can be executed twice (`PromotedTwice.cfg`), against the same line: the DRAFT
    gate is read outside the transaction and only the index stands behind it.
20. A bKash callback that claims the payer gave up is believed (`FeeHearsay.cfg`): the
    session is marked CANCELLED without asking and the sweep does not look at it again.
    `gateway.interface.ts:55` calls the claim "informational only", and
    `docs/modules/16-fees-payments.md:18` says "the callback trusts nothing in its body".
21. An answer without a status the adapter knows, an error for one, is FAILED for good
    (`FeeUnclearAnswer.cfg`), against `payment-gateway.service.ts:70`, "A lost callback is
    not a lost payment": the sweep reads PENDING rows only.

## 6. Not modelled

Rounding and percentages, the rendering of document numbers, permissions, settings
changed while a request runs, soft deletion of invoices, several schools, the pool
of database connections and transaction time-outs; that a refund announces itself
to the ledger too. A request does not outlast a
month (fees) or a day (accounting). Two aggregates that are sent together outside a
transaction (`settle` after a callback) are taken in their order of sending: no run
mixes them with refunds.

Store: tagged assets and their register (units, disposal), suppliers, the catalogue,
unit conversion, opening balances as such (an adjustment), vouchers and reports.

Notifications: templates, quiet hours, deduplication, the inbox, the low-credit
alert, bulk batches and notices (many sends), the raw jobs of other queues. A stalled
job that is dropped on its second stall is in the model, but `notify_line` allows one
crash only; the row would stay QUEUED without a job.

Library: renewals, fines and due dates (columns nothing here reads), the other
refusals of a card (inactive, fine owed, overdue: `Abandon` stands for them), the
stock-take, overdue notices, the catalogue.

Enrollment: roll numbers and renumbering (a number in use makes a write fail, which
`Abandon` covers), optional subjects, the transfer log, soft deletes, a pupil's status
changed elsewhere, several items edited at once, previews and other reads.

The components of section 1 without a module are listed
with their reasons in `PROJECT.json`.

## 7. Plan

1. `FeeAccounting`, composing `FeeLedger` and `VoucherLedger` over the payment
   events: what was announced and what is booked, restarts in between.
2. Hostel beds, payroll runs and result publication: the same read-then-write shape
   as the library.
3. Theorems: `VerifiedStays` with callbacks by transaction id too, which needs that a
   row found by one is worth less than its session.
