\* One clerk, a second desk that only cancels machine-raised vouchers, and two
\* deliveries of each payment event at a time; one request may die.
SPECIFICATION Spec
CONSTANTS
  None = None
  a = a
  b = b
  c = c
  Vouchers = {v1, v2, v3, v4}
  Periods = {}
  Spans = {}
  Payments = {x1}
  Refunds = {r1}
  Amount <- MCAmount
  PaidOn <- MCPaidOn
  RefundOf <- MCRefundOf
  RefundAmount <- MCRefundAmount
  Procs = {a, b, c}
  Ops <- BooksOps
  BackdateAfterClose = TRUE
  AutoPostAsDraft = FALSE
  CashHard = TRUE
  ReversalsStand = TRUE
  MaxDay = 0
  MaxAmount = 1
  MaxFails = 1
SYMMETRY AnyVoucher
INVARIANTS
  BooksCountOnce
  MirroredOnce
PROPERTIES
  PostedIsImmutable
CHECK_DEADLOCK FALSE
