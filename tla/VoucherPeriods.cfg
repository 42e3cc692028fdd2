\* One request at a time, over two days and two periods that are defined, moved,
\* closed, reopened and removed; a closed period refuses.
SPECIFICATION Spec
CONSTANTS
  None = None
  a = a
  b = b
  c = c
  Vouchers = {v1, v2}
  Periods = {k1, k2}
  Spans <- DayOrTwo
  Payments = {x1}
  Refunds = {r1}
  Amount <- MCAmount
  PaidOn <- MCPaidOn
  RefundOf <- MCRefundOf
  RefundAmount <- MCRefundAmount
  Procs = {a}
  Ops <- EveryOp
  BackdateAfterClose = FALSE
  AutoPostAsDraft = TRUE
  CashHard = TRUE
  ReversalsStand = FALSE
  MaxDay = 2
  MaxAmount = 1
  MaxFails = 0
SYMMETRY AnyVoucherAnyPeriod
INVARIANTS
  TypeOK
  NoDraftStranded
  PeriodsDisjoint
PROPERTIES
  ClosedMonthKeepsItsFigures
CHECK_DEADLOCK FALSE
