\* One request at a time under the default settings: a closed period redirects.
SPECIFICATION Spec
CONSTANTS
  None = None
  a = a
  b = b
  c = c
  Vouchers = {v1, v2}
  Periods = {k1, k2}
  Spans <- DayOrTwo
  Payments = {x1}
  Refunds = {r1}
  Amount <- MCAmount
  PaidOn <- MCPaidOn
  RefundOf <- MCRefundOf
  RefundAmount <- MCRefundAmount
  Procs = {a}
  Ops <- EveryOp
  BackdateAfterClose = TRUE
  AutoPostAsDraft = TRUE
  CashHard = TRUE
  ReversalsStand = FALSE
  MaxDay = 1
  MaxAmount = 1
  MaxFails = 0
SYMMETRY AnyVoucherAnyPeriod
PROPERTIES
  ClosedMonthKeepsItsFigures
CHECK_DEADLOCK FALSE
