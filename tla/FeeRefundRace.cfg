\* Two clerks, one of them refunding in part while the other collects.
SPECIFICATION Spec
CONSTANTS
  None = None
  i1 = i1
  i2 = i2
  a = a
  b = b
  c = c
  Invoices = {i1}
  Payments = {x1, x2, x3}
  Sessions = {}
  Procs = {a, b}
  Counters = {m1}
  Ops <- RaceOps
  Hints = {}
  Subtotal <- OweThree
  DueOn <- MCDueOn
  FineFlat = 0
  FineCap = 0
  MaxMonth = 0
  MaxAmount = 2
  MaxFails = 0
  AllowOverpay = FALSE
  WholeRefunds = FALSE
  AmountMayDiffer = FALSE
  VerifyByRef = TRUE
  TrustsClaims = FALSE
  UnclearAnswers = FALSE
SYMMETRY AnyPayment
INVARIANTS
  PaidTotalAgrees
CHECK_DEADLOCK FALSE
