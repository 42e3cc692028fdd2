\* One clerk gives back the whole of the only payment on an invoice.
SPECIFICATION Spec
CONSTANTS
  None = None
  i1 = i1
  i2 = i2
  a = a
  b = b
  c = c
  Invoices = {i1, i2}
  Payments = {x1}
  Sessions = {}
  Procs = {a}
  Counters = {m1}
  Ops <- OfficeOps
  Hints = {}
  Subtotal <- MCSubtotal
  DueOn <- MCDueOn
  FineFlat = 0
  FineCap = 0
  MaxMonth = 1
  MaxAmount = 3
  MaxFails = 0
  AllowOverpay = FALSE
  WholeRefunds = TRUE
  AmountMayDiffer = FALSE
  VerifyByRef = TRUE
  TrustsClaims = FALSE
  UnclearAnswers = FALSE
INVARIANTS
  RefundIsAccepted
CHECK_DEADLOCK FALSE
