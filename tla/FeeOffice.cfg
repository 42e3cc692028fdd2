\* One clerk at a time collecting, refunding in part, cancelling and fining;
\* one request may die.
SPECIFICATION Spec
CONSTANTS
  None = None
  i1 = i1
  i2 = i2
  a = a
  b = b
  c = c
  Invoices = {i1, i2}
  Payments = {x1, x2, x3}
  Sessions = {}
  Procs = {a}
  Counters = {m1}
  Ops <- OfficeOps
  Hints = {}
  Subtotal <- MCSubtotal
  DueOn <- MCDueOn
  FineFlat = 1
  FineCap = 2
  MaxMonth = 2
  MaxAmount = 2
  MaxFails = 1
  AllowOverpay = FALSE
  WholeRefunds = FALSE
  AmountMayDiffer = FALSE
  VerifyByRef = TRUE
  TrustsClaims = FALSE
  UnclearAnswers = FALSE
SYMMETRY AnyPayment
INVARIANTS
  PaidTotalAgrees
  CancelledHoldsNoMoney
  DuesAreSeen
  RefundIsAccepted
PROPERTIES
  ImplementsAccount
CHECK_DEADLOCK FALSE
