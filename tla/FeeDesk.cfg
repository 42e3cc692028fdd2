\* Two desks collecting in the same month while the fine run, started twice,
\* is on its way; one request may die.
SPECIFICATION Spec
CONSTANTS
  None = None
  i1 = i1
  i2 = i2
  a = a
  b = b
  c = c
  Invoices = {i1, i2}
  Payments = {x1, x2}
  Sessions = {}
  Procs = {a, b, c}
  Counters = {m1}
  Ops <- DeskOps
  Hints = {}
  Subtotal <- MCSubtotal
  DueOn <- MCDueOn
  FineFlat = 2
  FineCap = 3
  MaxMonth = 2
  MaxAmount = 2
  MaxFails = 1
  AllowOverpay = TRUE
  WholeRefunds = FALSE
  AmountMayDiffer = FALSE
  VerifyByRef = TRUE
  TrustsClaims = FALSE
  UnclearAnswers = FALSE
SYMMETRY AnyPayment
INVARIANTS
  PaidTotalAgrees
  NeverOvercollected
  FineOncePerMonth
CHECK_DEADLOCK FALSE
