\* The sweep, for payers who may settle a session for another sum.
SPECIFICATION Spec
CONSTANTS
  None = None
  i1 = i1
  i2 = i2
  a = a
  b = b
  c = c
  Invoices = {i1, i2}
  Payments = {x1, x2}
  Sessions = {s1}
  Procs = {a, b}
  Counters = {m1}
  Ops <- SweepOps
  Hints = {}
  Subtotal <- MCSubtotal
  DueOn <- MCDueOn
  FineFlat = 0
  FineCap = 0
  MaxMonth = 0
  MaxAmount = 3
  MaxFails = 0
  AllowOverpay = FALSE
  WholeRefunds = FALSE
  AmountMayDiffer = TRUE
  VerifyByRef = TRUE
  TrustsClaims = FALSE
  UnclearAnswers = FALSE
INVARIANTS
  CreditedAsAsked
CHECK_DEADLOCK FALSE
