\* One checkout; one request may die between marking the rows and settling.
SPECIFICATION FairSpec
CONSTANTS
  None = None
  i1 = i1
  i2 = i2
  a = a
  b = b
  c = c
  Invoices = {i1, i2}
  Payments = {x1, x2}
  Sessions = {s1}
  Procs = {a, b}
  Counters = {m1}
  Ops <- OnlineOps
  Hints = {"ref"}
  Subtotal <- MCSubtotal
  DueOn <- MCDueOn
  FineFlat = 0
  FineCap = 0
  MaxMonth = 0
  MaxAmount = 3
  MaxFails = 1
  AllowOverpay = FALSE
  WholeRefunds = FALSE
  AmountMayDiffer = FALSE
  VerifyByRef = TRUE
  TrustsClaims = FALSE
  UnclearAnswers = FALSE
PROPERTIES
  VerifiedMoneyIsCredited
CHECK_DEADLOCK FALSE
