\* One checkout over two invoices, one request at a time, at a gateway whose answer
\* may be unclear.
SPECIFICATION FairSpec
CONSTANTS
  None = None
  i1 = i1
  i2 = i2
  a = a
  b = b
  c = c
  Invoices = {i1, i2}
  Payments = {x1, x2}
  Sessions = {s1}
  Procs = {a}
  Counters = {m1}
  Ops <- SerialOps
  Hints = {"ref"}
  Subtotal <- MCSubtotal
  DueOn <- MCDueOn
  FineFlat = 0
  FineCap = 0
  MaxMonth = 0
  MaxAmount = 3
  MaxFails = 0
  AllowOverpay = FALSE
  WholeRefunds = FALSE
  AmountMayDiffer = FALSE
  VerifyByRef = TRUE
  TrustsClaims = FALSE
  UnclearAnswers = TRUE
PROPERTIES
  LostCallbackIsRecovered
CHECK_DEADLOCK FALSE
