\* One worker, two messages, an administrator who tops up and a clerk who retries.
SPECIFICATION FairSpec
CONSTANTS
  n1 = n1
  n2 = n2
  w1 = w1
  w2 = w2
  c1 = c1
  c2 = c2
  Rows = {n1, n2}
  Emails = {n2}
  Parts <- OnePart
  Workers = {w1}
  Callers = {c1}
  Attempts = 2
  Movements = {1}
  MaxJobs = 2
  MaxSends = 2
  MaxCredits = 1
  MaxAgain <- FirstOnly
  MaxThrows = 2
  MaxCrashes = 1
  MaxLost = 1
  MaxMishaps = 2
  None = None
INVARIANTS
  TypeOK
  BilledAsSent
  SentOncePerAsking
PROPERTIES
  OnlyReportsUndoDelivery
  EveryMessageSettles
CHECK_DEADLOCK FALSE
