\* Two workers share one part of credit.
SPECIFICATION Spec
CONSTANTS
  n1 = n1
  n2 = n2
  w1 = w1
  w2 = w2
  c1 = c1
  c2 = c2
  Rows = {n1, n2}
  Emails = {}
  Parts <- OnePart
  Workers = {w1, w2}
  Callers = {c1}
  Attempts = 2
  Movements = {1}
  MaxJobs = 2
  MaxSends = 2
  MaxCredits = 1
  MaxAgain <- Never
  MaxThrows = 0
  MaxCrashes = 0
  MaxLost = 0
  MaxMishaps = 2
  None = None
INVARIANTS
  SentIsBilled
CHECK_DEADLOCK FALSE
