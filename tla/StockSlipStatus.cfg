\* Two lines of one slip come back at two desks at once.
SPECIFICATION Spec
CONSTANTS
  a = a
  b = b
  s1 = s1
  s2 = s2
  d1 = d1
  d2 = d2
  Items <- MCItems
  Slips = {s1, s2}
  Purchases = {d1}
  Procs = {a, b}
  Ops <- TwoDesks
  EntrySorted = TRUE
  MaxQty = 1
  MaxRequests = 5
  MaxFails = 0
  None = None
INVARIANTS
  StatusTellsLines
CHECK_DEADLOCK FALSE
