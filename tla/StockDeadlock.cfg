\* Two deliveries list the same two items in different orders.
SPECIFICATION Spec
CONSTANTS
  a = a
  b = b
  s1 = s1
  s2 = s2
  d1 = d1
  d2 = d2
  Items <- MCItems
  Slips = {s1, s2}
  Purchases = {d1, d2}
  Procs = {a, b}
  Ops <- TwoDeliveries
  EntrySorted = FALSE
  MaxQty = 1
  MaxRequests = 5
  MaxFails = 0
  None = None
INVARIANTS
  NoDeadlock
CHECK_DEADLOCK FALSE
