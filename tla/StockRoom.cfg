\* A keeper and a desk clerk move the same two items, each in several statements.
SPECIFICATION FairSpec
CONSTANTS
  a = a
  b = b
  s1 = s1
  s2 = s2
  d1 = d1
  d2 = d2
  Items <- MCItems
  Slips = {s1, s2}
  Purchases = {d1}
  Procs = {a, b}
  Ops <- KeeperAndDesk
  EntrySorted = TRUE
  MaxQty = 1
  MaxRequests = 4
  MaxFails = 1
  None = None
INVARIANTS
  TypeOK
  LedgerAddsUp
  SlipsAgreeWithLedger
  DeliveredOnce
PROPERTIES
  EveryRequestEnds
CHECK_DEADLOCK FALSE
