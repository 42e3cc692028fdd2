\* Two counters, one taking books in and one giving them out, over two copies
\* of a title; books on the hold shelf are not written off.
SPECIFICATION Spec
CONSTANTS
  None = None
  c1 = c1
  c2 = c2
  m1 = m1
  m2 = m2
  m3 = m3
  t1 = t1
  front = front
  back = back
  Copies = {c1, c2}
  TitleOf <- OneTitle
  Members = {m1, m2}
  Desks = {front, back}
  Ops <- TwoCounters
  MaxBooks = 1
  WriteOffs = {"LOST", "WITHDRAWN"}
  MarkReserved = FALSE
  MaxLoans = 2
  MaxHolds = 2
SYMMETRY Alike
INVARIANTS
  TypeOK
  ShelfMatchesLoans
  ReadyHoldHasItsCopy
  LoansWithinLimit
PROPERTIES
  QueueInOrder
CHECK_DEADLOCK FALSE
