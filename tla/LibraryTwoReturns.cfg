\* Both counters take books in.
SPECIFICATION Spec
CONSTANTS
  None = None
  c1 = c1
  c2 = c2
  m1 = m1
  m2 = m2
  m3 = m3
  t1 = t1
  front = front
  back = back
  Copies = {c1, c2}
  TitleOf <- OneTitle
  Members = {m1, m2}
  Desks = {front, back}
  Ops <- BothTakeIn
  MaxBooks = 1
  WriteOffs = {"LOST", "WITHDRAWN"}
  MarkReserved = FALSE
  MaxLoans = 2
  MaxHolds = 3
SYMMETRY Alike
INVARIANTS
  ShelfMatchesLoans
CHECK_DEADLOCK FALSE
