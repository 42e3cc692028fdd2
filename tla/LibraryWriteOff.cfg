\* One request at a time; books on the hold shelf may be written off.
SPECIFICATION Spec
CONSTANTS
  None = None
  c1 = c1
  c2 = c2
  m1 = m1
  m2 = m2
  m3 = m3
  t1 = t1
  front = front
  back = back
  Copies = {c1, c2}
  TitleOf <- OneTitle
  Members = {m1, m2}
  Desks = {front}
  Ops <- OneAtATime
  MaxBooks = 1
  WriteOffs = {"LOST", "WITHDRAWN"}
  MarkReserved = TRUE
  MaxLoans = 2
  MaxHolds = 3
SYMMETRY Alike
INVARIANTS
  ReservedIsHeld
CHECK_DEADLOCK FALSE
