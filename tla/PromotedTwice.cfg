\* Two requests execute the same batch while the first places are cancelled.
SPECIFICATION Spec
CONSTANTS
  None = None
  s1 = s1
  s2 = s2
  b1 = b1
  b2 = b2
  office = office
  head = head
  x1 = x1
  x2 = x2
  x3 = x3
  y1 = y1
  y2 = y2
  Students = {s1}
  Sections = {x1, x2, x3}
  SessionOf <- Years
  ClassOf <- OneClass
  Capacity <- TwoSeats
  Promotions <- UpOnly
  Decisions = {"PROMOTE", "GRADUATE", "EXCLUDE"}
  Targets = {x3}
  Batches = {b1}
  Procs = {office, head}
  Ops <- TwoHeads
  Overrides = FALSE
  MaxRows = 3
  MaxDepends = 1
SYMMETRY Alike
PROPERTIES
  ExecutedOnce
CHECK_DEADLOCK FALSE
