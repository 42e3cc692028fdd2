\* One clerk, one request at a time, and sections of one seat.
SPECIFICATION Spec
CONSTANTS
  None = None
  s1 = s1
  s2 = s2
  b1 = b1
  b2 = b2
  office = office
  head = head
  x1 = x1
  x2 = x2
  x3 = x3
  y1 = y1
  y2 = y2
  Students = {s1, s2}
  Sections = {x1, x2, x3}
  SessionOf <- Years
  ClassOf <- OneClass
  Capacity <- OneSeat
  Promotions <- UpOnly
  Decisions = {"PROMOTE", "GRADUATE", "EXCLUDE"}
  Targets = {x3}
  Batches = {b1}
  Procs = {office}
  Ops <- OnlyEnroll
  Overrides = FALSE
  MaxRows = 3
  MaxDepends = 1
SYMMETRY Alike
INVARIANTS
  CapacityIsAGate
CHECK_DEADLOCK FALSE
