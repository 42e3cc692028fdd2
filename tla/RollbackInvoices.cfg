\* One request at a time; the new session is billed before a rollback.
SPECIFICATION Spec
CONSTANTS
  None = None
  s1 = s1
  s2 = s2
  b1 = b1
  b2 = b2
  office = office
  head = head
  x1 = x1
  x2 = x2
  x3 = x3
  y1 = y1
  y2 = y2
  Students = {s1, s2}
  Sections = {x1, x2, x3}
  SessionOf <- Years
  ClassOf <- OneClass
  Capacity <- TwoSeats
  Promotions <- UpOnly
  Decisions = {"PROMOTE", "GRADUATE", "EXCLUDE"}
  Targets = {x3}
  Batches = {b1}
  Procs = {office}
  Ops <- OneAtATime
  Overrides = FALSE
  MaxRows = 3
  MaxDepends = 1
SYMMETRY Alike
PROPERTIES
  DependentsStay
CHECK_DEADLOCK FALSE
