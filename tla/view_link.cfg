CONSTANTS
  a = a
  b = b
  a1 = a1
  a2 = a2
  a3 = a3
  b1 = b1
  Job = {a, b}
  Row = {a1, a2, a3, b1}
  Listing <- Lists
  Page = 2
  MaxWindow = 2
  MaxRounds = 2
  None = None
  Poll = {p1, p2}
  MaxEvents = 3
SPECIFICATION Spec
PROPERTIES LinkShowsItsJob
SYMMETRY Symmetry
CHECK_DEADLOCK FALSE
