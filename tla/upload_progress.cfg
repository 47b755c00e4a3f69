CONSTANTS
  None = None
  Exact <- ExactOf
  Hints <- HintsOf
  Job = {j1}
  Sheet <- Sheets
  Poll = {p1, p2}
  MaxRounds = 2
  Lossy = TRUE
  MaxQueue = 2
  MaxEvents = 5
SPECIFICATION Spec
PROPERTIES ProgressIsCleared
CHECK_DEADLOCK FALSE
