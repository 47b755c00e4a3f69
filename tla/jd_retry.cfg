CONSTANTS
  Job = {j1}
  JdWorker = {w1}
  Sheet = {s1}
  JdFaults <- NoFaults
  MaxSheets = 1
  MaxEdits = 1
  MaxTroubles = 1
SPECIFICATION JdFairSpec
PROPERTIES PendingIsParsed
CHECK_DEADLOCK FALSE
