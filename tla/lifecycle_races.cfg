CONSTANTS
  Cand = {c1}
  Worker = {w1, w2}
  Sweeper = {rq}
  Repeater = rq
  Request = {r1, r2}
  MaxStaleRetries = 0
  Faults <- AllFaults
  MaxRequests = 4
  MaxCrashes = 1
SPECIFICATION Spec
SYMMETRY Symmetry
INVARIANTS TypeOK DoneHasVerdict FailedIsExplained
PROPERTIES RemovalIsFinal ImplementsBoard
CHECK_DEADLOCK FALSE
