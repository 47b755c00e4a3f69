CONSTANTS
  Cand = {c1, c2}
  Worker = {w1, w2}
  Sweeper = {rq}
  Repeater = rq
  Request = {r1, r2}
  MaxStaleRetries = 1
  Faults <- NoFaults
  MaxRequests = 3
  MaxCrashes = 0
SPECIFICATION Spec
SYMMETRY Symmetry
INVARIANTS NoneForgotten
CHECK_DEADLOCK FALSE
