CONSTANTS
  Cand = {c1}
  Worker = {w1}
  Sweeper = {rq}
  Repeater = rq
  Request = {r1}
  MaxStaleRetries = 1
  Faults <- NoFaults
  MaxRequests = 3
  MaxCrashes = 0
SPECIFICATION Spec
PROPERTIES CancelFailsOnlyPending
CHECK_DEADLOCK FALSE
