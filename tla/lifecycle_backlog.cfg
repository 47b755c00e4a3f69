CONSTANTS
  Cand = {c1, c2}
  Worker = {w1}
  Sweeper = {rq}
  Repeater = rq
  Request = {r1}
  MaxStaleRetries = 1
  Faults <- BacklogFaults
  MaxRequests = 1
  MaxCrashes = 0
SPECIFICATION Spec
PROPERTIES WatchdogSparesQueued
CHECK_DEADLOCK FALSE
