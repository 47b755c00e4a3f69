CONSTANTS
  Cand = {c1}
  Worker = {w1}
  Sweeper = {rq, cron}
  Repeater = rq
  Request = {r1}
  MaxStaleRetries = 1
  Faults <- HorseFaults
  MaxRequests = 1
  MaxCrashes = 1
SPECIFICATION Spec
PROPERTIES SweepKeepsVerdicts
CHECK_DEADLOCK FALSE
