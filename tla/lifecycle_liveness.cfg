CONSTANTS
  Cand = {c1}
  Worker = {w1}
  Sweeper = {rq, cron}
  Repeater = rq
  Request = {r1}
  MaxStaleRetries = 1
  Faults <- ProcessFaults
  MaxRequests = 2
  MaxCrashes = 2
SPECIFICATION FairSpec
INVARIANTS StaleRetriesBounded
PROPERTIES EventuallySettled
CHECK_DEADLOCK FALSE
