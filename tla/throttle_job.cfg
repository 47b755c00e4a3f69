CONSTANTS
  Worker = {w1}
  Limit = 2
  Window = 3
  MaxRetries = 2
  MaxJobs = 2
  MaxTime = 10
SPECIFICATION ThrottleSpec
INVARIANTS ThrottleTypeOK JobWithinLimit
CHECK_DEADLOCK FALSE
