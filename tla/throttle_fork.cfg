CONSTANTS
  Worker = {w1}
  Limit = 2
  Window = 3
  MaxRetries = 2
  MaxJobs = 3
  MaxTime = 3
SPECIFICATION ThrottleSpec
INVARIANTS WorkerWithinLimit
CHECK_DEADLOCK FALSE
