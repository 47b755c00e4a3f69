CONSTANTS
  Cand = {c1}
  Resume = {v1, v2}
  Config = {k1}
  None = None
  Worker = {w1}
  Upload = {u1}
  MaxRequests = 1
SPECIFICATION Spec
SYMMETRY Symmetry
INVARIANTS UploadIsEvaluated
CHECK_DEADLOCK FALSE
