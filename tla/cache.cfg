CONSTANTS
  Cand = {c1, c2}
  Resume = {v1, v2}
  Config = {k1, k2}
  None = None
  Worker = {w1, w2}
  Upload = {u1, u2}
  MaxRequests = 2
SPECIFICATION Spec
SYMMETRY Symmetry
INVARIANTS TypeOK CacheFollowsSettings OverrideStaysLocal CacheFollowsResume TextIsLatest
CHECK_DEADLOCK FALSE
