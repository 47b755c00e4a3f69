CONSTANTS
  n1 = n1
  n2 = n2
  e1 = e1
  u1 = u1
  u2 = u2
  Name = {n1, n2}
  Email = {e1}
  Url = {u1, u2}
  None = None
  Content <- Contents
  Findable <- Findables
  Option <- Options
  Limit = 2
  GithubPages = 2
  Queries = 2
  SerperPages = 2
  PerPage = 2
  MaxRuns = 2
SPECIFICATION Spec
INVARIANTS TypeOK SheetIsFound UsableIsAccepted
PROPERTIES ExportMatchesSheet RunEnds
CHECK_DEADLOCK FALSE
