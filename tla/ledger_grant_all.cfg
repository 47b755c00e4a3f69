CONSTANTS
  Request = {r1}
  Ticket = {t1, t2}
  SignupCredits = 3
  Amounts <- GrantAmounts
  MaxRows = 1
  Faults <- NoFaults
  MaxRequests = 4
SPECIFICATION LedgerSpec
SYMMETRY Symmetry
PROPERTIES GrantResolvesOne
CHECK_DEADLOCK FALSE
