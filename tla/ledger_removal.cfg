CONSTANTS
  Request = {r1}
  Ticket = {t1}
  SignupCredits = 3
  Amounts <- GrantAmounts
  MaxRows = 1
  Faults <- NoFaults
  MaxRequests = 3
SPECIFICATION LedgerSpec
SYMMETRY Symmetry
PROPERTIES RemovalSucceeds
CHECK_DEADLOCK FALSE
