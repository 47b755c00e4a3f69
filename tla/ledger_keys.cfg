CONSTANTS
  Request = {r1, r2}
  Ticket = {t1}
  SignupCredits = 3
  Amounts <- GrantAmounts
  MaxRows = 1
  Faults <- NoFaults
  MaxRequests = 3
SPECIFICATION LedgerSpec
SYMMETRY Symmetry
INVARIANTS LastKeyWorks
CHECK_DEADLOCK FALSE
