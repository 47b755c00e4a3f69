CONSTANTS
  Request = {r1, r2}
  Ticket = {t1}
  SignupCredits = 3
  Amounts <- GrantAmounts
  MaxRows = 3
  Faults <- AllFaults
  MaxRequests = 5
SPECIFICATION LedgerSpec
SYMMETRY Symmetry
INVARIANTS LedgerTypeOK NeverOverdrawn BooksBalance KeysInStep
CHECK_DEADLOCK FALSE
