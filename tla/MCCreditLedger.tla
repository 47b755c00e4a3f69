--------------------------- MODULE MCCreditLedger ---------------------------
(* CreditLedger with small constants for TLC. *)
EXTENDS CreditLedger, TLC

Symmetry == Permutations(Request) \cup Permutations(Ticket)

NoFaults    == {}
RedisFaults == {"redis"}
AllFaults   == {"redis", "api"}
GrantAmounts == {0, 2}
=============================================================================
