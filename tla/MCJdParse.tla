----------------------------- MODULE MCJdParse -----------------------------
(* JdParse with small constants for TLC. *)
EXTENDS JdParse, TLC

Symmetry == Permutations(Job) \cup Permutations(JdWorker) \cup Permutations(Sheet)

NoFaults  == {}
AllFaults == FaultKinds
LossFaults == {"redis", "api"}
=============================================================================
