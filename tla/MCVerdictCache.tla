--------------------------- MODULE MCVerdictCache ---------------------------
(* VerdictCache with small constants for TLC. *)
EXTENDS VerdictCache, TLC

Symmetry == Permutations(Cand) \cup Permutations(Resume) \cup Permutations(Config)
              \cup Permutations(Worker) \cup Permutations(Upload)
=============================================================================
