------------------------ MODULE MCCandidateLifecycle ------------------------
(* Small instances of CandidateLifecycle for TLC.  Candidates, workers and  *)
(* requests are model values: any of them may play any part, so the sets    *)
(* are symmetric (not used where a liveness property is checked).           *)
EXTENDS CandidateLifecycle, TLC

Symmetry == Permutations(Cand) \cup Permutations(Worker) \cup Permutations(Request)

NoFaults      == {}
AllFaults     == FaultKinds
ProcessFaults == {"api", "horse", "db", "redis"}
RedisFaults   == {"redis"}
BacklogFaults == {"backlog"}
HorseFaults   == {"horse"}
=============================================================================
