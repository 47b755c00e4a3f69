--------------------------- MODULE CandidateBoard ---------------------------
(***************************************************************************)
(* What the results page promises about each candidate, whatever happens   *)
(* behind it: a candidate is listed in progress before it has an outcome,  *)
(* an outcome always comes with a report (a verdict, or the reason of a    *)
(* failure; "cleared" once the recruiter deleted it), and a removed        *)
(* candidate never comes back.  CandidateLifecycle implements it.          *)
(***************************************************************************)
CONSTANT Cand

VARIABLE shown

Shown == {"absent", "inProgress", "verdict", "reason", "cleared", "gone"}
Listed == Shown \ {"absent", "gone"}

Init == shown = [c \in Cand |-> "absent"]

(* A sheet of candidates arrives: all of them are listed in progress.      *)
Submit(S) ==
  /\ \A c \in S : shown[c] = "absent"
  /\ shown' = [c \in Cand |-> IF c \in S THEN "inProgress" ELSE shown[c]]

(* Evaluation, failure, cancellation, retry, clean-up of an Evaluation:    *)
(* listed candidates change what they show, and stay listed.               *)
Update(S) ==
  /\ \A c \in S : shown[c] \in Listed
  /\ \E new \in [S -> Listed] :
       shown' = [c \in Cand |-> IF c \in S THEN new[c] ELSE shown[c]]

Remove(S) ==
  /\ \A c \in S : shown[c] \in Listed
  /\ shown' = [c \in Cand |-> IF c \in S THEN "gone" ELSE shown[c]]

Next == \E S \in SUBSET Cand : Submit(S) \/ Update(S) \/ Remove(S)

Spec == Init /\ [][Next]_shown
=============================================================================
