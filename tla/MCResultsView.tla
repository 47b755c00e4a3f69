---------------------------- MODULE MCResultsView ----------------------------
(* ResultsView with two jobs for TLC: one is longer than a page. *)
EXTENDS ResultsView, TLC

CONSTANTS a, b, a1, a2, a3, b1

Lists    == (a :> <<a1, a2, a3>>) @@ (b :> <<b1>>)
Symmetry == Permutations(Poll)
=============================================================================
