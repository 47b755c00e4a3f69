---------------------------- MODULE Subsequences ----------------------------
(* What a filter keeps of a sequence: the items at some positions, in order. *)
EXTENDS Naturals, Sequences, FiniteSets

(* The place of i among the elements of a set of numbers.                  *)
PlaceIn(S, i) == Cardinality({j \in S : j <= i})

(* [x for i, x in enumerate(s) if i in S]                                  *)
Kept(s, S) == [k \in 1 .. Cardinality(S) |-> s[CHOOSE i \in S : PlaceIn(S, i) = k]]

(* Where a value has not been seen before.                                 *)
Firsts(s) == {i \in DOMAIN s : \A j \in 1 .. i - 1 : s[j] # s[i]}
=============================================================================
