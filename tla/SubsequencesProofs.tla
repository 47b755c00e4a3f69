------------------------- MODULE SubsequencesProofs -------------------------
(* What holds of Subsequences, and of counting positions.                  *)
EXTENDS Subsequences, Functions, FiniteSetTheorems, TLAPS

(* The places of the positions 1, 2, ... of S, without a gap.              *)
LEMMA PlacesAreCounted ==
  ASSUME NEW n \in Nat, NEW S \in SUBSET (1 .. n)
  PROVE  /\ IsFiniteSet(S) /\ Cardinality(S) \in Nat
         /\ \A i \in S : PlaceIn(S, i) \in 1 .. Cardinality(S)
         /\ \A i, j \in S : i < j => PlaceIn(S, i) < PlaceIn(S, j)
         /\ \A k \in 1 .. Cardinality(S) : \E i \in S : PlaceIn(S, i) = k
<1>1. IsFiniteSet(S) /\ Cardinality(S) \in Nat
  <2>1. IsFiniteSet(1 .. n)
    BY FS_Interval
  <2> QED
    BY <2>1, FS_Subset, FS_CardinalityType
<1>2. ASSUME NEW i \in S PROVE PlaceIn(S, i) \in 1 .. Cardinality(S)
  <2> DEFINE U == {j \in S : j <= i}
  <2>1. U \in SUBSET S /\ i \in U
    OBVIOUS
  <2> HIDE DEF U
  <2>2. IsFiniteSet(U) /\ Cardinality(U) <= Cardinality(S) /\ Cardinality(U) \in Nat
    BY <1>1, <2>1, FS_Subset, FS_CardinalityType
  <2>3. Cardinality(U) # 0
    BY <2>1, <2>2, FS_EmptySet
  <2> QED
    BY <1>1, <2>2, <2>3 DEF PlaceIn, U
<1>3. ASSUME NEW i \in S, NEW j \in S, i < j PROVE PlaceIn(S, i) < PlaceIn(S, j)
  <2> DEFINE U == {k \in S : k <= i}
             V == {k \in S : k <= j}
  <2>1. U \in SUBSET V /\ V \in SUBSET S /\ j \in V /\ j \notin U
    <3>1. \A k \in S : k \in Nat
      OBVIOUS
    <3>2. \A k \in S : k <= i => k <= j
      BY <1>3, <3>1
    <3>3. j \in V /\ j \notin U
      BY <1>3, <3>1
    <3> QED
      BY <3>2, <3>3
  <2> HIDE DEF U, V
  <2>2. /\ IsFiniteSet(V) /\ IsFiniteSet(U) /\ Cardinality(U) <= Cardinality(V)
        /\ Cardinality(U) # Cardinality(V)
    <3>1. IsFiniteSet(V)
      BY <1>1, <2>1, FS_Subset
    <3> QED
      BY <2>1, <3>1, FS_Subset
  <2>3. Cardinality(U) \in Nat /\ Cardinality(V) \in Nat
    BY <2>2, FS_CardinalityType
  <2>4. Cardinality(U) < Cardinality(V)
    BY <2>2, <2>3
  <2> QED
    BY <2>4 DEF PlaceIn, U, V
<1>4. ASSUME NEW k \in 1 .. Cardinality(S) PROVE \E i \in S : PlaceIn(S, i) = k
  <2> DEFINE C == Cardinality(S)
             place == [i \in S |-> PlaceIn(S, i)]
  <2>1. place \in [S -> 1 .. C]
    BY <1>2
  <2>2. \A i, j \in S : place[i] = place[j] => i = j
    <3> SUFFICES ASSUME NEW i \in S, NEW j \in S, i # j PROVE place[i] # place[j]
      OBVIOUS
    <3>1. i \in Nat /\ j \in Nat /\ PlaceIn(S, i) \in Nat /\ PlaceIn(S, j) \in Nat
      BY <1>2
    <3>2. CASE i < j
      BY <1>3, <3>1, <3>2
    <3>3. CASE j < i
      BY <1>3, <3>1, <3>3
    <3> QED
      BY <3>1, <3>2, <3>3
  <2>3. IsFiniteSet(1 .. C) /\ Cardinality(1 .. C) = C
    BY <1>1, FS_Interval
  <2>4. k \in 1 .. C
    BY <1>4
  <2> HIDE DEF C
  <2>5. place \in Injection(S, 1 .. C)
    BY <2>1, <2>2 DEF Injection, IsInjective
  <2>6. place \in Surjection(S, 1 .. C)
    BY <2>3, <2>5, FS_Injection DEF C
  <2> QED
    BY <2>4, <2>6 DEF Surjection
<1> QED
  BY <1>1, <1>2, <1>3, <1>4

(* The first of some positions.                                            *)
LEMMA FirstPosition ==
  ASSUME NEW n \in Nat, NEW S \in SUBSET (1 .. n), S # {}
  PROVE  \E i \in S : \A j \in S : i <= j
<1>1. /\ IsFiniteSet(S) /\ Cardinality(S) \in Nat
      /\ \A i \in S : PlaceIn(S, i) \in 1 .. Cardinality(S)
      /\ \A i, j \in S : i < j => PlaceIn(S, i) < PlaceIn(S, j)
      /\ \A k \in 1 .. Cardinality(S) : \E i \in S : PlaceIn(S, i) = k
  BY PlacesAreCounted
<1>2. Cardinality(S) # 0
  BY <1>1, FS_EmptySet
<1>3. PICK i \in S : PlaceIn(S, i) = 1
  BY <1>1, <1>2
<1>4. ASSUME NEW j \in S PROVE i <= j
  <2>1. i \in Nat /\ j \in Nat /\ PlaceIn(S, j) \in Nat \ {0}
    BY <1>1
  <2>2. ~ (j < i)
    BY <1>1, <1>3, <2>1
  <2> QED
    BY <2>1, <2>2
<1> QED
  BY <1>4

(* at lists the positions of S in order.                                   *)
Lists(at, s, S) ==
  /\ at \in [1 .. Cardinality(S) -> S]
  /\ \A k \in 1 .. Cardinality(S) : Kept(s, S)[k] = s[at[k]] /\ PlaceIn(S, at[k]) = k
  /\ \A i \in S : at[PlaceIn(S, i)] = i
  /\ \A k, l \in 1 .. Cardinality(S) : k < l => at[k] < at[l]

(* Kept enumerates the positions of S in order, each once.                 *)
LEMMA KeptInOrder ==
  ASSUME NEW T, NEW s \in Seq(T), NEW S \in SUBSET DOMAIN s
  PROVE  /\ IsFiniteSet(S) /\ Cardinality(S) \in Nat
         /\ Kept(s, S) \in Seq(T) /\ Len(Kept(s, S)) = Cardinality(S)
         /\ \E at : Lists(at, s, S)
<1> DEFINE C == Cardinality(S)
           at == [k \in 1 .. C |-> CHOOSE i \in S : PlaceIn(S, i) = k]
<1>1. S \in SUBSET (1 .. Len(s)) /\ Len(s) \in Nat
  OBVIOUS
<1>2. /\ IsFiniteSet(S) /\ C \in Nat
      /\ \A i \in S : PlaceIn(S, i) \in 1 .. C
      /\ \A i, j \in S : i < j => PlaceIn(S, i) < PlaceIn(S, j)
      /\ \A k \in 1 .. C : \E i \in S : PlaceIn(S, i) = k
  BY <1>1, PlacesAreCounted
<1>3. \A k \in 1 .. C : at[k] \in S /\ PlaceIn(S, at[k]) = k
  BY <1>2
<1>4. Kept(s, S) = [k \in 1 .. C |-> s[at[k]]]
  BY DEF Kept
<1> HIDE DEF C, at
<1>5. \A k \in 1 .. C : s[at[k]] \in T
  BY <1>1, <1>3
<1>6. Kept(s, S) \in Seq(T) /\ Len(Kept(s, S)) = C
  BY <1>2, <1>4, <1>5
<1>7. at \in [1 .. C -> S]
  BY <1>3 DEF at
<1>8. ASSUME NEW i \in S, NEW j \in S, PlaceIn(S, i) = PlaceIn(S, j) PROVE i = j
  <2>1. i \in Nat /\ j \in Nat /\ PlaceIn(S, i) \in Nat
    BY <1>1, <1>2
  <2> QED
    BY <1>2, <1>8, <2>1
<1>9. \A i \in S : at[PlaceIn(S, i)] = i
  BY <1>2, <1>3, <1>8
<1>10. ASSUME NEW k \in 1 .. C, NEW l \in 1 .. C, k < l PROVE at[k] < at[l]
  <2>1. at[k] \in Nat /\ at[l] \in Nat /\ at[k] # at[l]
    BY <1>1, <1>3, <1>10
  <2>2. ~ (at[l] < at[k])
    BY <1>2, <1>3, <1>10
  <2> QED
    BY <2>1, <2>2
<1>11. \A k \in 1 .. C : Kept(s, S)[k] = s[at[k]]
  BY <1>4
<1>12. Lists(at, s, S)
  BY <1>3, <1>7, <1>9, <1>10, <1>11 DEF C, Lists
<1> QED
  BY <1>2, <1>6, <1>12 DEF C

(* A value occurs first somewhere.                                         *)
LEMMA FirstsCover ==
  ASSUME NEW T, NEW s \in Seq(T)
  PROVE  /\ Firsts(s) \in SUBSET DOMAIN s
         /\ \A i \in Firsts(s) : \A j \in DOMAIN s : j < i => s[j] # s[i]
         /\ \A i \in DOMAIN s : \E f \in Firsts(s) : s[f] = s[i]
<1>1. ASSUME NEW i \in DOMAIN s PROVE \E f \in Firsts(s) : s[f] = s[i]
  <2> DEFINE Same == {j \in DOMAIN s : s[j] = s[i]}
  <2>1. Same \in SUBSET (1 .. Len(s)) /\ Same # {} /\ Len(s) \in Nat
    OBVIOUS
  <2> HIDE DEF Same
  <2>2. PICK f \in Same : \A j \in Same : f <= j
    BY <2>1, FirstPosition
  <2>3. f \in DOMAIN s /\ s[f] = s[i]
    BY DEF Same
  <2>4. \A j \in 1 .. f - 1 : j \in DOMAIN s /\ j \notin Same
    BY <2>1, <2>2, <2>3
  <2>5. \A j \in 1 .. f - 1 : s[j] # s[f]
    BY <2>3, <2>4 DEF Same
  <2> QED
    BY <2>3, <2>5 DEF Firsts
<1> QED
  BY <1>1 DEF Firsts

(* The values Kept keeps.                                                  *)
LEMMA KeptValues ==
  ASSUME NEW T, NEW s \in Seq(T), NEW S \in SUBSET DOMAIN s
  PROVE  /\ \A k \in DOMAIN Kept(s, S) : \E i \in S : Kept(s, S)[k] = s[i]
         /\ \A i \in S : \E k \in DOMAIN Kept(s, S) : Kept(s, S)[k] = s[i]
<1>1. /\ Cardinality(S) \in Nat /\ IsFiniteSet(S)
      /\ Kept(s, S) \in Seq(T) /\ Len(Kept(s, S)) = Cardinality(S)
      /\ \E at : Lists(at, s, S)
  BY KeptInOrder
<1>2. PICK at : Lists(at, s, S)
  BY <1>1
<1>3. /\ at \in [1 .. Cardinality(S) -> S]
      /\ \A k \in 1 .. Cardinality(S) : Kept(s, S)[k] = s[at[k]]
      /\ \A i \in S : at[PlaceIn(S, i)] = i
  BY <1>2 DEF Lists
<1>4. \A i \in S : PlaceIn(S, i) \in 1 .. Cardinality(S)
  <2>1. S \in SUBSET (1 .. Len(s)) /\ Len(s) \in Nat
    OBVIOUS
  <2> QED
    BY <2>1, PlacesAreCounted
<1>5. DOMAIN Kept(s, S) = 1 .. Cardinality(S)
  BY <1>1
<1> QED
  BY <1>3, <1>4, <1>5
=============================================================================
