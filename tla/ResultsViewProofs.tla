-------------------------- MODULE ResultsViewProofs --------------------------
(***************************************************************************)
(* What a recruiter sees of a listing.  A row shown keeps its candidate    *)
(* and its place: of the candidates that exist, no more than the rows that *)
(* are shown come before the last of them, so that the page that starts    *)
(* where the rows end repeats none of them.                                *)
(***************************************************************************)
EXTENDS ResultsView, SubsequencesProofs

(* The positions of a listing whose candidates are in P.                   *)
Here(P, j) == {i \in DOMAIN Listing[j] : Listing[j][i] \in P}

CutOf(P, j, from, n) ==
  {i \in Here(P, j) : PlaceIn(Here(P, j), i) \in from + 1 .. from + n}

PageOf(P, A, j, from, n) ==
  LET rows == Kept(Listing[j], CutOf(P, j, from, n))
  IN [k \in DOMAIN rows |-> [row |-> rows[k], active |-> rows[k] \in A]]

(* The existing candidates up to the last that rows show.                  *)
Before(P, j, rows) ==
  {i \in Here(P, j) : \E m \in DOMAIN rows : \E l \in DOMAIN Listing[j] :
                        l >= i /\ Listing[j][l] = rows[m].row}

Distinct(rows)      == \A i, k \in DOMAIN rows : rows[i].row = rows[k].row => i = k
Counted(P, j, rows) == Cardinality(Before(P, j, rows)) <= Len(rows)

(* The rows of a page stand at positions of a set, each at its own.        *)
Stand(at, page, j, S) ==
  /\ at \in [DOMAIN page -> S]
  /\ \A k \in DOMAIN page : page[k].row = Listing[j][at[k]]
  /\ \A k, l \in DOMAIN page : at[k] = at[l] => k = l

-----------------------------------------------------------------------------
(* Listings                                                                *)

LEMMA HereIsFinite ==
  ASSUME NEW j \in Job, NEW P
  PROVE  /\ Len(Listing[j]) \in Nat /\ DOMAIN Listing[j] = 1 .. Len(Listing[j])
         /\ Here(P, j) \in SUBSET (1 .. Len(Listing[j]))
         /\ IsFiniteSet(Here(P, j)) /\ Cardinality(Here(P, j)) \in Nat
         /\ \A i \in Here(P, j) : i \in Nat /\ PlaceIn(Here(P, j), i) \in Nat \ {0}
         /\ \A i, k \in Here(P, j) :
              i <= k => PlaceIn(Here(P, j), i) <= PlaceIn(Here(P, j), k)
         /\ \A i, k \in Here(P, j) :
              PlaceIn(Here(P, j), i) = PlaceIn(Here(P, j), k) => i = k
<1> DEFINE R == Here(P, j)
           N == Len(Listing[j])
<1>1. N \in Nat /\ DOMAIN Listing[j] = 1 .. N
  BY ListingAssumption
<1>2. R \in SUBSET (1 .. N)
  BY <1>1 DEF Here
<1> HIDE DEF R, N
<1>3. /\ IsFiniteSet(R) /\ Cardinality(R) \in Nat
      /\ \A i \in R : PlaceIn(R, i) \in 1 .. Cardinality(R)
      /\ \A i, k \in R : i < k => PlaceIn(R, i) < PlaceIn(R, k)
  BY <1>1, <1>2, PlacesAreCounted
<1>4. \A i \in R : i \in Nat /\ PlaceIn(R, i) \in Nat \ {0}
  BY <1>1, <1>2, <1>3
<1>5. \A i, k \in R : i <= k => PlaceIn(R, i) <= PlaceIn(R, k)
  <2> SUFFICES ASSUME NEW i \in R, NEW k \in R, i <= k
               PROVE  PlaceIn(R, i) <= PlaceIn(R, k)
    OBVIOUS
  <2>1. i \in Nat /\ k \in Nat /\ PlaceIn(R, i) \in Nat /\ PlaceIn(R, k) \in Nat
    BY <1>4
  <2>2. CASE i = k
    BY <2>1, <2>2
  <2>3. CASE i < k
    BY <1>3, <2>1, <2>3
  <2> QED
    BY <2>1, <2>2, <2>3
<1>6. \A i, k \in R : PlaceIn(R, i) = PlaceIn(R, k) => i = k
  <2> SUFFICES ASSUME NEW i \in R, NEW k \in R, i # k
               PROVE  PlaceIn(R, i) # PlaceIn(R, k)
    OBVIOUS
  <2>1. i \in Nat /\ k \in Nat /\ PlaceIn(R, i) \in Nat /\ PlaceIn(R, k) \in Nat
    BY <1>4
  <2>2. CASE i < k
    BY <1>3, <2>1, <2>2
  <2>3. CASE k < i
    BY <1>3, <2>1, <2>3
  <2> QED
    BY <2>1, <2>2, <2>3
<1> QED
  BY <1>1, <1>2, <1>3, <1>4, <1>5, <1>6 DEF R, N

(* A candidate stands at one place of one listing.                         *)
LEMMA ListedOnce ==
  ASSUME NEW j \in Job, NEW k \in Job,
         NEW m \in DOMAIN Listing[j], NEW n \in DOMAIN Listing[k],
         Listing[j][m] = Listing[k][n]
  PROVE  j = k /\ m = n
BY ListingAssumption

LEMMA BeforeIsFinite ==
  ASSUME NEW j \in Job, NEW P, NEW rows
  PROVE  /\ Before(P, j, rows) \in SUBSET Here(P, j)
         /\ IsFiniteSet(Before(P, j, rows)) /\ Cardinality(Before(P, j, rows)) \in Nat
<1>1. Before(P, j, rows) \in SUBSET Here(P, j)
  BY DEF Before
<1>2. IsFiniteSet(Here(P, j))
  BY HereIsFinite
<1>3. IsFiniteSet(Before(P, j, rows))
  BY <1>1, <1>2, FS_Subset
<1> QED
  BY <1>1, <1>3, FS_CardinalityType

LEMMA NothingShown ==
  ASSUME NEW j \in Job, NEW P
  PROVE  Distinct(<<>>) /\ Counted(P, j, <<>>)
<1>1. Before(P, j, <<>>) = {}
  BY DEF Before
<1>2. Cardinality(Before(P, j, <<>>)) <= Len(<<>>)
  BY <1>1, FS_EmptySet
<1>3. \A i, k \in DOMAIN <<>> : <<>>[i].row = <<>>[k].row => i = k
  OBVIOUS
<1> QED
  BY <1>2, <1>3, Zenon DEF Distinct, Counted

(* Candidates only disappear.                                              *)
LEMMA FewerExist ==
  ASSUME NEW j \in Job, NEW P, NEW Q \in SUBSET P, NEW rows \in Seq(Shown),
         Counted(P, j, rows)
  PROVE  Counted(Q, j, rows)
<1>1. Before(Q, j, rows) \in SUBSET Before(P, j, rows)
  BY DEF Before, Here
<1>2. IsFiniteSet(Before(P, j, rows)) /\ Cardinality(Before(P, j, rows)) \in Nat
  BY BeforeIsFinite
<1>3. Cardinality(Before(Q, j, rows)) \in Nat
  BY BeforeIsFinite
<1>4. Cardinality(Before(Q, j, rows)) <= Cardinality(Before(P, j, rows))
  BY <1>1, <1>2, FS_Subset
<1> QED
  BY <1>2, <1>3, <1>4 DEF Counted

-----------------------------------------------------------------------------
(* Pages                                                                   *)

(* A page is the rows of a cut, in order.                                  *)
LEMMA PageOfRows ==
  ASSUME NEW j \in Job, NEW P, NEW A, NEW from, NEW n
  PROVE  /\ PageOf(P, A, j, from, n) \in Seq(Shown)
         /\ IsFiniteSet(CutOf(P, j, from, n))
         /\ Len(PageOf(P, A, j, from, n)) = Cardinality(CutOf(P, j, from, n))
         /\ \E at : Stand(at, PageOf(P, A, j, from, n), j, CutOf(P, j, from, n))
<1> DEFINE C == CutOf(P, j, from, n)
           rows == Kept(Listing[j], C)
           page == PageOf(P, A, j, from, n)
<1>1. C \in SUBSET DOMAIN Listing[j]
  BY DEF CutOf, Here
<1>2. Listing[j] \in Seq(Row)
  BY ListingAssumption
<1>3. page = [k \in DOMAIN rows |-> [row |-> rows[k], active |-> rows[k] \in A]]
  BY DEF PageOf
<1> HIDE DEF C, rows, page
<1>4. /\ IsFiniteSet(C) /\ Cardinality(C) \in Nat
      /\ rows \in Seq(Row) /\ Len(rows) = Cardinality(C)
      /\ \E at \in [1 .. Cardinality(C) -> C] :
           /\ \A k \in 1 .. Cardinality(C) : rows[k] = Listing[j][at[k]]
           /\ \A k, l \in 1 .. Cardinality(C) : k < l => at[k] < at[l]
  <2>1. rows = Kept(Listing[j], C)
    BY DEF rows
  <2>2. /\ IsFiniteSet(C) /\ Cardinality(C) \in Nat
        /\ Kept(Listing[j], C) \in Seq(Row) /\ Len(Kept(Listing[j], C)) = Cardinality(C)
        /\ \E at : Lists(at, Listing[j], C)
    BY <1>1, <1>2, KeptInOrder
  <2> QED
    BY <2>1, <2>2 DEF Lists
<1>5. DOMAIN rows = 1 .. Cardinality(C) /\ \A k \in DOMAIN rows : rows[k] \in Row
  BY <1>4
<1>6. \A k \in DOMAIN rows : [row |-> rows[k], active |-> rows[k] \in A] \in Shown
  BY <1>5 DEF Shown
<1>7. page \in Seq(Shown) /\ Len(page) = Cardinality(C) /\ DOMAIN page = 1 .. Cardinality(C)
  BY <1>3, <1>4, <1>5, <1>6
<1>8. PICK at \in [1 .. Cardinality(C) -> C] :
        /\ \A k \in 1 .. Cardinality(C) : rows[k] = Listing[j][at[k]]
        /\ \A k, l \in 1 .. Cardinality(C) : k < l => at[k] < at[l]
  BY <1>4
<1>9. \A k \in 1 .. Cardinality(C) : page[k].row = Listing[j][at[k]]
  BY <1>3, <1>5, <1>8
<1>10. \A k, l \in 1 .. Cardinality(C) : at[k] = at[l] => k = l
  <2> SUFFICES ASSUME NEW k \in 1 .. Cardinality(C), NEW l \in 1 .. Cardinality(C), k # l
               PROVE  at[k] # at[l]
    OBVIOUS
  <2>1. k \in Nat /\ l \in Nat
    BY <1>4
  <2>2. at[k] \in Nat /\ at[l] \in Nat
    <3>1. C \in SUBSET Nat
      BY <1>1, HereIsFinite
    <3> QED
      BY <1>8, <3>1
  <2>3. CASE k < l
    BY <1>8, <2>2, <2>3
  <2>4. CASE l < k
    BY <1>8, <2>2, <2>4
  <2> QED
    BY <2>1, <2>3, <2>4
<1>11. Stand(at, page, j, C)
  BY <1>7, <1>8, <1>9, <1>10 DEF Stand
<1> QED
  BY <1>4, <1>7, <1>11 DEF C, page

(* The first rows of a listing.                                            *)
LEMMA FirstPage ==
  ASSUME NEW j \in Job, NEW P, NEW A, NEW n \in Nat, NEW job \in Job
  PROVE  /\ Distinct(PageOf(P, A, j, 0, n))
         /\ Counted(P, job, PageOf(P, A, j, 0, n))
<1> SUFFICES ASSUME NEW from, from = 0
             PROVE  /\ Distinct(PageOf(P, A, j, from, n))
                    /\ Counted(P, job, PageOf(P, A, j, from, n))
  BY Zenon
<1> DEFINE C == CutOf(P, j, from, n)
           page == PageOf(P, A, j, from, n)
<1>1. /\ IsFiniteSet(C) /\ page \in Seq(Shown) /\ Len(page) = Cardinality(C)
      /\ \E at : Stand(at, page, j, C)
  BY PageOfRows
<1>2. C \in SUBSET DOMAIN Listing[j]
  BY DEF CutOf, Here
<1> HIDE DEF C, page
<1>3. PICK at : /\ at \in [DOMAIN page -> C]
                /\ \A k \in DOMAIN page : page[k].row = Listing[j][at[k]]
                /\ \A k, l \in DOMAIN page : at[k] = at[l] => k = l
  BY <1>1 DEF Stand
<1>4. Distinct(page)
  <2> SUFFICES ASSUME NEW m \in DOMAIN page, NEW l \in DOMAIN page, page[m].row = page[l].row
               PROVE  m = l
    BY DEF Distinct
  <2>1. at[m] \in DOMAIN Listing[j] /\ at[l] \in DOMAIN Listing[j]
    BY <1>2, <1>3
  <2>2. at[m] = at[l]
    BY <1>3, <2>1, ListedOnce
  <2> QED
    BY <1>3, <2>2
<1>5. Before(P, job, page) \in SUBSET C
  <2> SUFFICES ASSUME NEW i \in Before(P, job, page) PROVE i \in C
    OBVIOUS
  <2>1. i \in Here(P, job)
    BY DEF Before
  <2>2. PICK m \in DOMAIN page, l \in DOMAIN Listing[job] :
          l >= i /\ Listing[job][l] = page[m].row
    BY DEF Before
  <2>3. at[m] \in C /\ at[m] \in DOMAIN Listing[j] /\ Listing[job][l] = Listing[j][at[m]]
    BY <1>2, <1>3, <2>2
  <2>4. job = j /\ l = at[m]
    BY <2>2, <2>3, ListedOnce
  <2>5. at[m] \in Here(P, j) /\ PlaceIn(Here(P, j), at[m]) \in 1 .. n
    BY <2>3 DEF C, CutOf
  <2>6. PlaceIn(Here(P, j), i) <= PlaceIn(Here(P, j), at[m])
    <3>1. i \in Here(P, j) /\ i \in Nat /\ at[m] \in Nat /\ i <= at[m]
      BY <2>1, <2>2, <2>4, <2>5, HereIsFinite
    <3> QED
      BY <2>5, <3>1, HereIsFinite
  <2>7. PlaceIn(Here(P, j), i) \in Nat \ {0}
    BY <2>1, <2>4, HereIsFinite
  <2>8. PlaceIn(Here(P, j), i) \in 0 + 1 .. 0 + n
    BY <2>5, <2>6, <2>7
  <2> QED
    BY <2>1, <2>4, <2>8 DEF C, CutOf
<1>6. Cardinality(Before(P, job, page)) <= Cardinality(C)
  BY <1>1, <1>5, FS_Subset
<1> QED
  BY <1>1, <1>4, <1>6 DEF Counted, page

(* The rows that follow those shown.                                       *)
LEMMA NextPage ==
  ASSUME NEW j \in Job, NEW P, NEW A, NEW n \in Nat, NEW rows \in Seq(Shown),
         Distinct(rows), Counted(P, j, rows)
  PROVE  /\ Distinct(rows \o PageOf(P, A, j, Len(rows), n))
         /\ Counted(P, j, rows \o PageOf(P, A, j, Len(rows), n))
<1> DEFINE from == Len(rows)
           R == Here(P, j)
           C == CutOf(P, j, from, n)
           page == PageOf(P, A, j, from, n)
           B == Before(P, j, rows)
           all == rows \o page
<1>1. /\ IsFiniteSet(C) /\ page \in Seq(Shown) /\ Len(page) = Cardinality(C)
      /\ \E at : Stand(at, page, j, C)
  BY PageOfRows
<1>2. from \in Nat /\ C \in SUBSET R /\ R \in SUBSET DOMAIN Listing[j]
  BY DEF CutOf, Here
<1>3. /\ IsFiniteSet(R)
      /\ \A i \in R : i \in Nat /\ PlaceIn(R, i) \in Nat \ {0}
      /\ \A i, k \in R : i <= k => PlaceIn(R, i) <= PlaceIn(R, k)
      /\ \A i, k \in R : PlaceIn(R, i) = PlaceIn(R, k) => i = k
  BY HereIsFinite
<1>4. \A i \in C : PlaceIn(R, i) \in from + 1 .. from + n
  BY DEF CutOf
<1>5. \A i \in R : PlaceIn(R, i) \in from + 1 .. from + n => i \in C
  BY DEF CutOf
<1>6. IsFiniteSet(B) /\ Cardinality(B) \in Nat /\ B \in SUBSET R /\ Cardinality(B) <= from
  BY BeforeIsFinite DEF Counted
<1>7. \A i \in R : (\E m \in DOMAIN rows : \E l \in DOMAIN Listing[j] :
                      l >= i /\ Listing[j][l] = rows[m].row) <=> i \in B
  BY DEF Before
<1>8. \A i \in R : (\E m \in DOMAIN all : \E l \in DOMAIN Listing[j] :
                      l >= i /\ Listing[j][l] = all[m].row) <=> i \in Before(P, j, all)
  BY DEF Before
<1>9. /\ all \in Seq(Shown) /\ Len(all) = from + Len(page) /\ Len(page) \in Nat
      /\ DOMAIN rows = 1 .. from /\ DOMAIN page = 1 .. Len(page)
      /\ DOMAIN all = 1 .. from + Len(page)
      /\ \A m \in 1 .. from : all[m] = rows[m]
      /\ \A m \in 1 .. from + Len(page) : m > from => m - from \in DOMAIN page
                                                     /\ all[m] = page[m - from]
  BY <1>1
<1> HIDE DEF C, R, page, B, all, from
<1>10. PICK at : /\ at \in [DOMAIN page -> C]
                 /\ \A k \in DOMAIN page : page[k].row = Listing[j][at[k]]
                 /\ \A k, l \in DOMAIN page : at[k] = at[l] => k = l
  BY <1>1 DEF Stand
<1>11. ASSUME NEW i \in B PROVE PlaceIn(R, i) <= from
  <2> DEFINE U == {k \in R : k <= i}
  <2>1. PICK m \in DOMAIN rows, l \in DOMAIN Listing[j] : l >= i /\ Listing[j][l] = rows[m].row
    BY <1>6, <1>7, <1>11
  <2>2. i \in R /\ i \in Nat /\ l \in Nat
    BY <1>3, <1>6, <1>11, HereIsFinite
  <2>3. U \in SUBSET B
    <3> SUFFICES ASSUME NEW k \in R, k <= i PROVE k \in B
      OBVIOUS
    <3>1. k \in Nat
      BY <1>3
    <3>2. l >= k
      BY <2>1, <2>2, <3>1
    <3> QED
      BY <1>7, <2>1, <3>2
  <2> HIDE DEF U
  <2>4. IsFiniteSet(U) /\ Cardinality(U) <= Cardinality(B) /\ Cardinality(U) \in Nat
    BY <1>6, <2>3, FS_Subset, FS_CardinalityType
  <2>5. PlaceIn(R, i) = Cardinality(U)
    BY DEF PlaceIn, U
  <2> QED
    BY <1>2, <1>6, <2>4, <2>5
<1>12. ASSUME NEW m \in DOMAIN rows, NEW k \in DOMAIN page PROVE rows[m].row # page[k].row
  <2>1. at[k] \in C /\ at[k] \in R /\ at[k] \in DOMAIN Listing[j] /\ at[k] \in Nat
    BY <1>2, <1>3, <1>10
  <2>2. SUFFICES ASSUME Listing[j][at[k]] = rows[m].row PROVE FALSE
    BY <1>10
  <2>3. at[k] \in B
    <3>1. at[k] >= at[k]
      BY <2>1
    <3> QED
      BY <1>7, <2>1, <2>2, <3>1
  <2>4. PlaceIn(R, at[k]) <= from
    BY <1>11, <2>3
  <2> QED
    BY <1>2, <1>4, <2>1, <2>4
<1>13. \A m, k \in DOMAIN page : page[m].row = page[k].row => m = k
  <2> SUFFICES ASSUME NEW m \in DOMAIN page, NEW k \in DOMAIN page, page[m].row = page[k].row
               PROVE  m = k
    OBVIOUS
  <2>1. at[m] \in DOMAIN Listing[j] /\ at[k] \in DOMAIN Listing[j]
    BY <1>2, <1>10
  <2>2. at[m] = at[k]
    BY <1>10, <2>1, ListedOnce
  <2> QED
    BY <1>10, <2>2
<1>14. Distinct(all)
  <2> SUFFICES ASSUME NEW m \in 1 .. from + Len(page), NEW k \in 1 .. from + Len(page),
                      all[m].row = all[k].row
               PROVE  m = k
    BY <1>9 DEF Distinct
  <2>1. m \in Nat /\ k \in Nat
    BY <1>2, <1>9
  <2>2. CASE m <= from /\ k <= from
    <3>1. m \in DOMAIN rows /\ k \in DOMAIN rows /\ rows[m].row = rows[k].row
      BY <1>9, <2>2
    <3> QED
      BY <3>1 DEF Distinct
  <2>3. CASE m > from /\ k > from
    <3>1. m - from = k - from
      BY <1>9, <1>13, <2>3
    <3> QED
      BY <1>2, <2>1, <3>1
  <2>4. CASE m <= from /\ k > from
    <3>1. m \in DOMAIN rows /\ k - from \in DOMAIN page /\ rows[m].row = page[k - from].row
      BY <1>9, <2>4
    <3> QED
      BY <1>12, <3>1
  <2>5. CASE m > from /\ k <= from
    <3>1. k \in DOMAIN rows /\ m - from \in DOMAIN page /\ rows[k].row = page[m - from].row
      BY <1>9, <2>5
    <3> QED
      BY <1>12, <3>1
  <2> QED
    BY <1>2, <2>1, <2>2, <2>3, <2>4, <2>5
<1> DEFINE F == {i \in R : PlaceIn(R, i) <= from}
           BB == Before(P, j, all)
<1>15. BB \in SUBSET (F \cup C)
  <2> SUFFICES ASSUME NEW i \in BB, PlaceIn(R, i) > from PROVE i \in C
    <3>1. BB \in SUBSET R
      BY BeforeIsFinite DEF R
    <3>2. \A i \in R : PlaceIn(R, i) <= from \/ PlaceIn(R, i) > from
      BY <1>2, <1>3
    <3> QED
      BY <3>1, <3>2
  <2>1. i \in R /\ i \in Nat /\ PlaceIn(R, i) \in Nat
    <3>1. BB \in SUBSET R
      BY BeforeIsFinite DEF R
    <3> QED
      BY <1>3, <3>1
  <2>2. PICK m \in DOMAIN all, l \in DOMAIN Listing[j] : l >= i /\ Listing[j][l] = all[m].row
    BY <1>8, <2>1
  <2>3. m \in Nat /\ l \in Nat
    <3>1. m \in 1 .. from + Len(page)
      BY <1>9
    <3>2. l \in 1 .. Len(Listing[j]) /\ Len(Listing[j]) \in Nat
      BY HereIsFinite
    <3> QED
      BY <1>2, <1>9, <3>1, <3>2
  <2>4. m > from
    <3> SUFFICES ASSUME m <= from PROVE FALSE
      BY <1>2, <2>3
    <3>1. m \in DOMAIN rows /\ Listing[j][l] = rows[m].row
      BY <1>9, <2>2, <2>3
    <3>2. i \in B
      BY <1>7, <2>1, <2>2, <3>1
    <3> QED
      BY <1>2, <1>11, <2>1, <3>2
  <2>5. m - from \in DOMAIN page /\ Listing[j][l] = Listing[j][at[m - from]]
    BY <1>9, <1>10, <2>2, <2>4
  <2>6. at[m - from] \in C /\ at[m - from] \in R /\ at[m - from] \in DOMAIN Listing[j]
    BY <1>2, <1>10, <2>5
  <2>7. l = at[m - from]
    BY <2>5, <2>6, ListedOnce
  <2>8. PlaceIn(R, i) <= PlaceIn(R, l) /\ PlaceIn(R, l) \in from + 1 .. from + n
    BY <1>3, <1>4, <2>1, <2>2, <2>3, <2>6, <2>7
  <2>9. PlaceIn(R, i) \in from + 1 .. from + n
    BY <1>2, <2>1, <2>8
  <2> QED
    BY <1>5, <2>1, <2>9
<1>16. IsFiniteSet(F) /\ Cardinality(F) <= from
  <2> DEFINE place == [i \in F |-> PlaceIn(R, i)]
  <2>1. place \in [F -> 1 .. from]
    BY <1>2, <1>3
  <2>2. \A i, k \in F : place[i] = place[k] => i = k
    BY <1>3
  <2>3. F \in SUBSET R
    OBVIOUS
  <2> HIDE DEF F
  <2>4. place \in Injection(F, 1 .. from)
    BY <2>1, <2>2 DEF Injection, IsInjective
  <2>5. IsFiniteSet(1 .. from) /\ Cardinality(1 .. from) = from
    BY <1>2, FS_Interval
  <2>6. IsFiniteSet(F)
    BY <1>3, <2>3, FS_Subset
  <2>7. Cardinality(F) <= Cardinality(1 .. from)
    BY <2>4, <2>5, <2>6, FS_Injection
  <2> QED
    BY <2>5, <2>6, <2>7
<1>17. Counted(P, j, all)
  <2> HIDE DEF F, BB
  <2>1. IsFiniteSet(F \cup C) /\ Cardinality(F \cup C) \in Nat
        /\ Cardinality(F) \in Nat /\ Cardinality(C) \in Nat
        /\ Cardinality(F \cup C) <= Cardinality(F) + Cardinality(C)
    <3>1. IsFiniteSet(F \cup C) /\ IsFiniteSet(F \cap C)
          /\ Cardinality(F \cup C) = Cardinality(F) + Cardinality(C) - Cardinality(F \cap C)
      BY <1>1, <1>16, FS_Union, FS_Intersection
    <3>2. /\ Cardinality(F) \in Nat /\ Cardinality(C) \in Nat
          /\ Cardinality(F \cap C) \in Nat /\ Cardinality(F \cup C) \in Nat
      BY <1>1, <1>16, <3>1, FS_CardinalityType
    <3> QED
      BY <3>1, <3>2
  <2>2. Cardinality(BB) <= Cardinality(F \cup C) /\ Cardinality(BB) \in Nat
    BY <1>15, <2>1, FS_Subset, FS_CardinalityType
  <2>3. Cardinality(BB) <= from + Len(page)
    BY <1>1, <1>2, <1>9, <1>16, <2>1, <2>2
  <2> QED
    BY <1>9, <2>3 DEF Counted, BB
<1> QED
  BY <1>14, <1>17 DEF all, page, from

Dropping(rows, S) == Kept(rows, {m \in DOMAIN rows : rows[m].row \notin S})

(* Rows that leave the page with their candidates: nothing else moves.     *)
LEMMA RemovedTogether ==
  ASSUME NEW j \in Job, NEW P, NEW Q \in SUBSET P, NEW S, NEW rows \in Seq(Shown),
         Distinct(rows), Counted(P, j, rows),
         \A m \in DOMAIN rows :
           rows[m].row \in S => rows[m].row \in RowsOf(j) \cap (P \ Q)
  PROVE  Distinct(Dropping(rows, S)) /\ Counted(Q, j, Dropping(rows, S))
<1> DEFINE K == {m \in DOMAIN rows : rows[m].row \notin S}
           M == DOMAIN rows \ K
           kept == Kept(rows, K)
           B == Before(P, j, rows)
           I == {i \in B : \E m \in M : Listing[j][i] = rows[m].row}
           L == Listing[j]
<1>1. /\ K \in SUBSET DOMAIN rows /\ M \in SUBSET DOMAIN rows
      /\ K \cup M = DOMAIN rows /\ K \cap M = {}
      /\ \A m \in DOMAIN rows : m \in M <=> rows[m].row \in S
  OBVIOUS
<1>2. /\ I \in SUBSET B
      /\ \A i \in B : i \in I <=> \E m \in M : L[i] = rows[m].row
  OBVIOUS
<1>3. IsFiniteSet(B) /\ Cardinality(B) \in Nat /\ B \in SUBSET Here(P, j)
  BY BeforeIsFinite
<1>4. Cardinality(B) <= Len(rows) /\ Len(rows) \in Nat /\ DOMAIN rows = 1 .. Len(rows)
  BY DEF Counted
<1>5. \A i \in Here(P, j) : i \in B <=>
        \E m \in DOMAIN rows : \E l \in DOMAIN L : l >= i /\ L[l] = rows[m].row
  BY DEF Before
<1>6. /\ Kept(rows, K) \in Seq(Shown) /\ Len(Kept(rows, K)) = Cardinality(K)
      /\ \E at : Lists(at, rows, K)
  BY <1>1, KeptInOrder
<1>7. \A i \in Here(P, j) : i \in DOMAIN L /\ i \in Nat
  BY HereIsFinite DEF Here
<1>8. \A m \in M : rows[m].row \in P \ Q /\ rows[m].row \in RowsOf(j)
  BY <1>1
<1> HIDE DEF K, M, kept, B, I
<1>9. PICK at : /\ at \in [1 .. Cardinality(K) -> K]
                /\ \A k \in 1 .. Cardinality(K) : Kept(rows, K)[k] = rows[at[k]]
                                                /\ PlaceIn(K, at[k]) = k
  BY <1>6 DEF Lists
<1>10. kept \in Seq(Shown) /\ Len(kept) = Cardinality(K) /\ DOMAIN kept = 1 .. Cardinality(K)
       /\ \A k \in DOMAIN kept : kept[k] = rows[at[k]] /\ at[k] \in K
                                 /\ PlaceIn(K, at[k]) = k
  <2>1. kept = Kept(rows, K)
    BY DEF kept
  <2>2. kept \in Seq(Shown) /\ Len(kept) = Cardinality(K)
    BY <1>6, <2>1
  <2>3. DOMAIN kept = 1 .. Cardinality(K)
    BY <2>2
  <2> QED
    BY <1>9, <2>1, <2>2, <2>3
<1>11. Distinct(kept)
  <2> SUFFICES ASSUME NEW m \in DOMAIN kept, NEW l \in DOMAIN kept, kept[m].row = kept[l].row
               PROVE  m = l
    BY DEF Distinct
  <2>1. at[m] \in DOMAIN rows /\ at[l] \in DOMAIN rows /\ rows[at[m]].row = rows[at[l]].row
    BY <1>1, <1>10
  <2>2. at[m] = at[l]
    BY <2>1 DEF Distinct
  <2> QED
    BY <1>10, <2>2
(* Each row that leaves has its candidate among those counted.             *)
<1>12. IsFiniteSet(K) /\ IsFiniteSet(M) /\ Cardinality(K) \in Nat /\ Cardinality(M) \in Nat
       /\ Cardinality(K) + Cardinality(M) = Len(rows)
  <2>1. IsFiniteSet(1 .. Len(rows)) /\ Cardinality(1 .. Len(rows)) = Len(rows)
    <3> DEFINE N == Len(rows)
    <3>1. N \in Nat
      BY <1>4
    <3> HIDE DEF N
    <3>2. IsFiniteSet(1 .. N) /\ Cardinality(1 .. N) = N
      BY <3>1, FS_Interval
    <3> QED
      BY <3>2 DEF N
  <2>2. IsFiniteSet(K) /\ IsFiniteSet(M)
    BY <1>1, <1>4, <2>1, FS_Subset
  <2>3. Cardinality(K) \in Nat /\ Cardinality(M) \in Nat
    BY <2>2, FS_CardinalityType
  <2>4. Cardinality(K \cup M) = Cardinality(K) + Cardinality(M) - Cardinality(K \cap M)
    BY <2>2, FS_Union
  <2>5. Cardinality(K \cap M) = 0
    BY <1>1, FS_EmptySet
  <2>6. Cardinality(K \cup M) = Len(rows)
    BY <1>1, <1>4, <2>1
  <2> QED
    BY <2>2, <2>3, <2>4, <2>5, <2>6
<1>13. IsFiniteSet(I) /\ Cardinality(I) \in Nat /\ Cardinality(M) <= Cardinality(I)
  <2> DEFINE place == [m \in M |-> CHOOSE i \in DOMAIN L : L[i] = rows[m].row]
  <2>1. \A m \in M : place[m] \in DOMAIN L /\ L[place[m]] = rows[m].row
    <3>1. \A m \in M : \E i \in DOMAIN L : L[i] = rows[m].row
      BY <1>8 DEF RowsOf
    <3> QED
      BY <3>1
  <2>2. DOMAIN place = M /\ place = [m \in M |-> place[m]]
    OBVIOUS
  <2> HIDE DEF place
  <2>3. ASSUME NEW m \in M PROVE place[m] \in I
    <3>1. L[place[m]] \in P /\ place[m] \in DOMAIN L
      BY <1>8, <2>1
    <3>2. place[m] \in Here(P, j)
      BY <3>1 DEF Here
    <3>3. place[m] >= place[m] /\ m \in DOMAIN rows
      BY <1>1, <1>7, <3>2
    <3>4. place[m] \in B
      BY <1>5, <2>1, <3>1, <3>2, <3>3
    <3> QED
      BY <1>2, <2>1, <3>4
  <2>4. \A m, l \in M : place[m] = place[l] => m = l
    <3> SUFFICES ASSUME NEW m \in M, NEW l \in M, place[m] = place[l] PROVE m = l
      OBVIOUS
    <3>1. rows[m].row = rows[l].row /\ m \in DOMAIN rows /\ l \in DOMAIN rows
      BY <1>1, <2>1
    <3> QED
      BY <3>1 DEF Distinct
  <2>5. place \in [M -> I]
    BY <2>2, <2>3
  <2>6. place \in Injection(M, I)
    BY <2>4, <2>5 DEF Injection, IsInjective
  <2>7. IsFiniteSet(I)
    BY <1>2, <1>3, FS_Subset
  <2>8. Cardinality(M) <= Cardinality(I)
    BY <1>12, <2>6, <2>7, FS_Injection
  <2> QED
    BY <2>7, <2>8, FS_CardinalityType
<1>14. Before(Q, j, kept) \in SUBSET (B \ I)
  <2> SUFFICES ASSUME NEW i \in Before(Q, j, kept) PROVE i \in B /\ i \notin I
    OBVIOUS
  <2>1. i \in Here(Q, j) /\ i \in Here(P, j) /\ L[i] \in Q
    BY DEF Before, Here
  <2>2. PICK m \in DOMAIN kept, l \in DOMAIN L : l >= i /\ L[l] = kept[m].row
    BY DEF Before
  <2>3. at[m] \in DOMAIN rows /\ L[l] = rows[at[m]].row
    BY <1>1, <1>10, <2>2
  <2>4. i \in B
    BY <1>5, <2>1, <2>2, <2>3
  <2>5. ASSUME i \in I PROVE FALSE
    <3>1. PICK x \in M : L[i] = rows[x].row
      BY <1>2, <2>4, <2>5
    <3> QED
      BY <1>8, <2>1, <3>1
  <2> QED
    BY <2>4, <2>5
<1>15. Counted(Q, j, kept)
  <2>1. /\ IsFiniteSet(B \ I)
        /\ Cardinality(B \ I) = Cardinality(B) - Cardinality(I)
    <3>1. B \cap I = I
      BY <1>2
    <3> QED
      BY <1>3, <3>1, FS_Difference
  <2>2. Cardinality(Before(Q, j, kept)) <= Cardinality(B \ I)
    BY <1>14, <2>1, FS_Subset
  <2>3. Cardinality(Before(Q, j, kept)) \in Nat
    BY BeforeIsFinite
  <2>4. Cardinality(Before(Q, j, kept)) <= Cardinality(K)
    BY <1>3, <1>4, <1>12, <1>13, <2>1, <2>2, <2>3
  <2> QED
    BY <1>10, <2>4 DEF Counted
<1> QED
  BY <1>11, <1>15 DEF kept, K, Dropping

-----------------------------------------------------------------------------
(* The page                                                                *)

LEMMA FetchedPage ==
  ASSUME NEW j, NEW from, NEW n
  PROVE  Fetched(j, from, n) = PageOf(present, active, j, from, n)
BY DEF Fetched, Cut, Rows, PageOf, CutOf, Here

(* The rows kept are rows.                                                 *)
LEMMA WithoutRows ==
  ASSUME results \in Seq(Shown), NEW S
  PROVE  Without(S) \in Seq(Shown) /\ Len(Without(S)) \in Nat
<1>1. {i \in DOMAIN results : results[i].row \notin S} \in SUBSET DOMAIN results
  OBVIOUS
<1>2. Without(S) \in Seq(Shown)
  BY <1>1, KeptInOrder DEF Without
<1> QED
  BY <1>2

Linked     == loaded => selected \in Job /\ offset = Len(results)
SoundRows  == loaded /\ clean => Distinct(results) /\ Counted(present, selected, results)
SoundPages == \A p \in Poll : poll[p].pc = "write" =>
                /\ Distinct(poll[p].page)
                /\ \A j \in Job : Counted(present, j, poll[p].page)

Sound == TypeOK /\ Linked /\ SoundRows /\ SoundPages

(* A page in flight stays sound while candidates only disappear.           *)
LEMMA PagesKept ==
  ASSUME TypeOK, SoundPages, present' \in SUBSET present,
         \A p \in Poll : poll'[p].pc = "write" => poll'[p] = poll[p]
  PROVE  SoundPages'
<1> SUFFICES ASSUME NEW p \in Poll, poll'[p].pc = "write"
             PROVE  /\ Distinct(poll'[p].page)
                    /\ \A j \in Job : Counted(present', j, poll'[p].page)
  BY DEF SoundPages
<1>1. poll'[p] = poll[p] /\ poll[p].pc = "write"
  OBVIOUS
<1>2. poll[p].page \in Seq(Shown)
  BY <1>1 DEF TypeOK, Polls, NoPoll
<1>3. Distinct(poll[p].page) /\ \A j \in Job : Counted(present, j, poll[p].page)
  BY <1>1 DEF SoundPages
<1>4. \A j \in Job : Counted(present', j, poll[p].page)
  BY <1>2, <1>3, FewerExist
<1> QED
  BY <1>1, <1>3, <1>4

(* The same for the rows that stay where they are.                         *)
LEMMA RowsKept ==
  ASSUME TypeOK, Linked, SoundRows, present' \in SUBSET present,
         loaded' => loaded, clean' => clean,
         loaded' /\ clean' => UNCHANGED <<selected, results>>
  PROVE  SoundRows'
<1> SUFFICES ASSUME loaded', clean'
             PROVE  Distinct(results') /\ Counted(present', selected', results')
  BY DEF SoundRows
<1>1. selected \in Job /\ results \in Seq(Shown)
      /\ Distinct(results) /\ Counted(present, selected, results)
  BY DEF Linked, SoundRows, TypeOK
<1>2. Counted(present', selected, results)
  BY <1>1, FewerExist
<1> QED
  BY <1>1, <1>2

(* Rows removed with their candidates.                                     *)
LEMMA RowsRemoved ==
  ASSUME TypeOK, Linked, SoundRows, NEW S, present' \in SUBSET present,
         loaded' => loaded, clean' => clean, selected' = selected,
         results' = Without(S), offset' = Len(Without(S)),
         loaded' /\ clean' => S \cap InResults \subseteq RowsOf(selected) \cap (present \ present')
  PROVE  Linked' /\ SoundRows'
<1>1. Linked'
  BY DEF Linked
<1>2. SoundRows'
  <2> SUFFICES ASSUME loaded', clean'
               PROVE  Distinct(Without(S)) /\ Counted(present', selected, Without(S))
    BY DEF SoundRows
  <2>1. selected \in Job /\ results \in Seq(Shown)
        /\ Distinct(results) /\ Counted(present, selected, results)
    BY DEF Linked, SoundRows, TypeOK
  <2>2. \A m \in DOMAIN results :
          results[m].row \in S => results[m].row \in RowsOf(selected) \cap (present \ present')
    BY DEF InResults
  <2>3. Without(S) = Dropping(results, S)
    BY DEF Without, Dropping
  <2> DEFINE Q == present'
  <2>4. Q \in SUBSET present /\ \A m \in DOMAIN results :
          results[m].row \in S => results[m].row \in RowsOf(selected) \cap (present \ Q)
    BY <2>2
  <2> HIDE DEF Q
  <2>5. Distinct(Dropping(results, S)) /\ Counted(Q, selected, Dropping(results, S))
    BY <2>1, <2>4, RemovedTogether
  <2> QED
    BY <2>3, <2>5 DEF Q
<1> QED
  BY <1>1, <1>2

-----------------------------------------------------------------------------
(* Types                                                                   *)

LEMMA PollTypes ==
  ASSUME TypeOK, NEW p \in Poll
  PROVE  /\ poll[p] \in Polls
         /\ poll[p].pc \in {"sleep", "fetch", "write"} => poll[p].round \in Nat
         /\ poll[p].pc = "fetch" => poll[p].job \in Job /\ poll[p].window \in Nat
         /\ poll[p].pc = "write" => poll[p].page \in Seq(Shown)
BY DEF TypeOK, Polls, NoPoll

(* A background poll that moves on.                                        *)
LEMMA NextRoundTyped ==
  ASSUME TypeOK, NEW p \in Poll, poll[p].pc \in {"fetch", "write"}, NextRound(p)
  PROVE  /\ poll' \in [Poll -> Polls]
         /\ \A q \in Poll : poll'[q].pc = "write" => poll'[q] = poll[q]
<1>1. poll[p].round + 1 \in Nat
  BY PollTypes
<1> DEFINE v == IF poll[p].round + 1 = MaxRounds THEN NoPoll
                ELSE [pc |-> "sleep", round |-> poll[p].round + 1]
<1>2. v \in Polls /\ v.pc # "write"
  BY <1>1 DEF Polls, NoPoll
<1>3. poll' = [poll EXCEPT ![p] = v] /\ poll \in [Poll -> Polls]
  BY DEF NextRound, TypeOK
<1> HIDE DEF v
<1> QED
  BY <1>2, <1>3

LEMMA PageTyped ==
  ASSUME NEW j \in Job, NEW from, NEW n
  PROVE  Fetched(j, from, n) \in Seq(Shown) /\ Len(Fetched(j, from, n)) \in Nat
<1>1. Fetched(j, from, n) \in Seq(Shown)
  BY FetchedPage, PageOfRows
<1> QED
  BY <1>1

LEMMA TypeKept == TypeOK /\ [Next]_vars => TypeOK'
<1> SUFFICES ASSUME TypeOK, [Next]_vars PROVE TypeOK'
  OBVIOUS
<1>1. CASE UNCHANGED vars
  BY <1>1 DEF TypeOK, vars, server, list
<1>2. ASSUME NEW j \in Job, SelectJob(j) PROVE TypeOK'
  <2>1. <<>> \in Seq(Shown) /\ loads + 1 \in Nat /\ events + 1 \in Nat
    BY DEF TypeOK
  <2> QED
    BY <1>2, <2>1 DEF TypeOK, SelectJob, UserEvent, server
<1>3. ASSUME NEW j \in Job \cup {None}, OpenPage(j) PROVE TypeOK'
  <2>1. <<>> \in Seq(Shown) /\ loads + 1 \in Nat /\ events + 1 \in Nat
    BY DEF TypeOK
  <2>2. selected' \in Job \cup {None} /\ results' \in Seq(Shown)
        /\ loaded' \in BOOLEAN /\ loads' \in Nat /\ clean' \in BOOLEAN
    BY <1>3, <2>1 DEF TypeOK, OpenPage
  <2> QED
    BY <1>3, <2>1, <2>2 DEF TypeOK, OpenPage, UserEvent, server
<1>4. CASE LoadNothing
  <2>1. loads - 1 \in Nat
    BY <1>4 DEF TypeOK, LoadNothing
  <2> QED
    BY <1>4, <2>1 DEF TypeOK, LoadNothing, server, list
<1>5. CASE LoadMore
  <2> DEFINE page == Fetched(selected, offset, Page)
  <2>1. selected \in Job
    BY <1>5 DEF TypeOK, LoadMore
  <2>2. page \in Seq(Shown) /\ Len(page) \in Nat
    BY <2>1, PageTyped
  <2>3. results' = results \o page /\ offset' = offset + Len(page)
        /\ more' = (Len(page) = Page)
    BY <1>5 DEF LoadMore
  <2> HIDE DEF page
  <2>4. results' \in Seq(Shown) /\ offset' \in Nat /\ more' \in BOOLEAN
    BY <2>2, <2>3 DEF TypeOK
  <2> QED
    BY <1>5, <2>4 DEF TypeOK, LoadMore, UserEvent, server
<1>6. CASE DeleteAll
  <2>1. <<>> \in Seq(Shown) /\ Len(<<>>) \in Nat
    OBVIOUS
  <2>2. results' \in Seq(Shown) /\ offset' \in Nat
    BY <1>6, <2>1 DEF DeleteAll, Show
  <2>3. present' \subseteq Row /\ active' \subseteq Row
    BY <1>6 DEF TypeOK, DeleteAll, Remove
  <2>4. /\ events' = events + 1 /\ more' = FALSE
        /\ UNCHANGED <<jobs, selected, loaded, chosen, loads, poll, clean>>
    BY <1>6, Zenon DEF DeleteAll, UserEvent
  <2>5. jobs' \subseteq Job /\ selected' \in Job \cup {None} /\ more' \in BOOLEAN
    BY <2>4 DEF TypeOK
  <2>6. loaded' \in BOOLEAN /\ chosen' \subseteq Row /\ loads' \in Nat
    BY <2>4 DEF TypeOK
  <2>7. poll' \in [Poll -> Polls] /\ clean' \in BOOLEAN /\ events' \in Nat
    BY <2>4 DEF TypeOK
  <2> QED
    BY <2>2, <2>3, <2>5, <2>6, <2>7 DEF TypeOK
<1>7. CASE DeleteJob
  <2>1. <<>> \in Seq(Shown)
    OBVIOUS
  <2>2. results' \in Seq(Shown)
    BY <1>7, <2>1 DEF DeleteJob
  <2>3. present' \subseteq Row /\ active' \subseteq Row
    BY <1>7 DEF TypeOK, DeleteJob, Remove
  <2>4. /\ events' = events + 1 /\ jobs' = jobs \ {selected} /\ selected' = None /\ loaded' = FALSE
        /\ UNCHANGED <<offset, more, chosen, loads, poll, clean>>
    BY <1>7, Zenon DEF DeleteJob, UserEvent
  <2>5. jobs' \subseteq Job /\ selected' \in Job \cup {None} /\ more' \in BOOLEAN
    BY <2>4 DEF TypeOK
  <2>6. loaded' \in BOOLEAN /\ chosen' \subseteq Row /\ loads' \in Nat /\ offset' \in Nat
    BY <2>4 DEF TypeOK
  <2>7. poll' \in [Poll -> Polls] /\ clean' \in BOOLEAN /\ events' \in Nat
    BY <2>4 DEF TypeOK
  <2> QED
    BY <2>2, <2>3, <2>5, <2>6, <2>7 DEF TypeOK
<1>8. ASSUME NEW r \in Row, Toggle(r) PROVE TypeOK'
  BY <1>8 DEF TypeOK, Toggle, UserEvent, server, list
<1>9. ASSUME NEW r \in Row, DeleteCandidate(r) PROVE TypeOK'
  <2>1. Without({r}) \in Seq(Shown) /\ Len(Without({r})) \in Nat
    BY WithoutRows DEF TypeOK
  <2> QED
    BY <1>9, <2>1 DEF TypeOK, DeleteCandidate, UserEvent, Remove, Show
<1>10. ASSUME NEW r \in Row, Attach(r) PROVE TypeOK'
  BY <1>10 DEF TypeOK, Attach, UserEvent, list
<1>11. ASSUME NEW r \in Row, Settles(r) PROVE TypeOK'
  BY <1>11 DEF TypeOK, Settles, list
<1>12. ASSUME NEW r \in Row, DeletedElsewhere(r) PROVE TypeOK'
  BY <1>12 DEF TypeOK, DeletedElsewhere, UserEvent, Remove, list
<1>13. ASSUME NEW S \in SUBSET Row, DeleteSelected(S) PROVE TypeOK'
  <2>1. Without(chosen) \in Seq(Shown) /\ Len(Without(chosen)) \in Nat
    BY WithoutRows DEF TypeOK
  <2> QED
    BY <1>13, <2>1 DEF TypeOK, DeleteSelected, UserEvent, Remove, Show
<1>14. ASSUME NEW S \in SUBSET Row, Requeue(S) PROVE TypeOK'
  BY <1>14 DEF TypeOK, Requeue, UserEvent, list
<1>15. ASSUME NEW p \in Poll, LoadResults(p) PROVE TypeOK'
  <2>1. selected \in Job /\ loads - 1 \in Nat
    BY <1>15 DEF TypeOK, LoadResults
  <2>2. Fetched(selected, 0, Page) \in Seq(Shown) /\ Len(Fetched(selected, 0, Page)) \in Nat
    BY <2>1, PageTyped
  <2>3. results' \in Seq(Shown) /\ offset' \in Nat /\ more' \in BOOLEAN
    <3> DEFINE page == Fetched(selected, 0, Page)
    <3>1. page \in Seq(Shown) /\ Len(page) \in Nat
      BY <2>2
    <3>2. \/ results' = page /\ offset' = Len(page) /\ more' = (Len(page) = Page)
          \/ results' = <<>> /\ offset' = Len(<<>>) /\ more' = TRUE
      BY <1>15 DEF LoadResults, Show
    <3>3. <<>> \in Seq(Shown) /\ Len(<<>>) \in Nat
      OBVIOUS
    <3> HIDE DEF page
    <3>4. results' \in Seq(Shown) /\ offset' \in Nat
      BY <3>1, <3>2, <3>3
    <3>5. more' \in BOOLEAN
      BY <3>2
    <3> QED
      BY <3>4, <3>5
  <2>4. [pc |-> "sleep", round |-> 0] \in Polls
    BY DEF Polls
  <2>5. poll' \in [Poll -> Polls]
    BY <1>15, <2>4 DEF TypeOK, LoadResults
  <2> QED
    BY <1>15, <2>1, <2>3, <2>5 DEF TypeOK, LoadResults, server
<1>16. ASSUME NEW p \in Poll, PollWakes(p) PROVE TypeOK'
  <2> DEFINE v == IF selected = None \/ \A i \in DOMAIN results : ~results[i].active THEN NoPoll
                  ELSE [pc |-> "fetch", round |-> poll[p].round, job |-> selected,
                        window |-> IF Len(results) > Page THEN Len(results) ELSE Page]
  <2>1. poll[p].round \in Nat /\ Len(results) \in Nat /\ Page \in Nat
    BY <1>16, PollTypes, PageAssumption DEF TypeOK, PollWakes
  <2>2. v \in Polls
    BY <2>1 DEF Polls, TypeOK
  <2>3. poll' = [poll EXCEPT ![p] = v]
    BY <1>16 DEF PollWakes
  <2> HIDE DEF v
  <2>4. poll' \in [Poll -> Polls]
    BY <2>2, <2>3 DEF TypeOK
  <2> QED
    BY <1>16, <2>4 DEF TypeOK, PollWakes, server, list
<1>17. ASSUME NEW p \in Poll, PollFetches(p) PROVE TypeOK'
  <2> DEFINE page == Fetched(poll[p].job, 0, poll[p].window)
  <2>1. poll[p].round \in Nat /\ poll[p].job \in Job
    BY <1>17, PollTypes DEF PollFetches
  <2>2. page \in Seq(Shown)
    BY <2>1, PageTyped
  <2>3. poll' \in [Poll -> Polls]
    <3>1. CASE NextRound(p)
      BY <1>17, <3>1, NextRoundTyped DEF PollFetches
    <3>2. CASE poll' = [poll EXCEPT ![p] = [pc |-> "write", round |-> poll[p].round, page |-> page]]
      <4> HIDE DEF page
      <4>1. [pc |-> "write", round |-> poll[p].round, page |-> page] \in Polls
        BY <2>1, <2>2 DEF Polls
      <4> QED
        BY <3>2, <4>1 DEF TypeOK
    <3> QED
      BY <1>17, <3>1, <3>2 DEF PollFetches
  <2> QED
    BY <1>17, <2>3 DEF TypeOK, PollFetches, server, list
<1>18. ASSUME NEW p \in Poll, PollWrites(p) PROVE TypeOK'
  <2>1. poll[p].page \in Seq(Shown)
    BY <1>18, PollTypes DEF PollWrites
  <2>2. results' \in Seq(Shown) /\ offset' \in Nat
    BY <1>18, <2>1 DEF PollWrites, Show
  <2>3. poll' \in [Poll -> Polls]
    BY <1>18, NextRoundTyped DEF PollWrites
  <2> QED
    BY <1>18, <2>2, <2>3 DEF TypeOK, PollWrites, server
<1> QED
  BY <1>1, <1>2, <1>3, <1>4, <1>5, <1>6, <1>7, <1>8, <1>9, <1>10, <1>11, <1>12, <1>13,
     <1>14, <1>15, <1>16, <1>17, <1>18 DEF Next

(* The types of the results page: every handler and every poll step leaves *)
(* rows, counters and background tasks well formed (results_state.py).     *)
THEOREM ViewTypeCorrect == Spec => []TypeOK
<1>1. Init => TypeOK
  <2>1. NoPoll \in Polls /\ <<>> \in Seq(Shown)
    BY DEF Polls
  <2> SUFFICES ASSUME Init PROVE TypeOK
    OBVIOUS
  <2>2. poll \in [Poll -> Polls]
    BY <2>1, Zenon DEF Init
  <2>3. results \in Seq(Shown) /\ offset \in Nat
    BY <2>1 DEF Init
  <2> QED
    BY <2>2, <2>3 DEF Init, TypeOK
<1> QED
  BY <1>1, TypeKept, PTL DEF Spec

-----------------------------------------------------------------------------
(* The rows shown                                                          *)

(* Handlers that leave rows and tasks alone, or take the rows away.        *)
LEMMA SoundKept ==
  ASSUME TypeOK, Linked, SoundRows, SoundPages, present' \in SUBSET present, poll' = poll,
         clean' => clean,
         loaded' => UNCHANGED <<loaded, results, offset>>,
         loaded' /\ clean' => UNCHANGED selected,
         loaded' => selected' \in Job
  PROVE  Linked' /\ SoundRows' /\ SoundPages'
<1>1. Linked'
  BY DEF Linked
<1>2. SoundRows'
  BY RowsKept
<1>3. SoundPages'
  BY PagesKept
<1> QED
  BY <1>1, <1>2, <1>3

(* A background poll between two of its steps.                             *)
LEMMA SoundPoll ==
  ASSUME TypeOK, Linked, SoundRows,
         UNCHANGED <<present, selected, results, offset, loaded, clean>>
  PROVE  Linked' /\ SoundRows'
<1>1. Linked'
  BY DEF Linked
<1>2. SoundRows'
  BY DEF SoundRows
<1> QED
  BY <1>1, <1>2

LEMMA SoundLoad ==
  ASSUME TypeOK, SoundPages, NEW p \in Poll, LoadResults(p)
  PROVE  Linked' /\ SoundRows' /\ SoundPages'
<1>1. selected \in Job /\ selected' = selected /\ present' = present /\ Page \in Nat
  BY PageAssumption DEF TypeOK, LoadResults, server
<1> DEFINE page == Fetched(selected, 0, Page)
<1>2. Distinct(page) /\ Counted(present, selected, page)
  BY <1>1, FetchedPage, FirstPage
<1>3. Distinct(<<>>) /\ Counted(present, selected, <<>>)
  BY <1>1, NothingShown
<1>4. \/ results' = page /\ offset' = Len(page)
      \/ results' = <<>> /\ offset' = Len(<<>>)
  BY DEF LoadResults, Show
<1> HIDE DEF page
<1>5. Linked'
  BY <1>1, <1>4 DEF Linked
<1>6. SoundRows'
  BY <1>1, <1>2, <1>3, <1>4 DEF SoundRows
<1>7. SoundPages'
  <2>1. \A q \in Poll : poll'[q].pc = "write" => poll'[q] = poll[q]
    BY DEF LoadResults, TypeOK
  <2> QED
    BY <1>1, <2>1, PagesKept
<1> QED
  BY <1>5, <1>6, <1>7

LEMMA SoundLoadMore ==
  ASSUME TypeOK, Linked, SoundRows, SoundPages, LoadMore
  PROVE  Linked' /\ SoundRows' /\ SoundPages'
<1> DEFINE page == Fetched(selected, offset, Page)
<1>1. /\ results' = results \o page /\ offset' = offset + Len(page)
      /\ UNCHANGED <<present, selected, loaded, poll, clean>>
  BY DEF LoadMore, server
<1>2. selected \in Job /\ results \in Seq(Shown) /\ Page \in Nat
  BY PageAssumption DEF LoadMore, TypeOK
<1>3. page \in Seq(Shown)
  BY <1>2, PageTyped
<1>4. Linked'
  <2> HIDE DEF page
  <2> SUFFICES ASSUME loaded' PROVE selected' \in Job /\ offset' = Len(results')
    BY DEF Linked
  <2>1. offset = Len(results)
    BY <1>1 DEF Linked
  <2>2. Len(results \o page) = Len(results) + Len(page)
    BY <1>2, <1>3
  <2> QED
    BY <1>1, <1>2, <2>1, <2>2
<1>5. SoundRows'
  <2> SUFFICES ASSUME loaded, clean
               PROVE  Distinct(results \o page) /\ Counted(present, selected, results \o page)
    BY <1>1 DEF SoundRows
  <2>1. Distinct(results) /\ Counted(present, selected, results) /\ offset = Len(results)
    BY DEF SoundRows, Linked
  <2>2. page = PageOf(present, active, selected, Len(results), Page)
    BY <2>1, FetchedPage
  <2> HIDE DEF page
  <2> QED
    BY <1>2, <2>1, <2>2, NextPage
<1>6. SoundPages'
  <2>1. poll' = poll /\ present' \in SUBSET present
    BY <1>1
  <2> QED
    BY <2>1, PagesKept
<1> QED
  BY <1>4, <1>5, <1>6

(* A deletion takes the rows that leave with their candidates.             *)
LEMMA SoundDeletion ==
  ASSUME TypeOK, Linked, SoundRows, SoundPages,
         \/ \E r \in Row : DeleteCandidate(r)
         \/ \E D \in SUBSET Row : DeleteSelected(D)
  PROVE  Linked' /\ SoundRows' /\ SoundPages'
<1>1. /\ present' \in SUBSET present /\ poll' = poll
      /\ selected' = selected /\ loaded' = loaded
  BY DEF DeleteCandidate, DeleteSelected, Remove
<1>2. SoundPages'
  BY <1>1, PagesKept
<1>3. ASSUME NEW r \in Row, DeleteCandidate(r) PROVE Linked' /\ SoundRows'
  <2>1. results' = Without({r}) /\ offset' = Len(Without({r})) /\ clean' = clean
    BY <1>3 DEF DeleteCandidate, Show
  <2>2. r \in RowsOf(selected) /\ r \in present /\ present' = present \ {r}
    BY <1>3 DEF DeleteCandidate, Known, Remove
  <2>3. {r} \cap InResults \subseteq RowsOf(selected) \cap (present \ present')
    BY <2>2
  <2> QED
    BY <1>1, <2>1, <2>3, RowsRemoved
<1>4. ASSUME NEW D \in SUBSET Row, DeleteSelected(D) PROVE Linked' /\ SoundRows'
  <2>1. results' = Without(chosen) /\ offset' = Len(Without(chosen))
        /\ clean' = (clean /\ chosen \cap InResults \subseteq D)
    BY <1>4 DEF DeleteSelected, Show
  <2>2. D \subseteq RowsOf(selected) \cap present /\ present' = present \ D
    BY <1>4 DEF DeleteSelected, Known, Remove
  <2>3. clean' => chosen \cap InResults \subseteq RowsOf(selected) \cap (present \ present')
    BY <2>1, <2>2
  <2>4. clean' => clean
    BY <2>1
  <2> QED
    BY <1>1, <2>1, <2>3, <2>4, RowsRemoved
<1> QED
  BY <1>2, <1>3, <1>4

LEMMA SoundFetch ==
  ASSUME TypeOK, SoundPages, NEW p \in Poll, PollFetches(p)
  PROVE  SoundPages'
<1> DEFINE page == Fetched(poll[p].job, 0, poll[p].window)
<1>1. present' = present /\ poll \in [Poll -> Polls]
  BY DEF PollFetches, server, TypeOK
<1>2. poll[p].job \in Job /\ poll[p].window \in Nat
  BY PollTypes DEF PollFetches
<1>3. CASE NextRound(p)
  <2>1. poll[p].pc \in {"fetch", "write"}
    BY DEF PollFetches
  <2> QED
    BY <1>1, <1>3, <2>1, NextRoundTyped, PagesKept
<1>4. CASE poll' = [poll EXCEPT ![p] = [pc |-> "write", round |-> poll[p].round, page |-> page]]
  <2>1. Distinct(page) /\ \A j \in Job : Counted(present, j, page)
    BY <1>2, FetchedPage, FirstPage
  <2> HIDE DEF page
  <2>2. poll'[p].page = page /\ \A q \in Poll : q # p => poll'[q] = poll[q]
    BY <1>1, <1>4
  <2> SUFFICES ASSUME NEW q \in Poll, poll'[q].pc = "write"
               PROVE  /\ Distinct(poll'[q].page)
                      /\ \A j \in Job : Counted(present', j, poll'[q].page)
    BY DEF SoundPages
  <2>3. CASE q = p
    BY <1>1, <2>1, <2>2, <2>3
  <2>4. CASE q # p
    BY <1>1, <2>2, <2>4 DEF SoundPages
  <2> QED
    BY <2>3, <2>4
<1> QED
  BY <1>3, <1>4 DEF PollFetches

LEMMA SoundWrite ==
  ASSUME TypeOK, Linked, SoundPages, NEW p \in Poll, PollWrites(p)
  PROVE  Linked' /\ SoundRows' /\ SoundPages'
<1>1. /\ poll[p].pc = "write" /\ NextRound(p)
      /\ results' = poll[p].page /\ offset' = Len(poll[p].page)
      /\ UNCHANGED <<present, selected, loaded, clean>>
  BY DEF PollWrites, Show, server
<1>2. Distinct(poll[p].page) /\ \A j \in Job : Counted(present, j, poll[p].page)
  BY <1>1 DEF SoundPages
<1>3. Linked'
  BY <1>1 DEF Linked
<1>4. SoundRows'
  BY <1>1, <1>2 DEF SoundRows, Linked
<1>5. SoundPages'
  <2>1. poll[p].pc \in {"fetch", "write"}
    BY <1>1
  <2> QED
    BY <1>1, <2>1, NextRoundTyped, PagesKept
<1> QED
  BY <1>3, <1>4, <1>5

LEMMA SoundInvariant == Spec => []Sound
<1>1. Init => Sound
  <2> SUFFICES ASSUME Init PROVE Sound
    OBVIOUS
  <2>1. TypeOK
    <3>1. NoPoll \in Polls /\ <<>> \in Seq(Shown)
      BY DEF Polls
    <3>2. poll \in [Poll -> Polls]
      BY <3>1, Zenon DEF Init
    <3>3. results \in Seq(Shown) /\ offset \in Nat
      BY <3>1 DEF Init
    <3> QED
      BY <3>2, <3>3 DEF Init, TypeOK
  <2>2. loaded = FALSE /\ \A p \in Poll : poll[p] = NoPoll
    BY DEF Init
  <2> QED
    BY <2>1, <2>2 DEF Sound, Linked, SoundRows, SoundPages, NoPoll
<1>2. Sound /\ [Next]_vars => Sound'
  <2> SUFFICES ASSUME TypeOK, Linked, SoundRows, SoundPages, [Next]_vars
               PROVE  Linked' /\ SoundRows' /\ SoundPages'
    BY TypeKept DEF Sound
  <2>1. CASE UNCHANGED vars
    BY <2>1 DEF vars, server, list, Linked, SoundRows, SoundPages
  <2>2. ASSUME NEW j \in Job, SelectJob(j) PROVE Linked' /\ SoundRows' /\ SoundPages'
    BY <2>2, SoundKept DEF SelectJob, server
  <2>3. ASSUME NEW j \in Job \cup {None}, OpenPage(j) PROVE Linked' /\ SoundRows' /\ SoundPages'
    <3>1. /\ present' = present /\ poll' = poll /\ offset' = offset
          /\ clean' => clean /\ (selected' # selected => ~loaded)
          /\ loaded' => /\ loaded /\ results' = results
                        /\ j = None \/ j \in jobs
          /\ selected' = CASE j = None -> selected [] j \in jobs -> j [] OTHER -> None
      BY <2>3 DEF OpenPage, server
    <3>2. loaded' => selected' \in Job /\ UNCHANGED <<loaded, results, offset>>
      BY <3>1 DEF Linked, TypeOK
    <3>3. loaded' /\ clean' => UNCHANGED selected
      BY <3>1
    <3>4. clean' => clean
      BY <3>1
    <3> QED
      BY <3>1, <3>2, <3>3, <3>4, SoundKept
  <2>4. CASE LoadNothing
    <3>1. /\ UNCHANGED <<present, poll, loaded, results, offset, clean, selected>>
      BY <2>4 DEF LoadNothing, server, list
    <3> QED
      BY <3>1, SoundKept DEF Linked
  <2>5. CASE LoadMore
    BY <2>5, SoundLoadMore
  <2>6. CASE DeleteAll
    <3>1. /\ present' \in SUBSET present /\ results' = <<>> /\ offset' = Len(<<>>)
          /\ UNCHANGED <<selected, loaded, clean, poll>>
      BY <2>6 DEF DeleteAll, Remove, Show
    <3>2. selected \in Job
      BY <2>6 DEF DeleteAll, TypeOK
    <3>3. Distinct(<<>>) /\ Counted(present', selected, <<>>)
      BY <3>2, NothingShown
    <3>4. Linked'
      BY <3>1, <3>2 DEF Linked
    <3>5. SoundRows'
      BY <3>1, <3>3 DEF SoundRows
    <3>6. SoundPages'
      BY <3>1, PagesKept
    <3> QED
      BY <3>4, <3>5, <3>6
  <2>7. CASE DeleteJob
    <3>1. present' \in SUBSET present /\ poll' = poll /\ clean' = clean /\ loaded' = FALSE
      BY <2>7 DEF DeleteJob, Remove
    <3> QED
      BY <3>1, SoundKept
  <2>8. ASSUME NEW r \in Row, Toggle(r) \/ Attach(r) \/ Settles(r) \/ DeletedElsewhere(r)
        PROVE  Linked' /\ SoundRows' /\ SoundPages'
    <3>1. /\ present' \in SUBSET present
          /\ UNCHANGED <<poll, loaded, results, offset, clean, selected>>
      BY <2>8 DEF Toggle, Attach, Settles, DeletedElsewhere, Remove, server, list
    <3> QED
      BY <3>1, SoundKept DEF Linked
  <2>9. ASSUME NEW r \in Row, DeleteCandidate(r) PROVE Linked' /\ SoundRows' /\ SoundPages'
    BY <2>9, SoundDeletion
  <2>10. ASSUME NEW S \in SUBSET Row, DeleteSelected(S) PROVE Linked' /\ SoundRows' /\ SoundPages'
    BY <2>10, SoundDeletion
  <2>11. ASSUME NEW S \in SUBSET Row, Requeue(S) PROVE Linked' /\ SoundRows' /\ SoundPages'
    <3>1. UNCHANGED <<present, poll, loaded, results, offset, clean, selected>>
      BY <2>11 DEF Requeue, list
    <3> QED
      BY <3>1, SoundKept DEF Linked
  <2>12. ASSUME NEW p \in Poll, LoadResults(p) PROVE Linked' /\ SoundRows' /\ SoundPages'
    BY <2>12, SoundLoad
  <2>13. ASSUME NEW p \in Poll, PollWakes(p) PROVE Linked' /\ SoundRows' /\ SoundPages'
    <3>1. UNCHANGED <<present, selected, results, offset, loaded, clean>>
      BY <2>13 DEF PollWakes, server, list
    <3>2. \A q \in Poll : poll'[q].pc = "write" => poll'[q] = poll[q]
      BY <2>13 DEF PollWakes, TypeOK, NoPoll
    <3> QED
      BY <3>1, <3>2, SoundPoll, PagesKept
  <2>14. ASSUME NEW p \in Poll, PollFetches(p) PROVE Linked' /\ SoundRows' /\ SoundPages'
    <3>1. UNCHANGED <<present, selected, results, offset, loaded, clean>>
      BY <2>14 DEF PollFetches, server, list
    <3> QED
      BY <2>14, <3>1, SoundPoll, SoundFetch
  <2>15. ASSUME NEW p \in Poll, PollWrites(p) PROVE Linked' /\ SoundRows' /\ SoundPages'
    BY <2>15, SoundWrite
  <2> QED
    BY <2>1, <2>2, <2>3, <2>4, <2>5, <2>6, <2>7, <2>8, <2>9, <2>10, <2>11, <2>12, <2>13,
       <2>14, <2>15 DEF Next
<1> QED
  BY <1>1, <1>2, PTL DEF Spec

(* The next page starts where the loaded rows end, whatever handlers,      *)
(* pages and polls come between (results_state.py:340-372).                *)
THEOREM OffsetFollowsRows == Spec => []OffsetIsLoaded
<1>1. Sound => OffsetIsLoaded
  BY DEF Sound, Linked, OffsetIsLoaded
<1> QED
  BY <1>1, SoundInvariant, PTL

(* For all jobs, listings, page sizes and numbers of polls: no candidate   *)
(* is shown twice while pages, deletions and polls interleave              *)
(* (results_state.py:340-372, 545-600).                                    *)
THEOREM CandidatesAreShownOnce == Spec => []ShownOnce
<1>1. Sound => ShownOnce
  BY DEF Sound, SoundRows, Distinct, ShownOnce
<1> QED
  BY <1>1, SoundInvariant, PTL
=============================================================================
