-------------------------- MODULE CollectorProofs --------------------------
(* What holds of Collector for any sources, limits and command lines. *)
EXTENDS Collector, SubsequencesProofs

LEMMA OccurrencesType ==
  ASSUME NEW S, NEW s \in Seq(S), NEW c
  PROVE  /\ Occurrences(c, s) \in Nat
         /\ IsFiniteSet({i \in DOMAIN s : s[i] = c})
<1>1. IsFiniteSet(1 .. Len(s)) /\ DOMAIN s = 1 .. Len(s)
  BY FS_Interval
<1>2. IsFiniteSet({i \in DOMAIN s : s[i] = c})
  BY <1>1, FS_Subset
<1> QED
  BY <1>2, FS_CardinalityType DEF Occurrences

LEMMA OccurrencesAppend ==
  ASSUME NEW S, NEW s \in Seq(S), NEW x \in S, NEW c
  PROVE  /\ Occurrences(c, s) \in Nat
         /\ x = c => Occurrences(c, Append(s, x)) = Occurrences(c, s) + 1
         /\ x # c => Occurrences(c, Append(s, x)) = Occurrences(c, s)
<1> DEFINE I == {i \in DOMAIN s : s[i] = c}
           J == {i \in DOMAIN Append(s, x) : Append(s, x)[i] = c}
           n == Len(s) + 1
<1>1. IsFiniteSet(I) /\ Cardinality(I) \in Nat
  BY OccurrencesType, FS_CardinalityType
<1>2. n \notin I /\ J = IF x = c THEN I \cup {n} ELSE I
  OBVIOUS
<1> HIDE DEF I, J, n
<1>3. Cardinality(J) = Cardinality(I) + IF x = c THEN 1 ELSE 0
  <2>1. CASE x = c
    BY <1>1, <1>2, <2>1, FS_AddElement
  <2>2. CASE x # c
    BY <1>1, <1>2, <2>2
  <2> QED
    BY <2>1, <2>2
<1>4. Occurrences(c, s) = Cardinality(I) /\ Occurrences(c, Append(s, x)) = Cardinality(J)
  BY DEF Occurrences, I, J
<1> QED
  BY <1>1, <1>3, <1>4

LEMMA OccurrencesReplace ==
  ASSUME NEW S, NEW s \in Seq(S), NEW k \in DOMAIN s, NEW x \in S, s[k] # x, NEW c
  PROVE  LET t == [s EXCEPT ![k] = x] IN
         /\ c = x => Occurrences(c, t) = Occurrences(c, s) + 1
         /\ c = s[k] => Occurrences(c, t) = Occurrences(c, s) - 1
         /\ c # x /\ c # s[k] => Occurrences(c, t) = Occurrences(c, s)
<1> DEFINE t == [s EXCEPT ![k] = x]
           I == {i \in DOMAIN s : s[i] = c}
           J == {i \in DOMAIN t : t[i] = c}
<1>1. IsFiniteSet(I) /\ Cardinality(I) \in Nat
  BY OccurrencesType, FS_CardinalityType
<1>2. CASE c = x
  <2>1. J = I \cup {k} /\ k \notin I
    BY <1>2
  <2> HIDE DEF I, J
  <2>2. Cardinality(J) = Cardinality(I) + 1
    BY <1>1, <2>1, FS_AddElement
  <2> QED
    BY <1>2, <2>2 DEF Occurrences, I, J
<1>3. CASE c # x /\ c = s[k]
  <2>1. J = I \ {k} /\ k \in I
    BY <1>3
  <2> HIDE DEF I, J
  <2>2. Cardinality(J) = Cardinality(I) - 1
    BY <1>1, <2>1, FS_RemoveElement
  <2> QED
    BY <1>1, <1>3, <2>2 DEF Occurrences, I, J
<1>4. CASE c # x /\ c # s[k]
  <2>1. J = I
    BY <1>4
  <2> QED
    BY <1>1, <1>4, <2>1 DEF Occurrences
<1> QED
  BY <1>2, <1>3, <1>4

(* What this run added, when a row is appended.                            *)
LEMMA ThisRunAppend ==
  ASSUME csv \in Seq(Candidate), fresh \in 0 .. Len(csv), NEW x \in Candidate,
         csv' = Append(csv, x), UNCHANGED fresh
  PROVE  /\ csv' \in Seq(Candidate) /\ fresh' \in 0 .. Len(csv')
         /\ ThisRun \in Seq(Candidate)
         /\ ThisRun' = Append(ThisRun, x)
<1>1. csv' \in Seq(Candidate) /\ Len(csv') = Len(csv) + 1 /\ ThisRun \in Seq(Candidate)
  BY DEF ThisRun
<1>2. /\ ThisRun' \in Seq(Candidate) /\ Append(ThisRun, x) \in Seq(Candidate)
      /\ Len(ThisRun') = Len(Append(ThisRun, x))
  BY <1>1 DEF ThisRun
<1>3. ASSUME NEW i \in 1 .. Len(ThisRun') PROVE ThisRun'[i] = Append(ThisRun, x)[i]
  <2>1. ThisRun'[i] = csv'[i + fresh] /\ i + fresh \in 1 .. Len(csv) + 1
    BY <1>1 DEF ThisRun
  <2>2. Len(ThisRun) = Len(csv) - fresh
    BY DEF ThisRun
  <2>3. CASE i <= Len(ThisRun)
    <3>1. ThisRun[i] = csv[i + fresh]
      BY <2>3, <2>2 DEF ThisRun
    <3> QED
      BY <1>1, <2>1, <2>2, <2>3, <3>1
  <2>4. CASE i = Len(ThisRun) + 1
    <3>1. csv'[i + fresh] = x
      BY <2>2, <2>4
    <3> QED
      BY <1>1, <2>1, <2>4, <3>1
  <2> QED
    BY <1>1, <1>2, <2>3, <2>4
<1> QED
  BY <1>1, <1>2, <1>3

-----------------------------------------------------------------------------
(* SheetIsFound for every candidate, with what its steps need: the rows of *)
(* this run are the end of the CSV, and between runs there are none.       *)
SheetInv ==
  /\ found \in Seq(Candidate) /\ csv \in Seq(Candidate) /\ fresh \in 0 .. Len(csv)
  /\ todo \in Nat \ {0}
  /\ \A c \in Candidate :
       Occurrences(c, ThisRun) = IF c.email = None THEN 0 ELSE Occurrences(c, found)

(* A candidate is collected.                                               *)
LEMMA CollectKeepsSheet ==
  ASSUME SheetInv, NEW d \in Candidate,
         found' = Append(found, d), Append_complete(d), UNCHANGED <<fresh, todo>>
  PROVE  SheetInv'
<1>1. found' \in Seq(Candidate) /\ todo' \in Nat \ {0}
  BY DEF SheetInv
<1>2. ASSUME NEW c \in Candidate
      PROVE  /\ Occurrences(c, found) \in Nat
             /\ d = c => Occurrences(c, found') = Occurrences(c, found) + 1
             /\ d # c => Occurrences(c, found') = Occurrences(c, found)
  BY OccurrencesAppend DEF SheetInv
<1>3. CASE d.email = None
  <2>1. UNCHANGED <<csv, fresh>> /\ ThisRun' = ThisRun
    BY <1>3 DEF Append_complete, ThisRun
  <2>2. ASSUME NEW c \in Candidate
        PROVE  Occurrences(c, ThisRun)' = IF c.email = None THEN 0 ELSE Occurrences(c, found')
    BY <1>2, <1>3, <2>1 DEF SheetInv
  <2> QED
    BY <1>1, <2>1, <2>2 DEF SheetInv
<1>4. CASE d.email # None
  <2>1. csv' = Append(csv, d)
    BY <1>4 DEF Append_complete
  <2>2. /\ csv' \in Seq(Candidate) /\ fresh' \in 0 .. Len(csv')
        /\ ThisRun \in Seq(Candidate) /\ ThisRun' = Append(ThisRun, d)
    BY <2>1, ThisRunAppend DEF SheetInv
  <2>3. ASSUME NEW c \in Candidate
        PROVE  Occurrences(c, ThisRun)' = IF c.email = None THEN 0 ELSE Occurrences(c, found')
    <3>1. /\ d = c => Occurrences(c, ThisRun)' = Occurrences(c, ThisRun) + 1
          /\ d # c => Occurrences(c, ThisRun)' = Occurrences(c, ThisRun)
      BY <2>2, OccurrencesAppend
    <3> QED
      BY <1>2, <1>4, <3>1 DEF SheetInv
  <2> QED
    BY <1>1, <2>2, <2>3 DEF SheetInv
<1> QED
  BY <1>3, <1>4

(* An e-mail is found for a candidate that had none.                       *)
LEMMA EnrichKeepsSheet ==
  ASSUME SheetInv, NEW email \in Email, None \notin Email, todo <= Len(found),
         found[todo].email = None, found' = [found EXCEPT ![todo].email = email],
         Append_complete(found'[todo]), todo' = todo + 1, UNCHANGED fresh
  PROVE  SheetInv'
<1> DEFINE d == [found[todo] EXCEPT !.email = email]
<1>1. /\ todo \in DOMAIN found /\ found[todo] \in Candidate /\ todo' \in Nat \ {0}
      /\ found \in Seq(Candidate)
  BY DEF SheetInv
<1>2. d \in Candidate /\ d.email = email /\ d # found[todo] /\ email # None
  BY <1>1 DEF Candidate
<1> HIDE DEF d
<1>3. found' = [found EXCEPT ![todo] = d] /\ found'[todo] = d /\ found' \in Seq(Candidate)
  BY <1>1, <1>2 DEF d
<1>4. ASSUME NEW c
      PROVE  /\ c = d => Occurrences(c, found') = Occurrences(c, found) + 1
             /\ c # d /\ c # found[todo] => Occurrences(c, found') = Occurrences(c, found)
  <2> DEFINE k == todo
             g == found
  <2>1. g \in Seq(Candidate) /\ k \in DOMAIN g /\ d \in Candidate /\ g[k] # d
    BY <1>1, <1>2
  <2> HIDE DEF k, g
  <2>2. /\ c = d => Occurrences(c, [g EXCEPT ![k] = d]) = Occurrences(c, g) + 1
        /\ c # d /\ c # g[k] => Occurrences(c, [g EXCEPT ![k] = d]) = Occurrences(c, g)
    BY <2>1, OccurrencesReplace
  <2> QED
    BY <1>3, <2>2 DEF k, g
<1>5. csv' = Append(csv, d)
  BY <1>2, <1>3 DEF Append_complete
<1>6. /\ csv' \in Seq(Candidate) /\ fresh' \in 0 .. Len(csv')
      /\ ThisRun \in Seq(Candidate) /\ ThisRun' = Append(ThisRun, d)
  BY <1>2, <1>5, ThisRunAppend DEF SheetInv
<1>7. ASSUME NEW c
      PROVE  /\ d = c => Occurrences(c, ThisRun)' = Occurrences(c, ThisRun) + 1
             /\ d # c => Occurrences(c, ThisRun)' = Occurrences(c, ThisRun)
  BY <1>2, <1>6, OccurrencesAppend
<1>8. ASSUME NEW c \in Candidate
      PROVE  Occurrences(c, ThisRun)' = IF c.email = None THEN 0 ELSE Occurrences(c, found')
  <2>1. Occurrences(c, ThisRun) = IF c.email = None THEN 0 ELSE Occurrences(c, found)
    BY DEF SheetInv
  <2>2. CASE c = d
    BY <1>2, <1>4, <1>7, <2>1, <2>2
  <2>3. CASE c # d /\ c = found[todo]
    BY <1>7, <2>1, <2>3
  <2>4. CASE c # d /\ c # found[todo]
    BY <1>4, <1>7, <2>1, <2>4
  <2> QED
    BY <2>2, <2>3, <2>4
<1> QED
  BY <1>1, <1>3, <1>6, <1>8 DEF SheetInv

(* The process is gone: nothing is found, and no row is of this run.       *)
LEMMA ExitKeepsSheet ==
  ASSUME SheetInv, NEW p, Exit(p), UNCHANGED csv
  PROVE  SheetInv'
<1>1. found' = <<>> /\ fresh' = Len(csv') /\ todo' = 1 /\ csv' \in Seq(Candidate)
  BY DEF Exit, SheetInv
<1>2. ThisRun' = <<>>
  BY <1>1 DEF ThisRun
<1>3. \A c : Occurrences(c, <<>>) = 0
  BY FS_EmptySet DEF Occurrences
<1> QED
  BY <1>1, <1>2, <1>3 DEF SheetInv

LEMMA SheetInvariant == Spec => []SheetInv
<1>1. Init => SheetInv
  <2> SUFFICES ASSUME Init PROVE SheetInv
    OBVIOUS
  <2>1. found = <<>> /\ csv = <<>> /\ fresh = 0 /\ todo = 1 /\ ThisRun = <<>>
    BY DEF Init, ThisRun
  <2>2. \A c : Occurrences(c, <<>>) = 0
    BY FS_EmptySet DEF Occurrences
  <2> QED
    BY <2>1, <2>2 DEF SheetInv
<1>2. SheetInv /\ [Next]_vars => SheetInv'
  <2> SUFFICES ASSUME SheetInv, [Next]_vars PROVE SheetInv'
    OBVIOUS
  <2>0. ASSUME UNCHANGED <<found, csv, fresh>>, todo' \in {todo, todo + 1, 1} PROVE SheetInv'
    BY <2>0 DEF SheetInv, ThisRun
  <2>1. CASE UNCHANGED vars
    BY <2>0, <2>1 DEF vars, outputs
  <2>2. ASSUME NEW o \in Option, Start(o) PROVE SheetInv'
    BY <2>0, <2>2 DEF Start, outputs
  <2>3. CASE VerifyOutput
    BY <2>0, <2>3 DEF VerifyOutput, outputs
  <2>4. CASE Killed
    BY <2>4, ExitKeepsSheet DEF Killed
  <2>5. CASE Step
    <3>1. CASE GithubSearch \/ Skip \/ GithubEnds
      BY <2>0, <3>1 DEF GithubSearch, Skip, GithubEnds, outputs
    <3>2. CASE SerperPage \/ NextQuery \/ SerperEnds
      BY <2>0, <3>2 DEF SerperPage, NextQuery, SerperEnds, outputs
    <3>3. ASSUME NEW c \in Findable, GithubProfile(c) \/ SerperItem(c) PROVE SheetInv'
      <4>1. c \in Candidate
        BY SourceAssumption DEF FindableAssumption
      <4>2. found' = Append(found, c) /\ Append_complete(c) /\ UNCHANGED <<fresh, todo>>
        BY <3>3 DEF GithubProfile, SerperItem
      <4> QED
        BY <4>1, <4>2, CollectKeepsSheet
    <3>4. ASSUME NEW email \in Email \cup {None}, Enrich(email) PROVE SheetInv'
      <4>1. todo <= Len(found) /\ todo' = todo + 1 /\ UNCHANGED fresh
        BY <3>4 DEF Enrich
      <4>2. CASE found[todo].email # None \/ email = None
        BY <2>0, <3>4, <4>1, <4>2 DEF Enrich
      <4>3. CASE found[todo].email = None /\ email # None
        <5>1. /\ email \in Email /\ None \notin Email
              /\ found' = [found EXCEPT ![todo].email = email]
              /\ Append_complete(found'[todo])
          BY <3>4, <4>3, SourceAssumption DEF Enrich
        <5> QED
          BY <4>1, <4>3, <5>1, EnrichKeepsSheet
      <4> QED
        BY <4>2, <4>3
    <3>5. CASE Finish
      <4>1. CASE option.verify
        BY <2>0, <3>5, <4>1 DEF Finish
      <4>2. CASE ~option.verify
        BY <3>5, <4>2, ExitKeepsSheet DEF Finish
      <4> QED
        BY <4>1, <4>2
    <3>6. ASSUME NEW got, Verify(got) PROVE SheetInv'
      BY <2>0, <3>6 DEF Verify, outputs
    <3>7. CASE VerifyEnds
      BY <3>7, ExitKeepsSheet DEF VerifyEnds
    <3> QED
      BY <2>5, <3>1, <3>2, <3>3, <3>4, <3>5, <3>6, <3>7 DEF Step
  <2> QED
    BY <2>1, <2>2, <2>3, <2>4, <2>5 DEF Next
<1> QED
  BY <1>1, <1>2, PTL DEF Spec

(* In every run, wherever it is killed, the rows it appends to the CSV are *)
(* the candidates it has found complete, each as often as it was found,    *)
(* for any sources, limits, numbers of pages and e-mails found later.      *)
THEOREM SheetFollowsFound == Spec => []SheetIsFound
<1>1. SheetInv => SheetIsFound
  <2> SUFFICES ASSUME SheetInv, NEW c \in ToSet(found) \cup ToSet(ThisRun)
               PROVE  Occurrences(c, ThisRun) = IF c.email = None THEN 0 ELSE Occurrences(c, found)
    BY DEF SheetIsFound
  <2>1. found \in Seq(Candidate) /\ ThisRun \in Seq(Candidate)
    BY DEF SheetInv, ThisRun
  <2>2. c \in Candidate
    BY <2>1 DEF ToSet
  <2> QED
    BY <2>2 DEF SheetInv
<1> QED
  BY <1>1, SheetInvariant, PTL

-----------------------------------------------------------------------------
(* What the thresholds of the two programs presume of a download: a file   *)
(* with 1000 characters of text has 100 when it is read as plain text.     *)
RawIsLongEnough ==
  \A c \in Content : Extracted(c, FALSE) >= MinVerified => c.raw >= MinResume

ReportInv == report # None =>
  /\ report.got \in Files \cup {None}
  /\ report.status = IF report.got = None THEN "failed" ELSE Status(report.got)

(* What a fetch leaves on disk is content of the link, but never a sign-in *)
(* page, whichever of the two downloads it came from.                      *)
LEMMA FilesAreContent == \A c \in Files : c \in Content /\ ~c.signin
<1> SUFFICES ASSUME NEW drive \in BOOLEAN, NEW private \in BOOLEAN,
                    NEW gdown \in Outcomes, NEW http \in Outcomes,
                    ~Fetched(drive, private, gdown, http).raised,
                    Fetched(drive, private, gdown, http).file # None
             PROVE  /\ Fetched(drive, private, gdown, http).file \in Content
                    /\ ~Fetched(drive, private, gdown, http).file.signin
  BY DEF Files
<1> QED
  BY DEF Fetched, Outcomes, SignIn

(* A resume the collector calls usable is one the worker accepts, whatever *)
(* is served behind the link, by whichever way it was downloaded, and      *)
(* whatever name the worker gives the file.                                *)
THEOREM UsableResumesAreAccepted ==
  ASSUME RawIsLongEnough
  PROVE  Spec => []UsableIsAccepted
<1>1. Init => ReportInv
  BY DEF Init, ReportInv
<1>2. ReportInv /\ [Next]_vars => ReportInv'
  <2> SUFFICES ASSUME ReportInv, [Next]_vars PROVE ReportInv'
    OBVIOUS
  <2>0. ASSUME report' \in {report, None} PROVE ReportInv'
    BY <2>0 DEF ReportInv
  <2>1. ASSUME NEW got \in Files \cup {None}, Verify(got) PROVE ReportInv'
    BY <2>1 DEF Verify, ReportInv
  <2>2. CASE UNCHANGED vars
    BY <2>0, <2>2 DEF vars, verdict
  <2>3. ASSUME NEW o \in Option, Start(o) PROVE ReportInv'
    BY <2>0, <2>3 DEF Start, verdict
  <2>4. CASE VerifyOutput \/ Killed
    BY <2>0, <2>4 DEF VerifyOutput, VerifyStarts, Killed
  <2>5. CASE Step
    <3>1. CASE GithubSearch \/ Skip \/ GithubEnds
      BY <2>0, <3>1 DEF GithubSearch, Skip, GithubEnds, verdict
    <3>2. CASE SerperPage \/ NextQuery \/ SerperEnds
      BY <2>0, <3>2 DEF SerperPage, NextQuery, SerperEnds, verdict
    <3>3. ASSUME NEW c, GithubProfile(c) \/ SerperItem(c) PROVE ReportInv'
      BY <2>0, <3>3 DEF GithubProfile, SerperItem, verdict
    <3>4. ASSUME NEW email, Enrich(email) PROVE ReportInv'
      BY <2>0, <3>4 DEF Enrich, verdict
    <3>5. CASE Finish \/ VerifyEnds
      BY <2>0, <3>5 DEF Finish, VerifyStarts, VerifyEnds
    <3> QED
      BY <2>1, <2>5, <3>1, <3>2, <3>3, <3>4, <3>5 DEF Step
  <2> QED
    BY <2>2, <2>3, <2>4, <2>5 DEF Next
<1>3. ReportInv => UsableIsAccepted
  <2> SUFFICES ASSUME ReportInv, report # None, report.status = "usable", NEW plain \in BOOLEAN
               PROVE  WorkerAccepts(report.got, plain)
    BY DEF UsableIsAccepted
  <2> DEFINE c == report.got
  <2>1. c # None /\ c \in Files /\ Status(c) = "usable"
    BY DEF ReportInv
  <2>2. c \in Content /\ ~c.signin
    BY <2>1, FilesAreContent
  <2>3. ~c.html /\ ~(Extracted(c, FALSE) < MinVerified)
    BY <2>1 DEF Status
  <2>4. c.raw \in Nat /\ Extracted(c, FALSE) \in Nat
    BY <2>2, SourceAssumption DEF ContentAssumption, Extracted
  <2> DEFINE n == Extracted(c, FALSE)
  <2>5. n >= MinVerified /\ n >= MinResume
    <3>1. n \in Nat /\ ~(n < MinVerified)
      BY <2>3, <2>4
    <3> HIDE DEF n
    <3> QED
      BY <3>1 DEF MinVerified, MinResume
  <2>6. c.raw >= MinResume
    BY <2>2, <2>5, RawIsLongEnough, Zenon DEF RawIsLongEnough
  <2> QED
    BY <2>2, <2>5, <2>6 DEF WorkerAccepts, Extracted
<1> QED
  BY <1>1, <1>2, <1>3, PTL DEF Spec

-----------------------------------------------------------------------------
(* What TypeOK needs: no source is past its limit, a run begins with the   *)
(* first candidate, and results are left on a page only while a source is  *)
(* searched.                                                               *)
From(source, s) == {i \in DOMAIN s : s[i].source = source}
TypeInv ==
  /\ TypeOK
  /\ \A source \in {"github", "serper"} : Cardinality(From(source, found)) <= Limit
  /\ phase \in {"killed", "done"} => todo = 1
  /\ phase \notin {"github", "serper"} => left = 0

LEMMA FromIsFinite ==
  ASSUME NEW s \in Seq(Candidate), NEW source
  PROVE  IsFiniteSet(From(source, s)) /\ Cardinality(From(source, s)) \in Nat
<1>1. IsFiniteSet(1 .. Len(s)) /\ DOMAIN s = 1 .. Len(s)
  BY FS_Interval
<1>2. IsFiniteSet(From(source, s))
  BY <1>1, FS_Subset DEF From
<1> QED
  BY <1>2, FS_CardinalityType

(* All that is collected comes from one of the two sources.                *)
LEMMA LimitsBoundLength ==
  ASSUME NEW s \in Seq(Candidate),
         \A source \in {"github", "serper"} : Cardinality(From(source, s)) <= Limit
  PROVE  Len(s) <= 2 * Limit
<1> DEFINE A == From("github", s)
           B == From("serper", s)
           n == Len(s)
<1>1. IsFiniteSet(A) /\ Cardinality(A) \in Nat /\ IsFiniteSet(B) /\ Cardinality(B) \in Nat
  BY FromIsFinite
<1>2. n \in Nat /\ 1 .. n = A \cup B /\ A \cap B = {}
  <2>1. \A i \in 1 .. n : s[i].source \in {"github", "serper"}
    <3>1. \A c \in Candidate : c.source \in {"github", "serper"}
      BY DEF Candidate
    <3>2. \A i \in 1 .. n : s[i] \in Candidate
      OBVIOUS
    <3> QED
      BY <3>1, <3>2
  <2>2. DOMAIN s = 1 .. n /\ n \in Nat
    OBVIOUS
  <2> QED
    BY <2>1, <2>2 DEF From
<1>3. Cardinality(A) <= Limit /\ Cardinality(B) <= Limit
  OBVIOUS
<1> HIDE DEF A, B, n
<1>4. Cardinality(1 .. n) = n
  BY <1>2, FS_Interval
<1>5. Cardinality(A \cap B) = 0
  BY <1>2, FS_EmptySet
<1>6. Cardinality(A \cup B) = Cardinality(A) + Cardinality(B) - Cardinality(A \cap B)
  BY <1>1, FS_Union
<1>7. Cardinality(A \cup B) = n
  BY <1>2, <1>4
<1>8. n <= 2 * Limit
  BY <1>1, <1>2, <1>3, <1>5, <1>6, <1>7, BoundAssumption DEF BoundAssumption
<1> QED
  BY <1>8 DEF n

LEMMA FromAppend ==
  ASSUME NEW s \in Seq(Candidate), NEW c \in Candidate, NEW source
  PROVE  Cardinality(From(source, Append(s, c))) =
           Cardinality(From(source, s)) + IF c.source = source THEN 1 ELSE 0
<1> DEFINE I == From(source, s)
           J == From(source, Append(s, c))
           n == Len(s) + 1
<1>1. IsFiniteSet(I) /\ Cardinality(I) \in Nat
  BY FromIsFinite
<1>2. n \notin I /\ J = IF c.source = source THEN I \cup {n} ELSE I
  BY DEF From
<1> HIDE DEF I, J, n
<1>3. Cardinality(J) = Cardinality(I) + IF c.source = source THEN 1 ELSE 0
  <2>1. CASE c.source = source
    BY <1>1, <1>2, <2>1, FS_AddElement
  <2>2. CASE c.source # source
    BY <1>1, <1>2, <2>2
  <2> QED
    BY <2>1, <2>2
<1> QED
  BY <1>3 DEF I, J

(* The keys of dedup's result are those of the sequence, each once.        *)
LEMMA DedupByKey ==
  ASSUME NEW s \in Seq(Candidate)
  PROVE  /\ Dedup(s) \in Seq(Candidate)
         /\ \A i \in DOMAIN Dedup(s) : \E j \in DOMAIN s : Dedup(s)[i] = s[j]
         /\ \A i, j \in DOMAIN Dedup(s) : i # j => Key(Dedup(s)[i]) # Key(Dedup(s)[j])
         /\ \A i \in DOMAIN s : \E j \in DOMAIN Dedup(s) : Key(Dedup(s)[j]) = Key(s[i])
<1> DEFINE keys == [i \in DOMAIN s |-> Key(s[i])]
           S    == Firsts(keys)
<1>1. /\ keys \in Seq({Key(c) : c \in Candidate}) /\ DOMAIN keys = DOMAIN s
      /\ \A i \in DOMAIN s : keys[i] = Key(s[i])
  OBVIOUS
<1> HIDE DEF keys
<1>2. /\ S \in SUBSET DOMAIN s
      /\ \A i \in S : \A j \in DOMAIN s : j < i => Key(s[j]) # Key(s[i])
      /\ \A i \in DOMAIN s : \E f \in S : Key(s[f]) = Key(s[i])
  BY <1>1, FirstsCover
<1> HIDE DEF S
<1>3. /\ Cardinality(S) \in Nat
      /\ Kept(s, S) \in Seq(Candidate) /\ Len(Kept(s, S)) = Cardinality(S)
      /\ \E at : Lists(at, s, S)
  BY <1>2, KeptInOrder
<1>4. PICK at : Lists(at, s, S)
  BY <1>3
<1>5. /\ at \in [1 .. Cardinality(S) -> S]
      /\ \A k \in 1 .. Cardinality(S) : Kept(s, S)[k] = s[at[k]]
      /\ \A k, l \in 1 .. Cardinality(S) : k < l => at[k] < at[l]
      /\ \A i \in S : at[PlaceIn(S, i)] = i
  BY <1>4 DEF Lists
<1>6. \A i \in S : PlaceIn(S, i) \in 1 .. Cardinality(S)
  <2>1. S \in SUBSET (1 .. Len(s)) /\ Len(s) \in Nat
    BY <1>2
  <2> QED
    BY <2>1, PlacesAreCounted
<1>7. Dedup(s) = Kept(s, S)
  BY DEF Dedup, S, keys
<1>8. DOMAIN Kept(s, S) = 1 .. Cardinality(S)
  BY <1>3
<1>9. ASSUME NEW k \in 1 .. Cardinality(S), NEW l \in 1 .. Cardinality(S), k # l
      PROVE  Key(s[at[k]]) # Key(s[at[l]])
  <2>1. at[k] \in S /\ at[l] \in S /\ at[k] \in DOMAIN s /\ at[l] \in DOMAIN s
    BY <1>2, <1>5
  <2>2. k \in Nat /\ l \in Nat /\ (k < l \/ l < k)
    BY <1>3, <1>9
  <2>3. CASE k < l
    BY <1>2, <1>5, <2>1, <2>3
  <2>4. CASE l < k
    BY <1>2, <1>5, <2>1, <2>4
  <2> QED
    BY <2>2, <2>3, <2>4
<1>10. \A i \in DOMAIN Kept(s, S) : \E j \in DOMAIN s : Kept(s, S)[i] = s[j]
  BY <1>2, <1>5, <1>8
<1>11. \A i, j \in DOMAIN Kept(s, S) : i # j => Key(Kept(s, S)[i]) # Key(Kept(s, S)[j])
  BY <1>5, <1>8, <1>9
<1>12. ASSUME NEW i \in DOMAIN s
       PROVE  \E j \in DOMAIN Kept(s, S) : Key(Kept(s, S)[j]) = Key(s[i])
  <2>1. PICK f \in S : Key(s[f]) = Key(s[i])
    BY <1>2
  <2>2. PlaceIn(S, f) \in 1 .. Cardinality(S) /\ at[PlaceIn(S, f)] = f
    BY <1>5, <1>6
  <2>3. Kept(s, S)[PlaceIn(S, f)] = s[f]
    BY <1>5, <2>2
  <2> QED
    BY <1>8, <2>1, <2>2, <2>3
<1> QED
  BY <1>3, <1>7, <1>10, <1>11, <1>12

(* A candidate is collected from a source that is not past its limit.      *)
LEMMA CollectKeepsType ==
  ASSUME TypeInv, NEW c \in Candidate, phase = c.source, ~Full(c.source), left > 0,
         left' = left - 1, new' \in BOOLEAN, found' = Append(found, c), Append_complete(c),
         UNCHANGED <<phase, option, page, query, todo, fresh, xlsx, verdict, nruns>>
  PROVE  TypeInv'
<1> USE DEF TypeInv
<1>1. found \in Seq(Candidate) /\ found' \in Seq(Candidate) /\ Len(found') = Len(found) + 1
  BY DEF TypeOK
<1>2. ASSUME NEW source \in {"github", "serper"}
      PROVE  Cardinality(From(source, found')) <= Limit
  <2>1. Cardinality(From(source, found')) =
          Cardinality(From(source, found)) + IF c.source = source THEN 1 ELSE 0
    BY <1>1, FromAppend
  <2>2. Cardinality(From(source, found)) \in Nat /\ Cardinality(From(source, found)) <= Limit
    BY <1>1, FromIsFinite
  <2>3. c.source = source => ~(Cardinality(From(source, found)) >= Limit)
    BY DEF Full, From
  <2> QED
    BY <2>1, <2>2, <2>3, BoundAssumption DEF BoundAssumption
<1>3. Len(found') <= 2 * Limit
  BY <1>1, <1>2, LimitsBoundLength
<1>4. /\ csv' \in Seq(Candidate) /\ fresh' \in 0 .. Len(csv')
      /\ csv \in Seq(Candidate) /\ Len(csv) \in Nat
  <2>1. csv' = csv \/ csv' = Append(csv, c)
    BY DEF Append_complete
  <2>2. csv \in Seq(Candidate) /\ fresh \in 0 .. Len(csv) /\ fresh' = fresh
    BY DEF TypeOK
  <2> QED
    BY <2>1, <2>2
<1>5. left' \in 0 .. PerPage
  <2>1. left \in 0 .. PerPage
    BY DEF TypeOK
  <2> QED
    BY <2>1, BoundAssumption DEF BoundAssumption
<1>6. phase' \notin {"killed", "done", "verify"} /\ phase' \in {"github", "serper"}
  BY DEF Candidate
<1>7. todo' \in 1 .. Len(IF phase' = "verify" THEN checked' ELSE found') + 1
  BY <1>1, <1>6 DEF TypeOK
<1>8. xlsx' \in Seq(Candidate) /\ checked' \in Seq(Candidate) /\ report' = report
  BY DEF TypeOK, verdict
<1>9. TypeOK'
  BY <1>1, <1>3, <1>4, <1>5, <1>7, <1>8 DEF TypeOK
<1> QED
  BY <1>2, <1>6, <1>9

(* The e-mail of a candidate changes neither the number nor the sources.   *)
LEMMA EnrichKeepsType ==
  ASSUME TypeInv, NEW email \in Email \cup {None}, Enrich(email)
  PROVE  TypeInv'
<1> USE DEF TypeInv
<1>1. /\ found \in Seq(Candidate) /\ todo \in 1 .. Len(found) /\ phase = "enrich"
      /\ todo' = todo + 1 /\ found[todo] \in Candidate
  BY DEF TypeOK, Enrich
<1>2. /\ found' \in Seq(Candidate) /\ Len(found') = Len(found)
      /\ csv' = csv \/ \E c \in Candidate : csv' = Append(csv, c)
      /\ \A i \in DOMAIN found : found'[i].source = found[i].source
  <2>1. CASE found[todo].email # None \/ email = None
    BY <1>1, <2>1 DEF Enrich
  <2>2. CASE found[todo].email = None /\ email # None
    <3> DEFINE d == [found[todo] EXCEPT !.email = email]
    <3>1. d \in Candidate /\ d.source = found[todo].source
      BY <1>1 DEF Candidate
    <3>2. found' = [found EXCEPT ![todo] = d] /\ Append_complete(found'[todo])
      BY <2>2 DEF Enrich
    <3> HIDE DEF d
    <3>3. found' \in Seq(Candidate) /\ Len(found') = Len(found) /\ found'[todo] = d
      BY <1>1, <3>1, <3>2
    <3> QED
      BY <1>1, <3>1, <3>2, <3>3 DEF Append_complete
  <2> QED
    BY <2>1, <2>2
<1>3. ASSUME NEW source \in {"github", "serper"}
      PROVE  Cardinality(From(source, found')) <= Limit
  <2>1. DOMAIN found' = DOMAIN found
    BY <1>1, <1>2
  <2>2. From(source, found') = From(source, found)
    BY <1>2, <2>1 DEF From
  <2> QED
    BY <2>2
<1>4. /\ csv' \in Seq(Candidate) /\ fresh' \in 0 .. Len(csv')
      /\ UNCHANGED <<phase, option, search, xlsx, verdict, nruns>>
  <2>1. UNCHANGED <<phase, option, search, fresh, xlsx, verdict, nruns>>
    BY DEF Enrich
  <2>2. csv \in Seq(Candidate) /\ fresh \in 0 .. Len(csv)
    BY DEF TypeOK
  <2>3. csv' \in Seq(Candidate) /\ fresh' \in 0 .. Len(csv')
    BY <1>2, <2>1, <2>2
  <2> QED
    BY <2>1, <2>3
<1>5. todo' \in 1 .. Len(IF phase' = "verify" THEN checked' ELSE found') + 1
  BY <1>1, <1>2, <1>4
<1>6. TypeOK'
  BY <1>1, <1>2, <1>4, <1>5 DEF TypeOK, search, verdict
<1> QED
  BY <1>1, <1>3, <1>4, <1>6 DEF search

(* The process is gone, or has nothing of this run in memory yet.          *)
LEMMA ExitKeepsType ==
  ASSUME TypeInv, NEW p \in {"killed", "done"}, Exit(p), UNCHANGED <<option, csv, nruns>>,
         xlsx' \in Seq(Candidate), UNCHANGED report
  PROVE  TypeInv'
<1> USE DEF TypeInv
<1>1. /\ phase' = p /\ found' = <<>> /\ todo' = 1 /\ fresh' = Len(csv') /\ checked' = <<>>
      /\ page' = 0 /\ query' = 0 /\ left' = 0 /\ new' = FALSE
  BY DEF Exit
<1>2. ASSUME NEW source \in {"github", "serper"}
      PROVE  Cardinality(From(source, found')) <= Limit
  <2>1. From(source, found') = {}
    BY <1>1 DEF From
  <2> QED
    BY <2>1, FS_EmptySet, BoundAssumption DEF BoundAssumption
<1>3. found' \in Seq(Candidate) /\ Len(found') = 0 /\ checked' \in Seq(Candidate)
  BY <1>1
<1>4. fresh' \in 0 .. Len(csv') /\ csv' \in Seq(Candidate)
  <2>1. csv \in Seq(Candidate)
    BY DEF TypeOK
  <2> QED
    BY <1>1, <2>1
<1>5. todo' \in 1 .. Len(IF phase' = "verify" THEN checked' ELSE found') + 1
  BY <1>1, <1>3
<1>6. /\ page' \in 0 .. GithubPages + SerperPages /\ query' \in 0 .. Queries
      /\ left' \in 0 .. PerPage /\ Len(found') <= 2 * Limit
  BY <1>1, <1>3, BoundAssumption DEF BoundAssumption
<1>7. TypeOK'
  BY <1>1, <1>3, <1>4, <1>5, <1>6 DEF TypeOK
<1> QED
  BY <1>1, <1>2, <1>7

(* The verification of a list of candidates starts with the first.         *)
LEMMA VerifyKeepsType ==
  ASSUME TypeInv, NEW s \in Seq(Candidate), VerifyStarts(s), left = 0, todo' = 1,
         xlsx' \in Seq(Candidate), UNCHANGED <<option, search, found, csv, fresh, nruns>>
  PROVE  TypeInv'
<1> USE DEF TypeInv
<1>1. phase' = "verify" /\ checked' = s /\ report' = None
  BY DEF VerifyStarts
<1>2. TypeOK'
  BY <1>1 DEF TypeOK, search
<1> QED
  BY <1>1, <1>2 DEF search

(* What is downloaded and judged is typed.                                 *)
LEMMA VerdictType ==
  ASSUME NEW got \in Files \cup {None}, Verify(got)
  PROVE  report' \in [status : {"failed", "not_a_resume", "insufficient_text", "usable"},
                      got : Content \cup {None}]
<1>1. got \in Content \cup {None}
  BY FilesAreContent
<1>2. Status(got) \in {"not_a_resume", "insufficient_text", "usable"}
  BY DEF Status
<1> HIDE DEF Status
<1> QED
  BY <1>1, <1>2 DEF Verify

(* No source gives more than the limit, so a run finds at most twice as    *)
(* many; the next candidate to enrich or to verify is one of its list or   *)
(* the end of it; and a reported verdict is about content of a link.       *)
THEOREM CollectorTypeCorrect == Spec => []TypeOK
<1>1. Init => TypeInv
  <2> SUFFICES ASSUME Init PROVE TypeInv
    OBVIOUS
  <2>1. ASSUME NEW source PROVE Cardinality(From(source, found)) = 0
    <3>1. From(source, found) = {}
      BY DEF From, Init
    <3> QED
      BY <3>1, FS_EmptySet
  <2>2. TypeOK
    <3>1. Len(found) = 0 /\ Len(csv) = 0 /\ found \in Seq(Candidate) /\ csv \in Seq(Candidate)
      BY DEF Init
    <3>2. /\ page \in 0 .. GithubPages + SerperPages /\ query \in 0 .. Queries
          /\ left \in 0 .. PerPage /\ Len(found) <= 2 * Limit /\ nruns \in 0 .. MaxRuns
      BY <3>1, BoundAssumption DEF Init, BoundAssumption
    <3>3. todo \in 1 .. Len(IF phase = "verify" THEN checked ELSE found) + 1
      BY <3>1 DEF Init
    <3>4. fresh \in 0 .. Len(csv)
      BY <3>1 DEF Init
    <3> QED
      BY <3>1, <3>2, <3>3, <3>4 DEF Init, TypeOK
  <2> QED
    BY <2>1, <2>2, BoundAssumption DEF Init, TypeInv, BoundAssumption
<1>2. TypeInv /\ [Next]_vars => TypeInv'
  <2> SUFFICES ASSUME TypeInv, [Next]_vars PROVE TypeInv'
    OBVIOUS
  <2>1. CASE UNCHANGED vars
    BY <2>1 DEF vars, search, outputs, verdict, TypeInv, TypeOK
  <2>2. ASSUME NEW o \in Option, Start(o) PROVE TypeInv'
    <3>1. todo = 1 /\ found \in Seq(Candidate)
      BY <2>2 DEF Start, TypeInv, TypeOK
    <3> QED
      BY <2>2, <3>1, BoundAssumption
      DEF Start, search, outputs, verdict, TypeInv, TypeOK, BoundAssumption
  <2>3. CASE VerifyOutput
    BY <2>3, VerifyKeepsType DEF VerifyOutput, outputs, TypeInv, TypeOK
  <2>4. CASE Killed
    BY <2>4, ExitKeepsType DEF Killed, TypeInv, TypeOK
  <2>5. CASE Step
    <3>0. ASSUME UNCHANGED <<option, found, todo, outputs, verdict, nruns>>,
                 phase \notin {"killed", "done", "verify"}, phase' \in {"github", "serper", "enrich"},
                 page' \in 0 .. GithubPages + SerperPages, query' \in 0 .. Queries,
                 left' \in 0 .. PerPage, new' \in BOOLEAN, phase' = "enrich" => left' = 0
          PROVE  TypeInv'
      <4>1. todo' \in 1 .. Len(IF phase' = "verify" THEN checked' ELSE found') + 1
        BY <3>0 DEF TypeInv, TypeOK
      <4> QED
        BY <3>0, <4>1 DEF outputs, verdict, TypeInv, TypeOK
    <3>t. /\ phase \in {"killed", "github", "serper", "enrich", "verify", "done"}
          /\ page \in 0 .. GithubPages + SerperPages /\ query \in 0 .. Queries
          /\ left \in 0 .. PerPage /\ new \in BOOLEAN
          /\ phase \notin {"github", "serper"} => left = 0
      BY DEF TypeInv, TypeOK
    <3>1. CASE GithubSearch
      <4>1. page + 1 \in 0 .. GithubPages + SerperPages /\ left' \in 0 .. PerPage
        BY <3>1, <3>t, BoundAssumption DEF GithubSearch, BoundAssumption
      <4> QED
        BY <3>0, <3>1, <3>t, <4>1 DEF GithubSearch
    <3>2. CASE Skip
      <4>1. left' \in 0 .. PerPage
        BY <3>2, <3>t, BoundAssumption DEF Skip, BoundAssumption
      <4> QED
        BY <3>0, <3>2, <3>t, <4>1 DEF Skip
    <3>3. CASE GithubEnds \/ NextQuery \/ SerperEnds
      <4>1. page' \in {page, 0} /\ query' \in {query, query + 1, 0} /\ left' = left /\ left = 0
        BY <3>3 DEF GithubEnds, NextQuery, SerperEnds
      <4>2. query' = query + 1 => query < Queries
        BY <3>3, <3>t, BoundAssumption DEF GithubEnds, NextQuery, SerperEnds, BoundAssumption
      <4>3. /\ page' \in 0 .. GithubPages + SerperPages /\ query' \in 0 .. Queries
            /\ left' \in 0 .. PerPage
        BY <3>t, <4>1, <4>2, BoundAssumption DEF BoundAssumption
      <4>4. new' \in BOOLEAN
        BY <3>3, <3>t DEF GithubEnds, NextQuery, SerperEnds
      <4> QED
        BY <3>0, <3>3, <4>1, <4>3, <4>4 DEF GithubEnds, NextQuery, SerperEnds
    <3>4. CASE SerperPage
      <4>1. page + 1 \in 0 .. GithubPages + SerperPages /\ left' \in 0 .. PerPage
        BY <3>4, <3>t, BoundAssumption DEF SerperPage, BoundAssumption
      <4> QED
        BY <3>0, <3>4, <3>t, <4>1 DEF SerperPage
    <3>5. ASSUME NEW c \in Findable, GithubProfile(c) \/ SerperItem(c) PROVE TypeInv'
      <4>1. c \in Candidate
        BY SourceAssumption DEF FindableAssumption
      <4>2. new' \in BOOLEAN
        BY <3>5 DEF GithubProfile, SerperItem, TypeInv, TypeOK
      <4> QED
        BY <3>5, <4>1, <4>2, CollectKeepsType DEF GithubProfile, SerperItem
    <3>6. ASSUME NEW email \in Email \cup {None}, Enrich(email) PROVE TypeInv'
      BY <3>6, EnrichKeepsType
    <3>7. CASE Finish
      <4>1. found \in Seq(Candidate) /\ Dedup(found) \in Seq(Candidate)
        BY DedupByKey DEF TypeInv, TypeOK
      <4>2. xlsx' \in Seq(Candidate)
        BY <3>7, <4>1 DEF Finish, Export_xlsx, TypeInv, TypeOK
      <4>3. CASE option.verify
        <5>1. /\ VerifyStarts(Dedup(found)) /\ todo' = 1
              /\ UNCHANGED <<option, search, found, csv, fresh, nruns>>
          BY <3>7, <4>3 DEF Finish
        <5>2. left = 0
          BY <3>7 DEF Finish, TypeInv
        <5> QED
          BY <4>1, <4>2, <5>1, <5>2, VerifyKeepsType
      <4>4. CASE ~option.verify
        BY <3>7, <4>1, <4>2, <4>4, ExitKeepsType DEF Finish
      <4> QED
        BY <4>3, <4>4
    <3>8. ASSUME NEW got \in Files \cup {None}, Verify(got) PROVE TypeInv'
      <4>1. report' \in [status : {"failed", "not_a_resume", "insufficient_text", "usable"},
                         got : Content \cup {None}]
        BY <3>8, VerdictType
      <4>2. /\ phase = "verify" /\ todo <= Len(checked) /\ todo' = todo + 1
            /\ UNCHANGED <<phase, option, search, found, outputs, checked, nruns>>
        BY <3>8 DEF Verify
      <4> QED
        BY <4>1, <4>2 DEF search, outputs, TypeInv, TypeOK
    <3>9. CASE VerifyEnds
      BY <3>9, ExitKeepsType DEF VerifyEnds, TypeInv, TypeOK
    <3> QED
      BY <2>5, <3>1, <3>2, <3>3, <3>4, <3>5, <3>6, <3>7, <3>8, <3>9 DEF Step
  <2> QED
    BY <2>1, <2>2, <2>3, <2>4, <2>5 DEF Next
<1> QED
  BY <1>1, <1>2, PTL DEF Spec, TypeInv

-----------------------------------------------------------------------------
(* What the key of dedup presumes of a link: none has the form of an       *)
(* e-mail.  (A profile whose website is "http" followed by an e-mail       *)
(* address is kept as it is, the one exception.)                           *)
LinksAreNotEmails == Email \cap Url = {}

(* A row of the sheet was found, with its e-mail.                          *)
LEMMA SheetRowWasFound ==
  ASSUME SheetInv, NEW c \in ToSet(ThisRun)
  PROVE  c \in Candidate /\ c.email # None /\ \E i \in DOMAIN found : found[i] = c
<1>1. ThisRun \in Seq(Candidate) /\ found \in Seq(Candidate)
  BY DEF SheetInv, ThisRun
<1>2. PICK k \in DOMAIN ThisRun : ThisRun[k] = c
  BY <1>1 DEF ToSet
<1>3. c \in Candidate
  BY <1>1, <1>2
<1>4. Occurrences(c, ThisRun) # 0
  <2> DEFINE I == {i \in DOMAIN ThisRun : ThisRun[i] = c}
  <2>1. IsFiniteSet(I) /\ k \in I
    BY <1>1, <1>2, OccurrencesType
  <2> HIDE DEF I
  <2>2. Cardinality(I) # 0
    BY <2>1, FS_EmptySet
  <2> QED
    BY <2>2 DEF Occurrences, I
<1>5. c.email # None /\ Occurrences(c, found) # 0
  BY <1>3, <1>4 DEF SheetInv
<1>6. ASSUME ~ \E i \in DOMAIN found : found[i] = c PROVE FALSE
  <2>1. {i \in DOMAIN found : found[i] = c} = {}
    BY <1>6
  <2> QED
    BY <1>5, <2>1, FS_EmptySet DEF Occurrences
<1> QED
  BY <1>3, <1>5, <1>6

(* dedup keeps a row for every row of the sheet, and no key twice.         *)
LEMMA ExportHasTheSheet ==
  ASSUME LinksAreNotEmails, SheetInv, xlsx' = Dedup(found)
  PROVE  /\ \A i, j \in DOMAIN xlsx' :
              i # j => <<xlsx'[i].name, xlsx'[i].email, xlsx'[i].url>> #
                       <<xlsx'[j].name, xlsx'[j].email, xlsx'[j].url>>
                    /\ (xlsx'[i].email # None =>
                         <<xlsx'[i].name, xlsx'[i].email>> # <<xlsx'[j].name, xlsx'[j].email>>)
         /\ \A c \in ToSet(ThisRun) :
              \E d \in ToSet(xlsx') : d.name = c.name /\ d.email = c.email
<1> DEFINE out == Dedup(found)
<1>1. found \in Seq(Candidate)
  BY DEF SheetInv
<1>2. /\ out \in Seq(Candidate)
      /\ \A i, j \in DOMAIN out : i # j => Key(out[i]) # Key(out[j])
      /\ \A i \in DOMAIN found : \E j \in DOMAIN out : Key(out[j]) = Key(found[i])
  BY <1>1, DedupByKey
<1> HIDE DEF out
<1>3. xlsx' = out
  BY DEF out
<1>4. ASSUME NEW i \in DOMAIN out, NEW j \in DOMAIN out, i # j
      PROVE  /\ <<out[i].name, out[i].email, out[i].url>> # <<out[j].name, out[j].email, out[j].url>>
             /\ out[i].email # None => <<out[i].name, out[i].email>> # <<out[j].name, out[j].email>>
  BY <1>2, <1>4 DEF Key
<1>5. ASSUME NEW c \in ToSet(ThisRun)
      PROVE  \E d \in ToSet(out) : d.name = c.name /\ d.email = c.email
  <2>1. c \in Candidate /\ c.email # None /\ \E i \in DOMAIN found : found[i] = c
    BY SheetRowWasFound
  <2>2. PICK i \in DOMAIN found : found[i] = c
    BY <2>1
  <2>3. PICK j \in DOMAIN out : Key(out[j]) = Key(c)
    BY <1>2, <2>2
  <2>4. out[j] \in Candidate /\ out[j] \in ToSet(out)
    BY <1>2 DEF ToSet
  <2>5. out[j].name = c.name /\ c.email = IF out[j].email # None THEN out[j].email ELSE out[j].url
    BY <2>1, <2>3 DEF Key
  <2>6. c.email \in Email /\ out[j].url \in Url
    BY <2>1, <2>4 DEF Candidate
  <2>7. out[j].email = c.email
    BY <2>5, <2>6 DEF LinksAreNotEmails
  <2> QED
    BY <2>4, <2>5, <2>7
<1> QED
  BY <1>3, <1>4, <1>5

(* The Excel file a run exports has every row that the run wrote to the    *)
(* sheet, and no two rows with one key, although an e-mail may arrive      *)
(* after the candidate and make two keys one.                              *)
THEOREM ExportIsTheSheet ==
  ASSUME LinksAreNotEmails
  PROVE  Spec => ExportMatchesSheet
<1>1. SheetInv /\ [Next]_vars =>
        [phase = "enrich" /\ phase' \in {"verify", "done"} /\ option.openpyxl =>
           /\ \A i, j \in DOMAIN xlsx' :
                i # j => <<xlsx'[i].name, xlsx'[i].email, xlsx'[i].url>> #
                         <<xlsx'[j].name, xlsx'[j].email, xlsx'[j].url>>
                      /\ (xlsx'[i].email # None =>
                           <<xlsx'[i].name, xlsx'[i].email>> # <<xlsx'[j].name, xlsx'[j].email>>)
           /\ \A c \in ToSet(ThisRun) :
                \E d \in ToSet(xlsx') : d.name = c.name /\ d.email = c.email]_vars
  <2> SUFFICES ASSUME SheetInv, Next, phase = "enrich", phase' \in {"verify", "done"},
                      option.openpyxl
               PROVE  xlsx' = Dedup(found)
    BY ExportHasTheSheet
  <2>1. ASSUME NEW c, NEW email, NEW got, NEW o
        PROVE ~ (GithubProfile(c) \/ SerperItem(c) \/ Enrich(email) \/ Verify(got) \/ Start(o))
    BY DEF GithubProfile, SerperItem, Enrich, Verify, Start
  <2>2. ~ (GithubSearch \/ GithubEnds \/ SerperPage \/ NextQuery \/ SerperEnds
           \/ Skip \/ VerifyEnds \/ VerifyOutput \/ Killed)
    BY DEF GithubSearch, Skip, GithubEnds, SerperPage, NextQuery, SerperEnds, VerifyEnds,
           VerifyOutput, Killed, Exit
  <2>3. Finish
    BY <2>1, <2>2 DEF Next, Step
  <2> QED
    BY <2>3 DEF Finish, Export_xlsx
<1> QED
  BY <1>1, SheetInvariant, PTL DEF Spec, ExportMatchesSheet
=============================================================================
