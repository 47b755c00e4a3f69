-------------------------- MODULE UploadPageProofs --------------------------
(* What holds of UploadPage for any jobs, sheets, events and polls. *)
EXTENDS UploadPage, SubsequencesProofs

(* A sheet that still waits has not been queued, unless an answer was      *)
(* lost; it may have been saved.                                           *)
SentInv == ~lost => sent \in 0 .. 1 /\ (pending # None => sent = 0)

(* However clicks queue up behind each other and polls interleave, and     *)
(* however often the API refused or only saved the rows (a 503), they are  *)
(* queued and charged at most once per preview, as long as no answer of    *)
(* the API is lost: the confirmation that queues them takes the sheet away.*)
THEOREM SheetIsChargedOnce == Spec => []ChargedOnce
<1>1. Init => SentInv
  BY DEF Init, SentInv
<1>2. SentInv /\ [Next]_vars => SentInv'
  <2> SUFFICES ASSUME SentInv, [Next]_vars PROVE SentInv'
    OBVIOUS
  <2> USE DEF SentInv
  <2>1. CASE UNCHANGED vars
    BY <2>1 DEF vars, page, ghost
  <2>2. ASSUME NEW e \in Event, Acts(e) PROVE SentInv'
    BY <2>2 DEF Acts, page, ghost
  <2>3. CASE Handler
    <3>1. CASE SetSelectedJobId \/ InitFromQuery
      BY <3>1 DEF SetSelectedJobId, InitFromQuery, ghost
    <3>2. CASE SetMappingField
      BY <3>2 DEF SetMappingField, ghost
    <3>3. CASE CancelMapping
      BY <3>3 DEF CancelMapping, ghost
    <3>4. CASE UploadAnother \/ ConfirmRefused
      BY <3>4 DEF UploadAnother, ConfirmRefused, page, ghost
    <3>5. ASSUME NEW ok \in BOOLEAN, HandleUpload(ok) PROVE SentInv'
      <4>1. CASE selected = None
        BY <3>5, <4>1 DEF HandleUpload, page
      <4>2. CASE selected # None
        BY <3>5, <4>2 DEF HandleUpload
      <4> QED
        BY <4>1, <4>2
    <3>6. ASSUME NEW filled, ConfirmFails(filled) PROVE SentInv'
      BY <3>6 DEF ConfirmFails, Ingest, Queued, page, ghost
    <3>7. ASSUME NEW filled, NEW p \in Poll, ConfirmUpload(filled, p) PROVE SentInv'
      BY <3>7 DEF ConfirmUpload, Ingest, Queued
    <3> QED
      BY <2>3, <3>1, <3>2, <3>3, <3>4, <3>5, <3>6, <3>7 DEF Handler
  <2>4. ASSUME NEW p \in Poll, PollStep(p) PROVE SentInv'
    BY <2>4 DEF PollStep, PollBegins, PollFails, PollWakes, PollWrites, page, ghost
  <2> QED
    BY <2>1, <2>2, <2>3, <2>4 DEF Next
<1>3. SentInv => ChargedOnce
  BY DEF SentInv, ChargedOnce
<1> QED
  BY <1>1, <1>2, <1>3, PTL DEF Spec

-----------------------------------------------------------------------------
Waits(type) == \E i \in DOMAIN queue : queue[i].type = type

(* Nobody clicked on a mapping that an upload ahead in the queue would     *)
(* replace: an upload is only offered while no mapping is shown, one at a  *)
(* time, and a change or a confirmation of it only while one is.           *)
QueueInv ==
  /\ queue \in Seq(Event)
  /\ \A i, j \in DOMAIN queue :
       queue[i].type = "upload" =>
         /\ i < j => queue[j].type \notin {"confirm", "map"}
         /\ queue[j].type = "upload" => i = j

(* A mapping that is shown, or still waits to be confirmed, is that of the *)
(* pending sheet: after a preview that failed it is not.                   *)
SheetInv ==
  /\ shown => pending # None /\ columns = pending /\ ~Waits("upload")
  /\ pending # None /\ columns # pending => ~Waits("confirm")

SameSheet == ingested # None => ingested.shown = ingested.sheet

(* What is left of the queue when its head is handled.                     *)
LEMMA HandlingKeepsOrder ==
  ASSUME QueueInv, NEW type, Handles(type)
  PROVE  /\ QueueInv'
         /\ Head(queue) \in Event /\ Head(queue).type = type
         /\ Waits(type)
         /\ \A u : Waits(u)' => Waits(u)
         /\ Head(queue) \in ToSet(queue) /\ ToSet(queue)' \subseteq ToSet(queue)
         /\ type = "upload" => ~Waits("upload")' /\ ~Waits("confirm")' /\ ~Waits("map")'
<1>1. /\ queue \in Seq(Event) /\ queue # <<>> /\ queue' = Tail(queue)
      /\ Head(queue) \in Event /\ Head(queue) = queue[1] /\ 1 \in DOMAIN queue
      /\ Head(queue).type = type
  BY DEF QueueInv, Handles
<1>2. /\ queue' \in Seq(Event)
      /\ \A i \in DOMAIN queue' : /\ i \in Nat \ {0} /\ i + 1 \in DOMAIN queue
                                  /\ queue'[i] = queue[i + 1]
  BY <1>1
<1>3. QueueInv'
  BY <1>2 DEF QueueInv
<1>4. \A u : Waits(u)' => Waits(u)
  BY <1>2 DEF Waits
<1>5. Waits(type)
  BY <1>1 DEF Waits
<1>6. ASSUME type = "upload", NEW i \in DOMAIN queue'
      PROVE  queue'[i].type \notin {"upload", "confirm", "map"}
  <2>1. i + 1 \in DOMAIN queue /\ 1 < i + 1 /\ queue'[i] = queue[i + 1]
    BY <1>2
  <2>2. queue[1].type = "upload"
    BY <1>1, <1>6
  <2> QED
    BY <1>1, <2>1, <2>2 DEF QueueInv
<1>7. Head(queue) \in ToSet(queue) /\ ToSet(queue)' \subseteq ToSet(queue)
  <2>1. ToSet(queue)' = {queue'[i] : i \in DOMAIN queue'}
    BY DEF ToSet
  <2> QED
    BY <1>1, <1>2, <2>1 DEF ToSet
<1> QED
  BY <1>1, <1>3, <1>4, <1>5, <1>6, <1>7 DEF Waits

(* A click joins the end.                                                  *)
LEMMA ClickingKeepsOrder ==
  ASSUME QueueInv, NEW e \in Event, queue' = Append(queue, e),
         e.type = "upload" => ~Waits("upload"),
         e.type \in {"confirm", "map"} => ~Waits("upload")
  PROVE  /\ QueueInv'
         /\ ToSet(queue)' \subseteq ToSet(queue) \cup {e}
         /\ \A u : Waits(u)' => Waits(u) \/ u = e.type
<1>1. queue \in Seq(Event) /\ queue' \in Seq(Event)
  BY DEF QueueInv
<1>2. \A i \in DOMAIN queue' : /\ i \in Nat
                              /\ \/ i \in DOMAIN queue /\ queue'[i] = queue[i]
                                 \/ i = Len(queue) + 1 /\ queue'[i] = e
  BY <1>1
<1>3. \A i \in DOMAIN queue : i <= Len(queue) /\ i \in Nat
  BY <1>1
<1>4. Len(queue) \in Nat
  BY <1>1
<1>5. QueueInv'
  BY <1>1, <1>2, <1>3, <1>4 DEF QueueInv, Waits
<1>6. \A u : Waits(u)' => Waits(u) \/ u = e.type
  BY <1>2 DEF Waits
<1>7. ToSet(queue)' \subseteq ToSet(queue) \cup {e}
  <2>1. ToSet(queue)' = {queue'[i] : i \in DOMAIN queue'}
    BY DEF ToSet
  <2> QED
    BY <1>2, <2>1 DEF ToSet
<1> QED
  BY <1>5, <1>6, <1>7

MixInv == QueueInv /\ SheetInv /\ SameSheet

LEMMA MixKept == MixInv /\ [Next]_vars => MixInv'
<1> DEFINE Inv == QueueInv /\ SheetInv /\ SameSheet
<1> SUFFICES ASSUME Inv, [Next]_vars PROVE Inv'
  BY DEF MixInv
<1>1. CASE UNCHANGED vars
  BY <1>1 DEF vars, page, ghost, QueueInv, SheetInv, SameSheet, Waits
<1>2. ASSUME NEW e \in Event, Acts(e) PROVE Inv'
  <2>1. /\ queue' = Append(queue, e) /\ UNCHANGED <<page, ghost>>
        /\ e.type = "upload" => ~shown /\ ~Waits("upload")
        /\ e.type \in {"confirm", "map"} => shown
    BY <1>2 DEF Acts, Visible, Waits, ToSet
  <2>2. QueueInv' /\ \A u : Waits(u)' => Waits(u) \/ u = e.type
    BY <2>1, ClickingKeepsOrder DEF SheetInv
  <2>3. SheetInv'
    BY <2>1, <2>2 DEF SheetInv, page
  <2> QED
    BY <2>1, <2>2, <2>3 DEF SameSheet, ghost
<1>3. CASE Handler
  <2>1. ASSUME NEW t, Handles(t), UNCHANGED <<pending, columns, shown, ingested>> PROVE Inv'
    <3>1. QueueInv' /\ \A u : Waits(u)' => Waits(u)
      BY <2>1, HandlingKeepsOrder
    <3> QED
      BY <2>1, <3>1 DEF SheetInv, SameSheet
  <2>2. CASE SetSelectedJobId \/ InitFromQuery \/ SetMappingField
    BY <2>1, <2>2 DEF SetSelectedJobId, InitFromQuery, SetMappingField, ghost
  <2>3. CASE UploadAnother \/ ConfirmRefused
    BY <2>1, <2>3 DEF UploadAnother, ConfirmRefused, page, ghost
  <2>4. CASE CancelMapping
    BY <2>4, HandlingKeepsOrder DEF CancelMapping, SheetInv, SameSheet, ghost
  <2>5. ASSUME NEW ok \in BOOLEAN, HandleUpload(ok) PROVE Inv'
    <3>1. CASE selected = None
      BY <2>1, <2>5, <3>1 DEF HandleUpload, page
    <3>2. CASE selected # None
      <4>1. Handles("upload") /\ UNCHANGED ingested
        BY <2>5 DEF HandleUpload
      <4>2. /\ QueueInv' /\ ~Waits("upload")' /\ ~Waits("confirm")'
            /\ Head(queue) \in Event /\ Head(queue).type = "upload"
        BY <4>1, HandlingKeepsOrder
      <4>3. Head(queue).sheet # None
        BY <4>2, NoneAssumption DEF Event
      <4>4. shown' => pending' # None /\ columns' = pending'
        BY <2>5, <3>2, <4>3 DEF HandleUpload
      <4> QED
        BY <4>1, <4>2, <4>4 DEF SheetInv, SameSheet
    <3> QED
      BY <3>1, <3>2
  <2>6. ASSUME Handles("confirm"), pending # None, UNCHANGED columns,
               UNCHANGED <<pending, shown>> \/ (pending' = None /\ shown' = FALSE),
               UNCHANGED ingested \/ \E filled : Ingest(filled)
        PROVE  Inv'
    <3>1. QueueInv' /\ Waits("confirm") /\ \A u : Waits(u)' => Waits(u)
      BY <2>6, HandlingKeepsOrder
    <3>2. columns = pending
      BY <2>6, <3>1 DEF SheetInv
    <3>3. SameSheet'
      BY <2>6, <3>2 DEF Ingest, SameSheet
    <3>4. SheetInv'
      BY <2>6, <3>1, <3>2 DEF SheetInv
    <3> QED
      BY <3>1, <3>3, <3>4
  <2>7. ASSUME NEW filled, ConfirmFails(filled) PROVE Inv'
    BY <2>6, <2>7 DEF ConfirmFails, Queued, page, ghost
  <2>8. ASSUME NEW filled, NEW p \in Poll, ConfirmUpload(filled, p) PROVE Inv'
    BY <2>6, <2>8 DEF ConfirmUpload, Queued
  <2>9. CASE \E ok \in BOOLEAN : HandleUpload(ok)
    BY <2>5, <2>9
  <2>10. CASE \E filled \in SUBSET DOMAIN pending :
               ConfirmFails(filled) \/ \E p \in Poll : ConfirmUpload(filled, p)
    BY <2>7, <2>8, <2>10
  <2> HIDE DEF Inv
  <2> QED
    BY <1>3, <2>2, <2>3, <2>4, <2>9, <2>10 DEF Handler
<1>4. ASSUME NEW p \in Poll, PollStep(p) PROVE Inv'
  <2>1. UNCHANGED <<page, queue, ghost>>
    BY <1>4 DEF PollStep, PollBegins, PollFails, PollWakes, PollWrites
  <2>2. QueueInv' /\ \A u : Waits(u)' <=> Waits(u)
    BY <2>1 DEF QueueInv, Waits
  <2>3. SheetInv' /\ SameSheet'
    BY <2>1, <2>2 DEF page, ghost, SheetInv, SameSheet
  <2> QED
    BY <2>2, <2>3
<1> QED
  BY <1>1, <1>2, <1>3, <1>4 DEF Next

(* No sheet is ever ingested with the mapping the user saw of another one, *)
(* however late clicks are handled and whichever previews fail: the first  *)
(* part of IngestedAsShown.                                                *)
THEOREM SheetsNeverMix == Spec => []SameSheet
<1>1. Init => MixInv
  BY DEF Init, MixInv, QueueInv, SheetInv, SameSheet, Waits
<1>2. MixInv => SameSheet
  BY DEF MixInv
<1> QED
  BY <1>1, <1>2, MixKept, PTL DEF Spec

-----------------------------------------------------------------------------
LEMMA Fields ==
  /\ DOMAIN CANONICAL_FIELDS = 1 .. 5
  /\ \A f \in Field : \E i \in 1 .. 5 : CANONICAL_FIELDS[i] = f
  /\ \A i \in 1 .. 5 : CANONICAL_FIELDS[i] \in Field
BY DEF Field, CANONICAL_FIELDS, ToSet

(* The proposal of the preview                                             *)

Exactly(sheet) == [f \in Field |-> FirstHeader(sheet, LAMBDA h : Exact[h] = f)]
Proposal(m, sheet, f) == IF m[f] # None THEN m ELSE [m EXCEPT ![f] = Hint(m, sheet, f)]

(* What the fold over the fields makes of each set of them.                *)
Folded(sheet, iter) ==
  [s \in SUBSET (1 .. 5) |->
     IF s = {} THEN Exactly(sheet)
     ELSE Proposal(iter[s \ {Max(s)}], sheet, CANONICAL_FIELDS[Max(s)])]

LEMMA DetectFolds ==
  ASSUME NEW sheet
  PROVE Detect_column_mapping(sheet) = (CHOOSE iter : iter = Folded(sheet, iter))[1 .. 5]
<1>1. DOMAIN CANONICAL_FIELDS = 1 .. 5
  BY DEF CANONICAL_FIELDS
<1> QED
  BY <1>1, Zenon DEF Detect_column_mapping, FoldLeft, MapThenFoldSet, Exactly, Proposal, Folded

LEMMA MaxOf ==
  ASSUME NEW k \in Nat, NEW s \in SUBSET (1 .. k), k \in s
  PROVE  Max(s) = k
<1>1. \A y \in s : y \in Nat /\ k >= y
  OBVIOUS
<1>2. \A x \in s : (\A y \in s : x >= y) => x = k
  BY <1>1
<1> QED
  BY <1>1, <1>2 DEF Max

LEMMA FoldExists ==
  ASSUME NEW sheet
  PROVE  \E iter : iter = Folded(sheet, iter)
<1> DEFINE S == SUBSET (1 .. 5)
           P(m, k) == Proposal(m, sheet, CANONICAL_FIELDS[k])
           w1 == [s \in S |-> IF 1 \in s THEN P(Exactly(sheet), 1) ELSE Exactly(sheet)]
           w2 == [s \in S |-> IF 2 \in s THEN P(w1[s], 2) ELSE w1[s]]
           w3 == [s \in S |-> IF 3 \in s THEN P(w2[s], 3) ELSE w2[s]]
           w4 == [s \in S |-> IF 4 \in s THEN P(w3[s], 4) ELSE w3[s]]
           w5 == [s \in S |-> IF 5 \in s THEN P(w4[s], 5) ELSE w4[s]]
<1>1. \A s \in S : /\ w1[s] = IF 1 \in s THEN P(Exactly(sheet), 1) ELSE Exactly(sheet)
                   /\ w2[s] = IF 2 \in s THEN P(w1[s], 2) ELSE w1[s]
                   /\ w3[s] = IF 3 \in s THEN P(w2[s], 3) ELSE w2[s]
                   /\ w4[s] = IF 4 \in s THEN P(w3[s], 4) ELSE w3[s]
                   /\ w5[s] = IF 5 \in s THEN P(w4[s], 5) ELSE w4[s]
  OBVIOUS
<1>2. w5 = [s \in S |-> w5[s]]
  OBVIOUS
<1>3. \A s \in S : \A k \in s : s \ {k} \in S
  OBVIOUS
<1> HIDE DEF w1, w2, w3, w4, w5
<1>4. \A s \in S : \A k \in s : k \in {2, 3, 4, 5} => w1[s \ {k}] = w1[s]
  BY <1>1, <1>3
<1>5. \A s \in S : \A k \in s : k \in {3, 4, 5} => w2[s \ {k}] = w2[s]
  BY <1>1, <1>3, <1>4
<1>6. \A s \in S : \A k \in s : k \in {4, 5} => w3[s \ {k}] = w3[s]
  BY <1>1, <1>3, <1>5
<1>7. \A s \in S : 5 \in s => w4[s \ {5}] = w4[s]
  BY <1>1, <1>3, <1>6
<1>8. ASSUME NEW s \in S
      PROVE  w5[s] = IF s = {} THEN Exactly(sheet)
                     ELSE Proposal(w5[s \ {Max(s)}], sheet, CANONICAL_FIELDS[Max(s)])
  <2> HIDE DEF P
  <2>1. CASE 5 \in s
    <3>1. Max(s) = 5 /\ w5[s] = P(w4[s], 5)
      BY <1>1, <2>1, MaxOf
    <3>2. w5[s \ {5}] = w4[s]
      BY <1>1, <1>3, <1>7, <2>1
    <3> QED
      BY <2>1, <3>1, <3>2 DEF P
  <2>2. CASE 4 \in s /\ 5 \notin s
    <3>0. s \in SUBSET (1 .. 4)
      BY <2>2
    <3>1. Max(s) = 4 /\ w5[s] = P(w3[s], 4)
      BY <1>1, <2>2, <3>0, MaxOf
    <3>2. w5[s \ {4}] = w3[s]
      BY <1>1, <1>3, <1>6, <2>2
    <3> QED
      BY <2>2, <3>1, <3>2 DEF P
  <2>3. CASE 3 \in s /\ 4 \notin s /\ 5 \notin s
    <3>0. s \in SUBSET (1 .. 3)
      BY <2>3
    <3>1. Max(s) = 3 /\ w5[s] = P(w2[s], 3)
      BY <1>1, <2>3, <3>0, MaxOf
    <3>2. w5[s \ {3}] = w2[s]
      BY <1>1, <1>3, <1>5, <2>3
    <3> QED
      BY <2>3, <3>1, <3>2 DEF P
  <2>4. CASE 2 \in s /\ 3 \notin s /\ 4 \notin s /\ 5 \notin s
    <3>0. s \in SUBSET (1 .. 2)
      BY <2>4
    <3>1. Max(s) = 2 /\ w5[s] = P(w1[s], 2)
      BY <1>1, <2>4, <3>0, MaxOf
    <3>2. w5[s \ {2}] = w1[s]
      BY <1>1, <1>3, <1>4, <2>4
    <3> QED
      BY <2>4, <3>1, <3>2 DEF P
  <2>5. CASE 1 \in s /\ 2 \notin s /\ 3 \notin s /\ 4 \notin s /\ 5 \notin s
    <3>0. s = {1}
      <4>1. \A x \in s : x = 1
        BY <2>5
      <4> QED
        BY <2>5, <4>1
    <3>1. Max(s) = 1 /\ w5[s] = P(Exactly(sheet), 1)
      BY <1>1, <2>5, <3>0, MaxOf
    <3>2. w5[s \ {1}] = Exactly(sheet)
      BY <1>1, <1>3, <2>5
    <3> QED
      BY <2>5, <3>1, <3>2 DEF P
  <2>6. CASE s = {}
    BY <1>1, <2>6
  <2> QED
    BY <2>1, <2>2, <2>3, <2>4, <2>5, <2>6
<1>9. w5 = Folded(sheet, w5)
  BY <1>2, <1>8, Zenon DEF Folded
<1> QED
  BY <1>9

(* Field by field, in the order of CANONICAL_FIELDS.                       *)
LEMMA DetectSteps ==
  ASSUME NEW sheet
  PROVE  \E m : /\ m[0] = Exactly(sheet)
                /\ \A k \in 1 .. 5 : m[k] = Proposal(m[k - 1], sheet, CANONICAL_FIELDS[k])
                /\ Detect_column_mapping(sheet) = m[5]
<1> DEFINE I == CHOOSE iter : iter = Folded(sheet, iter)
           m == [k \in 0 .. 5 |-> I[1 .. k]]
<1>1. I = Folded(sheet, I)
  BY FoldExists, Zenon
<1>2. Detect_column_mapping(sheet) = I[1 .. 5]
  BY DetectFolds
<1> HIDE DEF I
<1>3. \A s \in SUBSET (1 .. 5) :
        I[s] = IF s = {} THEN Exactly(sheet)
               ELSE Proposal(I[s \ {Max(s)}], sheet, CANONICAL_FIELDS[Max(s)])
  BY <1>1, Zenon DEF Folded
<1>4. m[0] = Exactly(sheet)
  <2>1. 1 .. 0 = {} /\ 1 .. 0 \in SUBSET (1 .. 5)
    OBVIOUS
  <2> QED
    BY <1>3, <2>1
<1>5. ASSUME NEW k \in 1 .. 5 PROVE m[k] = Proposal(m[k - 1], sheet, CANONICAL_FIELDS[k])
  <2>1. 1 .. k \in SUBSET (1 .. 5) /\ 1 .. k # {} /\ k \in 1 .. k /\ k \in Nat
    OBVIOUS
  <2>2. Max(1 .. k) = k
    BY <2>1, MaxOf
  <2>3. (1 .. k) \ {k} = 1 .. k - 1
    OBVIOUS
  <2>4. m[k] = I[1 .. k] /\ m[k - 1] = I[1 .. k - 1]
    OBVIOUS
  <2> HIDE DEF m
  <2> QED
    BY <1>3, <2>1, <2>2, <2>3, <2>4
<1>6. m[5] = I[1 .. 5]
  OBVIOUS
<1> QED
  BY <1>2, <1>4, <1>5, <1>6

(* The columns of a sheet at some positions have a first.                  *)
LEMMA FirstOf ==
  ASSUME NEW sheet \in Seq(Header), NEW at \in SUBSET DOMAIN sheet, at # {}
  PROVE  (CHOOSE i \in at : \A j \in at : i <= j) \in at
<1>1. at \in SUBSET (1 .. Len(sheet)) /\ Len(sheet) \in Nat
  OBVIOUS
<1>2. \E i \in at : \A j \in at : i <= j
  BY <1>1, FirstPosition
<1> QED
  BY <1>2

LEMMA ExactColumn ==
  ASSUME NEW sheet \in Seq(Header), NEW f \in Field
  PROVE  Exactly(sheet)[f] # None =>
           Exactly(sheet)[f] \in ToSet(sheet) /\ Exact[Exactly(sheet)[f]] = f
<1> DEFINE at == {i \in DOMAIN sheet : Exact[sheet[i]] = f}
           first == CHOOSE i \in at : \A j \in at : i <= j
<1>1. Exactly(sheet)[f] = IF at = {} THEN None ELSE sheet[first]
  BY Zenon DEF Exactly, FirstHeader
<1>2. at # {} => first \in at
  BY FirstOf
<1> HIDE DEF first
<1>3. at # {} => sheet[first] \in ToSet(sheet) /\ Exact[sheet[first]] = f
  BY <1>2 DEF ToSet
<1> QED
  BY <1>1, <1>3

LEMMA HintedColumn ==
  ASSUME NEW sheet \in Seq(Header), NEW f \in Field, NEW m
  PROVE  Hint(m, sheet, f) # None =>
           Hint(m, sheet, f) \in ToSet(sheet) /\ \A g \in Field : m[g] # Hint(m, sheet, f)
<1> DEFINE at == {i \in DOMAIN sheet : f \in Hints[sheet[i]]
                                      /\ \A g \in Field : m[g] # sheet[i]}
           first == CHOOSE i \in at : \A j \in at : i <= j
<1>1. Hint(m, sheet, f) = IF at = {} THEN None ELSE sheet[first]
  BY Zenon DEF Hint, FirstHeader
<1>2. at # {} => first \in at
  BY FirstOf
<1> HIDE DEF first
<1>3. at # {} => sheet[first] \in ToSet(sheet) /\ \A g \in Field : m[g] # sheet[first]
  BY <1>2 DEF ToSet
<1> QED
  BY <1>1, <1>3

(* Columns of the sheet, no one of them for two fields.                    *)
Fits(m, sheet) ==
  /\ m \in [Field -> ToSet(sheet) \cup {None}]
  /\ \A f, g \in Field : f # g /\ m[f] # None => m[f] # m[g]

LEMMA DetectedFits ==
  ASSUME NEW sheet \in Seq(Header)
  PROVE  Fits(Detect_column_mapping(sheet), sheet)
<1>1. PICK m : /\ m[0] = Exactly(sheet)
               /\ \A k \in 1 .. 5 : m[k] = Proposal(m[k - 1], sheet, CANONICAL_FIELDS[k])
               /\ Detect_column_mapping(sheet) = m[5]
  BY DetectSteps
<1>2. Fits(m[0], sheet)
  <2> DEFINE e == Exactly(sheet)
  <2>1. e = [f \in Field |-> e[f]]
    BY DEF Exactly
  <2> HIDE DEF e
  <2>2. \A f \in Field : e[f] # None => e[f] \in ToSet(sheet) /\ Exact[e[f]] = f
    BY ExactColumn DEF e
  <2>3. e \in [Field -> ToSet(sheet) \cup {None}]
    BY <2>1, <2>2
  <2>4. \A f, g \in Field : f # g /\ e[f] # None => e[f] # e[g]
    BY <2>2
  <2> QED
    BY <1>1, <2>3, <2>4 DEF Fits, e
<1>3. ASSUME NEW k \in 1 .. 5, Fits(m[k - 1], sheet) PROVE Fits(m[k], sheet)
  <2> DEFINE b == m[k - 1]
             f == CANONICAL_FIELDS[k]
             h == Hint(b, sheet, f)
  <2>1. f \in Field /\ m[k] = IF b[f] # None THEN b ELSE [b EXCEPT ![f] = h]
    BY <1>1, Fields DEF Proposal
  <2>2. h # None => h \in ToSet(sheet) /\ \A g \in Field : b[g] # h
    BY <2>1, HintedColumn
  <2>3. /\ b \in [Field -> ToSet(sheet) \cup {None}]
        /\ \A x, y \in Field : x # y /\ b[x] # None => b[x] # b[y]
    BY <1>3 DEF Fits
  <2> HIDE DEF b, f, h
  <2>4. CASE b[f] # None
    BY <2>1, <2>3, <2>4 DEF Fits
  <2>5. CASE b[f] = None
    <3>1. m[k] = [b EXCEPT ![f] = h]
      BY <2>1, <2>5
    <3>2. m[k] \in [Field -> ToSet(sheet) \cup {None}]
      BY <2>1, <2>2, <2>3, <3>1
    <3>3. m[k][f] = h /\ \A x \in Field \ {f} : m[k][x] = b[x]
      BY <2>1, <2>3, <3>1
    <3>4. \A x, y \in Field : x # y /\ m[k][x] # None => m[k][x] # m[k][y]
      BY <2>2, <2>3, <3>3
    <3> QED
      BY <3>2, <3>4 DEF Fits
  <2> QED
    BY <2>4, <2>5
<1>4. Fits(m[1], sheet)
  BY <1>2, <1>3
<1>5. Fits(m[2], sheet)
  BY <1>3, <1>4
<1>6. Fits(m[3], sheet)
  BY <1>3, <1>5
<1>7. Fits(m[4], sheet)
  BY <1>3, <1>6
<1>8. Fits(m[5], sheet)
  BY <1>3, <1>7
<1> QED
  BY <1>1, <1>8

(* Where Rekey sends a column: to some field mapped to it, if there is one. *)
LEMMA RekeyIsMapped ==
  ASSUME NEW mapped \in [Field -> Header \cup {None}], NEW h
  PROVE  \/ Rekey(mapped, h) \in Field /\ mapped[Rekey(mapped, h)] = h
         \/ Rekey(mapped, h) = h /\ \A g \in Field : mapped[g] # h
<1> DEFINE of == {i \in DOMAIN CANONICAL_FIELDS : mapped[CANONICAL_FIELDS[i]] = h}
           last == CHOOSE i \in of : \A j \in of : j <= i
<1>1. CASE of = {}
  BY <1>1, Fields DEF Rekey
<1>2. CASE of # {}
  <2>1. of \subseteq 1 .. 5
    BY Fields
  <2> HIDE DEF of
  <2>2. \E i \in of : \A j \in of : j <= i
    <3>1. CASE 5 \in of
      BY <2>1, <3>1
    <3>2. CASE 4 \in of /\ 5 \notin of
      BY <2>1, <3>2
    <3>3. CASE 3 \in of /\ 4 \notin of /\ 5 \notin of
      BY <2>1, <3>3
    <3>4. CASE 2 \in of /\ 3 \notin of /\ 4 \notin of /\ 5 \notin of
      BY <2>1, <3>4
    <3>5. CASE 2 \notin of /\ 3 \notin of /\ 4 \notin of /\ 5 \notin of
      <4>1. \A j \in of : j = 1
        BY <2>1, <3>5
      <4> QED
        BY <1>2, <4>1
    <3> QED
      BY <3>1, <3>2, <3>3, <3>4, <3>5
  <2>3. last \in of
    BY <2>2
  <2> HIDE DEF last
  <2>4. CANONICAL_FIELDS[last] \in Field /\ mapped[CANONICAL_FIELDS[last]] = h
    BY <2>3, Fields DEF of
  <2>5. Rekey(mapped, h) = CANONICAL_FIELDS[last]
    BY <1>2 DEF Rekey, of, last
  <2> QED
    BY <2>4, <2>5
<1> QED
  BY <1>1, <1>2

(* Whatever the sheet, its empty cells and the mapping: a column mapped to *)
(* one field only reaches that field, and nothing else does, unless the    *)
(* sheet has a column of the field's own name that is mapped to none: the  *)
(* last part of IngestedAsShown.                                           *)
THEOREM MappedCellArrives ==
  ASSUME NEW sheet \in Seq(Header), IsInjective(sheet), NEW filled,
         NEW mapped \in [Field -> Header \cup {None}],
         NEW f \in Field, NEW k \in DOMAIN sheet, mapped[f] = sheet[k],
         \A g \in Field \ {f} : mapped[g] # mapped[f],
         \A h \in ToSet(sheet) : h = f => \E g \in Field : mapped[g] = h
  PROVE  Apply_column_mapping(sheet, filled, mapped)[f] = IF k \in filled THEN k ELSE 0
<1> DEFINE from == {j \in DOMAIN sheet : Rekey(mapped, sheet[j]) = f}
<1>1. k \in from
  BY RekeyIsMapped
<1>2. ASSUME NEW j \in from PROVE j = k
  <2>1. sheet[j] \in ToSet(sheet)
    BY DEF ToSet
  <2>2. mapped[f] = sheet[j]
    BY <2>1, RekeyIsMapped
  <2> QED
    BY <2>2 DEF IsInjective
<1>3. from = {k}
  BY <1>1, <1>2
<1>4. k \in Nat
  OBVIOUS
<1> HIDE DEF from
<1>5. LastOf(from) = k
  BY <1>3, <1>4 DEF LastOf
<1>6. Apply_column_mapping(sheet, filled, mapped)[f] =
        LET i == LastOf(from) IN IF i \in filled THEN i ELSE 0
  BY DEF Apply_column_mapping, from
<1> QED
  BY <1>5, <1>6

-----------------------------------------------------------------------------
(* Types                                                                   *)

LEMMA SheetTypes ==
  ASSUME NEW s \in Sheet
  PROVE  /\ s \in Seq(Header) /\ IsInjective(s) /\ s # None
         /\ ToSet(s) \subseteq Header /\ DOMAIN s \subseteq Nat
<1>1. s \in Seq(Header) /\ IsInjective(s) /\ s # None
  BY SheetAssumption, NoneAssumption
<1> QED
  BY <1>1 DEF ToSet

LEMMA EventTypes ==
  ASSUME NEW e \in Event
  PROVE  /\ e.type \in {"select", "link"} => e.job \in Job \cup {None}
         /\ e.type = "upload" => e.sheet \in Sheet
         /\ e.type = "map" => e.field \in Field /\ e.column \in Header
BY DEF Event

(* The proposal for a sheet is a mapping.                                  *)
LEMMA DetectedType ==
  ASSUME NEW s \in Sheet
  PROVE  Detect_column_mapping(s) \in [Field -> Header \cup {None}]
<1>1. Detect_column_mapping(s) \in [Field -> ToSet(s) \cup {None}]
  BY SheetTypes, DetectedFits DEF Fits
<1> QED
  BY <1>1, SheetTypes

Polling == [job : Job \cup {None}, left : 0 .. MaxRounds, asleep : BOOLEAN]
Ingested == [sheet : Sheet, shown : Sheet \cup {None}, filled : SUBSET Nat,
             mapping : [Field -> Header \cup {None}], row : [Field -> Nat]]

LEMMA IngestTyped ==
  ASSUME TypeOK, pending # None, NEW filled \in SUBSET DOMAIN pending, Ingest(filled)
  PROVE  /\ ingested' \in Ingested /\ saved' \in Nat
         /\ ingested'.row = Apply_column_mapping(ingested'.sheet, ingested'.filled, ingested'.mapping)
<1> DEFINE row == Apply_column_mapping(pending, filled, mapping)
<1>1. pending \in Sheet /\ filled \in SUBSET Nat
  BY SheetTypes DEF TypeOK
<1>2. row \in [Field -> Nat]
  <2>1. \A i \in filled : i \in Nat
    BY <1>1
  <2> QED
    BY <2>1 DEF Apply_column_mapping
<1>3. /\ ingested' = [sheet |-> pending, shown |-> columns, filled |-> filled,
                      mapping |-> mapping, row |-> row]
      /\ saved' = saved + 1
  BY DEF Ingest
<1> HIDE DEF row
<1>4. ingested' \in Ingested /\ saved' \in Nat
  BY <1>1, <1>2, <1>3 DEF TypeOK, Ingested
<1>5. ingested'.row = row /\ ingested'.sheet = pending /\ ingested'.filled = filled
      /\ ingested'.mapping = mapping
  BY <1>3
<1> QED
  BY <1>4, <1>5 DEF row

(* A poll that asks or sleeps has rounds left.                             *)
RoundsLeft == \A p \in Poll : poll[p].job # None \/ poll[p].asleep => poll[p].left > 0

LEMMA TypeKept == TypeOK /\ RoundsLeft /\ [Next]_vars => TypeOK'
<1> SUFFICES ASSUME TypeOK, RoundsLeft, [Next]_vars PROVE TypeOK'
  OBVIOUS
<1>1. CASE UNCHANGED vars
  BY <1>1 DEF TypeOK, vars, page, board, ghost
<1>2. ASSUME NEW e \in Event, Acts(e) PROVE TypeOK'
  <2>1. /\ queue' = Append(queue, e) /\ Len(queue) < MaxQueue /\ Len(queue) \in Nat
        /\ events' = events + 1 /\ events < MaxEvents /\ events \in 0 .. MaxEvents
        /\ UNCHANGED <<page, board, poll, ghost>> /\ queue \in Seq(Event)
    BY <1>2 DEF Acts, TypeOK
  <2>2. queue' \in Seq(Event) /\ Len(queue') <= MaxQueue
    BY <2>1, BoundAssumption
  <2>3. events' \in 0 .. MaxEvents
    BY <2>1, BoundAssumption
  <2> QED
    BY <2>1, <2>2, <2>3 DEF TypeOK, page, board, ghost
<1>3. ASSUME NEW type, Handles(type)
      PROVE  /\ queue' \in Seq(Event) /\ Len(queue') <= MaxQueue
             /\ Head(queue) \in Event /\ Head(queue).type = type
  <2>1. queue \in Seq(Event) /\ queue # <<>> /\ queue' = Tail(queue) /\ Len(queue) <= MaxQueue
        /\ Head(queue).type = type
    BY <1>3 DEF Handles, TypeOK
  <2>2. Len(Tail(queue)) = Len(queue) - 1 /\ Len(queue) \in Nat
    BY <2>1
  <2> QED
    BY <2>1, <2>2, BoundAssumption
<1>4. CASE Handler
  <2>1. CASE SetSelectedJobId \/ InitFromQuery
    <3>1. /\ queue' \in Seq(Event) /\ Len(queue') <= MaxQueue
          /\ Head(queue) \in Event /\ Head(queue).type \in {"select", "link"}
      BY <2>1, <1>3 DEF SetSelectedJobId, InitFromQuery
    <3>2. selected' \in Job \cup {None}
      BY <2>1, <3>1, EventTypes DEF SetSelectedJobId, InitFromQuery
    <3> QED
      BY <2>1, <3>1, <3>2 DEF SetSelectedJobId, InitFromQuery, TypeOK, board, ghost
  <2>2. CASE SetMappingField
    <3>1. /\ queue' \in Seq(Event) /\ Len(queue') <= MaxQueue
          /\ Head(queue) \in Event /\ Head(queue).type = "map"
      BY <2>2, <1>3 DEF SetMappingField
    <3>2. Head(queue).column \in Header
      BY <3>1, EventTypes
    <3>3. mapping' \in [Field -> Header \cup {None}]
      BY <2>2, <3>2 DEF SetMappingField, TypeOK
    <3> QED
      BY <2>2, <3>1, <3>3 DEF SetMappingField, TypeOK, board, ghost
  <2>3. CASE CancelMapping
    <3>1. queue' \in Seq(Event) /\ Len(queue') <= MaxQueue
      BY <2>3, <1>3 DEF CancelMapping
    <3>2. Unmapped \in [Field -> Header \cup {None}]
      BY DEF Unmapped
    <3> QED
      BY <2>3, <3>1, <3>2 DEF CancelMapping, TypeOK, board, ghost
  <2>4. CASE UploadAnother
    <3>1. queue' \in Seq(Event) /\ Len(queue') <= MaxQueue
      BY <2>4, <1>3 DEF UploadAnother
    <3> QED
      BY <2>4, <3>1 DEF UploadAnother, TypeOK, page, ghost
  <2>5. CASE ConfirmRefused
    <3>1. queue' \in Seq(Event) /\ Len(queue') <= MaxQueue
      BY <2>5, <1>3 DEF ConfirmRefused
    <3> QED
      BY <2>5, <3>1 DEF ConfirmRefused, TypeOK, page, board, ghost
  <2>6. ASSUME NEW ok \in BOOLEAN, HandleUpload(ok) PROVE TypeOK'
    <3>1. /\ queue' \in Seq(Event) /\ Len(queue') <= MaxQueue
          /\ Head(queue) \in Event /\ Head(queue).type = "upload"
      BY <2>6, <1>3 DEF HandleUpload
    <3>2. CASE selected = None
      BY <2>6, <3>1, <3>2 DEF HandleUpload, TypeOK, page, board
    <3>3. CASE selected # None
      <4> DEFINE s == Head(queue).sheet
      <4>1. s \in Sheet /\ Detect_column_mapping(s) \in [Field -> Header \cup {None}]
        BY <3>1, EventTypes, DetectedType
      <4>2. /\ pending' = s /\ saved' = 0 /\ sent' = 0 /\ progress' = None /\ showProgress' = FALSE
            /\ columns' = IF ok THEN s ELSE columns
            /\ mapping' = IF ok THEN Detect_column_mapping(s) ELSE mapping
            /\ shown' = ok /\ UNCHANGED <<selected, poll, ingested, lost, events>>
        BY <2>6, <3>3 DEF HandleUpload
      <4> HIDE DEF s
      <4>3. /\ pending' \in Sheet \cup {None} /\ columns' \in Sheet \cup {None}
            /\ mapping' \in [Field -> Header \cup {None}] /\ shown' \in BOOLEAN
        BY <4>1, <4>2 DEF TypeOK
      <4> QED
        BY <3>1, <4>2, <4>3 DEF TypeOK
    <3> QED
      BY <3>2, <3>3
  <2>7. ASSUME pending # None, NEW filled \in SUBSET DOMAIN pending, ConfirmFails(filled)
        PROVE  TypeOK'
    <3>1. queue' \in Seq(Event) /\ Len(queue') <= MaxQueue
      BY <2>7, <1>3 DEF ConfirmFails
    <3>2. /\ ingested' \in {None} \cup Ingested /\ saved' \in Nat
          /\ sent' \in Nat /\ lost' \in BOOLEAN
      <4>1. CASE UNCHANGED ghost
        BY <4>1 DEF ghost, TypeOK, Ingested
      <4>2. CASE Ingest(filled) /\ UNCHANGED <<sent, lost>>
        BY <2>7, <4>2, IngestTyped DEF TypeOK
      <4>3. CASE Queued(filled) /\ lost' = TRUE
        <5>1. Ingest(filled) /\ sent' = sent + 1
          BY <4>3 DEF Queued
        <5> QED
          BY <2>7, <4>3, <5>1, IngestTyped DEF TypeOK
      <4> QED
        BY <2>7, <4>1, <4>2, <4>3 DEF ConfirmFails
    <3> QED
      BY <2>7, <3>1, <3>2 DEF ConfirmFails, TypeOK, page, board, Ingested
  <2>8. ASSUME pending # None, NEW filled \in SUBSET DOMAIN pending, NEW p \in Poll,
               ConfirmUpload(filled, p)
        PROVE  TypeOK'
    <3>1. queue' \in Seq(Event) /\ Len(queue') <= MaxQueue
      BY <2>8, <1>3 DEF ConfirmUpload
    <3>2. ingested' \in {None} \cup Ingested /\ saved' \in Nat /\ sent' \in Nat
      <4>1. Ingest(filled) /\ sent' = sent + 1
        BY <2>8 DEF ConfirmUpload, Queued
      <4> QED
        BY <2>8, <4>1, IngestTyped DEF TypeOK
    <3>3. poll' \in [Poll -> Polling]
      <4>1. MaxRounds \in 0 .. MaxRounds
        BY NoneAssumption
      <4>2. poll' = [poll EXCEPT ![p].left = MaxRounds]
        BY <2>8 DEF ConfirmUpload
      <4> QED
        BY <4>1, <4>2 DEF TypeOK, Polling
    <3> QED
      BY <2>8, <3>1, <3>2, <3>3 DEF ConfirmUpload, TypeOK, Ingested, Polling
  <2> QED
    BY <1>4, <2>1, <2>2, <2>3, <2>4, <2>5, <2>6, <2>7, <2>8 DEF Handler
<1>5. ASSUME NEW p \in Poll, PollStep(p) PROVE TypeOK'
  <2>1. poll \in [Poll -> Polling] /\ MaxRounds \in Nat /\ selected \in Job \cup {None}
    BY NoneAssumption DEF TypeOK, Polling
  <2>2. poll[p] \in Polling /\ poll[p].left \in 0 .. MaxRounds
    BY <2>1 DEF Polling
  <2>3. NoPoll \in Polling
    BY <2>1 DEF NoPoll, Polling
  <2>4. CASE PollBegins(p)
    <3>1. poll' \in [Poll -> Polling]
      BY <2>1, <2>2, <2>3, <2>4 DEF PollBegins, Polling
    <3> QED
      BY <2>4, <3>1 DEF PollBegins, TypeOK, Polling, page, board, ghost
  <2>5. CASE PollFails(p)
    <3>1. poll' \in [Poll -> Polling]
      BY <2>1, <2>2, <2>5 DEF PollFails, Sleeps, Polling
    <3> QED
      BY <2>5, <3>1 DEF PollFails, TypeOK, Polling, page, board, ghost
  <2>6. CASE PollWakes(p)
    <3>1. poll[p].left - 1 \in 0 .. MaxRounds
      BY <2>1, <2>2, <2>6 DEF PollWakes, RoundsLeft
    <3> DEFINE v == IF poll[p].left = 1 THEN NoPoll
                    ELSE [poll[p] EXCEPT !.left = poll[p].left - 1, !.asleep = FALSE]
    <3>2. poll' \in [Poll -> Polling]
      <4>1. poll' = [poll EXCEPT ![p] = v]
        BY <2>6 DEF PollWakes
      <4>2. v \in Polling
        BY <2>2, <2>3, <3>1 DEF Polling
      <4> HIDE DEF v
      <4> QED
        BY <2>1, <4>1, <4>2
    <3> QED
      BY <2>6, <3>2 DEF PollWakes, TypeOK, Polling, page, board, ghost
  <2>7. ASSUME NEW active \in BOOLEAN, PollWrites(p, active) PROVE TypeOK'
    <3>1. poll' \in [Poll -> Polling]
      BY <2>1, <2>2, <2>3, <2>7 DEF PollWrites, Sleeps, Polling
    <3>2. progress' \in Job \cup {None}
      BY <2>2, <2>7 DEF PollWrites, Polling
    <3> QED
      BY <2>7, <3>1, <3>2 DEF PollWrites, TypeOK, Polling, page, ghost
  <2> QED
    BY <1>5, <2>4, <2>5, <2>6, <2>7 DEF PollStep
<1> QED
  BY <1>1, <1>2, <1>4, <1>5 DEF Next

LEMMA RoundsKept == TypeOK /\ RoundsLeft /\ [Next]_vars => RoundsLeft'
<1> SUFFICES ASSUME TypeOK, RoundsLeft, [Next]_vars, NEW q \in Poll,
                    poll'[q].job # None \/ poll'[q].asleep
             PROVE  poll'[q].left > 0
  BY DEF RoundsLeft
<1>1. poll \in [Poll -> Polling] /\ MaxRounds \in Nat \ {0}
  BY NoneAssumption DEF TypeOK, Polling
<1>2. poll[q].job # None \/ poll[q].asleep => poll[q].left > 0
  BY DEF RoundsLeft
<1>3. CASE poll' = poll
  BY <1>2, <1>3
<1>4. CASE \E p \in Poll : poll' = [poll EXCEPT ![p].left = MaxRounds]
  BY <1>1, <1>2, <1>4
<1>5. ASSUME NEW p \in Poll, PollStep(p) PROVE poll'[q].left > 0
  <2>1. CASE q # p
    <3>1. poll'[q] = poll[q]
      BY <1>1, <1>5, <2>1
         DEF PollStep, PollBegins, PollFails, PollWakes, PollWrites, Sleeps
    <3> QED
      BY <1>2, <3>1
  <2>2. CASE q = p
    <3>1. poll[p] \in Polling /\ poll[p].left \in Nat
      BY <1>1 DEF Polling
    <3>2. CASE PollBegins(p)
      <4>1. poll'[p].left = poll[p].left \/ poll'[p] = NoPoll
        BY <1>1, <3>1, <3>2 DEF PollBegins, Polling
      <4> QED
        BY <2>2, <3>1, <3>2, <4>1 DEF PollBegins, NoPoll
    <3>3. CASE PollFails(p)
      BY <1>1, <1>2, <2>2, <3>1, <3>3 DEF PollFails, Asks, Sleeps
    <3>4. CASE PollWakes(p)
      <4> DEFINE v == IF poll[p].left = 1 THEN NoPoll
                      ELSE [poll[p] EXCEPT !.left = poll[p].left - 1, !.asleep = FALSE]
      <4>1. poll' = [poll EXCEPT ![p] = v]
        BY <3>4 DEF PollWakes
      <4>2. poll[p].left # 1 => v.left = poll[p].left - 1
        BY <3>1 DEF Polling
      <4>3. poll'[p] = v
        BY <1>1, <4>1
      <4>4. poll[p].left = 1 => poll'[p].job = None /\ poll'[p].asleep = FALSE
        BY <4>3 DEF NoPoll
      <4>5. poll[p].left > 0
        BY <1>2, <2>2, <3>4 DEF PollWakes
      <4> HIDE DEF v
      <4> QED
        BY <2>2, <3>1, <4>2, <4>3, <4>4, <4>5
    <3>5. ASSUME NEW active \in BOOLEAN, PollWrites(p, active) PROVE poll'[q].left > 0
      <4>1. poll'[p].left = poll[p].left \/ poll'[p] = NoPoll
        BY <1>1, <3>1, <3>5 DEF PollWrites, Sleeps, Polling
      <4>2. poll[p].left > 0
        BY <1>2, <2>2, <3>5 DEF PollWrites, Asks
      <4> QED
        BY <2>2, <4>1, <4>2 DEF NoPoll
    <3> QED
      BY <1>5, <3>2, <3>3, <3>4, <3>5 DEF PollStep
  <2> QED
    BY <2>1, <2>2
<1>6. CASE UNCHANGED vars
  BY <1>3, <1>6 DEF vars
<1>7. CASE \E e \in Event : Acts(e)
  BY <1>3, <1>7 DEF Acts
<1>8. CASE Handler
  <2>1. poll' = poll \/ \E p \in Poll : poll' = [poll EXCEPT ![p].left = MaxRounds]
    BY <1>8 DEF Handler, SetSelectedJobId, InitFromQuery, SetMappingField, CancelMapping,
         UploadAnother, ConfirmRefused, HandleUpload, ConfirmFails, ConfirmUpload
  <2> QED
    BY <1>3, <1>4, <2>1
<1> QED
  BY <1>5, <1>6, <1>7, <1>8 DEF Next

LEMMA InitTyped == Init => TypeOK /\ RoundsLeft
<1> SUFFICES ASSUME Init PROVE TypeOK /\ RoundsLeft
  OBVIOUS
<1>1. NoPoll \in Polling /\ Unmapped \in [Field -> Header \cup {None}]
  BY NoneAssumption DEF NoPoll, Polling, Unmapped
<1>2. <<>> \in Seq(Event) /\ Len(<<>>) <= MaxQueue /\ 0 \in 0 .. MaxEvents
  BY BoundAssumption
<1>3. poll \in [Poll -> Polling] /\ \A p \in Poll : poll[p] = NoPoll
  BY <1>1 DEF Init
<1> QED
  BY <1>1, <1>2, <1>3 DEF Init, TypeOK, RoundsLeft, NoPoll, Polling

(* The types of the page: whatever is clicked and however late it is       *)
(* handled, and however polls interleave, the state is well formed, the    *)
(* rows ingested are cells of their sheet and no poll runs over its rounds.*)
THEOREM UploadTypeCorrect == Spec => []TypeOK
<1>2. TypeOK /\ RoundsLeft /\ [Next]_vars => (TypeOK /\ RoundsLeft)'
  BY TypeKept, RoundsKept
<1> QED
  BY <1>2, InitTyped, PTL DEF Spec

-----------------------------------------------------------------------------
(* The mapping                                                             *)

(* A mapping, and the changes of it that wait, name columns of the sheet   *)
(* whose columns are kept.                                                 *)
MapInv ==
  columns # None =>
    /\ \A f \in Field : mapping[f] \in ToSet(columns) \cup {None}
    /\ \A e \in ToSet(queue) : e.type = "map" => e.column \in ToSet(columns)

(* What was ingested, and how its row was made.                            *)
IngestInv ==
  ingested # None =>
    /\ ingested.sheet \in Sheet
    /\ ingested.mapping \in [Field -> ToSet(ingested.sheet) \cup {None}]
    /\ ingested.row = Apply_column_mapping(ingested.sheet, ingested.filled, ingested.mapping)

LEMMA IngestKept ==
  ASSUME TypeOK, MixInv, MapInv, Handles("confirm"), pending # None,
         NEW filled \in SUBSET DOMAIN pending, Ingest(filled)
  PROVE  IngestInv'
<1>1. columns = pending
  <2>1. Waits("confirm")
    BY HandlingKeepsOrder DEF MixInv
  <2> QED
    BY <2>1 DEF MixInv, SheetInv
<1>2. mapping \in [Field -> ToSet(pending) \cup {None}]
  BY <1>1 DEF MapInv, TypeOK
<1>3. ingested'.sheet = pending /\ ingested'.mapping = mapping /\ pending \in Sheet
  BY DEF Ingest, TypeOK
<1>4. ingested'.row = Apply_column_mapping(ingested'.sheet, ingested'.filled, ingested'.mapping)
  BY IngestTyped
<1> QED
  BY <1>2, <1>3, <1>4 DEF IngestInv

LEMMA MapKept == TypeOK /\ MixInv /\ MapInv /\ IngestInv /\ [Next]_vars => MapInv' /\ IngestInv'
<1> SUFFICES ASSUME TypeOK, MixInv, MapInv, IngestInv, [Next]_vars PROVE MapInv' /\ IngestInv'
  OBVIOUS
<1>1. ASSUME UNCHANGED <<columns, mapping>>, ToSet(queue)' \subseteq ToSet(queue) PROVE MapInv'
  BY <1>1 DEF MapInv
<1>2. ASSUME UNCHANGED ingested PROVE IngestInv'
  BY <1>2 DEF IngestInv
<1>3. ASSUME UNCHANGED queue PROVE ToSet(queue)' \subseteq ToSet(queue)
  BY <1>3 DEF ToSet
<1>4. ASSUME NEW type, Handles(type) PROVE ToSet(queue)' \subseteq ToSet(queue)
  BY <1>4, HandlingKeepsOrder DEF MixInv
<1>5. CASE UNCHANGED vars
  BY <1>1, <1>2, <1>3, <1>5 DEF vars, page, ghost
<1>6. ASSUME NEW e \in Event, Acts(e) PROVE MapInv' /\ IngestInv'
  <2>1. /\ queue' = Append(queue, e) /\ UNCHANGED <<columns, mapping, ingested>>
        /\ e.type = "upload" => ~shown /\ ~Waits("upload")
        /\ e.type = "confirm" => shown
        /\ e.type = "map" => shown /\ e.column \in ToSet(columns)
    BY <1>6 DEF Acts, Visible, Waits, ToSet, page, ghost
  <2>2. ToSet(queue)' \subseteq ToSet(queue) \cup {e}
    BY <2>1, ClickingKeepsOrder DEF MixInv, SheetInv
  <2>3. MapInv'
    BY <2>1, <2>2 DEF MapInv
  <2> QED
    BY <1>2, <2>1, <2>3
<1>7. CASE Handler
  <2>1. CASE SetSelectedJobId \/ InitFromQuery
    BY <1>1, <1>2, <1>4, <2>1 DEF SetSelectedJobId, InitFromQuery, ghost
  <2>2. CASE UploadAnother \/ ConfirmRefused
    BY <1>1, <1>2, <1>4, <2>2 DEF UploadAnother, ConfirmRefused, page, ghost
  <2>3. CASE SetMappingField
    <3>1. /\ Handles("map") /\ UNCHANGED <<columns, ingested>>
          /\ mapping' = [mapping EXCEPT ![Head(queue).field] = Head(queue).column]
      BY <2>3 DEF SetMappingField, ghost
    <3>2. Head(queue) \in ToSet(queue) /\ Head(queue).type = "map"
          /\ ToSet(queue)' \subseteq ToSet(queue)
      BY <3>1, HandlingKeepsOrder DEF MixInv
    <3>3. columns # None => Head(queue).column \in ToSet(columns)
      BY <3>2 DEF MapInv
    <3>4. \A f \in Field : mapping'[f] = mapping[f] \/ mapping'[f] = Head(queue).column
      BY <3>1 DEF TypeOK
    <3>5. MapInv'
      BY <3>1, <3>2, <3>3, <3>4 DEF MapInv
    <3> QED
      BY <1>2, <3>1, <3>5
  <2>4. CASE CancelMapping
    BY <1>2, <2>4 DEF CancelMapping, MapInv, ghost
  <2>5. ASSUME NEW ok \in BOOLEAN, HandleUpload(ok) PROVE MapInv' /\ IngestInv'
    <3>1. /\ QueueInv' /\ ~Waits("map")' /\ Head(queue) \in Event /\ Head(queue).type = "upload"
          /\ ToSet(queue)' \subseteq ToSet(queue)
      BY <2>5, HandlingKeepsOrder DEF HandleUpload, MixInv
    <3>2. UNCHANGED ingested
      BY <2>5 DEF HandleUpload
    <3>3. CASE selected = None \/ ~ok
      <4>1. UNCHANGED <<columns, mapping>>
        BY <2>5, <3>3 DEF HandleUpload, page
      <4> QED
        BY <1>1, <1>2, <3>1, <3>2, <4>1
    <3>4. CASE selected # None /\ ok
      <4> DEFINE s == Head(queue).sheet
      <4>1. s \in Sheet /\ columns' = s /\ mapping' = Detect_column_mapping(s)
        BY <2>5, <3>1, <3>4, EventTypes DEF HandleUpload
      <4>2. mapping' \in [Field -> ToSet(s) \cup {None}]
        BY <4>1, SheetTypes, DetectedFits DEF Fits
      <4>3. \A e \in ToSet(queue)' : e.type # "map"
        <5>1. ToSet(queue)' = {queue'[i] : i \in DOMAIN queue'}
          BY DEF ToSet
        <5> QED
          BY <3>1, <5>1 DEF Waits
      <4> HIDE DEF s
      <4>4. MapInv'
        BY <4>1, <4>2, <4>3 DEF MapInv
      <4> QED
        BY <1>2, <3>2, <4>4
    <3> QED
      BY <3>3, <3>4
  <2>6. ASSUME pending # None, NEW filled \in SUBSET DOMAIN pending,
               ConfirmFails(filled) \/ \E p \in Poll : ConfirmUpload(filled, p)
        PROVE  MapInv' /\ IngestInv'
    <3>1. /\ Handles("confirm") /\ UNCHANGED <<columns, mapping>>
          /\ UNCHANGED ingested \/ Ingest(filled)
      BY <2>6 DEF ConfirmFails, ConfirmUpload, Queued, page, ghost
    <3>2. MapInv'
      BY <1>1, <1>4, <3>1
    <3>3. IngestInv'
      BY <1>2, <2>6, <3>1, IngestKept
    <3> QED
      BY <3>2, <3>3
  <2> QED
    BY <1>7, <2>1, <2>2, <2>3, <2>4, <2>5, <2>6 DEF Handler
<1>8. ASSUME NEW p \in Poll, PollStep(p) PROVE MapInv' /\ IngestInv'
  <2>1. UNCHANGED <<page, queue, ghost>>
    BY <1>8 DEF PollStep, PollBegins, PollFails, PollWakes, PollWrites
  <2> QED
    BY <1>1, <1>2, <1>3, <2>1 DEF page, ghost
<1> QED
  BY <1>5, <1>6, <1>7, <1>8 DEF Next

PageInv == TypeOK /\ RoundsLeft /\ MixInv /\ MapInv /\ IngestInv

LEMMA PageInvariant == Spec => []PageInv
<1>1. Init => TypeOK /\ RoundsLeft
  BY InitTyped
<1>2. Init => MixInv /\ MapInv /\ IngestInv
  BY DEF Init, MixInv, QueueInv, SheetInv, SameSheet, Waits, MapInv, IngestInv
<1>3. PageInv /\ [Next]_vars => PageInv'
  BY TypeKept, RoundsKept, MixKept, MapKept DEF PageInv
<1> QED
  BY <1>1, <1>2, <1>3, PTL DEF Spec, PageInv

(* The preview gives no column to two fields, for every sheet and every    *)
(* table of headers and keywords (app/pipeline/ingest.py: the second pass  *)
(* takes only what the first left).                                        *)
THEOREM ProposalsAreInjective == Spec => []ProposalIsInjective
<1>1. PageInv => ProposalIsInjective
  <2> SUFFICES ASSUME PageInv, shown,
                      \A f \in Field : mapping[f] \in {None, Detect_column_mapping(columns)[f]},
                      NEW f \in Field, NEW g \in Field, f # g, mapping[f] # None
               PROVE  mapping[f] # mapping[g]
    BY DEF ProposalIsInjective
  <2>1. columns \in Sheet
    BY DEF PageInv, MixInv, SheetInv, TypeOK
  <2> DEFINE d == Detect_column_mapping(columns)
  <2>2. Fits(d, columns)
    BY <2>1, SheetTypes, DetectedFits
  <2>3. mapping[f] = d[f] /\ mapping[g] \in {None, d[g]}
    OBVIOUS
  <2> HIDE DEF d
  <2> QED
    BY <2>2, <2>3 DEF Fits
<1> QED
  BY <1>1, PageInvariant, PTL

(* What is ingested is the sheet the user saw, with a mapping that names   *)
(* only its columns, and each field's cell is that of its column: for all  *)
(* jobs, sheets and orders in which clicks, previews and polls come        *)
(* (states/upload_state.py, app/pipeline/ingest.py:105).                   *)
THEOREM IngestionIsFaithful == Spec => []IngestedAsShown
<1>1. PageInv => IngestedAsShown
  <2> SUFFICES ASSUME PageInv, ingested # None
               PROVE  /\ ingested.shown = ingested.sheet
                      /\ \A f \in Field : ingested.mapping[f] \in ToSet(ingested.sheet) \cup {None}
                      /\ \A f \in Field, k \in DOMAIN ingested.sheet :
                           /\ ingested.mapping[f] = ingested.sheet[k]
                           /\ \A g \in Field \ {f} : ingested.mapping[g] # ingested.mapping[f]
                           /\ \A h \in ToSet(ingested.sheet) :
                                h = f => \E g \in Field : ingested.mapping[g] = h
                           => ingested.row[f] = IF k \in ingested.filled THEN k ELSE 0
    BY DEF IngestedAsShown
  <2>1. ingested.shown = ingested.sheet
    BY DEF PageInv, MixInv, SameSheet
  <2> DEFINE sheet == ingested.sheet
             mapped == ingested.mapping
             filled == ingested.filled
  <2>2. /\ sheet \in Sheet /\ mapped \in [Field -> ToSet(sheet) \cup {None}]
        /\ ingested.row = Apply_column_mapping(sheet, filled, mapped)
    BY DEF PageInv, IngestInv
  <2> HIDE DEF sheet, mapped, filled
  <2>3. /\ sheet \in Seq(Header) /\ IsInjective(sheet)
        /\ mapped \in [Field -> Header \cup {None}]
    BY <2>2, SheetTypes
  <2>4. ASSUME NEW f \in Field, NEW k \in DOMAIN sheet, mapped[f] = sheet[k],
               \A g \in Field \ {f} : mapped[g] # mapped[f],
               \A h \in ToSet(sheet) : h = f => \E g \in Field : mapped[g] = h
        PROVE  ingested.row[f] = IF k \in filled THEN k ELSE 0
    BY <2>2, <2>3, <2>4, MappedCellArrives
  <2> QED
    BY <2>1, <2>2, <2>4 DEF sheet, mapped, filled
<1> QED
  BY <1>1, PageInvariant, PTL
=============================================================================
