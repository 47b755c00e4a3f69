----------------------------- MODULE UploadPage -----------------------------
(***************************************************************************)
(* The upload page of one browser session (states/upload_state.py) with    *)
(* the endpoints it calls (app/api/ingest.py, app/api/jobs.py).  Events    *)
(* are clicks on what is visible; they wait in the session's queue and are *)
(* handled one at a time, maybe after the page has changed.  The polls of  *)
(* progress run in the background and write between two events.            *)
(***************************************************************************)
EXTENDS SheetMapping, FiniteSets

CONSTANTS
  Job,        \* the jobs of the account
  Sheet,      \* the sheets the user has
  Poll,       \* background polls
  MaxRounds,  \* rounds of a poll (45 in the code)
  Lossy,      \* answers of the API may be lost on the way back
  MaxQueue,   \* bound: events waiting
  MaxEvents   \* bound: events in a behaviour

ASSUME SheetAssumption == \A s \in Sheet : s \in Seq(Header) /\ IsInjective(s)
ASSUME BoundAssumption == MaxQueue \in Nat /\ MaxEvents \in Nat
ASSUME NoneAssumption == MaxRounds \in Nat \ {0} /\ Lossy \in BOOLEAN /\ None \notin Job \cup Sheet

VARIABLES
  selected,  \* selected_job_id
  pending,   \* _pending_data: a sheet
  columns,   \* raw_columns: those of a sheet
  mapping,   \* mapping
  shown,     \* show_mapping
  progress,  \* progress: the job whose counts it has
  showProgress,
  queue,     \* events waiting
  poll,      \* the background polls: their job and the rounds left
  ingested,  \* the rows the API made last, and from what (not in the code)
  saved,     \* times the pending sheet was saved (not in the code)
  sent,      \* times it was queued and charged (not in the code)
  lost,      \* an answer was lost (not in the code)
  events     \* events so far

page  == <<selected, pending, columns, mapping, shown>>
board == <<progress, showProgress>>
ghost == <<ingested, saved, sent, lost>>
vars == <<page, board, queue, poll, ghost, events>>

Unmapped == [f \in Field |-> None]
NoPoll   == [job |-> None, left |-> 0, asleep |-> FALSE]
Event    == [type : {"select", "link"}, job : Job \cup {None}] \cup
            [type : {"upload"}, sheet : Sheet] \cup
            [type : {"map"}, field : Field, column : Header] \cup
            [type : {"confirm", "cancel", "another"}]

TypeOK ==
  /\ selected \in Job \cup {None}
  /\ pending  \in Sheet \cup {None} /\ columns \in Sheet \cup {None}
  /\ mapping  \in [Field -> Header \cup {None}]
  /\ shown \in BOOLEAN /\ showProgress \in BOOLEAN /\ lost \in BOOLEAN
  /\ progress \in Job \cup {None}
  /\ queue    \in Seq(Event) /\ Len(queue) <= MaxQueue
  /\ poll     \in [Poll -> [job : Job \cup {None}, left : 0 .. MaxRounds,
                         asleep : BOOLEAN]]
  /\ ingested \in {None} \cup [sheet : Sheet, shown : Sheet \cup {None},
                    filled : SUBSET Nat, mapping : [Field -> Header \cup {None}],
                    row : [Field -> Nat]]
  /\ saved \in Nat /\ sent \in Nat /\ events \in 0 .. MaxEvents

Init ==
  /\ selected = None /\ pending = None /\ columns = None
  /\ mapping = Unmapped /\ shown = FALSE
  /\ progress = None /\ showProgress = FALSE
  /\ queue = <<>> /\ poll = [p \in Poll |-> NoPoll]
  /\ ingested = None /\ saved = 0 /\ sent = 0 /\ lost = FALSE /\ events = 0
-----------------------------------------------------------------------------
(* The user acts on what the page shows now.  The preview button takes no  *)
(* second file while one is on its way.                                    *)
Visible(e) ==
  CASE e.type = "upload"  -> ~shown /\ \A q \in ToSet(queue) : q.type # "upload"
    [] e.type = "map"     -> shown /\ e.column \in ToSet(columns)
    [] e.type = "confirm" -> shown /\ \A f \in REQUIRED_FIELDS : mapping[f] # None
    [] e.type = "cancel"  -> shown
    [] e.type = "another" -> showProgress
    [] OTHER              -> TRUE

Acts(e) ==
  /\ events < MaxEvents /\ Len(queue) < MaxQueue
  /\ Visible(e)
  /\ queue' = Append(queue, e)
  /\ events' = events + 1
  /\ UNCHANGED <<page, board, poll, ghost>>

Handles(type) == queue # <<>> /\ Head(queue).type = type /\ queue' = Tail(queue)

SetSelectedJobId ==
  /\ Handles("select")
  /\ selected' = Head(queue).job
  /\ UNCHANGED <<pending, columns, mapping, shown, board, poll, ghost, events>>

(* A link to a job that is not one of the account's (None) selects none.   *)
InitFromQuery ==
  /\ Handles("link")
  /\ selected' = Head(queue).job
  /\ UNCHANGED <<pending, columns, mapping, shown, board, poll, ghost, events>>

(* The sheet is kept before its preview is asked for.  When the preview    *)
(* fails (422, 413, 404, an outage), the columns of the sheet before stay, *)
(* hidden.                                                                 *)
HandleUpload(ok) ==
  /\ Handles("upload")
  /\ LET s == Head(queue).sheet IN
     IF selected = None THEN UNCHANGED <<page, board, saved, sent>>
     ELSE /\ pending' = s /\ saved' = 0 /\ sent' = 0
          /\ progress' = None /\ showProgress' = FALSE
          /\ columns' = IF ok THEN s ELSE columns
          /\ mapping' = IF ok THEN Detect_column_mapping(s) ELSE mapping
          /\ shown' = ok
          /\ UNCHANGED selected
  /\ UNCHANGED <<poll, ingested, lost, events>>

SetMappingField ==
  /\ Handles("map")
  /\ mapping' = [mapping EXCEPT ![Head(queue).field] = Head(queue).column]
  /\ UNCHANGED <<selected, pending, columns, shown, board, poll, ghost, events>>

CancelMapping ==
  /\ Handles("cancel")
  /\ pending' = None /\ columns' = None /\ mapping' = Unmapped /\ shown' = FALSE
  /\ UNCHANGED <<selected, board, poll, ghost, events>>

UploadAnother ==
  /\ Handles("another")
  /\ progress' = None /\ showProgress' = FALSE
  /\ UNCHANGED <<page, poll, ghost, events>>

MissingRequired == \E f \in REQUIRED_FIELDS : mapping[f] = None

(* The rows the API commits; the cells in filled are not empty.            *)
Ingest(filled) ==
  /\ ingested' = [sheet |-> pending, shown |-> columns, filled |-> filled,
                  mapping |-> mapping,
                  row |-> Apply_column_mapping(pending, filled, mapping)]
  /\ saved' = saved + 1

(* It queues them, and charges for what it queued.                         *)
Queued(filled) == Ingest(filled) /\ sent' = sent + 1

(* Nothing pending, or a required field without a column: nothing is sent. *)
ConfirmRefused ==
  /\ Handles("confirm")
  /\ pending = None \/ MissingRequired
  /\ UNCHANGED <<page, board, poll, ghost, events>>

(* The API refuses the sheet or the call is lost; or no row could be       *)
(* queued, and they stay saved, as failed, behind a 503; or the answer to  *)
(* rows that were queued is lost.  The page keeps the sheet in every case. *)
ConfirmFails(filled) ==
  /\ Handles("confirm")
  /\ pending # None /\ ~MissingRequired
  /\ \/ UNCHANGED ghost
     \/ selected # None /\ Ingest(filled) /\ UNCHANGED <<sent, lost>>
     \/ Lossy /\ selected # None /\ Queued(filled) /\ lost' = TRUE
  /\ UNCHANGED <<page, board, poll, events>>

(* Wrong variant: the sheet stays pending after it was queued.             *)
ConfirmKeepsPending(filled, p) ==
  /\ Handles("confirm")
  /\ pending # None /\ ~MissingRequired /\ selected # None
  /\ Queued(filled)
  /\ shown' = FALSE /\ showProgress' = TRUE
  /\ poll[p] = NoPoll /\ poll' = [poll EXCEPT ![p].left = MaxRounds]
  /\ UNCHANGED <<pending, selected, columns, mapping, progress, lost, events>>

(* Rows were queued, some maybe not: the sheet is done, a poll starts.     *)
ConfirmUpload(filled, p) ==
  /\ Handles("confirm")
  /\ pending # None /\ ~MissingRequired /\ selected # None
  /\ Queued(filled)
  /\ pending' = None /\ shown' = FALSE /\ showProgress' = TRUE
  /\ poll[p] = NoPoll /\ poll' = [poll EXCEPT ![p].left = MaxRounds]
  /\ UNCHANGED <<selected, columns, mapping, progress, lost, events>>
-----------------------------------------------------------------------------
(* poll_progress: the job is the one selected when the poll begins.        *)
PollBegins(p) ==
  /\ poll[p].left > 0 /\ poll[p].job = None
  /\ poll' = [poll EXCEPT ![p] = IF selected = None THEN NoPoll
                                 ELSE [@ EXCEPT !.job = selected]]
  /\ UNCHANGED <<page, board, queue, ghost, events>>

Asks(p) == poll[p].job # None /\ ~poll[p].asleep

Sleeps(p) == poll' = [poll EXCEPT ![p].asleep = TRUE]

(* The loop counts rounds, whatever came of them.                          *)
PollWakes(p) ==
  /\ poll[p].asleep
  /\ poll' = [poll EXCEPT ![p] = IF @.left = 1 THEN NoPoll
                                 ELSE [@ EXCEPT !.left = poll[p].left - 1, !.asleep = FALSE]]
  /\ UNCHANGED <<page, board, queue, ghost, events>>

(* Wrong variant: a request that fails costs no round.                     *)
PollRetries(p) ==
  /\ Asks(p)
  /\ poll' = [poll EXCEPT ![p].asleep = TRUE, ![p].left = @ + 1]
  /\ UNCHANGED <<page, board, queue, ghost, events>>

PollFails(p) ==
  /\ Asks(p)
  /\ Sleeps(p)
  /\ UNCHANGED <<page, board, queue, ghost, events>>

(* The counts are written whatever the page shows by now.                  *)
PollWrites(p, active) ==
  /\ Asks(p)
  /\ progress' = poll[p].job
  /\ IF active THEN Sleeps(p) ELSE poll' = [poll EXCEPT ![p] = NoPoll]
  /\ UNCHANGED <<page, showProgress, queue, ghost, events>>

-----------------------------------------------------------------------------
Handler ==
  \/ SetSelectedJobId \/ InitFromQuery \/ SetMappingField \/ CancelMapping
  \/ UploadAnother \/ ConfirmRefused
  \/ \E ok \in BOOLEAN : HandleUpload(ok)
  \/ pending # None /\ \E filled \in SUBSET DOMAIN pending :
       ConfirmFails(filled) \/ \E p \in Poll : ConfirmUpload(filled, p)

PollStep(p) ==
  PollBegins(p) \/ PollFails(p) \/ PollWakes(p) \/ \E active \in BOOLEAN : PollWrites(p, active)

Next ==
  \/ \E e \in Event : Acts(e)
  \/ Handler
  \/ \E p \in Poll : PollStep(p)

(* The event loop runs handlers and background tasks on.                   *)
Spec == Init /\ [][Next]_vars /\ WF_vars(Handler) /\ \A p \in Poll : WF_vars(PollStep(p))
-----------------------------------------------------------------------------
(* The preview gives no column to two fields, whatever the headers: a      *)
(* shared column would reach one of them only (Rekey).                     *)
ProposalIsInjective ==
  shown /\ (\A f \in Field : mapping[f] \in {None, Detect_column_mapping(columns)[f]}) =>
    \A f, g \in Field : f # g /\ mapping[f] # None => mapping[f] # mapping[g]

(* What is ingested is the sheet whose columns the user saw, each field    *)
(* from the column mapped to it, unless the user gave that column to two   *)
(* fields or another column bears the field's own name (MappedValueWins):  *)
(* neither a failed preview nor a stale click mixes two sheets up.         *)
IngestedAsShown ==
  ingested # None =>
    LET i == ingested IN
    /\ i.shown = i.sheet
    /\ \A f \in Field : i.mapping[f] \in ToSet(i.sheet) \cup {None}
    /\ \A f \in Field, k \in DOMAIN i.sheet :
         /\ i.mapping[f] = i.sheet[k]
         /\ \A g \in Field \ {f} : i.mapping[g] # i.mapping[f]
         /\ \A h \in ToSet(i.sheet) : h = f => \E g \in Field : i.mapping[g] = h
         => i.row[f] = IF k \in i.filled THEN k ELSE 0

(* Rows of a sheet are queued, and charged, once per preview however often *)
(* the user clicks, also after uploads that were refused or only saved, as *)
(* long as no answer is lost.                                              *)
ChargedOnce == ~lost => sent <= 1

(* Every poll ends, also when the API never answers or the batch never     *)
(* finishes.                                                               *)
PollsEnd == \A p \in Poll : poll[p] # NoPoll ~> poll[p] = NoPoll

(* "Re-key rows using an explicit {canonical_field: raw_header} mapping"   *)
(* (pipeline/ingest.py:105): the user's column decides, unless shared.     *)
MappedValueWins ==
  ingested # None =>
    LET i == ingested IN
    \A f \in Field, k \in DOMAIN i.sheet :
      i.mapping[f] = i.sheet[k] /\ (\A g \in Field \ {f} : i.mapping[g] # i.mapping[f])
        => i.row[f] = IF k \in i.filled THEN k ELSE 0

(* "Candidates were saved as 'failed'; retry once Redis is back up."       *)
(* (api/ingest.py:377): the rows are there, no confirmation makes them     *)
(* again, as long as no answer is lost.                                    *)
SavedOnce == ~lost => saved <= 1

(* "Live progress for the batch just uploaded ... Cleared when the user    *)
(* starts a new upload" (upload_state.py:44): while a new sheet is mapped, *)
(* no counts of an earlier job come back.                                  *)
ProgressIsCleared == [][shown /\ progress = None => progress' = None]_vars
=============================================================================
