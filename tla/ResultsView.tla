----------------------------- MODULE ResultsView -----------------------------
(***************************************************************************)
(* The results page of the UI (ui/right_hire_ui/states/results_state.py)   *)
(* over the listing of the API (app/api/results.py).  A handler holds the  *)
(* state's lock from its start to its end, its API calls included, so it   *)
(* is one action; `yield ResultsState.load_results' only queues an event,  *)
(* which runs later; the background poll takes the lock twice and fetches  *)
(* without it in between.                                                  *)
(***************************************************************************)
EXTENDS Subsequences

CONSTANTS
  Job,         \* the recruiter's jobs
  Row,         \* their candidates
  Listing,     \* the candidates of each job, in the order the API lists them
  Page,        \* page_size
  MaxWindow,   \* the largest limit the API accepts (200)
  MaxRounds,   \* _POLL_MAX_ITERATIONS
  None,        \* no job selected
  Poll,        \* bound: background polls at once
  MaxEvents    \* bound: user events in a behaviour

ASSUME NoneIsNoJob       == None \notin Job
ASSUME PageAssumption    == Page \in Nat \ {0}
(* A candidate has one job_id, and the query selects it once.              *)
ASSUME ListingAssumption ==
  /\ Listing \in [Job -> Seq(Row)]
  /\ \A j, k \in Job : \A m \in DOMAIN Listing[j], n \in DOMAIN Listing[k] :
       Listing[j][m] = Listing[k][n] => j = k /\ m = n

VARIABLES
  present,   \* server: the candidates that exist
  active,    \* server: those that are pending or processing
  jobs,      \* jobs
  selected,  \* selected_job_id
  results,   \* results, as [row, active] in the order shown
  offset,    \* offset
  more,      \* has_more
  loaded,    \* has_loaded
  chosen,    \* selected_ids
  loads,     \* load_results events queued
  poll,      \* the background tasks
  clean,     \* not in the code: no bulk deletion failed for a row shown, no
             \* link switched the job under loaded rows
  events     \* user events so far

server == <<present, active>>
list   == <<results, offset>>
vars   == <<server, jobs, selected, list, more, loaded, chosen, loads, poll, clean,
            events>>

Shown  == [row : Row, active : BOOLEAN]
NoPoll == [pc |-> "none"]
Polls  == {NoPoll} \cup [pc : {"sleep"}, round : Nat] \cup
          [pc : {"fetch"}, round : Nat, job : Job, window : Nat] \cup
          [pc : {"write"}, round : Nat, page : Seq(Shown)]

(* In particular a poll never asks the API for the results of no job.      *)
TypeOK ==
  /\ present  \subseteq Row
  /\ active   \subseteq Row
  /\ jobs     \subseteq Job
  /\ selected \in Job \cup {None}
  /\ results  \in Seq(Shown)
  /\ offset   \in Nat
  /\ more     \in BOOLEAN
  /\ loaded   \in BOOLEAN
  /\ chosen   \subseteq Row
  /\ loads    \in Nat
  /\ poll     \in [Poll -> Polls]
  /\ clean    \in BOOLEAN
  /\ events   \in Nat

Init ==
  /\ present = Row /\ active \in SUBSET Row
  /\ jobs = Job
  /\ selected = None
  /\ results = <<>> /\ offset = 0 /\ more = TRUE /\ loaded = FALSE
  /\ chosen = {} /\ loads = 0
  /\ poll = [p \in Poll |-> NoPoll]
  /\ clean = TRUE /\ events = 0

-----------------------------------------------------------------------------
(* The API *)

RowsOf(j) == {Listing[j][i] : i \in DOMAIN Listing[j]}

(* The positions of the listing whose candidates exist.                    *)
Rows(j) == {i \in DOMAIN Listing[j] : Listing[j][i] \in present}

(* GET /jobs/{id}/results?offset=from&limit=n                              *)
Cut(j, from, n) == {i \in Rows(j) : PlaceIn(Rows(j), i) \in from + 1 .. from + n}

Fetched(j, from, n) ==
  LET rows == Kept(Listing[j], Cut(j, from, n))
  IN [k \in DOMAIN rows |-> [row |-> rows[k], active |-> rows[k] \in active]]

InResults == {results[i].row : i \in DOMAIN results}

(* [r for r in self.results if r's id is not in S]                         *)
Without(S) == Kept(results, {i \in DOMAIN results : results[i].row \notin S})

Show(rows) == results' = rows /\ offset' = Len(rows)

Remove(D) == present' = present \ D /\ active' = active \ D

UserEvent == events < MaxEvents /\ events' = events + 1
-----------------------------------------------------------------------------
(* Selecting and loading *)

(* set_selected_job_id: offset, has_more and selected_ids are left to the  *)
(* load it queues.                                                         *)
SelectJob(j) ==
  /\ UserEvent /\ j \in jobs
  /\ selected' = j
  /\ results' = <<>> /\ loaded' = FALSE
  /\ loads' = loads + 1
  /\ UNCHANGED <<server, jobs, offset, more, chosen, poll, clean>>

(* init_from_query with ?job=j, or without it (None).                      *)
OpenPage(j) ==
  /\ UserEvent
  /\ LET s == CASE j = None -> selected [] j \in jobs -> j [] OTHER -> None
         drop == j # None /\ j \notin jobs
     IN
     /\ selected' = s
     /\ results' = IF drop THEN <<>> ELSE results
     /\ loaded' = (loaded /\ ~drop)
     /\ loads' = IF s # None /\ ~loaded THEN loads + 1 ELSE loads
     /\ clean' = (clean /\ (s # selected => ~loaded))
  /\ UNCHANGED <<server, jobs, offset, more, chosen, poll>>

(* A queued load_results: the first page, and a background poll of its own.*)
LoadResults(p) ==
  /\ loads > 0 /\ selected # None /\ poll[p] = NoPoll
  /\ loads' = loads - 1
  /\ chosen' = {} /\ loaded' = TRUE
  /\ \/ LET page == Fetched(selected, 0, Page) IN
        Show(page) /\ more' = (Len(page) = Page)
     \/ Show(<<>>) /\ more' = TRUE
  /\ poll' = [poll EXCEPT ![p] = [pc |-> "sleep", round |-> 0]]
  /\ UNCHANGED <<server, jobs, selected, clean, events>>

(* It returns at once if no job is selected by now.                        *)
LoadNothing ==
  /\ loads > 0 /\ selected = None
  /\ loads' = loads - 1
  /\ UNCHANGED <<server, jobs, selected, list, more, loaded, chosen, poll, clean, events>>

(* Wrong variant: counts in whole pages.                                   *)
LoadMoreByPage ==
  /\ UserEvent /\ selected # None /\ more
  /\ LET page == Fetched(selected, (offset \div Page) * Page, Page) IN
     Show(results \o page) /\ more' = (Len(page) = Page)
  /\ UNCHANGED <<server, jobs, selected, loaded, chosen, loads, poll, clean>>

(* load_more starts no poll; an error leaves everything as it is.          *)
LoadMore ==
  /\ UserEvent /\ selected # None /\ more
  /\ LET page == Fetched(selected, offset, Page) IN
     /\ results' = results \o page /\ offset' = offset + Len(page)
     /\ more' = (Len(page) = Page)
  /\ UNCHANGED <<server, jobs, selected, loaded, chosen, loads, poll, clean>>

Toggle(r) ==
  /\ UserEvent /\ r \in InResults
  /\ chosen' = IF r \in chosen THEN chosen \ {r} ELSE chosen \cup {r}
  /\ UNCHANGED <<server, jobs, selected, list, more, loaded, loads, poll, clean>>

-----------------------------------------------------------------------------
(* Requests that change candidates.  The API looks a candidate up in the   *)
(* selected job and answers 404 if it is not there.                        *)

Known(r) == selected # None /\ r \in RowsOf(selected) \cap present

(* Wrong variant: the offset is forgotten.                                 *)
DeleteKeepsOffset(r) ==
  /\ UserEvent /\ r \in InResults /\ Known(r)
  /\ Remove({r})
  /\ results' = Without({r})
  /\ UNCHANGED <<jobs, selected, offset, more, loaded, chosen, loads, poll, clean>>

(* delete_candidate: after an error nothing changes.                       *)
DeleteCandidate(r) ==
  /\ UserEvent /\ r \in InResults /\ Known(r)
  /\ Remove({r})
  /\ Show(Without({r}))
  /\ UNCHANGED <<jobs, selected, more, loaded, chosen, loads, poll, clean>>

(* delete_selected asks row by row; D are deleted, the others fail, and    *)
(* all of them leave the page.                                             *)
DeleteSelected(D) ==
  /\ UserEvent /\ chosen # {}
  /\ D \subseteq {r \in chosen : Known(r)}
  /\ Remove(D)
  /\ Show(Without(chosen))
  /\ chosen' = {}
  /\ clean' = (clean /\ chosen \cap InResults \subseteq D)
  /\ UNCHANGED <<jobs, selected, more, loaded, loads, poll>>

DeleteAll ==
  /\ UserEvent /\ selected # None
  /\ Remove(RowsOf(selected))
  /\ Show(<<>>) /\ more' = FALSE
  /\ UNCHANGED <<jobs, selected, loaded, chosen, loads, poll, clean>>

DeleteJob ==
  /\ UserEvent /\ selected \in jobs
  /\ Remove(RowsOf(selected))
  /\ jobs' = jobs \ {selected}
  /\ selected' = None /\ results' = <<>> /\ loaded' = FALSE
  /\ UNCHANGED <<offset, more, chosen, loads, poll, clean>>

(* retry_candidate, retry_selected, retry_all_failed and cancel_pending:   *)
(* some rows become active or stop being it, and the page reloads.         *)
Requeue(S) ==
  /\ UserEvent /\ S # {} /\ \A r \in S : Known(r)
  /\ \/ S \cap active = {} /\ active' = active \cup S
     \/ S \subseteq active /\ active' = active \ S
  /\ loads' = loads + 1
  /\ UNCHANGED <<present, jobs, selected, list, more, loaded, chosen, poll, clean>>

(* attach_resume queues the candidate again and does not reload.           *)
Attach(r) ==
  /\ UserEvent /\ r \in InResults /\ Known(r)
  /\ active' = active \cup {r}
  /\ UNCHANGED <<present, jobs, selected, list, more, loaded, chosen, loads, poll, clean>>

(* A worker settles a candidate; another session deletes one.              *)
Settles(r) ==
  /\ r \in active
  /\ active' = active \ {r}
  /\ UNCHANGED <<present, jobs, selected, list, more, loaded, chosen, loads, poll, clean,
                 events>>

DeletedElsewhere(r) ==
  /\ UserEvent /\ r \in present
  /\ Remove({r})
  /\ UNCHANGED <<jobs, selected, list, more, loaded, chosen, loads, poll, clean>>

-----------------------------------------------------------------------------
(* poll_for_updates *)

NextRound(p) ==
  poll' = [poll EXCEPT ![p] = IF poll[p].round + 1 = MaxRounds THEN NoPoll
                              ELSE [pc |-> "sleep", round |-> poll[p].round + 1]]

(* Wrong variant: looks at the rows only.  A late write of another poll may *)
(* have brought active rows back after the selection was cleared.          *)
PollWakesAnyway(p) ==
  /\ poll[p].pc = "sleep"
  /\ poll' = [poll EXCEPT ![p] =
       IF \A i \in DOMAIN results : ~results[i].active THEN NoPoll
       ELSE [pc |-> "fetch", round |-> poll[p].round, job |-> selected,
             window |-> IF Len(results) > Page THEN Len(results) ELSE Page]]
  /\ UNCHANGED <<server, jobs, selected, list, more, loaded, chosen, loads, clean, events>>

(* It looks at what is loaded, and ends if nothing of it is active.        *)
PollWakes(p) ==
  /\ poll[p].pc = "sleep"
  /\ poll' = [poll EXCEPT ![p] =
       IF selected = None \/ \A i \in DOMAIN results : ~results[i].active THEN NoPoll
       ELSE [pc |-> "fetch", round |-> poll[p].round, job |-> selected,
             window |-> IF Len(results) > Page THEN Len(results) ELSE Page]]
  /\ UNCHANGED <<server, jobs, selected, list, more, loaded, chosen, loads, clean, events>>

(* An error skips the round; so does a window the API refuses (422) and a  *)
(* job deleted meanwhile (404).                                            *)
PollFetches(p) ==
  /\ poll[p].pc = "fetch"
  /\ \/ /\ poll[p].window <= MaxWindow /\ poll[p].job \in jobs
        /\ poll' = [poll EXCEPT ![p] =
             [pc |-> "write", round |-> poll[p].round,
              page |-> Fetched(poll[p].job, 0, poll[p].window)]]
     \/ NextRound(p)
  /\ UNCHANGED <<server, jobs, selected, list, more, loaded, chosen, loads, clean, events>>

(* What was fetched is written, whatever job is selected by now.           *)
PollWrites(p) ==
  /\ poll[p].pc = "write"
  /\ Show(poll[p].page)
  /\ NextRound(p)
  /\ UNCHANGED <<server, jobs, selected, more, loaded, chosen, loads, clean, events>>

-----------------------------------------------------------------------------
Next ==
  \/ \E j \in Job : SelectJob(j)
  \/ \E j \in Job \cup {None} : OpenPage(j)
  \/ LoadNothing \/ LoadMore \/ DeleteAll \/ DeleteJob
  \/ \E r \in Row :
       Toggle(r) \/ DeleteCandidate(r) \/ Attach(r) \/ Settles(r) \/ DeletedElsewhere(r)
  \/ \E S \in SUBSET Row : DeleteSelected(S) \/ Requeue(S)
  \/ \E p \in Poll : LoadResults(p) \/ PollWakes(p) \/ PollFetches(p) \/ PollWrites(p)

Spec == Init /\ [][Next]_vars
-----------------------------------------------------------------------------
(* The next page starts where the loaded rows end: every handler and poll  *)
(* that changes the rows keeps offset in step, so after a load the two     *)
(* always agree, although selecting a job or a link leaves offset alone.   *)
OffsetIsLoaded == loaded => offset = Len(results)

(* No candidate is listed twice, however pages, deletions here and in      *)
(* another session, and polls interleave: the reason why a deletion moves  *)
(* offset back.  It takes a bulk deletion that fails for a row, a link     *)
(* that switches the job under loaded rows, or a click before the load of  *)
(* a new selection, to break it.                                           *)
ShownOnce ==
  loaded /\ clean =>
    \A i, k \in DOMAIN results : results[i].row = results[k].row => i = k

(* A link "clears whatever was selected rather than silently showing a     *)
(* different job than the link asked for" (results_state.py:467-468): when *)
(* a link has been followed, no row of another job is shown.               *)
LinkShowsItsJob ==
  [][selected' # selected /\ selected' # None =>
       \A i \in DOMAIN results' : results'[i].row \in RowsOf(selected')]_vars
=============================================================================
