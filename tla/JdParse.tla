------------------------------- MODULE JdParse -------------------------------
(***************************************************************************)
(* A job's description is parsed by the LLM when the job is created        *)
(* (app/api/jobs.py), or, if the LLM backend is down then, by a queued     *)
(* task (parse_job_description in app/workers/tasks.py).  Until then       *)
(* jd_parse_pending keeps candidates out (app/api/ingest.py).              *)
(***************************************************************************)
EXTENDS Naturals

CONSTANTS
  Job,        \* the jobs that may be created
  JdWorker,   \* RQ workers
  Sheet,      \* sheet uploads in flight at once
  JdFaults,   \* which faults may happen
  MaxSheets,  \* bound: sheets accepted per job
  MaxEdits,   \* bound: PATCHes per job
  MaxTroubles \* bound: outages, database errors and deaths of horses

FaultKinds == {"api", "horse", "db", "redis"}

ASSUME JdFaultsAssumption == JdFaults \subseteq FaultKinds
ASSUME IdleAssumption     == "idle" \notin Job

VARIABLES
  jd,        \* "pending": jd_parse_pending; "parsed": a parsed description
  creating,  \* create_job has committed the row but not yet queued the parse
  entries,   \* entries of parse_job_description in the RQ queue
  edits,     \* PATCHes of the job so far
  rows,      \* sheets whose candidates were inserted
  sheet,     \* uploads past the jd_parse_pending check: the job, or "idle"
  parser,    \* the job each worker is parsing, or "idle"
  up,        \* the LLM backend answers
  troubles   \* outages, database errors and deaths of horses so far

jdVars == <<jd, creating, entries, edits, rows, sheet, parser, up, troubles>>

(* A description is queued at most once, and a job deleted or parsed in    *)
(* another way meanwhile does not change that: entries is 0 or 1.          *)
JdTypeOK ==
  /\ jd       \in [Job -> {"none", "pending", "parsed", "deleted"}]
  /\ creating \in [Job -> BOOLEAN]
  /\ entries  \in [Job -> 0..1]
  /\ edits    \in [Job -> Nat]
  /\ rows     \in [Job -> Nat]
  /\ sheet    \in [Sheet -> Job \cup {"idle"}]
  /\ parser   \in [JdWorker -> Job \cup {"idle"}]
  /\ up       \in BOOLEAN
  /\ troubles \in Nat

JdInit ==
  /\ jd       = [j \in Job |-> "none"]
  /\ creating = [j \in Job |-> FALSE]
  /\ entries  = [j \in Job |-> 0]
  /\ edits    = [j \in Job |-> 0]
  /\ rows     = [j \in Job |-> 0]
  /\ sheet    = [s \in Sheet |-> "idle"]
  /\ parser   = [w \in JdWorker |-> "idle"]
  /\ up \in BOOLEAN
  /\ troubles = 0

Trouble   == troubles < MaxTroubles /\ troubles' = troubles + 1
Exists(j) == jd[j] \in {"pending", "parsed"}
-----------------------------------------------------------------------------
(* API requests *)

(* A description reviewed in the wizard is taken as it is, one parsed now  *)
(* needs the LLM; without it the job is saved as pending.                  *)
Create(j) ==
  /\ jd[j] = "none"
  /\ \/ jd' = [jd EXCEPT ![j] = "parsed"] /\ UNCHANGED creating
     \/ /\ ~up
        /\ jd' = [jd EXCEPT ![j] = "pending"]
        /\ creating' = [creating EXCEPT ![j] = TRUE]
  /\ UNCHANGED <<entries, edits, rows, sheet, parser, up, troubles>>

(* _enqueue_jd_parse is best effort: Redis may refuse, or the API die.     *)
CreateEnqueue(j) ==
  /\ creating[j]
  /\ creating' = [creating EXCEPT ![j] = FALSE]
  /\ \/ entries' = [entries EXCEPT ![j] = @ + 1]
     \/ JdFaults \cap {"redis", "api"} # {} /\ UNCHANGED entries
  /\ UNCHANGED <<jd, edits, rows, sheet, parser, up, troubles>>

(* Wrong variant: re-saving a pending job queues its parse, without looking *)
(* whether one is queued already.                                          *)
UpdateRequeues(j) ==
  /\ Exists(j) /\ edits[j] < MaxEdits
  /\ edits' = [edits EXCEPT ![j] = @ + 1]
  /\ entries' = [entries EXCEPT ![j] = IF jd[j] = "pending" THEN @ + 1 ELSE @]
  /\ UNCHANGED <<jd, creating, rows, sheet, parser, up, troubles>>

(* update_job: title, weights or thresholds; jd_raw cannot change, and     *)
(* nothing is queued.                                                      *)
Update(j) ==
  /\ Exists(j) /\ edits[j] < MaxEdits
  /\ edits' = [edits EXCEPT ![j] = @ + 1]
  /\ UNCHANGED <<jd, creating, entries, rows, sheet, parser, up, troubles>>

(* delete_job takes the candidates along, the queue entry stays.           *)
Delete(j) ==
  /\ Exists(j)
  /\ jd' = [jd EXCEPT ![j] = "deleted"]
  /\ rows' = [rows EXCEPT ![j] = 0]
  /\ UNCHANGED <<creating, entries, edits, sheet, parser, up, troubles>>

(* Wrong variant: no 409 while the description is pending.                 *)
SheetUnchecked(s, j) ==
  /\ sheet[s] = "idle" /\ Exists(j) /\ rows[j] < MaxSheets
  /\ sheet' = [sheet EXCEPT ![s] = j]
  /\ UNCHANGED <<jd, creating, entries, edits, rows, parser, up, troubles>>

(* ingest_candidates loads the job and refuses (409) a pending one ...     *)
SheetCheck(s, j) ==
  /\ sheet[s] = "idle" /\ jd[j] = "parsed" /\ rows[j] < MaxSheets
  /\ sheet' = [sheet EXCEPT ![s] = j]
  /\ UNCHANGED <<jd, creating, entries, edits, rows, parser, up, troubles>>

(* ... reads the file, and inserts the rows without looking at the job     *)
(* again; the foreign key refuses them if the job is gone.                 *)
SheetInsert(s) ==
  /\ sheet[s] # "idle"
  /\ rows' = [rows EXCEPT ![sheet[s]] = IF Exists(sheet[s]) THEN @ + 1 ELSE @]
  /\ sheet' = [sheet EXCEPT ![s] = "idle"]
  /\ UNCHANGED <<jd, creating, entries, edits, parser, up, troubles>>

-----------------------------------------------------------------------------
(* parse_job_description *)

(* A job that is missing, or parsed already, ends the task.                *)
Take(w, j) ==
  /\ parser[w] = "idle" /\ entries[j] > 0
  /\ entries' = [entries EXCEPT ![j] = @ - 1]
  /\ parser' = IF jd[j] = "pending" THEN [parser EXCEPT ![w] = j] ELSE parser
  /\ UNCHANGED <<jd, creating, edits, rows, sheet, up, troubles>>

(* Wrong variant: the flag is not cleared.                                 *)
ParsedStillPending(w) ==
  /\ parser[w] # "idle" /\ up
  /\ parser' = [parser EXCEPT ![w] = "idle"]
  /\ UNCHANGED <<jd, creating, entries, edits, rows, sheet, up, troubles>>

(* Wrong variant: an upsert instead of an UPDATE.                          *)
ParsedUpserts(w) ==
  /\ parser[w] # "idle" /\ up
  /\ jd' = [jd EXCEPT ![parser[w]] = "parsed"]
  /\ parser' = [parser EXCEPT ![w] = "idle"]
  /\ UNCHANGED <<creating, entries, edits, rows, sheet, up, troubles>>

(* The description and the flag are committed together; the UPDATE of a    *)
(* deleted job fails, and that is swallowed like any exception.            *)
Parsed(w) ==
  /\ parser[w] # "idle" /\ up
  /\ jd' = IF Exists(parser[w]) THEN [jd EXCEPT ![parser[w]] = "parsed"] ELSE jd
  /\ parser' = [parser EXCEPT ![w] = "idle"]
  /\ UNCHANGED <<creating, entries, edits, rows, sheet, up, troubles>>

(* The except clause only logs: RQ sees a job that succeeded.              *)
ParseFails(w) ==
  /\ parser[w] # "idle"
  /\ \/ ~up /\ UNCHANGED troubles
     \/ up /\ "db" \in JdFaults /\ Trouble
  /\ parser' = [parser EXCEPT ![w] = "idle"]
  /\ UNCHANGED <<jd, creating, entries, edits, rows, sheet, up>>

(* Only the death of the horse makes RQ put the entry back (or lose it).   *)
HorseDies(w) ==
  /\ "horse" \in JdFaults /\ parser[w] # "idle" /\ Trouble
  /\ parser' = [parser EXCEPT ![w] = "idle"]
  /\ \/ entries' = [entries EXCEPT ![parser[w]] = @ + 1]
     \/ UNCHANGED entries
  /\ UNCHANGED <<jd, creating, edits, rows, sheet, up>>

-----------------------------------------------------------------------------
LlmDown ==
  /\ up /\ Trouble
  /\ up' = FALSE
  /\ UNCHANGED <<jd, creating, entries, edits, rows, sheet, parser>>

LlmUp ==
  /\ ~up /\ up' = TRUE
  /\ UNCHANGED <<jd, creating, entries, edits, rows, sheet, parser, troubles>>

JdNext ==
  \/ \E j \in Job : Create(j) \/ CreateEnqueue(j) \/ Update(j) \/ Delete(j)
  \/ \E s \in Sheet : SheetInsert(s) \/ \E j \in Job : SheetCheck(s, j)
  \/ \E w \in JdWorker :
       \/ \E j \in Job : Take(w, j)
       \/ Parsed(w) \/ ParseFails(w) \/ HorseDies(w)
  \/ LlmDown \/ LlmUp

JdSpec == JdInit /\ [][JdNext]_jdVars

(* create_job runs to its end, the queue is FIFO (an entry waits for a     *)
(* free worker, not forever), and a parse ends: the LLM calls time out.    *)
JdFairSpec ==
  /\ JdSpec
  /\ \A j \in Job : WF_jdVars(CreateEnqueue(j)) /\ SF_jdVars(\E w \in JdWorker : Take(w, j))
  /\ \A w \in JdWorker : WF_jdVars(Parsed(w) \/ ParseFails(w))
-----------------------------------------------------------------------------
(* Candidates are never evaluated against an empty description: a job has  *)
(* candidates only once its description is parsed, although the check and  *)
(* the insert are apart and the job may be parsed or deleted in between.   *)
NoneBeforeParse == \A j \in Job : rows[j] > 0 => jd[j] = "parsed"

(* A deleted job stays deleted, whatever parse is in flight for it.        *)
DeletionIsFinal ==
  [][\A j \in Job : jd[j] = "deleted" => jd'[j] = "deleted" /\ rows'[j] = 0]_jdVars

(* A queued parse is all a pending job needs, if nothing goes wrong from   *)
(* then on.                                                                *)
QueuedParseSucceeds ==
  \A j \in Job :
    jd[j] = "pending" /\ entries[j] > 0 /\ up /\ troubles = MaxTroubles
      ~> jd[j] # "pending"

(* parse_job_description "leaves jd_parse_pending=True on failure so RQ's  *)
(* own retry policy can try again" (tasks.py:140-142): once the backend    *)
(* stays up, no job stays pending.                                         *)
PendingIsParsed ==
  <>[]up => \A j \in Job : jd[j] = "pending" ~> jd[j] # "pending"

(* A pending job "can be retried by re-saving it" (jobs.py:26).            *)
ResaveRetries ==
  [][\A j \in Job : edits'[j] # edits[j] /\ jd[j] = "pending" =>
       entries'[j] > 0 \/ creating[j] \/ \E w \in JdWorker : parser[w] = j]_jdVars
=============================================================================
