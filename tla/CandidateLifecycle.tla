------------------------- MODULE CandidateLifecycle -------------------------
(***************************************************************************)
(* The candidates of one job, from the sheet that brings them in to the    *)
(* evaluation shown on the results page.  Four kinds of process write the  *)
(* same candidate rows without a lock or a version check:                  *)
(*   - API requests (app/api/ingest.py), interleaved at their awaits;      *)
(*   - RQ work horses running process_candidate (app/workers/tasks.py);    *)
(*   - the stale-candidate watchdog, sweep_stale_candidates;               *)
(*   - time, which makes an untouched row stale.                           *)
(* Every session is created with expire_on_commit=False, so an actor acts  *)
(* on the row it first loaded.  An ORM flush writes only the columns whose *)
(* value differs from the loaded one: `seen', `running' and `tries' below  *)
(* are those loaded values.                                                *)
(***************************************************************************)
EXTENDS Naturals

CONSTANTS
  Cand,             \* the candidate ids that may ever be inserted (uuid4)
  Worker,           \* RQ workers; each forks one work horse at a time
  Sweeper,          \* processes that run sweep_stale_candidates
  Repeater,         \* the sweeper driven by RQ's Repeat (needs sched)
  Request,          \* API requests in flight at once
  MaxStaleRetries,  \* settings.stale_candidate_max_retries
  Faults,           \* which faults the environment may inject
  MaxRequests,      \* bound: API requests in a behaviour
  MaxCrashes        \* bound: process crashes and failed sweeps in a behaviour

FaultKinds == {"api", "horse", "db", "redis", "backlog"}

ASSUME RetriesAssumption  == MaxStaleRetries \in Nat
ASSUME RepeaterAssumption == Repeater \in Sweeper
ASSUME FaultsAssumption   == Faults \subseteq FaultKinds
ASSUME BoundsAssumption   == MaxRequests \in Nat /\ MaxCrashes \in Nat

VARIABLES
  status,    \* Candidate.status; "none" before the insert, "deleted" after
  stale,     \* Candidate.updated_at < now - stale_candidate_timeout_minutes
  retries,   \* Candidate.stale_retries
  lastEval,  \* what the newest Evaluation row of the candidate reports;
             \* "removed" once that row was deleted by hand
  queued,    \* entries for the candidate in the RQ queue or its retry set
  sched,     \* the recurring sweep is in RQ's scheduled registry
  horse,     \* the work horse of each worker
  sweep,     \* the pass of each sweeper
  req,       \* the API requests in flight
  nreq,      \* requests received so far
  ncrash     \* crashes and failed sweeps so far

rowVars == <<status, stale, retries, lastEval>>
vars == <<status, stale, retries, lastEval, queued, sched, horse, sweep, req,
          nreq, ncrash>>

Status   == {"none", "pending", "processing", "done", "failed", "deleted"}
Live     == {"pending", "processing", "done", "failed"}
EvalKind == {"none", "verdict", "error", "cancelled", "watchdog", "removed"}

Exists(c) == status[c] \notin {"none", "deleted"}
Open(c)   == status[c] \in {"pending", "processing"}

Horses   == [pc : {"idle"}] \cup
            [pc : {"begin", "work", "write", "fail"}, cand : Cand, seen : Live]
Sweeps   == [pc : {"idle"}] \cup
            [pc : {"scan"}, todo : SUBSET Cand, running : SUBSET Cand,
             tries : [Cand -> Nat]] \cup
            [pc : {"queued", "refused"}, at : Cand, todo : SUBSET Cand,
             running : SUBSET Cand, tries : [Cand -> Nat]]
Requests == [op : {"idle"}] \cup
            [op : {"ingest", "retry", "upload", "cancel"}, pc : {"read", "enqueue"},
             todo : SUBSET Cand, bad : SUBSET Cand, seen : Live]

Idle    == [pc |-> "idle"]
NoReq   == [op |-> "idle"]
Reads(op, S, st)   == [op |-> op, pc |-> "read", todo |-> S, bad |-> {}, seen |-> st]
Enqueues(op, S)    == [op |-> op, pc |-> "enqueue", todo |-> S, bad |-> {},
                       seen |-> "pending"]

(* An actor that holds a row has loaded one: `seen' is never the status of *)
(* a row that does not exist.                                              *)
TypeOK ==
  /\ status   \in [Cand -> Status]
  /\ stale    \in [Cand -> BOOLEAN]
  /\ retries  \in [Cand -> Nat]
  /\ lastEval \in [Cand -> EvalKind]
  /\ queued   \in [Cand -> Nat]
  /\ sched    \in BOOLEAN
  /\ horse    \in [Worker -> Horses]
  /\ sweep    \in [Sweeper -> Sweeps]
  /\ req      \in [Request -> Requests]
  /\ nreq     \in Nat
  /\ ncrash   \in Nat

Init ==
  /\ status   = [c \in Cand |-> "none"]
  /\ stale    = [c \in Cand |-> FALSE]
  /\ retries  = [c \in Cand |-> 0]
  /\ lastEval = [c \in Cand |-> "none"]
  /\ queued   = [c \in Cand |-> 0]
  /\ sched    = FALSE
  /\ horse    = [w \in Worker |-> Idle]
  /\ sweep    = [s \in Sweeper |-> Idle]
  /\ req      = [r \in Request |-> NoReq]
  /\ nreq = 0 /\ ncrash = 0

(***************************************************************************)
(* Row writes.  Any UPDATE of a candidate row bumps updated_at.            *)
(***************************************************************************)
Put(S, st) ==
  /\ status' = [c \in Cand |-> IF c \in S THEN st ELSE status[c]]
  /\ stale'  = [c \in Cand |-> stale[c] /\ c \notin S]

Report(S, kind) ==
  lastEval' = [c \in Cand |-> IF c \in S THEN kind ELSE lastEval[c]]

-----------------------------------------------------------------------------
(* API requests *)

Arrives(r) == req[r] = NoReq /\ nreq < MaxRequests /\ nreq' = nreq + 1
Holds(r, op, pc) == req[r] # NoReq /\ req[r].op = op /\ req[r].pc = pc

(* A sheet of new rows: one commit inserts them all as pending.            *)
IngestInsert(r, S) ==
  /\ Arrives(r)
  /\ S # {} /\ \A c \in S : status[c] = "none"
  /\ Put(S, "pending")
  /\ req' = [req EXCEPT ![r] = Enqueues("ingest", S)]
  /\ UNCHANGED <<retries, lastEval, queued, sched, horse, sweep, ncrash>>

(* retry_candidate takes one failed candidate, retry_failed_candidates     *)
(* every failed one with a resume on file: some set of failed candidates.  *)
RetryRead(r, S) ==
  /\ Arrives(r)
  /\ S # {} /\ \A c \in S : status[c] = "failed"
  /\ req' = [req EXCEPT ![r] = Reads("retry", S, "failed")]
  /\ UNCHANGED <<rowVars, queued, sched, horse, sweep, ncrash>>

(* The commit sets pending whatever the status is by now.  A single row    *)
(* that was deleted meanwhile fails the ORM flush; the bulk UPDATE skips   *)
(* it, and its id is enqueued all the same.                                *)
RetryCommit(r) ==
  /\ Holds(r, "retry", "read")
  /\ \/ /\ Put({c \in req[r].todo : Exists(c)}, "pending")
        /\ req' = [req EXCEPT ![r] = Enqueues("retry", req[r].todo)]
     \/ /\ \E c \in Cand : req[r].todo = {c} /\ ~Exists(c)
        /\ req' = [req EXCEPT ![r] = NoReq]
        /\ UNCHANGED <<status, stale>>
  /\ UNCHANGED <<retries, lastEval, queued, sched, horse, sweep, nreq, ncrash>>

(* upload_candidate_resume accepts a candidate in any status.              *)
UploadRead(r, c) ==
  /\ Arrives(r)
  /\ Exists(c)
  /\ req' = [req EXCEPT ![r] = Reads("upload", {c}, status[c])]
  /\ UNCHANGED <<rowVars, queued, sched, horse, sweep, ncrash>>

(* status = pending is written only if the loaded status differed; with a  *)
(* second upload of the same file name before any processing no candidate  *)
(* column changes at all.                                                  *)
UploadCommit(r) ==
  /\ Holds(r, "upload", "read")
  /\ \E c \in req[r].todo :
       \/ /\ ~Exists(c)
          /\ req' = [req EXCEPT ![r] = NoReq]
          /\ UNCHANGED <<status, stale>>
       \/ /\ Exists(c)
          /\ req' = [req EXCEPT ![r] = Enqueues("upload", {c})]
          /\ \/ req[r].seen # "pending" /\ Put({c}, "pending")
             \/ req[r].seen = "pending" /\ Put({c}, status[c])
             \/ req[r].seen = "pending" /\ UNCHANGED <<status, stale>>
  /\ UNCHANGED <<retries, lastEval, queued, sched, horse, sweep, nreq, ncrash>>

(* _enqueue_candidates, one id at a time, after the rows are committed.    *)
EnqueueOne(r, c) ==
  /\ req[r] # NoReq /\ req[r].pc = "enqueue" /\ c \in req[r].todo
  /\ \/ /\ queued' = [queued EXCEPT ![c] = @ + 1]
        /\ req' = [req EXCEPT ![r].todo = @ \ {c}]
     \/ /\ "redis" \in Faults
        /\ req' = [req EXCEPT ![r].todo = @ \ {c}, ![r].bad = @ \cup {c}]
        /\ UNCHANGED queued
  /\ UNCHANGED <<rowVars, sched, horse, sweep, nreq, ncrash>>

Enqueued(r, op) == Holds(r, op, "enqueue") /\ req[r].todo = {}

(* Wrong variant: fails the rows without an Evaluation.                    *)
IngestFinishSilent(r) ==
  /\ Enqueued(r, "ingest")
  /\ Put({c \in req[r].bad : Exists(c)}, "failed")
  /\ req' = [req EXCEPT ![r] = NoReq]
  /\ UNCHANGED <<retries, lastEval, queued, sched, horse, sweep, nreq, ncrash>>

(* The ids that could not be queued are failed with an Evaluation each, in *)
(* one transaction: a candidate deleted meanwhile breaks the foreign key   *)
(* of its Evaluation and rolls all of them back.                           *)
IngestFinish(r) ==
  /\ Enqueued(r, "ingest")
  /\ \/ /\ \A c \in req[r].bad : Exists(c)
        /\ Put(req[r].bad, "failed")
        /\ Report(req[r].bad, "error")
     \/ /\ \E c \in req[r].bad : ~Exists(c)
        /\ UNCHANGED <<status, stale, lastEval>>
  /\ req' = [req EXCEPT ![r] = NoReq]
  /\ UNCHANGED <<retries, queued, sched, horse, sweep, nreq, ncrash>>

(* Here no Evaluation is added: the one of the failure retried remains.    *)
RetryFinish(r) ==
  /\ Enqueued(r, "retry")
  /\ Put({c \in req[r].bad : Exists(c)}, "failed")
  /\ req' = [req EXCEPT ![r] = NoReq]
  /\ UNCHANGED <<retries, lastEval, queued, sched, horse, sweep, nreq, ncrash>>

(* A failed enqueue refunds the credit and leaves the row as it is.        *)
UploadFinish(r) ==
  /\ Enqueued(r, "upload")
  /\ req' = [req EXCEPT ![r] = NoReq]
  /\ UNCHANGED <<rowVars, queued, sched, horse, sweep, nreq, ncrash>>

(* cancel_pending_candidates selects the pending ids ...                   *)
CancelRead(r) ==
  /\ Arrives(r)
  /\ \E c \in Cand : status[c] = "pending"
  /\ req' = [req EXCEPT ![r] =
               Reads("cancel", {c \in Cand : status[c] = "pending"}, "pending")]
  /\ UNCHANGED <<rowVars, queued, sched, horse, sweep, ncrash>>

(* Wrong variant: adds the Evaluations without failing the rows.           *)
CancelReportsOnly(r) ==
  /\ Holds(r, "cancel", "read") /\ \A c \in req[r].todo : Exists(c)
  /\ Report(req[r].todo, "cancelled")
  /\ req' = [req EXCEPT ![r] = NoReq]
  /\ UNCHANGED <<status, stale, retries, queued, sched, horse, sweep, nreq, ncrash>>

(* ... and fails those ids with an Evaluation each, without looking at     *)
(* their status again and without touching the queue.                      *)
CancelCommit(r) ==
  /\ Holds(r, "cancel", "read")
  /\ \/ /\ \A c \in req[r].todo : Exists(c)
        /\ Put(req[r].todo, "failed")
        /\ Report(req[r].todo, "cancelled")
     \/ /\ \E c \in req[r].todo : ~Exists(c)
        /\ UNCHANGED <<status, stale, lastEval>>
  /\ req' = [req EXCEPT ![r] = NoReq]
  /\ UNCHANGED <<retries, queued, sched, horse, sweep, nreq, ncrash>>

(* delete_candidate and delete_all_candidates: rows and Evaluations go in  *)
(* one transaction, queue entries stay.                                    *)
Delete(S) ==
  /\ nreq < MaxRequests /\ nreq' = nreq + 1
  /\ S # {} /\ \A c \in S : Exists(c)
  /\ (\E c \in S : S = {c}) \/ S = {c \in Cand : Exists(c)}
  /\ Put(S, "deleted")
  /\ Report(S, "none")
  /\ UNCHANGED <<retries, queued, sched, horse, sweep, req, ncrash>>

(* delete_evaluation removes a row and leaves the candidate as it is.      *)
(* Removing an older row than the newest changes nothing here.             *)
DeleteEvaluation(c) ==
  /\ nreq < MaxRequests /\ nreq' = nreq + 1
  /\ lastEval[c] \notin {"none", "removed"}
  /\ Report({c}, "removed")
  /\ UNCHANGED <<status, stale, retries, queued, sched, horse, sweep, req, ncrash>>

(* update_candidate edits name or contact: to the watchdog the row is as   *)
(* fresh as if a worker had touched it.                                    *)
UpdateCandidate(c) ==
  /\ nreq < MaxRequests /\ nreq' = nreq + 1
  /\ Exists(c)
  /\ stale' = [stale EXCEPT ![c] = FALSE]
  /\ UNCHANGED <<status, retries, lastEval, queued, sched, horse, sweep, req, ncrash>>

(* The API process dies: every request in flight stops where it is.        *)
ApiCrash ==
  /\ "api" \in Faults /\ ncrash < MaxCrashes
  /\ \E r \in Request : req[r] # NoReq
  /\ ncrash' = ncrash + 1
  /\ req' = [r \in Request |-> NoReq]
  /\ UNCHANGED <<rowVars, queued, sched, horse, sweep, nreq>>

-----------------------------------------------------------------------------
(* The worker: process_candidate *)

On(w, pc) == horse[w].pc = pc
Goto(w, pc) == horse' = [horse EXCEPT ![w].pc = pc]
Ends(w)  == horse' = [horse EXCEPT ![w] = Idle]
Gone(w)  == ~Exists(horse[w].cand)

(* Wrong variant: goes on without looking whether the row was found.       *)
StartUnchecked(w, c) ==
  /\ On(w, "idle") /\ queued[c] > 0
  /\ queued' = [queued EXCEPT ![c] = @ - 1]
  /\ sched' = TRUE
  /\ horse' = [horse EXCEPT ![w] = [pc |-> "begin", cand |-> c, seen |-> status[c]]]
  /\ UNCHANGED <<rowVars, sweep, req, nreq, ncrash>>

(* A horse takes an entry, makes sure the sweep is scheduled (best effort: *)
(* a Redis error is swallowed) and loads the row.  A missing row ends it.  *)
Start(w, c) ==
  /\ On(w, "idle") /\ queued[c] > 0
  /\ queued' = [queued EXCEPT ![c] = @ - 1]
  /\ \/ sched' = TRUE
     \/ "redis" \in Faults /\ UNCHANGED sched
  /\ horse' = IF Exists(c)
                THEN [horse EXCEPT ![w] = [pc |-> "begin", cand |-> c,
                                           seen |-> status[c]]]
                ELSE horse
  /\ UNCHANGED <<rowVars, sweep, req, nreq, ncrash>>

(* status = processing, whatever the status was: a cancelled candidate is  *)
(* processed like any other.  A row loaded as processing is not written.   *)
Begin(w) ==
  /\ On(w, "begin")
  /\ \/ /\ horse[w].seen = "processing"
        /\ Goto(w, "work")
        /\ UNCHANGED <<status, stale>>
     \/ /\ horse[w].seen # "processing" /\ ~Gone(w)
        /\ Put({horse[w].cand}, "processing")
        /\ Goto(w, "work")
     \/ /\ horse[w].seen # "processing" /\ Gone(w)
        /\ Ends(w)
        /\ UNCHANGED <<status, stale>>
  /\ UNCHANGED <<retries, lastEval, queued, sched, sweep, req, nreq, ncrash>>

(* Resume text, verdict cache, parse, filters, embedding, match, judge,    *)
(* score.  The commits on the way touch the row if a column changed (and   *)
(* then fail if it is gone); any exception leads to the failure handler.   *)
Work(w) ==
  /\ On(w, "work")
  /\ \/ Goto(w, "write") /\ UNCHANGED stale
     \/ ~Gone(w) /\ Goto(w, "write") /\ stale' = [stale EXCEPT ![horse[w].cand] = FALSE]
     \/ Goto(w, "fail") /\ UNCHANGED stale
     \/ ~Gone(w) /\ Goto(w, "fail") /\ stale' = [stale EXCEPT ![horse[w].cand] = FALSE]
     \/ Gone(w) /\ Ends(w) /\ UNCHANGED stale
  /\ UNCHANGED <<status, retries, lastEval, queued, sched, sweep, req, nreq, ncrash>>

(* Wrong variant: an upsert instead of an UPDATE.                          *)
SettleUpserts(w, st, kind) ==
  /\ Put({horse[w].cand}, st) /\ Report({horse[w].cand}, kind) /\ Ends(w)
  /\ UNCHANGED <<retries, queued, sched, sweep, req, nreq, ncrash>>

(* _write_evaluation and the failure handler: one Evaluation and the       *)
(* status in one commit, which fails as a whole if the row is gone.        *)
Settle(w, st, kind) ==
  /\ \/ ~Gone(w) /\ Put({horse[w].cand}, st) /\ Report({horse[w].cand}, kind)
     \/ Gone(w) /\ UNCHANGED <<status, stale, lastEval>>
  /\ Ends(w)
  /\ UNCHANGED <<retries, queued, sched, sweep, req, nreq, ncrash>>

(* Wrong variants, never part of Next, that the properties must reject.    *)
VerdictKeepsStatus(w)  == On(w, "write") /\ Settle(w, status[horse[w].cand], "verdict")
FailureUnexplained(w)  == On(w, "fail") /\ Settle(w, "failed", lastEval[horse[w].cand])

WriteVerdict(w)  == On(w, "write") /\ Settle(w, "done", "verdict")
RecordFailure(w) == On(w, "fail") /\ Settle(w, "failed", "error")

(* A failed flush or commit leaves the session inactive: the failure       *)
(* handler's own commit then fails too, and the job returns normally.      *)
DbError(w) ==
  /\ "db" \in Faults /\ ~On(w, "idle")
  /\ Ends(w)
  /\ UNCHANGED <<rowVars, queued, sched, sweep, req, nreq, ncrash>>

(* The horse is killed: RQ puts the job back (Retry) or it is lost.        *)
HorseDies(w) ==
  /\ "horse" \in Faults /\ ncrash < MaxCrashes /\ ~On(w, "idle")
  /\ ncrash' = ncrash + 1
  /\ Ends(w)
  /\ \/ queued' = [queued EXCEPT ![horse[w].cand] = @ + 1]
     \/ UNCHANGED queued
  /\ UNCHANGED <<rowVars, sched, sweep, req, nreq>>

-----------------------------------------------------------------------------
(* The watchdog: sweep_stale_candidates *)

(* Wrong variant: selects only the rows left in processing.                *)
SweepSelectRunning(s) ==
  LET S == {c \in Cand : status[c] = "processing" /\ stale[c]} IN
  /\ sweep[s] = Idle /\ (s = Repeater => sched) /\ S # {}
  /\ sweep' = [sweep EXCEPT ![s] =
                 [pc |-> "scan", todo |-> S, running |-> S, tries |-> retries]]
  /\ UNCHANGED <<rowVars, queued, sched, horse, req, nreq, ncrash>>

(* One SELECT loads every stale open row; nothing is read again.           *)
SweepSelect(s) ==
  LET S == {c \in Cand : Open(c) /\ stale[c]} IN
  /\ sweep[s] = Idle /\ (s = Repeater => sched)
  /\ S # {}
  /\ sweep' = [sweep EXCEPT ![s] =
                 [pc |-> "scan", todo |-> S,
                  running |-> {c \in S : status[c] = "processing"},
                  tries |-> retries]]
  /\ UNCHANGED <<rowVars, queued, sched, horse, req, nreq, ncrash>>

After(s, c) ==
  IF sweep[s].todo = {c} THEN Idle
  ELSE [pc |-> "scan", todo |-> sweep[s].todo \ {c},
        running |-> sweep[s].running, tries |-> sweep[s].tries]

(* An exception leaves the loop; RQ does not repeat a job that failed.     *)
Abandons(s) ==
  /\ sweep' = [sweep EXCEPT ![s] = Idle]
  /\ sched' = (sched /\ s # Repeater)

SweepGiveUp(s, c) ==
  /\ sweep[s].pc = "scan" /\ c \in sweep[s].todo
  /\ sweep[s].tries[c] >= MaxStaleRetries
  /\ \/ /\ Exists(c)
        /\ Put({c}, "failed") /\ Report({c}, "watchdog")
        /\ sweep' = [sweep EXCEPT ![s] = After(s, c)]
        /\ UNCHANGED sched
     \/ ~Exists(c) /\ Abandons(s) /\ UNCHANGED <<status, stale, lastEval>>
  /\ UNCHANGED <<retries, queued, horse, req, nreq, ncrash>>

(* Wrong variant: one retry too many.                                      *)
SweepEnqueueOneMore(s, c) ==
  /\ sweep[s].pc = "scan" /\ c \in sweep[s].todo
  /\ sweep[s].tries[c] <= MaxStaleRetries
  /\ queued' = [queued EXCEPT ![c] = @ + 1]
  /\ sweep' = [sweep EXCEPT ![s] =
                 [pc |-> "queued", at |-> c, todo |-> sweep[s].todo,
                  running |-> sweep[s].running, tries |-> sweep[s].tries]]
  /\ UNCHANGED <<rowVars, sched, horse, req, nreq, ncrash>>

(* The entry is queued before the row is committed.                        *)
SweepEnqueue(s, c) ==
  /\ sweep[s].pc = "scan" /\ c \in sweep[s].todo
  /\ sweep[s].tries[c] < MaxStaleRetries
  /\ \E pc \in {"queued", "refused"} :
       /\ sweep' = [sweep EXCEPT ![s] =
                      [pc |-> pc, at |-> c, todo |-> sweep[s].todo,
                       running |-> sweep[s].running, tries |-> sweep[s].tries]]
       /\ \/ pc = "queued" /\ queued' = [queued EXCEPT ![c] = @ + 1]
          \/ pc = "refused" /\ "redis" \in Faults /\ UNCHANGED queued
  /\ UNCHANGED <<rowVars, sched, horse, req, nreq, ncrash>>

(* stale_retries is set to the loaded value plus one; pending is written   *)
(* only over a row loaded as processing.                                   *)
SweepCommit(s) ==
  /\ sweep[s].pc \in {"queued", "refused"}
  /\ LET c == sweep[s].at IN
     \/ /\ Exists(c)
        /\ retries' = [retries EXCEPT ![c] = sweep[s].tries[c] + 1]
        /\ \/ /\ sweep[s].pc = "refused"
              /\ Put({c}, "failed") /\ Report({c}, "watchdog")
           \/ /\ sweep[s].pc = "queued"
              /\ Put({c}, IF c \in sweep[s].running THEN "pending" ELSE status[c])
              /\ UNCHANGED lastEval
        /\ sweep' = [sweep EXCEPT ![s] = After(s, c)]
        /\ UNCHANGED sched
     \/ /\ ~Exists(c)
        /\ Abandons(s)
        /\ UNCHANGED rowVars
  /\ UNCHANGED <<queued, horse, req, nreq, ncrash>>

(* A database error or the death of its horse ends the pass.               *)
SweepDies(s) ==
  /\ sweep[s] # Idle /\ Faults \cap {"db", "horse"} # {}
  /\ ncrash < MaxCrashes /\ ncrash' = ncrash + 1
  /\ Abandons(s)
  /\ UNCHANGED <<rowVars, queued, horse, req, nreq>>

-----------------------------------------------------------------------------
(* Time *)

InRequest(c) == \E r \in Request : req[r] # NoReq /\ c \in req[r].todo \cup req[r].bad
InSweep(c)   == \E s \in Sweeper : sweep[s] # Idle /\ c \in sweep[s].todo
InHorse(c)   == \E w \in Worker : ~On(w, "idle") /\ horse[w].cand = c

Abandoned(c) == queued[c] = 0 /\ ~InHorse(c) /\ ~InRequest(c)

(* The stale timeout passes without a write to c.  A request, a sweep or a *)
(* horse takes ten minutes at most, so c is in none of them; it waits in   *)
(* the queue only if the workers are more than an hour behind.             *)
TimePasses(c) ==
  /\ Open(c) /\ ~stale[c] /\ ~InSweep(c) /\ ~InHorse(c) /\ ~InRequest(c)
  /\ queued[c] = 0 \/ "backlog" \in Faults
  /\ stale' = [stale EXCEPT ![c] = TRUE]
  /\ UNCHANGED <<status, retries, lastEval, queued, sched, horse, sweep, req,
                 nreq, ncrash>>

-----------------------------------------------------------------------------
RequestStep(r) ==
  \/ RetryCommit(r) \/ UploadCommit(r) \/ CancelCommit(r)
  \/ \E c \in Cand : EnqueueOne(r, c)
  \/ IngestFinish(r) \/ RetryFinish(r) \/ UploadFinish(r)

User ==
  \/ \E r \in Request :
       \/ \E S \in SUBSET Cand : IngestInsert(r, S) \/ RetryRead(r, S)
       \/ \E c \in Cand : UploadRead(r, c)
       \/ CancelRead(r)
  \/ \E S \in SUBSET Cand : Delete(S)
  \/ \E c \in Cand : DeleteEvaluation(c) \/ UpdateCandidate(c)

HorseStep(w) == Begin(w) \/ Work(w) \/ WriteVerdict(w) \/ RecordFailure(w)

SweepRuns(s) ==
  SweepCommit(s) \/ \E c \in Cand : SweepGiveUp(s, c) \/ SweepEnqueue(s, c)

SweepStep(s) == SweepSelect(s) \/ SweepRuns(s)

Crash ==
  \/ ApiCrash
  \/ \E w \in Worker : DbError(w) \/ HorseDies(w)
  \/ \E s \in Sweeper : SweepDies(s)

Next ==
  \/ User
  \/ \E r \in Request : RequestStep(r)
  \/ \E w \in Worker : HorseStep(w) \/ \E c \in Cand : Start(w, c)
  \/ \E s \in Sweeper : SweepStep(s)
  \/ \E c \in Cand : TimePasses(c)
  \/ Crash

Spec == Init /\ [][Next]_vars

(* Requests, horses and sweeps run to their end, the queue is FIFO (an     *)
(* entry waits for a free worker, not forever), the scheduler runs the     *)
(* recurring sweep while it is scheduled, and time passes.  Users owe      *)
(* nothing, and nobody has to start another sweep.                         *)
Fairness ==
  /\ \A r \in Request : WF_vars(RequestStep(r))
  /\ \A w \in Worker : WF_vars(HorseStep(w))
  /\ \A c \in Cand : SF_vars(\E w \in Worker : Start(w, c))
  /\ \A s \in Sweeper : WF_vars(SweepRuns(s))
  /\ WF_vars(SweepStep(Repeater))
  /\ \A c \in Cand : WF_vars(TimePasses(c))

FairSpec == Spec /\ Fairness
-----------------------------------------------------------------------------
(***************************************************************************)
(* Properties                                                              *)
(***************************************************************************)

(* A candidate shown as done has a verdict as its newest Evaluation,       *)
(* whatever races for the row: every writer of done adds the verdict in    *)
(* the same commit, and every writer of another report takes done away     *)
(* in the same commit (unless the recruiter removed the Evaluation).       *)
DoneHasVerdict ==
  \A c \in Cand : status[c] = "done" => lastEval[c] \in {"verdict", "removed"}

(* A failed candidate has an Evaluation that says why (or the recruiter    *)
(* removed it), also when a retry could not be queued and sets failed      *)
(* back without adding one.                                                *)
FailedIsExplained ==
  \A c \in Cand : status[c] = "failed" => lastEval[c] # "none"

(* A removal request is final: after delete_candidate no late commit of a  *)
(* worker, the watchdog or another request brings the row or an            *)
(* Evaluation of it back.                                                  *)
RemovalIsFinal ==
  [][\A c \in Cand :
       status[c] = "deleted" => status'[c] = "deleted" /\ lastEval'[c] = "none"]_vars

(* stale_retries never exceeds stale_candidate_max_retries, although each  *)
(* sweep writes the count it loaded plus one.                              *)
StaleRetriesBounded == \A c \in Cand : retries[c] <= MaxStaleRetries

(* A candidate nobody works for is not left open: a pending one has a      *)
(* queue entry, a horse or a request about to queue it, a processing one   *)
(* has a horse that will write its outcome.  Meant for runs without        *)
(* faults: only the watchdog repairs what a fault loses.                   *)
NoneForgotten ==
  \A c \in Cand :
    /\ status[c] = "pending" => ~Abandoned(c)
    /\ status[c] = "processing" =>
         \E w \in Worker : ~On(w, "idle") /\ ~On(w, "begin") /\ horse[w].cand = c

(* While the recurring sweep stays scheduled, every open candidate is      *)
(* settled in the end: done, failed or deleted, whatever crashed.          *)
EventuallySettled ==
  <>[]sched => \A c \in Cand : Open(c) ~> ~Open(c)

(* cancel-pending "only affects candidates still in pending status"        *)
(* (ingest.py:90): what it fails was pending when it failed it.            *)
CancelFailsOnlyPending ==
  [][\A c \in Cand :
       lastEval'[c] = "cancelled" /\ lastEval[c] # "cancelled"
         => status[c] = "pending"]_vars

(* A candidate "cancelled by user before processing started"               *)
(* (ingest.py:117) is not processed unless somebody retries it.            *)
CancelledStaysCancelled ==
  [][\A c \in Cand :
       status[c] = "failed" /\ lastEval[c] = "cancelled"
         => status'[c] # "processing"]_vars

(* The watchdog gives up on a candidate "whose worker died mid-job and     *)
(* will never touch this row again" (models.py:104), not on one that is    *)
(* "genuinely still queued".                                               *)
WatchdogSparesQueued ==
  [][\A c \in Cand :
       lastEval'[c] = "watchdog" /\ lastEval[c] # "watchdog"
         => queued[c] = 0]_vars

(* The sweep is "safe to run concurrently or back-to-back" (tasks.py:346): *)
(* it never takes a finished evaluation away.                              *)
SweepKeepsVerdicts ==
  [][\A c \in Cand, s \in Sweeper :
       sweep'[s] # sweep[s] /\ status[c] = "done" => status'[c] = "done"]_vars

(* What the results page shows of a candidate.  "blank" would be an        *)
(* outcome without its report: CandidateBoard has no such value.           *)
Shown(c) ==
  CASE status[c] = "none"       -> "absent"
    [] status[c] = "deleted"    -> "gone"
    [] Open(c)                  -> "inProgress"
    [] status[c] = "done" /\ lastEval[c] \notin {"verdict", "removed"} -> "blank"
    [] status[c] = "failed" /\ lastEval[c] = "none"                   -> "blank"
    [] OTHER -> CASE lastEval[c] = "verdict" -> "verdict"
                  [] lastEval[c] = "removed" -> "cleared"
                  [] OTHER                   -> "reason"


Board == INSTANCE CandidateBoard WITH shown <- [c \in Cand |-> Shown(c)]

(* The row-level protocol implements the board: no interleaving of         *)
(* requests, horses, sweeps and crashes shows an outcome without a report, *)
(* an outcome of a candidate never in progress, or a removed candidate.    *)
ImplementsBoard == Board!Spec
=============================================================================
