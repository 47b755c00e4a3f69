---------------------- MODULE CandidateLifecycleProofs ----------------------
(***************************************************************************)
(* Theorems about CandidateLifecycle, for any sets of candidates, workers, *)
(* sweepers and requests and any faults.                                   *)
(***************************************************************************)
EXTENDS CandidateLifecycle, TLAPS

LEMMA PutType ==
  ASSUME TypeOK, NEW S, NEW st \in Status, Put(S, st)
  PROVE  status' \in [Cand -> Status] /\ stale' \in [Cand -> BOOLEAN]
BY DEF TypeOK, Put

LEMMA ReportType ==
  ASSUME TypeOK, NEW S, NEW k \in EvalKind, Report(S, k)
  PROVE  lastEval' \in [Cand -> EvalKind]
BY DEF TypeOK, Report

LEMMA RequestTypes ==
  /\ NoReq \in Requests
  /\ \A op \in {"ingest", "retry", "upload", "cancel"}, S \in SUBSET Cand, st \in Live :
       Reads(op, S, st) \in Requests /\ Enqueues(op, S) \in Requests
BY DEF NoReq, Reads, Enqueues, Requests, Live

LEMMA LiveRow == ASSUME TypeOK, NEW c \in Cand, Exists(c) PROVE status[c] \in Live
BY DEF TypeOK, Exists, Status, Live

LEMMA TypeInit == Init => TypeOK
<1>1. Idle \in Horses /\ Idle \in Sweeps /\ NoReq \in Requests
  BY DEF Idle, NoReq, Horses, Sweeps, Requests
<1> SUFFICES ASSUME Init PROVE TypeOK
  OBVIOUS
<1>2. horse \in [Worker -> Horses] /\ sweep \in [Sweeper -> Sweeps]
      /\ req \in [Request -> Requests]
  BY <1>1 DEF Init
<1>3. status \in [Cand -> Status] /\ lastEval \in [Cand -> EvalKind]
  BY DEF Init, Status, EvalKind
<1>4. stale \in [Cand -> BOOLEAN] /\ retries \in [Cand -> Nat]
      /\ queued \in [Cand -> Nat] /\ sched \in BOOLEAN
  BY DEF Init
<1> QED
  BY <1>2, <1>3, <1>4 DEF Init, TypeOK

LEMMA TypeUser == TypeOK /\ User => TypeOK'
<1> SUFFICES ASSUME TypeOK, User PROVE TypeOK'
  OBVIOUS
<1>1. ASSUME NEW r \in Request, NEW S \in SUBSET Cand, IngestInsert(r, S)
      PROVE  TypeOK'
  <2>1. Enqueues("ingest", S) \in Requests
    BY RequestTypes DEF Live
  <2> QED
    BY <1>1, <2>1, PutType DEF IngestInsert, Arrives, TypeOK, Status
<1>2. ASSUME NEW r \in Request, NEW S \in SUBSET Cand, RetryRead(r, S)
      PROVE  TypeOK'
  <2>1. Reads("retry", S, "failed") \in Requests
    BY RequestTypes DEF Live
  <2> QED
    BY <1>2, <2>1 DEF RetryRead, Arrives, TypeOK, rowVars
<1>3. ASSUME NEW r \in Request, NEW c \in Cand, UploadRead(r, c)
      PROVE  TypeOK'
  <2>1. Reads("upload", {c}, status[c]) \in Requests
    BY <1>3, RequestTypes, LiveRow DEF UploadRead
  <2> QED
    BY <1>3, <2>1 DEF UploadRead, Arrives, TypeOK, rowVars
<1>4. ASSUME NEW r \in Request, CancelRead(r)
      PROVE  TypeOK'
  <2>1. Reads("cancel", {c \in Cand : status[c] = "pending"}, "pending") \in Requests
    BY RequestTypes DEF Live
  <2> QED
    BY <1>4, <2>1 DEF CancelRead, Arrives, TypeOK, rowVars
<1>5. ASSUME NEW S \in SUBSET Cand, Delete(S)
      PROVE  TypeOK'
  BY <1>5, PutType, ReportType DEF Delete, TypeOK, Status, EvalKind
<1>6. ASSUME NEW c \in Cand, DeleteEvaluation(c)
      PROVE  TypeOK'
  BY <1>6, ReportType DEF DeleteEvaluation, TypeOK, EvalKind
<1>7. ASSUME NEW c \in Cand, UpdateCandidate(c)
      PROVE  TypeOK'
  BY <1>7 DEF UpdateCandidate, TypeOK
<1> QED
  BY <1>1, <1>2, <1>3, <1>4, <1>5, <1>6, <1>7 DEF User

LEMMA TypeRequest == ASSUME TypeOK, NEW r \in Request, RequestStep(r) PROVE TypeOK'
<1>1. CASE RetryCommit(r)
  <2>1. Enqueues("retry", req[r].todo) \in Requests /\ NoReq \in Requests
    <3>1. req[r].todo \in SUBSET Cand
      BY <1>1 DEF RetryCommit, Holds, TypeOK, Requests, NoReq
    <3> QED
      BY <3>1, RequestTypes DEF Live
  <2> QED
    BY <1>1, <2>1, PutType DEF RetryCommit, TypeOK, Status
<1>2. CASE UploadCommit(r)
  <2>1. PICK c \in req[r].todo :
          \/ ~Exists(c) /\ req' = [req EXCEPT ![r] = NoReq] /\ UNCHANGED <<status, stale>>
          \/ /\ req' = [req EXCEPT ![r] = Enqueues("upload", {c})]
             /\ Put({c}, "pending") \/ Put({c}, status[c]) \/ UNCHANGED <<status, stale>>
    BY <1>2 DEF UploadCommit
  <2>2. c \in Cand
    BY <1>2, <2>1 DEF UploadCommit, Holds, TypeOK, Requests, NoReq
  <2>3. req' \in [Request -> Requests]
    BY <2>1, <2>2, RequestTypes DEF TypeOK, Live
  <2>4. status' \in [Cand -> Status] /\ stale' \in [Cand -> BOOLEAN]
    <3>1. CASE UNCHANGED <<status, stale>>
      BY <3>1 DEF TypeOK
    <3>2. ASSUME NEW st \in Status, Put({c}, st)
          PROVE  status' \in [Cand -> Status] /\ stale' \in [Cand -> BOOLEAN]
      BY <3>2, PutType
    <3> QED
      BY <2>1, <2>2, <3>1, <3>2 DEF TypeOK, Status
  <2> QED
    BY <1>2, <2>3, <2>4 DEF UploadCommit, TypeOK
<1>3. CASE CancelCommit(r)
  BY <1>3, PutType, ReportType, RequestTypes DEF CancelCommit, TypeOK, Status, EvalKind
<1>4. ASSUME NEW c \in Cand, EnqueueOne(r, c) PROVE TypeOK'
  BY <1>4 DEF EnqueueOne, TypeOK, Requests, NoReq, rowVars
<1>5. CASE IngestFinish(r)
  BY <1>5, PutType, ReportType, RequestTypes DEF IngestFinish, TypeOK, Status, EvalKind
<1>6. CASE RetryFinish(r)
  BY <1>6, PutType, RequestTypes DEF RetryFinish, TypeOK, Status
<1>7. CASE UploadFinish(r)
  BY <1>7, RequestTypes DEF UploadFinish, TypeOK, rowVars
<1> QED
  BY <1>1, <1>2, <1>3, <1>4, <1>5, <1>6, <1>7 DEF RequestStep

LEMMA TypeHorse ==
  ASSUME TypeOK, NEW w \in Worker,
         HorseStep(w) \/ (\E c \in Cand : Start(w, c)) \/ DbError(w) \/ HorseDies(w)
  PROVE  TypeOK'
<1>1. ASSUME NEW c \in Cand, Start(w, c) PROVE TypeOK'
  <2>1. Exists(c) => [pc |-> "begin", cand |-> c, seen |-> status[c]] \in Horses
    BY LiveRow DEF Horses
  <2>2. horse' \in [Worker -> Horses]
    <3>1. \/ /\ Exists(c)
             /\ horse' = [horse EXCEPT ![w] = [pc |-> "begin", cand |-> c, seen |-> status[c]]]
          \/ UNCHANGED horse
      BY <1>1 DEF Start
    <3> QED
      BY <2>1, <3>1 DEF TypeOK
  <2>3. queued' \in [Cand -> Nat] /\ sched' \in BOOLEAN
    <3>1. queued[c] \in Nat /\ queued[c] > 0 /\ queued' = [queued EXCEPT ![c] = @ - 1]
      BY <1>1 DEF Start, TypeOK
    <3>2. sched' = TRUE \/ UNCHANGED sched
      BY <1>1 DEF Start
    <3>3. queued[c] - 1 \in Nat
      BY <3>1
    <3>4. queued' \in [Cand -> Nat]
      BY <3>1, <3>3 DEF TypeOK
    <3> QED
      BY <3>2, <3>4 DEF TypeOK
  <2> QED
    BY <1>1, <2>2, <2>3 DEF Start, TypeOK, rowVars
<1>2. CASE Begin(w)
  BY <1>2, PutType DEF Begin, On, Goto, Ends, Idle, TypeOK, Horses, Status
<1>3. CASE Work(w)
  <2>1. /\ \/ Goto(w, "write") \/ Goto(w, "fail") \/ Ends(w)
        /\ \/ stale' = [stale EXCEPT ![horse[w].cand] = FALSE]
           \/ UNCHANGED stale
    BY <1>3 DEF Work
  <2>2. horse' \in [Worker -> Horses]
    <3>1. horse[w] \in Horses /\ horse[w].pc # "idle" /\ Idle \in Horses
      BY <1>3 DEF Work, On, TypeOK, Horses, Idle
    <3>2. \A pc \in {"write", "fail"} : [horse[w] EXCEPT !.pc = pc] \in Horses
      BY <3>1 DEF Horses
    <3> QED
      BY <2>1, <3>1, <3>2 DEF Goto, Ends, TypeOK
  <2>3. stale' \in [Cand -> BOOLEAN]
    BY <2>1 DEF TypeOK
  <2> QED
    BY <1>3, <2>2, <2>3 DEF Work, TypeOK
<1>4. ASSUME NEW st \in Status, NEW kind \in EvalKind, Settle(w, st, kind) PROVE TypeOK'
  BY <1>4, PutType, ReportType DEF Settle, Ends, Idle, TypeOK, Horses
<1>5. CASE DbError(w)
  BY <1>5 DEF DbError, Ends, Idle, TypeOK, Horses, rowVars
<1>6. CASE HorseDies(w)
  BY <1>6 DEF HorseDies, On, Ends, Idle, TypeOK, Horses, rowVars
<1> QED
  BY <1>1, <1>2, <1>3, <1>4, <1>5, <1>6
  DEF HorseStep, WriteVerdict, RecordFailure, Status, EvalKind

LEMMA TypeSweep ==
  ASSUME TypeOK, NEW s \in Sweeper, SweepStep(s) \/ SweepDies(s)
  PROVE  TypeOK'
<1>0. ASSUME NEW c \in Cand, sweep[s] \in Sweeps, sweep[s].pc # "idle"
      PROVE  After(s, c) \in Sweeps
  BY <1>0 DEF After, Sweeps, Idle
<1>1. CASE SweepSelect(s)
  BY <1>1 DEF SweepSelect, TypeOK, Sweeps, rowVars
<1>2. ASSUME NEW c \in Cand, SweepGiveUp(s, c) PROVE TypeOK'
  <2>1. After(s, c) \in Sweeps /\ Idle \in Sweeps
    BY <1>0, <1>2 DEF SweepGiveUp, TypeOK, Sweeps, Idle
  <2>2. sweep' \in [Sweeper -> Sweeps] /\ sched' \in BOOLEAN
    BY <1>2, <2>1 DEF SweepGiveUp, Abandons, TypeOK
  <2>3. /\ status' \in [Cand -> Status] /\ stale' \in [Cand -> BOOLEAN]
        /\ lastEval' \in [Cand -> EvalKind]
    BY <1>2, PutType, ReportType DEF SweepGiveUp, TypeOK, Status, EvalKind
  <2> QED
    BY <1>2, <2>2, <2>3 DEF SweepGiveUp, TypeOK
<1>3. ASSUME NEW c \in Cand, SweepEnqueue(s, c) PROVE TypeOK'
  BY <1>3 DEF SweepEnqueue, TypeOK, Sweeps, rowVars
<1>4. CASE SweepCommit(s)
  <2> DEFINE c == sweep[s].at
  <2>1. /\ sweep[s] \in Sweeps /\ sweep[s].pc \in {"queued", "refused"}
        /\ c \in Cand /\ sweep[s].tries[c] + 1 \in Nat
    BY <1>4 DEF SweepCommit, TypeOK, Sweeps
  <2>2. After(s, c) \in Sweeps /\ Idle \in Sweeps
    BY <1>0, <2>1 DEF Sweeps, Idle
  <2>3. sweep' \in [Sweeper -> Sweeps] /\ sched' \in BOOLEAN
    BY <1>4, <2>2 DEF SweepCommit, Abandons, TypeOK
  <2>4. /\ status' \in [Cand -> Status] /\ stale' \in [Cand -> BOOLEAN]
        /\ lastEval' \in [Cand -> EvalKind] /\ retries' \in [Cand -> Nat]
    <3>1. CASE Exists(c)
      <4>1. \E st \in Status : Put({c}, st)
        BY <1>4, <2>1, <3>1 DEF SweepCommit, TypeOK, Status
      <4>2. UNCHANGED lastEval \/ Report({c}, "watchdog")
        BY <1>4, <3>1 DEF SweepCommit
      <4>3. retries' = [retries EXCEPT ![c] = sweep[s].tries[c] + 1]
        BY <1>4, <3>1 DEF SweepCommit
      <4> QED
        BY <2>1, <4>1, <4>2, <4>3, PutType, ReportType DEF TypeOK, EvalKind
    <3>2. CASE ~Exists(c)
      BY <1>4, <3>2 DEF SweepCommit, TypeOK, rowVars
    <3> QED
      BY <3>1, <3>2
  <2> QED
    BY <1>4, <2>3, <2>4 DEF SweepCommit, TypeOK
<1>5. CASE SweepDies(s)
  BY <1>5 DEF SweepDies, Abandons, TypeOK, Sweeps, Idle, rowVars
<1> QED
  BY <1>1, <1>2, <1>3, <1>4, <1>5 DEF SweepStep, SweepRuns

LEMMA TypeNext == TypeOK /\ [Next]_vars => TypeOK'
<1> SUFFICES ASSUME TypeOK, [Next]_vars PROVE TypeOK'
  OBVIOUS
<1>1. ASSUME NEW c \in Cand, TimePasses(c) PROVE TypeOK'
  BY <1>1 DEF TimePasses, TypeOK
<1>2. CASE ApiCrash
  BY <1>2, RequestTypes DEF ApiCrash, TypeOK, rowVars
<1>3. CASE UNCHANGED vars
  BY <1>3 DEF vars, TypeOK
<1> QED
  BY <1>1, <1>2, <1>3, TypeUser, TypeRequest, TypeHorse, TypeSweep DEF Next, Crash

(* Every reachable state is well typed.                                    *)
THEOREM TypeCorrect == Spec => []TypeOK
<1>1. Init => TypeOK
  BY TypeInit
<1>2. TypeOK /\ [Next]_vars => TypeOK'
  BY TypeNext
<1> QED
  BY <1>1, <1>2, PTL DEF Spec

-----------------------------------------------------------------------------
(***************************************************************************)
(* Reports.  FailedIsExplained is not inductive: a retry that could not be *)
(* queued sets failed back without an Evaluation, so one must exist since  *)
(* the retry read the candidate.  RetryExplained says so.                  *)
(***************************************************************************)
Reported(c) ==
  /\ status[c] = "done" => lastEval[c] \in {"verdict", "removed"}
  /\ status[c] = "failed" => lastEval[c] # "none"
  /\ ~Exists(c) => lastEval[c] = "none" /\ ~stale[c]

Explained(c) == status[c] # "none" /\ (Exists(c) => lastEval[c] # "none")

RetryExplained ==
  \A r \in Request : req[r].op = "retry" =>
    \A c \in req[r].todo \cup req[r].bad : Explained(c)

ReportInv == (\A c \in Cand : Reported(c)) /\ RetryExplained

(* What a step may do to the row of c.                                     *)
RowStep ==
  \A c \in Cand :
    /\ Reported(c)'
    /\ Explained(c) => Explained(c)'
    /\ status[c] = "deleted" => status'[c] = "deleted"

LEMMA RowsSettle ==
  ASSUME TypeOK, ReportInv, NEW w \in Worker, horse[w].cand \in Cand,
         \/ Settle(w, "done", "verdict")
         \/ Settle(w, "failed", "error")
  PROVE  RowStep
BY DEF Settle, Gone, Put, Report, TypeOK, ReportInv, RowStep, Reported, Explained,
       Exists, Status, EvalKind

LEMMA RowsHorse ==
  ASSUME TypeOK, ReportInv, NEW w \in Worker, HorseStep(w)
  PROVE  RowStep
<1>1. ~On(w, "idle") /\ horse[w].cand \in Cand
  BY DEF HorseStep, Begin, Work, WriteVerdict, RecordFailure, On, TypeOK, Horses
<1>2. CASE Begin(w)
  BY <1>1, <1>2 DEF Begin, Gone, Put, TypeOK, ReportInv, RowStep, Reported, Explained,
     Exists, Status
<1>3. CASE Work(w)
  <2>1. /\ UNCHANGED <<status, lastEval>>
        /\ \A c \in Cand : ~Exists(c) => stale'[c] = stale[c]
    BY <1>1, <1>3 DEF Work, Gone, TypeOK
  <2> QED
    BY <2>1 DEF TypeOK, ReportInv, RowStep, Reported, Explained, Exists
<1> QED
  BY <1>1, <1>2, <1>3, RowsSettle DEF HorseStep, WriteVerdict, RecordFailure

LEMMA RowsUser ==
  ASSUME TypeOK, ReportInv, User
  PROVE  RowStep
<1>1. ASSUME NEW r \in Request, NEW S \in SUBSET Cand, IngestInsert(r, S) PROVE RowStep
  BY <1>1 DEF IngestInsert, Put, TypeOK, ReportInv, RowStep, Reported, Explained,
     Exists, Status
<1>2. ASSUME NEW S \in SUBSET Cand, Delete(S) PROVE RowStep
  BY <1>2 DEF Delete, Put, Report, TypeOK, ReportInv, RowStep, Reported, Explained,
     Exists, Status, EvalKind
<1>3. ASSUME NEW c \in Cand, DeleteEvaluation(c) PROVE RowStep
  BY <1>3 DEF DeleteEvaluation, Report, TypeOK, ReportInv, RowStep, Reported,
     Explained, Exists, Status, EvalKind
<1>5. ASSUME NEW c \in Cand, UpdateCandidate(c) PROVE RowStep
  BY <1>5 DEF UpdateCandidate, TypeOK, ReportInv, RowStep, Reported, Explained, Exists
<1>4. ASSUME UNCHANGED rowVars PROVE RowStep
  BY <1>4 DEF rowVars, ReportInv, RowStep, Reported, Explained, Exists
<1> QED
  BY <1>1, <1>2, <1>3, <1>4, <1>5 DEF User, RetryRead, UploadRead, CancelRead

LEMMA RowsRequest ==
  ASSUME TypeOK, ReportInv, NEW r \in Request, RequestStep(r)
  PROVE  RowStep
<1>0. ASSUME UNCHANGED <<status, stale, lastEval>> PROVE RowStep
  BY <1>0 DEF ReportInv, RowStep, Reported, Explained, Exists
<1>1. CASE RetryCommit(r)
  BY <1>1 DEF RetryCommit, Put, TypeOK, ReportInv, RowStep, Reported, Explained,
     Exists, Status
<1>2. CASE UploadCommit(r)
  <2>1. PICK c \in req[r].todo :
          \/ UNCHANGED <<status, stale>>
          \/ Exists(c) /\ (Put({c}, "pending") \/ Put({c}, status[c]))
    BY <1>2 DEF UploadCommit
  <2>2. UNCHANGED lastEval
    BY <1>2 DEF UploadCommit
  <2>3. CASE UNCHANGED <<status, stale>>
    BY <1>0, <2>2, <2>3
  <2>4. CASE Exists(c) /\ (Put({c}, "pending") \/ Put({c}, status[c]))
    BY <2>2, <2>4 DEF Put, TypeOK, ReportInv, RowStep, Reported, Explained, Exists, Status
  <2> QED
    BY <2>1, <2>3, <2>4
<1>3. CASE CancelCommit(r)
  BY <1>3, <1>0 DEF CancelCommit, Put, Report, TypeOK, ReportInv, RowStep, Reported,
     Explained, Exists, Status, EvalKind
<1>4. CASE IngestFinish(r)
  BY <1>4, <1>0 DEF IngestFinish, Put, Report, TypeOK, ReportInv, RowStep, Reported,
     Explained, Exists, Status, EvalKind
<1>5. CASE RetryFinish(r)
  <2>1. \A c \in req[r].bad : Explained(c)
    BY <1>5 DEF RetryFinish, Enqueued, Holds, ReportInv, RetryExplained
  <2> QED
    BY <1>5, <2>1 DEF RetryFinish, Put, TypeOK, ReportInv, RowStep, Reported,
       Explained, Exists, Status
<1> QED
  BY <1>0, <1>1, <1>2, <1>3, <1>4, <1>5
  DEF RequestStep, EnqueueOne, UploadFinish, rowVars

LEMMA RowsSweep ==
  ASSUME TypeOK, ReportInv, NEW s \in Sweeper, SweepStep(s)
  PROVE  RowStep
<1>0. ASSUME UNCHANGED <<status, stale, lastEval>> PROVE RowStep
  BY <1>0 DEF ReportInv, RowStep, Reported, Explained, Exists
<1>1. ASSUME NEW c, Exists(c), Put({c}, "failed"), Report({c}, "watchdog") PROVE RowStep
  BY <1>1 DEF Put, Report, TypeOK, ReportInv, RowStep, Reported, Explained, Exists,
     Status, EvalKind
<1>2. ASSUME NEW c, NEW st \in {"pending", status[c]}, Exists(c), Put({c}, st),
             UNCHANGED lastEval
      PROVE  RowStep
  BY <1>2 DEF Put, TypeOK, ReportInv, RowStep, Reported, Explained, Exists, Status
<1>3. ASSUME NEW c \in Cand, SweepGiveUp(s, c) PROVE RowStep
  BY <1>3, <1>0, <1>1 DEF SweepGiveUp
<1>4. CASE SweepCommit(s)
  BY <1>4, <1>0, <1>1, <1>2 DEF SweepCommit, rowVars
<1> QED
  BY <1>0, <1>3, <1>4 DEF SweepStep, SweepRuns, SweepSelect, SweepEnqueue, rowVars

LEMMA RowsNext ==
  ASSUME TypeOK, ReportInv, [Next]_vars
  PROVE  RowStep
<1>1. ASSUME UNCHANGED <<status, stale, lastEval>> PROVE RowStep
  BY <1>1 DEF ReportInv, RowStep, Reported, Explained, Exists
<1>2. ASSUME NEW c \in Cand, TimePasses(c) PROVE RowStep
  BY <1>2 DEF TimePasses, Open, TypeOK, ReportInv, RowStep, Reported, Explained, Exists
<1>3. ASSUME NEW w \in Worker, NEW c \in Cand, Start(w, c) PROVE RowStep
  BY <1>1, <1>3 DEF Start, rowVars
<1>4. CASE Crash
  BY <1>1, <1>4 DEF Crash, ApiCrash, DbError, HorseDies, SweepDies, rowVars
<1>5. CASE UNCHANGED vars
  BY <1>1, <1>5 DEF vars
<1> QED
  BY <1>2, <1>3, <1>4, <1>5, RowsUser, RowsRequest, RowsHorse, RowsSweep DEF Next

(* A request of kind retry holds only candidates it found failed.          *)
LEMMA RetryNext ==
  ASSUME TypeOK, ReportInv, [Next]_vars, RowStep
  PROVE  RetryExplained'
<1> DEFINE Held(r) == req[r].todo \cup req[r].bad
<1>1. ASSUME NEW r \in Request, req'[r].op = "retry"
      PROVE  \/ req[r].op = "retry" /\ Held(r)' \subseteq Held(r)
             \/ Held(r)' \subseteq {c \in Cand : status[c] = "failed"}
  <2>1. CASE UNCHANGED req
    BY <1>1, <2>1
  <2>2. CASE User
    <3>1. ASSUME NEW q \in Request, NEW S \in SUBSET Cand, RetryRead(q, S)
          PROVE  \/ UNCHANGED req[r]
                 \/ Held(r)' \subseteq {c \in Cand : status[c] = "failed"}
      BY <3>1 DEF RetryRead, Reads, TypeOK
    <3>3. ASSUME NEW q \in Request, NEW S \in SUBSET Cand, IngestInsert(q, S)
          PROVE  UNCHANGED req[r]
      BY <1>1, <3>3 DEF IngestInsert, Enqueues, TypeOK
    <3>4. ASSUME NEW q \in Request, NEW c \in Cand, UploadRead(q, c)
          PROVE  UNCHANGED req[r]
      BY <1>1, <3>4 DEF UploadRead, Reads, TypeOK
    <3>5. ASSUME NEW q \in Request, CancelRead(q)
          PROVE  UNCHANGED req[r]
      BY <1>1, <3>5 DEF CancelRead, Reads, TypeOK
    <3> QED
      BY <1>1, <2>1, <2>2, <3>1, <3>3, <3>4, <3>5
      DEF User, Delete, DeleteEvaluation, UpdateCandidate
  <2>3. ASSUME NEW q \in Request, RequestStep(q)
        PROVE  req[r].op = "retry" /\ Held(r)' \subseteq Held(r)
    <3>1. ASSUME NEW c \in Cand, EnqueueOne(q, c)
          PROVE  req[r].op = "retry" /\ Held(r)' \subseteq Held(r)
      BY <1>1, <3>1 DEF EnqueueOne, TypeOK, Requests, NoReq
    <3>2. CASE RetryCommit(q)
      BY <1>1, <3>2 DEF RetryCommit, Holds, NoReq, Enqueues, TypeOK
    <3>3. ASSUME \/ req' = [req EXCEPT ![q] = NoReq]
                 \/ \E c \in Cand : req' = [req EXCEPT ![q] = Enqueues("upload", {c})]
          PROVE  req[r].op = "retry" /\ Held(r)' \subseteq Held(r)
      BY <1>1, <3>3 DEF NoReq, Enqueues, TypeOK
    <3>4. CASE UploadCommit(q)
      <4>1. req[q].todo \subseteq Cand
        BY <3>4 DEF UploadCommit, Holds, TypeOK, Requests, NoReq
      <4> QED
        BY <3>3, <3>4, <4>1 DEF UploadCommit
    <3> QED
      BY <2>3, <3>1, <3>2, <3>3, <3>4
      DEF RequestStep, CancelCommit, IngestFinish, RetryFinish, UploadFinish
  <2>4. CASE ApiCrash
    BY <1>1, <2>4 DEF ApiCrash, NoReq
  <2> QED
    BY <2>1, <2>2, <2>3, <2>4
    DEF Next, HorseStep, Begin, Work, WriteVerdict, RecordFailure, Settle, Start,
        SweepStep, SweepRuns, SweepSelect, SweepGiveUp, SweepEnqueue, SweepCommit, TimePasses,
        Crash, DbError, HorseDies, SweepDies, vars
<1>2. ASSUME NEW r \in Request, req'[r].op = "retry", NEW c \in Held(r)'
      PROVE  Explained(c)
  BY <1>1, <1>2 DEF ReportInv, RetryExplained, Reported, Explained, Exists
<1>3. ASSUME NEW r \in Request, req'[r].op = "retry", NEW c \in Held(r)'
      PROVE  c \in Cand
  BY <1>1, <1>3 DEF TypeOK, Requests, NoReq
<1> QED
  BY <1>2, <1>3 DEF RetryExplained, RowStep

LEMMA ReportInvariant == Spec => []ReportInv
<1>1. Init => ReportInv
  BY DEF Init, ReportInv, Reported, RetryExplained, Exists, NoReq
<1>2. TypeOK /\ ReportInv /\ [Next]_vars => ReportInv'
  BY RowsNext, RetryNext DEF ReportInv, RowStep
<1> QED
  BY <1>1, <1>2, TypeCorrect, PTL DEF Spec

(* A done candidate has a verdict, under every interleaving and fault.     *)
THEOREM VerdictSafety == Spec => []DoneHasVerdict
<1>1. ReportInv => DoneHasVerdict
  BY DEF ReportInv, Reported, DoneHasVerdict
<1> QED
  BY <1>1, ReportInvariant, PTL

(* A failed candidate has an Evaluation that explains it.                  *)
THEOREM FailureSafety == Spec => []FailedIsExplained
<1>1. ReportInv => FailedIsExplained
  BY DEF ReportInv, Reported, FailedIsExplained
<1> QED
  BY <1>1, ReportInvariant, PTL

(* A removed candidate stays removed, and nothing is added to it: no step  *)
(* brings its row back, nor an Evaluation of it.                           *)
THEOREM RemovalSafety == Spec => RemovalIsFinal
<1>1. ASSUME TypeOK, ReportInv, [Next]_vars, NEW c \in Cand, status[c] = "deleted"
      PROVE  status'[c] = "deleted" /\ lastEval'[c] = "none"
  BY <1>1, RowsNext DEF RowStep, Reported, Exists
<1>2. TypeOK /\ ReportInv /\ [Next]_vars
      => [\A c \in Cand :
            status[c] = "deleted" => status'[c] = "deleted" /\ lastEval'[c] = "none"]_vars
  BY <1>1
<1> QED
  BY <1>2, TypeCorrect, ReportInvariant, PTL DEF Spec, RemovalIsFinal

-----------------------------------------------------------------------------
(***************************************************************************)
(* The watchdog's counter.  A sweep writes the count it loaded plus one,   *)
(* so the bound needs every count a sweep holds to be bounded too, and the *)
(* count of a candidate it has just queued to be below the bound.          *)
(***************************************************************************)
SweepBounded(s) ==
  sweep[s] # Idle =>
    /\ \A c \in Cand : sweep[s].tries[c] <= MaxStaleRetries
    /\ sweep[s].pc \in {"queued", "refused"} => sweep[s].tries[sweep[s].at] < MaxStaleRetries

RetryInv == StaleRetriesBounded /\ \A s \in Sweeper : SweepBounded(s)

LEMMA RetryInvSweep ==
  ASSUME TypeOK, RetryInv, NEW s \in Sweeper, SweepStep(s)
  PROVE  RetryInv'
<1>1. ASSUME NEW t \in Sweeper, t # s PROVE sweep'[t] = sweep[t]
  BY <1>1 DEF SweepStep, SweepRuns, SweepSelect, SweepGiveUp, SweepEnqueue, SweepCommit, Abandons,
     TypeOK
<1>2. SweepBounded(s)'
  <2>1. CASE SweepSelect(s)
    BY <2>1 DEF SweepSelect, SweepBounded, RetryInv, StaleRetriesBounded, TypeOK
  <2>2. ASSUME NEW c \in Cand, SweepGiveUp(s, c) PROVE SweepBounded(s)'
    BY <2>2 DEF SweepGiveUp, After, Abandons, SweepBounded, RetryInv, TypeOK, Sweeps, Idle
  <2>3. ASSUME NEW c \in Cand, SweepEnqueue(s, c) PROVE SweepBounded(s)'
    BY <2>3 DEF SweepEnqueue, SweepBounded, RetryInv, TypeOK, Sweeps, Idle
  <2>4. CASE SweepCommit(s)
    BY <2>4 DEF SweepCommit, After, Abandons, SweepBounded, RetryInv, TypeOK, Sweeps, Idle
  <2> QED
    BY <2>1, <2>2, <2>3, <2>4 DEF SweepStep, SweepRuns
<1>3. StaleRetriesBounded'
  <2>1. CASE UNCHANGED retries
    BY <2>1 DEF RetryInv, StaleRetriesBounded
  <2>2. CASE SweepCommit(s)
    <3>1. /\ sweep[s].at \in Cand /\ sweep[s].tries[sweep[s].at] \in Nat
          /\ sweep[s].tries[sweep[s].at] < MaxStaleRetries
      BY <2>2 DEF SweepCommit, RetryInv, SweepBounded, TypeOK, Sweeps, Idle
    <3>2. sweep[s].tries[sweep[s].at] + 1 <= MaxStaleRetries
      BY <3>1, RetriesAssumption
    <3>3. \/ UNCHANGED retries
          \/ retries' = [retries EXCEPT ![sweep[s].at] = sweep[s].tries[sweep[s].at] + 1]
      BY <2>2 DEF SweepCommit, rowVars
    <3> QED
      BY <2>1, <3>1, <3>2, <3>3 DEF RetryInv, StaleRetriesBounded, TypeOK
  <2> QED
    BY <2>1, <2>2 DEF SweepStep, SweepRuns, SweepSelect, SweepGiveUp, SweepEnqueue, rowVars
<1> QED
  BY <1>1, <1>2, <1>3 DEF RetryInv, SweepBounded

LEMMA RetryInvNext == TypeOK /\ RetryInv /\ [Next]_vars => RetryInv'
<1> SUFFICES ASSUME TypeOK, RetryInv, [Next]_vars PROVE RetryInv'
  OBVIOUS
<1>1. ASSUME UNCHANGED <<retries, sweep>> PROVE RetryInv'
  BY <1>1 DEF RetryInv, StaleRetriesBounded, SweepBounded
<1>2. ASSUME NEW s \in Sweeper, SweepDies(s) PROVE RetryInv'
  BY <1>2 DEF SweepDies, Abandons, rowVars, RetryInv, StaleRetriesBounded, SweepBounded,
     TypeOK
<1>3. CASE User
  BY <1>1, <1>3 DEF User, IngestInsert, RetryRead, UploadRead, CancelRead, Delete,
     DeleteEvaluation, UpdateCandidate, rowVars
<1>4. ASSUME NEW r \in Request, RequestStep(r) PROVE RetryInv'
  BY <1>1, <1>4 DEF RequestStep, RetryCommit, UploadCommit, CancelCommit, EnqueueOne,
     IngestFinish, RetryFinish, UploadFinish, rowVars
<1>5. ASSUME NEW w \in Worker, HorseStep(w) PROVE RetryInv'
  BY <1>1, <1>5 DEF HorseStep, Begin, Work, WriteVerdict, RecordFailure, Settle
<1>6. ASSUME NEW w \in Worker, NEW c \in Cand, Start(w, c) PROVE RetryInv'
  BY <1>1, <1>6 DEF Start, rowVars
<1>7. ASSUME NEW w \in Worker, DbError(w) \/ HorseDies(w) PROVE RetryInv'
  BY <1>1, <1>7 DEF DbError, HorseDies, rowVars
<1> QED
  BY <1>1, <1>2, <1>3, <1>4, <1>5, <1>6, <1>7, RetryInvSweep
  DEF Next, Crash, ApiCrash, TimePasses, vars, rowVars

(* No candidate is requeued by the watchdog once its counter is at the     *)
(* limit, however many sweeps run on stale counts at once.                 *)
THEOREM RetryBound == Spec => []StaleRetriesBounded
<1>1. Init => RetryInv
  BY RetriesAssumption DEF Init, RetryInv, StaleRetriesBounded, SweepBounded
<1>2. TypeOK /\ RetryInv /\ [Next]_vars => RetryInv'
  BY RetryInvNext
<1>3. RetryInv => StaleRetriesBounded
  BY DEF RetryInv
<1> QED
  BY <1>1, <1>2, <1>3, TypeCorrect, PTL DEF Spec
-----------------------------------------------------------------------------
(***************************************************************************)
(* The board.  Only a sheet makes rows and only a removal takes them away; *)
(* every other step keeps the set of rows, and with Reported what each row *)
(* shows is a value of the board.                                          *)
(***************************************************************************)
KeepsRows ==
  \A c \in Cand : /\ status'[c] = "none" <=> status[c] = "none"
                  /\ status'[c] = "deleted" <=> status[c] = "deleted"

LEMMA PutKeepsRows ==
  ASSUME NEW S, \A c \in S : Exists(c), NEW st, st \notin {"none", "deleted"}, Put(S, st)
  PROVE  KeepsRows
BY DEF KeepsRows, Put, Exists

LEMMA RequestKeepsRows ==
  ASSUME NEW r \in Request, RequestStep(r)
  PROVE  KeepsRows
<1>0. ASSUME UNCHANGED status PROVE KeepsRows
  BY <1>0 DEF KeepsRows
<1>1. CASE RetryCommit(r)
  BY <1>0, <1>1, PutKeepsRows DEF RetryCommit
<1>2. CASE UploadCommit(r)
  <2>1. PICK c \in req[r].todo :
          \/ UNCHANGED status
          \/ Exists(c) /\ (Put({c}, "pending") \/ Put({c}, status[c]))
    BY <1>2 DEF UploadCommit
  <2> QED
    BY <1>0, <2>1, PutKeepsRows DEF Exists
<1>3. CASE CancelCommit(r)
  BY <1>0, <1>3, PutKeepsRows DEF CancelCommit
<1>4. CASE IngestFinish(r)
  BY <1>0, <1>4, PutKeepsRows DEF IngestFinish
<1>5. CASE RetryFinish(r)
  BY <1>5, PutKeepsRows DEF RetryFinish
<1> QED
  BY <1>0, <1>1, <1>2, <1>3, <1>4, <1>5 DEF RequestStep, EnqueueOne, UploadFinish, rowVars

LEMMA HorseKeepsRows ==
  ASSUME NEW w \in Worker, HorseStep(w)
  PROVE  KeepsRows
<1>0. ASSUME UNCHANGED status PROVE KeepsRows
  BY <1>0 DEF KeepsRows
<1>1. CASE Begin(w)
  BY <1>0, <1>1, PutKeepsRows DEF Begin, Gone
<1>2. ASSUME NEW st \in {"done", "failed"}, NEW kind, Settle(w, st, kind) PROVE KeepsRows
  BY <1>0, <1>2, PutKeepsRows DEF Settle, Gone
<1> QED
  BY <1>0, <1>1, <1>2 DEF HorseStep, Work, WriteVerdict, RecordFailure

LEMMA SweepKeepsRows ==
  ASSUME NEW s \in Sweeper, SweepStep(s)
  PROVE  KeepsRows
<1>0. ASSUME UNCHANGED status PROVE KeepsRows
  BY <1>0 DEF KeepsRows
<1>1. ASSUME NEW c, Exists(c), NEW st \in {"pending", "failed", status[c]}, Put({c}, st)
      PROVE  KeepsRows
  BY <1>1, PutKeepsRows DEF Exists
<1>2. ASSUME NEW c \in Cand, SweepGiveUp(s, c) PROVE KeepsRows
  BY <1>0, <1>1, <1>2 DEF SweepGiveUp
<1>3. CASE SweepCommit(s)
  BY <1>0, <1>1, <1>3 DEF SweepCommit, rowVars
<1> QED
  BY <1>0, <1>2, <1>3 DEF SweepStep, SweepRuns, SweepSelect, SweepEnqueue, rowVars

(* Every step is a sheet, a removal, or keeps the set of rows.             *)
LEMMA StepKinds ==
  ASSUME [Next]_vars
  PROVE  \/ \E r \in Request, S \in SUBSET Cand : IngestInsert(r, S)
         \/ \E S \in SUBSET Cand : Delete(S)
         \/ KeepsRows
<1>0. ASSUME UNCHANGED status PROVE KeepsRows
  BY <1>0 DEF KeepsRows
<1>1. CASE User
  BY <1>0, <1>1 DEF User, RetryRead, UploadRead, CancelRead, DeleteEvaluation,
     UpdateCandidate, rowVars
<1>2. CASE Crash
  BY <1>0, <1>2 DEF Crash, ApiCrash, DbError, HorseDies, SweepDies, rowVars
<1>3. ASSUME NEW w \in Worker, NEW c \in Cand, Start(w, c) PROVE KeepsRows
  BY <1>0, <1>3 DEF Start, rowVars
<1>4. ASSUME NEW c \in Cand, TimePasses(c) PROVE KeepsRows
  BY <1>0, <1>4 DEF TimePasses
<1>5. CASE UNCHANGED vars
  BY <1>0, <1>5 DEF vars, rowVars
<1> QED
  BY <1>1, <1>2, <1>3, <1>4, <1>5, RequestKeepsRows, HorseKeepsRows, SweepKeepsRows DEF Next

(* What is shown of a row that is there, before and after a step.          *)
LEMMA RowsAreListed ==
  ASSUME TypeOK, ReportInv, NEW c \in Cand
  PROVE  /\ status[c] = "none" => Shown(c) = "absent"
         /\ status[c] = "deleted" => Shown(c) = "gone"
         /\ Exists(c) => Shown(c) \in Board!Listed
         /\ status[c] = "pending" => Shown(c) = "inProgress"
BY DEF TypeOK, ReportInv, Reported, Exists, Open, Shown, Status, EvalKind,
   Board!Listed, Board!Shown

(* The row-level protocol implements the board: a sheet is a Submit, a     *)
(* removal a Remove, and everything else that requests, horses, sweeps and *)
(* crashes do to the rows an Update of listed candidates, or a stutter.    *)
THEOREM LifecycleImplementsBoard == Spec => ImplementsBoard
<1> DEFINE board == [c \in Cand |-> Shown(c)]
<1>1. Init => Board!Init
  BY DEF Init, Board!Init, Shown, Open
<1>2. TypeOK /\ ReportInv /\ TypeOK' /\ ReportInv' /\ [Next]_vars => [Board!Next]_board
  <2> SUFFICES ASSUME TypeOK, ReportInv, TypeOK', ReportInv', [Next]_vars
               PROVE  [Board!Next]_board
    OBVIOUS
  <2>1. \A c \in Cand :
          /\ status'[c] = "none" => Shown(c)' = "absent"
          /\ status'[c] = "deleted" => Shown(c)' = "gone"
          /\ Exists(c)' => Shown(c)' \in Board!Listed
          /\ status'[c] = "pending" => Shown(c)' = "inProgress"
    BY DEF TypeOK, ReportInv, Reported, Exists, Open, Shown, Status, EvalKind,
       Board!Listed, Board!Shown
  <2>2. ASSUME NEW r \in Request, NEW S \in SUBSET Cand, IngestInsert(r, S)
        PROVE  Board!Submit(S)
    <3>1. \A c \in S : Shown(c) = "absent" /\ Shown(c)' = "inProgress"
      BY <2>1, <2>2, RowsAreListed DEF IngestInsert, Put
    <3>2. \A c \in Cand \ S : Shown(c)' = Shown(c)
      BY <2>2 DEF IngestInsert, Put, Shown, Open
    <3> QED
      BY <3>1, <3>2 DEF Board!Submit
  <2>3. ASSUME NEW S \in SUBSET Cand, Delete(S) PROVE Board!Remove(S)
    <3>1. \A c \in S : Shown(c) \in Board!Listed /\ Shown(c)' = "gone"
      BY <2>1, <2>3, RowsAreListed DEF Delete, Put
    <3>2. \A c \in Cand \ S : Shown(c)' = Shown(c)
      BY <2>3 DEF Delete, Put, Report, Shown, Open
    <3> QED
      BY <3>1, <3>2 DEF Board!Remove
  <2>4. ASSUME KeepsRows PROVE Board!Update({c \in Cand : Exists(c)})
    <3> DEFINE S   == {c \in Cand : Exists(c)}
               new == [c \in S |-> Shown(c)']
    <3>1. \A c \in S : Shown(c) \in Board!Listed /\ Shown(c)' \in Board!Listed
      BY <2>1, <2>4, RowsAreListed DEF KeepsRows, Exists
    <3>2. \A c \in Cand \ S : Shown(c)' = Shown(c)
      BY <2>1, <2>4, RowsAreListed DEF KeepsRows, Exists
    <3>3. new \in [S -> Board!Listed]
      BY <3>1
    <3>4. board' = [c \in Cand |-> IF c \in S THEN new[c] ELSE board[c]]
      BY <3>2
    <3> QED
      BY <3>1, <3>3, <3>4 DEF Board!Update
  <2> QED
    BY <2>2, <2>3, <2>4, StepKinds DEF Board!Next
<1> QED
  BY <1>1, <1>2, TypeCorrect, ReportInvariant, PTL DEF Spec, ImplementsBoard, Board!Spec

-----------------------------------------------------------------------------
(* Who carries a candidate: the queue, a request that is to queue it, or a *)
(* horse; and the candidates whose horse is past its first commit.         *)
Waiting   == {c \in Cand : queued[c] > 0}
Enqueuing == {c \in Cand : \E r \in Request :
                req[r] # NoReq /\ req[r].pc = "enqueue" /\ c \in req[r].todo}
Loaded    == {c \in Cand : \E w \in Worker : ~On(w, "idle") /\ horse[w].cand = c}
AtWork    == {c \in Cand : \E w \in Worker :
                ~On(w, "idle") /\ ~On(w, "begin") /\ horse[w].cand = c}

(* Without faults no enqueue is refused, no row becomes stale, and so the  *)
(* watchdog never wakes.                                                   *)
Quiet ==
  /\ \A s \in Sweeper : sweep[s] = Idle
  /\ \A r \in Request : req[r] # NoReq => req[r].bad = {}
  /\ \A c \in Cand : ~stale[c]

(* A pending candidate is carried.  A request that merely read it does not *)
(* count: it may end without queueing it.                                  *)
Carried ==
  \A c \in Cand :
    /\ status[c] = "pending" => c \in Waiting \cup Enqueuing \cup Loaded
    /\ status[c] = "processing" => c \in AtWork

CarryInv == Quiet /\ Carried

LEMMA PutStaysFresh ==
  ASSUME Quiet, NEW S, NEW st, Put(S, st)
  PROVE  \A c \in Cand : ~stale'[c]
BY DEF Quiet, Put

(* A step of one request leaves what the others are to queue.              *)
LEMMA OthersEnqueue ==
  ASSUME NEW r \in Request, \A x \in Request \ {r} : req'[x] = req[x],
         req[r] # NoReq /\ req[r].pc = "enqueue" => req[r].todo = {}
  PROVE  Enqueuing \subseteq Enqueuing'
BY DEF Enqueuing, NoReq

LEMMA UserCarries ==
  ASSUME TypeOK, CarryInv, User
  PROVE  CarryInv'
<1> USE DEF CarryInv, rowVars
<1>1. ASSUME NEW r \in Request, NEW S \in SUBSET Cand, IngestInsert(r, S) PROVE CarryInv'
  <2>1. /\ req[r] = NoReq /\ req'[r] = Enqueues("ingest", S)
        /\ \A x \in Request \ {r} : req'[x] = req[x]
    BY <1>1 DEF IngestInsert, Arrives, TypeOK
  <2>2. Enqueuing \subseteq Enqueuing' /\ S \subseteq Enqueuing'
    <3>1. Enqueuing \subseteq Enqueuing'
      BY <2>1, OthersEnqueue
    <3>2. S \subseteq Enqueuing'
      BY <2>1 DEF Enqueuing, Enqueues, NoReq
    <3> QED
      BY <3>1, <3>2
  <2>3. UNCHANGED <<queued, horse, sweep>> /\ Put(S, "pending")
    BY <1>1 DEF IngestInsert
  <2>4. Quiet'
    BY <2>1, <2>3, PutStaysFresh DEF Quiet, Enqueues, NoReq
  <2>5. Carried'
    BY <2>2, <2>3 DEF Carried, Put, Waiting, Loaded, AtWork, On
  <2> QED
    BY <2>4, <2>5
<1>2. ASSUME NEW r \in Request, NEW op, NEW S, NEW st, req[r] = NoReq,
             req' = [req EXCEPT ![r] = Reads(op, S, st)],
             UNCHANGED <<status, stale, queued, horse, sweep>>
      PROVE  CarryInv'
  <2>1. /\ req'[r] = Reads(op, S, st)
        /\ \A x \in Request \ {r} : req'[x] = req[x]
    BY <1>2 DEF TypeOK
  <2>2. Enqueuing \subseteq Enqueuing'
    BY <1>2, <2>1, OthersEnqueue
  <2>3. Quiet'
    BY <1>2, <2>1 DEF Quiet, Reads, NoReq
  <2>4. Carried'
    BY <1>2, <2>2 DEF Carried, Waiting, Loaded, AtWork, On
  <2> QED
    BY <2>3, <2>4
<1>3. ASSUME NEW S \in SUBSET Cand, Delete(S) PROVE CarryInv'
  <2>1. UNCHANGED <<queued, horse, sweep, req>> /\ Put(S, "deleted")
    BY <1>3 DEF Delete
  <2>2. Quiet'
    BY <2>1, PutStaysFresh DEF Quiet
  <2>3. Carried'
    BY <2>1 DEF Carried, Put, Waiting, Enqueuing, Loaded, AtWork, On
  <2> QED
    BY <2>2, <2>3
<1>4. ASSUME NEW c \in Cand, DeleteEvaluation(c) \/ UpdateCandidate(c) PROVE CarryInv'
  <2>1. /\ UNCHANGED <<status, queued, horse, sweep, req>>
        /\ \A d \in Cand : ~stale'[d]
    BY <1>4 DEF DeleteEvaluation, UpdateCandidate, Quiet, TypeOK
  <2> QED
    BY <2>1 DEF Quiet, Carried, Waiting, Enqueuing, Loaded, AtWork, On
<1> QED
  BY <1>1, <1>2, <1>3, <1>4 DEF User, RetryRead, UploadRead, CancelRead, Arrives

LEMMA RequestCarries ==
  ASSUME Faults = {}, TypeOK, CarryInv, NEW r \in Request, RequestStep(r)
  PROVE  CarryInv'
<1> USE DEF CarryInv, rowVars
<1>0. UNCHANGED <<horse, sweep>>
  BY DEF RequestStep, RetryCommit, UploadCommit, CancelCommit, EnqueueOne, IngestFinish,
     RetryFinish, UploadFinish
<1>1. ASSUME NEW T, NEW S \in SUBSET T, NEW op,
             Put(S, "pending") \/ (UNCHANGED status /\ \A c \in Cand : ~stale'[c]),
             req[r].pc = "read", UNCHANGED queued,
             req' = [req EXCEPT ![r] = Enqueues(op, T)]
      PROVE  CarryInv'
  <2>1. /\ req'[r] = Enqueues(op, T)
        /\ \A x \in Request \ {r} : req'[x] = req[x]
    BY <1>1 DEF TypeOK
  <2>2. Enqueuing \subseteq Enqueuing'
    BY <1>1, <2>1, OthersEnqueue
  <2>3. \A c \in Cand : c \in S => c \in Enqueuing'
    BY <1>1, <2>1 DEF Enqueuing, Enqueues, NoReq
  <2>4. Quiet'
    <3>1. \A c \in Cand : ~stale'[c]
      BY <1>1, PutStaysFresh DEF Quiet
    <3> QED
      BY <1>0, <2>1, <3>1 DEF Quiet, Enqueues, NoReq
  <2>5. Carried'
    BY <1>0, <1>1, <2>2, <2>3 DEF Carried, Put, Waiting, Loaded, AtWork, On
  <2> QED
    BY <2>4, <2>5
<1>2. ASSUME NEW S, NEW st \in {"done", "failed"}, Put(S, st) \/ UNCHANGED <<status, stale>>,
             req[r].pc = "enqueue" => req[r].todo = {}, UNCHANGED queued,
             req' = [req EXCEPT ![r] = NoReq]
      PROVE  CarryInv'
  <2>1. req'[r] = NoReq /\ \A x \in Request \ {r} : req'[x] = req[x]
    BY <1>2 DEF TypeOK
  <2>2. Enqueuing \subseteq Enqueuing'
    BY <1>2, <2>1, OthersEnqueue
  <2>3. Quiet'
    <3>1. \A c \in Cand : ~stale'[c]
      BY <1>2, PutStaysFresh DEF Quiet
    <3> QED
      BY <1>0, <2>1, <3>1 DEF Quiet
  <2>4. Carried'
    BY <1>0, <1>2, <2>2 DEF Carried, Put, Waiting, Loaded, AtWork, On
  <2> QED
    BY <2>3, <2>4
<1>3. CASE RetryCommit(r)
  <2>0. req[r].pc = "read" /\ UNCHANGED queued
    BY <1>3 DEF RetryCommit, Holds
  <2>1. CASE /\ Put({c \in req[r].todo : Exists(c)}, "pending")
             /\ req' = [req EXCEPT ![r] = Enqueues("retry", req[r].todo)]
    BY <1>1, <2>0, <2>1
  <2>2. CASE req' = [req EXCEPT ![r] = NoReq] /\ UNCHANGED <<status, stale>>
    BY <1>2, <2>0, <2>2
  <2> QED
    BY <1>3, <2>1, <2>2 DEF RetryCommit
<1>4. CASE UploadCommit(r)
  <2>0. req[r].pc = "read" /\ UNCHANGED queued
    BY <1>4 DEF UploadCommit, Holds
  <2>1. ASSUME NEW c, req' = [req EXCEPT ![r] = Enqueues("upload", {c})],
               \/ Put({c}, "pending")
               \/ Put({c}, status[c])
               \/ UNCHANGED <<status, stale>>
        PROVE  CarryInv'
    <3>1. CASE Put({c}, "pending")
      BY <1>1, <2>0, <2>1, <3>1
    <3>2. CASE Put({c}, status[c]) \/ UNCHANGED <<status, stale>>
      <4>1. UNCHANGED status
        BY <3>2 DEF Put, TypeOK
      <4>2. \A d \in Cand : ~stale'[d]
        BY <3>2, PutStaysFresh DEF Quiet
      <4> QED
        BY <1>1, <2>0, <2>1, <4>1, <4>2
    <3> QED
      BY <2>1, <3>1, <3>2
  <2>2. CASE req' = [req EXCEPT ![r] = NoReq] /\ UNCHANGED <<status, stale>>
    BY <1>2, <2>0, <2>2
  <2> QED
    BY <1>4, <2>1, <2>2 DEF UploadCommit
<1>5. CASE CancelCommit(r)
  BY <1>2, <1>5 DEF CancelCommit, Holds
<1>6. ASSUME NEW c \in Cand, EnqueueOne(r, c) PROVE CarryInv'
  <2>1. /\ req[r] # NoReq /\ req[r].pc = "enqueue"
        /\ queued' = [queued EXCEPT ![c] = @ + 1]
        /\ req' = [req EXCEPT ![r].todo = @ \ {c}]
        /\ UNCHANGED <<status, stale>>
    BY <1>6 DEF EnqueueOne
  <2>2. Waiting \cup {c} \subseteq Waiting'
    BY <2>1 DEF Waiting, TypeOK
  <2>3. Enqueuing \subseteq Enqueuing' \cup {c}
    BY <2>1 DEF Enqueuing, NoReq, TypeOK, Requests
  <2>4. Quiet'
    BY <1>0, <2>1 DEF Quiet, TypeOK, Requests, NoReq
  <2>5. Carried'
    BY <1>0, <2>1, <2>2, <2>3 DEF Carried, Loaded, AtWork, On
  <2> QED
    BY <2>4, <2>5
<1>7. CASE IngestFinish(r)
  BY <1>2, <1>7 DEF IngestFinish, Enqueued, Holds
<1>8. CASE RetryFinish(r)
  BY <1>2, <1>8 DEF RetryFinish, Enqueued, Holds
<1>9. CASE UploadFinish(r)
  BY <1>2, <1>9 DEF UploadFinish, Enqueued, Holds
<1> QED
  BY <1>3, <1>4, <1>5, <1>6, <1>7, <1>8, <1>9 DEF RequestStep

LEMMA HorseCarries ==
  ASSUME Faults = {}, TypeOK, CarryInv, NEW w \in Worker,
         HorseStep(w) \/ \E c \in Cand : Start(w, c)
  PROVE  CarryInv'
<1> USE DEF CarryInv, rowVars
<1>0. UNCHANGED <<sweep, req>>
  BY DEF HorseStep, Begin, Work, WriteVerdict, RecordFailure, Settle, Start
<1>1. ASSUME \A c \in Cand : ~stale'[c] PROVE Quiet'
  BY <1>0, <1>1 DEF Quiet
<1>2. ASSUME NEW c \in Cand, Start(w, c) PROVE CarryInv'
  <2>1. Waiting \subseteq Waiting' \cup {c}
    BY <1>2 DEF Start, Waiting, TypeOK
  <2>2. /\ Exists(c) => horse'[w] = [pc |-> "begin", cand |-> c, seen |-> status[c]]
        /\ ~Exists(c) => horse'[w] = horse[w]
        /\ \A x \in Worker \ {w} : horse'[x] = horse[x]
        /\ horse[w].pc = "idle" /\ UNCHANGED <<status, stale>>
    BY <1>2 DEF Start, TypeOK, On
  <2>3. /\ Exists(c) => c \in Loaded'
        /\ Loaded \subseteq Loaded' /\ AtWork \subseteq AtWork'
    BY <2>2 DEF Loaded, AtWork, On
  <2>4. Carried'
    BY <1>0, <2>1, <2>2, <2>3 DEF Carried, Enqueuing, Exists
  <2> QED
    BY <1>1, <2>2, <2>4 DEF Quiet
<1>3. ASSUME NEW to \in {"work", "write", "fail"}, ~On(w, "idle"), Goto(w, to), UNCHANGED queued,
             \/ UNCHANGED status
             \/ status' = [c \in Cand |-> IF c = horse[w].cand THEN "processing" ELSE status[c]]
      PROVE  Carried'
  <2>1. /\ horse'[w].pc = to /\ horse'[w].cand = horse[w].cand
        /\ \A x \in Worker \ {w} : horse'[x] = horse[x]
        /\ horse[w].cand \in Cand
    BY <1>3 DEF Goto, On, TypeOK, Horses
  <2>2. /\ Loaded \subseteq Loaded' /\ AtWork \subseteq AtWork'
        /\ horse[w].cand \in AtWork'
    BY <1>3, <2>1 DEF Loaded, AtWork, On
  <2> QED
    BY <1>0, <1>3, <2>2 DEF Carried, Waiting, Enqueuing
<1>4. ASSUME Ends(w), ~On(w, "idle"), UNCHANGED queued,
             status'[horse[w].cand] \notin {"pending", "processing"},
             \A c \in Cand : c # horse[w].cand => status'[c] = status[c]
      PROVE  Carried'
  <2>1. \A x \in Worker \ {w} : horse'[x] = horse[x]
    BY <1>4 DEF Ends, TypeOK
  <2>2. Loaded \subseteq Loaded' \cup {horse[w].cand} /\ AtWork \subseteq AtWork' \cup {horse[w].cand}
    BY <2>1 DEF Loaded, AtWork, On
  <2> QED
    BY <1>0, <1>4, <2>2 DEF Carried, Waiting, Enqueuing
<1>5. CASE Begin(w)
  BY <1>1, <1>3, <1>4, <1>5, PutStaysFresh DEF Begin, Put, Gone, Exists, Quiet, On
<1>6. CASE Work(w)
  <2>1. \A c \in Cand : ~stale'[c]
    BY <1>6 DEF Work, Quiet, TypeOK
  <2> QED
    BY <1>1, <1>3, <1>4, <1>6, <2>1 DEF Work, Gone, Exists, On
<1>7. ASSUME NEW st \in {"done", "failed"}, NEW kind, ~On(w, "idle"), Settle(w, st, kind)
      PROVE  CarryInv'
  BY <1>1, <1>4, <1>7, PutStaysFresh DEF Settle, Put, Gone, Exists, Quiet, TypeOK, Horses, On
<1> QED
  BY <1>2, <1>5, <1>6, <1>7 DEF HorseStep, WriteVerdict, RecordFailure, On

(* Without faults neither the watchdog nor the clock finds anything to do. *)
LEMMA NothingGetsStale ==
  ASSUME Faults = {}, TypeOK, CarryInv
  PROVE  ~Crash /\ (\A s \in Sweeper : ~SweepStep(s)) /\ (\A c \in Cand : ~TimePasses(c))
<1>1. ~Crash
  BY DEF Crash, ApiCrash, DbError, HorseDies, SweepDies
<1>2. ASSUME NEW s \in Sweeper, SweepStep(s) PROVE FALSE
  <2>1. sweep[s].pc = "idle"
    BY DEF CarryInv, Quiet, Idle
  <2> QED
    BY <1>2, <2>1 DEF SweepStep, SweepRuns, SweepSelect, SweepCommit, SweepGiveUp, SweepEnqueue,
       CarryInv, Quiet
<1>3. ASSUME NEW c \in Cand, TimePasses(c) PROVE FALSE
  <2>1. c \notin Waiting /\ c \notin Enqueuing /\ c \notin Loaded /\ c \notin AtWork
    BY <1>3 DEF TimePasses, InHorse, InRequest, Waiting, Enqueuing, Loaded, AtWork
  <2> QED
    BY <1>3, <2>1 DEF TimePasses, Open, CarryInv, Carried
<1> QED
  BY <1>1, <1>2, <1>3

(* As long as nothing crashes and Redis takes every entry, no interleaving *)
(* of sheets, retries, uploads, cancellations, removals and horses leaves  *)
(* an open candidate that nobody works for: the watchdog is only needed    *)
(* for faults.                                                             *)
THEOREM NobodyIsForgotten ==
  ASSUME Faults = {}
  PROVE  Spec => []NoneForgotten
<1>1. Init => CarryInv
  BY DEF Init, CarryInv, Quiet, Carried
<1>2. TypeOK /\ CarryInv /\ [Next]_vars => CarryInv'
  <2> SUFFICES ASSUME TypeOK, CarryInv, [Next]_vars PROVE CarryInv'
    OBVIOUS
  <2>1. CASE UNCHANGED vars
    BY <2>1 DEF vars, CarryInv, Quiet, Carried, Waiting, Enqueuing, Loaded, AtWork, On
  <2> QED
    BY <2>1, UserCarries, RequestCarries, HorseCarries, NothingGetsStale DEF Next
<1>3. CarryInv => NoneForgotten
  <2> SUFFICES ASSUME CarryInv, NEW c \in Cand
               PROVE  /\ status[c] = "pending" => ~Abandoned(c)
                      /\ c \in AtWork => \E w \in Worker :
                           ~On(w, "idle") /\ ~On(w, "begin") /\ horse[w].cand = c
    BY DEF CarryInv, Carried, NoneForgotten
  <2>1. Abandoned(c) => c \notin Waiting \cup Enqueuing \cup Loaded
    BY DEF Abandoned, InHorse, InRequest, Waiting, Enqueuing, Loaded
  <2> QED
    BY <2>1 DEF CarryInv, Carried, AtWork
<1> QED
  BY <1>1, <1>2, <1>3, TypeCorrect, PTL DEF Spec
=============================================================================
