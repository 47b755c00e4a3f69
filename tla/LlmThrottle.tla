---------------------------- MODULE LlmThrottle ----------------------------
(***************************************************************************)
(* Client-side throttling of LLM calls (app/llm/_openai_compatible.py): a  *)
(* sliding window of call times per process, consulted before each attempt *)
(* of complete_json.  RQ forks a work horse per job, so the window a job   *)
(* starts with is that of the parent, which never makes a call.  Time is   *)
(* counted in ticks; an attempt takes at least one.                        *)
(***************************************************************************)
EXTENDS Naturals, FiniteSets, FiniteSetsExt

CONSTANTS
  Worker,       \* RQ workers, each with one work horse at a time
  Limit,        \* requests_per_minute
  Window,       \* sixty seconds, in ticks
  MaxRetries,   \* attempts of one complete_json
  MaxJobs,      \* bound: jobs a worker handles
  MaxTime       \* bound: ticks

ASSUME LimitAssumption  == Limit \in Nat \ {0}
ASSUME WindowAssumption == Window \in Nat \ {0}
ASSUME RetryAssumption  == MaxRetries \in Nat \ {0}

VARIABLES
  now,      \* time.monotonic()
  pc,       \* where the horse of each worker is
  window,   \* _RateLimiter._calls of that horse
  wake,     \* when its sleep ends
  attempt,  \* attempt of the current complete_json
  job,      \* jobs the worker has handled, the current one included
  sent      \* calls that reached the provider, as [worker, job, at]

throttleVars == <<now, pc, window, wake, attempt, job, sent>>

ThrottleTypeOK ==
  /\ now     \in Nat
  /\ pc      \in [Worker -> {"idle", "check", "sleep", "call", "calling", "backoff"}]
  /\ window  \in [Worker -> SUBSET (0..now)]
  /\ wake    \in [Worker -> Nat]
  /\ attempt \in [Worker -> 0..MaxRetries]
  /\ job     \in [Worker -> Nat]
  /\ sent    \subseteq [worker : Worker, job : Nat, at : 0..now]

ThrottleInit ==
  /\ now     = 0
  /\ pc      = [w \in Worker |-> "idle"]
  /\ window  = [w \in Worker |-> {}]
  /\ wake    = [w \in Worker |-> 0]
  /\ attempt = [w \in Worker |-> 0]
  /\ job     = [w \in Worker |-> 0]
  /\ sent    = {}

Move(w, to) == pc' = [pc EXCEPT ![w] = to]

(* Calls strictly older than the window are dropped.                       *)
Recent(w) == {t \in window[w] : ~(now - t > Window)}
-----------------------------------------------------------------------------
(* A horse is forked for a job, with the empty window of its parent.       *)
Fork(w) ==
  /\ pc[w] = "idle" /\ job[w] < MaxJobs
  /\ job' = [job EXCEPT ![w] = @ + 1]
  /\ window' = [window EXCEPT ![w] = {}]
  /\ attempt' = [attempt EXCEPT ![w] = 1]
  /\ Move(w, "check")
  /\ UNCHANGED <<now, wake, sent>>

(* Wrong variant: sleeps only when the window holds more than the limit.   *)
CheckLate(w) ==
  /\ pc[w] = "check"
  /\ window' = [window EXCEPT ![w] = Recent(w)]
  /\ \/ Cardinality(Recent(w)) <= Limit /\ Move(w, "call") /\ UNCHANGED wake
     \/ /\ Cardinality(Recent(w)) > Limit
        /\ wake' = [wake EXCEPT ![w] = Min(Recent(w)) + Window]
        /\ Move(w, "sleep")
  /\ UNCHANGED <<now, attempt, job, sent>>

(* wait(): below the limit the call may go; otherwise the process sleeps   *)
(* until the oldest call leaves the window.                                *)
Check(w) ==
  /\ pc[w] = "check"
  /\ window' = [window EXCEPT ![w] = Recent(w)]
  /\ \/ Cardinality(Recent(w)) < Limit /\ Move(w, "call") /\ UNCHANGED wake
     \/ /\ Cardinality(Recent(w)) >= Limit
        /\ wake' = [wake EXCEPT ![w] = Min(Recent(w)) + Window]
        /\ Move(w, "sleep")
  /\ UNCHANGED <<now, attempt, job, sent>>

(* After the sleep the window is purged, but its length is not tested      *)
(* again: the call goes in any case.                                       *)
WakeUp(w) ==
  /\ pc[w] = "sleep" /\ now >= wake[w]
  /\ window' = [window EXCEPT ![w] = Recent(w)]
  /\ Move(w, "call")
  /\ UNCHANGED <<now, wake, attempt, job, sent>>

Call(w) ==
  /\ pc[w] = "call"
  /\ window' = [window EXCEPT ![w] = @ \cup {now}]
  /\ sent' = sent \cup {[worker |-> w, job |-> job[w], at |-> now]}
  /\ Move(w, "calling")
  /\ UNCHANGED <<now, wake, attempt, job>>

(* The provider answers: complete_json returns, and the job makes another  *)
(* LLM call (parse, then judge) or has made its last.                      *)
Answer(w) ==
  /\ pc[w] = "calling" /\ now > Max(window[w])
  /\ \/ Move(w, "check") /\ attempt' = [attempt EXCEPT ![w] = 1]
     \/ Move(w, "idle") /\ attempt' = [attempt EXCEPT ![w] = 0]
  /\ UNCHANGED <<now, window, wake, job, sent>>

(* Wrong variant: one attempt too many.                                    *)
UnavailableOnceMore(w) ==
  /\ pc[w] = "calling" /\ now > Max(window[w])
  /\ attempt[w] <= MaxRetries /\ Move(w, "backoff")
  /\ UNCHANGED <<now, attempt, window, wake, job, sent>>

(* LLMUnavailableError: back off and try again, or raise; a failed parse   *)
(* ends the job.  How long the backoff is, is not modelled.                *)
Unavailable(w) ==
  /\ pc[w] = "calling" /\ now > Max(window[w])
  /\ \/ attempt[w] < MaxRetries /\ Move(w, "backoff") /\ UNCHANGED attempt
     \/ /\ attempt[w] = MaxRetries
        /\ Move(w, "idle") /\ attempt' = [attempt EXCEPT ![w] = 0]
  /\ UNCHANGED <<now, window, wake, job, sent>>

Retry(w) ==
  /\ pc[w] = "backoff"
  /\ attempt' = [attempt EXCEPT ![w] = @ + 1]
  /\ Move(w, "check")
  /\ UNCHANGED <<now, window, wake, job, sent>>

Tick ==
  /\ now < MaxTime
  /\ now' = now + 1
  /\ UNCHANGED <<pc, window, wake, attempt, job, sent>>

ThrottleNext ==
  \/ \E w \in Worker :
       \/ Fork(w) \/ Check(w) \/ WakeUp(w) \/ Call(w)
       \/ Answer(w) \/ Unavailable(w) \/ Retry(w)
  \/ Tick

ThrottleSpec == ThrottleInit /\ [][ThrottleNext]_throttleVars
-----------------------------------------------------------------------------
InWindow(S) == Cardinality({c \in S : now < c.at + Window})

(* Within a job no sixty seconds see more calls than the limit, although   *)
(* the window is not tested again after a sleep and its oldest call may    *)
(* still be in it.                                                         *)
JobWithinLimit ==
  \A w \in Worker :
    InWindow({c \in sent : c.worker = w /\ c.job = job[w]}) <= Limit

(* "one RQ worker == one process handling candidates one at a time, so a   *)
(* process-local window is sufficient" (_openai_compatible.py:20): a       *)
(* single worker stays under the limit.                                    *)
WorkerWithinLimit == \A w \in Worker : InWindow({c \in sent : c.worker = w}) <= Limit
=============================================================================
