---------------------------- MODULE VerdictCache ----------------------------
(***************************************************************************)
(* Which resume and which job settings a verdict rests on.  A work horse   *)
(* (process_candidate in app/workers/tasks.py) resolves the resume text,   *)
(* looks in the Redis cache, parses, judges, and caches the verdict under  *)
(* the text and the settings it loaded; meanwhile resumes are uploaded     *)
(* (app/api/ingest.py), settings change (app/api/jobs.py) and verdicts are *)
(* edited (app/api/results.py).  A resume stands for its text.             *)
(***************************************************************************)
EXTENDS Naturals

CONSTANTS
  Cand,         \* the candidates of the job
  Resume,       \* the resumes that exist
  Config,       \* values of the job's weights and thresholds
  None,         \* SQL NULL, or nothing there
  Worker,       \* RQ workers
  Upload,       \* resume uploads in flight at once
  MaxRequests   \* bound: API requests in a behaviour

ASSUME NoneAssumption == None \notin Resume

VARIABLES
  latest,   \* the resume the recruiter attached last (not in the code)
  replaced, \* a resume was uploaded (not in the code)
  clashed,  \* the candidates of whom an upload was in flight while a horse
            \* was still resolving the text (not in the code)
  link,     \* the resume behind the link in the sheet
  disk,     \* the file STORAGE_DIR/<candidate id>.<ext>
  url,      \* Candidate.resume_url: the link, the file, or neither
  text,     \* Candidate.resume_text
  parsed,   \* Candidate.parsed, as the resume it was parsed from
  verdict,  \* the newest Evaluation: what its verdict rests on, or None
  config,   \* Job.weights and Job.thresholds
  entries,  \* queue entries of process_candidate
  cache,    \* the verdict:<key> entries of Redis
  horse,    \* the work horse of each worker
  upload,   \* the resume uploads in flight
  nreq      \* requests received so far

given == <<latest, replaced, clashed>>
rows == <<url, text, parsed, verdict>>
vars == <<given, link, disk, url, text, parsed, verdict, config, entries, cache,
          horse, upload, nreq>>

Maybe   == Resume \cup {None}
Basis   == [text : Resume, parsed : Resume, config : Config, edited : BOOLEAN]
Idle    == [pc |-> "idle"]
Loaded(pc, texts, parses) ==
  [pc : pc, cand : Cand, url : {"none", "link", "disk"},
   text : texts, parsed : parses, config : Config]
Horses  == {Idle} \cup Loaded({"fetch", "extract"}, {None}, Maybe)
                  \cup Loaded({"lookup", "parse"}, Resume, Maybe)
                  \cup Loaded({"judge", "cache"}, Resume, Resume)
NoUpload == [file |-> None]
Uploading == {NoUpload} \cup [cand : Cand, seen : Maybe, file : Maybe]

(* A horse never goes on without a text ("callers must not silently score  *)
(* an empty resume", tasks.py:60), nor judges without a parse.             *)
TypeOK ==
  /\ latest  \in [Cand -> Maybe]
  /\ replaced \in BOOLEAN
  /\ clashed \in SUBSET Cand
  /\ link    \in [Cand -> Maybe]
  /\ disk    \in [Cand -> Maybe]
  /\ url     \in [Cand -> {"none", "link", "disk"}]
  /\ text    \in [Cand -> Maybe]
  /\ parsed  \in [Cand -> Maybe]
  /\ verdict \in [Cand -> Basis \cup {None}]
  /\ config  \in Config
  /\ entries \in [Cand -> Nat]
  /\ cache   \in [Resume \X Config -> Basis \cup {None}]
  /\ horse   \in [Worker -> Horses]
  /\ upload  \in [Upload -> Uploading]
  /\ nreq    \in Nat

(* A sheet was ingested: every row is queued, some with a link.            *)
Init ==
  /\ link \in [Cand -> Maybe]
  /\ latest  = link
  /\ replaced = FALSE
  /\ clashed = {}
  /\ url     = [c \in Cand |-> IF link[c] = None THEN "none" ELSE "link"]
  /\ disk    = [c \in Cand |-> None]
  /\ text    = [c \in Cand |-> None]
  /\ parsed  = [c \in Cand |-> None]
  /\ verdict = [c \in Cand |-> None]
  /\ config \in Config
  /\ entries = [c \in Cand |-> 1]
  /\ cache   = [k \in Resume \X Config |-> None]
  /\ horse   = [w \in Worker |-> Idle]
  /\ upload  = [u \in Upload |-> NoUpload]
  /\ nreq    = 0

On(w, pc) == horse[w].pc = pc

NoUploadOf(c) == \A u \in Upload : upload[u] # NoUpload => upload[u].cand # c

(* A horse has the download or the extraction of the text of c ahead.      *)
Resolves(c) == \E w \in Worker : horse[w].pc \in {"fetch", "extract"} /\ horse[w].cand = c

(* Nobody works for c.                                                     *)
Settled(c) ==
  /\ entries[c] = 0
  /\ \A w \in Worker : ~On(w, "idle") => horse[w].cand # c
  /\ NoUploadOf(c)

Arrives == nreq < MaxRequests /\ nreq' = nreq + 1
-----------------------------------------------------------------------------
(* API requests *)

(* retry-failed, retry, or the watchdog: a candidate without a verdict is  *)
(* queued again.                                                           *)
Requeue(c) ==
  /\ Arrives
  /\ verdict[c] = None
  /\ entries' = [entries EXCEPT ![c] = @ + 1]
  /\ UNCHANGED <<given, link, disk, rows, config, cache, horse, upload>>

(* upload_candidate_resume accepts a resume at any time, also while horses *)
(* work for the candidate.                                                 *)
UploadRead(u, c, v) ==
  /\ Arrives
  /\ upload[u] = NoUpload
  /\ upload' = [upload EXCEPT ![u] = [cand |-> c, seen |-> text[c], file |-> v]]
  /\ clashed' = IF Resolves(c) THEN clashed \cup {c} ELSE clashed
  /\ UNCHANGED <<latest, replaced, link, disk, rows, config, entries, cache, horse>>

(* save_resume overwrites the file of the candidate ...                    *)
UploadSave(u) ==
  /\ upload[u].file # None
  /\ disk' = [disk EXCEPT ![upload[u].cand] = upload[u].file]
  /\ latest' = [latest EXCEPT ![upload[u].cand] = upload[u].file]
  /\ replaced' = TRUE
  /\ upload' = [upload EXCEPT ![u].file = None]
  /\ UNCHANGED <<clashed, link, rows, config, entries, cache, horse, nreq>>

(* Wrong variant: resume_text is not cleared.                              *)
UploadKeepsText(u) ==
  /\ upload[u] # NoUpload /\ upload[u].file = None
  /\ url' = [url EXCEPT ![upload[u].cand] = "disk"]
  /\ entries' = [entries EXCEPT ![upload[u].cand] = @ + 1]
  /\ upload' = [upload EXCEPT ![u] = NoUpload]
  /\ UNCHANGED <<given, link, disk, text, parsed, verdict, config, cache, horse, nreq>>

(* ... and the commit points resume_url at it and clears resume_text, if   *)
(* the text it loaded was not empty already.  parsed stays.                *)
UploadCommit(u) ==
  /\ upload[u] # NoUpload /\ upload[u].file = None
  /\ LET c == upload[u].cand IN
     /\ url' = [url EXCEPT ![c] = "disk"]
     /\ text' = IF upload[u].seen = None THEN text ELSE [text EXCEPT ![c] = None]
     /\ entries' = [entries EXCEPT ![c] = @ + 1]
  /\ upload' = [upload EXCEPT ![u] = NoUpload]
  /\ UNCHANGED <<given, link, disk, parsed, verdict, config, cache, horse, nreq>>

UpdateJob(k) ==
  /\ Arrives /\ k # config
  /\ config' = k
  /\ UNCHANGED <<given, link, disk, rows, entries, cache, horse, upload>>

(* Wrong variant: the override reaches the cache.                          *)
OverrideCached(c) ==
  /\ Arrives /\ verdict[c] # None
  /\ verdict' = [verdict EXCEPT ![c].edited = TRUE]
  /\ cache' = [cache EXCEPT ![<<verdict[c].text, verdict[c].config>>] =
                 [verdict[c] EXCEPT !.edited = TRUE]]
  /\ UNCHANGED <<given, link, disk, url, text, parsed, config, entries, horse, upload>>

(* update_evaluation: the recruiter overrides the verdict or the score.    *)
Override(c) ==
  /\ Arrives /\ verdict[c] # None
  /\ verdict' = [verdict EXCEPT ![c].edited = TRUE]
  /\ UNCHANGED <<given, link, disk, url, text, parsed, config, entries, cache,
                 horse, upload>>

DeleteEvaluation(c) ==
  /\ Arrives /\ verdict[c] # None
  /\ verdict' = [verdict EXCEPT ![c] = None]
  /\ UNCHANGED <<given, link, disk, url, text, parsed, config, entries, cache,
                 horse, upload>>

-----------------------------------------------------------------------------
(* The work horse *)

Move(w, pc) == horse' = [horse EXCEPT ![w].pc = pc]
End(w) == horse' = [horse EXCEPT ![w] = Idle]

(* The candidate and the job are loaded once.  A text that is there is     *)
(* used; a link is downloaded; a file is read.                             *)
Load(w, c) ==
  /\ On(w, "idle") /\ entries[c] > 0
  /\ entries' = [entries EXCEPT ![c] = @ - 1]
  /\ horse' = [horse EXCEPT ![w] =
       [pc |-> CASE text[c] # None   -> "lookup"
                 [] text[c] = None /\ url[c] = "link" -> "fetch"
                 [] OTHER            -> "extract",
        cand |-> c, url |-> url[c], text |-> text[c], parsed |-> parsed[c],
        config |-> config]]
  /\ clashed' = IF text[c] = None /\ ~NoUploadOf(c) THEN clashed \cup {c} ELSE clashed
  /\ UNCHANGED <<latest, replaced, link, disk, rows, config, cache, upload, nreq>>

(* fetch_drive_file writes to the same file as save_resume.                *)
Fetch(w) ==
  /\ On(w, "fetch")
  /\ disk' = [disk EXCEPT ![horse[w].cand] = link[horse[w].cand]]
  /\ Move(w, "extract")
  /\ UNCHANGED <<given, link, rows, config, entries, cache, upload, nreq>>

(* Wrong variant: no error for a file that is missing or has no text.      *)
ExtractAnything(w) ==
  /\ On(w, "extract")
  /\ LET c == horse[w].cand IN
     /\ text' = [text EXCEPT ![c] = disk[c]]
     /\ horse' = [horse EXCEPT ![w].text = disk[c], ![w].pc = "lookup"]
  /\ UNCHANGED <<given, link, disk, url, parsed, verdict, config, entries, cache,
                 upload, nreq>>

(* A file that is missing or has too little text is an error (Fail).       *)
Extract(w) ==
  /\ On(w, "extract")
  /\ LET c == horse[w].cand IN
     /\ horse[w].url # "none" /\ disk[c] # None
     /\ text' = [text EXCEPT ![c] = disk[c]]
     /\ horse' = [horse EXCEPT ![w].text = disk[c], ![w].pc = "lookup"]
  /\ UNCHANGED <<given, link, disk, url, parsed, verdict, config, entries, cache,
                 upload, nreq>>

Key(w) == <<horse[w].text, horse[w].config>>

Report(w, v) == verdict' = [verdict EXCEPT ![horse[w].cand] = v]

(* A hit is written as it is; an expired key or a Redis error is a miss.   *)
Hit(w) ==
  /\ On(w, "lookup") /\ cache[Key(w)] # None
  /\ Report(w, cache[Key(w)])
  /\ End(w)
  /\ UNCHANGED <<given, link, disk, url, text, parsed, config, entries, cache,
                 upload, nreq>>

Miss(w) ==
  /\ On(w, "lookup")
  /\ Move(w, "parse")
  /\ UNCHANGED <<given, link, disk, rows, config, entries, cache, upload, nreq>>

(* The stored parse is reused; otherwise the text is parsed and stored.    *)
Parse(w) ==
  /\ On(w, "parse")
  /\ LET p == IF horse[w].parsed # None THEN horse[w].parsed ELSE horse[w].text IN
     /\ horse' = [horse EXCEPT ![w].parsed = p, ![w].pc = "judge"]
     /\ parsed' = IF horse[w].parsed # None THEN parsed
                  ELSE [parsed EXCEPT ![horse[w].cand] = p]
  /\ UNCHANGED <<given, link, disk, url, text, verdict, config, entries, cache,
                 upload, nreq>>

(* Wrong variant: thresholds are read from the job again.                  *)
ResultLive(w) ==
  [text |-> horse[w].text, parsed |-> horse[w].parsed, config |-> config,
   edited |-> FALSE]

(* Filters, match, judge and score use the parse and the loaded settings.  *)
Result(w) ==
  [text |-> horse[w].text, parsed |-> horse[w].parsed, config |-> horse[w].config,
   edited |-> FALSE]

Judge(w) ==
  /\ On(w, "judge")
  /\ Report(w, Result(w))
  /\ Move(w, "cache")
  /\ UNCHANGED <<given, link, disk, url, text, parsed, config, entries, cache,
                 upload, nreq>>

(* Wrong variant: the resume text is not part of the key.                  *)
CacheVerdictByConfig(w) ==
  /\ On(w, "cache")
  /\ cache' = [k \in Resume \X Config |-> IF k[2] = horse[w].config THEN Result(w)
                                          ELSE cache[k]]
  /\ End(w)
  /\ UNCHANGED <<given, link, disk, rows, config, entries, upload, nreq>>

(* _cache_verdict is best effort.                                          *)
CacheVerdict(w) ==
  /\ On(w, "cache")
  /\ \/ cache' = [cache EXCEPT ![Key(w)] = Result(w)]
     \/ UNCHANGED cache
  /\ End(w)
  /\ UNCHANGED <<given, link, disk, rows, config, entries, upload, nreq>>

(* Any exception before the verdict: the newest Evaluation is an error.    *)
Fail(w) ==
  /\ ~On(w, "idle") /\ ~On(w, "cache")
  /\ Report(w, None)
  /\ End(w)
  /\ UNCHANGED <<given, link, disk, url, text, parsed, config, entries, cache,
                 upload, nreq>>

(* Redis drops a verdict after seven days.                                 *)
Expire(k) ==
  /\ cache[k] # None
  /\ cache' = [cache EXCEPT ![k] = None]
  /\ UNCHANGED <<given, link, disk, rows, config, entries, horse, upload, nreq>>

-----------------------------------------------------------------------------
Next ==
  \/ \E c \in Cand :
       \/ Requeue(c) \/ Override(c) \/ DeleteEvaluation(c)
       \/ \E u \in Upload, v \in Resume : UploadRead(u, c, v)
       \/ \E w \in Worker : Load(w, c)
  \/ \E u \in Upload : UploadSave(u) \/ UploadCommit(u)
  \/ \E k \in Config : UpdateJob(k)
  \/ \E w \in Worker :
       \/ Fetch(w) \/ Extract(w) \/ Hit(w) \/ Miss(w) \/ Parse(w) \/ Judge(w)
       \/ CacheVerdict(w) \/ Fail(w)
  \/ \E k \in Resume \X Config : Expire(k)

Spec == Init /\ [][Next]_vars
-----------------------------------------------------------------------------
(* A cached verdict rests on the settings in its key, so recalibrating a   *)
(* job "doesn't serve a stale cached verdict" (tasks.py:80), even if the   *)
(* settings change while a horse works with the ones it loaded.            *)
CacheFollowsSettings ==
  \A k \in Resume \X Config : cache[k] # None => <<cache[k].text, cache[k].config>> = k

(* A recruiter's override stays out of the cache: "a later re-evaluation   *)
(* with the same inputs will still serve the original" (results.py:444).   *)
OverrideStaysLocal == \A k \in Resume \X Config : cache[k] # None => ~cache[k].edited

(* A cached verdict was judged from a parse of the text in its key, so     *)
(* another candidate with that resume may be served it, as long as no      *)
(* resume was replaced (UploadIsEvaluated says what happens then).         *)
CacheFollowsResume ==
  ~replaced => \A k \in Resume \X Config : cache[k] # None => cache[k].parsed = k[1]

(* The text of a candidate is that of the resume attached last, whatever   *)
(* is uploaded, twice or while horses look up, parse, judge or cache, and  *)
(* whatever fails and is retried; unless an upload met a horse that still  *)
(* had the download or the extraction ahead of it (NewestTextWins).        *)
TextIsLatest ==
  \A c \in Cand \ clashed : NoUploadOf(c) /\ text[c] # None => text[c] = latest[c]

(* Uploading is to "attach a resume file directly to a candidate           *)
(* (alternative to resume_url), then re-queue it" (ingest.py:458): at      *)
(* whatever moment it comes, once the candidate is settled its text is     *)
(* that of the file.                                                       *)
NewestTextWins ==
  \A c \in Cand : Settled(c) /\ text[c] # None => text[c] = latest[c]

(* The same docstring: even if the upload met no horse, the verdict of a   *)
(* settled candidate rests on that resume alone.                           *)
UploadIsEvaluated ==
  \A c \in Cand \ clashed :
    Settled(c) /\ verdict[c] # None => verdict[c].parsed = latest[c]
=============================================================================
