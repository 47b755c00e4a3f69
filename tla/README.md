# Right Hire: a TLA+ model of the candidate evaluation service

Right Hire takes a job description and a sheet of candidates, evaluates every
resume with an LLM in the background, and shows verdicts to a recruiter. The
program is an API (FastAPI, async SQLAlchemy), RQ workers fed by Redis, a
Reflex UI that calls the API, and a script that collects candidates. This
directory models the parts in which several of these act on the same rows, the
pages whose handlers and polls interleave, and the arithmetic that turns a
resume into a verdict, with what they promise together.

Paths below are relative to the root of the repository (`app/...`, `ui/...`);
`PROJECT.json` maps every definition to the lines it stands for.

## 1. The system

### Components, their state and their operations

| Component | State | Operations | What makes it correct |
|---|---|---|---|
| Candidate lifecycle: `app/api/ingest.py`, `app/workers/tasks.py` | `Candidate.status`, `updated_at`, `stale_retries`; `Evaluation` rows; the RQ queue; RQ's scheduled jobs | ingest a sheet, retry, upload a resume, cancel pending, edit, delete, delete an evaluation; `process_candidate`; `sweep_stale_candidates` | an outcome always has its report; nothing is forgotten; removal is final; retries are bounded; everything settles in the end |
| Credits: `app/api/billing.py`, `admin.py`, charges in `ingest.py` | `User.credits`, `CreditRequest.status`, the user row | spend by sheet or upload, refund, request, grant, set, delete the user | never negative; one credit per queued candidate |
| Job descriptions: `app/api/jobs.py`, `parse_job_description` | `Job.jd_parsed`, `jd_parse_pending`, candidates of the job | create, edit, delete, background parse; the check of a sheet | no candidates before a parse; deletion is final; a pending job is parsed |
| Evaluation pipeline and verdict cache: `tasks.py`, `app/pipeline/` | `resume_url`, `resume_text`, `parsed`, the stored file, `Evaluation`, Redis verdict keys, `Job.weights/thresholds` | resolve text, look up, parse, judge, cache; upload, override, recalibrate | a verdict rests on the resume and settings it claims to |
| LLM throttle: `app/llm/_openai_compatible.py` | call times per process | wait, call, retry | calls per minute within the provider's limit |
| Results page: `ui/right_hire_ui/states/results_state.py` | selected job, rows, offset, has_more, selection, background polls | select, follow a link, load, load more, delete, retry, attach, poll | rows of the selected job, each once; offset in step |
| Scoring, filters, matching: `app/pipeline/score.py`, `filters.py`, `match.py` | none (pure) | filter, overlap, aggregate, cut off | merit decides: nothing a candidate has more counts against him |
| Results statistics: `app/api/results.py` | none (read) | percentile, rank, histogram, suggested cutoffs, verdict counts | every score counted once, in order; page and CSV agree |
| Job creation wizard: `ui/.../create_job_state.py`; sliders of `results_state.py` | step, criteria, facts, weights, cutoffs; drafts | read, edit, normalise, submit; slide, recalibrate | no criterion lost; no drag puts cutoffs out of order |
| Accounts and API keys: `app/api/auth.py`, `app/auth.py`, `admin.py`, `app_state.py` | the user row, its key hash, the browser's key | signup, rotate, operator reset, remove | one account per e-mail; the key shown last works |
| Sheet ingestion: `app/pipeline/ingest.py` | none (pure) | propose a column mapping, apply it, parse without one | no column for two fields; each mapped cell arrives |
| Upload page: `ui/.../upload_state.py` | job, pending sheet, columns, mapping, counts, polls | select, follow a link, upload, map, cancel, confirm, start again, poll | what was shown is what is ingested, and charged once; polls end |
| Candidate collector: `scripts/collect_candidates.py` | candidates found, live sheet, export, report | search two sources, enrich, export, verify, restart | the sheet has what was found; usable means accepted |
| LLM providers, embeddings, application shell, other scripts, migrations | see `PROJECT.json` | | not modelled, reasons there |

### How they interact

    UI state --HTTP--> API request --commit--> database rows <--commit-- work horse
                          |                         ^                        ^
                          +--enqueue--> RQ queue ---|------- fork -----------+
                                           ^        |
                                           +-- stale sweep (RQ Repeat, or started by hand)

* An API request is a coroutine: it loads rows, awaits (reading a file, a query,
  a commit) and commits; enqueues are plain calls between two commits. The
  database is MySQL unless configured otherwise. Sessions use `expire_on_commit=False`, so
  it decides on what it loaded first. There is no row lock and no version column.
* RQ forks a work horse per job. A horse loads the candidate and the job once,
  works for minutes, commits on the way, and writes verdict and status together.
  ORM flushes write only the columns whose value differs from the loaded one.
* The watchdog runs on the same queue and re-queues, or gives up on, rows that
  nobody wrote for an hour. It is armed by every worker job, best effort.
* The UI holds one state per browser session. A foreground handler holds its
  lock to the end; background polls take it only to read and to write. Events
  queue up behind a handler, so a click may act on a page already gone.
* The collector is one thread. Its sheet is appended to as candidates become
  complete and survives it; everything else is lost when it is killed. It uses
  the worker's own download and extraction helpers, with another threshold.

### What is hard

Rows written by four kinds of process without coordination; values loaded
before an await and written after it; commits and enqueues that are not atomic;
horses, API processes and Redis that fail in between; failure handlers that
fail; a cache whose entries outlive what they rest on; polls that answer late;
clicks queued for a page that changed; criteria, mappings and cutoffs that pass
through several representations; rounding and indices composed over five steps.
`PROJECT.json` lists these hazards, each at its line.

## 2. Modules

| Module | Models | Its variables are | Its actions are |
|---|---|---|---|
| `CandidateBoard` | what the results page promises (abstract) | what is shown of each candidate | submit, update, remove |
| `CandidateLifecycle` | requests, queue, horses, watchdog, crashes | row columns, newest report, queue, horse/sweep/request in progress with the values they loaded | one per transaction or await-delimited step |
| `CreditLedger` | the account of one user: balance and key | `credits`, tickets, `key`, `held`, requests with what they loaded | sign up, rotate, reset, check, charge, enqueue, refund, grant, set, remove |
| `JdParse` | pending job descriptions | parse state, queue entries, sheets past the check | create, save, delete, check, insert, parse, outages |
| `VerdictCache` | on what a verdict rests | text, parse, file, verdict, settings, cache, horses | requests and each stage of `process_candidate` |
| `LlmThrottle` | the sliding window of calls | window, attempt, calls sent, time | check, sleep, call, answer, retry, tick |
| `ResultsView` | the results page | rows, offset, selection, polls; the server's rows | handlers, the poll's three steps, workers and other sessions |
| `SheetMapping` | columns of a sheet to fields of a candidate | (operators) | |
| `UploadPage` | the upload page (EXTENDS `SheetMapping`) | the page's fields, its event queue, polls, what was ingested | a user's event, one per handler, the poll's steps |
| `Scoring` | filters, overlap, score, verdict, statistics | (operators) | |
| `Screening` | wizard, sliders, evaluations, statistics (EXTENDS `Scoring`) | the wizard's fields, drafts, the job, its evaluations | one per handler, and a worker's evaluation |
| `Collector` | runs of the collector | phase, page, query, found, live sheet, export, report | one per request, candidate or download |
| `MC*` | small instances for TLC (`LlmThrottle` runs as it is) | | |
| `Subsequences` | what a filter keeps of a sequence, and the first of each value (EXTENDED by the three modules that filter lists) | (operators) | |
| `*Proofs` | theorems checked by TLAPS: one module per component; `ServiceProofs` has those of `CreditLedger`, `JdParse` and `LlmThrottle` (hence the prefixes of their definitions), `SubsequencesProofs` the lemmas about lists | | |

`CandidateLifecycle` INSTANCEs `CandidateBoard` (`ImplementsBoard`). The other
modules meet it at named points only: what a horse does between `Begin` and
`WriteVerdict` is `VerdictCache`; what a request charges is `CreditLedger`; that
a job may have candidates at all is `JdParse`; what the recruiter then sees is
`ResultsView`; what `UploadPage` ingests is the sheet `CreditLedger` charges for
and whose rows `CandidateLifecycle` queues; the score and the verdict that
`VerdictCache` leaves uninterpreted are those of `Scoring`, for the job
`Screening` makes; `Collector` writes the sheets that are uploaded and calls the
helpers with which `VerdictCache`'s `Fetch` gets a resume. Each keeps only the state its properties tell apart, so each is
small enough to be explored with all its faults.

### Modelling decisions

* **CandidateLifecycle.** `lastEval` is the newest `Evaluation` of a candidate
  (the one every page shows); `"removed"` after `delete_evaluation`. The queue
  is a bag of entries, as RQ's queue, retry and scheduled registries together
  are. `horse.seen`, `sweep.running` and `sweep.tries` are column values as
  loaded; a column is written only if it differs from them. `sched` is RQ's
  registry entry of the recurring sweep: set by a horse's start, lost when a
  sweep run by the `Repeater` fails. Time is `TimePasses`: a row that nobody
  wrote becomes stale, but never while a request, horse or sweep still has it in
  hand (those end within the ten-minute job timeout, the stale timeout is an
  hour). A queued row becomes stale only with the fault `"backlog"`. After a
  database error the horse's session is inactive, so its failure handler's
  commit fails too (`DbError`).
* **CreditLedger.** Requests write the absolute balance they computed from the
  row loaded at authentication. `owed` and `clean` are not in the code: what the
  user is entitled to, and whether requests overlapped or were cut short. A
  retry is free by design and therefore absent. Keys are numbered as they are
  made; `key` is the one whose hash is stored, `held` the one the browser keeps.
  A signup looks the e-mail up and inserts in two steps; the unique index
  refuses the second of two. `inStep` (not in the code) says that requests that
  make a key never overlapped and none of their answers was lost.
* **JdParse.** "Pending" means `jd_parse_pending`. A parse needs the LLM backend
  (`up`). `troubles` bounds outages, database errors and deaths of horses.
* **VerdictCache.** A resume is its text; resumes of two candidates may be equal.
  A verdict is recorded as what it rests on: text, parse, settings, and whether
  it was edited. Both `fetch_drive_file` and `save_resume` write
  `STORAGE_DIR/<candidate>.<ext>`; one extension is modelled. A lookup may always
  miss (expiry, Redis errors). Uploads come at any time, also two at once and while
  horses work. `latest`, `replaced` and `clashed` are not in the code: the resume
  attached last, whether one was ever replaced, and the candidates of whom an
  upload was in flight while a horse had the download or the extraction ahead.
* **LlmThrottle.** Time in ticks; a call takes at least one. Retries inside the
  client library are not in the repository and not modelled.
* **ResultsView.** A foreground handler is one action, its API calls included,
  because Reflex holds the state's lock for the whole handler; a yielded event
  is queued (`loads`) and user events may come before it. The listing has a
  fixed order (the query has no ORDER BY). The verdict filter is "All": no page
  of the UI calls `set_verdict_filter`. `clean` is not in the code. An API error
  in a handler that then changes nothing is a stuttering step. Comprehensions
  over rows are `Kept` (`Subsequences`), the positions at which a condition holds
  in their order; `Cut` is the window of a listing that a request names.

* **SheetMapping.** A header is a model value with what `_COL_MAP` and
  `_FIELD_KEYWORDS` say of it (`Exact`, `Hints`); headers of one sheet differ.
  A cell is its column's position, 0 when empty. `apply_column_mapping` keeps
  empty cells, `parse_excel` without a mapping drops them.
* **UploadPage.** A handler is one action, its request included, since Reflex
  holds the state's lock; what the user does enters a FIFO queue, if the element
  is `Visible` when he does it, and is handled later. A request may fail
  with nothing done; the API may commit the rows, queue none of them, keep them as
  failed and answer 503, for which the page keeps the sheet; or (with `Lossy`) the
  rows are queued and charged although the answer is lost. `ingested`, `saved`,
  `sent` and `lost` are not in the code: the rows made last, how often the pending
  sheet was saved, how often it was queued and charged, and whether an answer was
  lost. Polls are background tasks of three steps.
* **Scoring.** Weights, cutoffs and signals are hundredths, scores
  ten-thousandths, so `round(x, 4)` is `Rounded`; where binary fractions decide a
  tie (`normalize_weights`) either neighbour may come out (`Nearest`), and the
  three bucket edges at which `int(s / 0.1)` misses are spelled out, as are the
  numbers of scores at which `int(n * 0.70)` does (`Short`). `Rounded` takes a tie
  up, Python to the even digit of the binary fraction: no property but `MeritDecides`
  and the order of percentiles depends on rounding, and these only on its being
  monotone. Scores of -0.1 and less have no bucket (section 5). Skill names
  are model values with their lower case, canonical form and substring relation;
  cosine and the judge's score come with the resume.
* **Screening.** One job at a time: `Submit` makes the next one. A worker's
  evaluation is atomic, since it uses the settings it loaded; that settings
  change meanwhile is `VerdictCache`'s subject, as overrides are. A client of the API
  may give its job any cutoffs (`ApiJob`), which the page loads as they are. A normalised
  weight may leave 0..100: the judge gets what the others leave. `read` and
  `source` (not in the code) remember what the LLM read as long as it is unedited.
* **Collector.** The two sources are requested page by page; each request, page
  or profile may fail. A candidate is a name, an e-mail or none, a link and its
  source. A download is what the link serves: how much text each extractor finds,
  whether it is a web page or Google's sign-in page. `fresh` marks where the
  current run's rows begin in the CSV. `option` is the command line and whether
  openpyxl is installed: without it the export is skipped and the run goes on. A run may be killed in any state.

Definitions marked "Wrong variant" are never part of `Next`. Each is the code
with a plausible bug; replacing the real definition by it must break the
property `PROJECT.json` names, which shows that the property tests that code.

## 3. Runs

All runs finish within about three minutes on two workers.

| Run | Instance and bounds | Properties |
|---|---|---|
| `lifecycle_races` | 1 candidate, 2 horses, 2 requests at once, 4 in all, all faults, 1 crash, watchdog without retries | `TypeOK`, `DoneHasVerdict`, `FailedIsExplained`, `RemovalIsFinal`, `ImplementsBoard` |
| `lifecycle_healthy` | 2 candidates, 2 horses, 2 requests at once, 3 in all, no faults | `NoneForgotten` |
| `lifecycle_liveness` | 1 candidate, 1 horse, 2 watchdogs, 2 requests, 2 crashes or failed sweeps, 1 retry, every fault but backlog | `StaleRetriesBounded`, `EventuallySettled` |
| `ledger` | 2 requests at once, 5 in all (the signup is one), sheets of up to 3 rows, grants, all faults | `LedgerTypeOK`, `NeverOverdrawn`, `BooksBalance`, `KeysInStep` |
| `jd` | 2 jobs, 2 parsers, 1 sheet, 2 troubles, all faults | `JdTypeOK`, `NoneBeforeParse`, `DeletionIsFinal`, `QueuedParseSucceeds` |
| `cache` | 2 candidates, 2 resumes, 2 settings, 2 horses, 2 uploads at any time, 2 requests | `TypeOK`, `CacheFollowsSettings`, `OverrideStaysLocal`, `CacheFollowsResume`, `TextIsLatest` |
| `throttle_job` | limit 2 in 3 ticks, 2 attempts, 2 jobs, 10 ticks | `ThrottleTypeOK`, `JobWithinLimit` |
| `view` | jobs of 3 and 1 rows, pages of 2, poll windows of up to 3, 2 polls of 2 rounds, 4 user events | `TypeOK`, `OffsetIsLoaded`, `ShownOnce` |
| `upload` | 1 job, 2 sheets of 3 columns, 2 polls of 2 rounds, 5 user events, 2 queued at once, refused uploads, 503s and lost answers | `TypeOK`, `ProposalIsInjective`, `IngestedAsShown`, `ChargedOnce`, `PollsEnd` |
| `screening` | 3 resumes, 2 readings and 1 job of an API client with Maybe above Fit, 2 edits, 2 evaluations, percentile and suggestion from 2 scores on | `CriteriaSurvive`, `MeritDecides`, `StatisticsAgree`, `InvertedOnlyAsMade` |
| `collector` | 2 runs with 3 options (two command lines, one with and without openpyxl), limit 2, 2 pages of 2 results per source and query, 2 queries, 4 findable candidates, 5 contents | `TypeOK`, `SheetIsFound`, `UsableIsAccepted`, `ExportMatchesSheet`, `RunEnds` |
| `lifecycle_sweep_race` | 1 candidate, 1 horse, 2 watchdogs | violates `SweepKeepsVerdicts` |

**Why these bounds are enough to be interesting.** One candidate suffices where
a property speaks of one row: other rows share no column with it, only the
batches of ingest, retry and cancel, and these fail as a whole (`lifecycle_healthy`
has two). Two horses, two requests and four requests in all give every overlap of two
writers that also needs a row to exist and to have failed first. The watchdog
without retries reaches the same writes (give up) as one with them; the retries
themselves are in `lifecycle_liveness`. With one crash a process can stop
between any two of its steps; the liveness run allows two. Two requests and
two uploads of `cache` are every pair of: a resume replaced, settings changed, a
requeue, an override, a deletion, also two resumes replaced at once, against two
horses of candidates that may share a resume. In `view`, three rows and pages of
two make a second page, a poll whose window spans two pages (`MaxWindow` is 3),
and a deletion on the first page;
jobs' rows are disjoint, as candidates of a job are. In `ledger` an account
takes a signup before anything else; four more requests are a rotation, a reset
and two that spend. In `upload` five events are: choose a job, upload, change the
mapping or upload again, confirm, confirm again (after a 503 too); two may be queued while the
page still shows an older one, which is when a click acts on a sheet it was not
made for. Its headers include one with the keywords of two fields, two that mean
the same field, and one named like a field. In `screening` one resume dominates
another and a third is comparable to neither; one reading lists a must-have in
another case, and one only as preferred; two scores are the fewest with a rank,
an order and a percentile (`MinCohort` and `MinSuggest` are lowered to 2 for
that). In `collector` one person is found by both sources, with and without the
e-mail, and another may turn out to have the same one; limit, pages and results
per page are two, so each of the loops can go round, fill up or run dry.

`CHECK_DEADLOCK FALSE` everywhere: once the bounded requests are used up the
system is idle, which it may be.

**Fairness.** Only the runs with a temporal property need it.
`CandidateLifecycle!Fairness`: a request, a horse and a started sweep go on
(weak; the event loop, the OS); an entry of the FIFO queue is taken in the end
(strong, since workers become busy and free again); the scheduled sweep runs
(weak; RQ's scheduler); time passes. A request, a crash or another sweep is
never owed. `EventuallySettled` holds only while the sweep stays scheduled
(`<>[]sched`): without a job that re-arms it, a row lost in a crash stays open.
`JdParse!JdFairSpec`: `create_job` reaches its end, an entry is taken, a parse
ends since LLM calls time out. Nothing owes the end of an outage.
`UploadPage`: handlers run on (weak), and so does each poll (weak, one by one:
they are tasks of one event loop, each woken by its own timer); that the API
answers or a batch finishes is not owed. `Collector`: the one thread goes on
(weak): its requests and downloads return or fail in the end. `RunEnds` counts a kill as an end.

## 4. Proofs

TLAPS checks, for every value of the constants:

| Theorem | Statement | Argument |
|---|---|---|
| `TypeCorrect` | `CandidateLifecycle` is well typed | inductive as it is |
| `VerdictSafety`, `FailureSafety`, `RemovalSafety` | `DoneHasVerdict`, `FailedIsExplained`, `RemovalIsFinal` | one invariant, `ReportInv`: every row is `Reported`, and every candidate a retry still holds is `Explained`. The second part is needed because a retry whose enqueue is refused fails the row without a report. `RemovalIsFinal` is an action property: it follows from the same invariant and from `RowStep`, what a single step may do to a row |
| `RetryBound` | `StaleRetriesBounded` | the counts loaded by any sweep are bounded as well, and one that is to be incremented is below the limit |
| `LifecycleImplementsBoard` | `ImplementsBoard`: the lifecycle refines `CandidateBoard` | only a sheet makes rows and only a removal takes them away (`StepKinds`, `RowsAreListed`), every other step keeps the set of rows (`KeepsRows`), and by `ReportInv` each row shows a value of the board |
| `NobodyIsForgotten` | `NoneForgotten` if `Faults = {}` | `CarryInv`: a pending row is in the queue, in a request past its commit, or in a horse (a request that merely read the row does not count), a processing one has a horse past its first commit; then no row becomes stale and the watchdog finds nothing (`NothingGetsStale`), which closes the induction |
| `LedgerTypeCorrect`, `NoOverdraft` | `LedgerTypeOK`, `NeverOverdrawn` if no negative amount is granted or set | the balance a request loaded covers what it may still spend |
| `KeyShownLastWorks` | `KeysInStep` | as long as `inStep`, at most one key or answer is in flight, an answer carries the stored key, and without one the browser holds it |
| `LedgerBalance` | `BooksBalance` | as long as `clean`, at most one request is in flight (`OneInFlight`) and its loaded balance is the current one, less its own charge |
| `JdTypeCorrect`, `CandidatesAfterParse`, `JobDeletionIsFinal` | `JdTypeOK`, `NoneBeforeParse`, `DeletionIsFinal` | each new job's one parse is being queued, queued or in a parser's hands (`AtMostOneParse`); a sheet past the check holds a job that was parsed, and that never becomes pending again |
| `CacheTypeCorrect` | `VerdictCache` is well typed | a horse has a text from the lookup on, a parse from the judge on; `AlwaysResolved`: what it extracts is a text |
| `SettingsAreKeyed`, `OverridesStayLocal` | `CacheFollowsSettings`, `OverrideStaysLocal` | only `CacheVerdict` adds to the cache (`CacheGrows`), and what it adds is keyed by what the horse loaded |
| `CacheIsSound` | `CacheFollowsResume` | until an upload is saved, text, parse, file and horses of a candidate know one resume, that of the link |
| `NewestResumeStays` | `TextIsLatest` | `Fresh`, of each candidate of whom no upload met a horse still resolving the text: such a horse has no upload of the candidate (`Flight`) beside it and goes by the url the row still has (`Alone`); the file, once the url or an upload past its save vouches for it, is the newest resume, and before that the text is the newest resume's or missing (`Current`) |
| `ThrottleTypeCorrect` | `LlmThrottle` is well typed | a retry is only taken while an attempt is left |
| `JobStaysWithinLimit` | `JobWithinLimit`, for any limit, window and number of attempts | `Room`: a sleep ends when one call of a full window has ceased to count, and before a check time has passed since the last call, so even the calls exactly one window old fit the limit; `Remembered`: the window holds every call of the job that counts |
| `ViewTypeCorrect` | `ResultsView` is well typed | inductive as it is, given that a filter of rows is rows (`Subsequences`) |
| `OffsetFollowsRows`, `CandidatesAreShownOnce` | `OffsetIsLoaded`, `ShownOnce` | one invariant, `Sound`: types; `Linked`, a loaded page has a selected job and `offset` counts its rows; `SoundRows`, the rows are distinct and there are at least as many of them as candidates up to the last of them in the listing (`Counted`), so that the next page, which starts behind as many, brings none again, also after a deletion; `SoundPages`, the same of the page a poll has fetched and not yet written |
| `OnlyClientsInvert` | `InvertedOnlyAsMade`, whatever cutoffs a client of the API gave its job | `OrderInv`: the draft, and the job's cutoffs it is loaded from, are in order or those of a client's job; each slider puts a pair in order in one step |
| `MeritIsRewarded` | of two resumes judged for one job, the one that lacks nothing the other has gets no lower score and verdict (the pairwise part of `MeritDecides`) | each step is monotone, one lemma each: filters, overlap (an image of a larger set), clamp, weighted sum, rounding, cutoffs |
| `ReadingSurvives` | `CriteriaSurvive` | `Settings` (types) and `Sources`: as long as the reading is unedited, the criteria are those made of it and the facts its facts; a job made of it carries it. From reading to criteria to the three lists nothing is lost although rows are merged case-insensitively, split by level and deduplicated |
| `MeritIsNeverOutranked` | `MeritDecides` | `Evaluated`: every report is what `Judge` says for the weights the job still has and cutoffs it may have had; two of them compare by `MeritIsRewarded`; the ranks and percentiles follow, as the scores above the higher are among those above the lower |
| `StatisticsAddUp` | `StatisticsAgree` | from `Evaluated`: the positions of the scores are split into ten buckets and three verdicts (`CountDisjoint`); the n-th smallest exists and grows with n (`NthExists`, `CountsOrdered`); interpolation between neighbours, rounded, is monotone in the place (`InterpolationMonotone`) |
| `UploadTypeCorrect` | `UploadPage` is well typed | with `RoundsLeft`: a poll that still asks has a round left |
| `SheetIsChargedOnce` | `ChargedOnce` | `SentInv`: unless an answer was lost, a pending sheet was not queued, however often it was refused or only saved |
| `SheetsNeverMix` | the sheet ingested is the one whose columns were shown (first part of `IngestedAsShown`) | `QueueInv`: behind a sheet still to be handled nobody can have confirmed; `SheetInv`: when columns and pending sheet differ, no confirmation waits |
| `ProposalsAreInjective` | `ProposalIsInjective` | `PageInv`; and in `Detect_column_mapping` the hints take only columns no exact name took, one each |
| `IngestionIsFaithful` | `IngestedAsShown`, all of it | `PageInv`: `UploadTypeCorrect`'s and `SheetsNeverMix`'s invariants, `MapInv` (the mapping, and every choice still queued, names columns of the sheet shown) and `IngestInv` (the rows ingested are what `Rekey` and the parser make of that sheet) |
| `MappedCellArrives` | the mapped cell reaches its field (last part of `IngestedAsShown`), for any headers | `Rekey` sends exactly one column to the field |
| `CollectorTypeCorrect` | `Collector` is well typed | no source has given more than the limit, each loop's position is within its list, and nothing is left to fetch outside the two sources |
| `SheetFollowsFound` | `SheetIsFound` | `SheetInv`: this run's rows are the end of the CSV, and between runs there are none |
| `ExportIsTheSheet` | `ExportMatchesSheet` | `SheetInv`, and `Dedup` keeps the first row of each key (`Firsts`): one key, one row, and none of the sheet's keys is missed |
| `UsableResumesAreAccepted` | `UsableIsAccepted` | `ReportInv`, and a fetch never leaves the sign-in page (`FilesAreContent`) |

They assume only what the modules' `ASSUME`s say, which TLC evaluates in the runs:
bounds are naturals; the repeater is a sweeper; `None` is no value of anything; sliders are
within 0 and 100; a field's own name is in `_COL_MAP` (`HeaderAssumption`) and the
headers of a sheet differ (`SheetAssumption`; of a repeated one the rows keep the last
column only, which is not modelled);
a listing has each candidate once (`ListingAssumption`: a candidate has one
`job_id`); at least one score is needed for a suggestion (`CohortAssumption`), and
`n * 0.70` only misses for multiples of ten (`ShortAssumption`); the texts of a
description are not blank and known in lower case (`TextAssumption`,
`InputAssumption`: the LLM is not expected to list blank skills, which the wizard
would drop), and the weights of a job made through the API have a sum that is not
negative (`InputAssumption`). To this, some statements add hypotheses of their own:

* `NoOverdraft`: no negative amount is granted or set, which the API does not check.
* `MeritIsRewarded`: the weights are not negative; `MeritDecides` says so itself.
* `UsableResumesAreAccepted`: a file is at least 100 characters long as plain text
  when 1000 can be extracted from it (`RawIsLongEnough`), because the worker may
  take it for plain text.
* `ExportIsTheSheet`: no link has the form of an e-mail (`LinksAreNotEmails`), because
  the key of `dedup` is the e-mail or else the link.
* `NobodyIsForgotten`: nothing crashes and no enqueue is refused.

Some properties speak of fewer states than a reader might hope for, and say so:
`TextIsLatest` leaves out candidates of whom an upload met a horse that was still
downloading or extracting, `ChargedOnce` sheets whose answer was lost,
`InvertedOnlyAsMade` a Fit below zero, `CacheFollowsResume` everything after a
resume was replaced, `BooksBalance` and `KeysInStep` overlapping requests. Section 5
shows what happens in most of these; a lost answer (the sheet is sent again) and a
Fit below zero (the drag of one slider is clamped against a number out of its range)
are only left out.

The lists of the program are filtered, deduplicated and sorted. The prover knows
nothing of `SelectSeq`, and cannot do induction over a fold, so the modules say
what such a list is by its positions: `Subsequences` describes a filter by the
set of positions kept (`Kept`), a deduplication by those that are the first of
their value (`Firsts`), and `SubsequencesProofs` proves of them what the other
proofs use (`KeptInOrder`: what is kept is of the list, in its order, each position
once). Sorting appears through `IsNth`: the n-th smallest has fewer than n smaller
scores and at least n that are not larger.

Every safety invariant and action property of a passing run is thereby a theorem.
Checked by TLC only are the liveness properties `EventuallySettled`,
`QueuedParseSucceeds`, `PollsEnd` and `RunEnds`: they rest on fairness, hence on
`ENABLED`, which this prover does not handle.

## 5. Where the code disagrees with what it says

One run shows it, quoted in `PROJECT.json`: `lifecycle_sweep_race`. A sweep
queues a candidate before it commits the row it loaded, so a horse can finish in
between and have its verdict put back to pending, although the sweep is called
safe to run concurrently.

More properties are stated in the modules, each of what a comment, a docstring
or a reader would expect. `tlc -config <name>.cfg MC<module>.tla`
(`LlmThrottle.tla` for `throttle_fork`) finds a behaviour that violates it; where
a configuration has two properties, `-continue` finds both:

| Configuration | Property | What happens |
|---|---|---|
| `cache_replaced` | `UploadIsEvaluated` | a replaced resume is judged by the stored parse of the old one (the upload clears `resume_text`, not `parsed`), and the verdict is cached under the new text |
| `cache_upload_race` | `NewestTextWins` | a horse overwrites the text of a newer resume, which stays overwritten once everything has settled |
| `jd_retry` | `PendingIsParsed` | the exception handler of the background parse hides the failure from the queue's retry its docstring relies on |
| `jd_resave` | `ResaveRetries` | saving a pending job again queues nothing |
| `view_link` | `LinkShowsItsJob` | a link to another job keeps the loaded rows of the first |
| `upload_claims` | `MappedValueWins` | a column that bears a field's name, mapped to nothing, overwrites the column the user mapped to that field |
| `upload_claims` | `SavedOnce` | with Redis down the API saves every row and answers 503; the page keeps the sheet, and confirming it again saves every row again |
| `upload_progress` | `ProgressIsCleared` | a poll of the batch before writes its counts over the new upload |
| `screening_share` | `ScoreIsShare` | weights 35, 5 and 0 are normalised to 88, 13 and -1: a score may exceed 1 |
| `screening_suggested` | `SuggestionReached` | rounding the suggested Fit cutoff up leaves less than the top 30% above it |
| `screening_sliders` | `VerdictsFollowCutoffs` | a recalibration changes no verdict already made |
| `screening_sliders` | `SlidersNeverInvert` | a client's job with Maybe above Fit is loaded as it is, and the sliders show it |
| `ledger_keys` | `LastKeyWorks` | of two rotations, or a rotation and a reset, whose answers cross, the browser keeps the dead key |
| `ledger` with the invariant `Balanced` | `Balanced` | overlapping requests lose an update |
| `ledger_grant_all` | `GrantResolvesOne` | one grant resolves all open requests |
| `ledger_removal` | `RemovalSucceeds` | a user who ever requested credits cannot be deleted |
| `lifecycle_cancelled_runs` | `CancelledStaysCancelled` | a cancelled candidate's queue entry remains and is processed |
| `lifecycle_cancel_race` | `CancelFailsOnlyPending` | cancel fails rows that left pending after it read them |
| `lifecycle_backlog` | `WatchdogSparesQueued` | the watchdog gives up on a row still waiting in a slow queue |
| `lifecycle_healthy` with `Faults <- RedisFaults` | `NoneForgotten` | a refused enqueue of an uploaded resume leaves the row pending with nobody to work on it |
| `throttle_fork` | `WorkerWithinLimit` | forks do not share the window of calls |

Read, not run: the watchdog's docstring names `scripts/sweep_stale_candidates.py`,
which does not exist (`app/workers/tasks.py:344-345`); `load_more` starts no poll,
so rows it brings are not refreshed; the poll's window is refused by the API once
more than 200 rows are loaded; `recalibrate_thresholds` says it reloads the
results and reloads only the statistics, and its request replaces cutoffs that
only the API can set (`location_strict`, `min_yoe`); weights normalised several
times, with sliders moved between, may end up like 5.00 and -4.00, and a score of
-0.1 or less makes `_build_histogram` raise a `KeyError` (`app/api/results.py:217`),
so the statistics of such a job cannot be loaded. `StatisticsAgree` therefore
counts buckets only where all scores are above -0.1.

## 6. Not modelled, and the plan

Within the modelled parts: the signup limiter, an account made again after its
removal, and the session's own copies of credits and jobs; resume files under
several extensions and their removal before the row's commit; the caching of a
verdict made while the judge was down; the order of reports written within one
second; the page's verdict filter, which no page sets; the wording of the
reasoning card and the CSV's other columns.

What would come next, in order:

1. `ResumeStore`: files by extension, deletion before the commit, and the judge's
   fallback in the cache; both extend `VerdictCache`.
2. The signup limiter (a window per address) and the health probe's cache.
3. A stricter `CandidateBoard`, in which a verdict can only come from progress,
   with the conditions under which the rows implement it.
4. Theorems: what the violated properties of section 5 become under the conditions
   that exclude their counterexamples, each with its weakest such condition.

Left out for good: request and response formatting, LLM prompts and schema
repair, what an extractor or a scraper finds in a page, canonicalisation of
skills, embeddings, logging, configuration, presentation, migrations and
deployment: they keep no state that other parts race for, and where their
outcome matters it is an input chosen freely.
