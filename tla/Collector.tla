------------------------------ MODULE Collector ------------------------------
(***************************************************************************)
(* The candidate collector (scripts/collect_candidates.py).  A run asks    *)
(* GitHub and a search API page by page, writes each complete candidate to *)
(* a live sheet (a CSV that later runs append to), fetches the e-mails     *)
(* that are missing, exports an Excel file without duplicates, and may     *)
(* download every resume with the worker's own helpers to say which are    *)
(* usable.  Any request may fail, and a run may be killed at any moment.   *)
(***************************************************************************)
EXTENDS Integers, FiniteSets, SequencesExt, Subsequences

CONSTANTS
  Name, Email, Url,     \* what a source may say of a candidate
  None,                 \* not there
  Content,              \* what a link may serve, see ContentAssumption
  Findable,             \* the candidates a source may show
  Option,               \* command lines and installations, see OptionAssumption
  Limit,                \* --limit: candidates per source
  GithubPages,          \* pages of a GitHub search (10 in the code)
  Queries, SerperPages, \* search queries, and pages of each (10 and 5)
  PerPage,              \* results on a page (30 and 10)
  MaxRuns               \* bound: runs of the collector

(* A content is what the text extractors make of it: the number of         *)
(* characters each finds (0: none, or an exception), and its size as text. *)
ContentAssumption ==
  Content \subseteq [html : BOOLEAN, signin : BOOLEAN, raw : Nat,
                     pymupdf : Nat, pdfplumber : Nat, ocr : Nat]
OptionAssumption == Option \subseteq [github : BOOLEAN, google : BOOLEAN,
                                      enrich : BOOLEAN, verify : BOOLEAN,
                                      openpyxl : BOOLEAN]
Candidate == [name : Name, email : Email \cup {None}, url : Url,
              source : {"github", "serper"}]
FindableAssumption == Findable \subseteq Candidate
ASSUME SourceAssumption ==
  ContentAssumption /\ OptionAssumption /\ FindableAssumption /\ None \notin Email
ASSUME BoundAssumption ==
  /\ Limit \in Nat /\ GithubPages \in Nat /\ Queries \in Nat
  /\ SerperPages \in Nat /\ PerPage \in Nat /\ MaxRuns \in Nat

VARIABLES
  phase,   \* where the run is; "killed" or "done" between runs
  option,  \* its command line, and whether openpyxl is installed
  page,    \* pages requested of the source, or of the query
  query,   \* search queries done
  left,    \* results left on the page
  new,     \* a result of the page was new
  found,   \* collected
  todo,    \* the next candidate to enrich or to verify
  csv,     \* output/candidates.csv
  fresh,   \* length of csv when the run began (not in the code)
  xlsx,    \* output/candidates.xlsx
  checked, \* the candidates to verify
  report,  \* output/resume_downloads.csv: the row written last
  nruns    \* runs so far

search  == <<page, query, left, new>>
outputs == <<csv, fresh, xlsx>>
verdict == <<checked, report>>
vars == <<phase, option, search, found, todo, outputs, verdict, nruns>>

TypeOK ==
  /\ phase  \in {"killed", "github", "serper", "enrich", "verify", "done"}
  /\ option \in Option
  /\ page   \in 0 .. GithubPages + SerperPages
  /\ query  \in 0 .. Queries
  /\ left   \in 0 .. PerPage
  /\ new    \in BOOLEAN
  /\ found  \in Seq(Candidate) /\ Len(found) <= 2 * Limit
  /\ todo   \in 1 .. Len(IF phase = "verify" THEN checked ELSE found) + 1
  /\ csv    \in Seq(Candidate)
  /\ fresh  \in 0 .. Len(csv)
  /\ xlsx   \in Seq(Candidate) /\ checked \in Seq(Candidate)
  /\ report \in [status : {"failed", "not_a_resume", "insufficient_text", "usable"},
                 got : Content \cup {None}] \cup {None}
  /\ nruns  \in 0 .. MaxRuns

Init ==
  /\ phase = "done" /\ option \in Option
  /\ page = 0 /\ query = 0 /\ left = 0 /\ new = FALSE
  /\ found = <<>> /\ todo = 1
  /\ csv = <<>> /\ fresh = 0 /\ xlsx = <<>>
  /\ checked = <<>> /\ report = None
  /\ nruns = 0

Full(source) == Cardinality({i \in DOMAIN found : found[i].source = source}) >= Limit

(* append_complete and append: only a candidate with an e-mail is written, *)
(* and every candidate has a name and a link.                              *)
Append_complete(c) == csv' = IF c.email = None THEN csv ELSE Append(csv, c)
-----------------------------------------------------------------------------
(* A run *)

(* The CSV of earlier runs is loaded and appended to.                      *)
Start(o) ==
  /\ phase \in {"killed", "done"} /\ nruns < MaxRuns
  /\ nruns' = nruns + 1
  /\ phase' = "github" /\ option' = o
  /\ UNCHANGED <<search, found, todo, outputs, verdict>>

(* Wrong variant: the page is counted when one of its users was added.     *)
GithubSearchSamePage ==
  /\ phase = "github" /\ left = 0
  /\ option.github /\ ~Full("github") /\ page < GithubPages
  /\ left' \in 1 .. PerPage
  /\ UNCHANGED <<phase, option, page, query, new, found, todo, outputs, verdict, nruns>>

(* A page that fails or is empty ends the search, as the last page does.   *)
GithubSearch ==
  /\ phase = "github" /\ left = 0
  /\ option.github /\ ~Full("github") /\ page < GithubPages
  /\ page' = page + 1
  /\ left' \in 1 .. PerPage
  /\ UNCHANGED <<phase, option, query, new, found, todo, outputs, verdict, nruns>>

(* Wrong variant: the limit is tested once per page.                       *)
GithubProfilePastLimit(c) ==
  /\ phase = "github" /\ left > 0 /\ c.source = "github"
  /\ left' = left - 1
  /\ found' = Append(found, c)
  /\ Append_complete(c)
  /\ UNCHANGED <<phase, option, page, query, new, todo, fresh, xlsx, verdict, nruns>>

GithubProfile(c) ==
  /\ phase = "github" /\ left > 0 /\ ~Full("github") /\ c.source = "github"
  /\ left' = left - 1
  /\ found' = Append(found, c)
  /\ Append_complete(c)
  /\ UNCHANGED <<phase, option, page, query, new, todo, fresh, xlsx, verdict, nruns>>

(* A profile that fails, or the rest of the page once the limit is there.  *)
Skip ==
  /\ left > 0
  /\ left' = IF Full(phase) THEN 0 ELSE left - 1
  /\ UNCHANGED <<phase, option, page, query, new, found, todo, outputs, verdict, nruns>>

GithubEnds ==
  /\ phase = "github" /\ left = 0
  /\ phase' = "serper" /\ page' = 0
  /\ UNCHANGED <<option, query, left, new, found, todo, outputs, verdict, nruns>>

(* A page with nothing new is the last of its query.                       *)
SerperPage ==
  /\ phase = "serper" /\ left = 0
  /\ option.google /\ ~Full("serper") /\ query < Queries
  /\ page < SerperPages /\ (page = 0 \/ new)
  /\ page' = page + 1 /\ new' = FALSE
  /\ left' \in 1 .. PerPage
  /\ UNCHANGED <<phase, option, query, found, todo, outputs, verdict, nruns>>

(* The request fails, the page is empty, or the last page is done.         *)
NextQuery ==
  /\ phase = "serper" /\ left = 0
  /\ option.google /\ ~Full("serper") /\ query < Queries
  /\ query' = query + 1 /\ page' = 0 /\ new' = FALSE
  /\ UNCHANGED <<phase, option, left, found, todo, outputs, verdict, nruns>>

(* A link is taken once, whatever query finds it; junk and titles without  *)
(* a name are skipped.                                                     *)
SerperItem(c) ==
  /\ phase = "serper" /\ left > 0 /\ ~Full("serper") /\ c.source = "serper"
  /\ \A i \in DOMAIN found : found[i].source = "serper" => found[i].url # c.url
  /\ left' = left - 1 /\ new' = TRUE
  /\ found' = Append(found, c)
  /\ Append_complete(c)
  /\ UNCHANGED <<phase, option, page, query, todo, fresh, xlsx, verdict, nruns>>

SerperEnds ==
  /\ phase = "serper" /\ left = 0
  /\ ~option.google \/ Full("serper") \/ query = Queries
  /\ phase' = "enrich" /\ page' = 0 /\ query' = 0 /\ new' = FALSE
  /\ UNCHANGED <<option, left, found, todo, outputs, verdict, nruns>>

(* Wrong variant: candidates that have an e-mail are enriched too.         *)
EnrichAnyway(email) ==
  /\ phase = "enrich" /\ option.enrich /\ todo <= Len(found)
  /\ todo' = todo + 1
  /\ IF email = None THEN UNCHANGED <<found, csv>>
     ELSE /\ found' = [found EXCEPT ![todo].email = email]
          /\ Append_complete(found'[todo])
  /\ UNCHANGED <<phase, option, search, fresh, xlsx, verdict, nruns>>

(* enrich_all: the e-mail, if its page or PDF shows one, completes the     *)
(* candidate, which enters the sheet now.                                  *)
Enrich(email) ==
  /\ phase = "enrich" /\ option.enrich /\ todo <= Len(found)
  /\ todo' = todo + 1
  /\ IF found[todo].email # None \/ email = None THEN UNCHANGED <<found, csv>>
     ELSE /\ found' = [found EXCEPT ![todo].email = email]
          /\ Append_complete(found'[todo])
  /\ UNCHANGED <<phase, option, search, fresh, xlsx, verdict, nruns>>

(* Wrong variant: duplicates are recognised by their link alone.           *)
KeyByLink(c) == c.url

(* The key of dedup: the name, and the e-mail or else the link.            *)
Key(c) == <<c.name, IF c.email # None THEN c.email ELSE c.url>>

Dedup(s) == Kept(s, Firsts([i \in DOMAIN s |-> Key(s[i])]))

VerifyStarts(s) == phase' = "verify" /\ checked' = s /\ report' = None

(* The process is gone, and all it had in memory.                          *)
Exit(p) ==
  /\ phase' = p
  /\ found' = <<>> /\ todo' = 1 /\ fresh' = Len(csv) /\ checked' = <<>>
  /\ page' = 0 /\ query' = 0 /\ left' = 0 /\ new' = FALSE

(* Without openpyxl the export is skipped: the file of an earlier run stays.*)
Export_xlsx(s) == xlsx' = IF option.openpyxl THEN s ELSE xlsx

Finish ==
  /\ phase = "enrich" /\ (~option.enrich \/ todo > Len(found))
  /\ Export_xlsx(Dedup(found))
  /\ IF option.verify
     THEN VerifyStarts(Dedup(found)) /\ todo' = 1 /\ UNCHANGED <<search, found, fresh>>
     ELSE Exit("done") /\ UNCHANGED report
  /\ UNCHANGED <<option, csv, nruns>>
-----------------------------------------------------------------------------
(* Downloading the resumes *)

(* --verify-output: the rows of the CSV instead of a search.               *)
VerifyOutput ==
  /\ phase \in {"killed", "done"} /\ csv # <<>>
  /\ VerifyStarts(csv)
  /\ UNCHANGED <<option, search, found, todo, outputs, nruns>>

(* fetch_drive_file.  A private Drive link is refused before the download; *)
(* gdown may raise, save nothing (None) or save a file.  If it raises or   *)
(* saves the sign-in page, a plain download follows; a sign-in page raises *)
(* in the end.                                                             *)
Outcomes == [raised : BOOLEAN, file : Content \cup {None}]

SignIn(o) == o.file # None /\ o.file.signin

Fetched(drive, private, gdown, http) ==
  LET last == IF drive /\ ~gdown.raised /\ ~SignIn(gdown) THEN gdown ELSE http
  IN [raised |-> (drive /\ private) \/ last.raised \/ SignIn(last), file |-> last.file]

(* What may be on disk when the fetch returns.                             *)
Files == {o.file : o \in {f \in {Fetched(drive, private, gdown, http) :
                                   drive, private \in BOOLEAN, gdown, http \in Outcomes} :
                          ~f.raised}} \ {None}

(* extract_text: the first extractor with more than 100 characters, else   *)
(* whatever OCR reads.  A .txt or .md file is read as it is.               *)
Extracted(c, plain) ==
  IF plain THEN c.raw
  ELSE IF c.pymupdf > 100 THEN c.pymupdf
  ELSE IF c.pdfplumber > 100 THEN c.pdfplumber ELSE c.ocr

MinVerified == 1000  \* MIN_RESUME_TEXT_CHARS
MinResume   == 100   \* _MIN_RESUME_CHARS of the worker

(* What the worker makes of the same content; it names the file after the  *)
(* link, so it may take the content for plain text.                        *)
WorkerAccepts(c, plain) == ~c.signin /\ Extracted(c, plain) >= MinResume

(* Wrong variant: any text will do.                                        *)
StatusOfAnyText(c) ==
  IF c.html THEN "not_a_resume" ELSE IF Extracted(c, FALSE) > 0 THEN "usable" ELSE "insufficient_text"

Status(c) ==
  IF c.html THEN "not_a_resume"
  ELSE IF Extracted(c, FALSE) < MinVerified THEN "insufficient_text" ELSE "usable"

(* One candidate of verify_resume_downloads: the fetch raises or saves     *)
(* nothing (the row says failed), or the content is judged.  The file is   *)
(* named after the position, the name and the link, so none is shared.     *)
Verify(got) ==
  /\ phase = "verify" /\ todo <= Len(checked)
  /\ report' = [status |-> IF got = None THEN "failed" ELSE Status(got), got |-> got]
  /\ todo' = todo + 1
  /\ UNCHANGED <<phase, option, search, found, outputs, checked, nruns>>

VerifyEnds ==
  /\ phase = "verify" /\ todo > Len(checked)
  /\ Exit("done")
  /\ UNCHANGED <<option, csv, xlsx, report, nruns>>

(* The run is killed, or stops at an error nobody handles.  What it wrote  *)
(* stays.                                                                  *)
Killed ==
  /\ phase \notin {"killed", "done"}
  /\ Exit("killed")
  /\ UNCHANGED <<option, csv, xlsx, report, nruns>>
-----------------------------------------------------------------------------
Step ==
  \/ GithubSearch \/ Skip \/ GithubEnds
  \/ SerperPage \/ NextQuery \/ SerperEnds
  \/ \E c \in Findable : GithubProfile(c) \/ SerperItem(c)
  \/ \E email \in Email \cup {None} : Enrich(email)
  \/ Finish
  \/ \E got \in Files \cup {None} : Verify(got)
  \/ VerifyEnds

Next ==
  \/ \E o \in Option : Start(o)
  \/ VerifyOutput
  \/ Step
  \/ Killed

(* The script is one thread that runs on.                                  *)
Spec == Init /\ [][Next]_vars /\ WF_vars(Step)
-----------------------------------------------------------------------------
Occurrences(c, s) == Cardinality({i \in DOMAIN s : s[i] = c})
ThisRun == SubSeq(csv, fresh + 1, Len(csv))

(* What a run adds to the sheet is what it found complete, each candidate  *)
(* as often as it was found: "Only write to sheet when all 3 mandatory     *)
(* fields are present" (collect_candidates.py:170), neither twice nor      *)
(* never, although three places of the run write it.                       *)
SheetIsFound ==
  \A c \in ToSet(found) \cup ToSet(ThisRun) :
    Occurrences(c, ThisRun) = IF c.email = None THEN 0 ELSE Occurrences(c, found)

(* The export, where one is made, has every row this run added to the      *)
(* sheet, by its key, and no two rows with one key, although e-mails       *)
(* arrive after the candidates.                                            *)
ExportMatchesSheet ==
  [][phase = "enrich" /\ phase' \in {"verify", "done"} /\ option.openpyxl =>
       /\ \A i, j \in DOMAIN xlsx' :
            i # j => <<xlsx'[i].name, xlsx'[i].email, xlsx'[i].url>> #
                     <<xlsx'[j].name, xlsx'[j].email, xlsx'[j].url>>
                  /\ (xlsx'[i].email # None =>
                       <<xlsx'[i].name, xlsx'[i].email>> # <<xlsx'[j].name, xlsx'[j].email>>)
       /\ \A c \in ToSet(ThisRun) :
            \E d \in ToSet(xlsx') : d.name = c.name /\ d.email = c.email]_vars

(* "A successful result therefore means the resume is publicly             *)
(* downloadable and has enough text for the screening pipeline"            *)
(* (collect_candidates.py:376): the worker accepts the same content under  *)
(* either name.                                                            *)
UsableIsAccepted ==
  report # None /\ report.status = "usable" =>
    \A plain \in BOOLEAN : WorkerAccepts(report.got, plain)

(* A run ends, whatever the sources answer, also when every result of      *)
(* every page is skipped and the limit is never reached.                   *)
RunEnds == phase = "github" ~> phase \in {"killed", "done"}
=============================================================================
