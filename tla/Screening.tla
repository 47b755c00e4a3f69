----------------------------- MODULE Screening -----------------------------
(***************************************************************************)
(* What a recruiter decides on and what comes of it: the wizard that makes *)
(* a job (states/create_job_state.py), the calibration sliders of the      *)
(* results page (states/results_state.py), the evaluations workers write   *)
(* with the job's settings (Scoring), and what the results page, the CSV   *)
(* and the statistics show of them (app/api/results.py).  One session; a   *)
(* handler runs to its end before the next one.                            *)
(***************************************************************************)
EXTENDS Scoring

CONSTANTS
  Resume,    \* parsed resumes: [yoe, location, skills, cosine, judge]
  Reading,   \* what the LLM may make of the text: [required_skills, ...]
  ApiJob,    \* jobs made without the wizard
  Edited,    \* texts a criterion may be changed to
  Place,     \* locations a job may be given
  Slider,    \* positions of the weight sliders
  Cutoff,    \* positions of the cutoff sliders
  MaxEdits,  \* bound: edits, slides and further jobs in a behaviour
  MaxEvals   \* bound: evaluations of a job

Text  == DOMAIN Lower
Empty == ""

(* What the texts of a description are: not blank, and known in lower case *)
Describes(jd) ==
  /\ jd.required_skills \in Seq(Text) /\ jd.preferred_skills \in Seq(Text)
  /\ jd.must_haves \in Seq(Text) /\ jd.min_yoe \in Int

IsWeights(w) == w \in [skill_overlap : Int, cosine : Int, judge : Int]
IsCutoffs(t) == t \in [fit : Int, maybe : Int, min_yoe : Int \cup {None}, location_strict : BOOLEAN]

(* A job's weights may be anything whose sum is not negative.              *)
IsJob(j) ==
  /\ j = [jd |-> j.jd, weights |-> j.weights, t |-> j.t]
  /\ Describes(j.jd) /\ IsCutoffs(j.t)
  /\ IsWeights(j.weights) /\ Total(j.weights) >= 0

ASSUME SliderAssumption == Slider \cup Cutoff \subseteq 0 .. 100
ASSUME TextAssumption == Empty \notin Text /\ Edited \subseteq Text \cup {Empty}
ASSUME InputAssumption ==
  /\ \A r \in Resume : r.yoe \in Int /\ r.cosine \in Int /\ r.judge \in Int
  /\ \A r \in Reading : Describes(r)
  /\ \A j \in ApiJob : IsJob(j)

VARIABLES
  step,      \* step; 3 is the panel of the job just made
  criteria,  \* criteria
  facts,     \* min_yoe and location
  weights,   \* skill_weight, cosine_weight, judge_weight
  cut,       \* fit_threshold, maybe_threshold
  draft,     \* draft_fit_threshold, draft_maybe_threshold
  job,       \* the job last made
  evals,     \* its Evaluations, oldest first
  read,      \* the reading the criteria still are (not in the code)
  source,    \* the reading the job was made of unchanged (not in the code)
  edits      \* edits so far

wizard == <<step, criteria, facts, weights, cut>>
ghost  == <<read, source>>
vars   == <<wizard, draft, job, evals, ghost, edits>>

Level     == {"nice", "important", "required"}
Criterion == [text : {Empty} \cup Text, level : Level]
Blank     == [text |-> Empty, level |-> "important"]
NoFacts   == [min_yoe |-> 0, location |-> None]

Init ==
  /\ step = 1 /\ criteria = <<>> /\ facts = NoFacts
  /\ weights = DefaultWeights /\ cut = DefaultThresholds /\ draft = DefaultThresholds
  /\ job = None /\ evals = <<>> /\ read = None /\ source = None /\ edits = 0
-----------------------------------------------------------------------------
(* Step 1 *)

Lowered(texts) == {Lower[t] : t \in ToSet(texts)}
Rows(texts, level) == [i \in DOMAIN texts |-> [text |-> texts[i], level |-> level]]
Unseen(texts, seen) == Kept(texts, {i \in DOMAIN texts : Lower[texts[i]] \notin seen})

(* Wrong variant: only required skills become criteria.                    *)
CriteriaWithoutMusts(r) ==
  [i \in DOMAIN r.required_skills |->
     [text |-> r.required_skills[i],
      level |-> IF Lower[r.required_skills[i]] \in Lowered(r.must_haves)
                THEN "required" ELSE "important"]]
  \o Rows(Unseen(r.preferred_skills, Lowered(r.required_skills)), "nice")

(* A must-have the LLM did not also list as required is a criterion too.   *)
Criteria_from_parse(r) ==
  LET must == Lowered(r.must_haves)
      seen == Lowered(r.required_skills)
  IN [i \in DOMAIN r.required_skills |->
        [text  |-> r.required_skills[i],
         level |-> IF Lower[r.required_skills[i]] \in must THEN "required" ELSE "important"]]
     \o Rows(Unseen(r.must_haves, seen), "required")
     \o Rows(Unseen(r.preferred_skills, seen \cup must), "nice")

(* A reading without criteria, and an LLM that is down, leave step 1.      *)
ParseCriteria(r) ==
  /\ step = 1
  /\ IF r.required_skills \o r.preferred_skills \o r.must_haves = <<>>
     THEN UNCHANGED <<wizard, read>>
     ELSE /\ step' = 2 /\ read' = r
          /\ criteria' = Criteria_from_parse(r)
          /\ facts' = [min_yoe |-> r.min_yoe, location |-> r.location]
          /\ UNCHANGED <<weights, cut>>
  /\ UNCHANGED <<draft, job, evals, source, edits>>

StartManual ==
  /\ step = 1
  /\ step' = 2 /\ criteria' = <<Blank>> /\ facts' = NoFacts /\ read' = None
  /\ UNCHANGED <<weights, cut, draft, job, evals, source, edits>>
-----------------------------------------------------------------------------
(* Step 2 *)

Edits == step = 2 /\ edits < MaxEdits /\ edits' = edits + 1

EditCriteria(c) ==
  /\ Edits
  /\ criteria' = c /\ read' = None
  /\ UNCHANGED <<step, facts, weights, cut, draft, job, evals, source>>

SetCriterionText(i, t)  == EditCriteria([criteria EXCEPT ![i].text = t])
SetCriterionLevel(i, l) == EditCriteria([criteria EXCEPT ![i].level = l])
RemoveCriterion(i)      == EditCriteria(RemoveAt(criteria, i))
AddCriterion            == EditCriteria(Append(criteria, Blank))

SetFacts(f) ==
  /\ Edits
  /\ facts' = f /\ read' = None
  /\ UNCHANGED <<step, criteria, weights, cut, draft, job, evals, source>>

EditWeights(w) ==
  /\ Edits
  /\ weights' = w
  /\ UNCHANGED <<step, criteria, facts, cut, draft, job, evals, ghost>>

SetWeight(k, v) == EditWeights([weights EXCEPT ![k] = v])

(* round(a / b, 2) of binary fractions: a tie may fall on either side.     *)
Nearest(a, b) ==
  LET q == (100 * a) \div b IN {r \in q .. q + 1 : Distance(100 * a, r * b) * 2 <= b}

(* Shown while the weights are refused.  The last weight takes the rest.   *)
NormalizeWeights ==
  /\ Total(weights) # 100
  /\ IF Total(weights) <= 0 THEN EditWeights(DefaultWeights)
     ELSE \E s \in Nearest(weights.skill_overlap, Total(weights)),
             c \in Nearest(weights.cosine, Total(weights)) :
            EditWeights([skill_overlap |-> s, cosine |-> c, judge |-> 100 - s - c])

SetThreshold(k, v) ==
  /\ Edits
  /\ cut' = [cut EXCEPT ![k] = v]
  /\ UNCHANGED <<step, criteria, facts, weights, draft, job, evals, ghost>>

BackToStep1 ==
  /\ step = 2 /\ step' = 1
  /\ UNCHANGED <<criteria, facts, weights, cut, draft, job, evals, ghost, edits>>

Unique(texts) == Kept(texts, Firsts(texts))

(* _split_criteria: blank rows do not count, a required criterion is also  *)
(* an important one.                                                       *)
Texts(levels) ==
  LET rows == Kept(criteria, {i \in DOMAIN criteria : criteria[i].text # Empty
                                                       /\ criteria[i].level \in levels})
  IN Unique([i \in DOMAIN rows |-> rows[i].text])

Description ==
  [required_skills  |-> Texts({"important", "required"}),
   preferred_skills |-> Texts({"nice"}), must_haves |-> Texts({"required"}),
   min_yoe |-> facts.min_yoe, location |-> facts.location]

(* All the pages ever send as a job's cutoffs.                             *)
Sent(t) == [fit |-> t.fit, maybe |-> t.maybe, min_yoe |-> None, location_strict |-> FALSE]

HasCriteria == \E c \in ToSet(criteria) : c.text # Empty

(* submit and create_job: cutoffs in the wrong order or weights that miss  *)
(* 100 (by 1 too: binary fractions) are refused, and so may the API be.    *)
(* Facts, weights and cutoffs stay for the next job.                       *)
Submit ==
  /\ step = 2 /\ HasCriteria
  /\ cut.maybe < cut.fit /\ Total(weights) = 100
  /\ job' = [jd |-> Description, weights |-> weights, t |-> Sent(cut)]
  /\ evals' = <<>> /\ source' = read /\ read' = None
  /\ step' = 3 /\ criteria' = <<>>
  /\ UNCHANGED <<facts, weights, cut, draft, edits>>

CreateAnother ==
  /\ step = 3 /\ edits < MaxEdits /\ edits' = edits + 1
  /\ step' = 1 /\ criteria' = <<>>
  /\ UNCHANGED <<facts, weights, cut, draft, job, evals, ghost>>

(* A client of the API makes a job of its own, with any cutoffs.           *)
CreateJob(j) ==
  /\ job = None
  /\ job' = j /\ evals' = <<>> /\ source' = None
  /\ UNCHANGED <<wizard, draft, read, edits>>
-----------------------------------------------------------------------------
(* A worker evaluates a candidate of the job with the settings it loads.   *)
Records(e) ==
  /\ job # None /\ Len(evals) < MaxEvals
  /\ evals' = Append(evals, e)
  /\ UNCHANGED <<wizard, draft, job, ghost, edits>>

(* Weights without a sum cannot be divided by: that evaluation fails.      *)
Evaluate(r, judgeUp) ==
  /\ job # None /\ Total(job.weights) # 0
  /\ LET j == Judge(r, job.jd, job.weights, job.t, judgeUp) IN
     Records([resume |-> r, t |-> job.t, judgeUp |-> judgeUp,
              filtered |-> j.filtered, score |-> j.score, verdict |-> j.verdict])

(* It failed: an Evaluation without a verdict or a score.                  *)
EvaluateFails(r) == Records([resume |-> r, verdict |-> None])
-----------------------------------------------------------------------------
(* The results page *)

Gap == 5

LoadStats ==
  /\ job # None
  /\ draft' = [fit |-> job.t.fit, maybe |-> job.t.maybe]
  /\ UNCHANGED <<wizard, job, evals, ghost, edits>>

Slides(d) ==
  /\ job # None /\ edits < MaxEdits /\ edits' = edits + 1
  /\ draft' = d
  /\ UNCHANGED <<wizard, job, evals, ghost>>

(* Wrong variant: Fit leaves Maybe where it is.                            *)
SetDraftFitAlone(v) == Slides([draft EXCEPT !.fit = v])

(* Fit pushes Maybe down ahead of it; Maybe stops below Fit.               *)
SetDraftFit(v) ==
  Slides([fit |-> v, maybe |-> IF draft.maybe > v - Gap THEN Greater(0, v - Gap)
                                                        ELSE draft.maybe])
SetDraftMaybe(v) ==
  Slides([draft EXCEPT !.maybe = Greater(0, Lesser(v, draft.fit - Gap))])

(* update_job replaces all of the job's cutoffs; no verdict is made anew.  *)
RecalibrateThresholds ==
  /\ job # None /\ draft.maybe < draft.fit
  /\ job' = [job EXCEPT !.t = Sent(draft)]
  /\ UNCHANGED <<wizard, draft, evals, ghost, edits>>
-----------------------------------------------------------------------------
Scored == Kept(evals, {i \in DOMAIN evals : evals[i].verdict # None})
Scores == LET s == Scored IN [i \in DOMAIN s |-> s[i].score]

(* The newest Evaluation of a resume, as the queue and the CSV show it.    *)
Latest(r) ==
  LET mine == SelectSeq(evals, LAMBDA e : e.resume = r)
  IN IF mine = <<>> THEN None ELSE Last(mine)

Row(r) ==
  LET e == Latest(r) IN
  IF e = None THEN "pending" ELSE IF e.verdict = None THEN "Unprocessed" ELSE e.verdict

CsvCell(r) ==
  LET e == Latest(r) IN
  IF e = None THEN "Not evaluated" ELSE IF e.verdict = None THEN "Unprocessed" ELSE e.verdict

Verdict_counts == [v \in Verdict |-> Cardinality({i \in DOMAIN evals : evals[i].verdict = v})]
-----------------------------------------------------------------------------
Wizard ==
  \/ \E r \in Reading : ParseCriteria(r)
  \/ StartManual \/ BackToStep1 \/ Submit \/ CreateAnother
  \/ \E i \in DOMAIN criteria :
       \/ \E t \in Edited : SetCriterionText(i, t)
       \/ \E l \in Level : SetCriterionLevel(i, l)
       \/ RemoveCriterion(i)
  \/ AddCriterion \/ NormalizeWeights
  \/ \E y \in 0 .. 1 : SetFacts([facts EXCEPT !.min_yoe = y])
  \/ \E l \in Place : SetFacts([facts EXCEPT !.location = l])
  \/ \E k \in Signal, v \in Slider : SetWeight(k, v)
  \/ \E k \in {"fit", "maybe"}, v \in Cutoff : SetThreshold(k, v)

Next ==
  \/ Wizard
  \/ \E j \in ApiJob : CreateJob(j)
  \/ \E r \in Resume : EvaluateFails(r) \/ \E up \in BOOLEAN : Evaluate(r, up)
  \/ LoadStats \/ RecalibrateThresholds
  \/ \E v \in Cutoff : SetDraftFit(v) \/ SetDraftMaybe(v)

Spec == Init /\ [][Next]_vars
-----------------------------------------------------------------------------
(* A job made from what the LLM read, unchanged, eliminates exactly the    *)
(* resumes the reading itself would, and scores every criterion it lists:  *)
(* the way through the editor's three levels loses nothing.                *)
CriteriaSurvive ==
  source # None =>
    /\ \A r \in Resume, strict \in BOOLEAN :
         LET t == [Sent(DefaultThresholds) EXCEPT !.location_strict = strict] IN
         Apply_filters(r, job.jd, t) <=> Apply_filters(r, source, t)
    /\ Lowered(job.jd.required_skills \o job.jd.preferred_skills) =
         Lowered(source.required_skills \o source.preferred_skills \o source.must_haves)

AtLeast(a, b) ==
  /\ b.skills \subseteq a.skills /\ a.location = b.location
  /\ a.yoe >= b.yoe /\ a.cosine >= b.cosine /\ a.judge >= b.judge

Better == [Reject |-> 0, Maybe |-> 1, Fit |-> 2]

(* Of two candidates evaluated under the same settings, one that lacks     *)
(* nothing the other has is never judged, ranked or placed below it,       *)
(* through filters, overlap, weights and cutoffs, the LLM up or down.      *)
(* (Normalizing may leave the judge a negative weight: ScoreIsShare.)      *)
MeritDecides ==
  LET scores == Scores IN
  \A a, b \in ToSet(Scored) :
    /\ AtLeast(a.resume, b.resume) /\ a.t = b.t /\ a.judgeUp = b.judgeUp
    /\ \A k \in Signal : job.weights[k] >= 0
    => /\ a.score >= b.score /\ Better[a.verdict] >= Better[b.verdict]
       /\ Rank(a.score, scores) <= Rank(b.score, scores)
       /\ Percentile_of(b.score, scores) # None =>
            Percentile_of(a.score, scores) >= Percentile_of(b.score, scores)

(* The statistics account for every score once, in order and in range      *)
(* (unless negative weights make one too low for any bucket); the cutoffs  *)
(* they suggest are in order; and the page and the CSV say the same of     *)
(* everybody who was evaluated.                                            *)
StatisticsAgree ==
  LET scores == Scores
      h      == Build_histogram(scores)
      counts == Verdict_counts
      p(n)   == Percentile(scores, n)
      c      == Suggest_thresholds(scores)
  IN
  /\ (\A s \in ToSet(scores) : s > -1000) =>
       Len(scores) = h[0] + h[1] + h[2] + h[3] + h[4] + h[5] + h[6] + h[7] + h[8] + h[9]
  /\ Len(scores) = counts["Fit"] + counts["Maybe"] + counts["Reject"]
  /\ scores # <<>> =>
       /\ p(0) <= p(25) /\ p(25) <= p(50) /\ p(50) <= p(75)
       /\ p(75) <= p(90) /\ p(90) <= p(100)
       /\ \E s \in ToSet(scores) : Rank(s, scores) = 1 /\ s = p(100)
  /\ c.maybe <= c.fit
  /\ \A r \in Resume : Latest(r) # None => Row(r) = CsvCell(r)

(* A client of the API made a job with these cutoffs.                      *)
AsMade(c) == \E j \in ApiJob : c.fit = j.t.fit /\ c.maybe = j.t.maybe

(* The sliders show Maybe above Fit only as a client of the API made the   *)
(* job: one drag of either puts them in order, whatever was loaded, and no *)
(* sequence of wizard, drags, saves and loads puts others out of order     *)
(* (unless the client made a Fit below zero, which Maybe cannot follow).   *)
InvertedOnlyAsMade == draft.fit >= 0 /\ draft.maybe > draft.fit => AsMade(draft)

(* "A Maybe above Fit makes the verdict bands incoherent, so the UI should *)
(* never let the sliders show that state at all" (results_state.py:357),   *)
(* also when the job's cutoffs are loaded.                                 *)
SlidersNeverInvert == draft.maybe <= draft.fit

(* "Combine judge score with retrieval signals into a final 0-1 score"     *)
(* (score.py:22), also with the weights normalize_weights makes.           *)
ScoreIsShare == \A s \in ToSet(Scores) : s \in 0 .. Scale

(* "Applies the draft Fit/Maybe sliders ..., then reloads ... results so   *)
(* verdicts reflect the new cutoffs immediately" (results_state.py:413).   *)
VerdictsFollowCutoffs ==
  \A e \in ToSet(Scored) : ~e.filtered => e.verdict = Apply_thresholds(e.score, job.t)

(* "Derive fit/maybe thresholds from distribution (top-30% fit, ...)"      *)
(* (results.py:231): three in ten scores reach the suggested Fit cutoff.   *)
SuggestionReached ==
  Len(Scores) >= MinSuggest =>
    10 * Len(SelectSeq(Scores, LAMBDA s : s >= 100 * Suggest_thresholds(Scores).fit))
      >= 3 * Len(Scores)
=============================================================================
