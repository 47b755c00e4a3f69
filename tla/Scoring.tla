------------------------------ MODULE Scoring ------------------------------
(***************************************************************************)
(* From a parsed resume and a job to a score and a verdict                 *)
(* (app/pipeline/filters.py, match.py, score.py), and from a job's scores  *)
(* to what its page shows (app/api/results.py).  Weights, cutoffs and      *)
(* signals are hundredths, scores ten-thousandths.  A resume has the       *)
(* cosine and the judge's score it will get: both are models' outputs.     *)
(***************************************************************************)
EXTENDS Integers, SequencesExt, Subsequences

CONSTANTS
  None,    \* no value
  Canon,   \* canonicalize_skill(s).lower() of each text
  Lower,   \* s.lower() of each text
  Within   \* the pairs of lower-case texts whose first is in the second

Verdict == {"Fit", "Maybe", "Reject"}
ASSUME NoneAssumption == None \notin Verdict
Signal  == {"skill_overlap", "cosine", "judge"}
Scale   == 10000

DefaultWeights    == [skill_overlap |-> 30, cosine |-> 20, judge |-> 50]
DefaultThresholds == [fit |-> 70, maybe |-> 40]

Lesser(a, b)  == IF a < b THEN a ELSE b
Greater(a, b) == IF a < b THEN b ELSE a
Clamp(x)      == Greater(0, Lesser(100, x))
Rounded(a, b) == (2 * a + b) \div (2 * b)
-----------------------------------------------------------------------------
Overlaps(a, b) == <<a, b>> \in Within \/ <<b, a>> \in Within

(* Wrong variant: each skill of the resume is looked up among the musts.   *)
FiltersOtherWay(r, jd, t) ==
  /\ jd.min_yoe > 0 => r.yoe >= IF t.min_yoe = None THEN jd.min_yoe ELSE t.min_yoe
  /\ t.location_strict /\ None \notin {jd.location, r.location} =>
       Overlaps(Lower[jd.location], Lower[r.location])
  /\ jd.must_haves # <<>> =>
       \A s \in r.skills : \E m \in ToSet(jd.must_haves) : Overlaps(Lower[m], Lower[s])

(* apply_filters.  Nobody's location is compared with an empty one, and an *)
(* own min_yoe of the cutoffs counts only if the description has one.      *)
Apply_filters(r, jd, t) ==
  /\ jd.min_yoe > 0 => r.yoe >= IF t.min_yoe = None THEN jd.min_yoe ELSE t.min_yoe
  /\ t.location_strict /\ None \notin {jd.location, r.location} =>
       Overlaps(Lower[jd.location], Lower[r.location])
  /\ \A m \in ToSet(jd.must_haves) : \E s \in r.skills : Overlaps(Lower[m], Lower[s])

(* compute_skill_overlap: a job that asks for nothing is met by everybody. *)
Compute_skill_overlap(r, jd) ==
  LET wanted == {Canon[s] : s \in ToSet(jd.required_skills \o jd.preferred_skills)}
      has    == {Canon[s] : s \in r.skills}
  IN IF wanted = {} THEN 100
     ELSE (100 * Cardinality(wanted \cap has)) \div Cardinality(wanted)

(* judge_candidate derives its score from the overlap when the LLM is down *)
Signals(r, jd, judgeUp) ==
  LET overlap == Compute_skill_overlap(r, jd) IN
  [skill_overlap |-> overlap, cosine |-> r.cosine,
   judge |-> IF judgeUp THEN r.judge ELSE overlap]

Weighted(s, w, k) == w[k] * Clamp(s[k])
Total(w)          == w.skill_overlap + w.cosine + w.judge

Aggregate_score(s, w) ==
  Rounded(100 * (Weighted(s, w, "skill_overlap") + Weighted(s, w, "cosine")
                                                 + Weighted(s, w, "judge")), Total(w))

Apply_thresholds(score, t) ==
  IF score >= 100 * t.fit THEN "Fit"
  ELSE IF score >= 100 * t.maybe THEN "Maybe" ELSE "Reject"

(* Steps 3 to 7 of process_candidate.                                      *)
Judge(r, jd, w, t, judgeUp) ==
  LET score == Aggregate_score(Signals(r, jd, judgeUp), w) IN
  IF Apply_filters(r, jd, t)
  THEN [filtered |-> FALSE, score |-> score, verdict |-> Apply_thresholds(score, t)]
  ELSE [filtered |-> TRUE, score |-> 0, verdict |-> "Reject"]
-----------------------------------------------------------------------------
(* _build_reasoning_card: place among the job's scores, and percentile once *)
(* there are enough of them (in tenths of a percent).                      *)
CONSTANTS MinCohort,   \* _MIN_COHORT_FOR_PERCENTILE (10 in the code)
          MinSuggest,  \* scores a suggestion takes (3 in the code)
  Short        \* the n with n * 0.70 < 7n/10 in binary (90, 170, ...)
ASSUME CohortAssumption == MinCohort \in Nat /\ MinSuggest \in Nat \ {0}
ASSUME ShortAssumption  == \A n \in Short : n \in Nat /\ n > 0 /\ n % 10 = 0

Above(score, scores) == {i \in DOMAIN scores : scores[i] > score}
Below(score, scores) == {i \in DOMAIN scores : scores[i] < score}

Rank(score, scores) == 1 + Cardinality(Above(score, scores))

Percentile_of(score, scores) ==
  IF Len(scores) < MinCohort THEN None
  ELSE Rounded(1000 * Cardinality(Below(score, scores)), Len(scores))

Distance(a, b) == Greater(a - b, b - a)
Confidence_band(score, t) ==
  LET d == Lesser(Distance(score, 100 * t.fit), Distance(score, 100 * t.maybe)) IN
  CASE d < 500 -> "Low" [] d < 1500 -> "Medium" [] OTHER -> "High"

(* Wrong variant: a full score has a bucket of its own.                    *)
BucketUncapped(s) == IF s < 0 THEN 0 ELSE s \div 1000

(* int(s / 0.1), at most 9: binary division puts 0.3, 0.6 and 0.7 one      *)
(* bucket lower, and int() cuts towards 0.  There is no bucket for -0.1    *)
(* and less: the request for the statistics fails.                         *)
Bucket(s) ==
  CASE s < 0                    -> -((-s) \div 1000)
    [] s \in {3000, 6000, 7000} -> s \div 1000 - 1
    [] OTHER                    -> Lesser(s \div 1000, 9)

Build_histogram(scores) ==
  [b \in 0 .. 9 |-> Cardinality({i \in DOMAIN scores : Bucket(scores[i]) = b})]

(* bucket_tone: the verdict of the bucket's middle.                        *)
Bucket_tone(b, t) == Apply_thresholds(1000 * b + 500, t)

(* sorted(scores): fewer than k are below the k-th, and at least k are not *)
(* above it.                                                               *)
IsNth(x, k, scores) ==
  /\ Cardinality(Below(x, scores)) < k
  /\ k <= Len(scores) - Cardinality(Above(x, scores))
Ascending(scores) ==
  [k \in DOMAIN scores |-> CHOOSE x \in ToSet(scores) : IsNth(x, k, scores)]

(* _percentile: linear between the two nearest ranks.                      *)
Percentile(scores, p) ==
  IF scores = <<>> THEN 0
  ELSE LET s   == Ascending(scores)
           pos == (Len(s) - 1) * p
           lo  == s[1 + pos \div 100]
           hi  == s[1 + (pos + 99) \div 100]
       IN lo + Rounded((hi - lo) * (pos % 100), 100)

Suggest_thresholds(scores) ==
  IF Len(scores) < MinSuggest THEN DefaultThresholds
  ELSE LET s     == Ascending(scores)
           n     == Len(s)
           At(i) == Rounded(s[1 + i], 100)
       IN [fit   |-> At((7 * n) \div 10 - IF n \in Short THEN 1 ELSE 0),
           maybe |-> At((3 * n) \div 10)]
=============================================================================
