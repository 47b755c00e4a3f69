-------------------------- MODULE ScreeningProofs --------------------------
(* What holds of Screening for any resumes, jobs, weights and cutoffs. *)
EXTENDS Screening, SubsequencesProofs

LEMMA ProductMonotone ==
  ASSUME NEW w \in Nat, NEW x \in Int, NEW y \in Int, x <= y
  PROVE  w * x <= w * y
OBVIOUS

LEMMA DivMonotone ==
  ASSUME NEW a \in Int, NEW b \in Int, NEW c \in Nat \ {0}, a <= b
  PROVE  a \div c \in Int /\ b \div c \in Int /\ a \div c <= b \div c
<1> DEFINE p == a \div c
           q == b \div c
<1>1. /\ p \in Int /\ q \in Int
      /\ c * p <= a /\ a < c * p + c
      /\ c * q <= b /\ b < c * q + c
  OBVIOUS
<1> HIDE DEF p, q
<1>2. ASSUME q + 1 <= p PROVE FALSE
  <2>1. c * (q + 1) <= c * p
    BY <1>1, <1>2, ProductMonotone
  <2>2. c * (q + 1) = c * q + c
    BY <1>1
  <2> QED
    BY <1>1, <2>1, <2>2
<1> QED
  BY <1>1, <1>2 DEF p, q

(* The skills a job asks for are finitely many.                            *)
LEMMA ImageIsFinite ==
  ASSUME NEW S, NEW s \in Seq(S)
  PROVE  IsFiniteSet({Canon[x] : x \in ToSet(s)})
<1> DEFINE T == {Canon[x] : x \in ToSet(s)}
           f == [i \in 1 .. Len(s) |-> Canon[s[i]]]
<1>1. f \in Surjection(1 .. Len(s), T)
  BY DEF Surjection, ToSet
<1>2. IsFiniteSet(1 .. Len(s))
  BY FS_Interval
<1> QED
  BY <1>1, <1>2, FS_Surjection

(* More skills never lower the overlap, which is a percentage.             *)
LEMMA OverlapMonotone ==
  ASSUME NEW S, NEW jd, jd.required_skills \in Seq(S), jd.preferred_skills \in Seq(S),
         NEW a, NEW b, b.skills \subseteq a.skills
  PROVE  /\ Compute_skill_overlap(a, jd) \in Nat
         /\ Compute_skill_overlap(b, jd) \in Nat
         /\ Compute_skill_overlap(b, jd) <= Compute_skill_overlap(a, jd)
<1> DEFINE wanted == {Canon[s] : s \in ToSet(jd.required_skills \o jd.preferred_skills)}
           Has(r) == wanted \cap {Canon[s] : s \in r.skills}
<1>1. IsFiniteSet(wanted)
  <2>1. jd.required_skills \o jd.preferred_skills \in Seq(S)
    OBVIOUS
  <2> QED
    BY <2>1, ImageIsFinite, Zenon
<1>2. CASE wanted = {}
  BY <1>2 DEF Compute_skill_overlap
<1>3. CASE wanted # {}
  <2>1. Cardinality(wanted) \in Nat \ {0}
    BY <1>1, <1>3, FS_CardinalityType, FS_EmptySet
  <2>2. /\ IsFiniteSet(Has(a)) /\ Has(b) \subseteq Has(a)
    BY <1>1, FS_Intersection
  <2>3. /\ Cardinality(Has(a)) \in Nat /\ Cardinality(Has(b)) \in Nat
        /\ Cardinality(Has(b)) <= Cardinality(Has(a))
    BY <2>2, FS_Subset, FS_CardinalityType
  <2>4. /\ Compute_skill_overlap(a, jd) = (100 * Cardinality(Has(a))) \div Cardinality(wanted)
        /\ Compute_skill_overlap(b, jd) = (100 * Cardinality(Has(b))) \div Cardinality(wanted)
    BY <1>3 DEF Compute_skill_overlap
  <2> HIDE DEF wanted, Has
  <2> DEFINE all == Cardinality(wanted)
             more == 100 * Cardinality(Has(a))
             less == 100 * Cardinality(Has(b))
  <2>5. all \in Nat \ {0} /\ more \in Int /\ less \in Int /\ 0 <= less /\ less <= more
    BY <2>1, <2>3
  <2> HIDE DEF all, more, less
  <2>6. 0 \div all = 0
    BY <2>5
  <2>7. 0 <= less \div all /\ less \div all <= more \div all
        /\ less \div all \in Int /\ more \div all \in Int
    BY <2>5, <2>6, DivMonotone
  <2> QED
    BY <2>4, <2>7 DEF all, more, less
<1> QED
  BY <1>2, <1>3

Weights == [skill_overlap : Nat, cosine : Nat, judge : Nat]

(* No signal raised ever lowers the score, which is not negative.          *)
LEMMA ScoreMonotone ==
  ASSUME NEW w \in Weights, Total(w) > 0,
         NEW s, NEW u, \A k \in Signal : s[k] \in Int /\ u[k] \in Int /\ s[k] <= u[k]
  PROVE  /\ Aggregate_score(s, w) \in Nat /\ Aggregate_score(u, w) \in Nat
         /\ Aggregate_score(s, w) <= Aggregate_score(u, w)
<1>1. Total(w) \in Nat \ {0}
  BY DEF Weights, Total
<1>2. ASSUME NEW k \in Signal
      PROVE  /\ Weighted(s, w, k) \in Nat /\ Weighted(u, w, k) \in Nat
             /\ Weighted(s, w, k) <= Weighted(u, w, k)
  <2>1. w[k] \in Nat
    BY DEF Weights, Signal
  <2>2. Clamp(s[k]) \in Nat /\ Clamp(u[k]) \in Nat /\ Clamp(s[k]) <= Clamp(u[k])
    BY DEF Clamp, Greater, Lesser
  <2> QED
    BY <2>1, <2>2, ProductMonotone DEF Weighted
<1> DEFINE Sum(x) == Weighted(x, w, "skill_overlap") + Weighted(x, w, "cosine")
                                                       + Weighted(x, w, "judge")
           n(x) == 2 * (100 * Sum(x)) + Total(w)
           d    == 2 * Total(w)
<1>3. n(s) \in Int /\ n(u) \in Int /\ 0 <= n(s) /\ n(s) <= n(u) /\ d \in Nat \ {0}
  <2>1. Sum(s) \in Nat /\ Sum(u) \in Nat /\ Sum(s) <= Sum(u)
    BY <1>2 DEF Signal
  <2> HIDE DEF Sum
  <2> QED
    BY <1>1, <2>1
<1>4. Aggregate_score(s, w) = n(s) \div d /\ Aggregate_score(u, w) = n(u) \div d
  BY DEF Aggregate_score, Rounded
<1> HIDE DEF n, d
<1>5. 0 \div d = 0
  BY <1>3
<1>6. 0 <= n(s) \div d /\ n(s) \div d <= n(u) \div d /\ n(s) \div d \in Int /\ n(u) \div d \in Int
  BY <1>3, <1>5, DivMonotone
<1> QED
  BY <1>4, <1>6

(* Who lacks nothing the other has passes every filter the other passes.   *)
LEMMA FiltersMonotone ==
  ASSUME NEW a, NEW b, NEW jd, NEW t, AtLeast(a, b), Apply_filters(b, jd, t),
         a.yoe \in Int, b.yoe \in Int, jd.min_yoe \in Int, t.min_yoe \in Int \cup {None}
  PROVE  Apply_filters(a, jd, t)
<1>1. jd.min_yoe > 0 => a.yoe >= IF t.min_yoe = None THEN jd.min_yoe ELSE t.min_yoe
  BY DEF AtLeast, Apply_filters
<1>2. t.location_strict /\ None \notin {jd.location, a.location} =>
        Overlaps(Lower[jd.location], Lower[a.location])
  BY DEF AtLeast, Apply_filters
<1>3. \A m \in ToSet(jd.must_haves) : \E s \in a.skills : Overlaps(Lower[m], Lower[s])
  BY DEF AtLeast, Apply_filters
<1> QED
  BY <1>1, <1>2, <1>3 DEF Apply_filters

(* A higher score never has a lower verdict, wherever the cutoffs are.     *)
LEMMA VerdictMonotone ==
  ASSUME NEW t, t.fit \in Int, t.maybe \in Int,
         NEW low \in Nat, NEW high \in Nat, low <= high
  PROVE  /\ Better[Apply_thresholds(low, t)] <= Better[Apply_thresholds(high, t)]
         /\ Better["Reject"] <= Better[Apply_thresholds(high, t)]
<1>1. Better["Reject"] = 0 /\ Better["Maybe"] = 1 /\ Better["Fit"] = 2
  BY DEF Better
<1> DEFINE f == 100 * t.fit
           m == 100 * t.maybe
<1>2. f \in Int /\ m \in Int
  OBVIOUS
<1>3. \A x \in Nat : Better[Apply_thresholds(x, t)] = IF x >= f THEN 2 ELSE IF x >= m THEN 1 ELSE 0
  <2> SUFFICES ASSUME NEW x \in Nat
               PROVE  Better[Apply_thresholds(x, t)] = IF x >= f THEN 2 ELSE IF x >= m THEN 1 ELSE 0
    OBVIOUS
  <2>1. Apply_thresholds(x, t) = IF x >= f THEN "Fit" ELSE IF x >= m THEN "Maybe" ELSE "Reject"
    BY DEF Apply_thresholds
  <2> HIDE DEF f, m
  <2> QED
    BY <1>1, <2>1
<1> HIDE DEF f, m
<1> QED
  BY <1>1, <1>2, <1>3

(* Filters, overlap, weights, rounding and cutoffs together never judge a  *)
(* candidate below one who has nothing he lacks, for any description,      *)
(* cutoffs (even out of order) and weights that are not negative and not   *)
(* all zero, with the judge up or down: the part of MeritDecides one       *)
(* evaluation decides.                                                     *)
THEOREM MeritIsRewarded ==
  ASSUME NEW S, NEW jd, jd.required_skills \in Seq(S), jd.preferred_skills \in Seq(S),
         jd.min_yoe \in Int,
         NEW t, t.min_yoe \in Int \cup {None}, t.fit \in Int, t.maybe \in Int,
         NEW w \in Weights, Total(w) > 0, NEW up \in BOOLEAN,
         NEW a, NEW b, AtLeast(a, b), a.yoe \in Int, b.yoe \in Int,
         a.cosine \in Int, b.cosine \in Int, a.judge \in Int, b.judge \in Int
  PROVE  /\ Judge(b, jd, w, t, up).score <= Judge(a, jd, w, t, up).score
         /\ Better[Judge(b, jd, w, t, up).verdict] <= Better[Judge(a, jd, w, t, up).verdict]
<1> DEFINE s == Signals(b, jd, up)
           u == Signals(a, jd, up)
           low  == Aggregate_score(s, w)
           high == Aggregate_score(u, w)
<1>1. \A k \in Signal : s[k] \in Int /\ u[k] \in Int /\ s[k] <= u[k]
  <2>1. /\ Compute_skill_overlap(a, jd) \in Nat /\ Compute_skill_overlap(b, jd) \in Nat
        /\ Compute_skill_overlap(b, jd) <= Compute_skill_overlap(a, jd)
    BY OverlapMonotone DEF AtLeast
  <2>2. b.cosine <= a.cosine /\ b.judge <= a.judge
    BY DEF AtLeast
  <2> QED
    BY <2>1, <2>2 DEF Signals, Signal
<1>2. low \in Nat /\ high \in Nat /\ low <= high
  <2> HIDE DEF s, u
  <2> QED
    BY <1>1, ScoreMonotone
<1>3. /\ Better[Apply_thresholds(low, t)] <= Better[Apply_thresholds(high, t)]
      /\ Better["Reject"] <= Better[Apply_thresholds(high, t)]
  <2> HIDE DEF low, high
  <2> QED
    BY <1>2, VerdictMonotone
<1>4. Apply_filters(b, jd, t) => Apply_filters(a, jd, t)
  BY FiltersMonotone
<1>5. \A r : Judge(r, jd, w, t, up) =
        IF Apply_filters(r, jd, t)
        THEN [filtered |-> FALSE, score |-> Aggregate_score(Signals(r, jd, up), w),
              verdict |-> Apply_thresholds(Aggregate_score(Signals(r, jd, up), w), t)]
        ELSE [filtered |-> TRUE, score |-> 0, verdict |-> "Reject"]
  BY DEF Judge
<1> HIDE DEF low, high
<1> QED
  <2>1. CASE Apply_filters(b, jd, t)
    BY <1>2, <1>3, <1>4, <1>5, <2>1 DEF low, high
  <2>2. CASE ~Apply_filters(b, jd, t) /\ Apply_filters(a, jd, t)
    BY <1>2, <1>3, <1>5, <2>2 DEF low, high
  <2>3. CASE ~Apply_filters(b, jd, t) /\ ~Apply_filters(a, jd, t)
    BY <1>5, <2>3 DEF Better
  <2> QED
    BY <2>1, <2>2, <2>3

-----------------------------------------------------------------------------
(* The settings: what the wizard and a job hold.                           *)
Settings ==
  /\ criteria \in Seq(Criterion)
  /\ facts = [min_yoe |-> facts.min_yoe, location |-> facts.location] /\ facts.min_yoe \in Int
  /\ IsWeights(weights)
  /\ cut \in [fit : Int, maybe : Int] /\ draft \in [fit : Int, maybe : Int]
  /\ job # None => IsJob(job)

(* What a filter over the positions of a sequence of texts keeps is texts. *)
LEMMA KeptType ==
  ASSUME NEW T, NEW s \in Seq(T), NEW S \in SUBSET DOMAIN s
  PROVE  Kept(s, S) \in Seq(T)
BY KeptInOrder

LEMMA UnseenType ==
  ASSUME NEW T, NEW s \in Seq(T), NEW seen
  PROVE  Unseen(s, seen) \in Seq(T)
<1> DEFINE S == {i \in DOMAIN s : Lower[s[i]] \notin seen}
<1>1. S \in SUBSET DOMAIN s
  OBVIOUS
<1> HIDE DEF S
<1>2. Kept(s, S) \in Seq(T)
  BY <1>1, KeptType
<1> QED
  BY <1>2 DEF Unseen, S

LEMMA UniqueType ==
  ASSUME NEW T, NEW s \in Seq(T)
  PROVE  Unique(s) \in Seq(T)
<1>1. Firsts(s) \in SUBSET DOMAIN s
  BY FirstsCover
<1> QED
  BY <1>1, KeptType DEF Unique

LEMMA RowsType ==
  ASSUME NEW s \in Seq(Text), NEW l \in Level
  PROVE  Rows(s, l) \in Seq(Criterion)
<1>1. \A i \in DOMAIN s : [text |-> s[i], level |-> l] \in Criterion
  BY DEF Criterion
<1> QED
  BY <1>1 DEF Rows

(* The criteria of a reading are criteria.                                 *)
LEMMA CriteriaType ==
  ASSUME NEW r, Describes(r)
  PROVE  Criteria_from_parse(r) \in Seq(Criterion)
<1> DEFINE must == Lowered(r.must_haves)
           seen == Lowered(r.required_skills)
           Item(i) == [text  |-> r.required_skills[i],
                       level |-> IF Lower[r.required_skills[i]] \in must
                                 THEN "required" ELSE "important"]
           A == [i \in DOMAIN r.required_skills |-> Item(i)]
           B == Rows(Unseen(r.must_haves, seen), "required")
           C == Rows(Unseen(r.preferred_skills, seen \cup must), "nice")
<1>1. /\ r.required_skills \in Seq(Text) /\ r.must_haves \in Seq(Text)
      /\ r.preferred_skills \in Seq(Text)
  BY DEF Describes
<1>2. A \in Seq(Criterion)
  <2>1. ASSUME NEW i \in DOMAIN r.required_skills
        PROVE  Item(i) \in Criterion
    <3>1. r.required_skills[i] \in Text
      BY <1>1
    <3> QED
      BY <3>1 DEF Criterion, Level
  <2> HIDE DEF Item
  <2> QED
    BY <1>1, <2>1
<1>3. Unseen(r.must_haves, seen) \in Seq(Text) /\ Unseen(r.preferred_skills, seen \cup must) \in Seq(Text)
  BY <1>1, UnseenType
<1>4. B \in Seq(Criterion) /\ C \in Seq(Criterion)
  BY <1>3, RowsType DEF Level
<1>5. Criteria_from_parse(r) = A \o B \o C
  BY DEF Criteria_from_parse
<1> HIDE DEF A, B, C
<1> QED
  BY <1>2, <1>4, <1>5

(* The texts of the rows at some levels: each once, and none is blank.     *)
LEMMA TextsAreThose ==
  ASSUME criteria \in Seq(Criterion), NEW levels
  PROVE  /\ Texts(levels) \in Seq(Text)
         /\ \A x : x \in ToSet(Texts(levels)) <=>
              \E i \in DOMAIN criteria : /\ criteria[i].text = x /\ x # Empty
                                       /\ criteria[i].level \in levels
<1> DEFINE S == {i \in DOMAIN criteria : criteria[i].text # Empty /\ criteria[i].level \in levels}
           rows == Kept(criteria, S)
           texts == [i \in DOMAIN rows |-> rows[i].text]
<1>1. S \in SUBSET DOMAIN criteria
  OBVIOUS
<1>2. \A i \in DOMAIN criteria :
        i \in S <=> criteria[i].text # Empty /\ criteria[i].level \in levels
  OBVIOUS
<1>3. Texts(levels) = Unique(texts)
  BY DEF Texts
<1> HIDE DEF S
<1>4. /\ rows \in Seq(Criterion)
      /\ \A k \in DOMAIN rows : \E i \in S : rows[k] = criteria[i]
      /\ \A i \in S : \E k \in DOMAIN rows : rows[k] = criteria[i]
  BY <1>1, KeptType, KeptValues
<1> HIDE DEF rows
<1>5. /\ texts \in Seq(Text) /\ DOMAIN texts = DOMAIN rows
      /\ \A k \in DOMAIN texts : texts[k] = rows[k].text
  <2>1. ASSUME NEW k \in DOMAIN rows PROVE rows[k].text \in Text
    <3>1. PICK i \in S : rows[k] = criteria[i]
      BY <1>4
    <3>2. i \in DOMAIN criteria /\ criteria[i].text # Empty
      BY <1>1, <1>2
    <3>3. criteria[i] \in Criterion
      BY <3>2
    <3> QED
      BY <3>1, <3>2, <3>3 DEF Criterion
  <2> QED
    BY <1>4, <2>1
<1> HIDE DEF texts
<1>6. /\ Firsts(texts) \in SUBSET DOMAIN texts
      /\ \A i \in DOMAIN texts : \E f \in Firsts(texts) : texts[f] = texts[i]
  BY <1>5, FirstsCover
<1>7. /\ \A k \in DOMAIN Unique(texts) : \E i \in Firsts(texts) : Unique(texts)[k] = texts[i]
      /\ \A i \in Firsts(texts) : \E k \in DOMAIN Unique(texts) : Unique(texts)[k] = texts[i]
  BY <1>5, <1>6, KeptValues DEF Unique
<1>8. Unique(texts) \in Seq(Text)
  BY <1>5, UniqueType
<1>9. ToSet(Unique(texts)) = {texts[i] : i \in DOMAIN texts}
  <2>1. ToSet(Unique(texts)) = {Unique(texts)[k] : k \in DOMAIN Unique(texts)}
    BY <1>8 DEF ToSet
  <2> QED
    BY <1>6, <1>7, <2>1
<1>10. \A x : (\E k \in DOMAIN texts : texts[k] = x) <=>
              (\E i \in S : criteria[i].text = x)
  BY <1>4, <1>5
<1>11. ASSUME NEW x
       PROVE  (\E i \in S : criteria[i].text = x) <=>
              \E i \in DOMAIN criteria : /\ criteria[i].text = x /\ x # Empty
                                       /\ criteria[i].level \in levels
  BY <1>1, <1>2
<1>12. \A x : x \in ToSet(Unique(texts)) <=> \E k \in DOMAIN texts : texts[k] = x
  BY <1>9
<1> QED
  BY <1>3, <1>8, <1>10, <1>11, <1>12

(* The job of the wizard is well formed.                                   *)
LEMMA SubmitMakesJob ==
  ASSUME Settings, Total(weights) = 100
  PROVE  IsJob([jd |-> Description, weights |-> weights, t |-> Sent(cut)])
<1>1. /\ Texts({"important", "required"}) \in Seq(Text) /\ Texts({"nice"}) \in Seq(Text)
      /\ Texts({"required"}) \in Seq(Text)
  BY TextsAreThose DEF Settings
<1>2. Describes(Description)
  BY <1>1 DEF Describes, Description, Settings
<1>3. IsCutoffs(Sent(cut))
  BY DEF IsCutoffs, Sent, Settings
<1>4. IsWeights(weights) /\ Total(weights) >= 0
  BY DEF Settings
<1> QED
  BY <1>2, <1>3, <1>4 DEF IsJob

LEMMA SettingsHold == Spec => []Settings
<1>1. Init => Settings
  BY DEF Init, Settings, NoFacts, IsWeights, DefaultWeights, DefaultThresholds
<1>2. Settings /\ [Next]_vars => Settings'
  <2> SUFFICES ASSUME Settings, [Next]_vars PROVE Settings'
    OBVIOUS
  <2>0. ASSUME UNCHANGED <<criteria, facts, weights, cut, draft, job>> PROVE Settings'
    BY <2>0 DEF Settings, IsWeights
  <2>1. CASE UNCHANGED vars
    BY <2>0, <2>1 DEF vars, wizard
  <2>2. CASE Wizard
    <3>1. ASSUME NEW r \in Reading, ParseCriteria(r) PROVE Settings'
      <4>1. CASE UNCHANGED <<wizard, read>>
        BY <2>0, <3>1, <4>1 DEF ParseCriteria, wizard
      <4>2. CASE criteria' = Criteria_from_parse(r) /\ UNCHANGED <<weights, cut>>
                 /\ facts' = [min_yoe |-> r.min_yoe, location |-> r.location]
        <5>1. Describes(r)
          BY InputAssumption
        <5>2. criteria' \in Seq(Criterion) /\ r.min_yoe \in Int
          BY <4>2, <5>1, CriteriaType DEF Describes
        <5> QED
          BY <3>1, <4>2, <5>2 DEF ParseCriteria, Settings, IsWeights
      <4> QED
        BY <3>1, <4>1, <4>2 DEF ParseCriteria
    <3>2. CASE StartManual
      <4>1. <<Blank>> \in Seq(Criterion)
        BY DEF Blank, Criterion, Level
      <4> QED
        BY <3>2, <4>1 DEF StartManual, Settings, NoFacts, IsWeights
    <3>3. CASE BackToStep1
      BY <2>0, <3>3 DEF BackToStep1
    <3>4. CASE CreateAnother
      BY <3>4 DEF CreateAnother, Settings, IsWeights
    <3>5. CASE Submit
      <4>1. IsJob([jd |-> Description, weights |-> weights, t |-> Sent(cut)])
        BY <3>5, SubmitMakesJob DEF Submit, Settings
      <4>2. IsJob(job') /\ criteria' = <<>> /\ UNCHANGED <<facts, weights, cut, draft>>
        BY <3>5, <4>1 DEF Submit
      <4> QED
        BY <4>2 DEF Settings, IsWeights
    <3>6. ASSUME NEW c \in Seq(Criterion), EditCriteria(c) PROVE Settings'
      BY <3>6 DEF EditCriteria, Settings, IsWeights
    <3>7. ASSUME NEW i \in DOMAIN criteria, NEW t \in Edited, SetCriterionText(i, t)
          PROVE  Settings'
      <4>1. criteria[i] \in Criterion /\ t \in Text \cup {Empty} /\ criteria \in Seq(Criterion)
        BY TextAssumption DEF Settings
      <4>2. [criteria[i] EXCEPT !.text = t] \in Criterion
        BY <4>1 DEF Criterion
      <4>3. [criteria EXCEPT ![i].text = t] \in Seq(Criterion)
        BY <4>1, <4>2
      <4> QED
        BY <3>6, <3>7, <4>3 DEF SetCriterionText
    <3>8. ASSUME NEW i \in DOMAIN criteria, NEW l \in Level, SetCriterionLevel(i, l)
          PROVE  Settings'
      <4>1. criteria[i] \in Criterion /\ criteria \in Seq(Criterion)
        BY DEF Settings
      <4>2. [criteria[i] EXCEPT !.level = l] \in Criterion
        BY <4>1 DEF Criterion
      <4>3. [criteria EXCEPT ![i].level = l] \in Seq(Criterion)
        BY <4>1, <4>2
      <4> QED
        BY <3>6, <3>8, <4>3 DEF SetCriterionLevel
    <3>9. ASSUME NEW i \in DOMAIN criteria, RemoveCriterion(i) PROVE Settings'
      <4>1. criteria \in Seq(Criterion)
        BY DEF Settings
      <4>2. RemoveAt(criteria, i) \in Seq(Criterion)
        BY <4>1 DEF RemoveAt
      <4> QED
        BY <3>6, <3>9, <4>2 DEF RemoveCriterion
    <3>10. CASE AddCriterion
      <4>1. Append(criteria, Blank) \in Seq(Criterion)
        BY DEF Settings, Blank, Criterion, Level
      <4> QED
        BY <3>6, <3>10, <4>1 DEF AddCriterion
    <3>11. ASSUME NEW f, f = [min_yoe |-> f.min_yoe, location |-> f.location], f.min_yoe \in Int,
                  SetFacts(f)
           PROVE  Settings'
      BY <3>11 DEF SetFacts, Settings, IsWeights
    <3>12. ASSUME NEW y \in 0 .. 1, SetFacts([facts EXCEPT !.min_yoe = y]) PROVE Settings'
      BY <3>11, <3>12 DEF Settings
    <3>13. ASSUME NEW l \in Place, SetFacts([facts EXCEPT !.location = l]) PROVE Settings'
      BY <3>11, <3>13 DEF Settings
    <3>14. ASSUME NEW w, IsWeights(w), EditWeights(w) PROVE Settings'
      BY <3>14 DEF EditWeights, Settings
    <3>15. CASE NormalizeWeights
      <4>1. IsWeights(DefaultWeights)
        BY DEF DefaultWeights, IsWeights
      <4>2. \A s, c \in Int : IsWeights([skill_overlap |-> s, cosine |-> c, judge |-> 100 - s - c])
        BY DEF IsWeights
      <4>3. \A a \in Int, b \in Nat \ {0} : Nearest(a, b) \subseteq Int
        <5>1. \A a \in Int, b \in Nat \ {0} : (100 * a) \div b \in Int
          OBVIOUS
        <5> QED
          BY <5>1 DEF Nearest
      <4>4. /\ weights.skill_overlap \in Int /\ weights.cosine \in Int
            /\ ~ (Total(weights) <= 0) => Total(weights) \in Nat \ {0}
        BY DEF Settings, IsWeights, Total
      <4>5. CASE Total(weights) <= 0
        BY <3>14, <3>15, <4>1, <4>5 DEF NormalizeWeights
      <4>6. CASE ~ (Total(weights) <= 0)
        <5>1. PICK x \in Nearest(weights.skill_overlap, Total(weights)),
                   y \in Nearest(weights.cosine, Total(weights)) :
                EditWeights([skill_overlap |-> x, cosine |-> y, judge |-> 100 - x - y])
          BY <3>15, <4>6 DEF NormalizeWeights
        <5>2. x \in Int /\ y \in Int
          BY <4>3, <4>4, <4>6
        <5> QED
          BY <3>14, <4>2, <5>1, <5>2
      <4> QED
        BY <4>5, <4>6
    <3>16. ASSUME NEW k \in Signal, NEW v \in Slider, SetWeight(k, v) PROVE Settings'
      <4>1. v \in Int
        BY SliderAssumption
      <4>2. IsWeights([weights EXCEPT ![k] = v])
        BY <4>1 DEF Settings, IsWeights, Signal
      <4> QED
        BY <3>14, <3>16, <4>2 DEF SetWeight
    <3>17. ASSUME NEW k \in {"fit", "maybe"}, NEW v \in Cutoff, SetThreshold(k, v)
           PROVE  Settings'
      <4>1. v \in Int
        BY SliderAssumption
      <4>2. [cut EXCEPT ![k] = v] \in [fit : Int, maybe : Int]
        BY <4>1 DEF Settings
      <4> QED
        BY <3>17, <4>2 DEF SetThreshold, Settings, IsWeights
    <3> QED
      BY <2>2, <3>1, <3>2, <3>3, <3>4, <3>5, <3>7, <3>8, <3>9, <3>10, <3>12, <3>13, <3>15, <3>16,
         <3>17 DEF Wizard
  <2>3. ASSUME NEW j \in ApiJob, CreateJob(j) PROVE Settings'
    BY <2>3, InputAssumption DEF CreateJob, wizard, Settings, IsWeights
  <2>4. ASSUME NEW e, Records(e) PROVE Settings'
    BY <2>0, <2>4 DEF Records, wizard
  <2>5. ASSUME NEW r \in Resume, EvaluateFails(r) \/ \E up \in BOOLEAN : Evaluate(r, up)
        PROVE  Settings'
    BY <2>5, <2>4 DEF EvaluateFails, Evaluate
  <2>6. CASE LoadStats
    <3>1. job # None /\ draft' = [fit |-> job.t.fit, maybe |-> job.t.maybe] /\ IsJob(job)
      BY <2>6 DEF LoadStats, Settings
    <3>2. draft' \in [fit : Int, maybe : Int]
      BY <3>1 DEF IsJob, IsCutoffs
    <3> QED
      BY <2>6, <3>2 DEF LoadStats, wizard, Settings, IsWeights
  <2>7. CASE RecalibrateThresholds
    <3>1. job # None /\ job' = [job EXCEPT !.t = Sent(draft)] /\ IsJob(job)
      BY <2>7 DEF RecalibrateThresholds, Settings
    <3>2. IsCutoffs(Sent(draft))
      BY DEF IsCutoffs, Sent, Settings
    <3>3. IsJob(job')
      BY <3>1, <3>2 DEF IsJob
    <3> QED
      BY <2>7, <3>3 DEF RecalibrateThresholds, wizard, Settings, IsWeights
  <2>8. ASSUME NEW v \in Cutoff, SetDraftFit(v) \/ SetDraftMaybe(v) PROVE Settings'
    <3>1. v \in Int
      BY SliderAssumption
    <3>2. draft' \in [fit : Int, maybe : Int]
      BY <2>8, <3>1 DEF SetDraftFit, SetDraftMaybe, Slides, Lesser, Greater, Gap, Settings
    <3> QED
      BY <2>8, <3>2 DEF SetDraftFit, SetDraftMaybe, Slides, wizard, Settings, IsWeights
  <2> QED
    BY <2>1, <2>2, <2>3, <2>5, <2>6, <2>7, <2>8 DEF Next
<1> QED
  BY <1>1, <1>2, PTL DEF Spec

(* Cutoffs in order, or those of a job a client of the API made.           *)
InOrder(c) == c.fit >= 0 /\ c.maybe > c.fit => AsMade(c)

(* InvertedOnlyAsMade, and the same of the job, from which drafts are      *)
(* loaded.                                                                 *)
OrderInv == InOrder(draft) /\ (job # None => InOrder(job.t))

(* Whatever cutoffs the client of the API gave a job, and however the      *)
(* recruiter types, drags, saves and loads them: the sliders show Maybe    *)
(* above a Fit that is not negative only if a client made a job so, and    *)
(* nothing the pages do puts other cutoffs out of order.                   *)
THEOREM OnlyClientsInvert == Spec => []InvertedOnlyAsMade
<1>1. Init => OrderInv
  BY DEF Init, OrderInv, InOrder, DefaultThresholds
<1>2. Settings /\ OrderInv /\ [Next]_vars => OrderInv'
  <2> SUFFICES ASSUME Settings, OrderInv, [Next]_vars PROVE OrderInv'
    OBVIOUS
  <2>0. ASSUME UNCHANGED <<draft, job>> PROVE OrderInv'
    BY <2>0 DEF OrderInv, InOrder, AsMade
  <2>1. CASE UNCHANGED vars
    BY <2>0, <2>1 DEF vars
  <2>2. CASE Wizard
    <3>1. UNCHANGED <<draft, job>> \/ Submit
      BY <2>2 DEF Wizard, ParseCriteria, StartManual, BackToStep1, CreateAnother, EditCriteria,
           SetCriterionText, SetCriterionLevel, RemoveCriterion, AddCriterion, SetFacts,
           EditWeights, NormalizeWeights, SetWeight, SetThreshold
    <3>2. CASE Submit
      <4>1. UNCHANGED draft /\ job'.t = Sent(cut) /\ cut.maybe < cut.fit
        BY <3>2 DEF Submit
      <4>2. InOrder(job'.t)
        BY <4>1 DEF Sent, InOrder, Settings
      <4> QED
        BY <4>1, <4>2 DEF OrderInv
    <3> QED
      BY <2>0, <3>1, <3>2
  <2>3. ASSUME NEW j \in ApiJob, CreateJob(j) PROVE OrderInv'
    <3>1. UNCHANGED draft /\ job' = j
      BY <2>3 DEF CreateJob
    <3>2. InOrder(j.t)
      BY DEF InOrder, AsMade
    <3> QED
      BY <3>1, <3>2 DEF OrderInv
  <2>4. ASSUME NEW r \in Resume, EvaluateFails(r) \/ \E up \in BOOLEAN : Evaluate(r, up)
        PROVE  OrderInv'
    BY <2>0, <2>4 DEF EvaluateFails, Evaluate, Records
  <2>5. CASE LoadStats
    <3>1. job # None /\ UNCHANGED job /\ draft'.fit = job.t.fit /\ draft'.maybe = job.t.maybe
      BY <2>5 DEF LoadStats
    <3> QED
      BY <3>1 DEF OrderInv, InOrder, AsMade
  <2>6. CASE RecalibrateThresholds
    <3>1. /\ job # None /\ draft.maybe < draft.fit /\ UNCHANGED draft
          /\ job' = [job EXCEPT !.t = Sent(draft)] /\ IsJob(job)
      BY <2>6 DEF RecalibrateThresholds, Settings
    <3>2. job'.t = Sent(draft)
      BY <3>1 DEF IsJob
    <3>3. InOrder(job'.t)
      BY <3>1, <3>2 DEF Sent, InOrder, Settings
    <3> QED
      BY <3>1, <3>3 DEF OrderInv
  <2>7. ASSUME NEW v \in Cutoff, SetDraftFit(v) \/ SetDraftMaybe(v) PROVE OrderInv'
    <3>1. v \in Nat /\ draft.fit \in Int /\ draft.maybe \in Int
      <4>1. v \in 0 .. 100
        BY SliderAssumption
      <4>2. draft \in [fit : Int, maybe : Int]
        BY DEF Settings
      <4> QED
        BY <4>1, <4>2
    <3>2. UNCHANGED job
      BY <2>7 DEF SetDraftFit, SetDraftMaybe, Slides
    <3>3. CASE SetDraftFit(v)
      <4>1. draft'.maybe <= draft'.fit
        BY <3>1, <3>3 DEF SetDraftFit, Slides, Greater, Gap
      <4>2. draft'.fit \in Int /\ draft'.maybe \in Int
        BY <3>1, <3>3 DEF SetDraftFit, Slides, Greater, Gap
      <4> QED
        BY <3>2, <4>1, <4>2 DEF OrderInv, InOrder
    <3>4. CASE SetDraftMaybe(v)
      <4>1. draft' = [draft EXCEPT !.maybe = Greater(0, Lesser(v, draft.fit - Gap))]
        BY <3>4 DEF SetDraftMaybe, Slides
      <4>2. draft'.fit = draft.fit /\ draft'.maybe = Greater(0, Lesser(v, draft.fit - Gap))
        BY <4>1 DEF Settings
      <4>3. draft'.fit >= 0 => ~ (draft'.maybe > draft'.fit)
        BY <3>1, <4>2 DEF Greater, Lesser, Gap
      <4> QED
        BY <3>2, <4>3 DEF OrderInv, InOrder
    <3> QED
      BY <2>7, <3>3, <3>4
  <2> QED
    BY <2>1, <2>2, <2>3, <2>4, <2>5, <2>6, <2>7 DEF Next
<1>3. OrderInv => InvertedOnlyAsMade
  BY DEF OrderInv, InOrder, InvertedOnlyAsMade
<1> QED
  BY <1>1, <1>2, <1>3, SettingsHold, PTL DEF Spec

-----------------------------------------------------------------------------
(* A description that asks for the same as a reading.                      *)
Carries(jd, r) ==
  /\ jd.min_yoe = r.min_yoe /\ jd.location = r.location
  /\ Lowered(jd.must_haves) = Lowered(r.must_haves)
  /\ Lowered(jd.required_skills \o jd.preferred_skills) =
       Lowered(r.required_skills \o r.preferred_skills \o r.must_haves)

(* CriteriaSurvive, and what the criteria still are that come of a reading *)
Sources ==
  /\ step = 3 => read = None
  /\ read # None => /\ read \in Reading /\ criteria = Criteria_from_parse(read)
                    /\ facts.min_yoe = read.min_yoe /\ facts.location = read.location
  /\ source # None => /\ source \in Reading
                      /\ Describes(job.jd) /\ Carries(job.jd, source)

Occurs(x, s) == \E i \in DOMAIN s : s[i] = x
HasRow(x, l, s) == \E i \in DOMAIN s : s[i].text = x /\ s[i].level = l

LEMMA LoweredIs ==
  ASSUME NEW T, NEW s \in Seq(T), NEW y
  PROVE  y \in Lowered(s) <=> \E x : Occurs(x, s) /\ y = Lower[x]
<1>1. \A x : x \in ToSet(s) <=> Occurs(x, s)
  BY DEF ToSet, Occurs
<1> QED
  BY <1>1 DEF Lowered

LEMMA OccursInConcat ==
  ASSUME NEW T, NEW s \in Seq(T), NEW u \in Seq(T)
  PROVE  s \o u \in Seq(T) /\ \A x : Occurs(x, s \o u) <=> Occurs(x, s) \/ Occurs(x, u)
<1>1. \A i \in DOMAIN s : i \in DOMAIN (s \o u) /\ (s \o u)[i] = s[i]
  OBVIOUS
<1>2. \A i \in DOMAIN u : i + Len(s) \in DOMAIN (s \o u) /\ (s \o u)[i + Len(s)] = u[i]
  OBVIOUS
<1>3. \A i \in DOMAIN (s \o u) :
        \/ i \in DOMAIN s /\ (s \o u)[i] = s[i]
        \/ i - Len(s) \in DOMAIN u /\ (s \o u)[i] = u[i - Len(s)]
  OBVIOUS
<1> DEFINE su == s \o u
<1>4. su \in Seq(T)
  OBVIOUS
<1> HIDE DEF su
<1> QED
  BY <1>1, <1>2, <1>3, <1>4 DEF su, Occurs

(* What is unseen is what has not been seen, and the rest has.             *)
LEMMA UnseenValues ==
  ASSUME NEW T, NEW s \in Seq(T), NEW seen
  PROVE  \A x : Occurs(x, Unseen(s, seen)) <=> Occurs(x, s) /\ Lower[x] \notin seen
<1> DEFINE S == {i \in DOMAIN s : Lower[s[i]] \notin seen}
<1>1. S \in SUBSET DOMAIN s /\ \A i \in DOMAIN s : i \in S <=> Lower[s[i]] \notin seen
  OBVIOUS
<1>2. Unseen(s, seen) = Kept(s, S)
  BY DEF Unseen
<1> HIDE DEF S
<1>3. /\ \A k \in DOMAIN Kept(s, S) : \E i \in S : Kept(s, S)[k] = s[i]
      /\ \A i \in S : \E k \in DOMAIN Kept(s, S) : Kept(s, S)[k] = s[i]
  BY <1>1, KeptValues
<1> QED
  BY <1>1, <1>2, <1>3 DEF Occurs

(* The rows a reading becomes, as a set.                                   *)
LEMMA RowsOfReading ==
  ASSUME NEW r, Describes(r)
  PROVE  LET must == Lowered(r.must_haves)
             seen == Lowered(r.required_skills)
             C    == Criteria_from_parse(r)
         IN \A x, l :
              HasRow(x, l, C) <=>
                \/ /\ Occurs(x, r.required_skills)
                   /\ l = IF Lower[x] \in must THEN "required" ELSE "important"
                \/ /\ Occurs(x, r.must_haves)
                   /\ Lower[x] \notin seen /\ l = "required"
                \/ /\ Occurs(x, r.preferred_skills)
                   /\ Lower[x] \notin seen \cup must /\ l = "nice"
<1> DEFINE must == Lowered(r.must_haves)
           seen == Lowered(r.required_skills)
           C    == Criteria_from_parse(r)
           M    == Unseen(r.must_haves, seen)
           P    == Unseen(r.preferred_skills, seen \cup must)
           Item(i) == [text  |-> r.required_skills[i],
                       level |-> IF Lower[r.required_skills[i]] \in must
                                 THEN "required" ELSE "important"]
           A == [i \in DOMAIN r.required_skills |-> Item(i)]
           B == Rows(M, "required")
           D == Rows(P, "nice")
<1>1. /\ r.required_skills \in Seq(Text) /\ r.must_haves \in Seq(Text)
      /\ r.preferred_skills \in Seq(Text)
  BY DEF Describes
<1>2. M \in Seq(Text) /\ P \in Seq(Text)
  BY <1>1, UnseenType
<1>3. C = A \o B \o D
  BY DEF Criteria_from_parse
<1>4. /\ \A x : Occurs(x, M) <=> Occurs(x, r.must_haves) /\ Lower[x] \notin seen
      /\ \A x : Occurs(x, P) <=> Occurs(x, r.preferred_skills) /\ Lower[x] \notin seen \cup must
  BY <1>1, UnseenValues
<1>5. /\ DOMAIN A = DOMAIN r.required_skills /\ DOMAIN B = DOMAIN M /\ DOMAIN D = DOMAIN P
      /\ \A i \in DOMAIN A :
           /\ A[i].text = r.required_skills[i]
           /\ A[i].level = IF Lower[r.required_skills[i]] \in must THEN "required" ELSE "important"
      /\ \A i \in DOMAIN B : B[i] = [text |-> M[i], level |-> "required"]
      /\ \A i \in DOMAIN D : D[i] = [text |-> P[i], level |-> "nice"]
  BY DEF Rows
<1>6. A \in Seq({Item(i) : i \in DOMAIN A})
  BY <1>1
<1>7. B \in Seq(Criterion) /\ D \in Seq(Criterion)
  BY <1>2, RowsType DEF Level
<1> HIDE DEF M, P, A, B, D, C
<1>8. ASSUME NEW x, NEW l
      PROVE  HasRow(x, l, C) <=>
               HasRow(x, l, A) \/ HasRow(x, l, B) \/ HasRow(x, l, D)
  <2>1. \A i \in DOMAIN A : i \in DOMAIN C /\ C[i] = A[i]
    BY <1>3, <1>6, <1>7
  <2>2. \A i \in DOMAIN B : i + Len(A) \in DOMAIN C /\ C[i + Len(A)] = B[i]
    BY <1>3, <1>6, <1>7
  <2>3. \A i \in DOMAIN D : i + Len(A) + Len(B) \in DOMAIN C /\ C[i + Len(A) + Len(B)] = D[i]
    BY <1>3, <1>6, <1>7
  <2>4. \A i \in DOMAIN C :
          \/ i \in DOMAIN A /\ C[i] = A[i]
          \/ i - Len(A) \in DOMAIN B /\ C[i] = B[i - Len(A)]
          \/ i - Len(A) - Len(B) \in DOMAIN D /\ C[i] = D[i - Len(A) - Len(B)]
    BY <1>3, <1>6, <1>7
  <2> QED
    BY <2>1, <2>2, <2>3, <2>4 DEF HasRow
<1>9. ASSUME NEW x, NEW l
      PROVE  /\ HasRow(x, l, A) <=>
                  /\ Occurs(x, r.required_skills)
                  /\ l = IF Lower[x] \in must THEN "required" ELSE "important"
             /\ HasRow(x, l, B) <=>
                  Occurs(x, M) /\ l = "required"
             /\ HasRow(x, l, D) <=>
                  Occurs(x, P) /\ l = "nice"
  <2> HIDE DEF must
  <2>3. HasRow(x, l, A) <=>
          /\ Occurs(x, r.required_skills)
          /\ l = IF Lower[x] \in must THEN "required" ELSE "important"
    BY <1>5 DEF Occurs, HasRow
  <2>4. /\ \A i \in DOMAIN M : B[i].text = M[i] /\ B[i].level = "required"
        /\ \A i \in DOMAIN P : D[i].text = P[i] /\ D[i].level = "nice"
    BY <1>5
  <2> QED
    BY <1>5, <2>3, <2>4 DEF Occurs, HasRow
<1> HIDE DEF must, seen
<1>10. ASSUME NEW x, NEW l
       PROVE  HasRow(x, l, C) <=>
                \/ /\ Occurs(x, r.required_skills)
                   /\ l = IF Lower[x] \in must THEN "required" ELSE "important"
                \/ /\ Occurs(x, r.must_haves)
                   /\ Lower[x] \notin seen /\ l = "required"
                \/ /\ Occurs(x, r.preferred_skills)
                   /\ Lower[x] \notin seen \cup must /\ l = "nice"
  BY <1>4, <1>8, <1>9
<1> QED
  BY <1>10 DEF C, must, seen

(* The editor's three levels, written back as three lists, ask for what    *)
(* the reading asked for.                                                  *)
LEMMA DescriptionCarries ==
  ASSUME criteria \in Seq(Criterion), NEW r, Describes(r), criteria = Criteria_from_parse(r),
         facts.min_yoe = r.min_yoe, facts.location = r.location
  PROVE  Carries(Description, r)
<1> DEFINE must == Lowered(r.must_haves)
           seen == Lowered(r.required_skills)
           R == Texts({"important", "required"})
           N == Texts({"nice"})
           M == Texts({"required"})
<1>1. /\ r.required_skills \in Seq(Text) /\ r.must_haves \in Seq(Text)
      /\ r.preferred_skills \in Seq(Text)
  BY DEF Describes
<1>2. \A x, l :
        HasRow(x, l, criteria) <=>
          \/ /\ Occurs(x, r.required_skills)
             /\ l = IF Lower[x] \in must THEN "required" ELSE "important"
          \/ Occurs(x, r.must_haves) /\ Lower[x] \notin seen /\ l = "required"
          \/ Occurs(x, r.preferred_skills) /\ Lower[x] \notin seen \cup must /\ l = "nice"
  BY RowsOfReading, Zenon
<1>3. ASSUME NEW levels, NEW x
      PROVE  Occurs(x, Texts(levels)) <=>
               x # Empty /\ \E l \in levels : HasRow(x, l, criteria)
  <2>1. /\ Texts(levels) \in Seq(Text)
        /\ x \in ToSet(Texts(levels)) <=>
             \E i \in DOMAIN criteria : /\ criteria[i].text = x /\ x # Empty
                                      /\ criteria[i].level \in levels
    BY TextsAreThose
  <2>2. x \in ToSet(Texts(levels)) <=> Occurs(x, Texts(levels))
    BY <2>1 DEF ToSet, Occurs
  <2> QED
    BY <2>1, <2>2 DEF HasRow
<1>4. \A x : Occurs(x, r.required_skills) \/ Occurs(x, r.must_haves) \/ Occurs(x, r.preferred_skills)
              => x # Empty
  BY <1>1, TextAssumption DEF Occurs
<1>5. R \in Seq(Text) /\ N \in Seq(Text) /\ M \in Seq(Text)
  BY TextsAreThose
<1>6. \A x : Occurs(x, R) <=> x # Empty /\ (HasRow(x, "important", criteria) \/ HasRow(x, "required", criteria))
  BY <1>3
<1>7. /\ \A x : Occurs(x, N) <=> x # Empty /\ HasRow(x, "nice", criteria)
      /\ \A x : Occurs(x, M) <=> x # Empty /\ HasRow(x, "required", criteria)
  BY <1>3
<1>8. /\ \A y : y \in must <=> \E x : Occurs(x, r.must_haves) /\ y = Lower[x]
      /\ \A y : y \in seen <=> \E x : Occurs(x, r.required_skills) /\ y = Lower[x]
      /\ \A y : y \in Lowered(r.preferred_skills) <=>
                 \E x : Occurs(x, r.preferred_skills) /\ y = Lower[x]
      /\ \A y : y \in Lowered(M) <=> \E x : Occurs(x, M) /\ y = Lower[x]
  BY <1>1, <1>5, LoweredIs
<1> HIDE DEF must, seen, R, N, M
<1>9. Lowered(M) = must
  <2>1. ASSUME NEW y \in Lowered(M) PROVE y \in must
    <3>1. PICK x : Occurs(x, M) /\ y = Lower[x]
      BY <1>8
    <3>2. HasRow(x, "required", criteria)
      BY <1>7, <3>1, Zenon
    <3>3. Lower[x] \in must \/ Occurs(x, r.must_haves)
      BY <1>2, <3>2
    <3> QED
      BY <1>8, <3>1, <3>3
  <2>2. ASSUME NEW y \in must PROVE y \in Lowered(M)
    <3>1. PICK x : Occurs(x, r.must_haves) /\ y = Lower[x]
      BY <1>8
    <3>2. CASE Lower[x] \notin seen
      BY <1>2, <1>4, <1>7, <1>8, <3>1, <3>2
    <3>3. CASE Lower[x] \in seen
      <4>1. PICK z : Occurs(z, r.required_skills) /\ Lower[z] = y
        BY <1>8, <3>1, <3>3
      <4>2. HasRow(z, "required", criteria) /\ z # Empty
        BY <1>2, <1>4, <4>1
      <4> QED
        BY <1>7, <1>8, <4>1, <4>2
    <3> QED
      BY <3>2, <3>3
  <2> QED
    BY <2>1, <2>2
<1>10. Lowered(R \o N) = Lowered(r.required_skills \o r.preferred_skills \o r.must_haves)
  <2> DEFINE all == r.required_skills \o r.preferred_skills \o r.must_haves
  <2>1. /\ R \o N \in Seq(Text) /\ all \in Seq(Text)
        /\ \A x : Occurs(x, R \o N) <=> Occurs(x, R) \/ Occurs(x, N)
        /\ \A x : Occurs(x, all) <=> \/ Occurs(x, r.required_skills)
                                    \/ Occurs(x, r.preferred_skills)
                                    \/ Occurs(x, r.must_haves)
    <3>1. /\ r.required_skills \o r.preferred_skills \in Seq(Text)
          /\ \A x : Occurs(x, r.required_skills \o r.preferred_skills) <=>
                     Occurs(x, r.required_skills) \/ Occurs(x, r.preferred_skills)
      BY <1>1, OccursInConcat
    <3>2. /\ all \in Seq(Text)
          /\ \A x : Occurs(x, all) <=> \/ Occurs(x, r.required_skills \o r.preferred_skills)
                                      \/ Occurs(x, r.must_haves)
      BY <1>1, <3>1, OccursInConcat
    <3>3. /\ R \o N \in Seq(Text)
          /\ \A x : Occurs(x, R \o N) <=> Occurs(x, R) \/ Occurs(x, N)
      BY <1>5, OccursInConcat
    <3> QED
      BY <3>1, <3>2, <3>3
  <2> DEFINE RN == R \o N
  <2> HIDE DEF all, RN
  <2>2. /\ \A y : y \in Lowered(RN) <=> \E x : Occurs(x, RN) /\ y = Lower[x]
        /\ \A y : y \in Lowered(all) <=> \E x : Occurs(x, all) /\ y = Lower[x]
    BY <2>1, LoweredIs DEF RN
  <2>3. ASSUME NEW x, Occurs(x, RN) PROVE Occurs(x, all)
    <3>1. PICK l : HasRow(x, l, criteria)
      BY <1>6, <1>7, <2>1, <2>3, Zenon DEF RN
    <3>2. \/ Occurs(x, r.required_skills) \/ Occurs(x, r.must_haves)
          \/ Occurs(x, r.preferred_skills)
      BY <1>2, <3>1, Zenon
    <3> QED
      BY <2>1, <3>2, Zenon
  <2>4. ASSUME NEW x, Occurs(x, all) PROVE \E z : Occurs(z, RN) /\ Lower[z] = Lower[x]
    <3>1. CASE Occurs(x, r.required_skills)
      BY <1>2, <1>4, <1>6, <2>1, <3>1 DEF RN
    <3>2. ASSUME NEW z, Occurs(z, r.required_skills), Lower[z] = Lower[x] PROVE Occurs(z, RN)
      BY <1>2, <1>4, <1>6, <2>1, <3>2 DEF RN
    <3>3. CASE Occurs(x, r.must_haves)
      <4>1. CASE Lower[x] \in seen
        BY <1>8, <3>2, <4>1
      <4>2. CASE Lower[x] \notin seen
        BY <1>2, <1>4, <1>6, <2>1, <3>3, <4>2 DEF RN
      <4> QED
        BY <4>1, <4>2
    <3>4. ASSUME NEW z, Occurs(z, r.must_haves), Lower[z] = Lower[x], Lower[z] \notin seen
          PROVE  Occurs(z, RN)
      BY <1>2, <1>4, <1>6, <2>1, <3>4 DEF RN
    <3>5. CASE Occurs(x, r.preferred_skills)
      <4>1. CASE Lower[x] \in seen
        BY <1>8, <3>2, <4>1
      <4>2. CASE Lower[x] \notin seen /\ Lower[x] \in must
        BY <1>8, <3>4, <4>2
      <4>3. CASE Lower[x] \notin seen \cup must
        <5>1. HasRow(x, "nice", criteria) /\ x # Empty
          BY <1>2, <1>4, <3>5, <4>3, Zenon
        <5>2. Occurs(x, N)
          BY <1>7, <5>1, Zenon
        <5> QED
          BY <2>1, <5>2, Zenon DEF RN
      <4> QED
        BY <4>1, <4>2, <4>3
    <3> QED
      BY <2>1, <2>4, <3>1, <3>3, <3>5
  <2>5. Lowered(RN) \subseteq Lowered(all) /\ Lowered(all) \subseteq Lowered(RN)
    BY <2>2, <2>3, <2>4
  <2>6. Lowered(RN) = Lowered(all)
    BY <2>5, Zenon
  <2> QED
    BY <2>6 DEF RN, all
<1> QED
  BY <1>9, <1>10 DEF Carries, Description, must, R, N, M

LEMMA SourcesHold == Spec => []Sources
<1>1. Init => Sources
  BY DEF Init, Sources
<1>2. Settings /\ Sources /\ [Next]_vars => Sources'
  <2> SUFFICES ASSUME Settings, Sources, [Next]_vars PROVE Sources'
    OBVIOUS
  <2>0. ASSUME UNCHANGED <<step, criteria, facts, job, ghost>> PROVE Sources'
    BY <2>0 DEF Sources, ghost
  <2>1. CASE UNCHANGED vars
    BY <2>0, <2>1 DEF vars, wizard
  <2>2. CASE Wizard
    <3>0. ASSUME read' = None, UNCHANGED <<job, source>> PROVE Sources'
      BY <3>0 DEF Sources
    <3>1. ASSUME NEW r \in Reading, ParseCriteria(r) PROVE Sources'
      BY <3>1 DEF ParseCriteria, wizard, Sources
    <3>2. CASE StartManual
      BY <3>0, <3>2 DEF StartManual
    <3>3. CASE BackToStep1
      BY <3>3 DEF BackToStep1, ghost, Sources
    <3>4. CASE CreateAnother
      BY <3>4 DEF CreateAnother, ghost, Sources
    <3>5. CASE Submit
      <4>1. ASSUME read # None PROVE Carries(Description, read)
        <5>1. /\ criteria \in Seq(Criterion) /\ Describes(read)
              /\ criteria = Criteria_from_parse(read)
              /\ facts.min_yoe = read.min_yoe /\ facts.location = read.location
          BY <4>1, InputAssumption DEF Sources, Settings
        <5> QED
          BY <5>1, DescriptionCarries
      <4>2. /\ job' = [jd |-> Description, weights |-> weights, t |-> Sent(cut)]
            /\ source' = read /\ read' = None
        BY <3>5 DEF Submit
      <4>3. job'.jd = Description
        BY <4>2
      <4>4. read # None => read \in Reading
        BY DEF Sources
      <4>5. Describes(Description)
        <5>1. IsJob([jd |-> Description, weights |-> weights, t |-> Sent(cut)])
          BY <3>5, SubmitMakesJob DEF Submit
        <5> HIDE DEF Description
        <5> QED
          BY <5>1 DEF IsJob
      <4> QED
        BY <4>1, <4>2, <4>3, <4>4, <4>5 DEF Sources
    <3>6. ASSUME NEW c, EditCriteria(c) PROVE Sources'
      BY <3>0, <3>6 DEF EditCriteria
    <3>7. ASSUME NEW f, SetFacts(f) PROVE Sources'
      BY <3>0, <3>7 DEF SetFacts
    <3>8. ASSUME NEW w, EditWeights(w) PROVE Sources'
      BY <2>0, <3>8 DEF EditWeights
    <3>9. ASSUME NEW i \in DOMAIN criteria,
                 \/ \E t \in Edited : SetCriterionText(i, t)
                 \/ \E l \in Level : SetCriterionLevel(i, l)
                 \/ RemoveCriterion(i)
          PROVE  Sources'
      BY <3>6, <3>9 DEF SetCriterionText, SetCriterionLevel, RemoveCriterion
    <3>10. CASE AddCriterion
      BY <3>6, <3>10 DEF AddCriterion
    <3>11. CASE NormalizeWeights
      BY <3>8, <3>11 DEF NormalizeWeights
    <3>12. ASSUME NEW k, NEW v, SetWeight(k, v) \/ SetThreshold(k, v) PROVE Sources'
      BY <2>0, <3>8, <3>12 DEF SetWeight, SetThreshold
    <3> QED
      BY <2>2, <3>1, <3>2, <3>3, <3>4, <3>5, <3>7, <3>9, <3>10, <3>11, <3>12 DEF Wizard
  <2>3. ASSUME NEW j \in ApiJob, CreateJob(j) PROVE Sources'
    BY <2>3 DEF CreateJob, wizard, Sources
  <2>4. ASSUME NEW e, Records(e) PROVE Sources'
    BY <2>0, <2>4 DEF Records, wizard
  <2>5. ASSUME NEW r \in Resume, EvaluateFails(r) \/ \E up \in BOOLEAN : Evaluate(r, up)
        PROVE  Sources'
    BY <2>5, <2>4 DEF EvaluateFails, Evaluate
  <2>6. CASE LoadStats
    BY <2>0, <2>6 DEF LoadStats, wizard
  <2>7. CASE RecalibrateThresholds
    <3>1. job # None /\ job' = [job EXCEPT !.t = Sent(draft)] /\ IsJob(job)
      BY <2>7 DEF RecalibrateThresholds, Settings
    <3>2. job'.jd = job.jd
      BY <3>1 DEF IsJob
    <3> QED
      BY <2>7, <3>2 DEF RecalibrateThresholds, wizard, ghost, Sources
  <2>8. ASSUME NEW v \in Cutoff, SetDraftFit(v) \/ SetDraftMaybe(v) PROVE Sources'
    BY <2>0, <2>8 DEF SetDraftFit, SetDraftMaybe, Slides, wizard
  <2> QED
    BY <2>1, <2>2, <2>3, <2>5, <2>6, <2>7, <2>8 DEF Next
<1> QED
  BY <1>1, <1>2, SettingsHold, PTL DEF Spec

(* A filter looks up the must-haves in lower case only.                    *)
LEMMA FiltersLookAtLowered ==
  ASSUME NEW r, NEW jd, NEW other, NEW t,
         jd.must_haves \in Seq(Text), other.must_haves \in Seq(Text),
         jd.min_yoe = other.min_yoe, jd.location = other.location,
         Lowered(jd.must_haves) = Lowered(other.must_haves)
  PROVE  Apply_filters(r, jd, t) <=> Apply_filters(r, other, t)
<1>1. ASSUME NEW s \in Seq(Text)
      PROVE  (\A m \in ToSet(s) : \E k \in r.skills : Overlaps(Lower[m], Lower[k])) <=>
             (\A y \in Lowered(s) : \E k \in r.skills : Overlaps(y, Lower[k]))
  BY DEF Lowered
<1> QED
  BY <1>1 DEF Apply_filters

(* Whatever the LLM read, a job made of it unchanged eliminates exactly    *)
(* the resumes the reading would, and lists everything it lists, however   *)
(* often the recruiter went back, slid weights or made other jobs between, *)
(* for any texts: duplicates, other cases, must-haves listed nowhere else. *)
THEOREM ReadingSurvives == Spec => []CriteriaSurvive
<1>1. Settings /\ Sources => CriteriaSurvive
  <2> SUFFICES ASSUME Settings, Sources, source # None
               PROVE  /\ \A r \in Resume, strict \in BOOLEAN :
                           LET t == [Sent(DefaultThresholds) EXCEPT !.location_strict = strict] IN
                           Apply_filters(r, job.jd, t) <=> Apply_filters(r, source, t)
                      /\ Lowered(job.jd.required_skills \o job.jd.preferred_skills) =
                           Lowered(source.required_skills \o source.preferred_skills
                                   \o source.must_haves)
    BY DEF CriteriaSurvive
  <2>1. Carries(job.jd, source) /\ Describes(source)
    BY InputAssumption DEF Sources
  <2>2. job.jd.must_haves \in Seq(Text) /\ source.must_haves \in Seq(Text)
    BY <2>1 DEF Describes, Sources
  <2>3. \A r, t : Apply_filters(r, job.jd, t) <=> Apply_filters(r, source, t)
    BY <2>1, <2>2, FiltersLookAtLowered DEF Carries
  <2> QED
    BY <2>1, <2>3 DEF Carries
<1> QED
  BY <1>1, SettingsHold, SourcesHold, PTL

-----------------------------------------------------------------------------
CutoffSet == [fit : Int, maybe : Int, min_yoe : Int \cup {None}, location_strict : BOOLEAN]

Evaluation ==
  [resume : Resume, t : CutoffSet, judgeUp : BOOLEAN, filtered : BOOLEAN, score : Int, verdict : Verdict]
    \cup [resume : Resume, verdict : {None}]

Judged(e, jd, w) ==
  LET j == Judge(e.resume, jd, w, e.t, e.judgeUp) IN e.score = j.score /\ e.verdict = j.verdict

(* Every score and verdict of a job is one its present description and     *)
(* weights give: only the cutoffs may have changed since.                  *)
Evaluated ==
  /\ evals \in Seq(Evaluation)
  /\ \A i \in DOMAIN evals :
       evals[i].verdict # None =>
         IsJob(job) /\ Total(job.weights) > 0 /\ Judged(evals[i], job.jd, job.weights)

LEMMA ScoreType ==
  ASSUME NEW w, IsWeights(w), Total(w) > 0,
         NEW s, \A k \in Signal : s[k] \in Int
  PROVE  Aggregate_score(s, w) \in Int
<1>1. ASSUME NEW k \in Signal PROVE Weighted(s, w, k) \in Int
  <2>1. w[k] \in Int
    BY DEF IsWeights, Signal
  <2>2. Clamp(s[k]) \in Int
    BY DEF Clamp, Greater, Lesser
  <2>3. \A x, y \in Int : x * y \in Int
    OBVIOUS
  <2> QED
    BY <2>1, <2>2, <2>3 DEF Weighted
<1> DEFINE n == Weighted(s, w, "skill_overlap") + Weighted(s, w, "cosine") + Weighted(s, w, "judge")
           d == Total(w)
<1>2. n \in Int
  BY <1>1 DEF Signal
<1>3. d \in Nat \ {0}
  BY DEF Total, IsWeights
<1>4. Aggregate_score(s, w) = Rounded(100 * n, d)
  BY DEF Aggregate_score
<1> HIDE DEF n, d
<1>5. 2 * (100 * n) + d \in Int /\ 2 * d \in Nat \ {0}
  BY <1>2, <1>3
<1>6. \A a \in Int, b \in Nat \ {0} : a \div b \in Int
  BY DivMonotone
<1> QED
  BY <1>4, <1>5, <1>6 DEF Rounded

LEMMA JudgeType ==
  ASSUME NEW r \in Resume, NEW jd, Describes(jd), NEW w, IsWeights(w), Total(w) > 0,
         NEW t, NEW up \in BOOLEAN
  PROVE  Judge(r, jd, w, t, up) \in [filtered : BOOLEAN, score : Int, verdict : Verdict]
<1> DEFINE s == Signals(r, jd, up)
           score == Aggregate_score(s, w)
<1>1. Compute_skill_overlap(r, jd) \in Nat
  BY OverlapMonotone DEF Describes
<1>2. r.cosine \in Int /\ r.judge \in Int
  BY InputAssumption
<1>3. \A k \in Signal : s[k] \in Int
  BY <1>1, <1>2 DEF Signals, Signal
<1> HIDE DEF s
<1>4. score \in Int
  BY <1>3, ScoreType
<1>5. Apply_thresholds(score, t) \in Verdict /\ "Reject" \in Verdict
  BY DEF Apply_thresholds, Verdict
<1>6. Judge(r, jd, w, t, up) =
        IF Apply_filters(r, jd, t)
        THEN [filtered |-> FALSE, score |-> score, verdict |-> Apply_thresholds(score, t)]
        ELSE [filtered |-> TRUE, score |-> 0, verdict |-> "Reject"]
  BY DEF Judge, s
<1> HIDE DEF score
<1> QED
  BY <1>4, <1>5, <1>6

(* One more evaluation, of the job as it is.                               *)
LEMMA RecordsKeeps ==
  ASSUME Evaluated, NEW e \in Evaluation, Records(e),
         e.verdict # None =>
           IsJob(job) /\ Total(job.weights) > 0 /\ Judged(e, job.jd, job.weights)
  PROVE  Evaluated'
<1>1. evals \in Seq(Evaluation) /\ evals' = Append(evals, e) /\ UNCHANGED job
  BY DEF Evaluated, Records
<1>2. evals' \in Seq(Evaluation)
  BY <1>1
<1>3. ASSUME NEW i \in DOMAIN evals', evals'[i].verdict # None
      PROVE  IsJob(job) /\ Total(job.weights) > 0 /\ Judged(evals'[i], job.jd, job.weights)
  <2>1. (i \in DOMAIN evals /\ evals'[i] = evals[i]) \/ evals'[i] = e
    BY <1>1
  <2> QED
    BY <1>3, <2>1 DEF Evaluated
<1> QED
  BY <1>1, <1>2, <1>3 DEF Evaluated

LEMMA EvaluatedHold == Spec => []Evaluated
<1>1. Init => Evaluated
  BY DEF Init, Evaluated
<1>2. Settings /\ Evaluated /\ [Next]_vars => Evaluated'
  <2> SUFFICES ASSUME Settings, Evaluated, [Next]_vars PROVE Evaluated'
    OBVIOUS
  <2>0. ASSUME UNCHANGED <<job, evals>> PROVE Evaluated'
    BY <2>0 DEF Evaluated
  <2>t. ASSUME evals' = <<>> PROVE Evaluated'
    BY <2>t DEF Evaluated
  <2>1. CASE UNCHANGED vars
    BY <2>0, <2>1 DEF vars
  <2>2. CASE Wizard
    <3>1. ASSUME NEW r, ParseCriteria(r) PROVE Evaluated'
      BY <2>0, <3>1 DEF ParseCriteria
    <3>2. CASE StartManual \/ BackToStep1 \/ CreateAnother
      BY <2>0, <3>2 DEF StartManual, BackToStep1, CreateAnother
    <3>3. CASE Submit
      BY <2>t, <3>3 DEF Submit
    <3>4. ASSUME NEW c, EditCriteria(c) PROVE Evaluated'
      BY <2>0, <3>4 DEF EditCriteria
    <3>5. ASSUME NEW f, SetFacts(f) PROVE Evaluated'
      BY <2>0, <3>5 DEF SetFacts
    <3>6. ASSUME NEW w, EditWeights(w) PROVE Evaluated'
      BY <2>0, <3>6 DEF EditWeights
    <3>7. ASSUME NEW i \in DOMAIN criteria,
                 \/ \E t \in Edited : SetCriterionText(i, t)
                 \/ \E l \in Level : SetCriterionLevel(i, l)
                 \/ RemoveCriterion(i)
          PROVE  Evaluated'
      BY <3>4, <3>7 DEF SetCriterionText, SetCriterionLevel, RemoveCriterion
    <3>8. CASE AddCriterion \/ NormalizeWeights
      BY <3>4, <3>6, <3>8 DEF AddCriterion, NormalizeWeights
    <3>9. ASSUME NEW k, NEW v, SetWeight(k, v) \/ SetThreshold(k, v) PROVE Evaluated'
      BY <2>0, <3>6, <3>9 DEF SetWeight, SetThreshold
    <3> QED
      BY <2>2, <3>1, <3>2, <3>3, <3>5, <3>7, <3>8, <3>9 DEF Wizard
  <2>3. ASSUME NEW j \in ApiJob, CreateJob(j) PROVE Evaluated'
    BY <2>t, <2>3 DEF CreateJob
  <2>4. ASSUME NEW r \in Resume, EvaluateFails(r) PROVE Evaluated'
    <3>1. [resume |-> r, verdict |-> None] \in Evaluation
      BY DEF Evaluation
    <3> QED
      BY <2>4, <3>1, RecordsKeeps DEF EvaluateFails
  <2>5. ASSUME NEW r \in Resume, NEW up \in BOOLEAN, Evaluate(r, up) PROVE Evaluated'
    <3> DEFINE j == Judge(r, job.jd, job.weights, job.t, up)
               e == [resume |-> r, t |-> job.t, judgeUp |-> up,
                     filtered |-> j.filtered, score |-> j.score, verdict |-> j.verdict]
    <3>1. job # None /\ Total(job.weights) # 0 /\ Records(e)
      BY <2>5 DEF Evaluate
    <3>2. IsJob(job)
      BY <3>1 DEF Settings
    <3>3. Describes(job.jd) /\ IsWeights(job.weights) /\ IsCutoffs(job.t) /\ Total(job.weights) >= 0
      BY <3>2 DEF IsJob
    <3>4. Total(job.weights) > 0
      <4>1. Total(job.weights) \in Int
        BY <3>3 DEF Total, IsWeights
      <4> QED
        BY <3>1, <3>3, <4>1
    <3>5. j \in [filtered : BOOLEAN, score : Int, verdict : Verdict]
      BY <3>3, <3>4, JudgeType
    <3>6. job.t \in CutoffSet
      BY <3>3 DEF IsCutoffs, CutoffSet
    <3>7. Judged(e, job.jd, job.weights)
      BY DEF Judged
    <3> HIDE DEF j
    <3>8. e \in Evaluation
      BY <3>5, <3>6 DEF Evaluation
    <3> HIDE DEF e
    <3> QED
      BY <3>1, <3>2, <3>4, <3>7, <3>8, RecordsKeeps
  <2>6. CASE LoadStats
    BY <2>0, <2>6 DEF LoadStats
  <2>7. CASE RecalibrateThresholds
    <3>1. /\ job # None /\ job' = [job EXCEPT !.t = Sent(draft)] /\ IsJob(job)
          /\ UNCHANGED evals
      BY <2>7 DEF RecalibrateThresholds, Settings
    <3>2. job'.jd = job.jd /\ job'.weights = job.weights
      BY <3>1 DEF IsJob
    <3>3. IsCutoffs(Sent(draft))
      BY DEF IsCutoffs, Sent, Settings
    <3>4. IsJob(job')
      BY <3>1, <3>3 DEF IsJob
    <3> QED
      BY <3>1, <3>2, <3>4 DEF Evaluated
  <2>8. ASSUME NEW v, SetDraftFit(v) \/ SetDraftMaybe(v) PROVE Evaluated'
    BY <2>0, <2>8 DEF SetDraftFit, SetDraftMaybe, Slides
  <2> QED
    BY <2>1, <2>2, <2>3, <2>4, <2>5, <2>6, <2>7, <2>8 DEF Next
<1> QED
  BY <1>1, <1>2, SettingsHold, PTL DEF Spec

(* The scores are those of the evaluations that have a verdict.            *)
LEMMA ScoredAre ==
  ASSUME Evaluated
  PROVE  /\ Scored \in Seq(Evaluation)
         /\ Len(Scored) = Cardinality({i \in DOMAIN evals : evals[i].verdict # None})
         /\ \A k \in DOMAIN Scored :
              /\ Scored[k].resume \in Resume /\ Scored[k].t \in CutoffSet
              /\ Scored[k].judgeUp \in BOOLEAN
              /\ Scored[k].score \in Int /\ Scored[k].verdict \in Verdict
              /\ IsJob(job) /\ Total(job.weights) > 0
              /\ Judged(Scored[k], job.jd, job.weights)
         /\ Scores \in Seq(Int) /\ Len(Scores) = Len(Scored)
         /\ \A k \in DOMAIN Scored : Scores[k] = Scored[k].score
<1> DEFINE S == {i \in DOMAIN evals : evals[i].verdict # None}
<1>1. evals \in Seq(Evaluation)
  BY DEF Evaluated
<1>2. S \in SUBSET DOMAIN evals /\ \A i \in S : evals[i].verdict # None
  OBVIOUS
<1>3. Scored = Kept(evals, S)
  BY DEF Scored
<1> HIDE DEF S
<1>4. /\ Scored \in Seq(Evaluation) /\ Len(Scored) = Cardinality(S)
      /\ \A k \in DOMAIN Scored : \E i \in S : Scored[k] = evals[i]
  BY <1>1, <1>2, <1>3, KeptInOrder, KeptValues
<1>5. ASSUME NEW k \in DOMAIN Scored
      PROVE  /\ Scored[k].resume \in Resume /\ Scored[k].t \in CutoffSet
             /\ Scored[k].judgeUp \in BOOLEAN
             /\ Scored[k].score \in Int /\ Scored[k].verdict \in Verdict
             /\ IsJob(job) /\ Total(job.weights) > 0
             /\ Judged(Scored[k], job.jd, job.weights)
  <2>1. PICK i \in S : Scored[k] = evals[i]
    BY <1>4
  <2>2. i \in DOMAIN evals /\ evals[i].verdict # None
    BY <1>2
  <2>3. evals[i] \in Evaluation
    BY <1>1, <2>2
  <2>4. evals[i] \in [resume : Resume, t : CutoffSet, judgeUp : BOOLEAN, filtered : BOOLEAN,
                     score : Int, verdict : Verdict]
    BY <2>2, <2>3 DEF Evaluation
  <2>5. IsJob(job) /\ Total(job.weights) > 0 /\ Judged(evals[i], job.jd, job.weights)
    BY <2>2 DEF Evaluated
  <2> QED
    BY <2>1, <2>4, <2>5
<1>6. Scores = [k \in DOMAIN Scored |-> Scored[k].score]
  BY DEF Scores
<1> HIDE DEF Scores, Scored
<1>7. Scores \in Seq(Int) /\ Len(Scores) = Len(Scored)
      /\ \A k \in DOMAIN Scored : Scores[k] = Scored[k].score
  BY <1>4, <1>5, <1>6
<1> QED
  BY <1>4, <1>5, <1>7 DEF S

LEMMA CountType ==
  ASSUME NEW scores \in Seq(Int), NEW S \in SUBSET DOMAIN scores
  PROVE  IsFiniteSet(S) /\ Cardinality(S) \in 0 .. Len(scores)
<1> DEFINE n == Len(scores)
<1>1. n \in Nat /\ S \subseteq 1 .. n
  OBVIOUS
<1> HIDE DEF n
<1>2. IsFiniteSet(1 .. n) /\ Cardinality(1 .. n) = n
  BY <1>1, FS_Interval
<1>3. IsFiniteSet(S) /\ Cardinality(S) \in Nat /\ Cardinality(S) <= Cardinality(1 .. n)
  BY <1>1, <1>2, FS_Subset, FS_CardinalityType
<1> QED
  BY <1>1, <1>2, <1>3 DEF n

LEMMA RoundedMonotone ==
  ASSUME NEW a \in Int, NEW b \in Int, NEW n \in Nat \ {0}, a <= b
  PROVE  Rounded(a, n) \in Int /\ Rounded(b, n) \in Int /\ Rounded(a, n) <= Rounded(b, n)
<1>1. 2 * a + n \in Int /\ 2 * b + n \in Int /\ 2 * n \in Nat \ {0} /\ 2 * a + n <= 2 * b + n
  OBVIOUS
<1> QED
  BY <1>1, DivMonotone DEF Rounded

(* A higher score has no worse a rank and no lower a percentile.           *)
LEMMA PlaceMonotone ==
  ASSUME NEW scores \in Seq(Int), NEW low \in Int, NEW high \in Int, low <= high
  PROVE  /\ Rank(high, scores) <= Rank(low, scores)
         /\ Percentile_of(low, scores) # None /\ scores # <<>> =>
              Percentile_of(high, scores) >= Percentile_of(low, scores)
<1>1. \A x : Above(x, scores) \in SUBSET DOMAIN scores /\ Below(x, scores) \in SUBSET DOMAIN scores
  BY DEF Above, Below
<1>2. \A S \in SUBSET DOMAIN scores : IsFiniteSet(S) /\ Cardinality(S) \in Nat
  BY CountType
<1>3. Above(high, scores) \subseteq Above(low, scores) /\ Below(low, scores) \subseteq Below(high, scores)
  <2>1. \A i \in DOMAIN scores : scores[i] \in Int
    OBVIOUS
  <2> QED
    BY <2>1 DEF Above, Below
<1>4. /\ Cardinality(Above(high, scores)) <= Cardinality(Above(low, scores))
      /\ Cardinality(Below(low, scores)) <= Cardinality(Below(high, scores))
  BY <1>1, <1>2, <1>3, FS_Subset
<1>5. Rank(high, scores) <= Rank(low, scores)
  BY <1>1, <1>2, <1>4 DEF Rank
<1>6. ASSUME Percentile_of(low, scores) # None, scores # <<>>
      PROVE  Percentile_of(high, scores) >= Percentile_of(low, scores)
  <2> DEFINE n == Len(scores)
             a == Cardinality(Below(low, scores))
             b == Cardinality(Below(high, scores))
  <2>1. n \in Nat \ {0} /\ 1000 * a \in Int /\ 1000 * b \in Int /\ 1000 * a <= 1000 * b
    BY <1>1, <1>2, <1>4, <1>6
  <2>2. /\ Percentile_of(low, scores) = Rounded(1000 * a, n)
        /\ Percentile_of(high, scores) = Rounded(1000 * b, n)
    BY <1>6 DEF Percentile_of
  <2> HIDE DEF n, a, b
  <2> QED
    BY <2>1, <2>2, RoundedMonotone
<1> QED
  BY <1>5, <1>6

(* In every state of a job, wherever its cutoffs were moved in between, no *)
(* candidate is judged, ranked or placed below one evaluated under the     *)
(* same cutoffs and judge who has nothing he lacks.                        *)
THEOREM MeritIsNeverOutranked == Spec => []MeritDecides
<1>1. Evaluated => MeritDecides
  <2> SUFFICES ASSUME Evaluated, NEW a \in ToSet(Scored), NEW b \in ToSet(Scored),
                      AtLeast(a.resume, b.resume), a.t = b.t, a.judgeUp = b.judgeUp,
                      \A k \in Signal : job.weights[k] >= 0
               PROVE  /\ a.score >= b.score /\ Better[a.verdict] >= Better[b.verdict]
                      /\ Rank(a.score, Scores) <= Rank(b.score, Scores)
                      /\ Percentile_of(b.score, Scores) # None =>
                           Percentile_of(a.score, Scores) >= Percentile_of(b.score, Scores)
    BY DEF MeritDecides
  <2>1. PICK i \in DOMAIN Scored, j \in DOMAIN Scored : a = Scored[i] /\ b = Scored[j]
    BY DEF ToSet
  <2>2. /\ a.resume \in Resume /\ b.resume \in Resume /\ a.t \in CutoffSet /\ a.judgeUp \in BOOLEAN
        /\ a.score \in Int /\ b.score \in Int
        /\ IsJob(job) /\ Total(job.weights) > 0
        /\ Judged(a, job.jd, job.weights) /\ Judged(b, job.jd, job.weights)
    BY <2>1, ScoredAre
  <2>3. Scores \in Seq(Int) /\ Scores # <<>>
    <3>1. Scored \in Seq(Evaluation) /\ Scores \in Seq(Int) /\ Len(Scores) = Len(Scored)
      BY ScoredAre
    <3> HIDE DEF Scored, Scores
    <3> QED
      BY <2>1, <3>1
  <2>4. job.weights \in Weights
    BY <2>2 DEF IsJob, IsWeights, Weights, Signal
  <2>5. Describes(job.jd)
    BY <2>2 DEF IsJob
  <2> DEFINE Of(r) == Judge(r, job.jd, job.weights, a.t, a.judgeUp)
  <2>6. Of(b.resume).score <= Of(a.resume).score /\ Better[Of(b.resume).verdict] <= Better[Of(a.resume).verdict]
    <3>1. /\ a.resume.yoe \in Int /\ b.resume.yoe \in Int
          /\ a.resume.cosine \in Int /\ b.resume.cosine \in Int
          /\ a.resume.judge \in Int /\ b.resume.judge \in Int
      BY <2>2, InputAssumption
    <3>2. a.t.min_yoe \in Int \cup {None} /\ a.t.fit \in Int /\ a.t.maybe \in Int
      BY <2>2 DEF CutoffSet
    <3> QED
      BY <2>2, <2>4, <2>5, <3>1, <3>2, MeritIsRewarded DEF Describes
  <2>7. /\ a.score = Of(a.resume).score /\ a.verdict = Of(a.resume).verdict
        /\ b.score = Of(b.resume).score /\ b.verdict = Of(b.resume).verdict
    BY <2>2 DEF Judged
  <2> HIDE DEF Of
  <2>8. b.score <= a.score /\ Better[b.verdict] <= Better[a.verdict]
    BY <2>6, <2>7
  <2>9. b.score <= a.score /\ a.score >= b.score /\ Better[a.verdict] >= Better[b.verdict]
    BY <2>2, <2>8
  <2> QED
    BY <2>2, <2>3, <2>9, PlaceMonotone
<1> QED
  BY <1>1, EvaluatedHold, PTL

-----------------------------------------------------------------------------
(* Two sets of positions without a common one.                             *)
LEMMA CountDisjoint ==
  ASSUME NEW n \in Nat, NEW S \in SUBSET (1 .. n), NEW T \in SUBSET (1 .. n), S \cap T = {}
  PROVE  /\ Cardinality(S) \in Nat /\ Cardinality(T) \in Nat
         /\ Cardinality(S \cup T) = Cardinality(S) + Cardinality(T)
<1>1. IsFiniteSet(S) /\ Cardinality(S) \in Nat /\ IsFiniteSet(T) /\ Cardinality(T) \in Nat
  BY PlacesAreCounted
<1>2. Cardinality(S \cup T) = Cardinality(S) + Cardinality(T) - Cardinality({})
  BY <1>1, FS_Union
<1> QED
  BY <1>1, <1>2, FS_EmptySet

(* The least of finitely many numbers.                                     *)
LEMMA LeastOf ==
  ASSUME NEW n \in Nat, NEW S, S # {}, NEW f, \A i \in S : f[i] \in 1 .. n
  PROVE  \E i \in S : \A j \in S : f[i] <= f[j]
<1> DEFINE Q == {f[i] : i \in S}
<1>1. Q \in SUBSET (1 .. n) /\ Q # {}
  OBVIOUS
<1> HIDE DEF Q
<1>2. PICK m \in Q : \A k \in Q : m <= k
  BY <1>1, FirstPosition
<1> QED
  BY <1>2 DEF Q

(* How many scores are below one, and above it.                            *)
LEMMA CountsOrdered ==
  ASSUME NEW scores \in Seq(Int), NEW i \in DOMAIN scores, NEW x \in Int
  PROVE  /\ Cardinality(Below(x, scores)) \in 0 .. Len(scores)
         /\ Cardinality(Above(x, scores)) \in 0 .. Len(scores)
         /\ scores[i] < x => Cardinality(Below(scores[i], scores)) < Cardinality(Below(x, scores))
<1> DEFINE y == scores[i]
           B == Below(x, scores)
           A == Below(y, scores)
<1>1. B \in SUBSET DOMAIN scores /\ A \in SUBSET DOMAIN scores /\ Above(x, scores) \in SUBSET DOMAIN scores
  BY DEF Above, Below
<1>2. \A j \in DOMAIN scores : scores[j] \in Int
  OBVIOUS
<1>3. y < x => A \in SUBSET B /\ i \in B /\ i \notin A
  BY <1>2 DEF Below
<1>4. Len(scores) \in Nat
  OBVIOUS
<1> HIDE DEF A, B
<1>5. /\ IsFiniteSet(B) /\ Cardinality(B) \in 0 .. Len(scores) /\ Cardinality(A) \in 0 .. Len(scores)
      /\ Cardinality(Above(x, scores)) \in 0 .. Len(scores)
  BY <1>1, CountType
<1>6. y < x => Cardinality(A) <= Cardinality(B) /\ Cardinality(A) # Cardinality(B)
  BY <1>3, <1>5, FS_Subset
<1>7. y < x => Cardinality(A) < Cardinality(B)
  BY <1>4, <1>5, <1>6
<1> QED
  BY <1>5, <1>7 DEF A, B

(* Some of the positions hold the least score.                             *)
LEMMA LeastScore ==
  ASSUME NEW scores \in Seq(Int), NEW S \in SUBSET DOMAIN scores, S # {}
  PROVE  \E i \in S : \A j \in S : scores[i] <= scores[j]
<1> DEFINE f == [i \in S |-> 1 + Cardinality(Below(scores[i], scores))]
           n == 1 + Len(scores)
<1>1. n \in Nat /\ \A i \in S : f[i] \in 1 .. n
  <2>1. \A i \in S : scores[i] \in Int /\ i \in DOMAIN scores
    OBVIOUS
  <2>2. \A i \in S : Cardinality(Below(scores[i], scores)) \in 0 .. Len(scores)
    BY <2>1, CountsOrdered
  <2>3. Len(scores) \in Nat
    OBVIOUS
  <2> QED
    BY <2>2, <2>3
<1>2. PICK i \in S : \A j \in S : f[i] <= f[j]
  <2> HIDE DEF f, n
  <2> QED
    BY <1>1, LeastOf
<1>3. ASSUME NEW j \in S PROVE scores[i] <= scores[j]
  <2>1. scores[i] \in Int /\ scores[j] \in Int
    OBVIOUS
  <2>2. scores[j] < scores[i] =>
          Cardinality(Below(scores[j], scores)) < Cardinality(Below(scores[i], scores))
    BY <2>1, CountsOrdered
  <2>3. /\ Cardinality(Below(scores[j], scores)) \in 0 .. Len(scores)
        /\ Cardinality(Below(scores[i], scores)) \in 0 .. Len(scores)
        /\ 1 + Cardinality(Below(scores[i], scores)) <= 1 + Cardinality(Below(scores[j], scores))
    BY <1>2, <2>1, CountsOrdered
  <2>4. ~ (scores[j] < scores[i])
    BY <2>2, <2>3
  <2> QED
    BY <2>1, <2>4
<1> QED
  BY <1>3

(* Every rank has a score.                                                 *)
LEMMA NthExists ==
  ASSUME NEW scores \in Seq(Int), NEW k \in DOMAIN scores
  PROVE  \E x \in ToSet(scores) : IsNth(x, k, scores)
<1> DEFINE n == Len(scores)
           B(i) == Cardinality(Below(scores[i], scores))
           C == {i \in DOMAIN scores : B(i) < k}
<1>1. /\ n \in Nat /\ k \in 1 .. n /\ DOMAIN scores = 1 .. n
      /\ \A i \in DOMAIN scores : scores[i] \in Int
  OBVIOUS
<1>2. \A i \in DOMAIN scores : B(i) \in 0 .. n
  BY <1>1, CountsOrdered
<1>3. PICK i0 \in DOMAIN scores : \A j \in DOMAIN scores : scores[i0] <= scores[j]
  BY <1>1, LeastScore
<1>4. C # {}
  <2>1. Below(scores[i0], scores) = {}
    BY <1>1, <1>3 DEF Below
  <2>2. B(i0) = 0
    BY <2>1, FS_EmptySet
  <2> QED
    BY <1>1, <2>2
<1>5. PICK i \in C : \A j \in C : B(j) <= B(i)
  <2> DEFINE f == [i \in C |-> k - B(i)]
  <2>1. \A i \in C : f[i] \in 1 .. n
    BY <1>1, <1>2
  <2>2. PICK i \in C : \A j \in C : f[i] <= f[j]
    <3> HIDE DEF f, n, C
    <3> QED
      BY <1>1, <1>4, <2>1, LeastOf
  <2>3. ASSUME NEW j \in C PROVE B(j) <= B(i)
    <3>1. k - B(i) <= k - B(j)
      BY <2>2
    <3> QED
      BY <1>1, <1>2, <3>1
  <2> QED
    BY <2>3
<1> DEFINE x == scores[i]
           High == Above(x, scores)
<1>6. i \in DOMAIN scores /\ x \in Int /\ B(i) < k
  BY <1>1
<1>7. High \in SUBSET DOMAIN scores
  BY DEF Above
<1>8. Cardinality(High) \in 0 .. n
  BY <1>6, CountsOrdered
<1>9. k <= n - Cardinality(High)
  <2>1. CASE High = {}
    BY <1>1, <2>1, FS_EmptySet
  <2>2. CASE High # {}
    <3>1. PICK j \in High : \A l \in High : scores[j] <= scores[l]
      <4> HIDE DEF High
      <4> QED
        BY <1>7, <2>2, LeastScore
    <3>2. j \in DOMAIN scores /\ x < scores[j] /\ scores[j] \in Int
      BY <1>1, <1>6 DEF Above
    <3>3. Below(scores[j], scores) = (1 .. n) \ High
      <4>1. ASSUME NEW l \in 1 .. n PROVE scores[l] < scores[j] <=> ~ (scores[l] > x)
        <5>1. scores[l] \in Int
          BY <1>1
        <5>2. scores[l] > x => scores[j] <= scores[l]
          BY <1>1, <3>1 DEF Above
        <5> QED
          BY <1>6, <3>2, <5>1, <5>2
      <4> QED
        BY <1>1, <4>1 DEF Above, Below
    <3>4. IsFiniteSet(1 .. n) /\ Cardinality(1 .. n) = n
      <4> HIDE DEF n
      <4> QED
        BY <1>1, FS_Interval
    <3>5. B(j) = n - Cardinality(High)
      <4>1. (1 .. n) \cap High = High
        BY <1>1, <1>7
      <4> HIDE DEF High
      <4> QED
        BY <3>3, <3>4, <4>1, FS_Difference
    <3>6. B(i) < B(j)
      BY <1>6, <3>2, CountsOrdered
    <3>7. ~ (B(j) < k)
      <4>1. B(j) < k => B(j) <= B(i)
        BY <1>5, <3>2
      <4> QED
        BY <1>2, <1>6, <3>2, <3>6, <4>1
    <3> HIDE DEF B, n, High
    <3> QED
      BY <1>1, <1>2, <1>8, <3>2, <3>5, <3>7
  <2> QED
    BY <2>1, <2>2
<1> QED
  BY <1>6, <1>9 DEF IsNth, ToSet

(* sorted(scores) is the scores in order, and ends with the highest.       *)
LEMMA AscendingIs ==
  ASSUME NEW scores \in Seq(Int)
  PROVE  LET s == Ascending(scores) IN
         /\ s \in Seq(Int) /\ Len(s) = Len(scores)
         /\ \A k \in DOMAIN s : s[k] \in ToSet(scores)
         /\ \A k, l \in DOMAIN s : k <= l => s[k] <= s[l]
         /\ scores # <<>> => Rank(s[Len(s)], scores) = 1
<1> DEFINE s == Ascending(scores)
           n == Len(scores)
<1>1. n \in Nat /\ DOMAIN scores = 1 .. n /\ \A x \in ToSet(scores) : x \in Int
  BY DEF ToSet
<1>2. \A k \in 1 .. n : s[k] \in ToSet(scores) /\ IsNth(s[k], k, scores)
  BY <1>1, NthExists DEF Ascending
<1>3. s \in Seq(Int) /\ Len(s) = n /\ DOMAIN s = 1 .. n
  <2>1. s = [k \in 1 .. n |-> s[k]]
    BY <1>1 DEF Ascending
  <2> HIDE DEF s, n
  <2> QED
    BY <1>1, <1>2, <2>1
<1> HIDE DEF s
<1>4. \A x \in ToSet(scores) : /\ Cardinality(Below(x, scores)) \in 0 .. n
                              /\ Cardinality(Above(x, scores)) \in 0 .. n
  <2>1. \A x \in ToSet(scores) : \E i \in DOMAIN scores : x = scores[i]
    BY DEF ToSet
  <2> QED
    BY <1>1, <2>1, CountsOrdered
<1>5. ASSUME NEW k \in 1 .. n, NEW l \in 1 .. n, k <= l PROVE s[k] <= s[l]
  <2> DEFINE x == s[k]
             y == s[l]
             B == Below(x, scores)
             A == Above(y, scores)
  <2>1. x \in Int /\ y \in Int /\ Cardinality(B) \in 0 .. n /\ Cardinality(A) \in 0 .. n
        /\ Cardinality(B) < k /\ l <= n - Cardinality(A)
    BY <1>1, <1>2, <1>4 DEF IsNth
  <2>2. B \in SUBSET (1 .. n) /\ A \in SUBSET (1 .. n)
    BY <1>1 DEF Above, Below
  <2>3. ASSUME y < x PROVE FALSE
    <3>1. (1 .. n) \subseteq B \cup A
      <4>1. \A i \in 1 .. n : scores[i] \in Int
        BY <1>1
      <4>2. \A i \in 1 .. n : scores[i] < x \/ scores[i] > y
        BY <2>1, <2>3, <4>1
      <4> QED
        BY <1>1, <4>2 DEF Above, Below
    <3>2. IsFiniteSet(1 .. n) /\ Cardinality(1 .. n) = n
      <4> HIDE DEF n
      <4> QED
        BY <1>1, FS_Interval
    <3> HIDE DEF B, A, n
    <3>3. IsFiniteSet(B) /\ IsFiniteSet(A)
      BY <2>2, <3>2, FS_Subset
    <3>4. IsFiniteSet(B \cup A) /\ Cardinality(B \cup A) = Cardinality(B) + Cardinality(A) - Cardinality(B \cap A)
      BY <3>3, FS_Union
    <3>5. Cardinality(B \cap A) \in Nat
      BY <3>3, FS_Intersection, FS_CardinalityType
    <3>6. n <= Cardinality(B \cup A)
      BY <3>1, <3>2, <3>4, FS_Subset
    <3> QED
      BY <1>1, <1>5, <2>1, <3>4, <3>5, <3>6
  <2> QED
    BY <2>1, <2>3
<1>6. ASSUME scores # <<>> PROVE Rank(s[n], scores) = 1
  <2>1. n \in 1 .. n
    BY <1>1, <1>6
  <2>2. n <= n - Cardinality(Above(s[n], scores)) /\ Cardinality(Above(s[n], scores)) \in 0 .. n
    BY <1>2, <1>4, <2>1 DEF IsNth
  <2>3. Cardinality(Above(s[n], scores)) = 0
    BY <1>1, <2>2
  <2> QED
    BY <2>3 DEF Rank
<1> QED
  BY <1>2, <1>3, <1>5, <1>6 DEF s

-----------------------------------------------------------------------------
(* A point r hundredths of the way between two numbers.                    *)
Between(lo, hi, r) == lo + Rounded((hi - lo) * r, 100)

LEMMA BetweenIs ==
  ASSUME NEW lo \in Int, NEW hi \in Int, lo <= hi, NEW r \in 0 .. 100
  PROVE  /\ Between(lo, hi, r) \in Int
         /\ lo <= Between(lo, hi, r) /\ Between(lo, hi, r) <= hi
         /\ Between(lo, hi, 0) = lo
         /\ \A q \in 0 .. r : Between(lo, hi, q) <= Between(lo, hi, r)
<1> DEFINE d == hi - lo
           R(q) == Rounded(d * q, 100)
<1>1. d \in Nat /\ hi = lo + d
  OBVIOUS
<1> HIDE DEF d
<1>2. ASSUME NEW p \in 0 .. 100, NEW q \in 0 .. 100, p <= q
      PROVE  R(p) \in Int /\ R(q) \in Int /\ R(p) <= R(q)
  <2> DEFINE x == d * p
             y == d * q
  <2>1. p \in Int /\ q \in Int /\ x \in Int /\ y \in Int
    BY <1>1
  <2>2. x <= y
    BY <1>1, <1>2, <2>1, ProductMonotone
  <2> HIDE DEF x, y
  <2>3. 100 \in Nat \ {0}
    OBVIOUS
  <2>4. Rounded(x, 100) \in Int /\ Rounded(y, 100) \in Int /\ Rounded(x, 100) <= Rounded(y, 100)
    BY <2>1, <2>2, <2>3, RoundedMonotone
  <2> QED
    BY <2>4 DEF x, y
<1>3. R(0) = 0 /\ R(100) = d
  BY <1>1 DEF Rounded
<1>4. \A q : Between(lo, hi, q) = lo + R(q)
  BY DEF Between, d
<1> HIDE DEF R
<1>5. /\ R(r) \in Int /\ R(0) <= R(r) /\ R(r) <= R(100)
      /\ \A q \in 0 .. r : R(q) \in Int /\ R(q) <= R(r)
  <2>1. 0 \in 0 .. 100 /\ 100 \in 0 .. 100 /\ 0 <= r /\ r <= 100
    OBVIOUS
  <2>2. \A q \in 0 .. r : q \in 0 .. 100 /\ q <= r
    OBVIOUS
  <2> QED
    BY <1>2, <2>1, <2>2
<1> QED
  BY <1>1, <1>3, <1>4, <1>5

(* Interpolation between the items of a sequence in order is in order, and *)
(* reaches the last one at its place.                                      *)
LEMMA InterpolationMonotone ==
  ASSUME NEW s \in Seq(Int), s # <<>>, \A k, l \in DOMAIN s : k <= l => s[k] <= s[l],
         NEW a \in Nat, NEW b \in Nat, a <= b, b <= 100 * (Len(s) - 1)
  PROVE  LET At(pos) == s[1 + pos \div 100]
                          + Rounded((s[1 + (pos + 99) \div 100] - s[1 + pos \div 100]) * (pos % 100), 100)
         IN  At(a) <= At(b) /\ At(100 * (Len(s) - 1)) = s[Len(s)]
<1> DEFINE n == Len(s)
           lo(pos) == 1 + pos \div 100
           hi(pos) == 1 + (pos + 99) \div 100
           At(pos) == s[lo(pos)] + Rounded((s[hi(pos)] - s[lo(pos)]) * (pos % 100), 100)
<1>1. n \in Nat \ {0} /\ DOMAIN s = 1 .. n /\ \A k \in 1 .. n : s[k] \in Int
  OBVIOUS
<1>2. ASSUME NEW pos \in Nat, pos <= 100 * (n - 1)
      PROVE  /\ lo(pos) \in 1 .. n /\ hi(pos) \in 1 .. n /\ lo(pos) <= hi(pos)
             /\ hi(pos) <= lo(pos) + 1 /\ (pos % 100) \in 0 .. 99
             /\ pos = 100 * (lo(pos) - 1) + (pos % 100)
             /\ pos % 100 # 0 => hi(pos) = lo(pos) + 1
  <2> HIDE DEF n
  <2> QED
    BY <1>1, <1>2
<1> HIDE DEF n
<1>3. \A pos : At(pos) = Between(s[lo(pos)], s[hi(pos)], pos % 100)
  BY DEF Between
<1>4. ASSUME NEW pos \in Nat, pos <= 100 * (n - 1)
      PROVE  /\ s[lo(pos)] \in Int /\ s[hi(pos)] \in Int /\ s[lo(pos)] <= s[hi(pos)]
             /\ At(pos) \in Int /\ s[lo(pos)] <= At(pos) /\ At(pos) <= s[hi(pos)]
             /\ pos % 100 = 0 => At(pos) = s[lo(pos)]
  <2>1. /\ lo(pos) \in 1 .. n /\ hi(pos) \in 1 .. n /\ lo(pos) <= hi(pos)
        /\ (pos % 100) \in 0 .. 100
    BY <1>1, <1>2, <1>4
  <2> HIDE DEF lo, hi, At
  <2>2. s[lo(pos)] \in Int /\ s[hi(pos)] \in Int /\ s[lo(pos)] <= s[hi(pos)]
    BY <1>1, <2>1
  <2> QED
    BY <1>3, <2>1, <2>2, BetweenIs
<1>5. At(a) <= At(b)
  <2>1. a <= 100 * (n - 1) /\ b <= 100 * (n - 1)
    BY <1>1 DEF n
  <2>2. /\ lo(a) \in 1 .. n /\ hi(a) \in 1 .. n /\ lo(b) \in 1 .. n
        /\ hi(a) <= lo(a) + 1 /\ (a % 100) \in 0 .. 99 /\ (b % 100) \in 0 .. 99
        /\ a = 100 * (lo(a) - 1) + (a % 100) /\ b = 100 * (lo(b) - 1) + (b % 100)
        /\ a % 100 # 0 => hi(a) = lo(a) + 1
        /\ b % 100 # 0 => hi(b) = lo(b) + 1
    BY <1>2, <2>1
  <2>3. /\ s[lo(a)] \in Int /\ s[hi(a)] \in Int /\ s[lo(b)] \in Int /\ s[hi(b)] \in Int
        /\ s[lo(b)] <= s[hi(b)] /\ At(a) \in Int /\ At(b) \in Int
        /\ At(a) <= s[hi(a)] /\ s[lo(b)] <= At(b)
        /\ a % 100 = 0 => At(a) = s[lo(a)]
    BY <1>4, <2>1
  <2> DEFINE ra == a % 100
             rb == b % 100
  <2> HIDE DEF lo, hi, At, ra, rb
  <2>7. ra \in 0 .. 99 /\ rb \in 0 .. 99 /\ a = 100 * (lo(a) - 1) + ra /\ b = 100 * (lo(b) - 1) + rb
    BY <2>2 DEF ra, rb
  <2>8. lo(a) <= lo(b) /\ (lo(a) = lo(b) => ra <= rb)
    <3>1. \A x, y \in Int : \A u, v \in 0 .. 99 :
            100 * (x - 1) + u <= 100 * (y - 1) + v => x <= y /\ (x = y => u <= v)
      OBVIOUS
    <3>2. lo(a) \in Int /\ lo(b) \in Int
      BY <2>2
    <3>3. ra \in 0 .. 99 /\ rb \in 0 .. 99
      BY <2>7
    <3>4. 100 * (lo(a) - 1) + ra <= 100 * (lo(b) - 1) + rb
      BY <2>7
    <3> DEFINE x == lo(a)
               y == lo(b)
    <3> HIDE DEF x, y
    <3>5. x \in Int /\ y \in Int /\ 100 * (x - 1) + ra <= 100 * (y - 1) + rb
      BY <3>2, <3>4 DEF x, y
    <3>6. x <= y /\ (x = y => ra <= rb)
      BY <3>1, <3>3, <3>5
    <3> QED
      BY <3>6 DEF x, y
  <2>4. CASE lo(a) < lo(b)
    <3>1. hi(a) <= lo(b)
      BY <2>2, <2>4
    <3>2. s[hi(a)] <= s[lo(b)]
      BY <1>1, <2>2, <3>1
    <3> QED
      BY <2>3, <3>2
  <2>5. CASE lo(a) = lo(b) /\ a % 100 = 0
    BY <2>3, <2>5
  <2>6. CASE lo(a) = lo(b) /\ a % 100 # 0
    <3>1. a % 100 <= b % 100 /\ b % 100 # 0
      BY <2>2, <2>6, <2>7, <2>8 DEF ra, rb
    <3>2. hi(a) = hi(b) /\ lo(a) = lo(b)
      BY <2>2, <2>6, <3>1
    <3>3. (b % 100) \in 0 .. 100 /\ (a % 100) \in 0 .. (b % 100)
      BY <2>2, <3>1
    <3>4. Between(s[lo(b)], s[hi(b)], a % 100) <= Between(s[lo(b)], s[hi(b)], b % 100)
      BY <2>3, <3>3, BetweenIs
    <3> QED
      BY <1>3, <3>2, <3>4
  <2> QED
    BY <2>2, <2>4, <2>5, <2>6, <2>8
<1>6. At(100 * (n - 1)) = s[n]
  <2> DEFINE e == 100 * (n - 1)
  <2>1. e \in Nat /\ e <= 100 * (n - 1) /\ e % 100 = 0 /\ lo(e) = n
    BY <1>1
  <2> HIDE DEF e, lo, At
  <2>2. At(e) = s[lo(e)]
    BY <1>4, <2>1
  <2> QED
    BY <2>1, <2>2 DEF e
<1> QED
  BY <1>5, <1>6 DEF n

-----------------------------------------------------------------------------
(* The buckets of the histogram up to one, and with it.                    *)
LEMMA BucketsAddUp ==
  ASSUME NEW scores \in Seq(Int), \A s \in ToSet(scores) : s > -1000
  PROVE  LET h == Build_histogram(scores) IN
         Len(scores) = h[0] + h[1] + h[2] + h[3] + h[4] + h[5] + h[6] + h[7] + h[8] + h[9]
<1> DEFINE n == Len(scores)
           h == Build_histogram(scores)
           In(b)   == {i \in 1 .. n : Bucket(scores[i]) = b}
           UpTo(b) == {i \in 1 .. n : Bucket(scores[i]) < b}
<1>1. n \in Nat /\ DOMAIN scores = 1 .. n /\ \A i \in 1 .. n : scores[i] \in Int
  OBVIOUS
<1>2. \A i \in 1 .. n : Bucket(scores[i]) \in 0 .. 9
  <2> SUFFICES ASSUME NEW x \in Int, x > -1000 PROVE Bucket(x) \in 0 .. 9
    BY <1>1 DEF ToSet
  <2> DEFINE q == x \div 1000
             m == (-x) \div 1000
  <2>1. q \in Int /\ (x >= 0 => q >= 0) /\ (x < 0 => m = 0)
    OBVIOUS
  <2>2. 3000 \div 1000 = 3 /\ 6000 \div 1000 = 6 /\ 7000 \div 1000 = 7
    OBVIOUS
  <2>3. x \in {3000, 6000, 7000} => q \in {3, 6, 7}
    BY <2>2
  <2>4. Bucket(x) = IF x < 0 THEN -m
                    ELSE IF x \in {3000, 6000, 7000} THEN q - 1
                    ELSE IF q < 9 THEN q ELSE 9
    BY DEF Bucket, Lesser
  <2> HIDE DEF q, m
  <2> QED
    BY <2>1, <2>3, <2>4
<1>3. \A b \in 0 .. 9 : h[b] = Cardinality(In(b))
  BY <1>1 DEF Build_histogram
<1> HIDE DEF n, h
<1>4. ASSUME NEW b \in 0 .. 9
      PROVE  /\ h[b] \in Nat /\ Cardinality(UpTo(b)) \in Nat
             /\ Cardinality(UpTo(b + 1)) = Cardinality(UpTo(b)) + h[b]
  <2>1. UpTo(b + 1) = UpTo(b) \cup In(b) /\ UpTo(b) \cap In(b) = {}
    <3>1. \A i \in 1 .. n : Bucket(scores[i]) < b + 1 <=> Bucket(scores[i]) < b \/ Bucket(scores[i]) = b
      BY <1>2
    <3>2. \A i \in 1 .. n : ~ (Bucket(scores[i]) < b /\ Bucket(scores[i]) = b)
      BY <1>2
    <3> QED
      BY <3>1, <3>2
  <2>2. UpTo(b) \in SUBSET (1 .. n) /\ In(b) \in SUBSET (1 .. n)
    OBVIOUS
  <2> DEFINE S == UpTo(b)
             T == In(b)
  <2>3. S \in SUBSET (1 .. n) /\ T \in SUBSET (1 .. n) /\ S \cap T = {} /\ UpTo(b + 1) = S \cup T
    BY <2>1, <2>2
  <2>4. h[b] = Cardinality(T)
    BY <1>3
  <2> HIDE DEF S, T, UpTo, In
  <2>5. /\ Cardinality(S) \in Nat /\ Cardinality(T) \in Nat
        /\ Cardinality(S \cup T) = Cardinality(S) + Cardinality(T)
    <3>1. n \in Nat /\ S \in SUBSET (1 .. n) /\ T \in SUBSET (1 .. n) /\ S \cap T = {}
      BY <1>1, <2>3
    <3> QED
      BY <3>1, CountDisjoint
  <2>6. Cardinality(UpTo(b + 1)) = Cardinality(S \cup T)
    BY <2>3
  <2> QED
    BY <2>4, <2>5, <2>6 DEF S
<1>5. UpTo(0) = {} /\ UpTo(10) = 1 .. n
  <2>1. \A i \in 1 .. n : ~ (Bucket(scores[i]) < 0) /\ Bucket(scores[i]) < 10
    BY <1>2
  <2> QED
    BY <2>1
<1>6. Cardinality(UpTo(0)) = 0 /\ Cardinality(UpTo(10)) = n
  <2>1. Cardinality(1 .. n) = n
    BY <1>1, FS_Interval
  <2> HIDE DEF UpTo
  <2> QED
    BY <1>5, <2>1, FS_EmptySet
<1> DEFINE c(b) == Cardinality(UpTo(b))
<1> HIDE DEF UpTo
<1>7. \A b \in 0 .. 9 : h[b] \in Nat /\ c(b) \in Nat /\ c(b + 1) = c(b) + h[b]
  BY <1>4
<1>8. c(0) = 0 /\ c(10) = n
  BY <1>6
<1> HIDE DEF c
<1>9. /\ c(1) = c(0) + h[0] /\ c(2) = c(1) + h[1] /\ c(3) = c(2) + h[2] /\ c(4) = c(3) + h[3]
      /\ c(5) = c(4) + h[4] /\ c(6) = c(5) + h[5] /\ c(7) = c(6) + h[6] /\ c(8) = c(7) + h[7]
      /\ c(9) = c(8) + h[8] /\ c(10) = c(9) + h[9]
  BY <1>7
<1>10. /\ h[0] \in Nat /\ h[1] \in Nat /\ h[2] \in Nat /\ h[3] \in Nat /\ h[4] \in Nat
       /\ h[5] \in Nat /\ h[6] \in Nat /\ h[7] \in Nat /\ h[8] \in Nat /\ h[9] \in Nat
  BY <1>7
<1>11. c(1) = h[0]
  BY <1>8, <1>9, <1>10
<1>12. c(2) = h[0] + h[1]
  BY <1>11, <1>9, <1>10
<1>13. c(3) = h[0] + h[1] + h[2]
  BY <1>12, <1>9, <1>10
<1>14. c(4) = h[0] + h[1] + h[2] + h[3]
  BY <1>13, <1>9, <1>10
<1>15. c(5) = h[0] + h[1] + h[2] + h[3] + h[4]
  BY <1>14, <1>9, <1>10
<1>16. c(6) = h[0] + h[1] + h[2] + h[3] + h[4] + h[5]
  BY <1>15, <1>9, <1>10
<1>17. c(7) = h[0] + h[1] + h[2] + h[3] + h[4] + h[5] + h[6]
  BY <1>16, <1>9, <1>10
<1>18. c(8) = h[0] + h[1] + h[2] + h[3] + h[4] + h[5] + h[6] + h[7]
  BY <1>17, <1>9, <1>10
<1>19. c(9) = h[0] + h[1] + h[2] + h[3] + h[4] + h[5] + h[6] + h[7] + h[8]
  BY <1>18, <1>9, <1>10
<1>20. c(10) = h[0] + h[1] + h[2] + h[3] + h[4] + h[5] + h[6] + h[7] + h[8] + h[9]
  BY <1>19, <1>9, <1>10
<1> QED
  BY <1>8, <1>20 DEF n, h

(* Who has a score has one of the three verdicts.                          *)
LEMMA VerdictsAddUp ==
  ASSUME Evaluated
  PROVE  LET counts == Verdict_counts IN
         Len(Scores) = counts["Fit"] + counts["Maybe"] + counts["Reject"]
<1> DEFINE n == Len(evals)
           With(v) == {i \in DOMAIN evals : evals[i].verdict = v}
           F == With("Fit")
           M == With("Maybe")
           R == With("Reject")
           All == {i \in DOMAIN evals : evals[i].verdict # None}
<1>1. Len(Scores) = Cardinality(All)
  BY ScoredAre
<1>2. /\ n \in Nat /\ DOMAIN evals = 1 .. n
      /\ \A i \in DOMAIN evals : evals[i].verdict \in Verdict \/ evals[i].verdict = None
  BY DEF Evaluated, Evaluation
<1>3. /\ F \in SUBSET (1 .. n) /\ M \in SUBSET (1 .. n) /\ R \in SUBSET (1 .. n)
      /\ F \cap M = {} /\ (F \cup M) \cap R = {}
  BY <1>2
<1>4. All = (F \cup M) \cup R
  BY <1>2, NoneAssumption DEF Verdict
<1>5. Verdict_counts["Fit"] = Cardinality(F) /\ Verdict_counts["Maybe"] = Cardinality(M)
      /\ Verdict_counts["Reject"] = Cardinality(R)
  BY DEF Verdict_counts, Verdict
<1> HIDE DEF All, F, M, R, n
<1>6. Cardinality(F \cup M) = Cardinality(F) + Cardinality(M)
      /\ Cardinality((F \cup M) \cup R) = Cardinality(F \cup M) + Cardinality(R)
  BY <1>2, <1>3, CountDisjoint
<1> QED
  BY <1>1, <1>4, <1>5, <1>6

LEMMA PercentilesOrdered ==
  ASSUME NEW scores \in Seq(Int), scores # <<>>, NEW p \in 0 .. 100, NEW q \in 0 .. 100, p <= q
  PROVE  /\ Percentile(scores, p) <= Percentile(scores, q)
         /\ Percentile(scores, 100) = Ascending(scores)[Len(scores)]
<1> DEFINE s == Ascending(scores)
           n == Len(scores)
           At(pos) == s[1 + pos \div 100]
                        + Rounded((s[1 + (pos + 99) \div 100] - s[1 + pos \div 100]) * (pos % 100), 100)
<1>1. /\ s \in Seq(Int) /\ Len(s) = n /\ \A k, l \in DOMAIN s : k <= l => s[k] <= s[l]
  BY AscendingIs
<1>2. n \in Nat \ {0}
  OBVIOUS
<1>3. \A x : Percentile(scores, x) = At((n - 1) * x)
  BY <1>1 DEF Percentile
<1> HIDE DEF s, n
<1>4. s # <<>>
  BY <1>1, <1>2
<1> DEFINE m == n - 1
<1>5. m \in Nat
  BY <1>2
<1>6. ASSUME NEW a \in Nat, NEW b \in Nat, a <= b, b <= 100 * m
      PROVE  At(a) <= At(b) /\ At(100 * m) = s[n]
  <2>1. m = Len(s) - 1 /\ n = Len(s)
    BY <1>1
  <2>2. b <= 100 * (Len(s) - 1)
    BY <1>6, <2>1
  <2>3. At(a) <= At(b) /\ At(100 * (Len(s) - 1)) = s[Len(s)]
    BY <1>1, <1>4, <1>6, <2>2, InterpolationMonotone
  <2> HIDE DEF At, m
  <2> QED
    BY <2>1, <2>3
<1>7. Percentile(scores, p) <= Percentile(scores, q)
  <2> DEFINE a == m * p
             b == m * q
             e == m * 100
  <2>1. p \in Int /\ q \in Int /\ 0 \in Int /\ 100 \in Int /\ 0 <= p /\ q <= 100
    OBVIOUS
  <2> HIDE DEF m
  <2>2. a <= b /\ b <= e /\ m * 0 <= a
    BY <1>5, <2>1, ProductMonotone
  <2>3. a \in Int /\ b \in Int /\ m * 0 = 0 /\ e = 100 * m
    BY <1>5, <2>1
  <2>4. Percentile(scores, p) = At(a) /\ Percentile(scores, q) = At(b)
    BY <1>3 DEF m
  <2> HIDE DEF a, b, e, At
  <2>5. a \in Nat /\ b \in Nat /\ a <= b /\ b <= 100 * m
    BY <2>2, <2>3
  <2> QED
    BY <1>6, <2>4, <2>5
<1>8. Percentile(scores, 100) = s[n]
  <2>1. (n - 1) * 100 = 100 * m
    BY <1>2
  <2>2. Percentile(scores, 100) = At(100 * m)
    BY <1>3, <2>1
  <2> HIDE DEF m, At
  <2>3. 0 \in Nat /\ 0 <= 100 * m
    BY <1>5
  <2> QED
    BY <1>6, <2>2, <2>3
<1> QED
  BY <1>7, <1>8 DEF s, n

LEMMA SuggestionOrdered ==
  ASSUME NEW scores \in Seq(Int)
  PROVE  Suggest_thresholds(scores).maybe <= Suggest_thresholds(scores).fit
<1>1. CASE Len(scores) < MinSuggest
  BY <1>1 DEF Suggest_thresholds, DefaultThresholds
<1>2. CASE ~ (Len(scores) < MinSuggest)
  <2> DEFINE s == Ascending(scores)
             n == Len(s)
             low  == 1 + (3 * n) \div 10
             high == 1 + ((7 * n) \div 10 - IF n \in Short THEN 1 ELSE 0)
  <2>1. /\ s \in Seq(Int) /\ n = Len(scores) /\ \A k, l \in DOMAIN s : k <= l => s[k] <= s[l]
    BY AscendingIs
  <2>2. /\ Suggest_thresholds(scores).fit = Rounded(s[high], 100)
        /\ Suggest_thresholds(scores).maybe = Rounded(s[low], 100)
    BY <1>2 DEF Suggest_thresholds
  <2> HIDE DEF s
  <2>3. n \in Nat \ {0} /\ DOMAIN s = 1 .. n
    BY <1>2, <2>1, CohortAssumption
  <2> HIDE DEF n
  <2>4. low \in 1 .. n /\ high \in 1 .. n /\ low <= high
    <3>1. CASE n \in Short
      <4>1. n % 10 = 0
        BY <3>1, ShortAssumption
      <4> QED
        BY <2>3, <3>1, <4>1
    <3>2. CASE n \notin Short
      BY <2>3, <3>2
    <3> QED
      BY <3>1, <3>2
  <2> HIDE DEF low, high
  <2>5. s[low] \in Int /\ s[high] \in Int /\ s[low] <= s[high] /\ 100 \in Nat \ {0}
    BY <2>1, <2>3, <2>4
  <2> DEFINE x == s[low]
             y == s[high]
  <2>6. x \in Int /\ y \in Int /\ x <= y /\ 100 \in Nat \ {0}
    BY <2>5
  <2>7. /\ Suggest_thresholds(scores).fit = Rounded(y, 100)
        /\ Suggest_thresholds(scores).maybe = Rounded(x, 100)
    BY <2>2
  <2> HIDE DEF x, y
  <2>8. Rounded(x, 100) <= Rounded(y, 100)
    BY <2>6, RoundedMonotone
  <2> QED
    BY <2>7, <2>8
<1> QED
  BY <1>1, <1>2

(* Whatever was evaluated, the histogram and the verdicts count every      *)
(* score once, the percentiles are in order and end at the first rank, the *)
(* suggested cutoffs are in order, and page and CSV agree.                 *)
THEOREM StatisticsAddUp == Spec => []StatisticsAgree
<1>1. Evaluated => StatisticsAgree
  <2> SUFFICES ASSUME Evaluated PROVE StatisticsAgree
    OBVIOUS
  <2> DEFINE scores == Scores
             p(n) == Percentile(scores, n)
  <2>1. scores \in Seq(Int)
    BY ScoredAre
  <2>2. LET h == Build_histogram(scores) IN
        (\A s \in ToSet(scores) : s > -1000) =>
        Len(scores) = h[0] + h[1] + h[2] + h[3] + h[4] + h[5] + h[6] + h[7] + h[8] + h[9]
    <3> HIDE DEF scores
    <3> QED
      BY <2>1, BucketsAddUp
  <2>3. LET counts == Verdict_counts IN
        Len(scores) = counts["Fit"] + counts["Maybe"] + counts["Reject"]
    BY VerdictsAddUp
  <2>4. ASSUME scores # <<>>
        PROVE  /\ p(0) <= p(25) /\ p(25) <= p(50) /\ p(50) <= p(75)
               /\ p(75) <= p(90) /\ p(90) <= p(100)
               /\ \E s \in ToSet(scores) : Rank(s, scores) = 1 /\ s = p(100)
    <3> HIDE DEF scores
    <3>1. \A a, b \in 0 .. 100 : a <= b => p(a) <= p(b) /\ p(100) = Ascending(scores)[Len(scores)]
      BY <2>1, <2>4, PercentilesOrdered
    <3>2. /\ Len(Ascending(scores)) = Len(scores) /\ Ascending(scores) \in Seq(Int)
          /\ \A k \in DOMAIN Ascending(scores) : Ascending(scores)[k] \in ToSet(scores)
          /\ Rank(Ascending(scores)[Len(Ascending(scores))], scores) = 1
      BY <2>1, <2>4, AscendingIs
    <3>3. Len(scores) \in DOMAIN Ascending(scores)
      BY <2>1, <2>4, <3>2
    <3> DEFINE top == Ascending(scores)[Len(scores)]
    <3>4. top \in ToSet(scores) /\ Rank(top, scores) = 1
      BY <3>2, <3>3
    <3> HIDE DEF top, p
    <3>5. p(100) = top
      BY <3>1 DEF top
    <3> QED
      BY <3>1, <3>4, <3>5
  <2>5. Suggest_thresholds(scores).maybe <= Suggest_thresholds(scores).fit
    <3> HIDE DEF scores
    <3> QED
      BY <2>1, SuggestionOrdered
  <2>6. \A r \in Resume : Latest(r) # None => Row(r) = CsvCell(r)
    BY DEF Row, CsvCell
  <2> QED
    BY <2>2, <2>3, <2>4, <2>5, <2>6 DEF StatisticsAgree
<1> QED
  BY <1>1, EvaluatedHold, PTL
=============================================================================
