------------------------- MODULE VerdictCacheProofs -------------------------
(* What holds of VerdictCache for any candidates, resumes and settings. *)
EXTENDS VerdictCache, TLAPS

(* A horse has a text from the lookup on, and a parse from the judge on.   *)
Resolved ==
  \A w \in Worker :
    /\ horse[w].pc \in {"lookup", "parse", "judge", "cache"} => horse[w].text \in Resume
    /\ horse[w].pc \in {"judge", "cache"} => horse[w].parsed \in Resume

LEMMA AlwaysResolved == TypeOK => Resolved
BY NoneAssumption DEF TypeOK, Resolved, Horses, Loaded, Idle

LEMMA InitTyped == Init => TypeOK
<1> SUFFICES ASSUME Init PROVE TypeOK
  OBVIOUS
<1>1. verdict \in [Cand -> Basis \cup {None}]
  BY DEF Init
<1>2. /\ horse \in [Worker -> Horses]
      /\ upload \in [Upload -> Uploading]
      /\ url \in [Cand -> {"none", "link", "disk"}]
  BY DEF Init, Horses, Uploading
<1>3. cache \in [Resume \X Config -> Basis \cup {None}]
  BY DEF Init
<1> QED
  BY <1>1, <1>2, <1>3 DEF Init, TypeOK, Maybe

LEMMA NextTyped == TypeOK /\ [Next]_vars => TypeOK'
<1> SUFFICES ASSUME TypeOK, [Next]_vars PROVE TypeOK'
  OBVIOUS
<1> USE NoneAssumption DEF TypeOK, Maybe, Horses, Loaded, Idle, On, Move, End, rows, given, Arrives
<1>1. CASE UNCHANGED vars
  BY <1>1 DEF vars
<1>2. ASSUME NEW c \in Cand, Requeue(c) PROVE TypeOK'
  BY <1>2 DEF Requeue
<1>3. ASSUME NEW c \in Cand, Override(c) PROVE TypeOK'
  <2>1. verdict[c] \in Basis
    BY <1>3 DEF Override
  <2>2. verdict' \in [Cand -> Basis \cup {None}]
    BY <1>3, <2>1 DEF Override, Basis
  <2> QED
    BY <1>3, <2>2 DEF Override
<1>4. ASSUME NEW c \in Cand, DeleteEvaluation(c) PROVE TypeOK'
  BY <1>4 DEF DeleteEvaluation
<1>5. ASSUME NEW u \in Upload, NEW c \in Cand, NEW v \in Resume, UploadRead(u, c, v)
      PROVE  TypeOK'
  BY <1>5 DEF UploadRead, Uploading
<1>6. ASSUME NEW u \in Upload, UploadSave(u) PROVE TypeOK'
  <2>1. /\ upload[u] \in [cand : Cand, seen : Maybe, file : Maybe]
        /\ upload[u].file \in Resume
    BY <1>6 DEF UploadSave, Uploading, NoUpload
  <2> QED
    BY <1>6, <2>1 DEF UploadSave, Uploading
<1>7. ASSUME NEW u \in Upload, UploadCommit(u) PROVE TypeOK'
  <2>1. upload[u] \in [cand : Cand, seen : Maybe, file : Maybe]
    BY <1>7 DEF UploadCommit, Uploading
  <2> QED
    BY <1>7, <2>1 DEF UploadCommit, Uploading
<1>8. ASSUME NEW w \in Worker, NEW c \in Cand, Load(w, c) PROVE TypeOK'
  <2>0. text[c] \in Maybe /\ parsed[c] \in Maybe /\ url[c] \in {"none", "link", "disk"}
    OBVIOUS
  <2> DEFINE pc == CASE text[c] # None -> "lookup"
                     [] text[c] = None /\ url[c] = "link" -> "fetch"
                     [] OTHER -> "extract"
             h == [pc |-> pc, cand |-> c, url |-> url[c], text |-> text[c],
                   parsed |-> parsed[c], config |-> config]
  <2>1. horse' = [horse EXCEPT ![w] = h] /\ h \in Horses
    <3>1. horse' = [horse EXCEPT ![w] = h]
      BY <1>8 DEF Load
    <3>2. CASE text[c] = None
      <4>1. pc \in {"fetch", "extract"}
        BY <3>2, Zenon
      <4> HIDE DEF pc
      <4>2. h \in Loaded({"fetch", "extract"}, {None}, Maybe)
        BY <2>0, <3>2, <4>1
      <4> QED
        BY <3>1, <4>2
    <3>3. CASE text[c] # None
      <4>1. pc = "lookup"
        BY <3>3, Zenon
      <4> HIDE DEF pc
      <4>2. h \in Loaded({"lookup", "parse"}, Resume, Maybe)
        BY <2>0, <3>3, <4>1
      <4> QED
        BY <3>1, <4>2
    <3> QED
      BY <3>1, <3>2, <3>3
  <2> HIDE DEF h
  <2>2. horse' \in [Worker -> Horses]
    BY <2>1
  <2>3. entries' \in [Cand -> Nat] /\ clashed' \in SUBSET Cand
    BY <1>8 DEF Load
  <2> QED
    BY <1>8, <2>2, <2>3 DEF Load
<1>9. ASSUME NEW k \in Config, UpdateJob(k) PROVE TypeOK'
  BY <1>9 DEF UpdateJob
<1>10. ASSUME NEW w \in Worker, Fetch(w) PROVE TypeOK'
  <2>1. horse[w] \in Loaded({"fetch", "extract"}, {None}, Maybe)
    BY <1>10 DEF Fetch
  <2>2. /\ horse' = [horse EXCEPT ![w] = [horse[w] EXCEPT !.pc = "extract"]]
        /\ [horse[w] EXCEPT !.pc = "extract"] \in Loaded({"fetch", "extract"}, {None}, Maybe)
    BY <1>10, <2>1 DEF Fetch
  <2>3. horse' \in [Worker -> Horses]
    BY <2>2
  <2>4. disk' \in [Cand -> Maybe]
    BY <1>10 DEF Fetch
  <2> QED
    BY <1>10, <2>3, <2>4 DEF Fetch
<1>11. ASSUME NEW w \in Worker, Extract(w) PROVE TypeOK'
  <2>1. /\ horse[w] \in Loaded({"fetch", "extract"}, {None}, Maybe)
        /\ disk[horse[w].cand] \in Resume
    BY <1>11 DEF Extract
  <2> DEFINE h == [horse[w] EXCEPT !.text = disk[horse[w].cand], !.pc = "lookup"]
  <2>2. horse' = [horse EXCEPT ![w] = h] /\ h \in Loaded({"lookup", "parse"}, Resume, Maybe)
    BY <1>11, <2>1 DEF Extract
  <2> HIDE DEF h
  <2>3. horse' \in [Worker -> Horses]
    BY <2>2
  <2>4. text' \in [Cand -> Maybe]
    BY <1>11, <2>1 DEF Extract
  <2> QED
    BY <1>11, <2>3, <2>4 DEF Extract
<1>12. ASSUME NEW w \in Worker, Hit(w) PROVE TypeOK'
  <2>1. horse[w].cand \in Cand /\ cache[Key(w)] \in Basis
    BY <1>12 DEF Hit, Key
  <2> QED
    BY <1>12, <2>1 DEF Hit, Report
<1>13. ASSUME NEW w \in Worker, Miss(w) PROVE TypeOK'
  <2>1. horse' \in [Worker -> Horses]
    BY <1>13 DEF Miss
  <2> QED
    BY <1>13, <2>1 DEF Miss
<1>14. ASSUME NEW w \in Worker, Parse(w) PROVE TypeOK'
  <2> DEFINE p == IF horse[w].parsed # None THEN horse[w].parsed ELSE horse[w].text
  <2>1. p \in Resume /\ horse[w].cand \in Cand
    BY <1>14 DEF Parse
  <2>2. /\ horse' = [horse EXCEPT ![w].parsed = p, ![w].pc = "judge"]
        /\ parsed' = parsed \/ parsed' = [parsed EXCEPT ![horse[w].cand] = p]
    BY <1>14 DEF Parse
  <2> HIDE DEF p
  <2>3. horse' \in [Worker -> Horses]
    BY <1>14, <2>1, <2>2 DEF Parse
  <2>4. parsed' \in [Cand -> Maybe]
    BY <2>1, <2>2
  <2> QED
    BY <1>14, <2>3, <2>4 DEF Parse
<1>15. ASSUME NEW w \in Worker, Judge(w) PROVE TypeOK'
  <2>1. horse[w].cand \in Cand /\ Result(w) \in Basis
    BY <1>15 DEF Judge, Result, Basis
  <2> QED
    BY <1>15, <2>1 DEF Judge, Report
<1>16. ASSUME NEW w \in Worker, CacheVerdict(w) PROVE TypeOK'
  <2>1. Result(w) \in Basis
    BY <1>16 DEF CacheVerdict, Result, Basis
  <2> QED
    BY <1>16, <2>1 DEF CacheVerdict
<1>17. ASSUME NEW w \in Worker, Fail(w) PROVE TypeOK'
  BY <1>17 DEF Fail, Report
<1>18. ASSUME NEW k \in Resume \X Config, Expire(k) PROVE TypeOK'
  BY <1>18 DEF Expire
<1> QED
  BY <1>1, <1>2, <1>3, <1>4, <1>5, <1>6, <1>7, <1>8, <1>9, <1>10, <1>11, <1>12, <1>13,
     <1>14, <1>15, <1>16, <1>17, <1>18 DEF Next

(* Every reachable state is well typed.                                    *)
THEOREM CacheTypeCorrect == Spec => []TypeOK
<1> QED
  BY InitTyped, NextTyped, PTL DEF Spec

-----------------------------------------------------------------------------
(* Only CacheVerdict adds to the cache, and what it adds is keyed by what  *)
(* the horse worked with.                                                  *)
LEMMA CacheGrows ==
  ASSUME TypeOK, [Next]_vars
  PROVE  \/ \A k \in Resume \X Config : cache'[k] \in {cache[k], None}
         \/ \E w \in Worker : /\ horse[w].pc = "cache"
                             /\ Key(w) \in Resume \X Config
                             /\ cache' = [cache EXCEPT ![Key(w)] = Result(w)]
<1> DEFINE Kept == \A k \in Resume \X Config : cache'[k] \in {cache[k], None}
<1>1. CASE UNCHANGED cache
  BY <1>1
<1>2. ASSUME NEW c \in Cand,
             \/ Requeue(c) \/ Override(c) \/ DeleteEvaluation(c)
             \/ \E u \in Upload, v \in Resume : UploadRead(u, c, v)
             \/ \E w \in Worker : Load(w, c)
      PROVE  UNCHANGED cache
  BY <1>2 DEF Requeue, Override, DeleteEvaluation, UploadRead, Load
<1>3. ASSUME NEW u \in Upload, UploadSave(u) \/ UploadCommit(u) PROVE UNCHANGED cache
  BY <1>3 DEF UploadSave, UploadCommit
<1>4. ASSUME NEW k \in Config, UpdateJob(k) PROVE UNCHANGED cache
  BY <1>4 DEF UpdateJob
<1>5. ASSUME NEW w \in Worker,
             Fetch(w) \/ Extract(w) \/ Hit(w) \/ Miss(w) \/ Parse(w) \/ Judge(w) \/ Fail(w)
      PROVE  UNCHANGED cache
  BY <1>5 DEF Fetch, Extract, Hit, Miss, Parse, Judge, Fail
<1>6. ASSUME NEW k \in Resume \X Config, Expire(k) PROVE Kept
  BY <1>6 DEF Expire, TypeOK
<1>7. ASSUME NEW w \in Worker, CacheVerdict(w)
      PROVE  \/ UNCHANGED cache
             \/ /\ horse[w].pc = "cache" /\ Key(w) \in Resume \X Config
                /\ cache' = [cache EXCEPT ![Key(w)] = Result(w)]
  <2>1. horse[w].text \in Resume /\ horse[w].config \in Config
    BY <1>7 DEF CacheVerdict, On, TypeOK, Horses, Loaded, Idle
  <2> QED
    BY <1>7, <2>1 DEF CacheVerdict, On, Key
<1>8. CASE UNCHANGED vars
  BY <1>8 DEF vars
<1> QED
  BY <1>1, <1>2, <1>3, <1>4, <1>5, <1>6, <1>7, <1>8 DEF Next

(* However the settings change while horses work, no cached verdict rests  *)
(* on other settings or another text than its key says.                    *)
THEOREM SettingsAreKeyed == Spec => []CacheFollowsSettings
<1>1. Init => CacheFollowsSettings
  BY DEF Init, CacheFollowsSettings
<1>2. TypeOK /\ CacheFollowsSettings /\ [Next]_vars => CacheFollowsSettings'
  <2> SUFFICES ASSUME TypeOK, CacheFollowsSettings, [Next]_vars,
                      NEW k \in Resume \X Config, cache'[k] # None
               PROVE  <<cache'[k].text, cache'[k].config>> = k
    BY DEF CacheFollowsSettings
  <2>1. CASE cache'[k] \in {cache[k], None}
    BY <2>1 DEF CacheFollowsSettings
  <2>2. ASSUME NEW w \in Worker, Key(w) \in Resume \X Config,
               cache' = [cache EXCEPT ![Key(w)] = Result(w)]
        PROVE  <<cache'[k].text, cache'[k].config>> = k
    BY <2>2 DEF Key, Result, CacheFollowsSettings, TypeOK
  <2> QED
    BY <2>1, <2>2, CacheGrows
<1> QED
  BY <1>1, <1>2, InitTyped, NextTyped, PTL DEF Spec

(* No override of a recruiter ever reaches the cache.                      *)
THEOREM OverridesStayLocal == Spec => []OverrideStaysLocal
<1>1. Init => OverrideStaysLocal
  BY DEF Init, OverrideStaysLocal
<1>2. TypeOK /\ OverrideStaysLocal /\ [Next]_vars => OverrideStaysLocal'
  <2> SUFFICES ASSUME TypeOK, OverrideStaysLocal, [Next]_vars,
                      NEW k \in Resume \X Config, cache'[k] # None
               PROVE  ~cache'[k].edited
    BY DEF OverrideStaysLocal
  <2>1. CASE cache'[k] \in {cache[k], None}
    BY <2>1 DEF OverrideStaysLocal
  <2>2. ASSUME NEW w \in Worker, Key(w) \in Resume \X Config,
               cache' = [cache EXCEPT ![Key(w)] = Result(w)]
        PROVE  ~cache'[k].edited
    <3>1. cache'[k] = cache[k] \/ cache'[k] = Result(w)
      BY <2>2 DEF TypeOK
    <3> QED
      BY <3>1 DEF Result, OverrideStaysLocal
  <2> QED
    BY <2>1, <2>2, CacheGrows
<1> QED
  BY <1>1, <1>2, InitTyped, NextTyped, PTL DEF Spec

-----------------------------------------------------------------------------
(* Until an upload is saved a candidate has one resume: that of its link.  *)
OneResume ==
  /\ \A u \in Upload : upload[u] # NoUpload => upload[u].file # None
  /\ \A c \in Cand : {text[c], parsed[c], disk[c]} \subseteq {None, link[c]}
  /\ \A w \in Worker : horse[w] # Idle =>
       {horse[w].text, horse[w].parsed} \subseteq {None, link[horse[w].cand]}

Pristine == ~replaced => OneResume

LEMMA InitPristine == Init => Pristine
  BY DEF Init, Pristine, OneResume

LEMMA ReplacedStays == [Next]_vars => UNCHANGED replaced \/ replaced'
<1> SUFFICES ASSUME [Next]_vars PROVE UNCHANGED replaced \/ replaced'
  OBVIOUS
<1> USE DEF given
<1>1. CASE UNCHANGED vars
  BY <1>1 DEF vars
<1>2. ASSUME NEW c \in Cand,
             \/ Requeue(c) \/ Override(c) \/ DeleteEvaluation(c)
             \/ \E u \in Upload, v \in Resume : UploadRead(u, c, v)
             \/ \E w \in Worker : Load(w, c)
      PROVE  UNCHANGED replaced
  BY <1>2 DEF Requeue, Override, DeleteEvaluation, UploadRead, Load
<1>3. ASSUME NEW u \in Upload, UploadSave(u) \/ UploadCommit(u)
      PROVE  UNCHANGED replaced \/ replaced'
  BY <1>3 DEF UploadSave, UploadCommit
<1>4. ASSUME NEW k \in Config, UpdateJob(k) PROVE UNCHANGED replaced
  BY <1>4 DEF UpdateJob
<1>5. ASSUME NEW w \in Worker,
             \/ Fetch(w) \/ Extract(w) \/ Hit(w) \/ Miss(w) \/ Parse(w) \/ Judge(w)
             \/ CacheVerdict(w) \/ Fail(w)
      PROVE  UNCHANGED replaced
  BY <1>5 DEF Fetch, Extract, Hit, Miss, Parse, Judge, CacheVerdict, Fail
<1>6. ASSUME NEW k \in Resume \X Config, Expire(k) PROVE UNCHANGED replaced
  BY <1>6 DEF Expire
<1> QED
  BY <1>1, <1>2, <1>3, <1>4, <1>5, <1>6 DEF Next

LEMMA NextPristine == TypeOK /\ Pristine /\ [Next]_vars => Pristine'
<1> SUFFICES ASSUME TypeOK, OneResume, [Next]_vars, ~replaced' PROVE OneResume'
  BY ReplacedStays DEF Pristine
<1> USE DEF TypeOK, Horses, Loaded, Idle, OneResume, On, Move, End, rows, given
<1>1. CASE UNCHANGED vars
  BY <1>1 DEF vars
<1>2. ASSUME NEW c \in Cand, Requeue(c) \/ Override(c) \/ DeleteEvaluation(c)
      PROVE  OneResume'
  BY <1>2 DEF Requeue, Override, DeleteEvaluation
<1>3. ASSUME NEW u \in Upload, NEW c \in Cand, NEW v \in Resume, UploadRead(u, c, v)
      PROVE  OneResume'
  BY <1>3, NoneAssumption DEF UploadRead
<1>4. ASSUME NEW u \in Upload, UploadSave(u) \/ UploadCommit(u) PROVE FALSE
  BY <1>4 DEF UploadSave, UploadCommit, NoUpload
<1>5. ASSUME NEW w \in Worker, NEW c \in Cand, Load(w, c) PROVE OneResume'
  BY <1>5 DEF Load
<1>6. ASSUME NEW k \in Config, UpdateJob(k) PROVE OneResume'
  BY <1>6 DEF UpdateJob
<1>7. ASSUME NEW w \in Worker, Fetch(w) PROVE OneResume'
  BY <1>7 DEF Fetch
<1>8. ASSUME NEW w \in Worker, Extract(w) PROVE OneResume'
  BY <1>8 DEF Extract
<1>9. ASSUME NEW w \in Worker, Hit(w) \/ Fail(w) PROVE OneResume'
  BY <1>9 DEF Hit, Fail
<1>10. ASSUME NEW w \in Worker, Miss(w) PROVE OneResume'
  BY <1>10 DEF Miss
<1>11. ASSUME NEW w \in Worker, Parse(w) PROVE OneResume'
  BY <1>11 DEF Parse
<1>12. ASSUME NEW w \in Worker, Judge(w) PROVE OneResume'
  BY <1>12 DEF Judge
<1>13. ASSUME NEW w \in Worker, CacheVerdict(w) PROVE OneResume'
  BY <1>13 DEF CacheVerdict
<1>14. ASSUME NEW k \in Resume \X Config, Expire(k) PROVE OneResume'
  BY <1>14 DEF Expire
<1> QED
  BY <1>1, <1>2, <1>3, <1>4, <1>5, <1>6, <1>7, <1>8, <1>9, <1>10, <1>11, <1>12,
     <1>13, <1>14 DEF Next

(* As long as no resume is replaced, a cached verdict was judged from the  *)
(* text in its key, across candidates, horses, failures and retries.       *)
THEOREM CacheIsSound == Spec => []CacheFollowsResume
<1>1. Init => CacheFollowsResume
  BY DEF Init, CacheFollowsResume
<1>2. TypeOK /\ Pristine /\ CacheFollowsResume /\ [Next]_vars => CacheFollowsResume'
  <2> SUFFICES ASSUME TypeOK, Pristine, CacheFollowsResume, [Next]_vars, ~replaced',
                      NEW k \in Resume \X Config, cache'[k] # None
               PROVE  cache'[k].parsed = k[1]
    BY DEF CacheFollowsResume
  <2>0. ~replaced
    BY ReplacedStays
  <2>1. CASE cache'[k] \in {cache[k], None}
    BY <2>0, <2>1 DEF CacheFollowsResume
  <2>2. ASSUME NEW w \in Worker, horse[w].pc = "cache", Key(w) \in Resume \X Config,
               cache' = [cache EXCEPT ![Key(w)] = Result(w)]
        PROVE  cache'[k].parsed = k[1]
    <3>1. horse[w].parsed = horse[w].text
      BY <2>0, <2>2, NoneAssumption, AlwaysResolved DEF Resolved, Pristine, OneResume, Idle
    <3>2. (k # Key(w) /\ cache'[k] = cache[k]) \/ (k = Key(w) /\ cache'[k] = Result(w))
      BY <2>2 DEF TypeOK
    <3> QED
      BY <2>0, <3>1, <3>2 DEF Key, Result, CacheFollowsResume
  <2> QED
    BY <2>1, <2>2, CacheGrows
<1> QED
  BY <1>1, <1>2, InitTyped, NextTyped, InitPristine, NextPristine, PTL DEF Spec

-----------------------------------------------------------------------------
(* The uploads of c in flight, and whether one of them has saved its file. *)
Flight(c) == {u \in Upload : upload[u] # NoUpload /\ upload[u].cand = c}
Saved(c)  == \E u \in Flight(c) : upload[u].file = None

(* What the row and the file of a candidate say who never met a clash.     *)
Current(c) ==
  /\ Saved(c) \/ url[c] = "disk" => disk[c] = latest[c]
  /\ ~Saved(c) => /\ text[c] \in {None, latest[c]}
                  /\ url[c] = "link" => latest[c] = link[c]
  /\ \A u \in Flight(c) : upload[u].seen = None => text[c] = None

(* A horse that resolves the text has the candidate to itself, and goes by *)
(* the url the row still has.                                              *)
Alone(c) ==
  \A w \in Worker :
    horse[w].pc \in {"fetch", "extract"} /\ horse[w].cand = c =>
      /\ Flight(c) = {}
      /\ horse[w].url = url[c]
      /\ horse[w].pc = "fetch" => url[c] = "link"
      /\ horse[w].pc = "extract" /\ url[c] # "none" => disk[c] = latest[c]

FreshOf(c) == Current(c) /\ Alone(c)
Fresh == \A c \in Cand \ clashed : FreshOf(c)

LEMMA InitFresh == Init => Fresh
<1> SUFFICES ASSUME Init, NEW c \in Cand PROVE FreshOf(c)
  BY DEF Fresh
<1>1. Flight(c) = {} /\ ~Saved(c)
  BY DEF Init, Flight, Saved
<1>2. text[c] = None /\ latest[c] = link[c] /\ url[c] # "disk"
  BY DEF Init
<1>3. \A w \in Worker : horse[w].pc = "idle"
  BY DEF Init, Idle
<1> QED
  BY <1>1, <1>2, <1>3 DEF FreshOf, Current, Alone

(* A step that writes nothing FreshOf reads, and brings no horse to fetch  *)
(* or extract, leaves it alone.                                            *)
LEMMA StaysFresh ==
  ASSUME NEW c \in Cand, FreshOf(c),
         UNCHANGED <<latest[c], link[c], disk[c], url[c], text[c], upload>>,
         \A w \in Worker : \/ horse'[w] = horse[w]
                           \/ horse'[w].pc \notin {"fetch", "extract"}
                           \/ horse'[w].cand # c
  PROVE  FreshOf(c)'
BY DEF FreshOf, Flight, Saved, Current, Alone

(* A step that changes one horse, to a place where it resolves nothing.    *)
LEMMA LateStepsStayFresh ==
  ASSUME Fresh, NEW w \in Worker,
         UNCHANGED <<latest, clashed, link, disk, url, text, upload>>,
         \A x \in Worker \ {w} : horse'[x] = horse[x],
         horse'[w].pc \notin {"fetch", "extract"}
  PROVE  Fresh'
BY StaysFresh DEF Fresh

LEMMA NextFresh == TypeOK /\ Fresh /\ [Next]_vars => Fresh'
<1> SUFFICES ASSUME TypeOK, Fresh, [Next]_vars PROVE Fresh'
  OBVIOUS
<1> USE NoneAssumption DEF On, Move, End, rows, given
<1>0. \A w \in Worker : horse[w].pc # "idle" => horse[w].cand \in Cand
  BY DEF TypeOK, Horses, Loaded, Idle
<1>1. CASE UNCHANGED <<latest, clashed, link, disk, url, text, horse, upload>>
  BY <1>1, StaysFresh DEF Fresh
<1>2. ASSUME NEW c \in Cand, Requeue(c) \/ Override(c) \/ DeleteEvaluation(c)
      PROVE  Fresh'
  BY <1>1, <1>2 DEF Requeue, Override, DeleteEvaluation
<1>3. ASSUME NEW u \in Upload, NEW c \in Cand, NEW v \in Resume, UploadRead(u, c, v)
      PROVE  Fresh'
  <2>1. /\ upload[u] = NoUpload
        /\ upload' = [upload EXCEPT ![u] = [cand |-> c, seen |-> text[c], file |-> v]]
        /\ clashed' = IF Resolves(c) THEN clashed \cup {c} ELSE clashed
        /\ UNCHANGED <<latest, link, disk, url, text, horse>>
    BY <1>3 DEF UploadRead
  <2>2. /\ upload'[u].cand = c /\ upload'[u].seen = text[c] /\ upload'[u].file # None
        /\ \A x \in Upload \ {u} : upload'[x] = upload[x]
    BY <2>1 DEF TypeOK
  <2> SUFFICES ASSUME NEW d \in Cand \ clashed' PROVE FreshOf(d)'
    BY DEF Fresh
  <2>3. FreshOf(d)
    BY <2>1 DEF Fresh
  <2>4. /\ Flight(d)' \in SUBSET (Flight(d) \cup {u})
        /\ Flight(d) \in SUBSET Flight(d)'
        /\ u \in Flight(d)' => d = c
    BY <2>1, <2>2 DEF Flight
  <2>5. Saved(d)' <=> Saved(d)
    BY <2>1, <2>2, <2>4 DEF Saved, Flight
  <2>6. Current(d)'
    BY <2>1, <2>2, <2>3, <2>4, <2>5 DEF FreshOf, Current, Flight
  <2>7. d = c => ~Resolves(c)
    BY <2>1
  <2>8. Alone(d)'
    BY <2>1, <2>3, <2>4, <2>7 DEF FreshOf, Alone, Resolves
  <2> QED
    BY <2>6, <2>8 DEF FreshOf
<1>4. ASSUME NEW u \in Upload, UploadSave(u) PROVE Fresh'
  <2> DEFINE c == upload[u].cand
  <2>1. /\ upload[u] \in [cand : Cand, seen : Maybe, file : Maybe]
        /\ upload[u].file \in Resume /\ upload[u] # NoUpload
    BY <1>4 DEF UploadSave, TypeOK, Uploading, NoUpload, Maybe
  <2>2. /\ upload' = [upload EXCEPT ![u].file = None]
        /\ disk' = [disk EXCEPT ![c] = upload[u].file]
        /\ latest' = [latest EXCEPT ![c] = upload[u].file]
        /\ UNCHANGED <<clashed, link, url, text, horse>>
    BY <1>4 DEF UploadSave
  <2>3. /\ upload'[u] # NoUpload /\ upload'[u].cand = c /\ upload'[u].file = None
        /\ upload'[u].seen = upload[u].seen
        /\ \A x \in Upload \ {u} : upload'[x] = upload[x]
    <3>1. upload'[u] = [upload[u] EXCEPT !.file = None]
      BY <2>2 DEF TypeOK
    <3>2. upload'[u] = [cand |-> c, seen |-> upload[u].seen, file |-> None]
      BY <2>1, <3>1
    <3>3. \A x \in Upload \ {u} : upload'[x] = upload[x]
      BY <2>2 DEF TypeOK
    <3> QED
      BY <3>2, <3>3 DEF NoUpload
  <2> SUFFICES ASSUME NEW d \in Cand \ clashed' PROVE FreshOf(d)'
    BY DEF Fresh
  <2>4. FreshOf(d)
    BY <2>2 DEF Fresh
  <2>5. Flight(d)' = Flight(d)
    BY <2>1, <2>3 DEF Flight
  <2>6. CASE d = c
    <3>1. u \in Flight(d) /\ Saved(d)'
      BY <2>1, <2>3, <2>5, <2>6 DEF Flight, Saved
    <3>2. disk'[d] = latest'[d]
      BY <2>1, <2>2, <2>6 DEF TypeOK
    <3>3. \A x \in Flight(d) : upload'[x].seen = upload[x].seen
      BY <2>3 DEF Flight
    <3>4. Current(d)'
      BY <2>2, <2>4, <2>5, <3>1, <3>2, <3>3 DEF FreshOf, Current
    <3>5. Alone(d)'
      BY <2>2, <2>4, <2>5, <3>1 DEF FreshOf, Alone
    <3> QED
      BY <3>4, <3>5 DEF FreshOf
  <2>7. CASE d # c
    <3>1. \A x \in Flight(d) : upload'[x] = upload[x]
      BY <2>3, <2>7 DEF Flight
    <3>2. Saved(d)' <=> Saved(d)
      BY <2>5, <3>1 DEF Saved
    <3>3. disk'[d] = disk[d] /\ latest'[d] = latest[d]
      BY <2>2, <2>7 DEF TypeOK
    <3> QED
      BY <2>2, <2>4, <2>5, <3>1, <3>2, <3>3 DEF FreshOf, Current, Alone
  <2> QED
    BY <2>6, <2>7
<1>5. ASSUME NEW u \in Upload, UploadCommit(u) PROVE Fresh'
  <2> DEFINE c == upload[u].cand
  <2>1. /\ upload[u] \in [cand : Cand, seen : Maybe, file : Maybe]
        /\ upload[u].file = None /\ upload[u] # NoUpload
    BY <1>5 DEF UploadCommit, TypeOK, Uploading
  <2>2. /\ upload' = [upload EXCEPT ![u] = NoUpload]
        /\ url' = [url EXCEPT ![c] = "disk"]
        /\ text' = IF upload[u].seen = None THEN text ELSE [text EXCEPT ![c] = None]
        /\ UNCHANGED <<latest, clashed, link, disk, horse>>
    BY <1>5 DEF UploadCommit
  <2>3. upload'[u] = NoUpload /\ \A x \in Upload \ {u} : upload'[x] = upload[x]
    BY <2>2 DEF TypeOK
  <2> SUFFICES ASSUME NEW d \in Cand \ clashed' PROVE FreshOf(d)'
    BY DEF Fresh
  <2>4. FreshOf(d)
    BY <2>2 DEF Fresh
  <2>5. Flight(d)' = Flight(d) \ {u}
    BY <2>3 DEF Flight
  <2>6. CASE d = c
    <3>1. u \in Flight(d) /\ Saved(d)
      BY <2>1, <2>6 DEF Flight, Saved
    <3>2. disk[d] = latest[d] /\ url'[d] = "disk"
      BY <2>1, <2>2, <2>4, <2>6, <3>1 DEF FreshOf, Current, TypeOK
    <3>3. text'[d] = None
      <4>1. upload[u].seen = None => text[d] = None
        BY <2>4, <3>1 DEF FreshOf, Current
      <4> QED
        BY <2>1, <2>2, <2>6, <4>1 DEF TypeOK
    <3>4. Current(d)'
      BY <2>2, <3>2, <3>3 DEF Current
    <3>5. Alone(d)'
      BY <2>2, <2>4, <3>1 DEF FreshOf, Alone
    <3> QED
      BY <3>4, <3>5 DEF FreshOf
  <2>7. CASE d # c
    <3>1. /\ Flight(d)' = Flight(d)
          /\ \A x \in Flight(d) : upload'[x] = upload[x]
      BY <2>3, <2>5, <2>7 DEF Flight
    <3>2. Saved(d)' <=> Saved(d)
      BY <3>1 DEF Saved
    <3>3. text'[d] = text[d] /\ url'[d] = url[d]
      BY <2>2, <2>7 DEF TypeOK
    <3> QED
      BY <2>2, <2>4, <3>1, <3>2, <3>3 DEF FreshOf, Current, Alone
  <2> QED
    BY <2>6, <2>7
<1>6. ASSUME NEW w \in Worker, NEW c \in Cand, Load(w, c) PROVE Fresh'
  <2>1. /\ UNCHANGED <<latest, link, disk, url, text, upload>>
        /\ clashed' = IF text[c] = None /\ ~NoUploadOf(c) THEN clashed \cup {c} ELSE clashed
        /\ \A x \in Worker \ {w} : horse'[x] = horse[x]
        /\ horse'[w].cand = c /\ horse'[w].url = url[c]
        /\ horse'[w].pc \in {"fetch", "extract"} => text[c] = None
        /\ horse'[w].pc = "fetch" => url[c] = "link"
        /\ horse'[w].pc = "extract" => url[c] # "link"
    BY <1>6 DEF Load, TypeOK
  <2> SUFFICES ASSUME NEW d \in Cand \ clashed' PROVE FreshOf(d)'
    BY DEF Fresh
  <2>2. FreshOf(d)
    BY <2>1 DEF Fresh
  <2>3. CASE d # c \/ horse'[w].pc \notin {"fetch", "extract"}
    BY <2>1, <2>2, <2>3, StaysFresh
  <2>4. CASE d = c /\ horse'[w].pc \in {"fetch", "extract"}
    <3>1. Flight(d) = {}
      BY <2>1, <2>4 DEF NoUploadOf, Flight
    <3>2. url[d] = "disk" => disk[d] = latest[d]
      BY <2>2 DEF FreshOf, Current
    <3>3. url[d] \in {"none", "link", "disk"}
      BY DEF TypeOK
    <3>4. Flight(d)' = Flight(d) /\ (Saved(d)' <=> Saved(d))
      BY <2>1 DEF Flight, Saved
    <3>5. Current(d)'
      BY <2>1, <2>2, <3>4 DEF FreshOf, Current
    <3>6. Alone(d)'
      BY <2>1, <2>2, <2>4, <3>1, <3>2, <3>3, <3>4 DEF FreshOf, Alone
    <3> QED
      BY <3>5, <3>6 DEF FreshOf
  <2> QED
    BY <2>3, <2>4
<1>7. ASSUME NEW k \in Config, UpdateJob(k) PROVE Fresh'
  BY <1>1, <1>7 DEF UpdateJob
<1>8. ASSUME NEW w \in Worker, Fetch(w) PROVE Fresh'
  <2> DEFINE c == horse[w].cand
  <2>1. /\ horse[w].pc = "fetch" /\ c \in Cand
        /\ disk' = [disk EXCEPT ![c] = link[c]]
        /\ horse'[w].pc = "extract" /\ horse'[w].cand = c /\ horse'[w].url = horse[w].url
        /\ \A x \in Worker \ {w} : horse'[x] = horse[x]
        /\ UNCHANGED <<latest, clashed, link, url, text, upload>>
    BY <1>0, <1>8 DEF Fetch, TypeOK
  <2> SUFFICES ASSUME NEW d \in Cand \ clashed' PROVE FreshOf(d)'
    BY DEF Fresh
  <2>2. FreshOf(d)
    BY <2>1 DEF Fresh
  <2>3. CASE d # c
    <3>1. disk'[d] = disk[d]
      BY <2>1, <2>3 DEF TypeOK
    <3> QED
      BY <2>1, <2>2, <2>3, <3>1, StaysFresh
  <2>4. CASE d = c
    <3>1. Flight(d) = {} /\ url[d] = "link" /\ horse[w].url = url[d]
      BY <2>1, <2>2, <2>4 DEF FreshOf, Alone
    <3>2. ~Saved(d) /\ latest[d] = link[d]
      BY <2>2, <3>1 DEF Saved, FreshOf, Current
    <3>3. disk'[d] = latest'[d]
      BY <2>1, <2>4, <3>2 DEF TypeOK
    <3>4. Flight(d)' = {} /\ ~Saved(d)'
      BY <2>1, <3>1 DEF Flight, Saved
    <3>5. Current(d)'
      BY <2>1, <2>2, <3>1, <3>2, <3>3, <3>4 DEF FreshOf, Current
    <3>6. Alone(d)'
      BY <2>1, <2>2, <2>4, <3>1, <3>3, <3>4 DEF FreshOf, Alone
    <3> QED
      BY <3>5, <3>6 DEF FreshOf
  <2> QED
    BY <2>3, <2>4
<1>9. ASSUME NEW w \in Worker, Extract(w) PROVE Fresh'
  <2> DEFINE c == horse[w].cand
  <2>1. /\ horse[w].pc = "extract" /\ c \in Cand
        /\ horse[w].url # "none"
        /\ text' = [text EXCEPT ![c] = disk[c]]
        /\ horse'[w].pc = "lookup"
        /\ \A x \in Worker \ {w} : horse'[x] = horse[x]
        /\ UNCHANGED <<latest, clashed, link, disk, url, upload>>
    BY <1>0, <1>9 DEF Extract, TypeOK
  <2> SUFFICES ASSUME NEW d \in Cand \ clashed' PROVE FreshOf(d)'
    BY DEF Fresh
  <2>2. FreshOf(d)
    BY <2>1 DEF Fresh
  <2>3. CASE d # c
    <3>1. text'[d] = text[d]
      BY <2>1, <2>3 DEF TypeOK
    <3> QED
      BY <2>1, <2>2, <2>3, <3>1, StaysFresh
  <2>4. CASE d = c
    <3>1. Flight(d) = {} /\ disk[d] = latest[d]
      BY <2>1, <2>2, <2>4 DEF FreshOf, Alone
    <3>2. text'[d] = latest[d]
      BY <2>1, <2>4, <3>1 DEF TypeOK
    <3>3. Flight(d)' = {} /\ (Saved(d)' <=> Saved(d))
      BY <2>1, <3>1 DEF Flight, Saved
    <3>4. Current(d)'
      BY <2>1, <2>2, <3>1, <3>2, <3>3 DEF FreshOf, Current
    <3>5. Alone(d)'
      BY <2>1, <2>2, <3>1, <3>3 DEF FreshOf, Alone
    <3> QED
      BY <3>4, <3>5 DEF FreshOf
  <2> QED
    BY <2>3, <2>4
<1>10. ASSUME NEW w \in Worker, Hit(w) \/ Fail(w) \/ CacheVerdict(w) PROVE Fresh'
  <2>1. /\ UNCHANGED <<latest, clashed, link, disk, url, text, upload>>
        /\ horse' = [horse EXCEPT ![w] = Idle]
    BY <1>10 DEF Hit, Fail, CacheVerdict
  <2>2. horse'[w].pc = "idle" /\ \A x \in Worker \ {w} : horse'[x] = horse[x]
    BY <2>1 DEF TypeOK, Idle
  <2> QED
    BY <2>1, <2>2, LateStepsStayFresh
<1>11. ASSUME NEW w \in Worker, Miss(w) \/ Parse(w) \/ Judge(w) PROVE Fresh'
  <2>1. UNCHANGED <<latest, clashed, link, disk, url, text, upload>>
    BY <1>11 DEF Miss, Parse, Judge
  <2>2. horse'[w].pc \in {"parse", "judge", "cache"} /\ \A x \in Worker \ {w} : horse'[x] = horse[x]
    <3>1. horse[w] \in Horses /\ horse[w].pc # "idle" /\ horse \in [Worker -> Horses]
      BY <1>11 DEF Miss, Parse, Judge, TypeOK
    <3>2. CASE Miss(w)
      BY <3>1, <3>2 DEF Miss, Horses, Loaded, Idle
    <3>3. CASE Parse(w)
      BY <3>1, <3>3 DEF Parse, Horses, Loaded, Idle
    <3>4. CASE Judge(w)
      BY <3>1, <3>4 DEF Judge, Horses, Loaded, Idle
    <3> QED
      BY <1>11, <3>2, <3>3, <3>4
  <2> QED
    BY <2>1, <2>2, LateStepsStayFresh
<1>12. ASSUME NEW k \in Resume \X Config, Expire(k) PROVE Fresh'
  BY <1>1, <1>12 DEF Expire
<1>13. CASE UNCHANGED vars
  BY <1>1, <1>13 DEF vars
<1> QED
  BY <1>2, <1>3, <1>4, <1>5, <1>6, <1>7, <1>8, <1>9, <1>10, <1>11, <1>12, <1>13 DEF Next

(* However uploads, downloads, failures and retries interleave, the text   *)
(* of a candidate is that of the newest resume, unless an upload was in    *)
(* flight while a horse was still resolving the text.                      *)
THEOREM NewestResumeStays == Spec => []TextIsLatest
<1>1. Fresh => TextIsLatest
  BY DEF Fresh, FreshOf, Current, Saved, Flight, TextIsLatest, NoUploadOf
<1> QED
  BY <1>1, InitFresh, NextFresh, InitTyped, NextTyped, PTL DEF Spec
=============================================================================
