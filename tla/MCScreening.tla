---------------------------- MODULE MCScreening ----------------------------
(* Screening with small constants for TLC: a few texts; resumes of which   *)
(* one dominates another and one does not; a reading that lists must-haves *)
(* again, in another case and as preferred ones only.                      *)
EXTENDS Screening

TextSet == {"Python", "python", "Go", "Golang", "Kyoto", "kyoto, jp"}

LowerOf == [t \in TextSet |-> CASE t = "Python" -> "python" [] t = "Go" -> "go"
                                [] t = "Golang" -> "golang" [] t = "Kyoto" -> "kyoto"
                                [] OTHER -> t]
CanonOf == LowerOf
WithinOf == {<<a, a>> : a \in {"python", "go", "golang", "kyoto", "kyoto, jp"}}
              \cup {<<"go", "golang">>, <<"kyoto", "kyoto, jp">>}

Base == [yoe |-> 0, location |-> "kyoto, jp", skills |-> {"Golang"}, cosine |-> 50, judge |-> 71]
Able == [Base EXCEPT !.yoe = 1, !.skills = {"Golang", "python"}, !.judge = 100, !.cosine = 100]
Resumes == {Base, Able, [Base EXCEPT !.yoe = 1, !.location = None, !.skills = {"python"}]}
OpposedResumes == {[Able EXCEPT !.skills = @ \cup {"Go"}, !.judge = 0]}

ReadingOf(required, preferred, must) ==
  [required_skills |-> required, preferred_skills |-> preferred, must_haves |-> must,
   min_yoe |-> 1, location |-> "Kyoto"]
Readings == {ReadingOf(<<>>, <<>>, <<>>),
             ReadingOf(<<"Python">>, <<"Go", "Golang">>, <<"python", "Go">>)}

ApiJobOf(fit, maybe) ==
  [jd |-> ReadingOf(<<"Python", "Go">>, <<>>, <<>>), weights |-> DefaultWeights,
   t |-> [fit |-> fit, maybe |-> maybe, min_yoe |-> None, location_strict |-> TRUE]]
ApiJobs == {ApiJobOf(40, 70)}
NoJobs  == {}
ShortCounts == {90, 170, 180}
EditedTexts == {"Go"}
=============================================================================
