CONSTANTS
  None = None
  Lower <- LowerOf
  Canon <- CanonOf
  Within <- WithinOf
  MinCohort = 2
  MinSuggest = 2
  Short <- ShortCounts
  Resume <- Resumes
  Reading <- Readings
  ApiJob <- ApiJobs
  Edited <- EditedTexts
  Place = {None}
  Slider = {5}
  Cutoff = {0, 65}
  MaxEdits = 2
  MaxEvals = 2
SPECIFICATION Spec
INVARIANTS CriteriaSurvive MeritDecides StatisticsAgree InvertedOnlyAsMade
CHECK_DEADLOCK FALSE
