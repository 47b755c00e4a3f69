CONSTANTS
  None = None
  Lower <- LowerOf
  Canon <- CanonOf
  Within <- WithinOf
  MinCohort = 2
  MinSuggest = 3
  Short <- ShortCounts
  Resume <- Resumes
  Reading <- Readings
  ApiJob <- ApiJobs
  Edited <- EditedTexts
  Place = {None}
  Slider = {0, 5, 35}
  Cutoff = {40, 95}
  MaxEdits = 1
  MaxEvals = 1
SPECIFICATION Spec
INVARIANTS VerdictsFollowCutoffs SlidersNeverInvert
CHECK_DEADLOCK FALSE
