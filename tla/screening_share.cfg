CONSTANTS
  None = None
  Lower <- LowerOf
  Canon <- CanonOf
  Within <- WithinOf
  MinCohort = 2
  MinSuggest = 3
  Short <- ShortCounts
  Resume <- OpposedResumes
  Reading <- Readings
  ApiJob <- NoJobs
  Edited <- EditedTexts
  Place = {None}
  Slider = {0, 5, 35}
  Cutoff = {0}
  MaxEdits = 4
  MaxEvals = 1
SPECIFICATION Spec
INVARIANTS ScoreIsShare
CHECK_DEADLOCK FALSE
