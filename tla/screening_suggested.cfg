CONSTANTS
  None = None
  Lower <- LowerOf
  Canon <- CanonOf
  Within <- WithinOf
  MinCohort = 2
  MinSuggest = 3
  Short <- ShortCounts
  Resume <- Resumes
  Reading <- Readings
  ApiJob <- ApiJobs
  Edited <- EditedTexts
  Place = {None}
  Slider = {0, 5, 35}
  Cutoff = {0}
  MaxEdits = 0
  MaxEvals = 3
SPECIFICATION Spec
INVARIANTS SuggestionReached
CHECK_DEADLOCK FALSE
