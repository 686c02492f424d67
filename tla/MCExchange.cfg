SPECIFICATION FairSpec
CONSTANTS
  Calls = {"c1", "c2"}
  Sides = {"left", "right"}
  Caller <- Callers
  Chains <- TestChains
  Questions <- TestQuestions
  Notices <- TestNotices
  Foreign <- TestTexts
  MaxOthers = 1
INVARIANTS
  ReadsBack
  AnswersAreTrue
  ArgumentsArrive
PROPERTIES
  CallsAnswered
  Silence
CHECK_DEADLOCK FALSE
