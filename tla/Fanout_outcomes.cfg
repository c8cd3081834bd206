CONSTANTS
  TargetCount = 3
SPECIFICATION FairSpec
INVARIANTS
  OutcomesAreTrue
  AnswerIsTrue
PROPERTIES
  NoCallBegunLate
  RequestAnswered
CHECK_DEADLOCK FALSE
