SPECIFICATION QuestionsSpec
CONSTANTS
  q1 = q1
  q2 = q2
  Questions = {q1, q2}
  MaxDecisions = 1
INVARIANTS
  MediaOwnAnswer
CHECK_DEADLOCK FALSE
