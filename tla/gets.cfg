SPECIFICATION Spec
CONSTANTS
  Query = {q1}
  MaxGets = 2
  MaxCommits = 2
  MaxUpsets = 1
  Window = 3
INVARIANTS TypeOK AnsweredOnce AnswersAreRight AssertionsHold NoneForgotten
CHECK_DEADLOCK FALSE
