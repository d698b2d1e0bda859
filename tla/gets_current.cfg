SPECIFICATION Spec
CONSTANTS
  Query = {q1}
  MaxGets = 2
  MaxCommits = 1
  MaxUpsets = 0
  Window = 3
INVARIANTS FreshAnswer
CHECK_DEADLOCK FALSE
