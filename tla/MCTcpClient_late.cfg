SPECIFICATION Spec
CONSTANTS
  Callers = {a, b}
  MaxRetries = 1
  MaxConns = 3
  MaxFailures = 4
INVARIANTS
  AnswerMatches
CHECK_DEADLOCK FALSE
