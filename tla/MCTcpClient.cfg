SPECIFICATION FairSpec
CONSTANTS
  Callers = {a, b}
  MaxRetries = 1
  MaxConns = 3
  MaxFailures = 4
INVARIANTS
  TypeOK
  AttemptsBounded
  OncePerConnection
  OwnAnswerUnlessAbandoned
PROPERTIES
  RebuildAlone
  CallReturns
CHECK_DEADLOCK FALSE
