SPECIFICATION Spec
CONSTANTS
  Ends = {client}
  client = client
  MinSpacing <- MCSpacing
  Instants <- MCInstants
  MaxMoves = 3
INVARIANTS
  SpacingEnforced
CHECK_DEADLOCK FALSE
