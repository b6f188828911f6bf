SPECIFICATION Spec
CONSTANTS
  Ends = {client, other}
  client = client
  other = other
  MinSpacing <- MCSpacing
  Instants <- MCInstants
  MaxMoves = 3
SYMMETRY Ends2
INVARIANTS
  SpacedIfOutermost
  EveryTransferRecorded
CHECK_DEADLOCK FALSE
