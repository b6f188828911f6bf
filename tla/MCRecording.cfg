SPECIFICATION FairSpec
CONSTANTS
  Tasks = {owner, forwarder}
  owner = owner
  forwarder = forwarder
  Capacities = {0, 2}
  QueueSize = 1
  BufferLines = 1
  MaxRecords = 4
  MaxSwitches = 2
INVARIANTS
  CaptureAccounts
  GrowthStops
  FileAccounts
  FileHasNoHole
PROPERTIES
  FileFinished
CHECK_DEADLOCK FALSE
