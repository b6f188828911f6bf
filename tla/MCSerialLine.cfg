SPECIFICATION FairSpec
CONSTANTS
  Requests <- MCRequests
  Unit = 1
  Stray <- MCStray
  Sizes = {4, 300}
  MaxCalls = 2
  MaxRetries = 1
  MaxFaults = 1
INVARIANTS
  ExecutedAsWritten
  RestingFrameExecuted
  WritesReallyDone
  OwnAnswer
PROPERTIES
  BufferForgotten
  CallReturns
CHECK_DEADLOCK FALSE
