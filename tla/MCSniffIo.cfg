SPECIFICATION FairSpec
CONSTANTS
  MaxBytes = 5
  ChunkSizes = {1, 3}
  ReadSizes = {2}
  DataCaps = {2, 4}
  TapCaps = {3}
INVARIANTS
  TypeOK
  ChannelsExact
  DataAccounted
  TapAccounted
  HeldInOrder
  NoLostWakeup
  NoLostTapWakeup
PROPERTIES
  ImplementsLossyStream
  ParkedReadSeesData
  TapDrains
  TasksEnd
CHECK_DEADLOCK FALSE
