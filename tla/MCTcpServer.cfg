SPECIFICATION Spec
CONSTANTS
  Requests <- MCRequests
  Configs <- MCConfigs
  MAX_TCP_ADU_SIZE = 12
  MAX_TCP_BUF_BYTES = 20
  FirstTid = 65535
  ReadSize = 13
  MaxRequests = 3
INVARIANTS
  TypeOK
  ExactlyOnceInOrder
  RepliesSound
  FreshRequestExact
CHECK_DEADLOCK FALSE
