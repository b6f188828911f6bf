SPECIFICATION Spec
CONSTANTS
  Requests <- MCRequests
  Configs <- MCConfigs
  MAX_TCP_ADU_SIZE = 260
  MAX_TCP_BUF_BYTES = 1040
  FirstTid = 65535
  ReadSize = 256
  MaxRequests = 2
INVARIANTS
  NotContaminated
CHECK_DEADLOCK FALSE
