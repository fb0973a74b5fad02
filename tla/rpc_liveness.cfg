SPECIFICATION Spec
CONSTANTS
  MaxMsgs = 2
  BUCKETS = 1
  RPC_TIMEOUT = 1
  LOGIN_INTERVAL = 3
  CHECK_INTERVAL = 1
  AppKeys = {TRUE}
  BOOT = 0
PROPERTIES
  OutcomeComes
  EntriesLeave
CHECK_DEADLOCK TRUE
