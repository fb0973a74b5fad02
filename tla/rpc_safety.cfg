SPECIFICATION Spec
CONSTANTS
  MaxMsgs = 3
  BUCKETS = 2
  RPC_TIMEOUT = 1
  LOGIN_INTERVAL = 4
  CHECK_INTERVAL = 1
  AppKeys = {}
  BOOT = 1
INVARIANTS
  TypeOK
  OneOutcome
  OneLoginPerSession
  SessionIsSettled
  SessionHasKey
PROPERTIES
  SessionLasts
CHECK_DEADLOCK TRUE
