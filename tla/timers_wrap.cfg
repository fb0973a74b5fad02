SPECIFICATION Spec
CONSTANTS
  a = a
  b = b
  d = d
  Keys <- MCKeys
  Cap = 2
  Bucket <- MCBucket
  Matches <- MCMatches
  None = None
  Interval <- MCInterval
  Delay <- MCDelay
  OneTime <- MCOneTime
  STARTUP = 1
  HORIZON = 8
  MaxLate = 1
PROPERTIES
  HeartbeatGoesOn
CHECK_DEADLOCK TRUE
