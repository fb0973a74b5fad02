SPECIFICATION Spec
CONSTANTS
  a = a
  b = b
  d = d
  Keys <- MCKeys
  Cap = 2
  Bucket <- MCBucket
  Matches <- MCMatches
  None = None
  Interval <- MCInterval
  Delay <- MCDelay
  OneTime <- MCOneTime
  STARTUP = 1
  HORIZON = 5
  MaxLate = 2
INVARIANTS
  TypeOK
  TableIsRegistered
PROPERTIES
  NeverEarly
  TimersKeepRunning
  OncePerPass
  OneTimeOnce
CHECK_DEADLOCK TRUE
