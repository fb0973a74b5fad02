SPECIFICATION Spec
CONSTANTS
  Byte <- MCByte
  Zero = 0
  Grow = 2
  MaxCap = 14
  Payloads <- MCPayloads
  MaxShortLen = 1
  MaxMsgs = 3
  MaxRead = 8
  StartCap = 9
INVARIANTS
  StreamIntact
CHECK_DEADLOCK FALSE
