SPECIFICATION PartsSpec
CONSTANTS
  Listeners = {l1, l2, l3, l4}
  Keys <- MCKeys
  Cap = 2
  Bucket <- MCBucket
  Matches <- MCMatches
  None = None
  Devices = {d1, d2}
  Accounts = {a, b}
  Unbound = Unbound
  Types <- MCTypes
  MaxItems = 2
  Rebind = TRUE
  Byte = {0, 1}
  Zero = 0
  Grow = 2
  MaxCap = 7
  StartCaps = {0, 1, 3}
  Chunks <- MCChunks
INVARIANTS
  ListedAreWanted
  FlagsAgree
PROPERTIES
  SteadyCalledOnce
  PassIsSwept
  LateLeave
  NoAnswerToAnswer
  ExchangesEnd
  QueueUnlessLost
