SPECIFICATION Spec
CONSTANTS
  Topics = {t}
  P2P = P2P
  Listeners = {l1, l2, l3}
  MaxMsgs = 2
SYMMETRY MCSymmetry
INVARIANTS
  SubIdIsCurrent
  ListenersAreWanted
  SubscribedWhenQuiet
PROPERTIES
  CalledOnce
  NotCalledAfter
CHECK_DEADLOCK FALSE
