SPECIFICATION YiviFairSpec
CONSTANTS
  k1 = k1  k2 = k2  k3 = k3  i1 = i1
  NULL = NULL
  Tokens = {k1, k2, k3}
  Slots = {i1}
  SlotsOf <- MCSlotsOf
  UserAgents = {"Desktop"}
  PairingHint = FALSE
INVARIANTS WatchesWhileWaiting NoSessionLeftOpen PostsForCompleted
PROPERTIES YiviSettles KeepsPageContract
CHECK_DEADLOCK FALSE
