SPECIFICATION YiviSpec
CONSTANTS
  k1 = k1  k2 = k2  k3 = k3  i1 = i1
  NULL = NULL
  Tokens = {k1, k2}
  Slots = {i1}
  SlotsOf <- MCSlotsOf
  UserAgents = {"Desktop", "Mobile"}
  PairingHint = TRUE
INVARIANTS YiviTypeOK OneListenerRuns
CHECK_DEADLOCK FALSE
