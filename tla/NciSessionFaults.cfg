\* A host that resets at any time, an operator who reports link losses.
CONSTANTS
  p2p = p2p
  t1t = t1t
  t4t = t4t
  NULL = NULL
  RE <- MCRE
  rfproto <- MCProto
  mode <- MCMode
  MaxId = 3
  ConsoleRf = {4}
  MaxPending = 2
  ResetWhileActive = TRUE
  LinkLoss = TRUE
SPECIFICATION SessionSpec
CHECK_DEADLOCK FALSE
INVARIANTS
  HostActiveIsActive
PROPERTY DeactivationArrives
