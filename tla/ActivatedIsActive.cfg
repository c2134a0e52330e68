\* A host that resets an active controller.
CONSTANTS
  p2p = p2p
  t1t = t1t
  t4t = t4t
  NULL = NULL
  RE <- MCRE
  rfproto <- MCProto
  mode <- MCMode
  MaxId = 3
  ConsoleRf = {4}
  MaxPending = 2
  ResetWhileActive = TRUE
  LinkLoss = FALSE
SPECIFICATION SessionSpec
CHECK_DEADLOCK FALSE
INVARIANT ActivatedIsActive
