\* An operator who reports the loss of the link, then activates again.
CONSTANTS
  p2p = p2p
  t1t = t1t
  t4t = t4t
  NULL = NULL
  RE <- MCRE
  rfproto <- MCProto
  mode <- MCMode
  MaxId = 3
  ConsoleRf = {4}
  MaxPending = 2
  ResetWhileActive = FALSE
  LinkLoss = TRUE
SPECIFICATION SessionSpec
CHECK_DEADLOCK FALSE
INVARIANT ActivatedAfterLinkLoss
