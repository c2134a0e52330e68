\* All commands, data, callbacks and console operations in any order.
CONSTANTS
  p2p = p2p
  t1t = t1t
  t4t = t4t
  NULL = NULL
  RE <- MCRE
  rfproto <- MCProto
  mode <- MCMode
  MaxId = 3
  MaxPending = 1
  ConsoleRf = {4}
SPECIFICATION Spec
CHECK_DEADLOCK FALSE
INVARIANTS
  TypeOK
  ActiveHasEndpoint
  HostTalksToActive
  IdsUnique
  NoListenState
PROPERTIES
  EndpointReplacedBySelection
  DeactivationNotified
  RejectedChangesNothing
  
