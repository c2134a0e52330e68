\* A host that may reset an active controller, two endpoints, one message.
CONSTANTS
  p2p = p2p
  t1t = t1t
  NULL = NULL
  RE <- MCRE
  rfproto <- MCProto
  mode <- MCMode
  MaxId = 2
  ConsoleRf = {}
  MaxPending = 1
  ResetWhileActive = TRUE
  LinkLoss = TRUE
  in = in
  lm = lm
  m1 = m1
  Link = {in, lm}
  NoSaps = lm
  Served = {in}
  Named = {in}
  Msg = {m1}
  SeqMod = 2
  MaxQueue = 1
SPECIFICATION EmuSpec
CHECK_DEADLOCK FALSE
INVARIANTS
  DataFindsLinks
  LateAtMostOnce
  
