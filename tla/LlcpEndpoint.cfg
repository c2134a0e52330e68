\* Any PDU at any time, any console operation; two messages.
CONSTANTS
  in = in
  lm = lm
  m1 = m1
  m2 = m2
  Link = {in, lm}
  NoSaps = lm
  Served = {in}
  Named = {in}
  Msg = {m1, m2}
  SeqMod = 2
  MaxQueue = 2
SPECIFICATION Spec
SYMMETRY MCSymmetry
CHECK_DEADLOCK FALSE
INVARIANTS
  TypeOK
  TurnIffTimeout
  
  AtMostOnce
  PendingInSequence
  ReceivedWhileConnected
  TurnBounded
PROPERTIES
  
  ImplementsMailbox
