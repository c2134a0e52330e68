\* Two messages over one connection.
CONSTANTS
  in = in
  to = to
  lm = lm
  m1 = m1
  m2 = m2
  Link = {in, to, lm}
  NoSaps = lm
  Served = {in}
  Named = {to}
  Msg = {m1, m2}
  SeqMod = 3
  MaxQueue = 3
  MaxWire = 3
  HostCloses = FALSE
  Reactivates = FALSE
SPECIFICATION SessionSpec
CHECK_DEADLOCK FALSE
INVARIANT InSequence
