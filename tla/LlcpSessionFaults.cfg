\* A host that refuses and closes links, an endpoint that is activated again.
CONSTANTS
  in = in
  to = to
  lm = lm
  m1 = m1
  m2 = m2
  Link = {in, to, lm}
  NoSaps = lm
  Served = {in}
  Named = {to}
  Msg = {m1}
  SeqMod = 2
  MaxQueue = 2
  MaxWire = 3
  HostCloses = TRUE
  Reactivates = TRUE
SPECIFICATION SessionSpec
CHECK_DEADLOCK FALSE
INVARIANTS
  LinksAgree
