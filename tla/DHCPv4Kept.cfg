SPECIFICATION Spec
CONSTANTS
  c1 = c1
  c2 = c2
  c3 = c3
  w1 = w1
  w2 = w2
  Clients = {c1, c2}
  Pool = {1, 2}
  Reserved = {3}
  Foreign = {}
  Names = {5}
  Workers = {w1}
  Ids = {1, 2, 3, 4, 5}
  LeaseTime = 0
  Pings = FALSE
  MaxTime = 1
  MaxPacket = 3
  MaxDecline = 1
  MaxAdmin = 2
  MaxRestart = 0
  MaxFault = 1
SYMMETRY Symmetry
PROPERTIES StaticKept
CHECK_DEADLOCK FALSE
