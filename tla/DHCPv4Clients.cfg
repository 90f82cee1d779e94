SPECIFICATION Spec
CONSTANTS
  c1 = c1
  c2 = c2
  c3 = c3
  w1 = w1
  w2 = w2
  Clients = {c1, c2, c3}
  Pool = {1, 2}
  Reserved = {}
  Foreign = {}
  Names = {5}
  Workers = {w1, w2}
  Ids = {1, 2, 3, 4, 5}
  LeaseTime = 0
  Pings = TRUE
  MaxTime = 2
  MaxPacket = 5
  MaxDecline = 0
  MaxAdmin = 0
  MaxRestart = 1
  MaxFault = 0
SYMMETRY Symmetry
INVARIANTS TypeOK  
PROPERTIES CommittedKept
CHECK_DEADLOCK FALSE
