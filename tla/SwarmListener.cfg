SPECIFICATION FairSpec
CONSTANTS
  c1 = c1  c2 = c2  c3 = c3
  Conns = {c1, c2, c3}
  MaxInflight = 2
  Capacity = 2
INVARIANT HandshakesCapped
PROPERTY StopEndsServed
CHECK_DEADLOCK FALSE
