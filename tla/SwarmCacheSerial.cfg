SPECIFICATION SerialSpec
CONSTANTS
  a = a  b = b  t1 = t1  t2 = t2  c1 = c1  c2 = c2  c3 = c3  r1 = r1  r2 = r2
  None = None
  Sweeper = Sweeper
  Ids = {a, b}
  Tabs = {t1, t2}
  Conns = {c1, c2}
  Resources = {r1}
  MaxColleagues = 2
  MaxClaims = 1
  StaleAge = 1
  DeadAge = 2
  EvictionGap = 0
  MinTtl = 1
  MaxTtl = 1
  Capacity = 1
SYMMETRY Interchangeable
INVARIANT CachesConvergeSerially
CHECK_DEADLOCK FALSE
