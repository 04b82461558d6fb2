SPECIFICATION FairSpec
CONSTANTS
  a = a  b = b  t1 = t1  t2 = t2  c1 = c1  c2 = c2  r1 = r1
  None = None
  Ids = {a, b}
  Tabs = {t1, t2}
  Conns = {c1, c2}
  Resources = {r1}
  MaxColleagues = 1
  MaxClaims = 1
  StaleAge = 1
  DeadAge = 2
  EvictionGap = 1
  MinTtl = 1
  MaxTtl = 2
INVARIANTS TablesBounded IndexConsistent
PROPERTIES
  OldConnectionHarmless
  ImplementsLease
  OrphanClaimFreed
  SilentColleagueLeaves
  StopDrains
