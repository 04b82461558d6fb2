SPECIFICATION Spec
CONSTANTS
  s1 = s1  s2 = s2  a1 = a1  c1 = c1  c2 = c2  L0 = L0  L1 = L1  g1 = g1
  None = None
  Ids = {s1, s2, a1, c1, c2}
  Groups = {g1}
  KindOf <- Kinds
  LockedIds = {}
  Layers = {L0, L1}
  DefaultLayer = L0
  Files <- TheFiles
  Places = 2
  MaxHistory = 2
  MaxSelection = 2
  MaxSteps = 3
INVARIANTS
  HistoryConsistent
  OrderCoversDoc
  NoDanglingReference
  ParentsAcyclic
PROPERTY WalksTimeline
CHECK_DEADLOCK FALSE
