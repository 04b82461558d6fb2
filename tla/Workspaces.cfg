SPECIFICATION Spec
CONSTANTS
  w1 = w1  w2 = w2  file = file  diff = diff  None = None
  RegionIds = {1, 2, 3, 4, 5}
  TabIds = {1, 2, 3, 4, 5, 6}
  Sessions = {1, 2, 3, 4, 5}
  Views = {file, diff}
  UniqueViews = {file}
  MaxSpawns = 1
  WorkspaceIds = {w1, w2}
  Boots <- TheBoots
  MaxOps = 2
INVARIANTS
  TypeOK
  LayoutConsistent
  NoTabLosesItsShell
  DiskFollowsStore
  OnlyStrandedAreDead
PROPERTY PendingTabsWake
CHECK_DEADLOCK FALSE
