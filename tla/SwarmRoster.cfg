SPECIFICATION RosterFairSpec
CONSTANTS
  m1 = m1  m2 = m2  fresh = fresh  busy = busy  done = done
  u1 = u1  u2 = u2  k1 = k1  k2 = k2  k3 = k3  k4 = k4
  None = None
  Absent = Absent
  Fresh = fresh
  Members = {m1, m2}
  Values = {fresh, busy, done}
  Updaters = {u1, u2}
  Timers = {k1, k2, k3}
  MaxJoins = 3
  MaxUpdates = 2
INVARIANT DirtyIsScheduled
PROPERTY UpdatesReachEverybody
