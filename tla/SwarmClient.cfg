SPECIFICATION FairSpec
CONSTANTS
  s1 = s1  s2 = s2  q1 = q1  q2 = q2  q3 = q3
  None = None
  Socks = {s1, s2}
  Reqs = {q1, q2, q3}
  MaxPending = 2
  MaxStarts = 1
INVARIANTS SingleConnection WaitsOnConnection ClosedIsTerminal
PROPERTIES RequestsSettle Reconnects
CHECK_DEADLOCK FALSE
