SPECIFICATION FairSpec
CONSTANTS
  s1 = s1  r1 = r1  window = window
  Sessions = {s1}
  Runs = {r1}
  Writers = {r1, window}
  MaxSessions = 1
  MaxSpawners = 1
  MaxRuns = 1
  MaxCalls = 3
INVARIANTS TableMatchesShells SendsReportTruly AnswersAreHeard
PROPERTIES ExitReported CallsReturn
CHECK_DEADLOCK FALSE
