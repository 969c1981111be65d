SPECIFICATION FairSpec
CONSTANTS
  r1 = r1
  r2 = r2
  p1 = p1
  p2 = p2
  Runs <- TwoRuns
  Processes <- TwoProcesses
  Scenarios <- Placements
  MaxCrashes = 1
  AppearsLate = FALSE
  ReadFaults = FALSE
  Nothing = Nothing
INVARIANTS
  AccountCap
  ReleasedIsGone
  SlotsExclusive
PROPERTIES
  RunsGoOn
CHECK_DEADLOCK FALSE
