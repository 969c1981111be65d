SPECIFICATION FairSpec
CONSTANTS
  Scenarios <- AllScenarios
  MaxAttempts = 2
  MaxWaits = 1
  NoCopy = NoCopy
INVARIANTS
  HolderExclusive
  OutcomeKept
  VerdictMeansGone
  OneClaim
  WokenOnce
PROPERTIES
  NoWakeAfterWait
  EndRecorded
CHECK_DEADLOCK FALSE
