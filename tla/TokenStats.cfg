SPECIFICATION TSSpec
CONSTANTS
  Call = {c1, c2, c3}
  Key = {k1}
  NoCall = NoCall
  Id = {i1, i2, i3}
  MaxCrashes = 1
  ReadFaults = FALSE
INVARIANTS MutualExclusion FirstComeFirstServed NothingLost CountedOncePerId
PROPERTIES EveryAttemptEnds RefinesGrowOnly
CHECK_DEADLOCK FALSE
