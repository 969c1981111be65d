SPECIFICATION Spec
CONSTANTS
  Chains = 2
  Lines = 3
  Wake = {w1}
  MaxCommands = 1
  MaxForced = 1
INVARIANTS TurnsAreAccountedFor NothingTwice QueueOrder
PROPERTIES CleanEndDrains StopKeepsQueue OnlyAbortLoses QueueNotStuck
CHECK_DEADLOCK FALSE
