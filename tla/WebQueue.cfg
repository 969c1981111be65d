SPECIFICATION FairSpec
CONSTANTS
  MaxInputs = 3
  Turns = {t1, t2}
  NoTurn = NoTurn
CONSTRAINT
  Bounded
INVARIANTS
  KeptInTurn
  OnceInTurn
PROPERTIES
  LoopTakes
  StopEnds
CHECK_DEADLOCK FALSE
