SPECIFICATION Spec
CONSTANTS
  MaxInputs = 2
  Turns = {t1, t2}
  NoTurn = NoTurn
PROPERTIES
  StopGivesUp
CHECK_DEADLOCK FALSE
