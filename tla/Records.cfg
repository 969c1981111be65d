SPECIFICATION Spec
CONSTANTS
  o1 = o1
  o2 = o2
  o3 = o3
  s1 = s1
  s2 = s2
  NoRecord = NoRecord
  NoOp = NoOp
  Unanswered = Unanswered
  Op = {o1, o2, o3}
  Servers <- Plan
  Start = 4
  Scenarios <- AllScenarios
INVARIANTS
  TypeOK
  DeletedStaysDeletedInTurn
  EditsKeptInTurn
PROPERTIES
  ReadersOnlyAdvance
  OperationsEnd
CHECK_DEADLOCK FALSE
