SPECIFICATION Spec
CONSTANTS
  MaxTime = 3
  MaxPages = 4
  Content <- Contents
INVARIANTS
  HistoryIgnoresOrder
  DeletionSurvivesFold
  FoldAgreesWhenCarried
CHECK_DEADLOCK FALSE
