SPECIFICATION Spec
CONSTANTS
  Scenarios <- OneWait
  MaxAttempts = 2
  MaxWaits = 1
  NoCopy = NoCopy
PROPERTY
  TerminalStays
CHECK_DEADLOCK FALSE
