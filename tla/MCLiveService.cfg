SPECIFICATION Spec
CONSTANTS
  MaxAlertsInMemory = 1
  FetchAttempts = 2
  MaxFound = 2
  MaxStarts = 3
  MaxReceived = 1
INVARIANTS
  StopReaches
  StatusHasARun
PROPERTIES
  StoppedRunEnds
  DetectedIsDelivered
\* The process exits.
CHECK_DEADLOCK FALSE
