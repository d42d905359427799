SPECIFICATION Spec
CONSTANTS
  MaxTriggers = 2
  QueueCapacity = 1
  TriggerBuffer = 1
  Methods <- BothMethods
PROPERTIES
  LedgerSpec
  CancelledRunReturns
CHECK_DEADLOCK FALSE
