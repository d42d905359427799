SPECIFICATION Safety
CONSTANTS
  MaxTriggers = 3
  QueueCapacity = 1
  TriggerBuffer = 2
  Methods <- BothMethods
INVARIANTS
  NoSendOnClosedQueue
  ReturnLeavesNothing
  PipelineInv
CHECK_DEADLOCK FALSE
