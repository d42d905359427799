SPECIFICATION FairSpec
CONSTANTS
  a1 = a1
  a2 = a2
  b1 = b1
  b2 = b2
  Chats = {a1, a2}
  Broadcasts = {b1}
  Chunks = 2
  MaxRetries = 1
  MaxUpdates = 2
  MaxFailures = 1
  MaxRestarts = 1
CHECK_DEADLOCK FALSE
INVARIANTS StoreKeepsConfirmed CaughtUpIsExact ChunksInOrder NilMeansDelivered FailureIsIsolated TelegramInv
PROPERTIES RecipientsAreSubscribed UpdatesAreHandled BroadcastsReturn
