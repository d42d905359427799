SPECIFICATION Safety
CONSTANTS
  c1 = c1
  c2 = c2
  Connections = {c1, c2}
  RingSize = 2
  SubscriberBuffer = 1
  SocketSize = 1
  MaxEvents = 3
SYMMETRY ConnectionSymmetry
INVARIANTS RingHoldsRecent ReplayNeverBlocks NoSendOnClosedChannel HistoryWithoutGaps LogInv
CHECK_DEADLOCK FALSE
