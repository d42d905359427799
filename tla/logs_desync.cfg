SPECIFICATION Safety
CONSTANTS
  c1 = c1
  c2 = c2
  Connections = {c1}
  RingSize = 2
  SubscriberBuffer = 1
  SocketSize = 2
  MaxEvents = 1
PROPERTY StreamEndsWithDaemon
CHECK_DEADLOCK FALSE
