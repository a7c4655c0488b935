SPECIFICATION FairSpec
CONSTANTS
  EventLogCapacity = 4
  ReplayBatchSize = 1
  MaxBufferedEvents = 1
  SocketBuffer = 2
  MaxEvents = 5
  MaxFaults = 2
INVARIANTS TypeOK AcknowledgedWasDelivered
PROPERTIES FollowsTheLog OnlyLossOrForgettingLocksOut CatchesUp
CHECK_DEADLOCK FALSE
