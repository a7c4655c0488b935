SPECIFICATION Spec
CONSTANTS
  p1 = p1
  p2 = p2
  p3 = p3
  c1 = c1
  c2 = c2
  c3 = c3
  k1 = k1
  Players <- TwoPlayers
  Connections <- TwoConnections
  Keys <- OneKey
  MinimumPlayers = 2
  MaxPlayers = 2
  EventLogCapacity = 1
  PrunesIdempotency = TRUE
  MaxEpoch = 1
  MaxEvents = 3
  MaxAcknowledged = 0
  MaxProgress = 0
  MaxRestarts = 0
  NoSession = NoSession
  NoPlayer = NoPlayer
  NoKey = NoKey
INVARIANTS RetriesApplyOnce
CHECK_DEADLOCK FALSE
