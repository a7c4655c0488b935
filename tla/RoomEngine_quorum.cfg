SPECIFICATION FairSpec
CONSTANTS
  p1 = p1
  p2 = p2
  p3 = p3
  c1 = c1
  c2 = c2
  c3 = c3
  k1 = k1
  Players <- ThreePlayers
  Connections <- ThreeConnections
  Keys <- OneKey
  MinimumPlayers = 2
  MaxPlayers = 3
  EventLogCapacity = 4
  PrunesIdempotency = FALSE
  MaxEpoch = 1
  MaxEvents = 0
  MaxAcknowledged = 0
  MaxProgress = 0
  MaxRestarts = 0
  NoSession = NoSession
  NoPlayer = NoPlayer
  NoKey = NoKey
PROPERTIES ReadyQuorumStarts
CHECK_DEADLOCK FALSE
