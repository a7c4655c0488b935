SPECIFICATION Spec
CONSTANTS
  p1 = p1
  p2 = p2
  p3 = p3
  c1 = c1
  c2 = c2
  c3 = c3
  k1 = k1
  Players <- TwoPlayers
  Connections <- ThreeConnections
  Keys <- OneKey
  MinimumPlayers = 2
  MaxPlayers = 2
  EventLogCapacity = 1
  PrunesIdempotency = FALSE
  MaxEpoch = 2
  MaxEvents = 3
  MaxAcknowledged = 1
  MaxProgress = 0
  MaxRestarts = 1
  NoSession = NoSession
  NoPlayer = NoPlayer
  NoKey = NoKey
SYMMETRY Symmetry
INVARIANTS TypeOK RetriesApplyOnce LogReadsLikeAMatch SocketsAndSessionsAgree
CHECK_DEADLOCK FALSE
