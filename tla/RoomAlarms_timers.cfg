SPECIFICATION FairSpec
CONSTANTS
  a = a
  b = b
  t1 = t1
  t2 = t2
  Players <- TwoPlayers
  Callers <- TwoTasks
  Grace = 1
  StartDelay = 1
  MaxClock = 1
  MaxFaults = 1
PROPERTIES OnlyTheseForgetARoom StoppedServersDoNotSweep DueRoomsAreSwept
CHECK_DEADLOCK FALSE
