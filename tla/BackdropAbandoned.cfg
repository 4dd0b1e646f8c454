SPECIFICATION FairSpec
CONSTANTS
  p1 = p1
  p2 = p2
  g1 = g1
  t1 = t1
  t2 = t2
  Void = Void
  None = None
  Persistent <- Desktops
  Transient <- NoGames
  Threads <- TwoThreads
  MaxWaitTicks = 3
  MaxEvents = 2
  NativeMayFail = FALSE
PROPERTIES
  PersistedChangeReplaces
CHECK_DEADLOCK FALSE
