SPECIFICATION FairSpec
CONSTANTS
  p1 = p1
  p2 = p2
  g1 = g1
  t1 = t1
  t2 = t2
  Void = Void
  None = None
  Persistent <- Desktops
  Transient <- Games
  Threads <- TwoThreads
  MaxWaitTicks = 3
  MaxEvents = 3
  NativeMayFail = TRUE
INVARIANTS
  RefreshAccounted
  PostsToOwner
PROPERTIES
  BackdropCovers
  HandlersReturn
  FrameCatchesUp
CHECK_DEADLOCK FALSE
