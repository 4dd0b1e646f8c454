SPECIFICATION FairSpec
CONSTANTS
  Capacity = 2
  Kinds <- TwoKinds
  Critical <- Ending
  Reentrant <- InHandler
  PostMayFail = TRUE
  MaxInputs = 5
  MaxInvalidations = 2
INVARIANTS
  Accounting
  SlotForReservation
  ReserveKept
  ShutdownReleasesAll
PROPERTIES
  ImplementsQueue
  NothingStranded
CHECK_DEADLOCK FALSE
