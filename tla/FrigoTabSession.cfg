SPECIFICATION Spec
CONSTANTS
  Keys <- AltTab
  HeldAtStart <- NoKeys
  RepeatingAtStart <- NoKeys
  SendInputMayFail = TRUE
  Interruptions = TRUE
  MaxCandidates = 1
  NativeMayFail = TRUE
  Denial = TRUE
  Capacity = 1
  PostMayFail = TRUE
INVARIANTS
  VisibleIsGuarded
  GuardHasReason
PROPERTIES
  DrivesHook
