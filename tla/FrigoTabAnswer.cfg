SPECIFICATION FairSpec
CONSTANTS
  Keys <- AltTab
  HeldAtStart <- NoKeys
  RepeatingAtStart <- NoKeys
  SendInputMayFail = FALSE
  Interruptions = TRUE
  MaxCandidates = 1
  NativeMayFail = TRUE
  Denial = FALSE
  Capacity = 1
  PostMayFail = FALSE
PROPERTIES
  TapEnds
  AdmissionAnswered
