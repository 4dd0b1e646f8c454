SPECIFICATION Spec
CONSTANTS
  Keys <- TwoAlts
  HeldAtStart <- NoKeys
  RepeatingAtStart <- NoKeys
  SendInputMayFail = FALSE
  Interruptions = FALSE
INVARIANTS
  NoStrayRelease
