SPECIFICATION Spec
CONSTANTS
  Keys <- CtrlAndShift
  HeldAtStart <- HeldModifiers
  RepeatingAtStart <- HeldShift
  SendInputMayFail = TRUE
  Interruptions = TRUE
INVARIANTS
  GateExclusive
  NoStuckKey
  NoStrayRelease
  GateClears
  SessionOwnsAlt
PROPERTIES
  Quarantine
