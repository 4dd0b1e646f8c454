SPECIFICATION Spec
CONSTANTS
  Keys <- TwoShifts
  HeldAtStart <- NoKeys
  RepeatingAtStart <- NoKeys
  SendInputMayFail = FALSE
  Interruptions = FALSE
INVARIANTS
  GateClears
PROPERTIES
  Quarantine
