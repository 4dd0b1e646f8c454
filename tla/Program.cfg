SPECIFICATION Spec
CONSTANTS
  Processes <- TwoProcesses
INVARIANTS
  OneInstance
  NothingDangles
PROPERTIES
  RefusedByAnother
  CloseHonoured
  GivenUpHookEnds
