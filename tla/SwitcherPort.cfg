SPECIFICATION Spec
CONSTANTS
  MaxCandidates = 3
  Keys <- AllKeys
  NativeMayFail = TRUE
  Denial = TRUE
INVARIANTS
  PortAgrees
PROPERTIES
  ImplementsPort
