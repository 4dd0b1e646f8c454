SPECIFICATION Spec
CONSTANTS
  Sources = {"a", "b"}
  Nothing = "none"
  NativeMayFail = TRUE
  Flicker = TRUE
INVARIANTS
  FlagsAgree
  PicturesCurrent
  WatchedWhileShown
PROPERTIES
  ReplacementsKeepChoice
  ImplementsPort
  GoneTilesLeave
