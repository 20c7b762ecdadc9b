SPECIFICATION Spec
CONSTANTS
  Connections = {"c1"}
  Signals = {"TERM"}
  Faults = {}
  MAX_FAILS <- TwoFails
INVARIANT ToldToExit
CHECK_DEADLOCK FALSE
