SPECIFICATION FairSpec
CONSTANTS
  Connections <- TwoClients
  Signals <- AllSignals
  Faults <- AllFaults
  MAX_FAILS <- TwoFails
INVARIANT TypeOK
INVARIANT SelectsOpen
INVARIANT ClosedOnce
INVARIANT OneLate
INVARIANT NoLockCycle
INVARIANT StrongestStop
PROPERTY NoRunAfterFree
PROPERTY StopAdvances
PROPERTY KeepsLife
PROPERTY StopHonoured
CHECK_DEADLOCK FALSE
