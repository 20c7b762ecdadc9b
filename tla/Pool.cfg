SPECIFICATION FairSpec
CONSTANTS
  Sessions = {s1, s2}
  Workers = {w1, w2, w3}
  min = 2
  none = none
INVARIANT TypeOK
INVARIANT NoLostWakeup
INVARIANT OneWorkerPerSession
INVARIANT CountersExact
INVARIANT NoSleepOverWork
INVARIANT MinimumKept
PROPERTY StrandedByThread
PROPERTY KeepsLife
PROPERTY ReadyIsRun
CHECK_DEADLOCK FALSE
