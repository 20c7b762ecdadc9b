SPECIFICATION Spec
CONSTANTS
  Sessions = {s1, s2}
  Workers = {w1}
  min = 1
  none = none
SYMMETRY Symmetry
INVARIANT RunningHasWorker
CHECK_DEADLOCK FALSE
