SPECIFICATION EngineSpec
CONSTANTS
  Commands <- WithUnknown
  Malformed = {}
  Failures = {"lost"}
  Verdicts = {"CONTINUE"}
INVARIANT MessageClosed
CHECK_DEADLOCK FALSE
