SPECIFICATION SessionSpec
CONSTANTS
  Commands <- NoHelo
  Malformed = {}
  Failures = {}
  Verdicts = {"CONTINUE", "TEMPFAIL"}
  EnableMruby = TRUE
  Handlers = {"envfrom", "eom"}
  Broken = {}
  Families = {"inet"}
  Recipients = {"r1"}
  RcptMacro = TRUE
  EarlyEnd = FALSE
INVARIANT SenderFreed
CHECK_DEADLOCK FALSE
