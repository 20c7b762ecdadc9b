SPECIFICATION SessionSpec
CONSTANTS
  Commands <- Opening
  Malformed = {}
  Failures = {"lost"}
  Verdicts = {"CONTINUE", "TEMPFAIL"}
  EnableMruby = TRUE
  Handlers = {}
  Broken = {}
  Families = {"inet"}
  Recipients = {"r1"}
  RcptMacro = TRUE
  EarlyEnd = TRUE
INVARIANT PrivAsExpected
CHECK_DEADLOCK FALSE
