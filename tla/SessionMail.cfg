SPECIFICATION SessionSpec
CONSTANTS
  Commands <- MailCommands
  Malformed <- MailMalformed
  Failures <- AllFailures
  Verdicts <- AllVerdicts
  EnableMruby = TRUE
  Handlers <- MostScripts
  Broken <- SomeBroken
  Families = {"inet"}
  Recipients = {"r1", "r2"}
  RcptMacro = TRUE
  EarlyEnd = FALSE
INVARIANT SessionTypeOK
INVARIANT PrivAsExpected
INVARIANT SessionFreed
INVARIANT ReadsValid
INVARIANT RecipientMatches
INVARIANT CodeFreed
PROPERTY SenderLostEarly
PROPERTY OnlyScriptsDecide
CHECK_DEADLOCK FALSE
