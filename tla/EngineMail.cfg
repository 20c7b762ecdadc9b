SPECIFICATION EngineSpec
CONSTANTS
  Commands <- MailCommands
  Malformed <- MailMalformed
  Failures = {"lost", "unsent"}
  Verdicts <- AllVerdicts
INVARIANT MessageOrder
INVARIANT MessageClosed
PROPERTY KeepsContract
CHECK_DEADLOCK FALSE
