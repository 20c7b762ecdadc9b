SPECIFICATION EngineSpec
CONSTANTS
  Commands <- AllCommands
  Malformed <- AnyMalformed
  Failures <- AllFailures
  Verdicts <- AllVerdicts
INVARIANT EngineTypeOK
INVARIANT ConnectionBalanced
PROPERTY ForgottenOnlyBy
CHECK_DEADLOCK FALSE
