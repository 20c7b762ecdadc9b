SPECIFICATION DialogueFair
CONSTANTS
  Commands <- DialogueCommands
  Malformed <- DialogueMalformed
  Failures <- AllFailures
  Verdicts <- Replying
  Offers <- SomeOffers
  MaxSent <- TwoSent
  MaxWire <- ThreeWire
INVARIANT DialogueTypeOK
INVARIANT InStep
INVARIANT ChangesAtEom
INVARIANT NoMutualWait
INVARIANT SameMessage
PROPERTY EngineAdvances
PROPERTY Answered
CHECK_DEADLOCK FALSE
