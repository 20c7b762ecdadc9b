SPECIFICATION DialogueSpec
CONSTANTS
  Commands <- WithQuitNc
  Malformed = {}
  Failures <- AllFailures
  Verdicts <- Replying
  Offers <- SomeOffers
  MaxSent <- TwoSent
  MaxWire <- ThreeWire
INVARIANT NoMutualWait
CHECK_DEADLOCK FALSE
