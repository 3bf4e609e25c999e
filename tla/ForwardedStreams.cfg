SPECIFICATION FairSpec
CONSTANTS
  Units = 3
  Window = 2
PROPERTIES ImplementsStream EndsPropagate BridgeEnds
CHECK_DEADLOCK FALSE
