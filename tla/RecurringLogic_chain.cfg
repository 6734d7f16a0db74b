SPECIFICATION FairSpec
CONSTANTS
  MaxIteration = 3
  MaxOccurrence = 4
  Requests <- RequestKinds
CHECK_DEADLOCK FALSE
INVARIANTS OneChain IterationsCounted ChainAlive OneLateOccurrence
PROPERTIES Concludes
