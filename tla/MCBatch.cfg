SPECIFICATION FairSpec
CONSTANTS
  MaxMessages = 3
  Streams <- TestStreams
  Parallel = 2
INVARIANTS
  BatchAnswered
  ResultsFit
PROPERTY
  EveryMessageFinishes
CHECK_DEADLOCK FALSE
