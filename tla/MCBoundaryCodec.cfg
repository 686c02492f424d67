SPECIFICATION FairSpec
CONSTANTS
  Inputs <- Texts
  MaxInput = 6
  MaxFrames = 4
INVARIANTS
  TypeOK
  FramesAreInput
  TruncationFails
PROPERTY
  ReaderEnds
CHECK_DEADLOCK FALSE
