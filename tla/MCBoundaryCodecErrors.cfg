SPECIFICATION Spec
CONSTANTS
  Inputs <- Texts
  MaxInput = 2
  MaxFrames = 4
INVARIANT EveryResultEatsInput
CHECK_DEADLOCK FALSE
