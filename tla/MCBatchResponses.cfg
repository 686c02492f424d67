SPECIFICATION Spec
CONSTANTS
  MaxMessages = 3
  Streams <- TestStreams
  Parallel = 2
INVARIANT ResponsesGetThrough
CHECK_DEADLOCK FALSE
