SPECIFICATION OrderlySpec
CONSTANTS
  LeftCalls = {}
  LeftTimed = {}
  LeftNotes = {m, n}
  RightCalls = {}
  RightTimed = {}
  RightNotes = {k, l}
  Parallel = 1
  ChannelCap = 1
  SinkCap = 1
  MaxClients = 1
  StreamCap = 1
PROPERTIES
  TerminationCompletes
