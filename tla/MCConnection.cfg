SPECIFICATION FairSpec
CONSTANTS
  LeftCalls = {a}
  LeftTimed = {}
  LeftNotes = {}
  RightCalls = {b}
  RightTimed = {b}
  RightNotes = {}
  Parallel = 1
  ChannelCap = 1
  SinkCap = 2
  MaxClients = 1
  StreamCap = 1
INVARIANTS
  AnswersAgree
  NothingUnread
PROPERTIES
  EndIsNoticed
  CallsHangOnlyIf
