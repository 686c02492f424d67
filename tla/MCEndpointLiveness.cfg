SPECIFICATION FairSpec
CONSTANTS
  Calls = {c1, c2}
  Timed = {c2}
  Notes = {}
  Requests = {r1}
  Notifications = {}
  Broken = {}
  Parallel = 2
  ChannelCap = 1
  SinkCap = 1
  MaxClients = 2
PROPERTIES
  TerminationCompletes
  EofCompletes
  KillCompletes
  HandlersFinish
  SendsComplete
  TimedCallsResolve
