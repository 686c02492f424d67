SPECIFICATION FairSpec
CONSTANTS
  Calls = {c1}
  Timed = {}
  Notes = {}
  Requests = {r1}
  Notifications = {}
  Broken = {}
  Parallel = 1
  ChannelCap = 1
  SinkCap = 1
  MaxClients = 1
PROPERTY HandlersFinish
