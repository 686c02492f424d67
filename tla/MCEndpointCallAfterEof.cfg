SPECIFICATION FairSpec
CONSTANTS
  Calls = {c1}
  Timed = {}
  Notes = {}
  Requests = {}
  Notifications = {}
  Broken = {}
  Parallel = 1
  ChannelCap = 1
  SinkCap = 1
  MaxClients = 1
PROPERTY CallsResolve
