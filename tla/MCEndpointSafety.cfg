SPECIFICATION Spec
CONSTANTS
  Calls = {c1, c2}
  Timed = {c2}
  Notes = {n1}
  Requests = {r1}
  Notifications = {m1}
  Broken = {}
  Parallel = 1
  ChannelCap = 1
  SinkCap = 1
  MaxClients = 2
INVARIANTS
  TypeOK
  NoWaiterLeftBehind
  NoStaleEntry
  CallbackMayUnwrap
  EndRefusesClients
  TerminatedMeansUnwanted
  GracefulCloseDelivers
PROPERTY
  RefinesRpcCalls
