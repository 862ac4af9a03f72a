CONSTANTS
  u1 = u1
  u2 = u2
  d1 = d1
  Users = {u1, u2}
  Devices = {d1}
  Port = Port
  NoUser = NoUser
  DeviceOf <- SameDevice
  TimeoutUsers = {}
  AutoConnect = {Port}
  RequestPriorities = {"low"}
  Cancellers = {}
  QueueWhileActive = TRUE
  MaxRequests = 3
  MaxBlocks = 2
  MaxChanges = 0
  MaxFrees = 0
SPECIFICATION FairSpec
INVARIANTS
  BlockedServesHolder
PROPERTIES
  KeepsPromise
  RequestsServed
CHECK_DEADLOCK FALSE
