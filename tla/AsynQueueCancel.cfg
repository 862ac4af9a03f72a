CONSTANTS
  u1 = u1
  u2 = u2
  d1 = d1
  Users = {u1, u2}
  Devices = {d1}
  Port = Port
  NoUser = NoUser
  DeviceOf <- SameDevice
  TimeoutUsers = {u1}
  AutoConnect = {d1, Port}
  RequestPriorities = {"low", "connect"}
  Cancellers = {u1, u2}
  QueueWhileActive = FALSE
  MaxRequests = 2
  MaxBlocks = 0
  MaxChanges = 1
  MaxFrees = 1
SPECIFICATION FairSpec
INVARIANTS
  FreeListQuiet
  OneCallback
  CancelWaits
  ScanElementQueued
  NoLostWakeup
PROPERTIES
  TimedRequestEnds
  CancelReturns
CHECK_DEADLOCK FALSE
